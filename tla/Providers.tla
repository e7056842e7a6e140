-------------------------------- MODULE Providers --------------------------------
(***************************************************************************)
(* The embedding providers, of which a process has one: Ollama             *)
(* (core/embeddings/ollama.ts) learns from its first answer whether the    *)
(* server embeds many texts at once; ONNX (core/embeddings/onnx.ts) loads  *)
(* its model once, however many calls wait for it, and again after a       *)
(* failure.  Both share a field between concurrent calls across awaits.    *)
(***************************************************************************)
EXTENDS Integers, FiniteSets

CONSTANTS
    Calls,      \* calls of embed
    MaxLoads    \* bound: how often the model is loaded; the last time works

Loads == 1..MaxLoads

ASSUME LoadsAssumption == MaxLoads \in Nat

(***************************************************************************)
(* Where a call is: at the batch endpoint, at the endpoint for one text    *)
(* (or in the model), waiting for a load of the model, or over.            *)
(***************************************************************************)
Stages == {"none", "batch", "single", "load", "answered", "failed"}

VARIABLES
    kind,       \* "ollama" or "onnx"
    endpoint,   \* whether the Ollama server has the batch endpoint
    batch,      \* batchSupported: "unknown", "yes" or "no"
    asking,     \* [Calls -> Stages]
    pipeline,   \* pipelinePromise: the load it belongs to, 0 for null
    load,       \* [Loads -> "none", "running", "done" or "failed"]
    waits,      \* [Calls -> the load a call waits for, or 0]
    beside,     \* history variable: calls that met another batch request
    tried       \* history variable: calls that asked for one text at a time

providers == <<kind, endpoint, batch, asking, pipeline, load, waits, beside, tried>>
ollama == <<endpoint, batch, beside, tried>>
onnx == <<pipeline, load, waits>>

InitProviders ==
    /\ kind \in {"ollama", "onnx"}
    /\ endpoint \in IF kind = "ollama" THEN BOOLEAN ELSE {FALSE}
    /\ batch = "unknown"
    /\ asking = [c \in Calls |-> "none"]
    /\ pipeline = 0
    /\ load = [n \in Loads |-> "none"]
    /\ waits = [c \in Calls |-> 0]
    /\ beside = {}
    /\ tried = {}

Turn(c, s) == asking' = [asking EXCEPT ![c] = s]

-----------------------------------------------------------------------------
(* OllamaEmbeddingProvider.embed: batchSupported is read, the request goes *)
(* out.                                                                    *)
EmbedOllama(c) ==
    /\ kind = "ollama" /\ asking[c] = "none"
    /\ Turn(c, IF batch = "no" THEN "single" ELSE "batch")
    /\ tried' = IF batch = "no" THEN tried \cup {c} ELSE tried
    /\ LET others == {d \in Calls : asking[d] = "batch"} IN
        beside' = IF batch = "no" \/ others = {} THEN beside
                  ELSE beside \cup others \cup {c}
    /\ UNCHANGED <<kind, endpoint, batch, onnx>>

BatchAnswers(c) ==
    /\ asking[c] = "batch" /\ endpoint
    /\ batch' = "yes"
    /\ Turn(c, "answered")
    /\ UNCHANGED <<kind, endpoint, beside, tried, onnx>>

(* Mistake: the fallback is noted for later calls and this one rejects.    *)
BatchFailsAndThrows(c) ==
    /\ asking[c] = "batch"
    /\ Turn(c, "failed")
    /\ batch' = IF batch = "unknown" THEN "no" ELSE batch
    /\ UNCHANGED <<kind, endpoint, beside, tried, onnx>>

(***************************************************************************)
(* A failed batch request, for whatever reason, is the end of batching if  *)
(* nothing is known yet, and the call goes on one text at a time.  If      *)
(* another call has settled the matter while this one waited, either way,  *)
(* this one rejects.                                                       *)
(***************************************************************************)
BatchFails(c) ==
    /\ asking[c] = "batch"
    /\ IF batch = "unknown"
       THEN batch' = "no" /\ Turn(c, "single") /\ tried' = tried \cup {c}
       ELSE Turn(c, "failed") /\ UNCHANGED <<batch, tried>>
    /\ UNCHANGED <<kind, endpoint, beside, onnx>>

-----------------------------------------------------------------------------
(* OnnxEmbeddingProvider.getPipeline: join the load under way, or the one  *)
(* that is done, or begin one.                                             *)
EmbedOnnx(c) ==
    /\ kind = "onnx" /\ asking[c] = "none"
    /\ IF pipeline # 0
       THEN /\ IF load[pipeline] = "running"
               THEN Turn(c, "load") /\ waits' = [waits EXCEPT ![c] = pipeline]
               ELSE /\ Turn(c, IF load[pipeline] = "done" THEN "single" ELSE "failed")
                    /\ UNCHANGED waits
            /\ UNCHANGED <<pipeline, load>>
       ELSE \E n \in Loads :
            /\ load[n] = "none" /\ \A m \in Loads : m < n => load[m] # "none"
            /\ pipeline' = n
            /\ load' = [load EXCEPT ![n] = "running"]
            /\ waits' = [waits EXCEPT ![c] = n]
            /\ Turn(c, "load")
    /\ UNCHANGED <<kind, ollama>>

Wake(n, s) ==
    /\ asking' = [c \in Calls |-> IF waits[c] = n THEN s ELSE asking[c]]
    /\ waits' = [c \in Calls |-> IF waits[c] = n THEN 0 ELSE waits[c]]

LoadEnds(n) ==
    /\ load[n] = "running"
    /\ load' = [load EXCEPT ![n] = "done"]
    /\ Wake(n, "single")
    /\ UNCHANGED <<kind, ollama, pipeline>>

(* The load itself, not those who wait for it, takes its promise away.     *)
LoadFails(n) ==
    /\ load[n] = "running" /\ n < MaxLoads
    /\ load' = [load EXCEPT ![n] = "failed"]
    /\ pipeline' = 0
    /\ Wake(n, "failed")
    /\ UNCHANGED <<kind, ollama>>

-----------------------------------------------------------------------------
Single(c) ==
    /\ asking[c] = "single"
    /\ Turn(c, "answered") \/ Turn(c, "failed")
    /\ UNCHANGED <<kind, ollama, onnx>>

Embed(c) == EmbedOllama(c) \/ EmbedOnnx(c)

Answer(c) == BatchAnswers(c) \/ BatchFails(c) \/ Single(c)

LoadSettles(n) == LoadEnds(n) \/ LoadFails(n)

(* The result is taken, and the slot may be used for the next call.        *)
Take(c) ==
    /\ asking[c] \in {"answered", "failed"}
    /\ Turn(c, "none")
    /\ beside' = beside \ {c}
    /\ tried' = tried \ {c}
    /\ UNCHANGED <<kind, endpoint, batch, onnx>>

TypeOKProviders ==
    /\ kind \in {"ollama", "onnx"}
    /\ endpoint \in BOOLEAN
    /\ batch \in {"unknown", "yes", "no"}
    /\ asking \in [Calls -> Stages]
    /\ pipeline \in 0..MaxLoads
    /\ load \in [Loads -> {"none", "running", "done", "failed"}]
    /\ waits \in [Calls -> 0..MaxLoads]
    /\ beside \subseteq Calls /\ tried \subseteq Calls

(* "we fall back to per-prompt calls transparently" (ollama.ts:20): on a   *)
(* server without the batch endpoint a call never fails before it has      *)
(* asked text by text, and never asks for a batch once that is known,      *)
(* unless it met the batch request of another call.                        *)
FallsBack ==
    kind = "ollama" /\ ~endpoint =>
        \A c \in Calls \ beside :
            /\ asking[c] = "failed" => c \in tried
            /\ asking[c] = "batch" => batch = "unknown"

(* However many calls come first, the model is loaded once at a time, and  *)
(* none of them waits for a load that is over or finds one that failed.    *)
LoadShared ==
    /\ Cardinality({n \in Loads : load[n] = "running"}) <= 1
    /\ pipeline # 0 => load[pipeline] \in {"running", "done"}
    /\ \A c \in Calls : asking[c] = "load" => waits[c] # 0 /\ load[waits[c]] = "running"

(***************************************************************************)
(* What the calls share across their awaits misleads none of them.         *)
(***************************************************************************)
ProviderShared == TypeOKProviders /\ FallsBack /\ LoadShared
=============================================================================
