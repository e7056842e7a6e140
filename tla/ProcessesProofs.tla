----------------------------- MODULE ProcessesProofs ----------------------------
(***************************************************************************)
(* Proofs about the processes that come and go beside each other: a server *)
(* from its start to its exit (Server, and so Providers as it uses them),  *)
(* and the imports that a schedule and the operator start (Import).  Every *)
(* safety property of their runs is proved.                                *)
(*                                                                         *)
(* The server first, for any number of requests, loads of the model and    *)
(* signals.  None of its properties is inductive: each part of the         *)
(* invariant below says what one flow of control may take for granted of   *)
(* the others, how far the start is and what is open then, how far each    *)
(* shutdown is and what it has closed, who has been told of what threw,    *)
(* which load of the model a call waits for.                               *)
(***************************************************************************)
EXTENDS Server, Import, FiniteSetTheorems, TLAPS

(***************************************************************************)
(* The calls of Ollama's provider: once batching is known not to work,     *)
(* only a call that met another one can be left with a batch request.      *)
(***************************************************************************)
Fallback ==
    kind = "ollama" /\ ~endpoint =>
        /\ batch # "yes"
        /\ \A c \in Calls \ beside :
            /\ asking[c] \in {"single", "failed"} => c \in tried
            /\ asking[c] = "batch" => batch = "unknown"
        /\ \A c, d \in Calls :
            asking[c] = "batch" /\ asking[d] = "batch" /\ c # d => c \in beside

(* The calls of ONNX's provider: the load that runs is the one the promise *)
(* stands for, and whoever waits, waits for that one.                      *)
OneLoad ==
    /\ \A n \in Loads : load[n] = "running" => pipeline = n /\ kind = "onnx"
    /\ pipeline # 0 => load[pipeline] \in {"running", "done"}
    /\ \A c \in Calls : asking[c] = "load" <=> waits[c] # 0
    /\ \A c \in Calls : waits[c] # 0 => load[waits[c]] = "running"

Provided == TypeOKProviders /\ Fallback /\ OneLoad

-----------------------------------------------------------------------------
Unwinding == {"unwind transport", "unwind mcp", "unwind store"}

(* What the start has opened, and what it has taken down again.            *)
StartOK ==
    /\ start \in {"auth", "connect", "listen"} => db = "open"
    /\ start = "failed" => db # "open"
    /\ start \in {"down", "auth"} => mcp = "none" /\ transport = "none"
    /\ start \in {"connect", "listen"} => mcp # "left" /\ transport # "left"
    /\ start = "unwind mcp" /\ mode = "http" => transport # "open"
    /\ start \in {"unwind store", "failed"} =>
        mcp \notin {"built", "connected"} /\ transport # "open"
    /\ start = "listen" \/ listener # "none" => mode = "http"
    /\ start \in Unwinding => reported["start"] # "none"

(* Until the server is up nothing listens, nobody is served over HTTP and  *)
(* there is nothing to stop.                                               *)
QuietStart ==
    start # "up" =>
        /\ listener = "none"
        /\ \A k \in Signals : closing[k] = "none"
        /\ mode = "http" => \A r \in Requests : req[r] = "none" /\ ~client[r]

(* The shutdowns that have come past the listener, and past the others.    *)
BeyondListener == {"mcp", "transport", "store", "end"}
BeyondMcp == {"transport", "store", "end"}

(* What a shutdown has closed, and who has closed the store.               *)
ShutdownOK ==
    /\ \A k \in Signals :
        /\ closing[k] \in {"listener", "waiting", "late"} => mode = "http"
        /\ closing[k] \in BeyondListener /\ mode = "http" => listener = "closed"
        /\ closing[k] \in BeyondMcp => mcp \notin {"built", "connected"}
        /\ closing[k] \in {"store", "end"} => transport # "open"
        /\ closing[k] = "end" => db # "open"
    /\ start = "up" /\ db = "closed" => \E k \in Signals : closing[k] = "end"

(* Behind a closed listener there is no connection, and none comes.        *)
Drained == mode = "http" /\ listener = "closed" => \A r \in Requests : ~client[r]

(* What is left open has thrown, and that is not lost.                     *)
Told ==
    /\ "left" \in {db, mcp, transport} => \E f \in Flows : reported[f] # "none"
    /\ mode = "http" => \A f \in Flows : reported[f] = first[f]

CutOK == cut => mode = "stdio"

Served == TypeOK /\ StartOK /\ QuietStart /\ ShutdownOK /\ Drained /\ Told /\ CutOK

IInv == Provided /\ Served

-----------------------------------------------------------------------------
(* The provider, one lemma for each of its actions.                        *)

LEMMA ProviderRests ==
    ASSUME Provided, UNCHANGED providers
    PROVE  Provided'
BY DEF Provided, TypeOKProviders, Fallback, OneLoad, providers

LEMMA OllamaIsAsked ==
    ASSUME Provided, NEW c \in Calls, EmbedOllama(c)
    PROVE  Provided'
<1>1. TypeOKProviders'
    BY DEF Provided, TypeOKProviders, EmbedOllama, Turn, Stages, onnx
<1>2. Fallback'
    BY DEF Provided, TypeOKProviders, Fallback, EmbedOllama, Turn, Stages, onnx
<1>3. OneLoad'
    BY DEF Provided, TypeOKProviders, OneLoad, EmbedOllama, Turn, Stages, onnx
<1> QED
    BY <1>1, <1>2, <1>3 DEF Provided

LEMMA OllamaAnswers ==
    ASSUME Provided, NEW c \in Calls, BatchAnswers(c)
    PROVE  Provided'
<1>1. TypeOKProviders'
    BY DEF Provided, TypeOKProviders, BatchAnswers, Turn, Stages, onnx
<1>2. Fallback'
    BY DEF Provided, TypeOKProviders, Fallback, BatchAnswers, Turn, Stages, onnx
<1>3. OneLoad'
    BY DEF Provided, TypeOKProviders, OneLoad, BatchAnswers, Turn, Stages, onnx
<1> QED
    BY <1>1, <1>2, <1>3 DEF Provided

LEMMA OllamaFails ==
    ASSUME Provided, NEW c \in Calls, BatchFails(c)
    PROVE  Provided'
<1>1. TypeOKProviders'
    BY DEF Provided, TypeOKProviders, BatchFails, Turn, Stages, onnx
<1>2. Fallback'
    BY DEF Provided, TypeOKProviders, Fallback, BatchFails, Turn, Stages, onnx
<1>3. OneLoad'
    BY DEF Provided, TypeOKProviders, OneLoad, BatchFails, Turn, Stages, onnx
<1> QED
    BY <1>1, <1>2, <1>3 DEF Provided

LEMMA OnnxIsAsked ==
    ASSUME Provided, NEW c \in Calls, EmbedOnnx(c)
    PROVE  Provided'
<1> USE LoadsAssumption
<1>1. TypeOKProviders'
    BY DEF Provided, TypeOKProviders, EmbedOnnx, Turn, Stages, Loads, ollama
<1>2. Fallback'
    BY DEF Provided, TypeOKProviders, Fallback, EmbedOnnx, Turn, Stages, ollama
<1>3. CASE pipeline # 0
    <2>1. CASE load[pipeline] = "running"
        <3>1. /\ waits' = [waits EXCEPT ![c] = pipeline]
              /\ asking' = [asking EXCEPT ![c] = "load"]
              /\ UNCHANGED <<kind, pipeline, load>>
            BY <1>3, <2>1 DEF EmbedOnnx, Turn
        <3> QED
            BY <1>1, <1>2, <1>3, <2>1, <3>1 DEF Provided, TypeOKProviders, OneLoad
    <2>2. CASE load[pipeline] # "running"
        <3>1. PICK s \in {"single", "failed"} :
                asking' = [asking EXCEPT ![c] = s] /\ UNCHANGED <<kind, pipeline, load, waits>>
            BY <1>3, <2>2 DEF EmbedOnnx, Turn
        <3>2. asking[c] = "none"
            BY DEF EmbedOnnx
        <3>3. OneLoad'
            BY <3>1, <3>2 DEF Provided, TypeOKProviders, OneLoad
        <3> QED
            BY <1>1, <1>2, <3>3 DEF Provided
    <2> QED
        BY <2>1, <2>2
<1>4. CASE pipeline = 0
    <2>1. PICK n \in Loads :
            /\ pipeline' = n
            /\ load' = [load EXCEPT ![n] = "running"]
            /\ waits' = [waits EXCEPT ![c] = n]
            /\ asking' = [asking EXCEPT ![c] = "load"]
        BY <1>4 DEF EmbedOnnx, Turn
    <2>2. \A m \in Loads : load[m] # "running"
        BY <1>4 DEF Provided, OneLoad, Loads
    <2>3. \A d \in Calls : waits[d] = 0 /\ asking[d] # "load"
        BY <2>2 DEF Provided, OneLoad, TypeOKProviders, Loads
    <2>4. n # 0 /\ load'[n] = "running" /\ kind' = "onnx"
        BY <2>1 DEF Provided, TypeOKProviders, Loads, EmbedOnnx
    <2>5. OneLoad'
        BY <2>1, <2>2, <2>3, <2>4 DEF Provided, TypeOKProviders, OneLoad
    <2> QED
        BY <1>1, <1>2, <2>5 DEF Provided
<1> QED
    BY <1>1, <1>2, <1>3, <1>4 DEF Provided

(* A load that runs is the promise's, so whoever waits is woken by its end. *)
LEMMA LoadIsThere ==
    ASSUME Provided, NEW n \in Loads, LoadEnds(n)
    PROVE  Provided'
<1> USE LoadsAssumption
<1>1. pipeline = n /\ kind = "onnx" /\ n # 0
    BY DEF Provided, OneLoad, LoadEnds, Loads
<1>2. \A m \in Loads : m # n => load[m] # "running"
    BY <1>1 DEF Provided, OneLoad
<1>3. \A c \in Calls : waits[c] # 0 => waits[c] = n
    BY <1>2 DEF Provided, OneLoad, TypeOKProviders, Loads
<1>4. TypeOKProviders'
    BY DEF Provided, TypeOKProviders, LoadEnds, Wake, Stages, Loads, ollama
<1>5. Fallback'
    BY <1>1 DEF Fallback, LoadEnds, ollama
<1>6. \A c \in Calls : waits'[c] = 0 /\ asking'[c] # "load"
    BY <1>1, <1>3 DEF Provided, OneLoad, LoadEnds, Wake
<1>7. OneLoad'
    BY <1>1, <1>2, <1>6 DEF Provided, TypeOKProviders, OneLoad, LoadEnds
<1> QED
    BY <1>4, <1>5, <1>7 DEF Provided

LEMMA LoadIsOff ==
    ASSUME Provided, NEW n \in Loads, LoadFails(n)
    PROVE  Provided'
<1> USE LoadsAssumption
<1>1. pipeline = n /\ kind = "onnx" /\ n # 0
    BY DEF Provided, OneLoad, LoadFails, Loads
<1>2. \A m \in Loads : m # n => load[m] # "running"
    BY <1>1 DEF Provided, OneLoad
<1>3. \A c \in Calls : waits[c] # 0 => waits[c] = n
    BY <1>2 DEF Provided, OneLoad, TypeOKProviders, Loads
<1>4. TypeOKProviders'
    BY DEF Provided, TypeOKProviders, LoadFails, Wake, Stages, Loads, ollama
<1>5. Fallback'
    BY <1>1 DEF Fallback, LoadFails, ollama
<1>6. \A c \in Calls : waits'[c] = 0 /\ asking'[c] # "load"
    BY <1>1, <1>3 DEF Provided, OneLoad, LoadFails, Wake
<1>7. OneLoad'
    BY <1>1, <1>2, <1>6 DEF Provided, TypeOKProviders, OneLoad, LoadFails
<1> QED
    BY <1>4, <1>5, <1>7 DEF Provided

LEMMA OneTextIsAnswered ==
    ASSUME Provided, NEW c \in Calls, Single(c)
    PROVE  Provided'
<1>1. TypeOKProviders'
    BY DEF Provided, TypeOKProviders, Single, Turn, Stages, onnx, ollama
<1>2. Fallback'
    BY DEF Provided, TypeOKProviders, Fallback, Single, Turn, Stages, onnx, ollama
<1>3. OneLoad'
    BY DEF Provided, TypeOKProviders, OneLoad, Single, Turn, Stages, onnx, ollama
<1> QED
    BY <1>1, <1>2, <1>3 DEF Provided

LEMMA ResultIsTaken ==
    ASSUME Provided, NEW c \in Calls, Take(c)
    PROVE  Provided'
<1>1. TypeOKProviders'
    BY DEF Provided, TypeOKProviders, Take, Turn, Stages, onnx
<1>2. Fallback'
    BY DEF Provided, TypeOKProviders, Fallback, Take, Turn, Stages, onnx
<1>3. OneLoad'
    BY DEF Provided, TypeOKProviders, OneLoad, Take, Turn, Stages, onnx
<1> QED
    BY <1>1, <1>2, <1>3 DEF Provided

(* No two loads run, as the promise stands for one.                        *)
LEMMA SharedAsPromised ==
    ASSUME Provided
    PROVE  ProviderShared
<1> DEFINE Running == {n \in Loads : load[n] = "running"}
<1>1. Running \subseteq {pipeline}
    BY DEF Provided, OneLoad
<1>2. Cardinality(Running) <= 1
    <2>1. IsFiniteSet({pipeline}) /\ Cardinality({pipeline}) = 1
        BY FS_Singleton
    <2> QED
        BY <1>1, <2>1, FS_Subset
<1>3. LoadShared
    BY <1>2 DEF Provided, OneLoad, LoadShared
<1>4. FallsBack
    BY DEF Provided, Fallback, FallsBack
<1> QED
    BY <1>3, <1>4 DEF Provided, ProviderShared

-----------------------------------------------------------------------------
(* The errors.                                                             *)

(* An error that was there stays, or another one takes its place.          *)
LEMMA ErrorsAreKept ==
    ASSUME TypeOK, Told, NEW f \in Flows, NEW part \in Parts, Throws(f, part), UNCHANGED mode
    PROVE  /\ reported' \in [Flows -> {"none"} \cup Parts]
           /\ first' \in [Flows -> {"none"} \cup Parts]
           /\ mode = "http" => \A g \in Flows : reported'[g] = first'[g]
           /\ reported'[f] # "none"
           /\ \A g \in Flows : reported[g] # "none" => reported'[g] # "none"
<1>1. /\ reported \in [Flows -> {"none"} \cup Parts]
      /\ first \in [Flows -> {"none"} \cup Parts]
    BY DEF TypeOK
<1>2. part # "none"
    BY DEF Parts
<1> QED
    BY <1>1, <1>2 DEF Throws, Told

(* A step that throws, or leaves the errors as they are.                   *)
LEMMA ErrorsAreTold ==
    ASSUME TypeOK, Told, NEW f \in Flows, NEW part \in Parts, UNCHANGED mode,
           UNCHANGED errors \/ Throws(f, part),
           "left" \in {db', mcp', transport'} =>
              "left" \in {db, mcp, transport} \/ reported[f] # "none" \/ Throws(f, part)
    PROVE  /\ Told'
           /\ reported' \in [Flows -> {"none"} \cup Parts]
           /\ first' \in [Flows -> {"none"} \cup Parts]
           /\ \A g \in Flows : reported[g] # "none" => reported'[g] # "none"
<1>1. CASE Throws(f, part)
    <2>1. /\ reported' \in [Flows -> {"none"} \cup Parts]
          /\ first' \in [Flows -> {"none"} \cup Parts]
          /\ mode = "http" => \A g \in Flows : reported'[g] = first'[g]
          /\ reported'[f] # "none"
          /\ \A g \in Flows : reported[g] # "none" => reported'[g] # "none"
        BY <1>1, ErrorsAreKept
    <2> QED
        BY <2>1 DEF Told
<1>2. CASE UNCHANGED errors /\ ~Throws(f, part)
    <2>1. reported' = reported /\ first' = first
        BY <1>2 DEF errors
    <2>2. /\ reported \in [Flows -> {"none"} \cup Parts]
          /\ first \in [Flows -> {"none"} \cup Parts]
        BY DEF TypeOK
    <2> QED
        BY <1>2, <2>1, <2>2 DEF Told
<1> QED
    BY <1>1, <1>2

-----------------------------------------------------------------------------
(* The start.                                                              *)

(* A step of the start stops nobody and serves nobody.                     *)
LEMMA StartIsQuiet ==
    ASSUME Served, start # "up", UNCHANGED <<mode, closing>>, UNCHANGED <<req, client, cut>>,
           start' # "up" => listener' = "none",
           start' = "up" => db' # "closed" /\ listener' # "closed"
    PROVE  QuietStart' /\ ShutdownOK' /\ Drained' /\ CutOK'
<1>1. \A k \in Signals : closing'[k] = "none"
    BY DEF Served, QuietStart
<1>2. QuietStart'
    BY <1>1 DEF Served, QuietStart
<1>3. ShutdownOK'
    BY <1>1 DEF ShutdownOK, BeyondListener, BeyondMcp
<1>4. Drained'
    BY DEF Drained
<1>5. CutOK'
    BY DEF Served, CutOK
<1> QED
    BY <1>2, <1>3, <1>4, <1>5

(* What a step of the start must have assigned for the types to hold.      *)
LEMMA StartKeepsTypes ==
    ASSUME TypeOK, UNCHANGED mode, UNCHANGED <<req, client, cut>>, UNCHANGED <<closing, exited>>,
           start' \in Steps, db' \in {"closed", "open", "left"},
           mcp' \in {"none", "built", "connected", "closed", "left"},
           transport' \in {"none", "open", "closed", "left"},
           listener' \in {"none", "bound", "closing", "closed"},
           reported' \in [Flows -> {"none"} \cup Parts],
           first' \in [Flows -> {"none"} \cup Parts]
    PROVE  TypeOK'
BY DEF TypeOK

LEMMA StartIsAFlow == "start" \in Flows /\ \A k \in Signals : k \in Flows
BY DEF Flows

LEMMA OpensStore ==
    ASSUME Served, OpenStore
    PROVE  Served'
<1>1. UNCHANGED <<mode, mcp, transport, listener>> /\ UNCHANGED <<req, client, cut>>
      /\ UNCHANGED <<closing, exited>> /\ start = "down"
    BY DEF OpenStore, resources, traffic
<1>2. \/ start' = "auth" /\ db' = "open" /\ UNCHANGED errors
      \/ start' = "failed" /\ db' \in {"closed", "left"} /\ Throws("start", "open")
    BY DEF OpenStore
<1>3. Told' /\ reported' \in [Flows -> {"none"} \cup Parts]
      /\ first' \in [Flows -> {"none"} \cup Parts]
    BY <1>1, <1>2, StartIsAFlow, ErrorsAreTold DEF Served, Parts
<1>4. TypeOK'
    <2>1. /\ start' \in Steps /\ db' \in {"closed", "open", "left"}
          /\ mcp' \in {"none", "built", "connected", "closed", "left"}
          /\ transport' \in {"none", "open", "closed", "left"}
          /\ listener' \in {"none", "bound", "closing", "closed"}
        BY <1>1, <1>2, <1>3 DEF Served, TypeOK, Steps
    <2> QED
        BY <1>1, <1>2, <1>3, <2>1, StartKeepsTypes DEF Served
<1>5. StartOK'
    BY <1>1, <1>2 DEF Served, StartOK, Unwinding
<1>6. QuietStart' /\ ShutdownOK' /\ Drained' /\ CutOK'
    BY <1>1, <1>2, StartIsQuiet DEF Served, QuietStart
<1> QED
    BY <1>3, <1>4, <1>5, <1>6 DEF Served

(* A step of the start that goes on or fails.                              *)
LEMMA Fails ==
    ASSUME Served, NEW part \in Parts, UNCHANGED mode,
           db' = db, mcp' # "left", transport' # "left",
           UNCHANGED errors \/ Fail(part)
    PROVE  /\ Told' /\ reported' \in [Flows -> {"none"} \cup Parts]
           /\ first' \in [Flows -> {"none"} \cup Parts]
           /\ Fail(part) => /\ start' = IF mode = "http" THEN "unwind transport"
                                        ELSE "unwind mcp"
                            /\ reported'["start"] # "none"
<1>1. UNCHANGED errors \/ Throws("start", part)
    BY DEF Fail
<1>2. Told' /\ reported' \in [Flows -> {"none"} \cup Parts]
      /\ first' \in [Flows -> {"none"} \cup Parts]
    BY <1>1, StartIsAFlow, ErrorsAreTold DEF Served
<1>3. ASSUME Fail(part)
      PROVE  reported'["start"] # "none"
    BY <1>3, StartIsAFlow, ErrorsAreKept DEF Served, Fail
<1> QED
    BY <1>2, <1>3 DEF Fail

LEMMA Authenticates ==
    ASSUME Served, Authenticate
    PROVE  Served'
<1>1. UNCHANGED <<mode, db, listener>> /\ UNCHANGED <<req, client, cut>>
      /\ UNCHANGED <<closing, exited>> /\ start = "auth"
    BY DEF Authenticate, traffic
<1>2. \/ start' = "connect" /\ mcp' = "built" /\ transport' = "open" /\ UNCHANGED errors
      \/ Fail("auth") /\ mcp' \in {"none", "built"} /\ transport' = transport
    BY DEF Authenticate
<1>3. /\ Told' /\ reported' \in [Flows -> {"none"} \cup Parts]
      /\ first' \in [Flows -> {"none"} \cup Parts]
      /\ Fail("auth") => /\ start' = IF mode = "http" THEN "unwind transport"
                                     ELSE "unwind mcp"
                         /\ reported'["start"] # "none"
    <2>1. "auth" \in Parts /\ mcp' # "left" /\ transport' # "left"
        BY <1>1, <1>2 DEF Served, StartOK, Parts
    <2> QED
        BY <1>1, <1>2, <2>1, Fails
<1>4. TypeOK'
    <2>1. /\ start' \in Steps /\ db' \in {"closed", "open", "left"}
          /\ mcp' \in {"none", "built", "connected", "closed", "left"}
          /\ transport' \in {"none", "open", "closed", "left"}
          /\ listener' \in {"none", "bound", "closing", "closed"}
        BY <1>1, <1>2, <1>3 DEF Served, TypeOK, Steps
    <2> QED
        BY <1>1, <1>2, <1>3, <2>1, StartKeepsTypes DEF Served
<1>5. StartOK'
    BY <1>1, <1>2, <1>3 DEF Served, StartOK, Unwinding
<1>6. QuietStart' /\ ShutdownOK' /\ Drained' /\ CutOK'
    BY <1>1, <1>2, <1>3, StartIsQuiet DEF Served, QuietStart
<1> QED
    BY <1>3, <1>4, <1>5, <1>6 DEF Served

(* Over stdio the server is up, with the store open.                       *)
LEMMA Connects ==
    ASSUME Served, Connect
    PROVE  Served'
<1>1. UNCHANGED <<mode, db, transport, listener>> /\ UNCHANGED <<req, client, cut>>
      /\ UNCHANGED <<closing, exited>> /\ start = "connect"
    BY DEF Connect, traffic
<1>2. \/ /\ start' = IF mode = "http" THEN "listen" ELSE "up"
         /\ mcp' = "connected" /\ UNCHANGED errors
      \/ Fail("connect") /\ mcp' = mcp
    BY DEF Connect
<1>3. /\ Told' /\ reported' \in [Flows -> {"none"} \cup Parts]
      /\ first' \in [Flows -> {"none"} \cup Parts]
      /\ Fail("connect") => /\ start' = IF mode = "http" THEN "unwind transport"
                                        ELSE "unwind mcp"
                            /\ reported'["start"] # "none"
    <2>1. "connect" \in Parts /\ mcp' # "left" /\ transport' # "left"
        BY <1>1, <1>2 DEF Served, StartOK, Parts
    <2> QED
        BY <1>1, <1>2, <2>1, Fails
<1>4. TypeOK'
    <2>1. /\ start' \in Steps /\ db' \in {"closed", "open", "left"}
          /\ mcp' \in {"none", "built", "connected", "closed", "left"}
          /\ transport' \in {"none", "open", "closed", "left"}
          /\ listener' \in {"none", "bound", "closing", "closed"}
        BY <1>1, <1>2, <1>3 DEF Served, TypeOK, Steps
    <2> QED
        BY <1>1, <1>2, <1>3, <2>1, StartKeepsTypes DEF Served
<1>5. StartOK'
    BY <1>1, <1>2, <1>3 DEF Served, StartOK, Unwinding
<1>6. QuietStart' /\ ShutdownOK' /\ Drained' /\ CutOK'
    <2>1. db' # "closed" /\ listener' = "none"
        BY <1>1 DEF Served, StartOK, QuietStart
    <2> QED
        BY <1>1, <2>1, StartIsQuiet
<1> QED
    BY <1>3, <1>4, <1>5, <1>6 DEF Served

(* Over HTTP it is up when it listens.                                     *)
LEMMA Listens ==
    ASSUME Served, Listen
    PROVE  Served'
<1>1. UNCHANGED <<mode, db, mcp, transport>> /\ UNCHANGED <<req, client, cut>>
      /\ UNCHANGED <<closing, exited>> /\ start = "listen"
    BY DEF Listen, traffic
<1>2. \/ start' = "up" /\ listener' = "bound" /\ UNCHANGED errors
      \/ Fail("listen") /\ listener' = listener
    BY DEF Listen
<1>3. /\ Told' /\ reported' \in [Flows -> {"none"} \cup Parts]
      /\ first' \in [Flows -> {"none"} \cup Parts]
      /\ Fail("listen") => /\ start' = IF mode = "http" THEN "unwind transport"
                                       ELSE "unwind mcp"
                           /\ reported'["start"] # "none"
    <2>1. "listen" \in Parts /\ mcp' # "left" /\ transport' # "left"
        BY <1>1, <1>2 DEF Served, StartOK, Parts
    <2> QED
        BY <1>1, <1>2, <2>1, Fails
<1>4. TypeOK'
    <2>1. /\ start' \in Steps /\ db' \in {"closed", "open", "left"}
          /\ mcp' \in {"none", "built", "connected", "closed", "left"}
          /\ transport' \in {"none", "open", "closed", "left"}
          /\ listener' \in {"none", "bound", "closing", "closed"}
        BY <1>1, <1>2, <1>3 DEF Served, TypeOK, Steps
    <2> QED
        BY <1>1, <1>2, <1>3, <2>1, StartKeepsTypes DEF Served
<1>5. StartOK'
    BY <1>1, <1>2, <1>3 DEF Served, StartOK, Unwinding
<1>6. QuietStart' /\ ShutdownOK' /\ Drained' /\ CutOK'
    <2>1. db' # "closed" /\ listener = "none"
        BY <1>1 DEF Served, StartOK, QuietStart
    <2> QED
        BY <1>1, <1>2, <1>3, <2>1, StartIsQuiet
<1> QED
    BY <1>3, <1>4, <1>5, <1>6 DEF Served

LEMMA UnwindsTransport ==
    ASSUME Served, UnwindTransport
    PROVE  Served'
<1>1. UNCHANGED <<mode, db, mcp, listener>> /\ UNCHANGED <<req, client, cut>>
      /\ UNCHANGED <<closing, exited>> /\ UNCHANGED errors
      /\ start = "unwind transport" /\ start' = "unwind mcp"
    BY DEF UnwindTransport, traffic
<1>2. transport' \in {"none", "closed", "left"} /\ reported["start"] # "none"
    BY <1>1 DEF Served, TypeOK, StartOK, Unwinding, UnwindTransport, Shut, Stays
<1>3. Told' /\ reported' = reported /\ first' = first
    BY <1>1, <1>2, StartIsAFlow DEF Served, Told, errors
<1>4. TypeOK'
    <2>1. /\ start' \in Steps /\ db' \in {"closed", "open", "left"}
          /\ mcp' \in {"none", "built", "connected", "closed", "left"}
          /\ transport' \in {"none", "open", "closed", "left"}
          /\ listener' \in {"none", "bound", "closing", "closed"}
        BY <1>1, <1>2, <1>3 DEF Served, TypeOK, Steps
    <2>2. /\ reported' \in [Flows -> {"none"} \cup Parts]
          /\ first' \in [Flows -> {"none"} \cup Parts]
        BY <1>3 DEF Served, TypeOK
    <2> QED
        BY <1>1, <2>1, <2>2, StartKeepsTypes DEF Served
<1>5. StartOK'
    BY <1>1, <1>2, <1>3 DEF Served, StartOK, Unwinding
<1>6. QuietStart' /\ ShutdownOK' /\ Drained' /\ CutOK'
    BY <1>1, StartIsQuiet DEF Served, QuietStart
<1> QED
    BY <1>3, <1>4, <1>5, <1>6 DEF Served

LEMMA UnwindsMcp ==
    ASSUME Served, UnwindMcp
    PROVE  Served'
<1>1. UNCHANGED <<mode, db, listener>> /\ UNCHANGED <<req, client, cut>>
      /\ UNCHANGED <<closing, exited>>
      /\ start = "unwind mcp" /\ start' = "unwind store"
    BY DEF UnwindMcp, traffic
<1>2. /\ mcp' \in {"none", "closed", "left"} /\ transport' \in {"none", "closed", "left"}
      /\ UNCHANGED errors \/ Throws("start", "mcp")
    BY DEF UnwindMcp, Served, TypeOK, Shut, Stays
<1>3. reported["start"] # "none" /\ "mcp" \in Parts
    BY <1>1 DEF Served, StartOK, Unwinding, Parts
<1>4. /\ Told' /\ reported' \in [Flows -> {"none"} \cup Parts]
      /\ first' \in [Flows -> {"none"} \cup Parts] /\ reported'["start"] # "none"
    BY <1>1, <1>2, <1>3, StartIsAFlow, ErrorsAreTold DEF Served
<1>5. TypeOK'
    <2>1. /\ start' \in Steps /\ db' \in {"closed", "open", "left"}
          /\ mcp' \in {"none", "built", "connected", "closed", "left"}
          /\ transport' \in {"none", "open", "closed", "left"}
          /\ listener' \in {"none", "bound", "closing", "closed"}
        BY <1>1, <1>2, <1>4 DEF Served, TypeOK, Steps
    <2> QED
        BY <1>1, <1>2, <1>4, <2>1, StartKeepsTypes DEF Served
<1>6. StartOK'
    BY <1>1, <1>2, <1>4 DEF Served, StartOK, Unwinding
<1>7. QuietStart' /\ ShutdownOK' /\ Drained' /\ CutOK'
    BY <1>1, StartIsQuiet DEF Served, QuietStart
<1> QED
    BY <1>4, <1>5, <1>6, <1>7 DEF Served

LEMMA UnwindsStore ==
    ASSUME Served, UnwindStore
    PROVE  Served'
<1>1. UNCHANGED <<mode, mcp, transport, listener>> /\ UNCHANGED <<req, client, cut>>
      /\ UNCHANGED <<closing, exited>>
      /\ start = "unwind store" /\ start' = "failed"
    BY DEF UnwindStore, traffic, resources
<1>2. db' \in {"closed", "left"} /\ (UNCHANGED errors \/ Throws("start", "store"))
    BY DEF UnwindStore
<1>3. reported["start"] # "none" /\ "store" \in Parts
    BY <1>1 DEF Served, StartOK, Unwinding, Parts
<1>4. /\ Told' /\ reported' \in [Flows -> {"none"} \cup Parts]
      /\ first' \in [Flows -> {"none"} \cup Parts]
    BY <1>1, <1>2, <1>3, StartIsAFlow, ErrorsAreTold DEF Served
<1>5. TypeOK'
    <2>1. /\ start' \in Steps /\ db' \in {"closed", "open", "left"}
          /\ mcp' \in {"none", "built", "connected", "closed", "left"}
          /\ transport' \in {"none", "open", "closed", "left"}
          /\ listener' \in {"none", "bound", "closing", "closed"}
        BY <1>1, <1>2, <1>4 DEF Served, TypeOK, Steps
    <2> QED
        BY <1>1, <1>2, <1>4, <2>1, StartKeepsTypes DEF Served
<1>6. StartOK'
    BY <1>1, <1>2, <1>4 DEF Served, StartOK, Unwinding
<1>7. QuietStart' /\ ShutdownOK' /\ Drained' /\ CutOK'
    BY <1>1, StartIsQuiet DEF Served, QuietStart
<1> QED
    BY <1>4, <1>5, <1>6, <1>7 DEF Served

-----------------------------------------------------------------------------
(* The requests.                                                           *)

LEMMA ServerRests ==
    ASSUME Served, UNCHANGED server
    PROVE  Served'
<1>1. UNCHANGED <<mode, start, db, mcp, transport, listener>> /\ UNCHANGED <<req, client, cut>>
      /\ UNCHANGED <<closing, reported, first, exited>>
    BY DEF server, resources, traffic, errors
<1>2. TypeOK'
    BY <1>1 DEF Served, TypeOK
<1>3. StartOK' /\ QuietStart'
    BY <1>1 DEF Served, StartOK, QuietStart
<1>4. ShutdownOK'
    BY <1>1 DEF Served, ShutdownOK
<1>5. Drained' /\ Told' /\ CutOK'
    BY <1>1 DEF Served, Drained, Told, CutOK
<1> QED
    BY <1>2, <1>3, <1>4, <1>5 DEF Served

(* Whoever is connected over HTTP has found the server up, ...             *)
LEMMA ServesWhenUp ==
    ASSUME Served, mode = "http", NEW r \in Requests,
           client[r] \/ req[r] # "none" \/ listener = "bound"
    PROVE  start = "up"
BY DEF Served, QuietStart

(* ... and whoever still is, the store open.                               *)
LEMMA ServesOnAnOpenStore ==
    ASSUME Served, mode = "http", NEW r \in Requests, client[r]
    PROVE  db # "closed"
<1> SUFFICES ASSUME db = "closed" PROVE FALSE
    OBVIOUS
<1>1. start = "up"
    BY ServesWhenUp
<1>2. PICK k \in Signals : closing[k] = "end"
    BY <1>1 DEF Served, ShutdownOK
<1>3. listener = "closed"
    BY <1>2 DEF Served, ShutdownOK, BeyondListener
<1> QED
    BY <1>3 DEF Served, Drained

(* A step of a request, on a connection that was there or that a listener  *)
(* has taken.                                                              *)
LEMMA TrafficMoves ==
    ASSUME Served, UNCHANGED <<mode, start, db, mcp, transport, listener>>,
           UNCHANGED <<closing, reported, first, exited>>,
           req' \in [Requests -> {"none", "half", "begun", "embedding", "stream"}],
           client' \in [Requests -> BOOLEAN], cut' \in BOOLEAN,
           mode = "http" => /\ start = "up"
                            /\ \A q \in Requests :
                                client'[q] => client[q] \/ listener = "bound",
           cut' => cut \/ (db = "closed" /\ \E r \in Requests : client[r])
    PROVE  Served'
<1>1. TypeOK'
    BY DEF Served, TypeOK
<1>2. StartOK' /\ QuietStart'
    BY DEF Served, StartOK, QuietStart
<1>3. ShutdownOK'
    BY DEF Served, ShutdownOK
<1>4. Drained' /\ Told'
    BY DEF Served, Drained, Told
<1>5. CutOK'
    BY ServesOnAnOpenStore DEF Served, CutOK, TypeOK
<1> QED
    BY <1>1, <1>2, <1>3, <1>4, <1>5 DEF Served

LEMMA Arrives ==
    ASSUME Served, NEW r \in Requests, Arrive(r)
    PROVE  Served'
<1>1. UNCHANGED <<mode, start, db, mcp, transport, listener>> /\ cut' = cut
      /\ UNCHANGED <<closing, reported, first, exited>>
    BY DEF Arrive, resources, errors
<1>2. /\ req' = [req EXCEPT ![r] = IF mode = "http" THEN "half" ELSE "begun"]
      /\ client' = [client EXCEPT ![r] = TRUE]
      /\ mode = "http" => client[r] \/ listener = "bound"
    BY DEF Arrive
<1>3. /\ req' \in [Requests -> {"none", "half", "begun", "embedding", "stream"}]
      /\ client' \in [Requests -> BOOLEAN] /\ cut' \in BOOLEAN
    BY <1>1, <1>2 DEF Served, TypeOK
<1>4. mode = "http" => /\ start = "up"
                       /\ \A q \in Requests : client'[q] => client[q] \/ listener = "bound"
    BY <1>2, ServesWhenUp DEF Served, TypeOK
<1> QED
    BY <1>1, <1>3, <1>4, TrafficMoves

LEMMA Receives ==
    ASSUME Served, NEW r \in Requests, Receive(r)
    PROVE  Served'
<1>1. UNCHANGED <<mode, start, db, mcp, transport, listener>> /\ UNCHANGED <<client, cut>>
      /\ UNCHANGED <<closing, reported, first, exited>> /\ req[r] = "half"
    BY DEF Receive, resources, errors
<1>2. req' \in [Requests -> {"none", "half", "begun", "embedding", "stream"}]
    BY DEF Served, TypeOK, Receive
<1>3. client' \in [Requests -> BOOLEAN] /\ cut' \in BOOLEAN
    BY <1>1 DEF Served, TypeOK
<1>4. mode = "http" => start = "up"
    BY <1>1, ServesWhenUp
<1> QED
    BY <1>1, <1>2, <1>3, <1>4, TrafficMoves

(* By whatever ends it, a connection is one less.                          *)
LEMMA Disconnects ==
    ASSUME Served, NEW r \in Requests, Disconnect(r) \/ IdleTimesOut(r)
    PROVE  Served'
<1>1. UNCHANGED <<mode, start, db, mcp, transport, listener>> /\ cut' = cut
      /\ UNCHANGED <<closing, reported, first, exited>> /\ client[r]
      /\ client' = [client EXCEPT ![r] = FALSE]
    BY DEF Disconnect, IdleTimesOut, resources, errors
<1>2. req' \in [Requests -> {"none", "half", "begun", "embedding", "stream"}]
    <2>1. PICK s \in {"none", "half", "begun", "embedding", "stream"} :
            req' = [req EXCEPT ![r] = s]
        BY DEF Served, TypeOK, Disconnect, IdleTimesOut
    <2> QED
        BY <2>1 DEF Served, TypeOK
<1>3. client' \in [Requests -> BOOLEAN] /\ cut' \in BOOLEAN
    BY <1>1 DEF Served, TypeOK
<1>4. mode = "http" => start = "up"
    BY <1>1, ServesWhenUp
<1>5. \A q \in Requests : client'[q] => client[q]
    BY <1>1 DEF Served, TypeOK
<1> QED
    BY <1>1, <1>2, <1>3, <1>4, <1>5, TrafficMoves

LEMMA Responds ==
    ASSUME Served, NEW r \in Requests, Respond(r), req[r] # "none",
           UNCHANGED <<mode, start, db, resources, closing, errors, exited>>
    PROVE  Served'
<1>1. UNCHANGED <<mode, start, db, mcp, transport, listener>>
      /\ UNCHANGED <<closing, reported, first, exited>>
    BY DEF resources, errors
<1>2. /\ req' \in [Requests -> {"none", "half", "begun", "embedding", "stream"}]
      /\ client' \in [Requests -> BOOLEAN]
      /\ \A q \in Requests : client'[q] => client[q]
    BY DEF Served, TypeOK, Respond
<1>3. cut' \in BOOLEAN /\ (cut' => cut \/ (db = "closed" /\ client[r]))
    BY DEF Served, TypeOK, Respond
<1>4. mode = "http" => start = "up"
    BY ServesWhenUp
<1> QED
    BY <1>1, <1>2, <1>3, <1>4, TrafficMoves

LEMMA Begins ==
    ASSUME Served, NEW r \in Requests, Begin(r)
    PROVE  Served'
<1>1. UNCHANGED <<mode, start, db, resources, closing, errors, exited>> /\ req[r] = "begun"
    BY DEF Begin
<1>2. CASE db = "closed"
    BY <1>1, <1>2, Responds DEF Begin
<1>3. CASE db # "closed"
    <2>1. req' = [req EXCEPT ![r] = "embedding"] /\ UNCHANGED <<client, cut>>
        BY <1>3 DEF Begin
    <2>2. UNCHANGED <<mode, start, db, mcp, transport, listener>>
          /\ UNCHANGED <<closing, reported, first, exited>>
        BY <1>1 DEF resources, errors
    <2>3. /\ req' \in [Requests -> {"none", "half", "begun", "embedding", "stream"}]
          /\ client' \in [Requests -> BOOLEAN] /\ cut' \in BOOLEAN
        BY <2>1 DEF Served, TypeOK
    <2>4. mode = "http" => start = "up"
        BY <1>1, ServesWhenUp
    <2> QED
        BY <2>1, <2>2, <2>3, <2>4, TrafficMoves
<1> QED
    BY <1>2, <1>3

LEMMA Finishes ==
    ASSUME Served, NEW r \in Requests, Finish(r)
    PROVE  Served'
<1>1. /\ UNCHANGED <<mode, start, db, resources, closing, errors, exited>>
      /\ req[r] = "embedding" /\ Respond(r)
    BY DEF Finish
<1> QED
    BY <1>1, Responds

-----------------------------------------------------------------------------
(* The signals, and the shutdowns they begin.                              *)

(* A shutdown that is under way has found the server up.                   *)
LEMMA StopsWhatIsUp ==
    ASSUME Served, NEW k \in Signals, closing[k] # "none"
    PROVE  start = "up"
BY DEF Served, QuietStart

LEMMA SignalComes ==
    ASSUME Served, NEW k \in Signals, Signal(k)
    PROVE  Served'
<1>1. UNCHANGED <<mode, start, db, mcp, transport, listener>> /\ UNCHANGED <<req, client, cut>>
      /\ UNCHANGED <<reported, first, exited>> /\ start = "up" /\ closing[k] = "none"
      /\ closing' = [closing EXCEPT ![k] = IF mode = "http" THEN "listener" ELSE "mcp"]
    BY DEF Signal, Go, resources, traffic, errors
<1>2. TypeOK'
    BY <1>1 DEF Served, TypeOK, CloseSteps
<1>3. StartOK' /\ QuietStart'
    BY <1>1 DEF Served, StartOK, QuietStart
<1>4. ShutdownOK'
    <2>1. \A j \in Signals :
            closing'[j] = IF j # k THEN closing[j] ELSE IF mode = "http" THEN "listener" ELSE "mcp"
        BY <1>1 DEF Served, TypeOK
    <2> QED
        BY <1>1, <2>1 DEF Served, ShutdownOK, BeyondListener, BeyondMcp
<1>5. Drained' /\ Told' /\ CutOK'
    BY <1>1 DEF Served, Drained, Told, CutOK
<1> QED
    BY <1>2, <1>3, <1>4, <1>5 DEF Served

LEMMA ClosesListener ==
    ASSUME Served, NEW k \in Signals, CloseListener(k)
    PROVE  Served'
<1>1. UNCHANGED <<mode, start, db, mcp, transport>> /\ UNCHANGED <<req, cut>>
      /\ UNCHANGED <<reported, first, exited>> /\ closing[k] = "listener"
      /\ client' = [r \in Requests |-> client[r] /\ req[r] # "none"]
    BY DEF CloseListener, At, errors
<1>2. start = "up" /\ mode = "http"
    BY <1>1, StopsWhatIsUp DEF Served, ShutdownOK
<1>3. PICK s \in {"waiting", "late"} : closing' = [closing EXCEPT ![k] = s]
    BY DEF CloseListener, Go
<1>4. listener' = listener \/ (listener = "bound" /\ listener' = "closing")
    BY DEF CloseListener
<1>5. TypeOK'
    BY <1>1, <1>3, <1>4 DEF Served, TypeOK, CloseSteps
<1>6. StartOK' /\ QuietStart'
    BY <1>1, <1>2, <1>4 DEF Served, StartOK, QuietStart
<1>7. ShutdownOK'
    <2>1. \A j \in Signals : closing'[j] = IF j # k THEN closing[j] ELSE s
        BY <1>3 DEF Served, TypeOK
    <2> QED
        BY <1>1, <1>2, <1>4, <2>1 DEF Served, ShutdownOK, BeyondListener, BeyondMcp
<1>8. Drained' /\ Told' /\ CutOK'
    BY <1>1, <1>4 DEF Served, Drained, Told, CutOK
<1> QED
    BY <1>5, <1>6, <1>7, <1>8 DEF Served

LEMMA ListenerIsClosed ==
    ASSUME Served, NEW k \in Signals, ListenerClosed(k)
    PROVE  Served'
<1>1. UNCHANGED <<mode, start, db, mcp, transport>> /\ UNCHANGED <<req, client, cut>>
      /\ exited' = exited /\ closing[k] \in {"waiting", "late"} /\ listener' = "closed"
      /\ closing' = [closing EXCEPT ![k] = "mcp"]
      /\ (UNCHANGED errors \/ Throws(k, "listener"))
    BY DEF ListenerClosed, At, Go, traffic
<1>2. start = "up" /\ mode = "http"
    BY <1>1, StopsWhatIsUp DEF Served, ShutdownOK
<1>3. \A r \in Requests : ~client'[r]
    BY <1>1 DEF ListenerClosed, Connections
<1>4. /\ Told' /\ reported' \in [Flows -> {"none"} \cup Parts]
      /\ first' \in [Flows -> {"none"} \cup Parts]
    <2>1. k \in Flows /\ "listener" \in Parts
        BY StartIsAFlow DEF Parts
    <2> QED
        BY <1>1, <2>1, ErrorsAreTold DEF Served
<1>5. TypeOK'
    BY <1>1, <1>4 DEF Served, TypeOK, CloseSteps
<1>6. StartOK' /\ QuietStart'
    BY <1>1, <1>2 DEF Served, StartOK, QuietStart, Unwinding
<1>7. ShutdownOK'
    <2>1. \A j \in Signals : closing'[j] = IF j # k THEN closing[j] ELSE "mcp"
        BY <1>1 DEF Served, TypeOK
    <2> QED
        BY <1>1, <1>2, <2>1 DEF Served, ShutdownOK, BeyondListener, BeyondMcp
<1>8. Drained' /\ CutOK'
    BY <1>1, <1>3 DEF Served, Drained, CutOK
<1> QED
    BY <1>4, <1>5, <1>6, <1>7, <1>8 DEF Served

(***************************************************************************)
(* Shutdown k goes on from the MCP server, the transport or the store,     *)
(* having closed it or having said that it did not.                        *)
(***************************************************************************)
LEMMA ShutdownGoesOn ==
    ASSUME Served, NEW k \in Signals, NEW s \in BeyondMcp, NEW part \in Parts,
           closing[k] \in {"mcp", "transport", "store"},
           closing' = [closing EXCEPT ![k] = s],
           UNCHANGED <<mode, start, listener, req, client, cut, exited>>,
           UNCHANGED errors \/ Throws(k, part),
           db' \in {"closed", "open", "left"},
           mcp' \in {"none", "built", "connected", "closed", "left"},
           transport' \in {"none", "open", "closed", "left"},
           "left" \in {db', mcp', transport'} =>
              "left" \in {db, mcp, transport} \/ Throws(k, part),
           mcp \notin {"built", "connected"} \/ s \in BeyondMcp =>
              mcp' \notin {"built", "connected"},
           transport # "open" \/ s \in {"store", "end"} => transport' # "open",
           db # "open" \/ s = "end" => db' # "open",
           db' = "closed" => db = "closed" \/ s = "end"
    PROVE  Served'
<1>1. start = "up"
    BY StopsWhatIsUp
<1>2. /\ Told' /\ reported' \in [Flows -> {"none"} \cup Parts]
      /\ first' \in [Flows -> {"none"} \cup Parts]
    BY StartIsAFlow, ErrorsAreTold DEF Served
<1>3. TypeOK'
    BY <1>2 DEF Served, TypeOK, CloseSteps, BeyondMcp
<1>4. StartOK' /\ QuietStart'
    BY <1>1 DEF Served, StartOK, QuietStart, Unwinding
<1>5. ShutdownOK'
    <2>1. \A j \in Signals : closing'[j] = IF j # k THEN closing[j] ELSE s
        BY DEF Served, TypeOK
    <2>2. closing[k] \in BeyondListener /\ s \notin {"listener", "waiting", "late"}
        BY DEF BeyondListener, BeyondMcp
    <2>3. db' = "closed" => \E j \in Signals : closing'[j] = "end"
        <3>1. CASE s = "end"
            BY <2>1, <3>1
        <3>2. ASSUME s # "end", db' = "closed"
              PROVE  \E j \in Signals : closing'[j] = "end"
            <4>1. PICK j \in Signals : closing[j] = "end"
                BY <1>1, <3>2 DEF Served, ShutdownOK
            <4> QED
                BY <2>1, <4>1
        <3> QED
            BY <3>1, <3>2
    <2> QED
        BY <2>1, <2>2, <2>3 DEF Served, ShutdownOK, BeyondListener, BeyondMcp
<1>6. Drained' /\ CutOK'
    BY DEF Served, Drained, CutOK
<1> QED
    BY <1>2, <1>3, <1>4, <1>5, <1>6 DEF Served

LEMMA ClosesMcp ==
    ASSUME Served, NEW k \in Signals, CloseMcp(k)
    PROVE  Served'
<1>1. UNCHANGED <<mode, start, db, listener, req, client, cut, exited>> /\ closing[k] = "mcp"
    BY DEF CloseMcp, At, traffic
<1>2. PICK s \in BeyondMcp : closing' = [closing EXCEPT ![k] = s]
    BY DEF CloseMcp, Go, BeyondMcp
<1>3. /\ mcp' \in {"closed", "left"} /\ transport' \in {"none", "closed", "left"}
      /\ UNCHANGED errors \/ Throws(k, "mcp")
      /\ "left" \in {mcp', transport'} => Throws(k, "mcp")
    BY DEF CloseMcp, Shut, Stays, Served, TypeOK
<1>4. s # "end" /\ "mcp" \in Parts
    BY <1>2 DEF CloseMcp, Go, Parts, Served, TypeOK
<1>5. db \in {"closed", "open", "left"}
    BY DEF Served, TypeOK
<1> QED
    BY <1>1, <1>2, <1>3, <1>4, <1>5, ShutdownGoesOn

LEMMA ClosesTransport ==
    ASSUME Served, NEW k \in Signals, CloseTransport(k)
    PROVE  Served'
<1>1. /\ UNCHANGED <<mode, start, db, mcp, listener, req, client, cut, exited>>
      /\ closing[k] = "transport" /\ closing' = [closing EXCEPT ![k] = "store"]
    BY DEF CloseTransport, At, Go, traffic
<1>2. /\ transport' \in {"none", "closed", "left"}
      /\ UNCHANGED errors \/ Throws(k, "transport")
      /\ transport' = "left" => Throws(k, "transport")
    BY DEF CloseTransport, Shut, Stays, Served, TypeOK
<1>3. /\ "transport" \in Parts /\ "store" \in BeyondMcp
      /\ mcp \in {"none", "built", "connected", "closed", "left"}
      /\ mcp \notin {"built", "connected"} /\ db \in {"closed", "open", "left"}
    BY <1>1 DEF Served, TypeOK, ShutdownOK, BeyondMcp, Parts
<1> QED
    BY <1>1, <1>2, <1>3, ShutdownGoesOn

LEMMA ClosesStore ==
    ASSUME Served, NEW k \in Signals, CloseStore(k)
    PROVE  Served'
<1>1. /\ UNCHANGED <<mode, start, mcp, transport, listener, req, client, cut, exited>>
      /\ closing[k] = "store" /\ closing' = [closing EXCEPT ![k] = "end"]
    BY DEF CloseStore, At, Go, traffic, resources
<1>2. /\ db' \in {"closed", "left"}
      /\ UNCHANGED errors \/ Throws(k, "store")
      /\ db' = "left" => db = "left" \/ Throws(k, "store")
    BY DEF CloseStore, Served, TypeOK
<1>3. /\ "store" \in Parts /\ "end" \in BeyondMcp
      /\ mcp \in {"none", "built", "connected", "closed", "left"}
      /\ transport \in {"none", "open", "closed", "left"}
      /\ mcp \notin {"built", "connected"} /\ transport # "open"
    BY <1>1 DEF Served, TypeOK, ShutdownOK, BeyondMcp, Parts
<1> QED
    BY <1>1, <1>2, <1>3, ShutdownGoesOn

LEMMA Exits ==
    ASSUME Served, NEW k \in Signals, Exit(k)
    PROVE  Served'
<1>1. UNCHANGED <<mode, start, db, mcp, transport, listener>> /\ UNCHANGED <<req, client, cut>>
      /\ UNCHANGED <<closing, reported, first>> /\ exited' \in BOOLEAN
    BY DEF Exit, resources, traffic, errors
<1>2. TypeOK'
    BY <1>1 DEF Served, TypeOK
<1>3. StartOK' /\ QuietStart'
    BY <1>1 DEF Served, StartOK, QuietStart
<1>4. ShutdownOK'
    BY <1>1 DEF Served, ShutdownOK
<1>5. Drained' /\ Told' /\ CutOK'
    BY <1>1 DEF Served, Drained, Told, CutOK
<1> QED
    BY <1>2, <1>3, <1>4, <1>5 DEF Served

-----------------------------------------------------------------------------
LEMMA Initially == Init => IInv
<1> SUFFICES ASSUME Init PROVE IInv
    OBVIOUS
<1> USE DEF Init, InitProviders
<1>1. Provided
    <2>1. TypeOKProviders
        <3>1. endpoint \in BOOLEAN
            BY Zenon
        <3>2. 0 \in 0..MaxLoads
            BY LoadsAssumption
        <3> QED
            BY <3>1, <3>2 DEF TypeOKProviders, Stages
    <2> QED
        BY <2>1 DEF Provided, Fallback, OneLoad
<1>2. TypeOK
    BY DEF TypeOK, Steps, CloseSteps
<1>3. StartOK /\ QuietStart /\ Drained /\ CutOK
    BY DEF StartOK, QuietStart, Drained, CutOK, Unwinding
<1>4. ShutdownOK /\ Told
    BY DEF ShutdownOK, Told, BeyondListener, BeyondMcp
<1> QED
    BY <1>1, <1>2, <1>3, <1>4 DEF IInv, Served

(* What one request does of itself, and what is done to it.                *)
OfRequest(r) ==
    Arrive(r) \/ Receive(r) \/ Disconnect(r) \/ Begin(r) \/ Finish(r) \/ IdleTimesOut(r)

LEMMA NextIsOneOf ==
    ASSUME Next
    PROVE  \/ Start \/ Provide
           \/ \E r \in Requests : OfRequest(r)
           \/ \E k \in Signals : Signal(k) \/ CloseStep(k)
BY DEF Next, Serve, OfRequest

(* The provider: only a request that begins or finishes, or an answer to   *)
(* one, touches it.                                                        *)
LEMMA ProviderKept ==
    ASSUME Provided, Next
    PROVE  Provided'
<1>1. CASE Start
    BY <1>1, ProviderRests
       DEF Start, OpenStore, Authenticate, Connect, Listen, UnwindTransport, UnwindMcp,
           UnwindStore
<1>2. CASE Provide
    BY <1>2, OllamaAnswers, OllamaFails, OneTextIsAnswered, LoadIsThere, LoadIsOff
       DEF Provide, Answer, LoadSettles, Requests
<1>3. ASSUME NEW r \in Requests, OfRequest(r)
      PROVE  Provided'
    <2>1. UNCHANGED providers \/ EmbedOllama(r) \/ EmbedOnnx(r) \/ Take(r)
        BY <1>3 DEF OfRequest, Arrive, Receive, Disconnect, IdleTimesOut, Begin, Finish, Embed
    <2> QED
        BY <2>1, ProviderRests, OllamaIsAsked, OnnxIsAsked, ResultIsTaken DEF Requests
<1>4. ASSUME NEW k \in Signals, Signal(k) \/ CloseStep(k)
      PROVE  Provided'
    BY <1>4, ProviderRests
       DEF Signal, CloseStep, CloseListener, ListenerClosed, CloseMcp, CloseTransport,
           CloseStore, Exit
<1> QED
    BY <1>1, <1>2, <1>3, <1>4, NextIsOneOf

LEMMA ServerKept ==
    ASSUME Served, Next
    PROVE  Served'
<1>1. CASE Start
    BY <1>1, OpensStore, Authenticates, Connects, Listens, UnwindsTransport, UnwindsMcp,
       UnwindsStore
       DEF Start
<1>2. CASE Provide
    BY <1>2, ServerRests DEF Provide
<1>3. ASSUME NEW r \in Requests, OfRequest(r)
      PROVE  Served'
    BY <1>3, Arrives, Receives, Disconnects, Begins, Finishes DEF OfRequest
<1>4. ASSUME NEW k \in Signals, Signal(k) \/ CloseStep(k)
      PROVE  Served'
    BY <1>4, SignalComes, ClosesListener, ListenerIsClosed, ClosesMcp, ClosesTransport,
       ClosesStore, Exits
       DEF CloseStep
<1> QED
    BY <1>1, <1>2, <1>3, <1>4, NextIsOneOf

LEMMA EveryStep == IInv /\ [Next]_vars => IInv'
<1> SUFFICES ASSUME IInv, [Next]_vars PROVE IInv'
    OBVIOUS
<1>1. CASE Next
    BY <1>1, ProviderKept, ServerKept DEF IInv
<1>2. CASE UNCHANGED vars
    <2>1. UNCHANGED providers /\ UNCHANGED server
        BY <1>2 DEF vars
    <2> QED
        BY <2>1, ProviderRests, ServerRests DEF IInv
<1> QED
    BY <1>1, <1>2

(* What the invariant is for.                                              *)
LEMMA ServedIsSafe ==
    ASSUME IInv
    PROVE  EndsWhole /\ OpenWhileAnswering /\ ProviderShared
<1>1. TypeOK /\ OpenWhileAnswering
    BY DEF IInv, Served, CutOK, OpenWhileAnswering
<1>2. ASSUME NEW f \in Flows, Ended(f)
      PROVE  /\ db # "open" /\ listener \in {"none", "closed"}
             /\ mcp \notin {"built", "connected"} /\ transport # "open"
    <2>1. CASE f = "start"
        BY <1>2, <2>1 DEF IInv, Served, StartOK, QuietStart, Ended
    <2>2. CASE f # "start"
        <3>1. f \in Signals /\ closing[f] = "end"
            BY <1>2, <2>2 DEF Flows, Ended
        <3>2. listener \in {"none", "closed"}
            BY <3>1 DEF IInv, Served, TypeOK, StartOK, ShutdownOK, BeyondListener
        <3> QED
            BY <3>1, <3>2 DEF IInv, Served, ShutdownOK, BeyondMcp
    <2> QED
        BY <2>1, <2>2
<1>3. EndsWhole
    BY <1>1, <1>2 DEF IInv, Served, Told, EndsWhole
<1> QED
    BY <1>1, <1>3, SharedAsPromised DEF IInv

-----------------------------------------------------------------------------
(* The parts together hold from the start and through every step of the    *)
(* server, its requests, its provider and its signals.                     *)
THEOREM Invariance == Spec => []IInv
BY Initially, EveryStep, PTL DEF Spec

(* Every variable of the server keeps to its values (httpServer.ts,        *)
(* server.ts, serve.ts).                                                   *)
THEOREM TypeCorrect == Spec => []TypeOK
<1>1. IInv => TypeOK
    BY DEF IInv, Served
<1> QED
    BY <1>1, Invariance, PTL

(* When a start has failed, or the shutdown that a signal began is at its  *)
(* end, nothing listens and nothing is open but what threw, as it was      *)
(* closed or while the store was being opened; of that some caller hears,  *)
(* and over HTTP of the first error of its own (startHttpServer and its    *)
(* close, startStdioServer).                                               *)
THEOREM EndingsAreWhole == Spec => []EndsWhole
<1>1. IInv => EndsWhole
    BY ServedIsSafe
<1> QED
    BY <1>1, Invariance, PTL

(* No HTTP request whose client waits meets a closed store, for any number *)
(* of requests, streams, idle connections and signals (httpServer.close    *)
(* waits for connections, also the second time).                           *)
THEOREM AnswersOnAnOpenStore == Spec => []OpenWhileAnswering
<1>1. IInv => OpenWhileAnswering
    BY ServedIsSafe
<1> QED
    BY <1>1, Invariance, PTL

(* The fields a provider's calls share across their awaits mislead none of *)
(* them: the fallback is transparent, for whoever did not meet the batch   *)
(* request of another call, and the model is loaded once at a time         *)
(* (ollama.ts, batchSupported; onnx.ts, pipelinePromise).                  *)
THEOREM SharingMisleadsNobody == Spec => []ProviderShared
<1>1. IInv => ProviderShared
    BY ServedIsSafe
<1> QED
    BY <1>1, Invariance, PTL

-----------------------------------------------------------------------------
(***************************************************************************)
(* Importing conversations, for any files, copies of them, processes and   *)
(* order of their steps.  What both properties rest on is that an id, once *)
(* handed out, stands for one conversation: whoever holds messages under   *)
(* an id, the index, a process that embeds them or one that reindexes,     *)
(* holds that conversation's, or it is gone and nothing else will ever be  *)
(* found under its id.                                                     *)
(***************************************************************************)
USE FilesAssumption, FileKindsAssumption, BoundsAssumption, NoneAssumption
    DEF Ids, Importers

(* What the key of a conversation tells of the file it was read from.      *)
Telling(r) ==
    /\ r.key.session = Origin[r.file]
    /\ r.key.version = IF r.file \in Identified THEN 0 ELSE r.version
    /\ r.file \notin Undated \ Identified => r.key.time = 0

RowsOK ==
    /\ \A i \in Ids : rows[i] # None => i < nextId /\ Telling(rows[i])
    /\ \A i, j \in Ids : rows[i] # None /\ rows[j] # None /\ rows[i].key = rows[j].key
                           => i = j

(***************************************************************************)
(* Messages r under id i are those of conversation i, or it is gone: ids   *)
(* are handed out once, so that none will ever come to be under it.        *)
(***************************************************************************)
Owned(i, r) == i < nextId /\ (rows[i] # None => rows[i] = r)

VectorsOK == \A i \in Ids : vectors[i] # None => Owned(i, vectors[i])

Carries(x) ==
    /\ x.stage \in {"parsed", "embed"} => x.read \in Row /\ Telling(x.read)
    /\ x.stage = "embed" => x.id \in Ids /\ Owned(x.id, x.read)
    /\ x.stage = "reindex" => \A i \in Ids : x.all[i] # None => Owned(i, x.all[i])

ImportersOK == \A p \in Importers : Carries(imp[p])

IInvImport == TypeOKImport /\ RowsOK /\ VectorsOK /\ ImportersOK

-----------------------------------------------------------------------------
LEMMA OffCarriesNothing == Off \in Importer /\ Off.stage = "off" /\ Carries(Off)
BY DEF Off, Importer, Empty, Carries

LEMMA InitIInvImport == InitImport => IInvImport
<1> SUFFICES ASSUME InitImport PROVE IInvImport
  OBVIOUS
<1>1. TypeOKImport
  <2>1. \A f \in Files : 1 \in Versions \ {0}
    BY DEF Versions
  <2> QED
    BY <2>1, OffCarriesNothing DEF InitImport, TypeOKImport, Empty
<1>2. RowsOK /\ VectorsOK
  BY DEF InitImport, RowsOK, VectorsOK, Empty
<1>3. ImportersOK
  BY OffCarriesNothing DEF InitImport, ImportersOK
<1> QED
  BY <1>1, <1>2, <1>3 DEF IInvImport

LEMMA TypedImport ==
    ASSUME TypeOKImport
    PROVE  /\ nextId \in Nat /\ nextId \in 1..(MaxId + 1)
           /\ \A i \in Ids : rows[i] \in Row \cup {None} /\ vectors[i] \in Row \cup {None}
           /\ \A f \in Files : disk[f] \in Versions \ {0}
           /\ \A p \in Importers : imp[p] \in Importer
BY DEF TypeOKImport

LEMMA ImporterTyped ==
    ASSUME NEW x \in Importer
    PROVE  /\ x.stage \in {"off", "sweep", "parsed", "embed", "reindex"}
           /\ x.todo \subseteq Files /\ x.read \in Row \cup {None}
           /\ x.id \in Ids \cup {None} /\ x.all \in [Ids -> Row \cup {None}]
BY DEF Importer

(* A step of one process that leaves rows and vectors alone.               *)
LEMMA ImporterStep ==
    ASSUME IInvImport, NEW p \in Importers, NEW x \in Importer, Carries(x),
           imp' = [imp EXCEPT ![p] = x], UNCHANGED Store,
           disk' \in [Files -> Versions \ {0}], faults' \in 0..MaxFaults
    PROVE  IInvImport'
<1>1. rows' = rows /\ nextId' = nextId /\ vectors' = vectors
  BY DEF Store
<1>2. /\ imp' \in [Importers -> Importer] /\ imp'[p] = x
      /\ \A q \in Importers : q # p => imp'[q] = imp[q]
  BY DEF IInvImport, TypeOKImport
<1>3. TypeOKImport' /\ RowsOK' /\ VectorsOK'
  BY <1>1, <1>2 DEF IInvImport, TypeOKImport, RowsOK, VectorsOK, Owned, Telling
<1>4. ImportersOK'
  BY <1>1, <1>2 DEF IInvImport, ImportersOK, Carries, Owned, Telling
<1> QED
  BY <1>3, <1>4 DEF IInvImport

(* One that goes on after a conversation.                                  *)
LEMMA ResumedCarriesNothing ==
    ASSUME NEW x \in Importer
    PROVE  LET y == [x EXCEPT !.stage = "sweep", !.read = None, !.id = None]
           IN  y \in Importer /\ Carries(y)
<1> DEFINE y == [x EXCEPT !.stage = "sweep", !.read = None, !.id = None]
<1>1. y \in Importer /\ y.stage = "sweep"
  BY DEF Importer
<1> HIDE DEF y
<1>2. Carries(y)
  BY <1>1 DEF Carries
<1> QED
  BY <1>1, <1>2 DEF y

(***************************************************************************)
(* Whoever holds messages under an id goes on holding what is its own:     *)
(* rows go, or come under an id that none held.                            *)
(***************************************************************************)
Aging ==
    /\ nextId' \in Nat /\ nextId' >= nextId
    /\ \A i \in Ids : i < nextId => rows'[i] \in {rows[i], None}

LEMMA OwnedStays ==
    ASSUME TypeOKImport, Aging, NEW i \in Ids, NEW r, Owned(i, r)
    PROVE  Owned(i, r)'
<1>1. i \in Int /\ nextId \in Int /\ nextId' \in Int /\ nextId' >= nextId /\ i < nextId
  BY DEF Aging, TypeOKImport, Owned
<1>2. rows'[i] \in {rows[i], None}
  BY <1>1 DEF Aging
<1> QED
  BY <1>1, <1>2 DEF Owned

LEMMA CarryingOn ==
    ASSUME TypeOKImport, Aging, NEW x \in Importer, Carries(x)
    PROVE  Carries(x)'
<1>1. x.stage \in {"parsed", "embed"} => x.read \in Row /\ Telling(x.read)
  BY DEF Carries
<1>2. x.stage = "embed" => x.id \in Ids /\ Owned(x.id, x.read)'
  BY OwnedStays DEF Carries
<1>3. x.stage = "reindex" => \A i \in Ids : x.all[i] # None => Owned(i, x.all[i])'
  BY OwnedStays DEF Carries
<1> QED
  BY <1>1, <1>2, <1>3 DEF Carries, Telling

-----------------------------------------------------------------------------
LEMMA ParseStep ==
    ASSUME IInvImport, NEW p \in Importers, NEW f \in Files, NEW todo \in SUBSET Files,
           Parse(p, f, todo), imp[p].stage \in {"off", "sweep"}
    PROVE  IInvImport'
<1>1. imp[p] \in Importer /\ disk[f] \in Versions \ {0}
  BY TypedImport DEF IInvImport
<1>2. UNCHANGED Store /\ disk' \in [Files -> Versions \ {0}] /\ faults' \in 0..MaxFaults
  BY DEF Parse, IInvImport, TypeOKImport
<1>3. PICK key \in KeysOf(f) :
        imp' = [imp EXCEPT ![p] =
                  IF disk[f] = 1
                  THEN [imp[p] EXCEPT !.todo = todo]
                  ELSE [imp[p] EXCEPT !.todo = todo, !.stage = "parsed",
                          !.read = [key |-> key, file |-> f, version |-> disk[f]]]]
  BY DEF Parse, IInvImport, TypeOKImport
<1>4. CASE disk[f] = 1
  <2> DEFINE x == [imp[p] EXCEPT !.todo = todo]
  <2>1. x \in Importer /\ x.stage = imp[p].stage
    BY <1>1 DEF Importer
  <2>2. imp' = [imp EXCEPT ![p] = x]
    BY <1>3, <1>4
  <2> HIDE DEF x
  <2>3. Carries(x)
    BY <2>1 DEF Carries
  <2> QED
    BY <1>2, <2>1, <2>2, <2>3, ImporterStep
<1>5. CASE disk[f] # 1
  <2> DEFINE r == [key |-> key, file |-> f, version |-> disk[f]]
             x == [imp[p] EXCEPT !.todo = todo, !.stage = "parsed", !.read = r]
  <2>1. /\ key.session = Origin[f]
        /\ key.version = IF f \in Identified THEN 0 ELSE disk[f]
        /\ f \notin Undated \ Identified => key.time = 0
        /\ key \in Key
    <3>1. 0 \in Versions
      BY DEF Versions
    <3>2. Origin[f] \in Files
      OBVIOUS
    <3> QED
      BY <1>1, <3>1, <3>2 DEF KeysOf, Key
  <2>2. r \in Row /\ Telling(r)
    BY <1>1, <1>5, <2>1 DEF Row, Telling
  <2> HIDE DEF r
  <2>3. x \in Importer /\ x.stage = "parsed" /\ x.read = r
    BY <1>1, <2>2 DEF Importer
  <2>4. imp' = [imp EXCEPT ![p] = x]
    BY <1>3, <1>5 DEF r
  <2> HIDE DEF x
  <2>5. Carries(x)
    BY <2>2, <2>3 DEF Carries
  <2> QED
    BY <1>2, <2>3, <2>4, <2>5, ImporterStep
<1> QED
  BY <1>4, <1>5

LEMMA SweepingStep ==
    ASSUME IInvImport, NEW p \in Importers,
           \/ StartSweep(p) \/ ParseNext(p) \/ Unreadable(p) \/ EndSweep(p)
    PROVE  IInvImport'
<1>1. CASE ParseNext(p)
  <2>1. PICK f \in imp[p].todo : Parse(p, f, imp[p].todo \ {f})
    BY <1>1 DEF ParseNext
  <2>2. f \in Files /\ imp[p].todo \ {f} \in SUBSET Files
    BY <2>1, TypedImport, ImporterTyped DEF IInvImport
  <2> QED
    BY <1>1, <2>1, <2>2, ParseStep DEF ParseNext
<1>2. CASE Unreadable(p)
  <2>1. PICK f \in imp[p].todo : imp' = [imp EXCEPT ![p].todo = @ \ {f}]
    BY <1>2 DEF Unreadable
  <2> DEFINE x == [imp[p] EXCEPT !.todo = @ \ {f}]
  <2>2. imp[p] \in Importer
    BY TypedImport DEF IInvImport
  <2>3. x \in Importer /\ x.stage = "sweep"
    BY <1>2, <2>2 DEF Importer, Unreadable
  <2>4. imp' = [imp EXCEPT ![p] = x]
    BY <2>1 DEF IInvImport, TypeOKImport
  <2>5. /\ UNCHANGED Store /\ disk' \in [Files -> Versions \ {0}]
        /\ faults' \in 0..MaxFaults
    BY <1>2 DEF Unreadable, Fault, IInvImport, TypeOKImport
  <2> HIDE DEF x
  <2>6. Carries(x)
    BY <2>3 DEF Carries
  <2> QED
    BY <2>3, <2>4, <2>5, <2>6, ImporterStep
<1>3. CASE StartSweep(p)
  <2> DEFINE x == [Off EXCEPT !.stage = "sweep", !.todo = Files]
  <2>1. x \in Importer /\ x.stage = "sweep"
    BY DEF Off, Importer, Empty
  <2>2. /\ imp' = [imp EXCEPT ![p] = x]
        /\ UNCHANGED Store /\ disk' \in [Files -> Versions \ {0}]
        /\ faults' \in 0..MaxFaults
    BY <1>3 DEF StartSweep, IInvImport, TypeOKImport
  <2> HIDE DEF x
  <2>3. Carries(x)
    BY <2>1 DEF Carries
  <2> QED
    BY <2>1, <2>2, <2>3, ImporterStep
<1>4. CASE EndSweep(p)
  <2>1. /\ imp' = [imp EXCEPT ![p] = Off]
        /\ UNCHANGED Store /\ disk' \in [Files -> Versions \ {0}]
        /\ faults' \in 0..MaxFaults
    BY <1>4 DEF EndSweep, IInvImport, TypeOKImport
  <2> QED
    BY <2>1, OffCarriesNothing, ImporterStep
<1> QED
  BY <1>1, <1>2, <1>3, <1>4

LEMMA EndingStep ==
    ASSUME IInvImport, NEW p \in Importers, EmbedFails(p) \/ Die(p)
    PROVE  IInvImport'
<1>1. /\ imp' = [imp EXCEPT ![p] = Off]
      /\ UNCHANGED Store /\ disk' \in [Files -> Versions \ {0}]
      /\ faults' \in 0..MaxFaults
  BY DEF EmbedFails, Die, Fault, IInvImport, TypeOKImport
<1> QED
  BY <1>1, OffCarriesNothing, ImporterStep

LEMMA GrowStep ==
    ASSUME IInvImport, NEW f \in Files, Grow(f)
    PROVE  IInvImport'
<1>1. disk[f] + 1 \in Versions \ {0}
  <2>1. disk[f] \in Versions
    BY TypedImport DEF IInvImport
  <2>2. PICK g \in Files : disk[f] \in 0..MaxVersion[g]
    BY <2>1 DEF Versions
  <2>3. MaxVersion[f] \in Nat /\ MaxVersion[g] \in Nat /\ disk[f] < MaxVersion[f]
    BY DEF Grow
  <2>4. disk[f] + 1 \in 0..MaxVersion[f] /\ disk[f] + 1 # 0
    BY <2>2, <2>3
  <2> QED
    BY <2>4 DEF Versions
<1>2. disk' \in [Files -> Versions \ {0}]
  BY <1>1 DEF Grow, IInvImport, TypeOKImport
<1>3. UNCHANGED <<rows, nextId, vectors, imp, faults>>
  BY DEF Grow, Store
<1> QED
  BY <1>2, <1>3 DEF IInvImport, TypeOKImport, RowsOK, VectorsOK, ImportersOK, Carries,
                    Owned, Telling

-----------------------------------------------------------------------------
(* A new conversation has a key that none has, and an id that none had.    *)
LEMMA IngestStep ==
    ASSUME IInvImport, NEW p \in Importers, Ingest(p)
    PROVE  IInvImport'
<1> DEFINE r == imp[p].read
<1>1. /\ imp[p] \in Importer /\ imp[p].stage = "parsed"
      /\ r \in Row /\ Telling(r)
      /\ UNCHANGED <<disk, vectors, faults>>
  BY TypedImport DEF Ingest, IInvImport, ImportersOK, Carries
<1>2. CASE Present(r.key)
  <2> DEFINE x == [imp[p] EXCEPT !.stage = "sweep", !.read = None, !.id = None]
  <2>1. imp' = [imp EXCEPT ![p] = x] /\ UNCHANGED Store
    BY <1>1, <1>2 DEF Ingest, Resume, Store, IInvImport, TypeOKImport
  <2>2. disk' \in [Files -> Versions \ {0}] /\ faults' \in 0..MaxFaults
    BY <1>1 DEF IInvImport, TypeOKImport
  <2>3. x \in Importer /\ Carries(x)
    BY <1>1, ResumedCarriesNothing
  <2> HIDE DEF x
  <2> QED
    BY <2>1, <2>2, <2>3, ImporterStep
<1>3. CASE ~Present(r.key)
  <2> DEFINE x == [imp[p] EXCEPT !.stage = "embed", !.id = nextId]
  <2>1. /\ nextId \in Ids
        /\ rows' = [rows EXCEPT ![nextId] = r]
        /\ nextId' = nextId + 1
        /\ imp' = [imp EXCEPT ![p] = x]
    BY <1>3 DEF Ingest, IInvImport, TypeOKImport
  <2>2. x \in Importer /\ x.stage = "embed" /\ x.id = nextId /\ x.read = r
    BY <1>1, <2>1 DEF Importer
  <2>3. r # None
    BY <1>1, Zenon
  <2> HIDE DEF x, r
  <2>4. /\ rows' \in [Ids -> Row \cup {None}] /\ rows'[nextId] = r
        /\ \A i \in Ids : i # nextId => rows'[i] = rows[i]
    BY <1>1, <2>1 DEF IInvImport, TypeOKImport
  <2>5. /\ nextId \in Nat /\ nextId' \in Nat /\ nextId < nextId'
        /\ nextId' \in 1..(MaxId + 1)
    BY <2>1, TypedImport DEF IInvImport
  <2>6. /\ imp' \in [Importers -> Importer] /\ imp'[p] = x
        /\ \A q \in Importers : q # p => imp'[q] = imp[q]
    BY <2>1, <2>2 DEF IInvImport, TypeOKImport
  <2>7. Aging
    <3>1. ASSUME NEW i \in Ids, i < nextId PROVE rows'[i] \in {rows[i], None}
      BY <2>4, <2>5, <3>1
    <3> QED
      BY <2>5, <3>1 DEF Aging
  <2>8. TypeOKImport'
    BY <1>1, <2>4, <2>5, <2>6 DEF IInvImport, TypeOKImport
  <2>9. RowsOK'
    <3>1. \A i \in Ids : rows[i] # None => rows[i].key # r.key
      BY <1>3 DEF Present, r
    <3>2. \A i \in Ids : rows'[i] # None => i < nextId' /\ Telling(rows'[i])
      <4> SUFFICES ASSUME NEW i \in Ids, rows'[i] # None
                   PROVE  i < nextId' /\ Telling(rows'[i])
        OBVIOUS
      <4>1. CASE i = nextId
        BY <1>1, <2>4, <2>5, <4>1
      <4>2. CASE i # nextId
        <5>1. rows[i] # None /\ rows'[i] = rows[i]
          BY <2>4, <4>2
        <5>2. i < nextId /\ Telling(rows[i])
          BY <5>1 DEF IInvImport, RowsOK
        <5> QED
          BY <2>5, <5>1, <5>2
      <4> QED
        BY <4>1, <4>2
    <3>3. \A i, j \in Ids : rows'[i] # None /\ rows'[j] # None
                              /\ rows'[i].key = rows'[j].key => i = j
      <4> SUFFICES ASSUME NEW i \in Ids, NEW j \in Ids, rows'[i] # None,
                          rows'[j] # None, rows'[i].key = rows'[j].key, i # j
                   PROVE  FALSE
        OBVIOUS
      <4>1. CASE i # nextId /\ j # nextId
        BY <2>4, <4>1 DEF IInvImport, RowsOK
      <4>2. CASE i = nextId \/ j = nextId
        BY <2>4, <3>1, <4>2
      <4> QED
        BY <4>1, <4>2
    <3> QED
      BY <3>2, <3>3 DEF RowsOK, Telling
  <2>10. VectorsOK'
    <3> SUFFICES ASSUME NEW i \in Ids, vectors[i] # None
                 PROVE  Owned(i, vectors[i])'
      BY <1>1 DEF VectorsOK, Owned
    <3>1. PICK v : v = vectors[i]
      OBVIOUS
    <3>2. Owned(i, v)'
      BY <2>7, <3>1, OwnedStays DEF IInvImport, VectorsOK
    <3> QED
      BY <1>1, <3>1, <3>2 DEF Owned
  <2>11. ImportersOK'
    <3>1. Carries(imp[p])'
      <4>1. PICK y \in Importer, c \in Row : y = x /\ c = r
        BY <1>1, <2>2
      <4>2. y.stage = "embed" /\ y.id = nextId /\ y.read = c /\ Telling(c)
        BY <1>1, <2>2, <4>1
      <4>3. PICK k \in Ids : k = nextId
        BY <2>1
      <4>4. y.id = k /\ rows'[k] = c /\ k < nextId'
        BY <2>4, <2>5, <4>1, <4>2, <4>3
      <4>5. Carries(y)'
        BY <4>2, <4>4 DEF Carries, Owned, Telling
      <4>6. y = imp'[p]
        BY <2>6, <4>1
      <4> QED
        BY <4>5, <4>6 DEF Carries, Owned, Telling
    <3>2. ASSUME NEW q \in Importers, q # p PROVE Carries(imp[q])'
      <4>1. PICK y \in Importer : y = imp[q]
        BY TypedImport DEF IInvImport
      <4>2. Carries(y)'
        BY <2>7, <4>1, CarryingOn DEF IInvImport, ImportersOK
      <4>3. y = imp'[q]
        BY <2>6, <3>2, <4>1
      <4> QED
        BY <4>2, <4>3 DEF Carries, Owned, Telling
    <3> QED
      BY <3>1, <3>2 DEF ImportersOK
  <2> QED
    BY <2>8, <2>9, <2>10, <2>11 DEF IInvImport
<1> QED
  BY <1>2, <1>3
(* What a step may do to the vectors: each is kept, goes or is its own.    *)
LEMMA VectorsStep ==
    ASSUME IInvImport, NEW p \in Importers, NEW x \in Importer, Carries(x),
           imp' = [imp EXCEPT ![p] = x],
           UNCHANGED <<disk, rows, nextId, faults>>,
           vectors' \in [Ids -> Row \cup {None}],
           \A i \in Ids : vectors'[i] # None => Owned(i, vectors'[i])
    PROVE  IInvImport'
<1>1. /\ imp' \in [Importers -> Importer] /\ imp'[p] = x
      /\ \A q \in Importers : q # p => imp'[q] = imp[q]
  BY DEF IInvImport, TypeOKImport
<1>2. TypeOKImport' /\ RowsOK' /\ VectorsOK'
  BY <1>1 DEF IInvImport, TypeOKImport, RowsOK, VectorsOK, Owned, Telling
<1>3. ImportersOK'
  BY <1>1 DEF IInvImport, ImportersOK, Carries, Owned, Telling
<1> QED
  BY <1>2, <1>3 DEF IInvImport

LEMMA WriteVectorsStep ==
    ASSUME IInvImport, NEW p \in Importers, WriteVectors(p)
    PROVE  IInvImport'
<1> DEFINE k == imp[p].id
           r == imp[p].read
<1>1. /\ imp[p] \in Importer /\ r \in Row /\ k \in Ids /\ Owned(k, r)
      /\ UNCHANGED <<disk, rows, nextId, faults>>
  BY TypedImport DEF WriteVectors, IInvImport, ImportersOK, Carries
<1>2. CASE vectors[k] = None
  <2> DEFINE x == [imp[p] EXCEPT !.stage = "sweep", !.read = None, !.id = None]
  <2>1. imp' = [imp EXCEPT ![p] = x] /\ vectors' = [vectors EXCEPT ![k] = r]
    BY <1>2 DEF WriteVectors, Resume, IInvImport, TypeOKImport
  <2>2. x \in Importer /\ Carries(x)
    BY <1>1, ResumedCarriesNothing
  <2> HIDE DEF x, k, r
  <2>3. vectors' \in [Ids -> Row \cup {None}]
    BY <1>1, <2>1 DEF IInvImport, TypeOKImport
  <2>4. ASSUME NEW i \in Ids, vectors'[i] # None PROVE Owned(i, vectors'[i])
    <3>1. CASE i = k
      BY <1>1, <2>1, <3>1 DEF IInvImport, TypeOKImport
    <3>2. CASE i # k
      BY <2>1, <2>4, <3>2 DEF IInvImport, TypeOKImport, VectorsOK
    <3> QED
      BY <3>1, <3>2
  <2> QED
    BY <1>1, <2>1, <2>2, <2>3, <2>4, VectorsStep
<1>3. CASE vectors[k] # None
  <2>1. imp' = [imp EXCEPT ![p] = Off] /\ UNCHANGED vectors
    BY <1>3 DEF WriteVectors
  <2>2. UNCHANGED Store /\ disk' \in [Files -> Versions \ {0}] /\ faults' \in 0..MaxFaults
    BY <1>1, <2>1 DEF Store, IInvImport, TypeOKImport
  <2> QED
    BY <2>1, <2>2, OffCarriesNothing, ImporterStep
<1> QED
  BY <1>2, <1>3

LEMMA StartReindexStep ==
    ASSUME IInvImport, NEW p \in Importers, StartReindex(p)
    PROVE  IInvImport'
<1>1. UNCHANGED <<disk, rows, nextId, faults>>
  BY DEF StartReindex
<1>2. CASE rows = Empty
  <2>1. vectors' = Empty /\ UNCHANGED imp
    BY <1>2 DEF StartReindex
  <2>2. imp[p] \in Importer /\ Carries(imp[p]) /\ imp' = [imp EXCEPT ![p] = imp[p]]
    BY <2>1, TypedImport DEF IInvImport, TypeOKImport, ImportersOK
  <2>3. vectors' \in [Ids -> Row \cup {None}] /\ \A i \in Ids : vectors'[i] = None
    BY <2>1 DEF Empty
  <2> QED
    BY <1>1, <2>2, <2>3, VectorsStep
<1>3. CASE rows # Empty
  <2> DEFINE x == [Off EXCEPT !.stage = "reindex", !.all = rows]
  <2>1. imp' = [imp EXCEPT ![p] = x] /\ UNCHANGED vectors
    BY <1>3 DEF StartReindex
  <2>2. x \in Importer /\ x.stage = "reindex" /\ x.all = rows
    BY DEF IInvImport, TypeOKImport, Off, Empty, Importer
  <2> HIDE DEF x
  <2>3. Carries(x)
    <3>1. \A i \in Ids : rows[i] # None => Owned(i, rows[i])
      BY DEF IInvImport, RowsOK, Owned
    <3> QED
      BY <2>2, <3>1 DEF Carries
  <2>4. UNCHANGED Store /\ disk' \in [Files -> Versions \ {0}] /\ faults' \in 0..MaxFaults
    BY <1>1, <2>1 DEF Store, IInvImport, TypeOKImport
  <2> QED
    BY <2>1, <2>2, <2>3, <2>4, ImporterStep
<1> QED
  BY <1>2, <1>3

(* The whole index becomes what was read before the embeddings were asked  *)
(* for: each of it is still its row's own, or its row is gone.             *)
LEMMA EndReindexStep ==
    ASSUME IInvImport, NEW p \in Importers, EndReindex(p)
    PROVE  IInvImport'
<1> DEFINE all == imp[p].all
<1>1. /\ imp[p] \in Importer /\ vectors' = all /\ imp' = [imp EXCEPT ![p] = Off]
      /\ UNCHANGED <<disk, rows, nextId, faults>>
      /\ \A i \in Ids : all[i] # None => Owned(i, all[i])
  BY TypedImport DEF EndReindex, IInvImport, ImportersOK, Carries
<1>2. all \in [Ids -> Row \cup {None}]
  BY <1>1, ImporterTyped
<1> HIDE DEF all
<1>3. \A i \in Ids : vectors'[i] # None => Owned(i, vectors'[i])
  BY <1>1
<1> QED
  BY <1>1, <1>2, <1>3, OffCarriesNothing, VectorsStep

LEMMA DeleteStep ==
    ASSUME IInvImport, NEW i \in Ids, Delete(i)
    PROVE  IInvImport'
<1>1. /\ rows' = [rows EXCEPT ![i] = None] /\ vectors' = [vectors EXCEPT ![i] = None]
      /\ UNCHANGED <<disk, nextId, imp>> /\ faults' \in 0..MaxFaults
  BY DEF Delete, Fault, IInvImport, TypeOKImport
<1>2. /\ rows' \in [Ids -> Row \cup {None}] /\ vectors' \in [Ids -> Row \cup {None}]
      /\ \A j \in Ids : rows'[j] \in {rows[j], None} /\ vectors'[j] \in {vectors[j], None}
  BY <1>1 DEF IInvImport, TypeOKImport
<1>3. Aging
  BY <1>1, <1>2, TypedImport DEF Aging, IInvImport
<1>4. TypeOKImport'
  BY <1>1, <1>2 DEF IInvImport, TypeOKImport
<1>5. RowsOK'
  <2>1. ASSUME NEW j \in Ids, rows'[j] # None
        PROVE  rows'[j] = rows[j] /\ rows[j] # None /\ j < nextId' /\ Telling(rows'[j])
    BY <1>1, <1>2, <2>1 DEF IInvImport, RowsOK
  <2>2. \A j, k \in Ids : rows'[j] # None /\ rows'[k] # None
                            /\ rows'[j].key = rows'[k].key => j = k
    BY <2>1 DEF IInvImport, RowsOK
  <2> QED
    BY <2>1, <2>2 DEF RowsOK, Telling
<1>6. VectorsOK'
  <2> SUFFICES ASSUME NEW j \in Ids, vectors'[j] # None
               PROVE  Owned(j, vectors[j])' /\ vectors'[j] = vectors[j]
    BY DEF VectorsOK, Owned
  <2>1. vectors'[j] = vectors[j] /\ vectors[j] # None
    BY <1>2
  <2>2. PICK v : v = vectors[j]
    OBVIOUS
  <2>3. Owned(j, v)'
    BY <1>3, <2>1, <2>2, OwnedStays DEF IInvImport, VectorsOK
  <2> QED
    BY <2>1, <2>2, <2>3 DEF Owned
<1>7. ImportersOK'
  <2>1. ASSUME NEW q \in Importers PROVE Carries(imp[q])'
    <3>1. PICK y \in Importer : y = imp[q]
      BY TypedImport DEF IInvImport
    <3>2. Carries(y)'
      BY <1>3, <3>1, CarryingOn DEF IInvImport, ImportersOK
    <3>3. y = imp'[q]
      BY <1>1, <3>1
    <3> QED
      BY <3>2, <3>3 DEF Carries, Owned, Telling
  <2> QED
    BY <2>1 DEF ImportersOK
<1> QED
  BY <1>4, <1>5, <1>6, <1>7 DEF IInvImport

LEMMA VacuumStep ==
    ASSUME IInvImport, Vacuum
    PROVE  IInvImport'
<1>1. /\ vectors' \in [Ids -> Row \cup {None}]
      /\ \A i \in Ids : vectors'[i] \in {vectors[i], None}
      /\ UNCHANGED <<disk, rows, nextId, imp, faults>>
  BY DEF Vacuum, IInvImport, TypeOKImport
<1>2. \A i \in Ids : vectors'[i] # None => Owned(i, vectors'[i])
  BY <1>1 DEF IInvImport, VectorsOK
<1> QED
  BY <1>1, <1>2 DEF IInvImport, TypeOKImport, RowsOK, VectorsOK, ImportersOK, Carries,
                    Owned, Telling

LEMMA NextIInvImport == IInvImport /\ [NextImport]_varsImport => IInvImport'
<1> SUFFICES ASSUME IInvImport, [NextImport]_varsImport PROVE IInvImport'
  OBVIOUS
<1>1. CASE \E f \in Files : Grow(f)
  BY <1>1, GrowStep
<1>2. ASSUME NEW p \in Importers, StartSweep(p) \/ Unreadable(p) PROVE IInvImport'
  BY <1>2, SweepingStep
<1>3. ASSUME NEW p \in Importers, StartReindex(p) PROVE IInvImport'
  BY <1>3, StartReindexStep
<1>4. ASSUME NEW p \in Importers, Run(p) PROVE IInvImport'
  BY <1>4, SweepingStep, IngestStep, WriteVectorsStep, EndingStep, EndReindexStep DEF Run
<1>5. ASSUME NEW p \in Importers, Die(p) PROVE IInvImport'
  BY <1>5, EndingStep
<1>6. ASSUME NEW p \in Importers, NEW f \in Files, ImportOne(p, f) PROVE IInvImport'
  <2>1. {} \in SUBSET Files /\ Parse(p, f, {}) /\ imp[p].stage = "off"
    BY <1>6 DEF ImportOne
  <2> QED
    BY <2>1, ParseStep
<1>7. CASE \E i \in Ids : Delete(i)
  BY <1>7, DeleteStep
<1>8. CASE Vacuum
  BY <1>8, VacuumStep
<1>9. CASE UNCHANGED varsImport
  BY <1>9 DEF varsImport, IInvImport, TypeOKImport, RowsOK, VectorsOK, ImportersOK, Carries,
              Owned, Telling
<1> QED
  BY <1>1, <1>2, <1>3, <1>4, <1>5, <1>6, <1>7, <1>8, <1>9 DEF NextImport

LEMMA InvarianceImport == SpecImport => []IInvImport
BY InitIInvImport, NextIInvImport, PTL DEF SpecImport

-----------------------------------------------------------------------------
(***************************************************************************)
(* However often a file or a copy of it is imported and whatever fails,    *)
(* what it holds is stored once, unless a message of it has no date: equal *)
(* content has equal keys, and Ingest looks for the key and inserts in one *)
(* transaction (conversations.ts, ingest).                                 *)
(***************************************************************************)
THEOREM StoredOnce == SpecImport => []DatedOnce
<1>1. IInvImport => DatedOnce
  <2> SUFFICES ASSUME IInvImport,
                      NEW i \in Ids, NEW j \in Ids,
                      rows[i] # None, rows[j] # None,
                      {rows[i].file, rows[j].file} \subseteq Files \ (Undated \ Identified),
                      Origin[rows[i].file] = Origin[rows[j].file],
                      rows[i].version = rows[j].version
               PROVE  i = j
    BY DEF DatedOnce, Once, IInvImport
  <2>1. PICK a \in Row, b \in Row : a = rows[i] /\ b = rows[j]
    BY TypedImport DEF IInvImport
  <2>2. Telling(a) /\ Telling(b)
    BY <2>1 DEF IInvImport, RowsOK
  <2>3. a.file \in Files /\ b.file \in Files /\ a.key \in Key /\ b.key \in Key
    BY DEF Row
  <2>4. a.file \in Identified <=> b.file \in Identified
    BY <2>1, <2>3, CopiesAssumption
  <2>5. /\ a.key.session = b.key.session /\ a.key.version = b.key.version
        /\ a.key.time = b.key.time
    BY <2>1, <2>2, <2>4 DEF Telling
  <2>6. a.key = b.key
    BY <2>3, <2>5 DEF Key
  <2> QED
    BY <2>1, <2>6 DEF IInvImport, RowsOK
<1> QED
  BY <1>1, InvarianceImport, PTL

(***************************************************************************)
(* Whatever a search finds under an id holds what was looked for           *)
(* (conversations.ts:212), also when conversations are deleted, reindexed  *)
(* and imported while vectors are made: ids are never handed out again.    *)
(***************************************************************************)
THEOREM HitsAreTheirs == SpecImport => []HitsHoldText
<1>1. IInvImport => HitsHoldText
  BY DEF IInvImport, VectorsOK, Owned, HitsHoldText, Hits, VectorHits, KeywordHits,
         Holding, Listed, Words
<1> QED
  BY <1>1, InvarianceImport, PTL
===============================================================================
