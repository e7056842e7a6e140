------------------------------- MODULE EmbedDim -------------------------------
(***************************************************************************)
(* The opening of a store behind its gate (Store), and the dimension of    *)
(* the vectors in it.  A store has none until the first vector is written; *)
(* that write pins it in table `meta` and creates the vec0 tables with it  *)
(* (core/store/db.ts, core/store/vectorIndex.ts).  Every process keeps the *)
(* dimension it read when it opened the store, and refuses vectors of      *)
(* another one.                                                            *)
(*                                                                         *)
(* Each process runs one call at a time here; each SQL statement is a step *)
(* of its own, and processes share the file.  The vec0 tables of the three *)
(* kinds of content are created together and stand as one.                 *)
(***************************************************************************)
EXTENDS Store, FiniteSets

CONSTANTS
    Dims,       \* dimensions of the embedding providers in use
    MaxId       \* bound on the rows ever inserted

ASSUME DimsAssumption == Dims \subseteq Nat \ {0}
ASSUME BoundAssumption == MaxId \in Nat

RowIds == 1..MaxId

VARIABLES
    meta,       \* embed_dim in table meta, 0 when absent
    vec0,       \* dimension the vec0 tables were created with, 0 when absent
    rows,       \* content rows
    vecs,       \* rows of the vec0 table
    nextId,     \* next AUTOINCREMENT value
    proc,       \* per process: its stage, its handle, the call it runs
    stale       \* history variable: has a process ever had the store open,
                \* knowing of no dimension, when another one pinned it?

dims == <<meta, vec0, rows, vecs, nextId, proc, stale>>
varsDim == <<store, dims>>

(***************************************************************************)
(* dim is the embedDim the handle caches, provider what the process's      *)
(* embedding provider returns; ids are the rows of the call in progress    *)
(* and swap says that it is a reindex.                                     *)
(***************************************************************************)
Process == [stage: {"closed", "opening", "idle", "embed", "create", "insert"},
            dim: Dims \cup {0}, provider: Dims \cup {0},
            ids: SUBSET RowIds, swap: BOOLEAN]

Closed == [stage |-> "closed", dim |-> 0, provider |-> 0, ids |-> {}, swap |-> FALSE]

InitDim ==
    /\ InitStore
    /\ meta = 0 /\ vec0 = 0
    /\ rows = {} /\ vecs = {} /\ nextId = 1
    /\ proc = [p \in Procs |-> Closed]
    /\ stale = FALSE

To(p, next) == proc' = [proc EXCEPT ![p] = next]
Go(p, stage) == To(p, [proc[p] EXCEPT !.stage = stage])
Return(p) == To(p, [proc[p] EXCEPT !.stage = "idle", !.ids = {}, !.swap = FALSE])

-----------------------------------------------------------------------------
(* openDb: the gate and the stamp, ... *)
Admit(p) ==
    /\ CheckVersion(p) \/ Stamp(p)
    /\ UNCHANGED dims

(* ... then it reads the pinned dimension, ... *)
Open(p, d) ==
    /\ proc[p].stage = "closed" /\ handle[p] = "open"
    /\ To(p, [Closed EXCEPT !.stage = "opening", !.dim = meta, !.provider = d])
    /\ UNCHANGED <<meta, vec0, rows, vecs, nextId, stale>>

CreateIfMissing(d) == IF vec0 = 0 THEN d ELSE vec0

(* ... and creates the tables a pin without them left behind. *)
EnsureOnOpen(p) ==
    /\ proc[p].stage = "opening"
    /\ vec0' = CreateIfMissing(proc[p].dim)
    /\ Go(p, "idle")
    /\ UNCHANGED <<meta, rows, vecs, nextId, stale>>

(* The process ends, or dies in the middle of openDb or of a call. *)
Exit(p) ==
    /\ Close(p)
    /\ To(p, Closed)
    /\ UNCHANGED <<meta, vec0, rows, vecs, nextId, stale>>

-----------------------------------------------------------------------------
(* remember: the row is inserted, its embedding is awaited. *)
Insert(p) ==
    /\ proc[p].stage = "idle"
    /\ nextId \in RowIds
    /\ rows' = rows \cup {nextId}
    /\ nextId' = nextId + 1
    /\ To(p, [proc[p] EXCEPT !.stage = "embed", !.ids = {nextId}])
    /\ UNCHANGED <<meta, vec0, vecs, stale>>

(* reindex: the rows are selected, their embeddings are awaited. *)
Reindex(p) ==
    /\ proc[p].stage = "idle"
    /\ rows # {}
    /\ To(p, [proc[p] EXCEPT !.stage = "embed", !.ids = rows, !.swap = TRUE])
    /\ UNCHANGED <<meta, vec0, rows, vecs, nextId, stale>>

(* Without a row a reindex truncates, unless the handle knows no table. *)
ReindexNothing(p) ==
    /\ proc[p].stage = "idle"
    /\ rows = {}
    /\ vecs' = IF proc[p].dim = 0 THEN vecs ELSE {}
    /\ UNCHANGED <<meta, vec0, rows, nextId, proc, stale>>

EmbedFails(p) ==
    /\ proc[p].stage = "embed"
    /\ Return(p)
    /\ UNCHANGED <<meta, vec0, rows, vecs, nextId, stale>>

(* Another process has the store open and knows of no dimension. *)
Unaware(p) == \E q \in Procs \ {p} : proc[q].stage # "closed" /\ proc[q].dim = 0

(* Mistake: pin with every write. *)
PinAlways(p) ==
    /\ proc[p].stage = "embed"
    /\ meta' = proc[p].provider
    /\ To(p, [proc[p] EXCEPT !.stage = "create", !.dim = proc[p].provider])
    /\ stale' = (stale \/ Unaware(p))
    /\ UNCHANGED <<vec0, rows, vecs, nextId>>

(* setEmbedDim: the handle knows no dimension, so the provider's is pinned. *)
Pin(p) ==
    /\ proc[p].stage = "embed"
    /\ proc[p].dim = 0
    /\ meta' = proc[p].provider
    /\ To(p, [proc[p] EXCEPT !.stage = "create", !.dim = proc[p].provider])
    /\ stale' = (stale \/ Unaware(p))
    /\ UNCHANGED <<vec0, rows, vecs, nextId>>

(* ensureVecTables after the pin: CREATE ... IF NOT EXISTS. *)
CreateTables(p) ==
    /\ proc[p].stage = "create"
    /\ vec0' = CreateIfMissing(proc[p].dim)
    /\ Go(p, "insert")
    /\ UNCHANGED <<meta, rows, vecs, nextId, stale>>

(* The dimension differs from the handle's: ConfigError. *)
Reject(p) ==
    /\ proc[p].stage = "embed"
    /\ proc[p].dim \notin {0, proc[p].provider}
    /\ Return(p)
    /\ UNCHANGED <<meta, vec0, rows, vecs, nextId, stale>>

Accept(p) ==
    /\ proc[p].stage = "embed"
    /\ proc[p].dim = proc[p].provider
    /\ Go(p, "insert")
    /\ UNCHANGED <<meta, vec0, rows, vecs, nextId, stale>>

(***************************************************************************)
(* The transaction on the vec0 table.  sqlite-vec rejects a vector whose   *)
(* dimension is not the table's and an occupied rowid; the transaction     *)
(* then leaves the table as it was.                                        *)
(***************************************************************************)
WriteVectors(p) ==
    /\ proc[p].stage = "insert"
    /\ LET c == proc[p]
       IN vecs' = IF c.dim # vec0 THEN vecs
                  ELSE IF c.swap THEN c.ids
                  ELSE IF c.ids \cap vecs = {} THEN vecs \cup c.ids
                  ELSE vecs
    /\ Return(p)
    /\ UNCHANGED <<meta, vec0, rows, nextId, stale>>

(* Mistake: the row goes, its vector stays. *)
ForgetRowOnly(p, i) ==
    /\ proc[p].stage = "idle"
    /\ i \in rows
    /\ rows' = rows \ {i}
    /\ UNCHANGED <<meta, vec0, vecs, nextId, proc, stale>>

(* forget, with deleteOne skipped by a handle that knows no dimension. *)
Forget(p, i) ==
    /\ proc[p].stage = "idle"
    /\ i \in rows
    /\ rows' = rows \ {i}
    /\ vecs' = IF proc[p].dim = 0 THEN vecs ELSE vecs \ {i}
    /\ UNCHANGED <<meta, vec0, nextId, proc, stale>>

Work(p) ==
    \/ \E d \in Dims : Open(p, d)
    \/ EnsureOnOpen(p)
    \/ Insert(p) \/ Reindex(p) \/ ReindexNothing(p) \/ EmbedFails(p)
    \/ Pin(p) \/ CreateTables(p) \/ Reject(p) \/ Accept(p) \/ WriteVectors(p)
    \/ \E i \in RowIds : Forget(p, i)

NextDim == \E p \in Procs : Admit(p) \/ Exit(p) \/ (Work(p) /\ UNCHANGED store)

SpecDim == InitDim /\ [][NextDim]_varsDim

-----------------------------------------------------------------------------
(* Types of the state behind the gate; TypeOKStore is of the gate. *)
TypeOKDim ==
    /\ meta \in Dims \cup {0} /\ vec0 \in Dims \cup {0}
    /\ rows \subseteq RowIds /\ vecs \subseteq RowIds
    /\ nextId \in 1..(MaxId + 1)
    /\ proc \in [Procs -> Process]
    /\ stale \in BOOLEAN

(***************************************************************************)
(* vectorIndex.ts:14: "The first successful write pins embedDim in the     *)
(* meta table": the pinned dimension never changes, whichever processes    *)
(* write with whatever provider, and also when one dies between the pin    *)
(* and the tables - unless a process had the store open, without a         *)
(* dimension, when another one pinned it: its handle is never refreshed,   *)
(* and pins again.                                                         *)
(***************************************************************************)
DimensionPinned == [][meta # 0 /\ ~stale => meta' = meta]_varsDim

(***************************************************************************)
(* A store whose pin and tables disagree accepts no vector at all, not     *)
(* even from a reindex; so they agree whenever both exist.                 *)
(***************************************************************************)
TablesMatchPin == meta # 0 /\ vec0 # 0 /\ ~stale => meta = vec0

(***************************************************************************)
(* vectorIndex.ts:72: deleteOne will "Remove a single row from the index   *)
(* (no-op when vec isn't loaded)"; vec is loaded here, so a forgotten row  *)
(* leaves no vector, with the same exception.                              *)
(***************************************************************************)
ForgetUnindexes ==
    [][\A p \in Procs, i \in RowIds : ~stale /\ Forget(p, i) => i \notin vecs']_varsDim
=============================================================================
