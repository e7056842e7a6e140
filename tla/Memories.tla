------------------------------- MODULE Memories -------------------------------
(***************************************************************************)
(* The memory store: one row per remembered fact in table `memories`, one  *)
(* vector per row in the sqlite-vec table `memories_vec`, and the          *)
(* operations of class Memories on both (core/memories/memories.ts, with   *)
(* core/store/vectorIndex.ts and the orphan sweep of `dcx vacuum`).        *)
(*                                                                         *)
(* SQLite calls are synchronous and each statement or transaction is one   *)
(* step.  What interleaves are the asynchronous calls: a call suspends     *)
(* while its text is embedded (a request to the embedding provider) and at *)
(* every `await` of an inner async function; between two stages of one     *)
(* call any step of another call, of another process on the same file, or  *)
(* the death of the calling process may happen.                            *)
(*                                                                         *)
(* Embedding is deterministic, so the vector of a text is identified with  *)
(* the text it was computed from; Dist is the distance of two vectors.     *)
(***************************************************************************)
EXTENDS Integers, FiniteSets

CONSTANTS
    Calls,      \* slots for asynchronous calls in flight
    Handles,    \* open handles of the store, one per process
    Texts,      \* contents of memories
    Tags,       \* tags
    Scopes,     \* scope names
    MaxId,      \* bound: how many rows AUTOINCREMENT ever hands out
    Dist,       \* [Texts \X Texts -> Nat], distance of two vectors
    Threshold,  \* dedup distance of rememberOrMerge, > 0
    DedupK,     \* DEDUP_CANDIDATE_K, neighbours findDuplicate looks at
    Overlap,    \* may an operation start while another call is in flight?
    None        \* no row, no vector, no scope, no argument

Ids == 1..MaxId

(***************************************************************************)
(* A row of table memories.  `kind`, `source` and the timestamps are left  *)
(* out: no operation here branches on them.  scope = None is a NULL        *)
(* scope_id, what ON DELETE SET NULL leaves when the scope is removed.     *)
(***************************************************************************)
Row == [text: Texts, tags: SUBSET Tags, scope: Scopes \cup {None}]

(***************************************************************************)
(* Where a call is suspended:                                              *)
(*   find     findDuplicate waits for the embedding of the new content     *)
(*   insert   findDuplicate returned null, the insert has yet to run       *)
(*   merge    findDuplicate returned a row, mergeInto has yet to run       *)
(*   write    row inserted, VectorIndex.write waits for the embedding      *)
(*   replace  row updated, VectorIndex.replaceOne waits for the embedding  *)
(*   reindex  rows selected, VectorIndex.reindex waits for the embeddings  *)
(***************************************************************************)
Stages == {"idle", "find", "insert", "merge", "write", "replace", "reindex"}

Call == [stage: Stages, by: Handles \cup {None}, text: Texts \cup {None}, tags: SUBSET Tags,
         scope: Scopes \cup {None}, id: Ids \cup {None},
         snap: [Ids -> Texts \cup {None}]]

ASSUME BoundAssumption == MaxId \in Nat
ASSUME DistAssumption == Dist \in [Texts \X Texts -> Nat]
ASSUME DedupAssumption == Threshold \in Nat \ {0} /\ DedupK \in Nat \ {0}
ASSUME OverlapAssumption == Overlap \in BOOLEAN
ASSUME NoneAssumption ==
    None \notin Texts \cup Scopes \cup Ids \cup Row \cup Handles

VARIABLES
    rows,       \* [Ids -> Row or None], table memories
    vec,        \* [Ids -> Texts or None], table memories_vec
    nextId,     \* the next AUTOINCREMENT value: ids are never used twice
    pinned,     \* embed_dim in meta: the first vector has fixed the dimension
    aware,      \* the handles whose embedDim is not 0; each has read it when
                \* it was opened, or has pinned it itself
    call,       \* the calls in flight, each by one of the handles
    versions,   \* history variable: every text a row has ever held
    explained   \* history variable: the rows forgotten by a handle that knew
                \* of no vectors, or while a call in flight held them

dimension == <<pinned, aware>>
history == <<versions, explained>>
vars == <<rows, vec, nextId, dimension, call, history>>

-----------------------------------------------------------------------------
Live(i) == rows[i] # None
Indexed == {i \in Ids : vec[i] # None}

Empty == [i \in Ids |-> None]
Idle == [stage |-> "idle", by |-> None, text |-> None, tags |-> {}, scope |-> None,
         id |-> None, snap |-> Empty]

Quiet == \A c \in Calls : call[c].stage = "idle"
MayStart == Overlap \/ Quiet

Return(c) == call' = [call EXCEPT ![c] = Idle]
Suspend(c, next) == call' = [call EXCEPT ![c] = next]

(* The row table as a reindex selects it. *)
Snapshot == [i \in Ids |-> IF Live(i) THEN rows[i].text ELSE None]

Init ==
    /\ rows = Empty
    /\ vec = Empty
    /\ nextId = 1
    /\ pinned = FALSE /\ aware = {}
    /\ call = [c \in Calls |-> Idle]
    /\ versions = [i \in Ids |-> {}] /\ explained = {}

-----------------------------------------------------------------------------
(* Mistake: a plain rowid instead of AUTOINCREMENT gives freed ids again. *)
InsertRowReusingIds(c, h, t, g, s) ==
    \E i \in Ids :
        /\ ~Live(i) /\ \A j \in Ids : j < i => Live(j)
        /\ rows' = [rows EXCEPT ![i] = [text |-> t, tags |-> g, scope |-> s]]
        /\ versions' = [versions EXCEPT ![i] = {t}]
        /\ Suspend(c, [Idle EXCEPT !.stage = "write", !.by = h, !.text = t, !.id = i])
        /\ UNCHANGED <<vec, nextId, dimension, explained>>

(***************************************************************************)
(* remember: INSERT first, in its own implicit transaction, then wait for  *)
(* the embedding.                                                          *)
(***************************************************************************)
InsertRow(c, h, t, g, s) ==
    /\ nextId \in Ids
    /\ rows' = [rows EXCEPT ![nextId] = [text |-> t, tags |-> g, scope |-> s]]
    /\ versions' = [versions EXCEPT ![nextId] = {t}]
    /\ nextId' = nextId + 1
    /\ Suspend(c, [Idle EXCEPT !.stage = "write", !.by = h, !.text = t, !.id = nextId])
    /\ UNCHANGED <<vec, dimension, explained>>

Remember(c, h, t, g, s) ==
    /\ call[c].stage = "idle"
    /\ MayStart
    /\ InsertRow(c, h, t, g, s)

(* A handle that knows of no dimension pins the provider's before it       *)
(* writes, whatever is pinned; here every provider has the same one.       *)
Pin(h) == pinned' = TRUE /\ aware' = aware \cup {h}

(***************************************************************************)
(* VectorIndex.write: the embedding has arrived.  The INSERT fails on an   *)
(* occupied rowid (a reindex got there first), and the call then rejects.  *)
(***************************************************************************)
WriteVector(c) ==
    /\ call[c].stage = "write"
    /\ vec' = IF vec[call[c].id] = None
              THEN [vec EXCEPT ![call[c].id] = call[c].text]
              ELSE vec
    /\ Pin(call[c].by)
    /\ Return(c)
    /\ UNCHANGED <<rows, nextId, history>>

-----------------------------------------------------------------------------
(***************************************************************************)
(* rememberOrMerge with a positive threshold.  In a handle that knows of   *)
(* no vector findDuplicate returns null before it would embed.             *)
(***************************************************************************)
RememberOrMerge(c, h, t, g, s) ==
    /\ call[c].stage = "idle"
    /\ MayStart
    /\ Suspend(c, [Idle EXCEPT !.stage = IF h \in aware THEN "find" ELSE "insert",
                               !.by = h, !.text = t, !.tags = g, !.scope = s])
    /\ UNCHANGED <<rows, vec, nextId, dimension, history>>

(***************************************************************************)
(* The DedupK nearest vectors of a text, of every scope and with orphans;  *)
(* ties at the edge of the window fall either way.                         *)
(***************************************************************************)
Windows(t) ==
    {W \in SUBSET Indexed :
        /\ \/ Cardinality(W) = DedupK
           \/ W = Indexed /\ Cardinality(W) <= DedupK
        /\ \A i \in W, j \in Indexed \ W : Dist[vec[i], t] <= Dist[vec[j], t]}

(* Mistake: no scope filter in the lookup. *)
MatchesOfAnyScope(W, s) == {i \in W : Live(i)}

(* Rows of the window that the JOIN and the scope filter let through. *)
Matches(W, s) == {i \in W : Live(i) /\ rows[i].scope = s}

Closest(M, t) == {i \in M : \A j \in M : Dist[vec[i], t] <= Dist[vec[j], t]}

(***************************************************************************)
(* The rows findDuplicate may settle on in a window: the closest match,    *)
(* when it is strictly nearer than the threshold.                          *)
(***************************************************************************)
Duplicates(W, t, s) ==
    {i \in Closest(Matches(W, s), t) : Dist[vec[i], t] < Threshold}

FindDuplicate(c) ==
    /\ call[c].stage = "find"
    /\ \E W \in Windows(call[c].text) :
         LET D == Duplicates(W, call[c].text, call[c].scope)
         IN \/ /\ D = {}
               /\ Suspend(c, [call[c] EXCEPT !.stage = "insert"])
            \/ \E i \in D :
                 Suspend(c, [call[c] EXCEPT !.stage = "merge", !.id = i,
                                            !.tags = @ \cup rows[i].tags])
    /\ UNCHANGED <<rows, vec, nextId, dimension, history>>

InsertAfterMiss(c) ==
    /\ call[c].stage = "insert"
    /\ InsertRow(c, call[c].by, call[c].text, call[c].tags, call[c].scope)

(* Mistake: INSERT OR REPLACE instead of UPDATE brings a forgotten row back. *)
MergeIntoUpsert(c) ==
    /\ call[c].stage = "merge"
    /\ rows' = [rows EXCEPT ![call[c].id] =
                  [text |-> call[c].text, tags |-> call[c].tags,
                   scope |-> call[c].scope]]
    /\ versions' = [versions EXCEPT ![call[c].id] = @ \cup {call[c].text}]
    /\ Suspend(c, [Idle EXCEPT !.stage = "replace", !.by = call[c].by,
                               !.text = call[c].text, !.id = call[c].id])
    /\ UNCHANGED <<vec, nextId, dimension, explained>>

(* Mistake: delete the old vector before the new one has been computed. *)
MergeIntoAndUnindex(c) ==
    /\ call[c].stage = "merge"
    /\ LET i == call[c].id
       IN /\ Live(i)
          /\ rows' = [rows EXCEPT ![i].text = call[c].text]
          /\ versions' = [versions EXCEPT ![i] = @ \cup {call[c].text}]
          /\ vec' = [vec EXCEPT ![i] = None]
    /\ Suspend(c, [Idle EXCEPT !.stage = "replace", !.by = call[c].by,
                               !.text = call[c].text, !.id = call[c].id])
    /\ UNCHANGED <<nextId, dimension, explained>>

(***************************************************************************)
(* mergeInto: an UPDATE by id.  It changes nothing when the row is gone,   *)
(* and the call goes on to replaceOne either way.                          *)
(***************************************************************************)
MergeInto(c) ==
    /\ call[c].stage = "merge"
    /\ LET i == call[c].id
       IN IF Live(i)
          THEN /\ rows' = [rows EXCEPT ![i] = [text |-> call[c].text,
                                               tags |-> call[c].tags,
                                               scope |-> rows[i].scope]]
               /\ versions' = [versions EXCEPT ![i] = @ \cup {call[c].text}]
          ELSE UNCHANGED <<rows, versions>>
    /\ Suspend(c, [Idle EXCEPT !.stage = "replace", !.by = call[c].by,
                               !.text = call[c].text, !.id = call[c].id])
    /\ UNCHANGED <<vec, nextId, dimension, explained>>

(* Mistake: insert without the delete, which an old vector survives. *)
ReplaceVectorIfAbsent(c) ==
    /\ call[c].stage = "replace"
    /\ vec' = [vec EXCEPT ![call[c].id] = IF @ = None THEN call[c].text ELSE @]
    /\ Pin(call[c].by)
    /\ Return(c)
    /\ UNCHANGED <<rows, nextId, history>>

(* VectorIndex.replaceOne: delete and insert in one transaction. *)
ReplaceVector(c) ==
    /\ call[c].stage = "replace"
    /\ vec' = [vec EXCEPT ![call[c].id] = call[c].text]
    /\ Pin(call[c].by)
    /\ Return(c)
    /\ UNCHANGED <<rows, nextId, history>>

-----------------------------------------------------------------------------
(* The call is to write a vector of row i, or to write it anew.            *)
Holds(c, i) == call[c].id = i \/ call[c].snap[i] # None

Explain(h, i) ==
    explained' = IF \/ vec[i] # None /\ h \notin aware
                    \/ \E c \in Calls : Holds(c, i)
                 THEN explained \cup {i} ELSE explained

(* Mistake: forget leaves the vector behind. *)
ForgetRowOnly(h, i) ==
    /\ MayStart
    /\ Live(i)
    /\ rows' = [rows EXCEPT ![i] = None]
    /\ Explain(h, i)
    /\ UNCHANGED <<vec, nextId, dimension, call, versions>>

(***************************************************************************)
(* forget deletes the vector, then the row, in one transaction; deleteOne  *)
(* returns at once in a handle that knows of no dimension, whatever other  *)
(* processes have written.                                                 *)
(***************************************************************************)
Forget(h, i) ==
    /\ MayStart
    /\ Live(i) \/ vec[i] # None
    /\ rows' = [rows EXCEPT ![i] = None]
    /\ vec' = IF h \in aware THEN [vec EXCEPT ![i] = None] ELSE vec
    /\ Explain(h, i)
    /\ UNCHANGED <<nextId, dimension, call, versions>>

(* Removing a scope (any but the default one) keeps its rows, without a scope. *)
RemoveScope(s) ==
    /\ MayStart
    /\ \E i \in Ids : Live(i) /\ rows[i].scope = s
    /\ rows' = [i \in Ids |-> IF Live(i) /\ rows[i].scope = s
                              THEN [rows[i] EXCEPT !.scope = None]
                              ELSE rows[i]]
    /\ UNCHANGED <<vec, nextId, dimension, call, history>>

(* dcx vacuum: drop the vectors that have no row. *)
Vacuum ==
    /\ MayStart
    /\ pinned
    /\ vec' = [i \in Ids |-> IF Live(i) THEN vec[i] ELSE None]
    /\ UNCHANGED <<rows, nextId, dimension, call, history>>

(***************************************************************************)
(* dcx reindex: select all rows; with none, truncate at once, unless the   *)
(* handle knows of no dimension; else embed them all and swap the whole    *)
(* vector table in one transaction.                                        *)
(***************************************************************************)
StartReindex(c, h) ==
    /\ call[c].stage = "idle"
    /\ MayStart
    /\ IF Snapshot = Empty
       THEN vec' = (IF h \in aware THEN Empty ELSE vec) /\ UNCHANGED call
       ELSE /\ Suspend(c, [Idle EXCEPT !.stage = "reindex", !.by = h, !.snap = Snapshot])
            /\ UNCHANGED vec
    /\ UNCHANGED <<rows, nextId, dimension, history>>

(* Mistake: a reindex only fills the gaps. *)
CommitReindexGaps(c) ==
    /\ call[c].stage = "reindex"
    /\ vec' = [i \in Ids |-> IF vec[i] = None THEN call[c].snap[i] ELSE vec[i]]
    /\ Pin(call[c].by)
    /\ Return(c)
    /\ UNCHANGED <<rows, nextId, history>>

CommitReindex(c) ==
    /\ call[c].stage = "reindex"
    /\ vec' = call[c].snap
    /\ Pin(call[c].by)
    /\ Return(c)
    /\ UNCHANGED <<rows, nextId, history>>

-----------------------------------------------------------------------------
(* The provider fails while a call waits for it: the call rejects. *)
EmbedFails(c) ==
    /\ call[c].stage \in {"find", "write", "replace", "reindex"}
    /\ Return(c)
    /\ UNCHANGED <<rows, vec, nextId, dimension, history>>

(***************************************************************************)
(* The process of a handle ends or dies, its calls at a suspension point   *)
(* or after the dimension was pinned and before the vectors are written;   *)
(* another one opens the store.                                            *)
(***************************************************************************)
Restart(h) ==
    /\ \/ UNCHANGED pinned
       \/ /\ pinned' = TRUE
          /\ \E c \in Calls : /\ call[c].by = h
                              /\ call[c].stage \in {"write", "replace", "reindex"}
    /\ aware' = IF pinned' THEN aware \cup {h} ELSE aware
    /\ call' = [c \in Calls |-> IF call[c].by = h THEN Idle ELSE call[c]]
    /\ UNCHANGED <<rows, vec, nextId, history>>

CallStep(c) ==
    \/ \E h \in Handles, t \in Texts, g \in SUBSET Tags, s \in Scopes :
         Remember(c, h, t, g, s) \/ RememberOrMerge(c, h, t, g, s)
    \/ WriteVector(c)
    \/ FindDuplicate(c)
    \/ InsertAfterMiss(c)
    \/ MergeInto(c)
    \/ ReplaceVector(c)
    \/ \E h \in Handles : StartReindex(c, h)
    \/ CommitReindex(c)
    \/ EmbedFails(c)

Next ==
    \/ \E c \in Calls : CallStep(c)
    \/ \E h \in Handles : Restart(h) \/ \E i \in Ids : Forget(h, i)
    \/ \E s \in Scopes : RemoveScope(s)
    \/ Vacuum

Spec == Init /\ [][Next]_vars

-----------------------------------------------------------------------------
(* Types of the state; nextId - 1 rows have been inserted so far. *)
TypeOK ==
    /\ rows \in [Ids -> Row \cup {None}]
    /\ vec \in [Ids -> Texts \cup {None}]
    /\ nextId \in 1..(MaxId + 1)
    /\ pinned \in BOOLEAN /\ aware \subseteq Handles
    /\ call \in [Calls -> Call]
    /\ versions \in [Ids -> SUBSET Texts] /\ explained \subseteq Ids

(***************************************************************************)
(* A search ranks a live row by a text that very row has held: however     *)
(* late a vector write or a reindex snapshot lands, it never gives one     *)
(* memory the vector of another.  This is what AUTOINCREMENT buys.         *)
(***************************************************************************)
OwnVector ==
    \A i \in Ids : Live(i) /\ vec[i] # None => vec[i] \in versions[i]

(***************************************************************************)
(* "Only considers candidates in the SAME scope" (memories.ts:128): when a *)
(* merge rewrites a row, the row is in the scope the caller named, or in   *)
(* none because the scope was removed after the lookup.                    *)
(***************************************************************************)
MergeStaysInScope ==
    [][\A c \in Calls : MergeInto(c) /\ Live(call[c].id) =>
         rows[call[c].id].scope \in {call[c].scope, None}]_vars

(***************************************************************************)
(* replaceOne and reindex never leave a row worse off than before: a live  *)
(* row that had a vector loses it only when a reindex that selected its    *)
(* rows before this row was inserted commits.  No embedding failure and no *)
(* crash takes a vector away.                                              *)
(***************************************************************************)
VectorsSurvive ==
    [][\A i \in Ids :
         Live(i) /\ vec[i] # None /\ rows'[i] # None /\ vec'[i] = None =>
            \E c \in Calls : CommitReindex(c) /\ call[c].snap[i] = None]_vars

(***************************************************************************)
(* The memory store keeps the promise of a searchable store: the entry of  *)
(* a search is what the JOIN of memories_vec with memories lets through.   *)
(***************************************************************************)
Served == [i \in Ids |-> IF Live(i) THEN vec[i] ELSE None]

Promise == INSTANCE SearchPromise WITH
    text <- Snapshot, entry <- Served, held <- versions

KeepsPromise == Promise!PSpec

(***************************************************************************)
(* forget removes the vector with the row (memories.ts:102-108), and a     *)
(* vector without a row has one of two explanations: a call in flight held *)
(* the row when it was forgotten, and wrote a vector for it later; or the  *)
(* handle that forgot it had been opened before the first vector was       *)
(* written, by another process, and had written none itself.  The second   *)
(* takes no overlap: a server whose embedding failed, `dcx reindex`, and   *)
(* then forget in the server.  Either stays until vacuum or reindex.       *)
(***************************************************************************)
NoOrphans == \A i \in Ids : vec[i] # None /\ ~Live(i) => i \in explained

-----------------------------------------------------------------------------
(* Properties of a client that awaits each reply (Overlap = FALSE).        *)

(***************************************************************************)
(* Used one call at a time, a call that writes a vector leaves its row     *)
(* live, with the content of the call, indexed under that content.         *)
(***************************************************************************)
SuccessMeansIndexed ==
    [][\A c \in Calls : WriteVector(c) \/ ReplaceVector(c) =>
         LET i == call[c].id
         IN rows'[i] # None /\ rows'[i].text = call[c].text
              /\ vec'[i] = call[c].text]_vars

(***************************************************************************)
(* Used one call at a time, a reindex makes good whatever failures left    *)
(* missing or stale: its commit brings the index level with the rows.      *)
(***************************************************************************)
ReindexSyncs ==
    [][\A c \in Calls : CommitReindex(c) => vec' = Snapshot]_vars
=============================================================================
