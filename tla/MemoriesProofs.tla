---------------------------- MODULE MemoriesProofs ----------------------------
(***************************************************************************)
(* Proofs about module Memories, for every set of calls, texts and scopes, *)
(* every distance and every bound: first of calls that interleave in any   *)
(* way, then that Memories implements SearchPromise, and at the end of     *)
(* what a client may rely on that awaits each reply.                       *)
(***************************************************************************)
EXTENDS Memories, TLAPS

USE BoundAssumption, NoneAssumption DEF Ids, dimension, history

(***************************************************************************)
(* The arguments of a suspended call are those its next stage reads.       *)
(***************************************************************************)
ArgumentsOK ==
    \A c \in Calls :
      /\ call[c].stage # "idle" => call[c].by \in Handles
      /\ call[c].stage \in {"find", "insert", "merge", "write", "replace"}
           => call[c].text \in Texts
      /\ call[c].stage \in {"find", "insert", "merge"}
           => call[c].scope \in Scopes
      /\ call[c].stage \in {"merge", "write", "replace"}
           => call[c].id \in Ids /\ call[c].id < nextId

(***************************************************************************)
(* Ids from nextId on are unused: no row, no vector, no history, and no    *)
(* snapshot of a reindex mentions them.                                    *)
(***************************************************************************)
FreshIds ==
    \A i \in Ids : i >= nextId =>
      /\ rows[i] = None /\ vec[i] = None /\ versions[i] = {}
      /\ \A c \in Calls : call[c].stage = "reindex" => call[c].snap[i] = None

(* A live row remembers its text in its history. *)
HistoryOK == \A i \in Ids : Live(i) => rows[i].text \in versions[i]

(* A vector about to be written for a live row is one of its versions. *)
PendingOK ==
    \A c \in Calls :
      /\ call[c].stage \in {"write", "replace"} /\ Live(call[c].id)
           => call[c].text \in versions[call[c].id]
      /\ call[c].stage = "reindex" =>
           \A i \in Ids : Live(i) /\ call[c].snap[i] # None
                            => call[c].snap[i] \in versions[i]

(* The target of a merge is in the caller's scope, or its scope was removed. *)
TargetOK ==
    \A c \in Calls :
      call[c].stage = "merge" /\ Live(call[c].id)
        => rows[call[c].id].scope \in {call[c].scope, None}

IInv == /\ TypeOK /\ ArgumentsOK /\ FreshIds /\ HistoryOK
        /\ PendingOK /\ TargetOK /\ OwnVector

-----------------------------------------------------------------------------
LEMMA IdleIsCall == Idle \in Call /\ Empty \in [Ids -> Texts \cup {None}]
BY DEF Idle, Call, Empty, Stages

LEMMA SnapshotType == ASSUME TypeOK PROVE Snapshot \in [Ids -> Texts \cup {None}]
BY DEF TypeOK, Snapshot, Live, Row

LEMMA InitIInv == Init => IInv
<1> SUFFICES ASSUME Init PROVE IInv
  OBVIOUS
<1>1. TypeOK
  <2>1. rows \in [Ids -> Row \cup {None}] /\ vec \in [Ids -> Texts \cup {None}]
    BY DEF Init, Empty
  <2>2. call \in [Calls -> Call]
    BY IdleIsCall DEF Init
  <2>3. versions \in [Ids -> SUBSET Texts]
    BY DEF Init
  <2>4. nextId \in 1..(MaxId + 1)
    BY DEF Init
  <2>5. pinned \in BOOLEAN /\ aware \subseteq Handles /\ explained \subseteq Ids
    BY DEF Init
  <2> QED
    BY <2>1, <2>2, <2>3, <2>4, <2>5 DEF TypeOK
<1>2. ArgumentsOK /\ PendingOK /\ TargetOK
  BY DEF Init, ArgumentsOK, PendingOK, TargetOK, Idle
<1>3. FreshIds
  BY DEF Init, FreshIds, Empty, Idle
<1>4. HistoryOK /\ OwnVector
  BY DEF Init, HistoryOK, OwnVector, Live, Empty
<1> QED
  BY <1>1, <1>2, <1>3, <1>4 DEF IInv

(* InsertRow, the common step of remember and of a rememberOrMerge that found nothing. *)
LEMMA InsertRowStep ==
    ASSUME IInv, NEW c \in Calls, NEW h \in Handles, NEW t \in Texts, NEW g \in SUBSET Tags,
           NEW s \in Scopes, InsertRow(c, h, t, g, s)
    PROVE  IInv'
<1> DEFINE new == [Idle EXCEPT !.stage = "write", !.by = h, !.text = t, !.id = nextId]
           row == [text |-> t, tags |-> g, scope |-> s]
<1>1. /\ new \in Call /\ new.stage = "write" /\ new.text = t /\ new.id = nextId
      /\ new.by = h
  BY IdleIsCall DEF InsertRow, Call, Stages, Idle
<1>2. row \in Row /\ row # None /\ row.text = t
  BY DEF Row
<1>3. /\ rows' = [rows EXCEPT ![nextId] = row]
      /\ versions' = [versions EXCEPT ![nextId] = {t}]
      /\ nextId \in Ids /\ nextId' = nextId + 1
      /\ call' = [call EXCEPT ![c] = new]
      /\ UNCHANGED <<vec, dimension, explained>>
  BY DEF InsertRow, Suspend
<1> HIDE DEF new, row
<1>4. TypeOK'
  BY <1>1, <1>2, <1>3 DEF IInv, TypeOK
<1>5. ArgumentsOK'
  BY <1>1, <1>3 DEF IInv, TypeOK, ArgumentsOK
<1>6. FreshIds'
  BY <1>1, <1>3 DEF IInv, TypeOK, FreshIds
<1>7. HistoryOK'
  BY <1>2, <1>3 DEF IInv, TypeOK, HistoryOK, Live
<1>8. PendingOK'
  BY <1>1, <1>2, <1>3 DEF IInv, TypeOK, ArgumentsOK, FreshIds, PendingOK, Live
<1>9. TargetOK'
  BY <1>1, <1>2, <1>3 DEF IInv, TypeOK, ArgumentsOK, TargetOK, Live
<1>10. OwnVector'
  BY <1>2, <1>3 DEF IInv, TypeOK, FreshIds, OwnVector, Live
<1> QED
  BY <1>4, <1>5, <1>6, <1>7, <1>8, <1>9, <1>10 DEF IInv

(***************************************************************************)
(* Every step that writes no row.                                          *)
(***************************************************************************)
LEMMA ReturnStep ==
    ASSUME IInv, NEW c \in Calls, Return(c), UNCHANGED <<rows, nextId, history>>,
           pinned' \in BOOLEAN, aware' \subseteq Handles,
           vec' \in [Ids -> Texts \cup {None}],
           \A i \in Ids : /\ i >= nextId => vec'[i] = None
                          /\ Live(i) /\ vec'[i] # None => vec'[i] \in versions[i]
    PROVE  IInv'
<1>1. Idle \in Call /\ Idle.stage = "idle" /\ call' = [call EXCEPT ![c] = Idle]
  BY IdleIsCall DEF Idle, Return
<1>2. TypeOK'
  BY <1>1 DEF IInv, TypeOK
<1>3. ArgumentsOK' /\ PendingOK' /\ TargetOK'
  BY <1>1 DEF IInv, TypeOK, ArgumentsOK, PendingOK, TargetOK, Live
<1>4. FreshIds'
  BY <1>1 DEF IInv, TypeOK, FreshIds
<1>5. HistoryOK' /\ OwnVector'
  BY DEF IInv, TypeOK, HistoryOK, OwnVector, Live
<1> QED
  BY <1>2, <1>3, <1>4, <1>5 DEF IInv

LEMMA SuspendStep ==
    ASSUME IInv, NEW c \in Calls, NEW new \in Call,
           Suspend(c, new), UNCHANGED <<rows, vec, nextId, dimension, history>>,
           new.stage \in {"find", "insert", "merge"} =>
               new.text \in Texts /\ new.scope \in Scopes,
           new.stage = "merge" => /\ new.id \in Ids /\ new.id < nextId
                                  /\ Live(new.id) => rows[new.id].scope = new.scope,
           new.stage = "reindex" => new.snap = Snapshot,
           new.stage \notin {"write", "replace"}, new.by \in Handles
    PROVE  IInv'
<1>1. call' = [call EXCEPT ![c] = new]
  BY DEF Suspend
<1>2. \A i \in Ids : Snapshot[i] = IF Live(i) THEN rows[i].text ELSE None
  BY DEF Snapshot
<1>3. TypeOK'
  BY <1>1 DEF IInv, TypeOK
<1>4. ArgumentsOK'
  BY <1>1 DEF IInv, TypeOK, ArgumentsOK
<1>5. FreshIds'
  BY <1>1, <1>2 DEF IInv, TypeOK, FreshIds, Live
<1>6. PendingOK'
  BY <1>1, <1>2 DEF IInv, TypeOK, PendingOK, HistoryOK, Live
<1>7. TargetOK'
  BY <1>1 DEF IInv, TypeOK, TargetOK, ArgumentsOK, Live
<1>8. HistoryOK' /\ OwnVector'
  BY DEF IInv, TypeOK, HistoryOK, OwnVector, Live
<1> QED
  BY <1>3, <1>4, <1>5, <1>6, <1>7, <1>8 DEF IInv

LEMMA MergeIntoStep ==
    ASSUME IInv, NEW c \in Calls, MergeInto(c)
    PROVE  IInv'
<1> DEFINE new == [Idle EXCEPT !.stage = "replace", !.by = call[c].by, !.text = call[c].text,
                               !.id = call[c].id]
<1>1. /\ call[c] \in Call /\ call[c].stage = "merge" /\ call[c].text \in Texts
      /\ call[c].id \in Ids /\ call[c].id < nextId /\ call[c].by \in Handles
  BY DEF IInv, TypeOK, ArgumentsOK, MergeInto
<1>2. /\ new \in Call /\ new.stage = "replace" /\ new.text = call[c].text
      /\ new.id = call[c].id /\ new.by = call[c].by
  BY <1>1, IdleIsCall DEF Call, Stages, Idle
<1>3. call' = [call EXCEPT ![c] = new] /\ UNCHANGED <<vec, nextId, dimension, explained>>
  BY DEF MergeInto, Suspend
<1> HIDE DEF new
<1>4. CASE ~Live(call[c].id)
  <2>1. UNCHANGED <<rows, versions>>
    BY <1>4 DEF MergeInto
  <2>2. TypeOK' /\ ArgumentsOK'
    BY <1>1, <1>2, <1>3, <2>1 DEF IInv, TypeOK, ArgumentsOK
  <2>3. FreshIds' /\ HistoryOK' /\ OwnVector'
    BY <1>2, <1>3, <2>1 DEF IInv, TypeOK, FreshIds, HistoryOK, OwnVector, Live
  <2>4. PendingOK' /\ TargetOK'
    BY <1>2, <1>3, <1>4, <2>1 DEF IInv, TypeOK, PendingOK, TargetOK, Live
  <2> QED
    BY <2>2, <2>3, <2>4 DEF IInv
<1>5. CASE Live(call[c].id)
  <2> DEFINE j == call[c].id
             row == [text |-> call[c].text, tags |-> call[c].tags,
                     scope |-> rows[j].scope]
  <2>1. /\ rows' = [rows EXCEPT ![j] = row]
        /\ versions' = [versions EXCEPT ![j] = @ \cup {call[c].text}]
    BY <1>5 DEF MergeInto
  <2>2. rows[j] \in Row
    BY <1>1, <1>5 DEF IInv, TypeOK, Live
  <2>3. row \in Row /\ row # None /\ row.text = call[c].text /\ row.scope = rows[j].scope
    BY <1>1, <2>2 DEF Row, Call
  <2> HIDE DEF row
  <2>4. TypeOK' /\ ArgumentsOK'
    BY <1>1, <1>2, <1>3, <2>1, <2>3 DEF IInv, TypeOK, ArgumentsOK
  <2>5. FreshIds'
    BY <1>1, <1>2, <1>3, <2>1 DEF IInv, TypeOK, FreshIds
  <2>6. HistoryOK' /\ OwnVector'
    BY <1>1, <1>3, <1>5, <2>1, <2>3 DEF IInv, TypeOK, HistoryOK, OwnVector, Live
  <2>7. PendingOK'
    BY <1>1, <1>2, <1>3, <1>5, <2>1, <2>3 DEF IInv, TypeOK, PendingOK, ArgumentsOK, Live
  <2>8. TargetOK'
    BY <1>1, <1>2, <1>3, <1>5, <2>1, <2>3 DEF IInv, TypeOK, TargetOK, ArgumentsOK, Live
  <2> QED
    BY <2>4, <2>5, <2>6, <2>7, <2>8 DEF IInv
<1> QED
  BY <1>4, <1>5

(* Steps of other actors, which change rows and vectors and no call. *)
LEMMA ShrinkStep ==
    ASSUME IInv, UNCHANGED <<nextId, dimension, call, versions>>, explained' \subseteq Ids,
           rows' \in [Ids -> Row \cup {None}], vec' \in [Ids -> Texts \cup {None}],
           \A i \in Ids :
             /\ rows'[i] # None => /\ Live(i) /\ rows'[i].text = rows[i].text
                                   /\ rows'[i].scope \in {rows[i].scope, None}
             /\ vec'[i] \in {vec[i], None}
    PROVE  IInv'
<1>1. TypeOK' /\ ArgumentsOK'
  BY DEF IInv, TypeOK, ArgumentsOK
<1>2. FreshIds'
  BY DEF IInv, TypeOK, FreshIds, Live
<1>3. HistoryOK' /\ OwnVector'
  BY DEF IInv, TypeOK, HistoryOK, OwnVector, Live
<1>4. PendingOK'
  BY DEF IInv, TypeOK, ArgumentsOK, PendingOK, Live
<1>5. TargetOK'
  BY DEF IInv, TypeOK, ArgumentsOK, TargetOK, Live
<1> QED
  BY <1>1, <1>2, <1>3, <1>4, <1>5 DEF IInv

(* The calls of a process are lost with it.                                *)
LEMMA RestartStep ==
    ASSUME IInv, NEW h \in Handles, Restart(h)
    PROVE  IInv'
<1>1. /\ call' = [c \in Calls |-> IF call[c].by = h THEN Idle ELSE call[c]]
      /\ UNCHANGED <<rows, vec, nextId, history>>
  BY DEF Restart
<1>2. Idle \in Call /\ Idle.stage = "idle"
  BY IdleIsCall DEF Idle
<1>3. TypeOK'
  <2>1. call' \in [Calls -> Call]
    BY <1>1, <1>2 DEF IInv, TypeOK
  <2>2. pinned' \in BOOLEAN /\ aware' \subseteq Handles
    BY DEF Restart, IInv, TypeOK
  <2> QED
    BY <1>1, <2>1, <2>2 DEF IInv, TypeOK
<1>4. ArgumentsOK' /\ PendingOK' /\ TargetOK'
  BY <1>1, <1>2 DEF IInv, ArgumentsOK, PendingOK, TargetOK, Live
<1>5. FreshIds'
  BY <1>1, <1>2 DEF IInv, FreshIds
<1>6. HistoryOK' /\ OwnVector'
  BY <1>1 DEF IInv, HistoryOK, OwnVector, Live
<1> QED
  BY <1>3, <1>4, <1>5, <1>6 DEF IInv

LEMMA NextIInv == IInv /\ [Next]_vars => IInv'
<1> SUFFICES ASSUME IInv, [Next]_vars PROVE IInv'
  OBVIOUS
<1>1. ASSUME NEW c \in Calls, NEW h \in Handles, NEW t \in Texts, NEW g \in SUBSET Tags, NEW s \in Scopes,
             Remember(c, h, t, g, s)
      PROVE  IInv'
  BY <1>1, InsertRowStep DEF Remember
<1>2. ASSUME NEW c \in Calls, NEW h \in Handles, NEW t \in Texts, NEW g \in SUBSET Tags, NEW s \in Scopes,
             RememberOrMerge(c, h, t, g, s)
      PROVE  IInv'
  <2> DEFINE new == [Idle EXCEPT !.stage = IF h \in aware THEN "find" ELSE "insert",
                                 !.by = h, !.text = t, !.tags = g, !.scope = s]
  <2>1. /\ new \in Call /\ new.stage \in {"find", "insert"}
        /\ new.text = t /\ new.scope = s /\ new.by = h
    BY IdleIsCall DEF Idle, Call, Stages
  <2>2. Suspend(c, new) /\ UNCHANGED <<rows, vec, nextId, dimension, history>>
    BY <1>2 DEF RememberOrMerge
  <2> HIDE DEF new
  <2> QED
    BY <2>1, <2>2, SuspendStep
<1>3. ASSUME NEW c \in Calls, WriteVector(c)
      PROVE  IInv'
  <2>1. call[c].id \in Ids /\ call[c].id < nextId /\ call[c].text \in Texts
    BY <1>3 DEF IInv, ArgumentsOK, WriteVector
  <2>2. Live(call[c].id) => call[c].text \in versions[call[c].id]
    BY <1>3 DEF IInv, PendingOK, WriteVector
  <2>6. call[c].by \in Handles
    BY <1>3 DEF IInv, ArgumentsOK, WriteVector
  <2>3. vec' \in [Ids -> Texts \cup {None}] /\ pinned' \in BOOLEAN /\ aware' \subseteq Handles
    BY <1>3, <2>1, <2>6 DEF IInv, TypeOK, WriteVector, Pin
  <2>4. \A i \in Ids : /\ i >= nextId => vec'[i] = None
                       /\ Live(i) /\ vec'[i] # None => vec'[i] \in versions[i]
    BY <1>3, <2>1, <2>2 DEF IInv, TypeOK, FreshIds, OwnVector, WriteVector
  <2>5. Return(c) /\ UNCHANGED <<rows, nextId, history>>
    BY <1>3 DEF WriteVector
  <2> QED
    BY <2>3, <2>4, <2>5, ReturnStep
<1>4. ASSUME NEW c \in Calls, FindDuplicate(c)
      PROVE  IInv'
  <2>1. /\ call[c] \in Call /\ call[c].stage = "find" /\ call[c].by \in Handles
        /\ call[c].text \in Texts /\ call[c].scope \in Scopes
    BY <1>4 DEF IInv, TypeOK, ArgumentsOK, FindDuplicate
  <2>2. UNCHANGED <<rows, vec, nextId, dimension, history>>
    BY <1>4 DEF FindDuplicate
  <2>3. CASE Suspend(c, [call[c] EXCEPT !.stage = "insert"])
    <3> DEFINE new == [call[c] EXCEPT !.stage = "insert"]
    <3>1. /\ new \in Call /\ new.stage = "insert"
          /\ new.text = call[c].text /\ new.scope = call[c].scope /\ new.by = call[c].by
      BY <2>1 DEF Call, Stages
    <3> HIDE DEF new
    <3> QED
      BY <2>1, <2>2, <2>3, <3>1, SuspendStep DEF new
  <2>4. ASSUME NEW W \in Windows(call[c].text),
               NEW i \in Duplicates(W, call[c].text, call[c].scope),
               Suspend(c, [call[c] EXCEPT !.stage = "merge", !.id = i,
                                          !.tags = @ \cup rows[i].tags])
        PROVE  IInv'
    <3> DEFINE new == [call[c] EXCEPT !.stage = "merge", !.id = i,
                                      !.tags = @ \cup rows[i].tags]
    <3>1. i \in Ids /\ Live(i) /\ rows[i].scope = call[c].scope
      BY DEF Windows, Indexed, Duplicates, Closest, Matches
    <3>2. i < nextId
      BY <3>1 DEF IInv, TypeOK, FreshIds, Live
    <3>3. rows[i] \in Row
      BY <3>1 DEF IInv, TypeOK, Live
    <3>4. /\ new \in Call /\ new.stage = "merge" /\ new.id = i
          /\ new.text = call[c].text /\ new.scope = call[c].scope /\ new.by = call[c].by
      BY <2>1, <3>1, <3>3 DEF Call, Stages, Row
    <3>5. Suspend(c, new)
      BY <2>4
    <3> HIDE DEF new
    <3> QED
      BY <2>1, <2>2, <3>1, <3>2, <3>4, <3>5, SuspendStep
  <2> QED
    BY <1>4, <2>3, <2>4 DEF FindDuplicate
<1>5. ASSUME NEW c \in Calls, InsertAfterMiss(c)
      PROVE  IInv'
  <2>1. /\ call[c].text \in Texts /\ call[c].scope \in Scopes
        /\ call[c].tags \in SUBSET Tags /\ call[c].by \in Handles
    BY <1>5 DEF IInv, TypeOK, ArgumentsOK, Call, InsertAfterMiss
  <2> QED
    BY <1>5, <2>1, InsertRowStep DEF InsertAfterMiss
<1>6. ASSUME NEW c \in Calls, MergeInto(c)
      PROVE  IInv'
  BY <1>6, MergeIntoStep
<1>7. ASSUME NEW c \in Calls, ReplaceVector(c)
      PROVE  IInv'
  <2>1. call[c].id \in Ids /\ call[c].id < nextId /\ call[c].text \in Texts
    BY <1>7 DEF IInv, ArgumentsOK, ReplaceVector
  <2>2. Live(call[c].id) => call[c].text \in versions[call[c].id]
    BY <1>7 DEF IInv, PendingOK, ReplaceVector
  <2>6. call[c].by \in Handles
    BY <1>7 DEF IInv, ArgumentsOK, ReplaceVector
  <2>3. vec' \in [Ids -> Texts \cup {None}] /\ pinned' \in BOOLEAN /\ aware' \subseteq Handles
    BY <1>7, <2>1, <2>6 DEF IInv, TypeOK, ReplaceVector, Pin
  <2>4. \A i \in Ids : /\ i >= nextId => vec'[i] = None
                       /\ Live(i) /\ vec'[i] # None => vec'[i] \in versions[i]
    BY <1>7, <2>1, <2>2 DEF IInv, TypeOK, FreshIds, OwnVector, ReplaceVector
  <2>5. Return(c) /\ UNCHANGED <<rows, nextId, history>>
    BY <1>7 DEF ReplaceVector
  <2> QED
    BY <2>3, <2>4, <2>5, ReturnStep
<1>8. ASSUME NEW c \in Calls, NEW h \in Handles, StartReindex(c, h)
      PROVE  IInv'
  <2>1. CASE Snapshot = Empty
    <3>1. vec' \in {Empty, vec} /\ UNCHANGED <<rows, nextId, dimension, call, history>>
      BY <1>8, <2>1 DEF StartReindex
    <3>2. vec' \in [Ids -> Texts \cup {None}] /\ \A i \in Ids : vec'[i] \in {vec[i], None}
      BY <3>1, IdleIsCall DEF Empty, IInv, TypeOK
    <3> QED
      BY <3>1, <3>2, ShrinkStep DEF IInv, TypeOK, Live
  <2>2. CASE Snapshot # Empty
    <3> DEFINE new == [Idle EXCEPT !.stage = "reindex", !.by = h, !.snap = Snapshot]
    <3>1. Suspend(c, new) /\ UNCHANGED <<rows, vec, nextId, dimension, history>>
      BY <1>8, <2>2 DEF StartReindex
    <3>2. new \in Call /\ new.stage = "reindex" /\ new.snap = Snapshot /\ new.by = h
      BY IdleIsCall, SnapshotType DEF IInv, Idle, Call, Stages
    <3> HIDE DEF new
    <3> QED
      BY <3>1, <3>2, SuspendStep
  <2> QED
    BY <2>1, <2>2
<1>9. ASSUME NEW c \in Calls, CommitReindex(c)
      PROVE  IInv'
  <2>1. vec' \in [Ids -> Texts \cup {None}] /\ pinned' \in BOOLEAN /\ aware' \subseteq Handles
    BY <1>9 DEF IInv, TypeOK, ArgumentsOK, Call, CommitReindex, Pin
  <2>2. \A i \in Ids : /\ i >= nextId => vec'[i] = None
                       /\ Live(i) /\ vec'[i] # None => vec'[i] \in versions[i]
    BY <1>9 DEF IInv, FreshIds, PendingOK, CommitReindex
  <2>3. Return(c) /\ UNCHANGED <<rows, nextId, history>>
    BY <1>9 DEF CommitReindex
  <2> QED
    BY <2>1, <2>2, <2>3, ReturnStep
<1>10. ASSUME NEW c \in Calls, EmbedFails(c)
       PROVE  IInv'
  <2>1. /\ Return(c) /\ UNCHANGED <<rows, vec, nextId, history>>
        /\ pinned' \in BOOLEAN /\ aware' \subseteq Handles
    BY <1>10 DEF EmbedFails, IInv, TypeOK
  <2>2. vec' \in [Ids -> Texts \cup {None}]
    BY <2>1 DEF IInv, TypeOK
  <2> QED
    BY <2>1, <2>2, ReturnStep DEF IInv, FreshIds, OwnVector
<1>11. ASSUME NEW h \in Handles, NEW i \in Ids, Forget(h, i)
       PROVE  IInv'
  <2>1. explained' \subseteq Ids
    BY <1>11 DEF Forget, Explain, IInv, TypeOK
  <2> QED
    BY <1>11, <2>1, ShrinkStep DEF Forget, IInv, TypeOK, Live
<1>12. ASSUME NEW s \in Scopes, RemoveScope(s)
       PROVE  IInv'
  <2>1. \A i \in Ids : Live(i) =>
          LET r == [rows[i] EXCEPT !.scope = None]
          IN r \in Row /\ r.text = rows[i].text /\ r.scope = None
    BY DEF IInv, TypeOK, Live, Row
  <2>2. /\ rows' \in [Ids -> Row \cup {None}]
        /\ \A i \in Ids : rows'[i] # None =>
              /\ Live(i) /\ rows'[i].text = rows[i].text
              /\ rows'[i].scope \in {rows[i].scope, None}
    BY <1>12, <2>1 DEF RemoveScope, IInv, TypeOK, Live
  <2> QED
    BY <1>12, <2>2, ShrinkStep DEF RemoveScope, IInv, TypeOK
<1>13. ASSUME Vacuum
       PROVE  IInv'
  BY <1>13, ShrinkStep DEF Vacuum, IInv, TypeOK, Live
<1>14. ASSUME NEW h \in Handles, Restart(h)
       PROVE  IInv'
  BY <1>14, RestartStep
<1>15. CASE UNCHANGED vars
  BY <1>15, ShrinkStep DEF vars, IInv, TypeOK, Live
<1> QED
  BY <1>1, <1>2, <1>3, <1>4, <1>5, <1>6, <1>7, <1>8, <1>9, <1>10, <1>11, <1>12,
     <1>13, <1>14, <1>15 DEF Next, CallStep

-----------------------------------------------------------------------------
(* The strengthened invariant holds of every reachable state. *)
THEOREM InductiveInvariant == Spec => []IInv
BY InitIInv, NextIInv, PTL DEF Spec

(* Types: the state stays within TypeOK, in particular no id is invented. *)
THEOREM TypeCorrect == Spec => []TypeOK
<1>1. IInv => TypeOK
  BY DEF IInv
<1> QED
  BY <1>1, InductiveInvariant, PTL

(***************************************************************************)
(* No search ranks a live memory by the vector of another memory or by a   *)
(* text it never held, however calls, reindexes, failures and crashes      *)
(* interleave.                                                             *)
(***************************************************************************)
THEOREM VectorOwnership == Spec => []OwnVector
<1>1. IInv => OwnVector
  BY DEF IInv
<1> QED
  BY <1>1, InductiveInvariant, PTL

(* A merge rewrites a row of the caller's scope, or of a removed scope. *)
THEOREM ScopedMerge == Spec => MergeStaysInScope
<1>1. IInv /\ [Next]_vars =>
        [\A c \in Calls : MergeInto(c) /\ Live(call[c].id) =>
           rows[call[c].id].scope \in {call[c].scope, None}]_vars
  BY DEF IInv, TargetOK, MergeInto
<1> QED
  BY <1>1, InductiveInvariant, PTL DEF Spec, MergeStaysInScope

(***************************************************************************)
(* A live row loses a vector it has only to a reindex that selected its    *)
(* rows before this row was inserted: no failed embedding and no crash     *)
(* costs a memory its place in the index.                                  *)
(***************************************************************************)
THEOREM VectorsAreKept == Spec => VectorsSurvive
<1> DEFINE Kept(i) == Live(i) /\ vec[i] # None /\ rows'[i] # None /\ vec'[i] = None
                        => \E c \in Calls : CommitReindex(c) /\ call[c].snap[i] = None
<1>1. ASSUME IInv, Next, NEW i \in Ids
      PROVE  Kept(i)
  <2>1. ASSUME NEW c \in Calls, CallStep(c)
        PROVE  Kept(i)
    <3>1. ASSUME NEW h \in Handles, NEW t \in Texts, NEW g \in SUBSET Tags, NEW s \in Scopes,
                 Remember(c, h, t, g, s) \/ RememberOrMerge(c, h, t, g, s)
          PROVE  Kept(i)
      BY <3>1 DEF Remember, RememberOrMerge, InsertRow
    <3>2. ASSUME WriteVector(c) \/ ReplaceVector(c)
          PROVE  Kept(i)
      <4>1. call[c].text \in Texts /\ call[c].id \in Ids
        BY <1>1, <3>2 DEF IInv, ArgumentsOK, WriteVector, ReplaceVector
      <4> QED
        BY <1>1, <3>2, <4>1 DEF IInv, TypeOK, WriteVector, ReplaceVector
    <3>3. ASSUME FindDuplicate(c) \/ InsertAfterMiss(c) \/ MergeInto(c)
                   \/ EmbedFails(c)
          PROVE  Kept(i)
      BY <3>3 DEF FindDuplicate, InsertAfterMiss, InsertRow, MergeInto, EmbedFails
    <3>4. ASSUME NEW h \in Handles, StartReindex(c, h)
          PROVE  Kept(i)
      <4>1. Live(i) => Snapshot # Empty
        BY <1>1, SnapshotType, NoneAssumption DEF IInv, TypeOK, Live, Snapshot, Empty, Row
      <4> QED
        BY <3>4, <4>1 DEF StartReindex
    <3>5. ASSUME CommitReindex(c)
          PROVE  Kept(i)
      BY <3>5 DEF CommitReindex
    <3> QED
      BY <2>1, <3>1, <3>2, <3>3, <3>4, <3>5 DEF CallStep
  <2>2. ASSUME NEW h \in Handles, NEW j \in Ids, Forget(h, j)
        PROVE  Kept(i)
    BY <1>1, <2>2 DEF Forget, IInv, TypeOK
  <2>3. ASSUME (\E s \in Scopes : RemoveScope(s)) \/ (\E h \in Handles : Restart(h)) \/ Vacuum
        PROVE  Kept(i)
    BY <2>3 DEF RemoveScope, Restart, Vacuum
  <2> QED
    BY <1>1, <2>1, <2>2, <2>3 DEF Next
<1>2. IInv /\ [Next]_vars => [\A i \in Ids : Kept(i)]_vars
  BY <1>1
<1> QED
  BY <1>2, InductiveInvariant, PTL DEF Spec, VectorsSurvive

-----------------------------------------------------------------------------
(***************************************************************************)
(* Whoever may yet write a vector of a row that is gone held the row when  *)
(* it was forgotten: a call that starts later finds only live rows.        *)
(***************************************************************************)
Accounted(i) == Live(i) \/ i \in explained

HeldOK == \A c \in Calls, i \in Ids : Holds(c, i) => Accounted(i)

OrphanInv == HeldOK /\ NoOrphans

(* Rows stay accounted for; vectors come from calls that hold their rows.  *)
LEMMA AccountsKept ==
    ASSUME OrphanInv,
           \A i \in Ids : Accounted(i) => Accounted(i)',
           \A c \in Calls, i \in Ids : Holds(c, i)' => Holds(c, i) \/ Accounted(i)',
           \A i \in Ids : vec'[i] # None =>
                vec[i] # None \/ \E c \in Calls : Holds(c, i)
    PROVE  OrphanInv'
<1>1. HeldOK'
  BY DEF OrphanInv, HeldOK
<1>2. NoOrphans'
  BY DEF OrphanInv, HeldOK, NoOrphans, Accounted, Live
<1> QED
  BY <1>1, <1>2 DEF OrphanInv

(* No step but forget takes a row.                                         *)
LEMMA RowsStay ==
    ASSUME UNCHANGED explained, \A i \in Ids : Live(i) => rows'[i] # None
    PROVE  \A i \in Ids : Accounted(i) => Accounted(i)'
BY DEF Accounted, Live

(* A call that suspends anew, or none at all: the others hold what they did. *)
LEMMA OneCallMoves ==
    ASSUME IInv, OrphanInv, NEW c \in Calls, NEW new, call' = [call EXCEPT ![c] = new],
           \A i \in Ids : Accounted(i) => Accounted(i)',
           \A i \in Ids : new.id = i \/ new.snap[i] # None => Holds(c, i) \/ Accounted(i)',
           \A i \in Ids : vec'[i] # None =>
                vec[i] # None \/ \E d \in Calls : Holds(d, i)
    PROVE  OrphanInv'
<1>1. \A d \in Calls : call'[d] = IF d = c THEN new ELSE call[d]
  BY DEF IInv, TypeOK
<1>2. \A d \in Calls, i \in Ids : Holds(d, i)' => Holds(d, i) \/ Accounted(i)'
  BY <1>1 DEF Holds
<1> QED
  BY <1>2, AccountsKept

LEMMA IdleHoldsNothing == \A i \in Ids : Idle.id # i /\ Idle.snap[i] = None
BY DEF Idle, Empty

LEMMA InsertIsAccounted ==
    ASSUME IInv, OrphanInv, NEW c \in Calls, NEW h \in Handles, NEW t \in Texts,
           NEW g \in SUBSET Tags, NEW s \in Scopes, InsertRow(c, h, t, g, s)
    PROVE  OrphanInv'
<1> DEFINE new == [Idle EXCEPT !.stage = "write", !.by = h, !.text = t, !.id = nextId]
           row == [text |-> t, tags |-> g, scope |-> s]
<1>1. new.id = nextId /\ new.snap = Idle.snap
  BY DEF Idle
<1>2. row # None
  BY DEF Row
<1>3. /\ rows' = [rows EXCEPT ![nextId] = row] /\ nextId \in Ids
      /\ call' = [call EXCEPT ![c] = new] /\ UNCHANGED <<vec, explained>>
  BY DEF InsertRow, Suspend
<1> HIDE DEF new, row
<1>4. \A i \in Ids : rows'[i] = IF i = nextId THEN row ELSE rows[i]
  BY <1>3 DEF IInv, TypeOK
<1>5. \A i \in Ids : Accounted(i) => Accounted(i)'
  BY <1>2, <1>3, <1>4, RowsStay DEF Live
<1>6. \A i \in Ids : new.id = i \/ new.snap[i] # None => Accounted(i)'
  BY <1>1, <1>2, <1>4, IdleHoldsNothing DEF Accounted, Live
<1> QED
  BY <1>3, <1>5, <1>6, OneCallMoves

(* A call writes a vector that it held, or none, and returns.              *)
LEMMA ReturnIsAccounted ==
    ASSUME IInv, OrphanInv, NEW c \in Calls, Return(c), UNCHANGED <<rows, explained>>,
           \A i \in Ids : vec'[i] # None => vec[i] # None \/ Holds(c, i)
    PROVE  OrphanInv'
<1>1. \A i \in Ids : Accounted(i) => Accounted(i)'
  BY RowsStay DEF Live
<1> QED
  BY <1>1, IdleHoldsNothing, OneCallMoves DEF Return

LEMMA SuspendIsAccounted ==
    ASSUME IInv, OrphanInv, NEW c \in Calls, NEW new, Suspend(c, new),
           UNCHANGED <<rows, vec, explained>>,
           \A i \in Ids : new.id = i \/ new.snap[i] # None => Holds(c, i) \/ Live(i)
    PROVE  OrphanInv'
<1>1. \A i \in Ids : Accounted(i) => Accounted(i)'
  BY RowsStay DEF Live
<1>2. \A i \in Ids : Live(i) => Accounted(i)'
  BY <1>1 DEF Accounted
<1> QED
  BY <1>1, <1>2, OneCallMoves DEF Suspend

LEMMA ForgetIsAccounted ==
    ASSUME IInv, OrphanInv, NEW h \in Handles, NEW i \in Ids, Forget(h, i)
    PROVE  OrphanInv'
<1>1. /\ rows' = [rows EXCEPT ![i] = None] /\ call' = call
      /\ vec' = IF h \in aware THEN [vec EXCEPT ![i] = None] ELSE vec
      /\ explained' = IF \/ vec[i] # None /\ h \notin aware
                         \/ \E c \in Calls : Holds(c, i)
                      THEN explained \cup {i} ELSE explained
  BY DEF Forget, Explain
<1>2. \A j \in Ids : j # i => /\ Accounted(j) => Accounted(j)'
                              /\ vec'[j] = vec[j]
  BY <1>1 DEF Accounted, Live, IInv, TypeOK
<1>3. \A c \in Calls, j \in Ids : Holds(c, j)' <=> Holds(c, j)
  BY <1>1 DEF Holds
<1>4. (\E c \in Calls : Holds(c, i)) => i \in explained'
  BY <1>1
<1>5. vec'[i] # None => i \in explained'
  BY <1>1 DEF IInv, TypeOK
<1>6. HeldOK'
  BY <1>2, <1>3, <1>4 DEF OrphanInv, HeldOK, Accounted
<1>7. NoOrphans'
  BY <1>2, <1>5 DEF OrphanInv, NoOrphans, Accounted, Live
<1> QED
  BY <1>6, <1>7 DEF OrphanInv

LEMMA EveryOrphanIsAccounted == IInv /\ OrphanInv /\ [Next]_vars => OrphanInv'
<1> SUFFICES ASSUME IInv, OrphanInv, [Next]_vars PROVE OrphanInv'
  OBVIOUS
<1>1. ASSUME NEW c \in Calls, NEW h \in Handles, NEW t \in Texts, NEW g \in SUBSET Tags,
             NEW s \in Scopes, Remember(c, h, t, g, s)
      PROVE  OrphanInv'
  BY <1>1, InsertIsAccounted DEF Remember
<1>2. ASSUME NEW c \in Calls, NEW h \in Handles, NEW t \in Texts, NEW g \in SUBSET Tags,
             NEW s \in Scopes, RememberOrMerge(c, h, t, g, s)
      PROVE  OrphanInv'
  <2> DEFINE new == [Idle EXCEPT !.stage = IF h \in aware THEN "find" ELSE "insert",
                                 !.by = h, !.text = t, !.tags = g, !.scope = s]
  <2>1. new.id = Idle.id /\ new.snap = Idle.snap
    BY DEF Idle
  <2>2. Suspend(c, new) /\ UNCHANGED <<rows, vec, explained>>
    BY <1>2 DEF RememberOrMerge
  <2> HIDE DEF new
  <2> QED
    BY <2>1, <2>2, IdleHoldsNothing, SuspendIsAccounted
<1>3. ASSUME NEW c \in Calls, WriteVector(c) \/ ReplaceVector(c)
      PROVE  OrphanInv'
  <2>1. /\ Return(c) /\ UNCHANGED <<rows, explained>>
        /\ call[c].id \in Ids
        /\ \A i \in Ids : i # call[c].id => vec'[i] = vec[i]
    BY <1>3 DEF WriteVector, ReplaceVector, IInv, TypeOK, ArgumentsOK
  <2> QED
    BY <2>1, ReturnIsAccounted DEF Holds
<1>4. ASSUME NEW c \in Calls, FindDuplicate(c)
      PROVE  OrphanInv'
  <2>1. call[c] \in Call /\ UNCHANGED <<rows, vec, explained>>
    BY <1>4 DEF IInv, TypeOK, FindDuplicate
  <2>2. CASE Suspend(c, [call[c] EXCEPT !.stage = "insert"])
    <3> DEFINE new == [call[c] EXCEPT !.stage = "insert"]
    <3>1. new.id = call[c].id /\ new.snap = call[c].snap /\ Suspend(c, new)
      BY <2>1, <2>2 DEF Call
    <3> HIDE DEF new
    <3> QED
      BY <2>1, <3>1, SuspendIsAccounted DEF Holds
  <2>3. ASSUME NEW W \in Windows(call[c].text),
               NEW i \in Duplicates(W, call[c].text, call[c].scope),
               Suspend(c, [call[c] EXCEPT !.stage = "merge", !.id = i,
                                          !.tags = @ \cup rows[i].tags])
        PROVE  OrphanInv'
    <3> DEFINE new == [call[c] EXCEPT !.stage = "merge", !.id = i,
                                      !.tags = @ \cup rows[i].tags]
    <3>1. i \in Ids /\ Live(i)
      BY DEF Windows, Indexed, Duplicates, Closest, Matches
    <3>2. new.id = i /\ new.snap = call[c].snap /\ Suspend(c, new)
      BY <2>1, <2>3 DEF Call
    <3> HIDE DEF new
    <3> QED
      BY <2>1, <3>1, <3>2, SuspendIsAccounted DEF Holds
  <2> QED
    BY <1>4, <2>2, <2>3 DEF FindDuplicate
<1>5. ASSUME NEW c \in Calls, InsertAfterMiss(c)
      PROVE  OrphanInv'
  <2>1. /\ call[c].text \in Texts /\ call[c].scope \in Scopes
        /\ call[c].tags \in SUBSET Tags /\ call[c].by \in Handles
    BY <1>5 DEF IInv, TypeOK, ArgumentsOK, Call, InsertAfterMiss
  <2> QED
    BY <1>5, <2>1, InsertIsAccounted DEF InsertAfterMiss
<1>6. ASSUME NEW c \in Calls, MergeInto(c)
      PROVE  OrphanInv'
  <2> DEFINE new == [Idle EXCEPT !.stage = "replace", !.by = call[c].by,
                                 !.text = call[c].text, !.id = call[c].id]
  <2>1. new.id = call[c].id /\ new.snap = Idle.snap
    BY DEF Idle
  <2>2. call' = [call EXCEPT ![c] = new] /\ UNCHANGED <<vec, explained>>
    BY <1>6 DEF MergeInto, Suspend
  <2> HIDE DEF new
  <2>3. \A i \in Ids : Live(i) => rows'[i] # None
    <3> DEFINE i == call[c].id
               row == [text |-> call[c].text, tags |-> call[c].tags, scope |-> rows[i].scope]
    <3>1. /\ call[c] \in Call /\ i \in Ids /\ call[c].text \in Texts
          /\ rows \in [Ids -> Row \cup {None}]
      BY <1>6 DEF IInv, TypeOK, ArgumentsOK, MergeInto
    <3>2. \/ rows' = rows
          \/ Live(i) /\ rows' = [rows EXCEPT ![i] = row]
      BY <1>6 DEF MergeInto
    <3>3. Live(i) => row \in Row
      BY <3>1 DEF Row, Call, Live
    <3>4. None \notin Row
      BY NoneAssumption
    <3> HIDE DEF row, i
    <3> QED
      BY <3>1, <3>2, <3>3, <3>4 DEF Live
  <2>4. \A i \in Ids : Accounted(i) => Accounted(i)'
    BY <2>2, <2>3, RowsStay
  <2>5. \A i \in Ids : new.id = i \/ new.snap[i] # None => Holds(c, i)
    BY <2>1, IdleHoldsNothing DEF Holds
  <2> QED
    BY <2>2, <2>4, <2>5, OneCallMoves
<1>7. ASSUME NEW c \in Calls, NEW h \in Handles, StartReindex(c, h)
      PROVE  OrphanInv'
  <2>1. UNCHANGED <<rows, explained>>
    BY <1>7 DEF StartReindex
  <2>2. CASE Snapshot = Empty
    <3>1. call' = call /\ \A i \in Ids : vec'[i] \in {vec[i], None}
      BY <1>7, <2>2 DEF StartReindex, Empty
    <3>2. \A i \in Ids : Accounted(i) => Accounted(i)'
      BY <2>1, RowsStay DEF Live
    <3> QED
      BY <3>1, <3>2, AccountsKept DEF Holds
  <2>3. CASE Snapshot # Empty
    <3> DEFINE new == [Idle EXCEPT !.stage = "reindex", !.by = h, !.snap = Snapshot]
    <3>1. new.id = Idle.id /\ new.snap = Snapshot
      BY DEF Idle
    <3>2. Suspend(c, new) /\ vec' = vec
      BY <1>7, <2>3 DEF StartReindex
    <3>3. \A i \in Ids : Snapshot[i] # None => Live(i)
      BY DEF Snapshot
    <3> HIDE DEF new
    <3> QED
      BY <2>1, <3>1, <3>2, <3>3, IdleHoldsNothing, SuspendIsAccounted
  <2> QED
    BY <2>2, <2>3
<1>8. ASSUME NEW c \in Calls, CommitReindex(c)
      PROVE  OrphanInv'
  <2>1. Return(c) /\ vec' = call[c].snap /\ UNCHANGED <<rows, explained>>
    BY <1>8 DEF CommitReindex
  <2> QED
    BY <2>1, ReturnIsAccounted DEF Holds
<1>9. ASSUME NEW c \in Calls, EmbedFails(c)
      PROVE  OrphanInv'
  BY <1>9, ReturnIsAccounted DEF EmbedFails
<1>10. ASSUME NEW h \in Handles, Restart(h)
       PROVE  OrphanInv'
  <2>1. /\ UNCHANGED <<rows, vec, explained>>
        /\ \A c \in Calls : call'[c] \in {call[c], Idle}
    BY <1>10 DEF Restart
  <2>2. \A i \in Ids : Accounted(i) => Accounted(i)'
    BY <2>1, RowsStay DEF Live
  <2>3. \A c \in Calls, i \in Ids : Holds(c, i)' => Holds(c, i)
    BY <2>1, IdleHoldsNothing DEF Holds
  <2> QED
    BY <2>1, <2>2, <2>3, AccountsKept
<1>11. ASSUME (\E s \in Scopes : RemoveScope(s)) \/ Vacuum \/ UNCHANGED vars
       PROVE  OrphanInv'
  <2>1. call' = call /\ explained' = explained /\ \A i \in Ids : vec'[i] \in {vec[i], None}
    BY <1>11 DEF RemoveScope, Vacuum, vars
  <2>2. \A i \in Ids : Live(i) => [rows[i] EXCEPT !.scope = None] \in Row
    BY DEF IInv, TypeOK, Live, Row
  <2>3. \A i \in Ids : Live(i) => rows'[i] # None
    BY <1>11, <2>2 DEF RemoveScope, Vacuum, vars, Live
  <2>4. \A i \in Ids : Accounted(i) => Accounted(i)'
    BY <2>1, <2>3, RowsStay
  <2> QED
    BY <2>1, <2>4, AccountsKept DEF Holds
<1> QED
  BY <1>1, <1>2, <1>3, <1>4, <1>5, <1>6, <1>7, <1>8, <1>9, <1>10, <1>11, ForgetIsAccounted
     DEF Next, CallStep

(***************************************************************************)
(* A vector without a memory is one that a call in flight held when it was *)
(* forgotten, or that was there when a handle forgot it that had not       *)
(* learned of any vector; however calls, processes, failures and deaths    *)
(* interleave, forget leaves no other (Memories.forget, deleteOne).        *)
(***************************************************************************)
THEOREM OrphansAreExplained == Spec => []NoOrphans
<1>1. Init => OrphanInv
  BY IdleHoldsNothing DEF Init, OrphanInv, HeldOK, NoOrphans, Holds, Empty
<1>2. OrphanInv => NoOrphans
  BY DEF OrphanInv
<1> QED
  BY <1>1, <1>2, EveryOrphanIsAccounted, InductiveInvariant, PTL DEF Spec

-----------------------------------------------------------------------------
(* Refinement: the memory store implements SearchPromise.                  *)

LEMMA SnapshotAt ==
    /\ DOMAIN Snapshot = Ids /\ DOMAIN Served = Ids
    /\ \A i \in Ids : /\ Snapshot[i] = IF Live(i) THEN rows[i].text ELSE None
                      /\ Served[i] = IF Live(i) THEN vec[i] ELSE None
BY DEF Snapshot, Served

LEMMA HonestHolds == IInv => Promise!Honest
<1> SUFFICES ASSUME IInv PROVE Promise!Honest
  OBVIOUS
<1>1. \A i \in Ids : Live(i) => rows[i].text \in Texts
  BY DEF IInv, TypeOK, Live, Row
<1> QED
  BY <1>1, SnapshotAt, NoneAssumption DEF IInv, OwnVector, Promise!Honest

(* What a step does to the rows is what it does to their texts. *)
LEMMA SnapshotNext ==
    /\ Snapshot' = [i \in Ids |-> IF rows'[i] # None THEN rows'[i].text ELSE None]
    /\ Served' = [i \in Ids |-> IF rows'[i] # None THEN vec'[i] ELSE None]
BY DEF Snapshot, Served, Live

(* An INSERT adds a row under an id that no row has had. *)
LEMMA InsertAdds ==
    ASSUME IInv, NEW c \in Calls, NEW h \in Handles, NEW t \in Texts, NEW g \in SUBSET Tags,
           NEW s \in Scopes, InsertRow(c, h, t, g, s)
    PROVE  Promise!Add(nextId, t)
<1> DEFINE row == [text |-> t, tags |-> g, scope |-> s]
<1>1. /\ rows' = [rows EXCEPT ![nextId] = row]
      /\ versions' = [versions EXCEPT ![nextId] = {t}]
      /\ nextId \in Ids
  BY DEF InsertRow
<1>2. row # None /\ row.text = t
  BY DEF Row
<1> HIDE DEF row
<1>3. Snapshot' = [Snapshot EXCEPT ![nextId] = t]
  BY <1>1, <1>2, SnapshotNext DEF IInv, TypeOK, Live, Snapshot
<1>4. versions[nextId] = {}
  BY <1>1 DEF IInv, TypeOK, FreshIds
<1> QED
  BY <1>1, <1>3, <1>4 DEF Promise!Add

(* An UPDATE of a live row absorbs the text; of a row that is gone, nothing. *)
LEMMA MergeAbsorbs ==
    ASSUME IInv, NEW c \in Calls, MergeInto(c)
    PROVE  \/ Promise!Absorb(call[c].id, call[c].text)
           \/ UNCHANGED <<Snapshot, versions>>
<1>1. CASE ~Live(call[c].id)
  BY <1>1, SnapshotNext DEF MergeInto, Snapshot, Live
<1>2. CASE Live(call[c].id)
  <2> DEFINE j == call[c].id
             row == [text |-> call[c].text, tags |-> call[c].tags,
                     scope |-> rows[j].scope]
  <2>1. /\ rows' = [rows EXCEPT ![j] = row]
        /\ versions' = [versions EXCEPT ![j] = @ \cup {call[c].text}]
    BY <1>2 DEF MergeInto
  <2>2. /\ j \in Ids /\ call[c] \in Call /\ call[c].text \in Texts
        /\ rows[j] \in Row
    BY <1>2 DEF IInv, TypeOK, ArgumentsOK, MergeInto, Live
  <2>3. row # None /\ row.text = call[c].text
    BY <2>2 DEF Row, Call
  <2> HIDE DEF row
  <2>4. Snapshot' = [Snapshot EXCEPT ![j] = call[c].text]
    BY <2>1, <2>2, <2>3, SnapshotNext DEF IInv, TypeOK, Live, Snapshot
  <2>5. Snapshot[j] # None
    BY <1>2, <2>2, SnapshotAt, NoneAssumption DEF Row
  <2> QED
    BY <2>1, <2>4, <2>5 DEF Promise!Absorb
<1> QED
  BY <1>1, <1>2

LEMMA ForgetDrops ==
    ASSUME IInv, NEW h \in Handles, NEW i \in Ids, Forget(h, i)
    PROVE  Promise!Drop(i) \/ UNCHANGED <<Snapshot, versions>>
<1>1. /\ rows' = [rows EXCEPT ![i] = None] /\ versions' = versions
  BY DEF Forget
<1>2. CASE ~Live(i)
  BY <1>1, <1>2, SnapshotNext DEF Snapshot, Live, IInv, TypeOK
<1>3. CASE Live(i)
  <2>1. Snapshot' = [Snapshot EXCEPT ![i] = None]
    BY <1>1, SnapshotNext DEF IInv, TypeOK, Live, Snapshot
  <2>2. Snapshot[i] # None
    BY <1>3, SnapshotAt, NoneAssumption DEF IInv, TypeOK, Live, Row
  <2> QED
    BY <1>1, <2>1, <2>2 DEF Promise!Drop
<1> QED
  BY <1>2, <1>3

LEMMA RefinementStep == IInv /\ IInv' /\ [Next]_vars => Promise!PNext
<1> SUFFICES ASSUME IInv, IInv', [Next]_vars PROVE Promise!PNext
  OBVIOUS
<1> DEFINE Moves ==
      \/ \E i \in Ids, t \in Texts : Promise!Add(i, t) \/ Promise!Absorb(i, t)
      \/ \E i \in Ids : Promise!Drop(i)
      \/ UNCHANGED <<Snapshot, versions>>
<1>1. Promise!Honest'
  BY HonestHolds, PTL
<1>2. ASSUME NEW c \in Calls, NEW h \in Handles, NEW t \in Texts, NEW g \in SUBSET Tags, NEW s \in Scopes,
             InsertRow(c, h, t, g, s)
      PROVE  Moves
  BY <1>2, InsertAdds DEF InsertRow
<1>3. ASSUME NEW c \in Calls, InsertAfterMiss(c)
      PROVE  Moves
  <2>1. /\ call[c].text \in Texts /\ call[c].scope \in Scopes
        /\ call[c].tags \in SUBSET Tags /\ call[c].by \in Handles
    BY <1>3 DEF IInv, TypeOK, ArgumentsOK, Call, InsertAfterMiss
  <2> QED
    BY <1>2, <1>3, <2>1 DEF InsertAfterMiss
<1>4. ASSUME NEW c \in Calls, MergeInto(c)
      PROVE  Moves
  BY <1>4, MergeAbsorbs DEF IInv, ArgumentsOK, MergeInto
<1>5. ASSUME NEW h \in Handles, NEW i \in Ids, Forget(h, i)
      PROVE  Moves
  BY <1>5, ForgetDrops
<1>6. ASSUME NEW s \in Scopes, RemoveScope(s)
      PROVE  Moves
  <2>1. ASSUME NEW i \in Ids, Live(i)
        PROVE  LET r == [rows[i] EXCEPT !.scope = None]
               IN r # None /\ r.text = rows[i].text
    <3>1. rows[i] \in Row
      BY <2>1 DEF IInv, TypeOK, Live
    <3>2. [rows[i] EXCEPT !.scope = None] \in Row
      BY <3>1 DEF Row
    <3> QED
      BY <3>1, <3>2 DEF Row
  <2> QED
    BY <1>6, <2>1, SnapshotNext DEF RemoveScope, Snapshot, Live
<1>7. ASSUME UNCHANGED <<rows, history>>
      PROVE  Moves
  BY <1>7, SnapshotNext DEF Snapshot, Live
<1>8. Moves
  <2>1. ASSUME NEW c \in Calls, CallStep(c)
        PROVE  Moves
    BY <2>1, <1>2, <1>3, <1>4, <1>7
       DEF CallStep, Remember, RememberOrMerge, WriteVector, FindDuplicate,
           ReplaceVector, StartReindex, CommitReindex, EmbedFails
  <2> QED
    BY <2>1, <1>5, <1>6, <1>7 DEF Next, Restart, Vacuum, vars
<1> QED
  BY <1>1, <1>8 DEF Promise!PNext

(***************************************************************************)
(* The memory store implements the promise of a searchable store: ids      *)
(* name one row for ever, forgotten rows stay gone, and what a search      *)
(* serves is a live row under one of its own texts.                        *)
(***************************************************************************)
THEOREM Implements == Spec => KeepsPromise
<1>1. Init => Promise!PInit
  BY DEF Init, Empty, Snapshot, Served, Live, Promise!PInit
<1> QED
  BY <1>1, RefinementStep, InductiveInvariant, PTL
     DEF Spec, KeepsPromise, Promise!PSpec

-----------------------------------------------------------------------------
(* A client that awaits each reply: Overlap = FALSE.                       *)

(* One call at a time is in flight, and nothing else starts meanwhile.     *)
OneCall ==
    \A c, d \in Calls : call[c].stage # "idle" /\ call[d].stage # "idle" => c = d

(***************************************************************************)
(* What a suspended call has read or written is still so: its row is live, *)
(* under its text, not yet indexed if it is new; a reindex has selected    *)
(* the rows there are.                                                     *)
(***************************************************************************)
Awaited ==
    \A c \in Calls :
        /\ call[c].stage \in {"merge", "write", "replace"} => Live(call[c].id)
        /\ call[c].stage \in {"write", "replace"} => rows[call[c].id].text = call[c].text
        /\ call[c].stage = "write" => vec[call[c].id] = None
        /\ call[c].stage = "reindex" => call[c].snap = Snapshot

SerialInv == OneCall /\ Awaited

(* The call that moves is the only one, so the others have nothing to keep. *)
LEMMA OthersIdle ==
    ASSUME OneCall, NEW c \in Calls, call[c].stage # "idle"
    PROVE  \A d \in Calls \ {c} : call[d].stage = "idle"
BY DEF OneCall

(* A call goes on to its next stage, or a first one starts.                *)
LEMMA SerialSuspend ==
    ASSUME IInv, SerialInv, NEW c \in Calls, \A d \in Calls \ {c} : call[d].stage = "idle",
           NEW new, call' = [call EXCEPT ![c] = new],
           new.stage \in {"merge", "write", "replace"} => rows'[new.id] # None,
           new.stage \in {"write", "replace"} => rows'[new.id].text = new.text,
           new.stage = "write" => vec'[new.id] = None,
           new.stage = "reindex" => new.snap = Snapshot'
    PROVE  SerialInv'
<1>1. \A d \in Calls : call'[d] = IF d = c THEN new ELSE call[d]
    BY DEF IInv, TypeOK
<1>2. OneCall'
    BY <1>1 DEF OneCall
<1>3. Awaited'
    BY <1>1 DEF Awaited, Live
<1> QED
    BY <1>2, <1>3 DEF SerialInv

(* A step that nothing awaits.                                             *)
LEMMA SerialQuiet ==
    ASSUME SerialInv, Quiet, call' = call
    PROVE  SerialInv'
BY DEF SerialInv, OneCall, Awaited, Quiet, Live

LEMMA SerialInsert ==
    ASSUME IInv, SerialInv, NEW c \in Calls, \A d \in Calls \ {c} : call[d].stage = "idle",
           NEW h \in Handles, NEW t \in Texts, NEW g \in SUBSET Tags, NEW s \in Scopes, InsertRow(c, h, t, g, s)
    PROVE  SerialInv'
<1> DEFINE new == [Idle EXCEPT !.stage = "write", !.by = h, !.text = t, !.id = nextId]
           row == [text |-> t, tags |-> g, scope |-> s]
<1>1. new.stage = "write" /\ new.text = t /\ new.id = nextId
    BY DEF Idle
<1>2. row # None /\ row.text = t
    BY DEF Row
<1>3. /\ rows' = [rows EXCEPT ![nextId] = row] /\ vec' = vec
      /\ nextId \in Ids /\ call' = [call EXCEPT ![c] = new]
    BY DEF InsertRow, Suspend
<1> HIDE DEF new, row
<1>4. vec[nextId] = None
    BY <1>3 DEF IInv, TypeOK, FreshIds
<1>5. rows' = [rows EXCEPT ![nextId] = row] /\ rows'[nextId] = row
    BY <1>3 DEF IInv, TypeOK
<1> QED
    BY <1>1, <1>2, <1>3, <1>4, <1>5, SerialSuspend

(* A call ends: nothing is awaited any more.                               *)
LEMMA SerialReturn ==
    ASSUME IInv, SerialInv, NEW c \in Calls, call[c].stage # "idle", Return(c)
    PROVE  SerialInv'
<1>1. \A d \in Calls \ {c} : call[d].stage = "idle"
    BY OthersIdle DEF SerialInv
<1>2. Idle.stage = "idle" /\ call' = [call EXCEPT ![c] = Idle]
    BY DEF Return, Idle
<1> QED
    BY <1>1, <1>2, SerialSuspend

LEMMA SerialStep ==
    ASSUME ~Overlap, IInv, SerialInv, Next
    PROVE  SerialInv'
<1>1. ASSUME Quiet, NEW c \in Calls, NEW h \in Handles, NEW t \in Texts, NEW g \in SUBSET Tags, NEW s \in Scopes,
             Remember(c, h, t, g, s)
      PROVE  SerialInv'
    BY <1>1, SerialInsert DEF Remember, Quiet
<1>2. ASSUME Quiet, NEW c \in Calls, NEW h \in Handles, NEW t \in Texts, NEW g \in SUBSET Tags, NEW s \in Scopes,
             RememberOrMerge(c, h, t, g, s)
      PROVE  SerialInv'
    <2> DEFINE new == [Idle EXCEPT !.stage = IF h \in aware THEN "find" ELSE "insert",
                                   !.by = h, !.text = t, !.tags = g, !.scope = s]
    <2>1. new.stage \in {"find", "insert"}
        BY DEF Idle
    <2>2. /\ call' = [call EXCEPT ![c] = new] /\ UNCHANGED <<rows, vec>>
        BY <1>2 DEF RememberOrMerge, Suspend
    <2> HIDE DEF new
    <2>3. \A d \in Calls \ {c} : call[d].stage = "idle"
        BY <1>2 DEF Quiet
    <2> QED
        BY <2>1, <2>2, <2>3, SerialSuspend
<1>3. ASSUME NEW c \in Calls,
             WriteVector(c) \/ ReplaceVector(c) \/ CommitReindex(c) \/ EmbedFails(c)
      PROVE  SerialInv'
    <2>1. Return(c) /\ call[c].stage # "idle"
        BY <1>3 DEF WriteVector, ReplaceVector, CommitReindex, EmbedFails
    <2> QED
        BY <2>1, SerialReturn
<1>4. ASSUME NEW c \in Calls, FindDuplicate(c)
      PROVE  SerialInv'
    <2>1. call[c] \in Call /\ call[c].stage = "find" /\ UNCHANGED <<rows, vec>>
        BY <1>4 DEF FindDuplicate, IInv, TypeOK
    <2>2. \A d \in Calls \ {c} : call[d].stage = "idle"
        BY <2>1, OthersIdle DEF SerialInv
    <2>4. CASE Suspend(c, [call[c] EXCEPT !.stage = "insert"])
        <3> DEFINE new == [call[c] EXCEPT !.stage = "insert"]
        <3>1. new.stage = "insert" /\ call' = [call EXCEPT ![c] = new]
            BY <2>1, <2>4 DEF Call, Suspend
        <3> HIDE DEF new
        <3> QED
            BY <2>2, <3>1, SerialSuspend
    <2>5. ASSUME NEW W \in Windows(call[c].text),
                 NEW i \in Duplicates(W, call[c].text, call[c].scope),
                 Suspend(c, [call[c] EXCEPT !.stage = "merge", !.id = i,
                                            !.tags = @ \cup rows[i].tags])
          PROVE  SerialInv'
        <3> DEFINE new == [call[c] EXCEPT !.stage = "merge", !.id = i,
                                          !.tags = @ \cup rows[i].tags]
        <3>1. i \in Ids /\ Live(i)
            BY DEF Windows, Indexed, Duplicates, Closest, Matches
        <3>2. new.stage = "merge" /\ new.id = i /\ call' = [call EXCEPT ![c] = new]
            BY <2>1, <2>5 DEF Call, Suspend
        <3> HIDE DEF new
        <3>3. rows'[new.id] # None
            BY <2>1, <3>1, <3>2 DEF Live
        <3> QED
            BY <2>2, <3>2, <3>3, SerialSuspend
    <2> QED
        BY <1>4, <2>4, <2>5 DEF FindDuplicate
<1>5. ASSUME NEW c \in Calls, InsertAfterMiss(c)
      PROVE  SerialInv'
    <2>1. /\ call[c].text \in Texts /\ call[c].scope \in Scopes
        /\ call[c].tags \in SUBSET Tags /\ call[c].by \in Handles
        BY <1>5 DEF IInv, TypeOK, ArgumentsOK, Call, InsertAfterMiss
    <2>2. \A d \in Calls \ {c} : call[d].stage = "idle"
        BY <1>5, OthersIdle DEF SerialInv, InsertAfterMiss
    <2> QED
        BY <1>5, <2>1, <2>2, SerialInsert DEF InsertAfterMiss
<1>6. ASSUME NEW c \in Calls, MergeInto(c)
      PROVE  SerialInv'
    <2> DEFINE j == call[c].id
               new == [Idle EXCEPT !.stage = "replace", !.by = call[c].by, !.text = call[c].text, !.id = j]
               row == [text |-> call[c].text, tags |-> call[c].tags, scope |-> rows[j].scope]
    <2>1. /\ call[c].stage = "merge" /\ j \in Ids /\ Live(j)
          /\ call[c] \in Call /\ call[c].text \in Texts
        BY <1>6 DEF MergeInto, IInv, TypeOK, ArgumentsOK, SerialInv, Awaited
    <2>2. /\ rows' = [rows EXCEPT ![j] = row] /\ vec' = vec
          /\ call' = [call EXCEPT ![c] = new]
        BY <1>6, <2>1 DEF MergeInto, Suspend
    <2>3. new.stage = "replace" /\ new.text = call[c].text /\ new.id = j
        BY DEF Idle
    <2>4. row # None /\ row.text = call[c].text
        <3>1. rows[j] \in Row
            BY <2>1 DEF IInv, TypeOK, Live
        <3>2. row \in Row
            BY <2>1, <3>1 DEF Row, Call
        <3> QED
            BY <3>2
    <2> HIDE DEF new, row
    <2>5. rows'[j] = row
        BY <2>1, <2>2 DEF IInv, TypeOK
    <2>6. \A d \in Calls \ {c} : call[d].stage = "idle"
        BY <2>1, OthersIdle DEF SerialInv
    <2> QED
        BY <2>2, <2>3, <2>4, <2>5, <2>6, SerialSuspend
<1>7. ASSUME Quiet, NEW c \in Calls, NEW h \in Handles, StartReindex(c, h)
      PROVE  SerialInv'
    <2>1. rows' = rows
        BY <1>7 DEF StartReindex
    <2>2. CASE Snapshot = Empty
        <3>1. call' = call
            BY <1>7, <2>2 DEF StartReindex
        <3> QED
            BY <1>7, <3>1, SerialQuiet
    <2>3. CASE Snapshot # Empty
        <3> DEFINE new == [Idle EXCEPT !.stage = "reindex", !.by = h, !.snap = Snapshot]
        <3>1. /\ new.stage = "reindex" /\ new.snap = Snapshot /\ vec' = vec
              /\ call' = [call EXCEPT ![c] = new]
            BY <1>7, <2>3 DEF StartReindex, Suspend, Idle
        <3> HIDE DEF new
        <3>2. Snapshot' = Snapshot
            BY <2>1 DEF Snapshot, Live
        <3>3. \A d \in Calls \ {c} : call[d].stage = "idle"
            BY <1>7 DEF Quiet
        <3> QED
            BY <3>1, <3>2, <3>3, SerialSuspend
    <2> QED
        BY <2>2, <2>3
<1>8. ASSUME NEW h \in Handles, Restart(h)
      PROVE  SerialInv'
    <2>1. /\ UNCHANGED <<rows, vec>>
          /\ \A c \in Calls : call'[c] \in {call[c], Idle}
        BY <1>8 DEF Restart
    <2>2. Idle.stage = "idle" /\ Snapshot' = Snapshot
        BY <2>1 DEF Idle, Snapshot, Live
    <2> QED
        BY <2>1, <2>2 DEF SerialInv, OneCall, Awaited, Live
<1>9. ASSUME Quiet, UNCHANGED call
      PROVE  SerialInv'
    BY <1>9, SerialQuiet
<1>10. MayStart => Quiet
    BY DEF MayStart
<1> QED
    BY <1>1, <1>2, <1>3, <1>4, <1>5, <1>6, <1>7, <1>8, <1>9, <1>10
       DEF Next, CallStep, Remember, RememberOrMerge, StartReindex, Forget, RemoveScope, Vacuum

LEMMA SeriallyAwaited ==
    ASSUME ~Overlap
    PROVE  Spec => []SerialInv
<1>1. Init => SerialInv
    BY DEF Init, SerialInv, OneCall, Awaited, Idle, Empty
<1>2. IInv /\ SerialInv /\ [Next]_vars => SerialInv'
    <2>1. CASE Next
        BY <2>1, SerialStep
    <2>2. CASE UNCHANGED vars
        BY <2>2 DEF vars, SerialInv, OneCall, Awaited, Live, Snapshot
    <2> QED
        BY <2>1, <2>2
<1> QED
    BY <1>1, <1>2, InductiveInvariant, PTL DEF Spec

(***************************************************************************)
(* For such a client a remember or a merge that returns has left its row   *)
(* live, with its text, indexed under that text (VectorIndex.write and     *)
(* replaceOne).                                                            *)
(***************************************************************************)
THEOREM SuccessIsIndexed ==
    ASSUME ~Overlap
    PROVE  Spec => SuccessMeansIndexed
<1>1. ASSUME IInv, SerialInv, NEW c \in Calls, WriteVector(c) \/ ReplaceVector(c)
      PROVE  /\ rows'[call[c].id] # None /\ rows'[call[c].id].text = call[c].text
             /\ vec'[call[c].id] = call[c].text
    <2>1. rows' = rows /\ call[c].stage \in {"write", "replace"} /\ call[c].id \in Ids
        BY <1>1 DEF WriteVector, ReplaceVector, IInv, ArgumentsOK
    <2>2. Live(call[c].id) /\ rows[call[c].id].text = call[c].text
        BY <1>1, <2>1 DEF SerialInv, Awaited
    <2>3. vec'[call[c].id] = call[c].text
        BY <1>1, <2>1 DEF WriteVector, ReplaceVector, IInv, TypeOK, SerialInv, Awaited
    <2> QED
        BY <2>1, <2>2, <2>3 DEF Live
<1>2. IInv /\ SerialInv /\ [Next]_vars =>
        [\A c \in Calls : WriteVector(c) \/ ReplaceVector(c) =>
           LET i == call[c].id
           IN rows'[i] # None /\ rows'[i].text = call[c].text
                /\ vec'[i] = call[c].text]_vars
    BY <1>1
<1> QED
    BY <1>2, SeriallyAwaited, InductiveInvariant, PTL DEF Spec, SuccessMeansIndexed

(***************************************************************************)
(* For such a client a reindex leaves every row indexed under its text and *)
(* nothing else, whatever was missing or stale before (VectorIndex.reindex).*)
(***************************************************************************)
THEOREM ReindexIsCurrent ==
    ASSUME ~Overlap
    PROVE  Spec => ReindexSyncs
<1>1. SerialInv /\ [Next]_vars => [\A c \in Calls : CommitReindex(c) => vec' = Snapshot]_vars
    BY DEF SerialInv, Awaited, CommitReindex
<1> QED
    BY <1>1, SeriallyAwaited, PTL DEF Spec, ReindexSyncs

=============================================================================
