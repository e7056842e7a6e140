---------------------------- MODULE DocumentsProofs ----------------------------
(***************************************************************************)
(* Proofs about modules Documents, for every number of documents, pieces,  *)
(* scopes and calls, and Chunker, which cuts their texts: for texts of any *)
(* length, any size and any overlap, no text is lost, the chunks fit, and  *)
(* the loop moves on.                                                      *)
(***************************************************************************)
EXTENDS Documents, Chunker, FiniteSetTheorems, SequenceTheorems, TLAPS

USE BoundAssumption, ScopeAssumption, NoneAssumption DEF Docs, Pieces

(***************************************************************************)
(* Ids of pieces are handed out once; the pieces of a document are there   *)
(* all together, and only while the document is.                           *)
(***************************************************************************)
PiecesOK ==
    /\ \A p \in Pieces : p >= nextPiece => doc_of[p] = None /\ p \notin vec
    /\ \A d \in Docs : ~Live(d) => PiecesOf(d) = {}
    /\ \A d \in Docs : docs[d].state # "new" => parts[d] # 0
    /\ \A d \in Docs : PiecesOf(d) # {} => Cardinality(PiecesOf(d)) = parts[d]

(* A set that holds all pieces of a document or none of them. *)
AllOrNone(ps) == \A d \in Docs : PiecesOf(d) \subseteq ps \/ PiecesOf(d) \cap ps = {}

(***************************************************************************)
(* A call works for a document of its own.  What it holds stays all or     *)
(* none of every document, and what was deleted meanwhile is overtaken.    *)
(***************************************************************************)
CallOK(c) ==
    LET d == call[c].doc
        ids == call[c].ids
    IN /\ \A p \in ids : p < nextPiece
       /\ d # None => /\ docs[d].state # "new"
                      /\ \A b \in Calls : b # c => call[b].doc # d
       /\ call[c].stage \in {"idle", "reindex"} => d = None
       /\ call[c].stage = "cut" => d # None /\ PiecesOf(d) = {}
       /\ call[c].stage = "embed" => /\ d # None /\ ids # {}
                                     /\ Live(d) => PiecesOf(d) = ids
       /\ call[c].stage \in {"embed", "reindex"} => AllOrNone(ids) /\ ids \ Kept \subseteq overtaken

CallsOK == \A c \in Calls : CallOK(c)

(* What is not in the index as a whole has a reason not to be. *)
Gaps ==
    \A d \in Docs : Live(d) /\ ~(PiecesOf(d) # {} /\ PiecesOf(d) \subseteq vec) =>
      d \in lapsed \/ \E c \in Calls : call[c].doc = d

IInv == /\ TypeOK /\ PiecesOK /\ AllOrNone(vec) /\ vec \ Kept \subseteq overtaken
        /\ CallsOK /\ Gaps

-----------------------------------------------------------------------------
LEMMA InitIInv == Init => IInv
<1> SUFFICES ASSUME Init PROVE IInv
  OBVIOUS
<1>1. TypeOK
  BY DEF Init, TypeOK, Row, Call, Stages, Idle
<1>2. PiecesOK /\ AllOrNone(vec) /\ vec \ Kept \subseteq overtaken
  BY DEF Init, PiecesOK, AllOrNone, Live, PiecesOf, Kept
<1>3. CallsOK
  BY DEF Init, CallsOK, CallOK, Idle
<1>4. Gaps
  BY DEF Init, Gaps, Live
<1> QED
  BY <1>1, <1>2, <1>3, <1>4 DEF IInv

(* What the types say of the parts of the state. *)
LEMMA Typed ==
    ASSUME TypeOK
    PROVE  /\ nextPiece \in 1..(MaxPiece + 1) /\ nextPiece \in Nat
           /\ \A d \in Docs : /\ docs[d].state \in {"new", "row", "gone"}
                              /\ docs[d].scope \in Scopes \cup {None}
                              /\ parts[d] \in 0..MaxSize
           /\ \A p \in Pieces : doc_of[p] \in Docs \cup {None}
           /\ \A c \in Calls : /\ call[c] \in Call /\ call[c].stage \in Stages
                               /\ call[c].doc \in Docs \cup {None}
                               /\ call[c].ids \subseteq Pieces
           /\ \A d \in Docs : PiecesOf(d) \subseteq Kept
<1>1. nextPiece \in 1..(MaxPiece + 1) /\ nextPiece \in Nat
  BY DEF TypeOK
<1>2. ASSUME NEW d \in Docs
      PROVE  /\ docs[d].state \in {"new", "row", "gone"}
             /\ docs[d].scope \in Scopes \cup {None}
             /\ parts[d] \in 0..MaxSize
  <2>1. docs[d] \in Row /\ parts[d] \in 0..MaxSize
    BY DEF TypeOK
  <2> QED
    BY <2>1 DEF Row
<1>3. \A p \in Pieces : doc_of[p] \in Docs \cup {None}
  BY DEF TypeOK
<1>4. ASSUME NEW c \in Calls
      PROVE  /\ call[c] \in Call /\ call[c].stage \in Stages
             /\ call[c].doc \in Docs \cup {None} /\ call[c].ids \subseteq Pieces
  <2>1. call[c] \in Call
    BY DEF TypeOK
  <2> QED
    BY <2>1 DEF Call
<1>5. \A d \in Docs : PiecesOf(d) \subseteq Kept
  BY DEF PiecesOf, Kept
<1> QED
  BY <1>1, <1>2, <1>3, <1>4, <1>5

LEMMA VecOld == ASSUME IInv PROVE \A p \in vec : p < nextPiece
<1>1. vec \subseteq Pieces /\ nextPiece \in Nat
  BY Typed DEF IInv, TypeOK
<1> QED
  BY <1>1 DEF IInv, PiecesOK

(* A call that begins to reindex, and the record of an idle one. *)
Reindexing(ids) == [Idle EXCEPT !.stage = "reindex", !.ids = ids]

LEMMA CallRecords ==
    /\ Idle \in Call /\ Idle.stage = "idle" /\ Idle.doc = None /\ Idle.ids = {}
    /\ \A ids \in SUBSET Pieces :
         /\ Reindexing(ids) \in Call /\ Reindexing(ids).stage = "reindex"
         /\ Reindexing(ids).doc = None /\ Reindexing(ids).ids = ids
BY DEF Idle, Call, Stages, Reindexing

(***************************************************************************)
(* A step that leaves documents and pieces alone and lets calls return or  *)
(* begin to reindex.                                                       *)
(***************************************************************************)
LEMMA IndexStep ==
    ASSUME IInv, TypeOK', UNCHANGED <<doc_of, nextPiece, parts, overtaken>>,
           \A d \in Docs : docs'[d].state = docs[d].state,
           \A c \in Calls : call'[c] \in {call[c], Idle, Reindexing(Kept)},
           \A p \in vec' : p < nextPiece, AllOrNone(vec)', vec' \ Kept \subseteq overtaken,
           Gaps'
    PROVE  IInv'
<1>1. Kept' = Kept /\ \A d \in Docs : PiecesOf(d)' = PiecesOf(d) /\ Live(d)' = Live(d)
  BY DEF Kept, PiecesOf, Live
<1>2. PiecesOK'
  <2>1. \A p \in Pieces : p >= nextPiece => p \notin vec'
    BY Typed DEF IInv
  <2> QED
    BY <1>1, <2>1 DEF IInv, PiecesOK
<1>3. ASSUME NEW c \in Calls PROVE CallOK(c)'
  <2>1. Kept \subseteq Pieces
    BY DEF Kept
  <2>2. CASE call'[c] = call[c]
    <3>1. \A b \in Calls : call'[b].doc \in {call[b].doc, None}
      BY <2>1, CallRecords
    <3>2. AllOrNone(call[c].ids)' <=> AllOrNone(call[c].ids)
      BY <1>1, <2>2 DEF AllOrNone
    <3>3. CallOK(c)
      BY DEF IInv, CallsOK
    <3> QED
      BY <1>1, <2>2, <3>1, <3>2, <3>3, Typed DEF CallOK, IInv
  <2>3. CASE call'[c] = Idle
    BY <2>3, CallRecords DEF CallOK
  <2>4. CASE call'[c] = Reindexing(Kept)
    <3>1. /\ call'[c].stage = "reindex" /\ call'[c].doc = None /\ call'[c].ids = Kept
      BY <2>1, <2>4, CallRecords
    <3>2. \A p \in Kept : p < nextPiece
      BY Typed DEF IInv, PiecesOK, Kept
    <3>3. \A d \in Docs : PiecesOf(d) \subseteq Kept
      BY Typed DEF IInv
    <3>4. AllOrNone(call[c].ids)'
      BY <1>1, <3>1, <3>3 DEF AllOrNone
    <3> QED
      BY <1>1, <3>1, <3>2, <3>4 DEF CallOK
  <2> QED
    BY <2>2, <2>3, <2>4
<1> QED
  BY <1>1, <1>2, <1>3 DEF IInv, CallsOK

LEMMA ReturnTyped ==
    ASSUME TypeOK, NEW c \in Calls, Return(c)
    PROVE  /\ call' \in [Calls -> Call] /\ call'[c] = Idle
           /\ \A b \in Calls : b # c => call'[b] = call[b]
BY CallRecords DEF TypeOK, Return

LEMMA WriteVectorsStep ==
    ASSUME IInv, NEW c \in Calls, WriteVectors(c)
    PROVE  IInv'
<1> DEFINE ids == call[c].ids
           d == call[c].doc
<1>1. /\ call[c].stage = "embed" /\ Return(c)
      /\ vec' = IF ids \cap vec = {} THEN vec \cup ids ELSE vec
      /\ UNCHANGED <<scopes, docs, doc_of, nextPiece, parts, overtaken, lapsed>>
  BY DEF WriteVectors
<1>2. /\ d \in Docs /\ ids # {} /\ ids \subseteq Pieces /\ AllOrNone(ids)
      /\ Live(d) => PiecesOf(d) = ids
      /\ ids \ Kept \subseteq overtaken /\ \A p \in ids : p < nextPiece
  BY <1>1, Typed DEF IInv, CallsOK, CallOK
<1>3. /\ call' \in [Calls -> Call] /\ call'[c] = Idle
      /\ \A b \in Calls : b # c => call'[b] = call[b]
  BY <1>1, ReturnTyped DEF IInv
<1>4. TypeOK'
  BY <1>1, <1>2, <1>3 DEF IInv, TypeOK
<1>5. vec \subseteq vec' /\ vec' \subseteq vec \cup ids
  BY <1>1
<1>6. \A p \in vec' : p < nextPiece
  BY <1>2, <1>5, VecOld
<1>7. AllOrNone(vec)'
  BY <1>1, <1>2 DEF IInv, AllOrNone, PiecesOf
<1>8. vec' \ Kept \subseteq overtaken
  BY <1>2, <1>5 DEF IInv
<1>9. Gaps'
  <2>1. Live(d) => ids \subseteq vec'
    BY <1>1, <1>2 DEF IInv, AllOrNone
  <2> SUFFICES ASSUME NEW e \in Docs, Live(e), ~(PiecesOf(e) # {} /\ PiecesOf(e) \subseteq vec'),
                      e \notin lapsed
               PROVE  \E b \in Calls : call'[b].doc = e
    BY <1>1 DEF Gaps, Live, PiecesOf
  <2>2. e # d
    BY <1>2, <2>1
  <2>3. PICK b \in Calls : call[b].doc = e
    BY <1>5 DEF IInv, Gaps
  <2> QED
    BY <1>3, <2>2, <2>3
<1> QED
  BY <1>1, <1>3, <1>4, <1>6, <1>7, <1>8, <1>9, IndexStep

LEMMA FailStep ==
    ASSUME IInv, NEW c \in Calls, EmbedFails(c) \/ Killed(c)
    PROVE  IInv'
<1>1. /\ lapsed' = lapsed \cup ({call[c].doc} \ {None}) /\ Return(c)
      /\ UNCHANGED <<scopes, docs, doc_of, nextPiece, vec, parts, overtaken>>
  BY DEF EmbedFails, Killed
<1>2. /\ call' \in [Calls -> Call] /\ call'[c] = Idle
      /\ \A b \in Calls : b # c => call'[b] = call[b]
  BY <1>1, ReturnTyped DEF IInv
<1>3. TypeOK'
  BY <1>1, <1>2, Typed DEF IInv, TypeOK
<1>4. \A p \in vec' : p < nextPiece
  BY <1>1, VecOld
<1>5. Gaps'
  <2> SUFFICES ASSUME NEW e \in Docs, Live(e), ~(PiecesOf(e) # {} /\ PiecesOf(e) \subseteq vec),
                      e \notin lapsed'
               PROVE  \E b \in Calls : call'[b].doc = e
    BY <1>1 DEF Gaps, Live, PiecesOf
  <2>1. PICK b \in Calls : call[b].doc = e
    BY <1>1 DEF IInv, Gaps
  <2> QED
    BY <1>1, <1>2, <2>1
<1>6. AllOrNone(vec)' /\ vec' \ Kept \subseteq overtaken
  BY <1>1 DEF IInv, AllOrNone, PiecesOf
<1> QED
  BY <1>1, <1>2, <1>3, <1>4, <1>5, <1>6, IndexStep

LEMMA VacuumStep ==
    ASSUME IInv, Vacuum
    PROVE  IInv'
<1>1. vec' = vec \cap Kept
      /\ UNCHANGED <<scopes, docs, doc_of, nextPiece, call, parts, overtaken, lapsed>>
  BY DEF Vacuum
<1>2. TypeOK'
  BY <1>1 DEF IInv, TypeOK
<1>3. \A p \in vec' : p < nextPiece
  BY <1>1, VecOld
<1>4. \A d \in Docs : PiecesOf(d) \cap vec' = PiecesOf(d) \cap vec
  BY <1>1, Typed DEF IInv
<1>5. AllOrNone(vec)' /\ Gaps'
  BY <1>1, <1>4 DEF IInv, AllOrNone, Gaps, Live, PiecesOf
<1>6. vec' \ Kept \subseteq overtaken
  BY <1>1
<1> QED
  BY <1>1, <1>2, <1>3, <1>5, <1>6, IndexStep

LEMMA RemoveScopeStep ==
    ASSUME IInv, NEW s \in Scopes, RemoveScope(s)
    PROVE  IInv'
<1>1. /\ scopes' = scopes \ {s}
      /\ docs' = [d \in Docs |-> IF docs[d].scope = s
                                 THEN [docs[d] EXCEPT !.scope = None] ELSE docs[d]]
      /\ UNCHANGED <<doc_of, nextPiece, vec, call, parts, overtaken, lapsed>>
  BY DEF RemoveScope
<1>2. ASSUME NEW d \in Docs
      PROVE  /\ docs'[d] \in Row /\ docs'[d].state = docs[d].state
             /\ docs'[d].scope = IF docs[d].scope = s THEN None ELSE docs[d].scope
  <2>1. docs[d] \in Row
    BY DEF IInv, TypeOK
  <2> QED
    BY <1>1, <2>1 DEF Row
<1>3. TypeOK'
  BY <1>1, <1>2 DEF IInv, TypeOK
<1>4. \A p \in vec' : p < nextPiece
  BY <1>1, VecOld
<1>5. AllOrNone(vec)' /\ Gaps' /\ vec' \ Kept \subseteq overtaken
  BY <1>1, <1>2 DEF IInv, AllOrNone, Gaps, Live, PiecesOf
<1> QED
  BY <1>1, <1>2, <1>3, <1>4, <1>5, IndexStep

LEMMA StartReindexStep ==
    ASSUME IInv, NEW c \in Calls, StartReindex(c)
    PROVE  IInv'
<1>1. /\ call[c].stage = "idle"
      /\ UNCHANGED <<scopes, docs, doc_of, nextPiece, parts, overtaken, lapsed>>
      /\ \/ Kept = {} /\ vec' = {} /\ call' = call
         \/ vec' = vec /\ call' = [call EXCEPT ![c] = Reindexing(Kept)]
  BY DEF StartReindex, Reindexing
<1>2. Kept \subseteq Pieces
  BY DEF Kept
<1>3. /\ call' \in [Calls -> Call]
      /\ \A b \in Calls : call'[b] = call[b] \/ call'[b] = Reindexing(Kept)
      /\ \A b \in Calls : b # c => call'[b] = call[b]
  <2>1. call \in [Calls -> Call] /\ Reindexing(Kept) \in Call
    BY <1>2, CallRecords DEF IInv, TypeOK
  <2> QED
    BY <1>1, <2>1
<1>4. TypeOK'
  BY <1>1, <1>3 DEF IInv, TypeOK
<1>5. \A p \in vec' : p < nextPiece
  BY <1>1, VecOld
<1>6. \A d \in Docs : PiecesOf(d) \cap vec' = PiecesOf(d) \cap vec
  BY <1>1, Typed DEF IInv
<1>7. AllOrNone(vec)' /\ vec' \ Kept \subseteq overtaken
  BY <1>1, <1>6 DEF IInv, AllOrNone, PiecesOf
<1>8. Gaps'
  <2> SUFFICES ASSUME NEW e \in Docs, Live(e), ~(PiecesOf(e) # {} /\ PiecesOf(e) \subseteq vec'),
                      e \notin lapsed
               PROVE  \E b \in Calls : call'[b].doc = e
    BY <1>1 DEF Gaps, Live, PiecesOf
  <2>1. PICK b \in Calls : call[b].doc = e
    BY <1>6 DEF IInv, Gaps
  <2>2. b # c
    BY <1>1, <2>1 DEF IInv, CallsOK, CallOK
  <2> QED
    BY <1>3, <2>1, <2>2
<1> QED
  BY <1>1, <1>3, <1>4, <1>5, <1>7, <1>8, IndexStep

LEMMA CommitReindexStep ==
    ASSUME IInv, NEW c \in Calls, CommitReindex(c)
    PROVE  IInv'
<1> DEFINE ids == call[c].ids
<1>1. /\ call[c].stage = "reindex" /\ vec' = ids /\ Return(c)
      /\ lapsed' = lapsed \cup {d \in Docs : /\ PiecesOf(d) \cap vec # {}
                                             /\ PiecesOf(d) \cap ids = {}}
      /\ UNCHANGED <<scopes, docs, doc_of, nextPiece, parts, overtaken>>
  BY DEF CommitReindex
<1>2. /\ ids \subseteq Pieces /\ AllOrNone(ids) /\ ids \ Kept \subseteq overtaken
      /\ \A p \in ids : p < nextPiece
      /\ call[c].doc = None
  BY <1>1, Typed DEF IInv, CallsOK, CallOK
<1>3. /\ call' \in [Calls -> Call] /\ call'[c] = Idle
      /\ \A b \in Calls : b # c => call'[b] = call[b]
  BY <1>1, ReturnTyped DEF IInv
<1>4. TypeOK'
  BY <1>1, <1>2, <1>3 DEF IInv, TypeOK
<1>5. AllOrNone(vec)'
  BY <1>1, <1>2 DEF AllOrNone, PiecesOf
<1>6. Gaps'
  <2> SUFFICES ASSUME NEW e \in Docs, Live(e), ~(PiecesOf(e) # {} /\ PiecesOf(e) \subseteq ids),
                      e \notin lapsed'
               PROVE  \E b \in Calls : call'[b].doc = e
    BY <1>1 DEF Gaps, Live, PiecesOf
  <2>1. ~(PiecesOf(e) # {} /\ PiecesOf(e) \subseteq vec)
    BY <1>1, <1>2 DEF AllOrNone
  <2>2. PICK b \in Calls : call[b].doc = e
    BY <1>1, <2>1 DEF IInv, Gaps
  <2> QED
    BY <1>2, <1>3, <2>2
<1> QED
  BY <1>1, <1>2, <1>3, <1>4, <1>5, <1>6, IndexStep

-----------------------------------------------------------------------------
LEMMA InsertDocStep ==
    ASSUME IInv, NEW c \in Calls, NEW n \in 1..MaxSize, NEW s \in Scopes, InsertDoc(c, n, s)
    PROVE  IInv'
<1>1. PICK d \in Docs :
        /\ docs[d].state = "new"
        /\ docs' = [docs EXCEPT ![d] = [state |-> "row", scope |-> s]]
        /\ parts' = [parts EXCEPT ![d] = n]
        /\ call' = [call EXCEPT ![c] = [Idle EXCEPT !.stage = "cut", !.doc = d]]
  BY DEF InsertDoc
<1> DEFINE row == [state |-> "row", scope |-> s]
           y == [Idle EXCEPT !.stage = "cut", !.doc = d]
<1>2. /\ call[c].stage = "idle" /\ s \in scopes
      /\ UNCHANGED <<scopes, doc_of, nextPiece, vec, overtaken, lapsed>>
  BY DEF InsertDoc
<1>3. row \in Row /\ y \in Call /\ y.stage = "cut" /\ y.doc = d /\ y.ids = {}
  BY DEF Row, Idle, Call, Stages
<1> HIDE DEF y
<1>4. /\ call' \in [Calls -> Call] /\ call'[c] = y
      /\ \A b \in Calls : b # c => call'[b] = call[b]
      /\ docs' \in [Docs -> Row] /\ docs'[d] = row
      /\ \A e \in Docs : e # d => docs'[e] = docs[e]
      /\ parts' \in [Docs -> 0..MaxSize] /\ parts'[d] = n
      /\ \A e \in Docs : e # d => parts'[e] = parts[e]
  BY <1>1, <1>3 DEF IInv, TypeOK, y
<1>5. TypeOK'
  BY <1>2, <1>4 DEF IInv, TypeOK
<1>6. /\ Kept' = Kept /\ \A e \in Docs : PiecesOf(e)' = PiecesOf(e)
      /\ \A e \in Docs : e # d => Live(e)' = Live(e)
      /\ PiecesOf(d) = {}
  BY <1>1, <1>2, <1>4 DEF Kept, PiecesOf, Live, IInv, PiecesOK
<1>7. PiecesOK'
  <2>1. \A p \in Pieces : p >= nextPiece' => doc_of'[p] = None /\ p \notin vec'
    BY <1>2 DEF IInv, PiecesOK
  <2>2. \A e \in Docs : ~Live(e)' => PiecesOf(e)' = {}
    BY <1>6 DEF IInv, PiecesOK
  <2>3. \A e \in Docs : docs'[e].state # "new" => parts'[e] # 0
    BY <1>4 DEF IInv, PiecesOK
  <2>4. \A e \in Docs : PiecesOf(e)' # {} => Cardinality(PiecesOf(e)') = parts'[e]
    <3> SUFFICES ASSUME NEW e \in Docs, PiecesOf(e) # {}
                 PROVE  Cardinality(PiecesOf(e)) = parts'[e]
      BY <1>6
    <3>1. e # d /\ parts'[e] = parts[e]
      BY <1>4, <1>6
    <3> QED
      BY <3>1 DEF IInv, PiecesOK
  <2> QED
    BY <2>1, <2>2, <2>3, <2>4 DEF PiecesOK
<1>8. AllOrNone(vec)' /\ vec' \ Kept' \subseteq overtaken'
  BY <1>2, <1>6 DEF IInv, AllOrNone
<1>9. \A b \in Calls : call[b].doc # d /\ CallOK(b)
  BY <1>1 DEF IInv, CallsOK, CallOK
<1>10. call[c].doc = None
  BY <1>2, <1>9 DEF CallOK
<1>11. ASSUME NEW b \in Calls PROVE CallOK(b)'
  <2>1. CASE b = c
    <3>1. call'[b].stage = "cut" /\ call'[b].doc = d /\ call'[b].ids = {}
      BY <1>3, <1>4, <2>1
    <3>2. docs'[d].state # "new" /\ PiecesOf(d)' = {} /\ d # None
      BY <1>4, <1>6
    <3>3. \A a \in Calls : a # b => call'[a].doc # d
      BY <1>4, <1>9, <2>1
    <3> QED
      BY <3>1, <3>2, <3>3 DEF CallOK
  <2>2. CASE b # c
    <3>1. call'[b] = call[b] /\ (AllOrNone(call[b].ids)' <=> AllOrNone(call[b].ids))
      BY <1>4, <1>6, <2>2 DEF AllOrNone
    <3>2. \A a \in Calls : call'[a].doc \in {call[a].doc, d}
      BY <1>3, <1>4
    <3>3. CallOK(b) /\ call[b].doc # d /\ call[b].doc \in Docs \cup {None}
      BY <1>9, Typed DEF IInv
    <3>4. call[b].doc # None => /\ docs'[call[b].doc] = docs[call[b].doc]
                                /\ Live(call[b].doc)' = Live(call[b].doc)
                                /\ PiecesOf(call[b].doc)' = PiecesOf(call[b].doc)
      BY <1>4, <1>6, <3>1, <3>3 DEF Live, PiecesOf
    <3> QED
      BY <1>2, <1>6, <3>1, <3>2, <3>3, <3>4 DEF CallOK
  <2> QED
    BY <2>1, <2>2
<1>12. Gaps'
  <2> SUFFICES ASSUME NEW e \in Docs, Live(e)', ~(PiecesOf(e) # {} /\ PiecesOf(e) \subseteq vec),
                      e \notin lapsed, e # d
               PROVE  \E b \in Calls : call'[b].doc = e
    BY <1>2, <1>3, <1>4, <1>6 DEF Gaps
  <2>1. PICK b \in Calls : call[b].doc = e
    BY <1>6 DEF IInv, Gaps
  <2> QED
    BY <1>4, <1>10, <2>1
<1> QED
  BY <1>5, <1>7, <1>8, <1>11, <1>12 DEF IInv, CallsOK

LEMMA InsertPiecesStep ==
    ASSUME IInv, NEW c \in Calls, InsertPieces(c)
    PROVE  IInv'
<1>0. PICK d \in Docs : call[c].doc = d
  BY Typed DEF InsertPieces, IInv, CallsOK, CallOK
<1> DEFINE new == nextPiece..(nextPiece + parts[d] - 1)
           y == [Idle EXCEPT !.stage = "embed", !.doc = d, !.ids = new]
<1>1. /\ call[c].stage = "cut" /\ call[c].doc = d /\ docs[d].state # "new" /\ PiecesOf(d) = {}
      /\ \A b \in Calls : b # c => call[b].doc # d
      /\ UNCHANGED <<scopes, docs, vec, parts, overtaken, lapsed>>
  BY <1>0 DEF InsertPieces, IInv, CallsOK, CallOK
<1>2. ASSUME ~Live(d), Return(c), UNCHANGED <<doc_of, nextPiece>>
      PROVE  IInv'
  <2>1. /\ call' \in [Calls -> Call] /\ call'[c] = Idle
        /\ \A b \in Calls : b # c => call'[b] = call[b]
    BY <1>2, ReturnTyped DEF IInv
  <2>2. TypeOK'
    BY <1>1, <1>2, <2>1 DEF IInv, TypeOK
  <2>3. \A p \in vec' : p < nextPiece
    BY <1>1, VecOld
  <2>4. Gaps'
    <3> SUFFICES ASSUME NEW e \in Docs, Live(e), ~(PiecesOf(e) # {} /\ PiecesOf(e) \subseteq vec),
                        e \notin lapsed
                 PROVE  \E b \in Calls : call'[b].doc = e
      BY <1>1, <1>2 DEF Gaps, Live, PiecesOf
    <3>1. PICK b \in Calls : call[b].doc = e
      BY DEF IInv, Gaps
    <3> QED
      BY <1>1, <1>2, <2>1, <3>1
  <2>5. AllOrNone(vec)' /\ vec' \ Kept \subseteq overtaken
    BY <1>1, <1>2 DEF IInv, AllOrNone, PiecesOf
  <2> QED
    BY <1>1, <1>2, <2>1, <2>2, <2>3, <2>4, <2>5, IndexStep
<1>3. ASSUME Live(d), new \subseteq Pieces,
             doc_of' = [p \in Pieces |-> IF p \in new THEN d ELSE doc_of[p]],
             nextPiece' = nextPiece + parts[d], call' = [call EXCEPT ![c] = y]
      PROVE  IInv'
  <2>1. nextPiece \in 1..(MaxPiece + 1) /\ parts[d] \in 1..MaxSize
    BY <1>1, Typed DEF IInv, PiecesOK
  <2>2. /\ new # {} /\ Cardinality(new) = parts[d] /\ nextPiece' \in 1..(MaxPiece + 1)
        /\ \A p \in new : p >= nextPiece /\ p < nextPiece'
        /\ nextPiece \in Nat /\ nextPiece' \in Nat /\ nextPiece' >= nextPiece
    <3>1. nextPiece \in new /\ nextPiece + parts[d] - 1 \in new
      BY <2>1
    <3>2. Cardinality(new) = parts[d]
      BY <2>1, FS_Interval
    <3>3. nextPiece + parts[d] - 1 \in 1..MaxPiece
      BY <1>3, <3>1
    <3> QED
      BY <1>3, <2>1, <3>1, <3>2, <3>3
  <2> HIDE DEF new
  <2>3. y \in Call /\ y.stage = "embed" /\ y.doc = d /\ y.ids = new
    BY <1>1, <1>3 DEF Idle, Call, Stages
  <2> HIDE DEF y
  <2>4. /\ call' \in [Calls -> Call] /\ call'[c] = y
        /\ \A b \in Calls : b # c => call'[b] = call[b]
    BY <1>3, <2>3 DEF IInv, TypeOK
  <2>5. doc_of' \in [Pieces -> Docs \cup {None}]
    BY <1>1, <1>3 DEF IInv, TypeOK
  <2>6. TypeOK'
    BY <1>1, <2>2, <2>4, <2>5 DEF IInv, TypeOK
  <2>7. \A p \in new : doc_of[p] = None /\ p \notin vec /\ p \in Pieces
    BY <1>3, <2>2 DEF IInv, PiecesOK
  <2>8. /\ PiecesOf(d)' = new /\ Kept' = Kept \cup new
        /\ \A e \in Docs : e # d => PiecesOf(e)' = PiecesOf(e) /\ PiecesOf(e) \cap new = {}
        /\ \A e \in Docs : Live(e)' = Live(e)
    <3>1. \A p \in Pieces : doc_of'[p] = IF p \in new THEN d ELSE doc_of[p]
      BY <1>3
    <3>2. \A e \in Docs : \A p \in PiecesOf(e) : p \notin new
      BY <2>7 DEF PiecesOf
    <3>3. PiecesOf(d)' = new
      BY <1>1, <2>7, <3>1 DEF PiecesOf
    <3>4. Kept' = Kept \cup new
      BY <1>1, <2>7, <3>1 DEF Kept
    <3>5. \A e \in Docs : e # d => PiecesOf(e)' = PiecesOf(e)
      BY <1>1, <2>7, <3>1 DEF PiecesOf
    <3>6. \A e \in Docs : Live(e)' = Live(e)
      BY <1>1 DEF Live
    <3> QED
      BY <3>2, <3>3, <3>4, <3>5, <3>6
  <2>9. PiecesOK'
    <3>1. \A p \in Pieces : p >= nextPiece' => doc_of'[p] = None /\ p \notin vec
      <4> SUFFICES ASSUME NEW p \in Pieces, p >= nextPiece'
                   PROVE  doc_of'[p] = None /\ p \notin vec
        OBVIOUS
      <4>1. p >= nextPiece /\ p \notin new
        BY <2>2
      <4> QED
        BY <1>3, <4>1 DEF IInv, PiecesOK
    <3>2. \A e \in Docs : ~Live(e)' => PiecesOf(e)' = {}
      BY <1>3, <2>8 DEF IInv, PiecesOK
    <3>3. \A e \in Docs : PiecesOf(e)' # {} => Cardinality(PiecesOf(e))' = parts[e]
      BY <2>2, <2>8 DEF IInv, PiecesOK
    <3>4. \A e \in Docs : docs[e].state # "new" => parts[e] # 0
      BY DEF IInv, PiecesOK
    <3> QED
      BY <1>1, <3>1, <3>2, <3>3, <3>4 DEF PiecesOK
  <2>10. AllOrNone(vec)' /\ vec' \ Kept' \subseteq overtaken'
    BY <1>1, <2>7, <2>8 DEF IInv, AllOrNone
  <2>11. ASSUME NEW b \in Calls PROVE CallOK(b)'
    <3>1. CASE b = c
      <4>1. AllOrNone(call[b].ids)'
        BY <2>3, <2>4, <2>8, <3>1 DEF AllOrNone
      <4> QED
        BY <1>1, <2>2, <2>3, <2>4, <2>8, <3>1, <4>1 DEF CallOK
    <3>2. CASE b # c
      <4>1. CallOK(b) /\ call'[b] = call[b] /\ call[b].ids \subseteq Pieces
            /\ call[b].doc \in Docs \cup {None}
        BY <2>4, <3>2, Typed DEF IInv, CallsOK
      <4>2. \A p \in call[b].ids : p < nextPiece' /\ p \notin new
        <5>1. \A p \in call[b].ids : p \in Nat /\ p < nextPiece
          BY <4>1 DEF CallOK
        <5> QED
          BY <2>2, <5>1
      <4>3. AllOrNone(call[b].ids) => AllOrNone(call[b].ids)'
        <5>1. new \cap call[b].ids = {}
          BY <4>2
        <5> QED
          BY <2>8, <4>1, <5>1 DEF AllOrNone
      <4>4. \A a \in Calls : call'[a].doc = call[a].doc
        BY <1>1, <2>3, <2>4
      <4> QED
        BY <1>1, <2>8, <3>2, <4>1, <4>2, <4>3, <4>4 DEF CallOK
    <3> QED
      BY <3>1, <3>2
  <2>12. Gaps'
    <3> SUFFICES ASSUME NEW e \in Docs, Live(e), ~(PiecesOf(e)' # {} /\ PiecesOf(e)' \subseteq vec),
                        e \notin lapsed
                 PROVE  \E b \in Calls : call'[b].doc = e
      BY <1>1, <2>8 DEF Gaps
    <3>1. e # d => \E b \in Calls : call[b].doc = e
      BY <2>8 DEF IInv, Gaps
    <3> QED
      BY <1>1, <2>3, <2>4, <3>1
  <2> QED
    BY <2>6, <2>9, <2>10, <2>11, <2>12 DEF IInv, CallsOK
<1> QED
  BY <1>0, <1>2, <1>3 DEF InsertPieces

LEMMA DeleteStep ==
    ASSUME IInv, NEW d \in Docs, Delete(d)
    PROVE  IInv'
<1> DEFINE gone == [state |-> "gone", scope |-> None]
<1>1. /\ Live(d) /\ docs' = [docs EXCEPT ![d] = gone]
      /\ doc_of' = [p \in Pieces |-> IF doc_of[p] = d THEN None ELSE doc_of[p]]
      /\ vec' = vec \ PiecesOf(d) /\ overtaken' = overtaken \cup HeldIn(PiecesOf(d))
      /\ UNCHANGED <<scopes, nextPiece, call, parts, lapsed>>
  BY DEF Delete, Unindex
<1>2. /\ docs' \in [Docs -> Row] /\ docs'[d] = gone
      /\ \A e \in Docs : e # d => docs'[e] = docs[e]
  BY <1>1 DEF IInv, TypeOK, Row
<1>3. TypeOK'
  <2>1. HeldIn(PiecesOf(d)) \subseteq Pieces
    BY DEF HeldIn, PiecesOf
  <2> QED
    BY <1>1, <1>2, <2>1 DEF IInv, TypeOK
<1>4. /\ PiecesOf(d)' = {} /\ Kept' = Kept \ PiecesOf(d) /\ ~Live(d)'
      /\ \A e \in Docs : e # d => /\ PiecesOf(e)' = PiecesOf(e) /\ Live(e)' = Live(e)
                                  /\ PiecesOf(e) \cap PiecesOf(d) = {}
  BY <1>1, <1>2 DEF PiecesOf, Kept, Live
<1>5. PiecesOK'
  <2>1. \A p \in Pieces : p >= nextPiece' => doc_of'[p] = None /\ p \notin vec'
    BY <1>1 DEF IInv, PiecesOK
  <2>2. \A e \in Docs : ~Live(e)' => PiecesOf(e)' = {}
    BY <1>4 DEF IInv, PiecesOK
  <2>3. \A e \in Docs : docs'[e].state # "new" => parts[e] # 0
    BY <1>1, <1>2 DEF IInv, PiecesOK, Live
  <2>4. \A e \in Docs : PiecesOf(e)' # {} => Cardinality(PiecesOf(e))' = parts[e]
    BY <1>4 DEF IInv, PiecesOK
  <2> QED
    BY <1>1, <2>1, <2>2, <2>3, <2>4 DEF PiecesOK
<1>6. AllOrNone(vec)' /\ vec' \ Kept' \subseteq overtaken'
  BY <1>1, <1>4 DEF IInv, AllOrNone
<1>7. ASSUME NEW b \in Calls PROVE CallOK(b)'
  <2>1. CallOK(b) /\ call[b].ids \subseteq Pieces /\ call[b].doc \in Docs \cup {None}
    BY Typed DEF IInv, CallsOK
  <2>2. AllOrNone(call[b].ids) => AllOrNone(call[b].ids)'
    BY <1>1, <1>4 DEF AllOrNone
  <2>3. call[b].stage \in {"embed", "reindex"} => call[b].ids \ Kept' \subseteq overtaken'
    BY <1>1, <1>4, <2>1 DEF HeldIn, CallOK
  <2>4. \A e \in Docs : docs[e].state # "new" => docs'[e].state # "new"
    BY <1>2
  <2> QED
    BY <1>1, <1>4, <2>1, <2>2, <2>3, <2>4 DEF CallOK
<1>8. Gaps'
  BY <1>1, <1>4 DEF IInv, Gaps
<1> QED
  BY <1>3, <1>5, <1>6, <1>7, <1>8 DEF IInv, CallsOK

LEMMA StutterStep == ASSUME IInv, UNCHANGED vars PROVE IInv'
<1> USE DEF vars
<1>1. TypeOK'
  BY DEF IInv, TypeOK
<1>2. PiecesOK'
  BY DEF IInv, PiecesOK, Live, PiecesOf
<1>3. AllOrNone(vec)' /\ vec' \ Kept' \subseteq overtaken'
  BY DEF IInv, AllOrNone, PiecesOf, Kept
<1>4. Gaps'
  BY DEF IInv, Gaps, Live, PiecesOf
<1>5. CallsOK'
  BY DEF IInv, CallsOK, CallOK, AllOrNone, Live, PiecesOf, Kept
<1> QED
  BY <1>1, <1>2, <1>3, <1>4, <1>5 DEF IInv

(***************************************************************************)
(* The inductive invariant holds in every reachable state.                 *)
(***************************************************************************)
THEOREM Invariance == Spec => []IInv
<1>1. ASSUME IInv, [Next]_vars PROVE IInv'
  BY <1>1, InsertDocStep, InsertPiecesStep, WriteVectorsStep, FailStep, StartReindexStep,
     CommitReindexStep, DeleteStep, RemoveScopeStep, VacuumStep, StutterStep
     DEF Next
<1> QED
  BY InitIInv, <1>1, PTL DEF Spec

(* What is stored is of the shape that the tables have. *)
THEOREM TypeCorrect == Spec => []TypeOK
<1>1. IInv => TypeOK
  BY DEF IInv
<1> QED
  BY <1>1, Invariance, PTL

(***************************************************************************)
(* A deleted document leaves no piece behind, and a vector only when a     *)
(* call held its piece at the moment of the deletion.                      *)
(***************************************************************************)
THEOREM DeletionsLeaveNothing == Spec => []NoLeftovers
<1>1. IInv => NoLeftovers
  <2> SUFFICES ASSUME IInv, NEW p \in Kept PROVE Live(doc_of[p])
    BY DEF IInv, NoLeftovers
  <2>1. p \in Pieces /\ doc_of[p] \in Docs /\ p \in PiecesOf(doc_of[p])
    BY Typed DEF IInv, Kept, PiecesOf
  <2> QED
    BY <2>1 DEF IInv, PiecesOK
<1> QED
  BY <1>1, Invariance, PTL

-----------------------------------------------------------------------------
(* How much of a document is there, and where, told by its tables alone.   *)
PhaseIn(d) ==
    IF ~Live(d) THEN docs[d].state
    ELSE IF PiecesOf(d) = {} THEN "listed"
    ELSE IF PiecesOf(d) \subseteq vec THEN "searchable" ELSE "readable"

PlaceIn(d) == IF Live(d) THEN docs[d].scope ELSE None

Shows == \A d \in Docs : Phase(d) = PhaseIn(d) /\ Place(d) = PlaceIn(d)

(* A reader finds just this: nothing is torn. *)
LEMMA Readings == IInv => Shows
<1> SUFFICES ASSUME IInv, NEW d \in Docs
             PROVE  Phase(d) = PhaseIn(d) /\ Place(d) = PlaceIn(d)
  BY DEF Shows
<1>1. CASE ~Live(d)
  <2>1. Phase(d) = PhaseIn(d)
    BY <1>1 DEF Phase, PhaseIn, Live
  <2>2. \A s \in Scopes : d \notin Listed({s})
    BY <1>1 DEF Listed, In
  <2> QED
    BY <1>1, <2>1, <2>2 DEF Place, PlaceIn
<1>2. CASE Live(d)
  <2>1. docs[d].scope \in Scopes \cup {None} /\ Anywhere # {}
    BY Typed DEF IInv, Anywhere
  <2>2. Found(d, FALSE) = PiecesOf(d)
    BY <1>2, <2>1 DEF Found, Hits, KeywordHits, In, Kept, PiecesOf, Anywhere
  <2>3. Found(d, TRUE) = vec \cap PiecesOf(d)
    BY <1>2, <2>1 DEF Found, Hits, VectorHits, In, Kept, PiecesOf, Anywhere
  <2>4. PiecesOf(d) # {} => Cardinality(PiecesOf(d)) = parts[d]
    BY DEF IInv, PiecesOK
  <2>5. PiecesOf(d) \subseteq vec \/ PiecesOf(d) \cap vec = {}
    BY DEF IInv, AllOrNone
  <2>6. PiecesOf(d) \subseteq vec => Found(d, TRUE) = PiecesOf(d)
    BY <2>3
  <2>7. PiecesOf(d) \cap vec = {} => Found(d, TRUE) = {}
    BY <2>3
  <2>8. Phase(d) = PhaseIn(d)
    BY <1>2, <2>2, <2>4, <2>5, <2>6, <2>7 DEF Phase, PhaseIn, Whole, Live
  <2>9. \A s \in Scopes : d \in Listed({s}) <=> docs[d].scope = s
    BY <1>2 DEF Listed, In
  <2>10. Place(d) = PlaceIn(d)
    <3>1. CASE docs[d].scope = None
      BY <1>2, <2>9, <3>1 DEF Place, PlaceIn
    <3>2. CASE docs[d].scope \in Scopes
      BY <1>2, <2>9, <3>2 DEF Place, PlaceIn
    <3> QED
      BY <2>1, <3>1, <3>2
  <2> QED
    BY <2>8, <2>10
<1> QED
  BY <1>1, <1>2

(***************************************************************************)
(* A live document that cannot be found by its meaning is being written,   *)
(* or some step was lost on the way.                                       *)
(***************************************************************************)
THEOREM GapsHaveReasons == Spec => []GapsExplained
<1>1. IInv => GapsExplained
  <2> SUFFICES ASSUME IInv, Shows PROVE GapsExplained
    BY Readings
  <2> QED
    BY DEF IInv, Gaps, GapsExplained, Shows, PhaseIn
<1> QED
  BY <1>1, Invariance, PTL

-----------------------------------------------------------------------------
(* Every step is one of a Shelf, as a reader sees it. *)
LEMMA InitImplements == Init => Promise!Init
<1> SUFFICES ASSUME Init PROVE Promise!Init
  OBVIOUS
<1>1. \A d \in Docs : Phase(d) = "new"
  BY DEF Init, Phase
<1>2. \A d \in Docs : Place(d) = None
  BY DEF Init, Place, Listed, In, Live
<1> QED
  BY <1>1, <1>2 DEF Promise!Init

(* A step that only turns whole documents on and off in the index. *)
LEMMA TurnsImplement ==
    ASSUME Shows, Shows', UNCHANGED <<docs, doc_of>>
    PROVE  \E on, off \in SUBSET Docs : Promise!Reindex(on, off)
<1> DEFINE on == {d \in Docs : PhaseIn(d) = "readable" /\ PhaseIn(d)' = "searchable"}
           off == {d \in Docs : PhaseIn(d) = "searchable" /\ PhaseIn(d)' = "readable"}
<1>1. \A d \in Docs : Live(d)' = Live(d) /\ PiecesOf(d)' = PiecesOf(d)
  BY DEF Live, PiecesOf
<1>2. \A d \in Docs : /\ Phase(d) = PhaseIn(d) /\ Phase(d)' = PhaseIn(d)'
                      /\ Place(d) = PlaceIn(d) /\ Place(d)' = PlaceIn(d)'
  BY DEF Shows
<1>3. \A d \in Docs : Place(d)' = Place(d)
  BY <1>1, <1>2 DEF PlaceIn
<1>4. \A d \in Docs : \/ PhaseIn(d)' = PhaseIn(d)
                      \/ /\ PhaseIn(d) \in {"readable", "searchable"}
                         /\ PhaseIn(d)' \in {"readable", "searchable"}
  BY <1>1 DEF PhaseIn
<1>5. \A d \in Docs : Phase(d)' = IF d \in on THEN "searchable"
                                ELSE IF d \in off THEN "readable" ELSE Phase(d)
  BY <1>2, <1>4
<1>6. Promise!Reindex(on, off)
  BY <1>2, <1>3, <1>5 DEF Promise!Reindex
<1> QED
  BY <1>6

LEMMA InsertDocImplements ==
    ASSUME IInv, Shows, Shows',
           NEW c \in Calls, NEW n \in 1..MaxSize, NEW s \in Scopes, InsertDoc(c, n, s)
    PROVE  \E d \in Docs : Promise!Add(d)
<1>1. PICK d \in Docs : docs[d].state = "new" /\ docs' = [docs EXCEPT ![d] =
                                                    [state |-> "row", scope |-> s]]
  BY DEF InsertDoc
<1>2. /\ docs'[d] = [state |-> "row", scope |-> s]
      /\ \A e \in Docs : e # d => docs'[e] = docs[e]
      /\ UNCHANGED <<doc_of, vec>>
  BY <1>1 DEF InsertDoc, IInv, TypeOK
<1>3. PiecesOf(d) = {} /\ \A e \in Docs : PiecesOf(e)' = PiecesOf(e)
  BY <1>1, <1>2 DEF IInv, PiecesOK, Live, PiecesOf
<1>4. Phase(d) = "new" /\ Phase(d)' = "listed" /\ Place(d)' = s
  BY <1>1, <1>2, <1>3 DEF Shows, PhaseIn, PlaceIn, Live
<1>5. \A e \in Docs : e # d => Phase(e)' = Phase(e) /\ Place(e)' = Place(e)
  BY <1>2, <1>3 DEF Shows, PhaseIn, PlaceIn, Live
<1>6. Promise!Add(d)
  BY <1>4, <1>5 DEF Promise!Add
<1> QED
  BY <1>6

LEMMA InsertPiecesImplements ==
    ASSUME IInv, IInv', Shows, Shows', NEW c \in Calls, InsertPieces(c)
    PROVE  \/ \E d \in Docs : Promise!Read(d)
           \/ UNCHANGED <<docs, doc_of, vec>>
<1>1. PICK d \in Docs : call[c].doc = d
  BY Typed DEF InsertPieces, IInv, CallsOK, CallOK
<1> DEFINE new == nextPiece..(nextPiece + parts[d] - 1)
<1>2. CASE ~Live(d)
  BY <1>1, <1>2 DEF InsertPieces
<1>3. CASE Live(d)
  <2>1. /\ PiecesOf(d) = {} /\ parts[d] \in 1..MaxSize /\ nextPiece \in Nat
        /\ new \subseteq Pieces /\ UNCHANGED <<docs, vec>>
        /\ doc_of' = [p \in Pieces |-> IF p \in new THEN d ELSE doc_of[p]]
    <3>1. PiecesOf(d) = {} /\ call[c].doc = d
      BY <1>1 DEF InsertPieces, IInv, CallsOK, CallOK
    <3>2. parts[d] \in 1..MaxSize /\ nextPiece \in Nat
      BY <1>3, Typed DEF IInv, PiecesOK, Live
    <3> QED
      BY <1>3, <3>1, <3>2 DEF InsertPieces
  <2>2. nextPiece \in new /\ \A p \in new : p >= nextPiece
    BY <2>1
  <2> HIDE DEF new
  <2>3. \A p \in new : p \in Pieces /\ doc_of[p] = None /\ p \notin vec
    BY <2>1, <2>2 DEF IInv, PiecesOK
  <2>4. PiecesOf(d)' = new
    BY <2>1, <2>3 DEF PiecesOf
  <2>5. \A e \in Docs : e # d => PiecesOf(e)' = PiecesOf(e)
    BY <2>1, <2>3 DEF PiecesOf
  <2>6. \A e \in Docs : Live(e)' = Live(e) /\ docs'[e] = docs[e]
    BY <2>1 DEF Live
  <2>7. Phase(d) = "listed" /\ Phase(d)' = "readable"
    BY <1>3, <2>1, <2>2, <2>3, <2>4, <2>6 DEF Shows, PhaseIn
  <2>8. \A e \in Docs : /\ e # d => Phase(e)' = Phase(e)
                        /\ Place(e)' = Place(e)
    BY <2>1, <2>5, <2>6 DEF Shows, PhaseIn, PlaceIn
  <2>9. Promise!Read(d)
    BY <2>7, <2>8 DEF Promise!Read
  <2> QED
    BY <2>9
<1> QED
  BY <1>2, <1>3

LEMMA DeleteImplements ==
    ASSUME IInv, Shows, Shows', NEW d \in Docs, Delete(d)
    PROVE  Promise!Remove(d)
<1>1. /\ Live(d) /\ docs'[d] = [state |-> "gone", scope |-> None]
      /\ \A e \in Docs : e # d => docs'[e] = docs[e]
      /\ doc_of' = [p \in Pieces |-> IF doc_of[p] = d THEN None ELSE doc_of[p]]
      /\ vec' = vec \ PiecesOf(d)
  BY DEF Delete, Unindex, IInv, TypeOK
<1>2. \A e \in Docs : e # d => /\ PiecesOf(e)' = PiecesOf(e) /\ Live(e)' = Live(e)
                               /\ PiecesOf(e) \subseteq vec' <=> PiecesOf(e) \subseteq vec
  BY <1>1 DEF PiecesOf, Live
<1>3. /\ Phase(d) \in {"listed", "readable", "searchable"}
      /\ Phase(d)' = "gone" /\ Place(d)' = None
  BY <1>1 DEF Shows, PhaseIn, PlaceIn, Live
<1>4. ASSUME NEW e \in Docs, e # d
      PROVE  Phase(e)' = Phase(e) /\ Place(e)' = Place(e)
  <2>1. docs'[e] = docs[e] /\ Live(e)' = Live(e) /\ PiecesOf(e)' = PiecesOf(e)
    BY <1>1, <1>2, <1>4
  <2>2. PiecesOf(e)' \subseteq vec' <=> PiecesOf(e) \subseteq vec
    BY <1>2, <1>4, <2>1
  <2>3. PhaseIn(e)' = PhaseIn(e) /\ PlaceIn(e)' = PlaceIn(e)
    BY <2>1, <2>2 DEF PhaseIn, PlaceIn
  <2> QED
    BY <2>3 DEF Shows
<1> QED
  BY <1>3, <1>4 DEF Promise!Remove

LEMMA RemoveScopeImplements ==
    ASSUME IInv, Shows, Shows', NEW s \in Scopes, RemoveScope(s)
    PROVE  Promise!Close(s)
<1>1. UNCHANGED <<doc_of, vec>>
  BY DEF RemoveScope
<1>2. ASSUME NEW d \in Docs
      PROVE  /\ docs'[d].state = docs[d].state
             /\ docs'[d].scope = IF docs[d].scope = s THEN None ELSE docs[d].scope
  <2>1. docs[d] \in Row
    BY DEF IInv, TypeOK
  <2> QED
    BY <2>1 DEF Row, RemoveScope
<1>3. \A d \in Docs : PiecesOf(d)' = PiecesOf(d) /\ Live(d)' = Live(d)
  BY <1>1, <1>2 DEF PiecesOf, Live
<1>4. \A d \in Docs : /\ Phase(d)' = Phase(d)
                      /\ Place(d)' = IF Place(d) = s THEN None ELSE Place(d)
  BY <1>1, <1>2, <1>3 DEF Shows, PhaseIn, PlaceIn
<1> QED
  BY <1>4 DEF Promise!Close

(* What leaves the tables alone leaves the reader's view alone. *)
LEMMA QuietImplements ==
    ASSUME Shows, Shows', UNCHANGED <<docs, doc_of, vec>>
    PROVE  UNCHANGED Promise!shelf
<1>1. \A d \in Docs : PiecesOf(d)' = PiecesOf(d) /\ Live(d)' = Live(d)
  BY DEF PiecesOf, Live
<1>2. \A d \in Docs : Phase(d)' = Phase(d) /\ Place(d)' = Place(d)
  BY <1>1 DEF Shows, PhaseIn, PlaceIn
<1> QED
  BY <1>2 DEF Promise!shelf

(***************************************************************************)
(* The document store implements a Shelf: readers never see a torn         *)
(* document, nor one that comes back or moves to another scope, whatever   *)
(* calls, other processes, failures and deaths come in between.            *)
(***************************************************************************)
THEOREM ImplementsShelf == Spec => KeepsShelf
<1>1. Init => Promise!Init
  BY InitImplements
<1>2. ASSUME IInv, IInv', Shows, Shows', [Next]_vars
      PROVE  [Promise!Next]_(Promise!shelf)
  <2>1. CASE UNCHANGED vars
    BY <1>2, <2>1, QuietImplements DEF vars
  <2>2. ASSUME NEW c \in Calls, NEW n \in 1..MaxSize, NEW s \in Scopes, InsertDoc(c, n, s)
        PROVE  Promise!Next
    BY <1>2, <2>2, InsertDocImplements DEF Promise!Next
  <2>3. ASSUME NEW c \in Calls, InsertPieces(c)
        PROVE  [Promise!Next]_(Promise!shelf)
    BY <1>2, <2>3, InsertPiecesImplements, QuietImplements DEF Promise!Next
  <2>4. ASSUME NEW d \in Docs, Delete(d)
        PROVE  Promise!Next
    BY <1>2, <2>4, DeleteImplements DEF Promise!Next
  <2>5. ASSUME NEW s \in Scopes, RemoveScope(s)
        PROVE  Promise!Next
    BY <1>2, <2>5, RemoveScopeImplements DEF Promise!Next
  <2>6. ASSUME UNCHANGED <<docs, doc_of>>
        PROVE  Promise!Next
    BY <1>2, <2>6, TurnsImplement DEF Promise!Next
  <2>7. ASSUME NEW c \in Calls,
               \/ WriteVectors(c) \/ EmbedFails(c) \/ Killed(c)
               \/ StartReindex(c) \/ CommitReindex(c)
        PROVE  UNCHANGED <<docs, doc_of>>
    BY <2>7 DEF WriteVectors, EmbedFails, Killed, StartReindex, CommitReindex
  <2>8. ASSUME Vacuum PROVE UNCHANGED <<docs, doc_of>>
    BY <2>8 DEF Vacuum
  <2> QED
    BY <1>2, <2>1, <2>2, <2>3, <2>4, <2>5, <2>6, <2>7, <2>8 DEF Next
<1>3. Spec => []IInv
  BY Invariance
<1>4. IInv => Shows
  BY Readings
<1> QED
  BY <1>1, <1>2, <1>3, <1>4, PTL DEF Spec, KeepsShelf, Promise!Spec

-----------------------------------------------------------------------------
HIDE DEF Docs, Pieces
USE LenAssumption, OptionsAssumption

(* The text that the windows behind `start` have left to the chunks. *)
Covered(n) == \A p \in 1..n : ~White(p) => Chunked(p)

Trimmed == Len(text) > 0 => ~White(1) /\ ~White(Len(text))

(* What holds at the head of the loop. *)
AtLoop ==
    pc = "loop" =>
      /\ size > 0 /\ 0 <= overlap /\ overlap < size /\ size < Len(text)
      /\ start <= cut /\ cut - start <= overlap /\ cut < Len(text)
      /\ Covered(start)

IInvChunker == /\ TypeOKChunker /\ Trimmed /\ AtLoop /\ ChunksFit /\ NoTextLost
        /\ (pc = "check" => start = 0 /\ cut = 0 /\ chunks = << >>)

-----------------------------------------------------------------------------
LEMMA InitIInvChunker == InitChunker => IInvChunker
<1> SUFFICES ASSUME InitChunker PROVE IInvChunker
  OBVIOUS
<1>1. PICK n \in 0..MaxLen : text \in [1..n -> Chars]
  BY DEF InitChunker
<1>2. text \in Seq(Chars) /\ Len(text) = n
  BY <1>1
<1>3. TypeOKChunker
  BY <1>1, <1>2, EmptySeq DEF InitChunker, TypeOKChunker
<1>4. Trimmed
  BY <1>2, EmptySeq DEF InitChunker, Trimmed
<1>5. AtLoop /\ ChunksFit /\ NoTextLost
  BY DEF InitChunker, AtLoop, ChunksFit, NoTextLost
<1> QED
  BY <1>3, <1>4, <1>5 DEF InitChunker, IInvChunker

(* A short text is its own chunk. *)
LEMMA CheckStep == IInvChunker /\ Check => IInvChunker'
<1> SUFFICES ASSUME IInvChunker, Check PROVE IInvChunker'
  OBVIOUS
<1>1. /\ UNCHANGED <<text, size, overlap, start, cut>>
      /\ start = 0 /\ cut = 0 /\ chunks = << >> /\ Len(text) \in Nat
      /\ size \in Int /\ overlap \in Int
  BY LenProperties DEF Check, input, IInvChunker, TypeOKChunker
<1>2. CASE pc' \in {"rejected", "loop"}
  <2>1. chunks' = chunks
    BY <1>2 DEF Check
  <2>2. pc' = "loop" => size > 0 /\ 0 <= overlap /\ overlap < size /\ size < Len(text)
    BY <1>1 DEF Check
  <2>3. TypeOKChunker' /\ Trimmed' /\ ChunksFit' /\ NoTextLost'
    BY <1>1, <1>2, <2>1
       DEF IInvChunker, TypeOKChunker, Trimmed, White, ChunksFit, NoTextLost
  <2>4. AtLoop'
    BY <1>1, <1>2, <2>1, <2>2 DEF AtLoop, Covered
  <2> QED
    BY <1>2, <2>3, <2>4 DEF IInvChunker
<1>3. CASE pc' = "done" /\ Len(text) = 0
  <2>1. chunks' = << >>
    BY <1>1, <1>3, EmptySeq DEF Check, IInvChunker, TypeOKChunker
  <2> QED
    BY <1>1, <1>3, <2>1
       DEF IInvChunker, TypeOKChunker, Trimmed, AtLoop, White, ChunksFit, NoTextLost
<1>4. CASE pc' = "done" /\ Len(text) > 0
  <2>1. chunks' = <<1..Len(text)>> /\ Len(text) <= size
    BY <1>1, <1>4, EmptySeq DEF Check, IInvChunker, TypeOKChunker
  <2>2. /\ chunks' \in Seq(SUBSET (1..Len(text)))
        /\ Len(chunks') = 1 /\ chunks'[1] = 1..Len(text)
    BY <2>1
  <2>3. TypeOKChunker' /\ Trimmed' /\ AtLoop'
    BY <1>1, <1>4, <2>2 DEF IInvChunker, TypeOKChunker, Trimmed, AtLoop, White
  <2>4. ChunksFit'
    BY <1>1, <1>4, <2>1, <2>2 DEF IInvChunker, Trimmed, ChunksFit, White
  <2>5. NoTextLost'
    BY <1>1, <2>2 DEF NoTextLost, Chunked, White
  <2> QED
    BY <1>4, <2>3, <2>4, <2>5 DEF IInvChunker
<1> QED
  BY <1>1, <1>2, <1>3, <1>4 DEF Check

(***************************************************************************)
(* The cut lies in the window, behind its start; and behind the last cut,  *)
(* unless the overlap is large.                                            *)
(***************************************************************************)
LEMMA CutBounds ==
    ASSUME IInvChunker, pc = "loop", NEW c \in NextCut
    PROVE  /\ c \in Int /\ start < c /\ c <= Len(text) /\ c - start <= size
           /\ 5 * (overlap - 1) <= 2 * size => cut < c
<1>1. /\ Len(text) \in Nat /\ start \in Nat /\ cut \in Nat
      /\ size \in Int /\ overlap \in Int
      /\ size > 0 /\ 0 <= overlap /\ overlap < size /\ size < Len(text)
      /\ start <= cut /\ cut - start <= overlap /\ cut < Len(text)
  BY LenProperties DEF IInvChunker, TypeOKChunker, AtLoop
<1>2. /\ End \in Int /\ End <= Len(text) /\ start < End /\ End - start <= size
      /\ cut < End
  BY <1>1 DEF End
<1>3. CASE c = End
  BY <1>1, <1>2, <1>3
<1>4. CASE End < Len(text) /\ Pick # {}
  <2>1. PICK i \in Pick : c = start + i + 1
    BY <1>4 DEF NextCut
  <2>2. i \in Int /\ 0 <= i /\ i <= End - start - 1 /\ 5 * i > 2 * size
    BY <1>1, <1>2, <2>1 DEF Pick, Last, Paragraphs, Sentences, Spaces
  <2> QED
    BY <1>1, <1>2, <2>1, <2>2
<1> QED
  BY <1>3, <1>4 DEF NextCut

LEMMA CutStep == IInvChunker /\ Cut => IInvChunker'
<1> SUFFICES ASSUME IInvChunker, Cut PROVE IInvChunker'
  OBVIOUS
<1>1. PICK c \in NextCut :
        /\ cut' = c
        /\ chunks' = IF Slice(start, c) = {} THEN chunks
                     ELSE Append(chunks, Slice(start, c))
        /\ IF c >= Len(text)
           THEN pc' = "done" /\ UNCHANGED start
           ELSE start' = NextStart(c) /\ UNCHANGED pc
  BY DEF Cut
<1>2. pc = "loop" /\ UNCHANGED <<text, size, overlap>>
  BY DEF Cut, input
<1>3. /\ Len(text) \in Nat /\ start \in Nat /\ cut \in Nat /\ Len(text) <= MaxLen
      /\ size \in Int /\ overlap \in Int /\ text \in Seq(Chars)
      /\ size > 0 /\ 0 <= overlap /\ overlap < size /\ size < Len(text)
      /\ chunks \in Seq(SUBSET (1..Len(text))) /\ Len(chunks) \in Nat
  BY <1>2, LenProperties DEF IInvChunker, TypeOKChunker, AtLoop
<1>4. c \in Int /\ start < c /\ c <= Len(text) /\ c - start <= size
  BY <1>2, CutBounds
<1>5. pc' \in {"loop", "done"} /\ (pc' = "done" => c = Len(text))
  BY <1>1, <1>2, <1>3, <1>4
<1>6. /\ start' \in Nat /\ start' <= c
      /\ pc' = "loop" => c - start' <= overlap /\ c < Len(text)
  BY <1>1, <1>2, <1>3, <1>4 DEF NextStart
<1>7. /\ Slice(start, c) \subseteq 1..Len(text)
      /\ \A p \in (start + 1)..c : ~White(p) => p \in Slice(start, c)
      /\ \A p, q \in Slice(start, c) :
           q - p < size /\ p..q \subseteq Slice(start, c)
      /\ \A p \in Slice(start, c) : \E q, r \in Slice(start, c) :
           q <= p /\ p <= r /\ ~White(q) /\ ~White(r)
  BY <1>3, <1>4 DEF Slice
<1>8. /\ chunks' \in Seq(SUBSET (1..Len(text)))
      /\ Len(chunks') \in Nat /\ Len(chunks) <= Len(chunks')
      /\ \A n \in 1..Len(chunks) : chunks'[n] = chunks[n]
      /\ \A n \in 1..Len(chunks') :
           \/ n \in 1..Len(chunks)
           \/ chunks'[n] = Slice(start, c) /\ Slice(start, c) # {}
      /\ Slice(start, c) # {} => \E n \in 1..Len(chunks') : chunks'[n] = Slice(start, c)
  <2> DEFINE new == Slice(start, c)
  <2>1. new \in SUBSET (1..Len(text))
    BY <1>7
  <2> HIDE DEF new
  <2>2. CASE new = {}
    <3>1. chunks' = chunks
      BY <1>1, <2>2 DEF new
    <3> QED
      BY <1>3, <2>2, <3>1 DEF new
  <2>3. CASE new # {}
    <3>1. chunks' = Append(chunks, new)
      BY <1>1, <2>3 DEF new
    <3>2. /\ chunks' \in Seq(SUBSET (1..Len(text))) /\ Len(chunks') = Len(chunks) + 1
          /\ \A n \in 1..Len(chunks) : chunks'[n] = chunks[n]
          /\ chunks'[Len(chunks) + 1] = new
      BY <1>3, <2>1, <3>1
    <3> QED
      BY <1>3, <2>3, <3>2 DEF new
  <2> QED
    BY <2>2, <2>3
<1>9. TypeOKChunker' /\ Trimmed'
  BY <1>1, <1>2, <1>3, <1>4, <1>5, <1>6, <1>8 DEF IInvChunker, TypeOKChunker, Trimmed, White
<1>10. ChunksFit'
  <2> SUFFICES ASSUME NEW n \in 1..Len(chunks')
               PROVE  /\ chunks'[n] # {}
                      /\ \A p, q \in chunks'[n] : q - p < size /\ p..q \subseteq chunks'[n]
                      /\ \A p \in chunks'[n] : \E q, r \in chunks'[n] :
                           q <= p /\ p <= r /\ ~White(q) /\ ~White(r)
    BY <1>2 DEF ChunksFit, White
  <2>1. CASE n \in 1..Len(chunks)
    BY <1>8, <2>1 DEF IInvChunker, ChunksFit
  <2>2. CASE chunks'[n] = Slice(start, c) /\ Slice(start, c) # {}
    <3> DEFINE new == Slice(start, c)
    <3>1. /\ chunks'[n] = new /\ new # {}
          /\ \A p, q \in new : q - p < size /\ p..q \subseteq new
          /\ \A p \in new : \E q, r \in new :
               q <= p /\ p <= r /\ ~White(q) /\ ~White(r)
      BY <1>7, <2>2
    <3> HIDE DEF new
    <3> QED
      BY ONLY <3>1
  <2> QED
    BY <1>8, <2>1, <2>2
<1>11. \A p \in 1..c : ~White(p) => Chunked(p)'
  <2>1. \A p : Chunked(p) => Chunked(p)'
    BY <1>3, <1>8 DEF Chunked
  <2>2. Covered(start)
    BY <1>2 DEF IInvChunker, AtLoop
  <2>3. \A p \in (start + 1)..c : ~White(p) => Chunked(p)'
    BY <1>7, <1>8 DEF Chunked
  <2> QED
    BY <1>3, <1>4, <2>1, <2>2, <2>3 DEF Covered
<1>12. AtLoop' /\ NoTextLost'
  <2>1. \A p \in 1..c : ~White(p)' => Chunked(p)'
    BY <1>2, <1>11 DEF White
  <2>2. pc' = "loop" => Covered(start)'
    BY <1>3, <1>4, <1>6, <2>1 DEF Covered
  <2>3. pc' = "done" => \A p \in 1..Len(text)' : ~White(p)' => Chunked(p)'
    BY <1>2, <1>5, <2>1
  <2> QED
    BY <1>1, <1>2, <1>3, <1>6, <2>2, <2>3 DEF AtLoop, NoTextLost
<1> QED
  BY <1>5, <1>9, <1>10, <1>12 DEF IInvChunker

LEMMA NextIInvChunker == IInvChunker /\ [NextChunker]_varsChunker => IInvChunker'
<1>1. IInvChunker /\ UNCHANGED varsChunker => IInvChunker'
  BY DEF varsChunker, IInvChunker, TypeOKChunker, Trimmed, AtLoop, Covered, ChunksFit, NoTextLost,
         Chunked, White
<1> QED
  BY <1>1, CheckStep, CutStep DEF NextChunker

LEMMA InvarianceChunker == SpecChunker => []IInvChunker
BY InitIInvChunker, NextIInvChunker, PTL DEF SpecChunker

-----------------------------------------------------------------------------
(* The state is well typed, for any length, size and overlap. *)
THEOREM ChunksTyped == SpecChunker => []TypeOKChunker
<1>1. IInvChunker => TypeOKChunker
  BY DEF IInvChunker
<1> QED
  BY <1>1, InvarianceChunker, PTL

(* When chunkText returns, all that is not whitespace lies in some chunk. *)
THEOREM NothingIsLost == SpecChunker => []NoTextLost
<1>1. IInvChunker => NoTextLost
  BY DEF IInvChunker
<1> QED
  BY <1>1, InvarianceChunker, PTL

(* Every chunk is a trimmed piece of the text of at most `size` characters. *)
THEOREM EveryChunkFits == SpecChunker => []ChunksFit
<1>1. IInvChunker => ChunksFit
  BY DEF IInvChunker
<1> QED
  BY <1>1, InvarianceChunker, PTL

(***************************************************************************)
(* Every turn but the last moves the window on and keeps it in the text,   *)
(* so the loop ends, whatever the overlap; up to an overlap of 0.4 of the  *)
(* size and one, every turn also ends its chunk behind the last one.       *)
(***************************************************************************)
THEOREM EveryTurnAdvances == SpecChunker => Advances
<1>1. ASSUME IInvChunker, Cut
      PROVE  /\ pc' = "loop" => start < start' /\ start' < Len(text)
             /\ 5 * (overlap - 1) <= 2 * size => cut' > cut
  <2>1. PICK c \in NextCut :
          /\ cut' = c
          /\ IF c >= Len(text)
             THEN pc' = "done" /\ UNCHANGED start
             ELSE start' = NextStart(c) /\ UNCHANGED pc
    BY <1>1 DEF Cut
  <2>2. /\ Len(text) \in Nat /\ start \in Nat /\ cut \in Nat
        /\ size \in Int /\ overlap \in Int /\ 0 <= overlap
    BY <1>1, LenProperties DEF Cut, IInvChunker, TypeOKChunker, AtLoop
  <2>3. /\ c \in Int /\ start < c
        /\ 5 * (overlap - 1) <= 2 * size => cut < c
    BY <1>1, <2>1, CutBounds DEF Cut
  <2>4. pc' = "loop" => start < start' /\ start' < Len(text)
    BY <2>1, <2>2, <2>3 DEF NextStart
  <2> QED
    BY <2>1, <2>2, <2>3, <2>4
<1>2. IInvChunker /\ [NextChunker]_varsChunker =>
        [Cut => /\ pc' = "loop" => start < start' /\ start' < Len(text)
                /\ 5 * (overlap - 1) <= 2 * size => cut' > cut]_varsChunker
  BY <1>1
<1> QED
  BY <1>2, InvarianceChunker, PTL DEF SpecChunker, Advances
=============================================================================
