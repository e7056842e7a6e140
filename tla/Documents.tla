------------------------------- MODULE Documents -------------------------------
(***************************************************************************)
(* The document store: a row in `documents`, its pieces in                 *)
(* `document_chunks` and one vector per piece in `document_chunks_vec`     *)
(* (core/documents/documents.ts with core/store/vectorIndex.ts).           *)
(*                                                                         *)
(* An ingest writes the three one after the other: the row by a statement  *)
(* of its own, the pieces in one transaction, the vectors in another after *)
(* it has waited for the embeddings.  Statements and transactions are      *)
(* steps; between them other calls, other processes on the same file, a    *)
(* failing provider and the death of the process come in.  The dimension   *)
(* of the store is fixed and known to every handle (EmbedDim has what      *)
(* happens before that); what a piece says does not matter here, so a      *)
(* vector is known by its rowid, the id of its piece.                      *)
(***************************************************************************)
EXTENDS Integers, FiniteSets

CONSTANTS
    Calls,      \* slots for asynchronous calls in flight
    Scopes,     \* ids of scopes
    Default,    \* the scope that cannot be removed
    MaxDoc,     \* bound: rows AUTOINCREMENT hands out in documents
    MaxPiece,   \* bound: rows AUTOINCREMENT hands out in document_chunks
    MaxSize,    \* bound: pieces chunkText cuts a document into
    None        \* no row, no scope

Docs == 1..MaxDoc
Pieces == 1..MaxPiece

ASSUME BoundAssumption ==
    MaxDoc \in Nat /\ MaxPiece \in Nat /\ MaxSize \in Nat \ {0}
ASSUME ScopeAssumption == Default \in Scopes
ASSUME NoneAssumption == None \notin Docs \cup Scopes

(***************************************************************************)
(* Where a call is suspended:                                              *)
(*   cut      the row is written, its pieces are not                       *)
(*   embed    the pieces are written, their embeddings are awaited         *)
(*   reindex  the pieces of all documents are read, their embeddings are   *)
(*            awaited                                                      *)
(* A search waits too, but reads all it answers with after its wait: it is *)
(* an operator of the state here.                                          *)
(***************************************************************************)
Stages == {"idle", "cut", "embed", "reindex"}

Call == [stage : Stages, doc : Docs \cup {None}, ids : SUBSET Pieces]

(* A row of table documents, with what happened to its id: a scope that is *)
(* None is a NULL scope_id.                                                *)
Row == [state : {"new", "row", "gone"}, scope : Scopes \cup {None}]

VARIABLES
    scopes,     \* SUBSET Scopes, the rows of table scopes
    docs,       \* [Docs -> Row], table documents
    doc_of,     \* [Pieces -> Docs or None], document_id in document_chunks
    nextPiece,  \* the next AUTOINCREMENT value of document_chunks
    vec,        \* SUBSET Pieces, the rowids of document_chunks_vec
    call,       \* the calls in flight
    parts,      \* history variable: into how many pieces a text was cut
    overtaken,  \* history variable: pieces deleted while a call held them
    lapsed      \* history variable: documents some step failed to complete

vars == <<scopes, docs, doc_of, nextPiece, vec, call, parts, overtaken, lapsed>>

-----------------------------------------------------------------------------
Live(d) == docs[d].state = "row"
Kept == {p \in Pieces : doc_of[p] # None}
PiecesOf(d) == {p \in Pieces : doc_of[p] = d}

Idle == [stage |-> "idle", doc |-> None, ids |-> {}]
Return(c) == call' = [call EXCEPT ![c] = Idle]

Init ==
    /\ scopes = Scopes
    /\ docs = [d \in Docs |-> [state |-> "new", scope |-> None]]
    /\ doc_of = [p \in Pieces |-> None]
    /\ nextPiece = 1
    /\ vec = {}
    /\ call = [c \in Calls |-> Idle]
    /\ parts = [d \in Docs |-> 0]
    /\ overtaken = {}
    /\ lapsed = {}

-----------------------------------------------------------------------------
(***************************************************************************)
(* ingest, up to its first write: chunkText has cut the text into n pieces *)
(* (a text that gives none is refused), the scope is resolved and the row  *)
(* inserted.  A scope removed between these two statements makes the       *)
(* INSERT violate its foreign key, and nothing has happened.               *)
(***************************************************************************)
InsertDoc(c, n, s) ==
    /\ call[c].stage = "idle"
    /\ s \in scopes
    /\ \E d \in Docs :
        /\ docs[d].state = "new"
        /\ \A e \in Docs : e < d => docs[e].state # "new"
        /\ docs' = [docs EXCEPT ![d] = [state |-> "row", scope |-> s]]
        /\ parts' = [parts EXCEPT ![d] = n]
        /\ call' = [call EXCEPT ![c] = [Idle EXCEPT !.stage = "cut", !.doc = d]]
    /\ UNCHANGED <<scopes, doc_of, nextPiece, vec, overtaken, lapsed>>

(* Mistake: each piece is a statement of its own; the process dies between *)
(* two of them.                                                            *)
InsertPiecesOneByOne(c) ==
    /\ call[c].stage = "cut"
    /\ LET d == call[c].doc IN
        /\ nextPiece + parts[d] - 1 <= MaxPiece
        /\ Live(d)
        /\ \E n \in 1..parts[d] :
            /\ doc_of' = [p \in Pieces |->
                            IF p \in nextPiece..(nextPiece + n - 1) THEN d ELSE doc_of[p]]
            /\ nextPiece' = nextPiece + n
            /\ call' = [call EXCEPT ![c] = [Idle EXCEPT !.stage = "embed", !.doc = d,
                                              !.ids = nextPiece..(nextPiece + n - 1)]]
    /\ UNCHANGED <<scopes, docs, vec, parts, overtaken, lapsed>>

(***************************************************************************)
(* ingest: all pieces in one transaction.  When another process has        *)
(* deleted the document since, the foreign key refuses the first of them   *)
(* and the call rejects.                                                   *)
(***************************************************************************)
InsertPieces(c) ==
    /\ call[c].stage = "cut"
    /\ LET d == call[c].doc
           new == nextPiece..(nextPiece + parts[d] - 1) IN
        \/ /\ Live(d)
           /\ new \subseteq Pieces
           /\ doc_of' = [p \in Pieces |-> IF p \in new THEN d ELSE doc_of[p]]
           /\ nextPiece' = nextPiece + parts[d]
           /\ call' = [call EXCEPT ![c] =
                         [Idle EXCEPT !.stage = "embed", !.doc = d, !.ids = new]]
        \/ /\ ~Live(d)
           /\ Return(c)
           /\ UNCHANGED <<doc_of, nextPiece>>
    /\ UNCHANGED <<scopes, docs, vec, parts, overtaken, lapsed>>

(***************************************************************************)
(* ingest, when its embeddings are there: VectorIndex.write inserts all    *)
(* vectors or, when one of the rowids is taken, none.  Whether the         *)
(* document still exists is looked up only afterwards (getById): vectors   *)
(* of one deleted meanwhile stay.                                          *)
(***************************************************************************)
WriteVectors(c) ==
    /\ call[c].stage = "embed"
    /\ vec' = IF call[c].ids \cap vec = {} THEN vec \cup call[c].ids ELSE vec
    /\ Return(c)
    /\ UNCHANGED <<scopes, docs, doc_of, nextPiece, parts, overtaken, lapsed>>

(***************************************************************************)
(* The provider fails, or answers in another dimension: VectorIndex lets   *)
(* the error through before it has written anything.                       *)
(***************************************************************************)
EmbedFails(c) ==
    /\ call[c].stage \in {"embed", "reindex"}
    /\ lapsed' = lapsed \cup ({call[c].doc} \ {None})
    /\ Return(c)
    /\ UNCHANGED <<scopes, docs, doc_of, nextPiece, vec, parts, overtaken>>

Killed(c) ==
    /\ call[c].stage # "idle"
    /\ lapsed' = lapsed \cup ({call[c].doc} \ {None})
    /\ Return(c)
    /\ UNCHANGED <<scopes, docs, doc_of, nextPiece, vec, parts, overtaken>>

-----------------------------------------------------------------------------
HeldIn(ps) ==
    {p \in ps : \E c \in Calls : call[c].stage \in {"embed", "reindex"} /\ p \in call[c].ids}

(* VectorIndex.deleteMany: part of the caller's transaction.               *)
Unindex(ps) == vec' = vec \ ps

(* Mistake: the cascade is trusted to clear the vec0 table too.            *)
DeleteRowsOnly(d) ==
    /\ Live(d)
    /\ docs' = [docs EXCEPT ![d] = [state |-> "gone", scope |-> None]]
    /\ doc_of' = [p \in Pieces |-> IF doc_of[p] = d THEN None ELSE doc_of[p]]
    /\ overtaken' = overtaken \cup HeldIn(PiecesOf(d))
    /\ UNCHANGED <<scopes, nextPiece, vec, call, parts, lapsed>>

(***************************************************************************)
(* delete: one transaction takes the vectors, the row and, by cascade, the *)
(* pieces.  A prune of the scope's old documents does the same.            *)
(***************************************************************************)
Delete(d) ==
    /\ Live(d)
    /\ docs' = [docs EXCEPT ![d] = [state |-> "gone", scope |-> None]]
    /\ doc_of' = [p \in Pieces |-> IF doc_of[p] = d THEN None ELSE doc_of[p]]
    /\ Unindex(PiecesOf(d))
    /\ overtaken' = overtaken \cup HeldIn(PiecesOf(d))
    /\ UNCHANGED <<scopes, nextPiece, call, parts, lapsed>>

(* Mistake: documents.scope_id has no ON DELETE clause that is enforced.   *)
RemoveScopeOnly(s) ==
    /\ s \in scopes \ {Default}
    /\ scopes' = scopes \ {s}
    /\ UNCHANGED <<docs, doc_of, nextPiece, vec, call, parts, overtaken, lapsed>>

(* Scopes.remove: ON DELETE SET NULL on what was filed under it.           *)
RemoveScope(s) ==
    /\ s \in scopes \ {Default}
    /\ scopes' = scopes \ {s}
    /\ docs' = [d \in Docs |-> IF docs[d].scope = s
                               THEN [docs[d] EXCEPT !.scope = None] ELSE docs[d]]
    /\ UNCHANGED <<doc_of, nextPiece, vec, call, parts, overtaken, lapsed>>

(* dcx vacuum: vectors whose piece is gone.                                *)
Vacuum ==
    /\ vec' = vec \cap Kept
    /\ UNCHANGED <<scopes, docs, doc_of, nextPiece, call, parts, overtaken, lapsed>>

-----------------------------------------------------------------------------
(* Mistake: the table is emptied before the embeddings are asked for.      *)
StartReindexEmpty(c) ==
    /\ call[c].stage = "idle"
    /\ vec' = {}
    /\ call' = IF Kept = {} THEN call
               ELSE [call EXCEPT ![c] = [Idle EXCEPT !.stage = "reindex", !.ids = Kept]]
    /\ UNCHANGED <<scopes, docs, doc_of, nextPiece, parts, overtaken, lapsed>>

(***************************************************************************)
(* reindex reads all pieces; without any it empties the table at once,     *)
(* otherwise it waits for their embeddings.                                *)
(***************************************************************************)
StartReindex(c) ==
    /\ call[c].stage = "idle"
    /\ IF Kept = {}
       THEN vec' = {} /\ UNCHANGED call
       ELSE /\ call' = [call EXCEPT ![c] = [Idle EXCEPT !.stage = "reindex", !.ids = Kept]]
            /\ UNCHANGED vec
    /\ UNCHANGED <<scopes, docs, doc_of, nextPiece, parts, overtaken, lapsed>>

(* VectorIndex.reindex: the whole table becomes what was read, in one      *)
(* transaction.  Documents cut into pieces since lose their vectors.       *)
CommitReindex(c) ==
    /\ call[c].stage = "reindex"
    /\ vec' = call[c].ids
    /\ lapsed' = lapsed \cup {d \in Docs : /\ PiecesOf(d) \cap vec # {}
                                           /\ PiecesOf(d) \cap call[c].ids = {}}
    /\ Return(c)
    /\ UNCHANGED <<scopes, docs, doc_of, nextPiece, parts, overtaken>>

-----------------------------------------------------------------------------
Next ==
    \/ \E c \in Calls :
        \/ \E n \in 1..MaxSize, s \in Scopes : InsertDoc(c, n, s)
        \/ InsertPieces(c) \/ WriteVectors(c) \/ EmbedFails(c) \/ Killed(c)
        \/ StartReindex(c) \/ CommitReindex(c)
    \/ \E d \in Docs : Delete(d)
    \/ \E s \in Scopes : RemoveScope(s)
    \/ Vacuum

Spec == Init /\ [][Next]_vars

-----------------------------------------------------------------------------
(***************************************************************************)
(* What a reader gets.  A filter is a set of scopes, or Anywhere for a     *)
(* call that names none; a NULL scope is in no filter.                     *)
(***************************************************************************)
Anywhere == Scopes \cup {None}
In(filter, d) == Live(d) /\ docs[d].scope \in filter

(* list, with a limit no store of this size reaches.                       *)
Listed(filter) == {d \in Docs : In(filter, d)}

(* search without an index or an embedding: the pieces that hold the       *)
(* words, here any, joined with their document.                            *)
KeywordHits(filter) == {p \in Kept : In(filter, doc_of[p])}

(* search by meaning: vectors joined with piece and document; a vector     *)
(* whose piece is gone is passed over.                                     *)
VectorHits(filter) == {p \in vec \cap Kept : In(filter, doc_of[p])}

(* search, for every query and filter.                                     *)
Hits(byMeaning, filter) ==
    IF filter = {} THEN {}
    ELSE IF byMeaning THEN VectorHits(filter) ELSE KeywordHits(filter)

Found(d, byMeaning) == Hits(byMeaning, Anywhere) \cap PiecesOf(d)

Whole(d, byMeaning) == Cardinality(Found(d, byMeaning)) = parts[d]

(* How much of a document a reader finds; "torn" is no phase of a Shelf.   *)
Phase(d) ==
    IF docs[d].state # "row" THEN docs[d].state
    ELSE IF Found(d, FALSE) = {} /\ Found(d, TRUE) = {} THEN "listed"
    ELSE IF Whole(d, FALSE) /\ Found(d, TRUE) = {} THEN "readable"
    ELSE IF Whole(d, FALSE) /\ Whole(d, TRUE) THEN "searchable" ELSE "torn"

Place(d) == IF \E s \in Scopes : d \in Listed({s})
            THEN CHOOSE s \in Scopes : d \in Listed({s}) ELSE None

Promise == INSTANCE Shelf WITH Places <- Scopes, Nowhere <- None,
                               phase <- [d \in Docs |-> Phase(d)],
                               place <- [d \in Docs |-> Place(d)]

(***************************************************************************)
(* Every document shows all of its pieces or none, to the words and to the *)
(* meaning alike, through every interleaving, failure and death; it goes   *)
(* for good and never changes scope but by the removal of its scope.       *)
(* ingest, delete and reindex of documents.ts.                             *)
(***************************************************************************)
KeepsShelf == Promise!Spec

(* What is stored is of the shape the tables have; a document is filed     *)
(* under a scope that exists, or under none.                               *)
TypeOK ==
    /\ scopes \subseteq Scopes
    /\ docs \in [Docs -> Row]
    /\ \A d \in Docs : docs[d].scope \in scopes \cup {None}
    /\ doc_of \in [Pieces -> Docs \cup {None}]
    /\ nextPiece \in 1..(MaxPiece + 1)
    /\ vec \subseteq Pieces
    /\ call \in [Calls -> Call]
    /\ parts \in [Docs -> 0..MaxSize]
    /\ overtaken \subseteq Pieces
    /\ lapsed \subseteq Docs

(***************************************************************************)
(* Nothing of a deleted document is left behind: no piece ever, and a      *)
(* vector only when an ingest or a reindex held its piece at the moment of *)
(* the deletion (documents.ts:105-115 beside the awaits of vectorIndex.ts  *)
(* 47 and 153).                                                            *)
(***************************************************************************)
NoLeftovers ==
    /\ TypeOK
    /\ \A p \in Kept : Live(doc_of[p])
    /\ vec \ Kept \subseteq overtaken

(***************************************************************************)
(* A document that cannot be found by its meaning is being written at this *)
(* moment, or a failure, a death or a reindex that had read the store      *)
(* before it was cut has left it so.  In particular an ingest whose        *)
(* INSERT collides with a reindex (documents.ts:81) loses nothing.         *)
(***************************************************************************)
GapsExplained ==
    \A d \in Docs : Live(d) /\ Phase(d) # "searchable" =>
        d \in lapsed \/ \E c \in Calls : call[c].doc = d
=============================================================================
