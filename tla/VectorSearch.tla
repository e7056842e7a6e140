----------------------------- MODULE VectorSearch -----------------------------
(***************************************************************************)
(* The adaptive-widening vector search that recall, document search and    *)
(* history search share (core/store/vectorSearch.ts).  sqlite-vec returns  *)
(* the k nearest vectors of the whole table; the rows behind them are then *)
(* hydrated in slices through the caller's filter (scope, source, the row  *)
(* must exist); while too few survive, the window is widened.              *)
(*                                                                         *)
(* Each SQL statement reads its own snapshot.  One process runs the search *)
(* without a pause, but another process on the same file (the CLI beside a *)
(* server) may write between two of its statements: OtherWrites.           *)
(***************************************************************************)
EXTENDS Integers, FiniteSets

CONSTANTS
    Ids,        \* row ids that may occur in the vector table
    Dist,       \* [Ids -> Nat], distance of each row's vector to the query
    MaxLimit,   \* bound on the `limit` of a search
    Factor,     \* RECALL_WIDEN_FACTOR
    Batch       \* HYDRATE_BATCH

ASSUME IdsAssumption == IsFiniteSet(Ids)
ASSUME DistAssumption == Dist \in [Ids -> Nat]
ASSUME LimitAssumption == MaxLimit \in Nat
ASSUME FactorAssumption == Factor \in Nat /\ Factor > 1
ASSUME BatchAssumption == Batch \in Nat \ {0}

VARIABLES
    index,      \* rows with a vector in the table
    visible,    \* rows that the filter of the caller lets through
    limit,      \* the search's limit
    k,          \* size of the window asked for
    total,      \* rows of the table as counted, -1 before the count
    window,     \* result of the last k-NN statement
    rest,       \* the part of the window not hydrated yet
    out,        \* survivors of the hydrated part
    result,     \* what the search returned
    pc,         \* "knn", "hydrate", "judge" or "done"
    throughout, \* history variable: rows that matched at every moment so far
    disturbed   \* history variable: has another process written meanwhile?

vars == <<index, visible, limit, k, total, window, rest, out, result, pc,
          throughout, disturbed>>
table == <<index, visible, throughout, disturbed>>

-----------------------------------------------------------------------------
(***************************************************************************)
(* R is a choice of the n nearest members of S, or all of S when there are *)
(* no more than n.  Rows at the same distance come in any order.           *)
(***************************************************************************)
Nearest(R, S, n) ==
    /\ R \subseteq S
    /\ Cardinality(R) = n \/ (R = S /\ Cardinality(S) <= n)
    /\ \A i \in R, j \in S \ R : Dist[i] <= Dist[j]

Init ==
    /\ index \in SUBSET Ids
    /\ visible \in SUBSET Ids
    /\ limit \in 0..MaxLimit
    /\ k = limit
    /\ total = -1
    /\ window = {} /\ rest = {} /\ out = {} /\ result = {}
    /\ pc = IF limit = 0 THEN "done" ELSE "knn"
    /\ throughout = index \cap visible
    /\ disturbed = FALSE

(* The k-NN statement: the k nearest rows of the table, whatever their scope. *)
Knn ==
    /\ pc = "knn"
    /\ window' \in {W \in SUBSET index : Nearest(W, index, k)}
    /\ rest' = window'
    /\ out' = {}
    /\ pc' = IF window' = {} THEN "judge" ELSE "hydrate"
    /\ UNCHANGED <<table, limit, k, total, result>>

(* Mistake: stop at the first slice with any survivor. *)
HydrateSliceEager ==
    /\ pc = "hydrate"
    /\ \E B \in SUBSET rest :
         /\ Nearest(B, rest, Batch)
         /\ rest' = rest \ B
         /\ out' = out \cup (B \cap visible)
    /\ pc' = IF rest' = {} \/ out' # {} THEN "judge" ELSE "hydrate"
    /\ UNCHANGED <<table, limit, k, total, window, result>>

(***************************************************************************)
(* One slice of hydrateChunked: the next Batch rows of the window through  *)
(* the filter.  A window of several slices stops once `limit` survived.    *)
(***************************************************************************)
HydrateSlice ==
    /\ pc = "hydrate"
    /\ \E B \in SUBSET rest :
         /\ Nearest(B, rest, Batch)
         /\ rest' = rest \ B
         /\ out' = out \cup (B \cap visible)
    /\ pc' = IF \/ rest' = {}
                \/ Cardinality(window) > Batch /\ Cardinality(out') >= limit
             THEN "judge" ELSE "hydrate"
    /\ UNCHANGED <<table, limit, k, total, window, result>>

(* Mistake: truncate before ranking, any `limit` survivors will do. *)
FinishUnranked ==
    /\ result' \in {R \in SUBSET out :
                  Cardinality(R) = limit \/ (R = out /\ Cardinality(R) < limit)}
    /\ pc' = "done"
    /\ UNCHANGED k

(* survivors.slice(0, limit) *)
Finish ==
    /\ result' \in {R \in SUBSET out : Nearest(R, out, limit)}
    /\ pc' = "done"
    /\ UNCHANGED k

(* countVectorRows, run for the first window that is too small. *)
Counted == IF total < 0 THEN Cardinality(index) ELSE total

(* Mistake: the wider window is computed and not kept. *)
WidenNothing ==
    /\ k' = k
    /\ pc' = "knn"
    /\ UNCHANGED result

Widen ==
    /\ k' = IF k * Factor < Counted THEN k * Factor ELSE Counted
    /\ pc' = "knn"
    /\ UNCHANGED result

(***************************************************************************)
(* Enough survivors, or a window that the table could not fill, end the    *)
(* search; else the table is counted, once, and the window widened unless  *)
(* it covers the count.                                                    *)
(***************************************************************************)
Judge ==
    /\ pc = "judge"
    /\ IF Cardinality(out) >= limit \/ Cardinality(window) < k
       THEN Finish /\ UNCHANGED total
       ELSE /\ total' = Counted
            /\ IF k >= Counted THEN Finish ELSE Widen
    /\ UNCHANGED <<table, limit, window, rest, out>>

Toggle(S, i) == (S \cup {i}) \ (S \cap {i})

(***************************************************************************)
(* Another process commits a write between two statements of the search: a *)
(* vector appears or goes, a row starts or ceases to match the filter.     *)
(***************************************************************************)
OtherWrites ==
    /\ pc # "done"
    /\ \E i \in Ids :
         \/ index' = Toggle(index, i) /\ UNCHANGED visible
         \/ visible' = Toggle(visible, i) /\ UNCHANGED index
    /\ throughout' = throughout \cap index' \cap visible'
    /\ disturbed' = TRUE
    /\ UNCHANGED <<limit, k, total, window, rest, out, result, pc>>

Search == Knn \/ HydrateSlice \/ Judge
Next == Search \/ OtherWrites

(* The loop has no wait of its own, so the search keeps taking its steps. *)
Spec == Init /\ [][Next]_vars /\ WF_vars(Search)

-----------------------------------------------------------------------------
(* Types; every window, slice and result consists of row ids. *)
TypeOK ==
    /\ index \subseteq Ids /\ visible \subseteq Ids
    /\ limit \in 0..MaxLimit
    /\ k \in Nat
    /\ total \in Nat \cup {-1}
    /\ window \subseteq Ids /\ rest \subseteq Ids /\ out \subseteq Ids
    /\ result \subseteq Ids
    /\ pc \in {"knn", "hydrate", "judge", "done"}
    /\ throughout \subseteq Ids
    /\ disturbed \in BOOLEAN

(***************************************************************************)
(* With the table at rest the search returns exactly the `limit` nearest   *)
(* of the rows that match: a dense neighbouring scope cannot crowd them    *)
(* out, and no slice boundary or early stop loses or reorders one.         *)
(***************************************************************************)
Exact ==
    pc = "done" /\ ~disturbed => Nearest(result, index \cap visible, limit)

(***************************************************************************)
(* Whatever other processes write meanwhile, no hit is farther away than a *)
(* matching row that was there all along and is not a hit.                 *)
(***************************************************************************)
NearestFirst ==
    pc = "done" =>
      \A i \in result, j \in throughout \ result : Dist[i] <= Dist[j]

(***************************************************************************)
(* The loop ends, however the table grows while it runs: the window is     *)
(* bounded by the count taken once.                                        *)
(***************************************************************************)
Terminates == <>(pc = "done")
=============================================================================
