---------------------------- MODULE VectorsProofs ----------------------------
(***************************************************************************)
(* Proofs about the opening of a store and the vectors in it, modules      *)
(* VectorSearch and EmbedDim, and so Store.                                *)
(*                                                                         *)
(* The hits of a search are the right ones, for any table, filter,         *)
(* distance, limit, widening factor and slice size.  The gate holds for    *)
(* any processes and releases.  As long as no handle is stale, the pinned  *)
(* dimension, the tables and the handles agree, for any processes,         *)
(* providers and rows.                                                     *)
(***************************************************************************)
EXTENDS VectorSearch, EmbedDim, FiniteSetTheorems, TLAPS

USE IdsAssumption, DistAssumption, LimitAssumption, FactorAssumption,
    BatchAssumption DEF table

-----------------------------------------------------------------------------
(* Lemmas about Nearest.                                                   *)

LEMMA SubsetsAreFinite ==
    ASSUME NEW S \in SUBSET Ids
    PROVE  IsFiniteSet(S) /\ Cardinality(S) \in Nat
BY FS_Subset, FS_CardinalityType

(* A window that falls short of what was asked for is the whole table. *)
LEMMA ShortWindowIsAll ==
    ASSUME NEW S \in SUBSET Ids, NEW W, NEW n \in Nat, Nearest(W, S, n),
           Cardinality(W) < n \/ Cardinality(S) <= n
    PROVE  W = S
<1>1. W \subseteq S /\ W \in SUBSET Ids
  BY DEF Nearest
<1>2. /\ IsFiniteSet(S) /\ Cardinality(S) \in Nat
      /\ Cardinality(W) \in Nat /\ Cardinality(W) <= Cardinality(S)
  BY <1>1, SubsetsAreFinite, FS_Subset
<1>3. Cardinality(W) = Cardinality(S) => W = S
  BY <1>1, <1>2, FS_Subset
<1> QED
  BY <1>2, <1>3 DEF Nearest

-----------------------------------------------------------------------------
(* The matching rows known so far, and how window, slices and out lie.     *)
AllAlong ==
    /\ throughout \subseteq index \cap visible
    /\ ~disturbed => throughout = index \cap visible

InWindow ==
    pc \in {"hydrate", "judge"} =>
      /\ rest \subseteq window
      /\ out \subseteq window \ rest
      /\ throughout \cap (window \ rest) \subseteq out
      /\ \A i \in window, j \in throughout \ window : Dist[i] <= Dist[j]
      /\ \A i \in window \ rest, j \in rest : Dist[i] <= Dist[j]

(* With the table at rest, what the statements read is what it still holds. *)
AtRest ==
    ~disturbed =>
      /\ pc \in {"hydrate", "judge"} =>
            out \subseteq index \cap visible /\ Nearest(window, index, k)
      /\ total \in {-1, Cardinality(index)}

Hydrated == pc = "judge" => rest = {} \/ Cardinality(out) >= limit

IInv == /\ TypeOK /\ AllAlong /\ InWindow /\ AtRest /\ Hydrated
        /\ Exact /\ NearestFirst

LEMMA InitIInv == Init => IInv
<1> SUFFICES ASSUME Init PROVE IInv
  OBVIOUS
<1>a. disturbed \in BOOLEAN /\ ~disturbed
  BY Zenon DEF Init
<1>b. /\ index \subseteq Ids /\ visible \subseteq Ids /\ throughout = index \cap visible
      /\ limit \in 0..MaxLimit /\ k = limit /\ total = -1
      /\ window = {} /\ rest = {} /\ out = {} /\ result = {}
      /\ pc \in {"knn", "done"} /\ (pc = "done" => limit = 0)
  BY DEF Init
<1>c. TypeOK
  BY <1>a, <1>b DEF TypeOK
<1>1. AllAlong /\ InWindow /\ AtRest /\ Hydrated
  BY <1>b DEF AllAlong, InWindow, AtRest, Hydrated
<1>2. Exact /\ NearestFirst
  BY <1>b, FS_EmptySet DEF Exact, NearestFirst, Nearest
<1> QED
  BY <1>c, <1>1, <1>2 DEF IInv

LEMMA KnnStep == IInv /\ Knn => IInv'
<1> SUFFICES ASSUME IInv, Knn PROVE IInv'
  OBVIOUS
<1>1. /\ window' \subseteq index /\ Nearest(window', index, k)
      /\ rest' = window' /\ out' = {}
      /\ pc' \in {"hydrate", "judge"} /\ (pc' = "judge" => rest' = {})
      /\ UNCHANGED <<table, limit, k, total, result>>
  BY DEF Knn
<1>2. TypeOK' /\ AllAlong' /\ Hydrated' /\ Exact' /\ NearestFirst'
  BY <1>1 DEF IInv, TypeOK, AllAlong, Hydrated, Exact, NearestFirst
<1>3. InWindow'
  BY <1>1 DEF IInv, InWindow, AllAlong, Nearest
<1>4. AtRest'
  BY <1>1 DEF IInv, AtRest, Nearest
<1> QED
  BY <1>2, <1>3, <1>4 DEF IInv

LEMMA HydrateStep == IInv /\ HydrateSlice => IInv'
<1> SUFFICES ASSUME IInv, HydrateSlice PROVE IInv'
  OBVIOUS
<1>1. PICK B \in SUBSET rest :
        Nearest(B, rest, Batch) /\ rest' = rest \ B /\ out' = out \cup (B \cap visible)
  BY DEF HydrateSlice
<1>2. /\ pc = "hydrate" /\ pc' \in {"hydrate", "judge"}
      /\ pc' = "judge" => rest' = {} \/ Cardinality(out') >= limit
      /\ UNCHANGED <<table, limit, k, total, window, result>>
  BY DEF HydrateSlice
<1>3. TypeOK' /\ AllAlong' /\ Hydrated' /\ Exact' /\ NearestFirst'
  BY <1>1, <1>2 DEF IInv, TypeOK, AllAlong, Hydrated, Exact, NearestFirst
<1>4. InWindow'
  <2>1. \A i \in B, j \in rest \ B : Dist[i] <= Dist[j]
    BY <1>1 DEF Nearest
  <2>2. \A i \in window' \ rest', j \in rest' : Dist[i] <= Dist[j]
    BY <1>1, <1>2, <2>1 DEF IInv, InWindow
  <2> QED
    BY <1>1, <1>2, <2>2 DEF IInv, InWindow, AllAlong
<1>5. AtRest'
  BY <1>1, <1>2 DEF IInv, AtRest, InWindow, Nearest
<1> QED
  BY <1>3, <1>4, <1>5 DEF IInv

(* Whatever is cut off at the end lies behind every hit. *)
LEMMA FinishStep ==
    ASSUME IInv, pc = "judge", Finish, total' \in {total, Counted},
           UNCHANGED <<table, limit, window, rest, out>>,
           Cardinality(out) >= limit \/ Cardinality(window) < k \/ k >= Counted
    PROVE  IInv'
<1>1. /\ result' \subseteq out /\ Nearest(result', out, limit)
      /\ pc' = "done" /\ k' = k
  BY DEF Finish
<1>2. Counted \in Nat /\ (total >= 0 => Counted = total)
  BY SubsetsAreFinite DEF Counted, IInv, TypeOK
<1>3. TypeOK' /\ AllAlong' /\ InWindow' /\ Hydrated'
  BY <1>1, <1>2 DEF IInv, TypeOK, AllAlong, InWindow, Hydrated
<1>4. AtRest'
  BY <1>1, <1>2, SubsetsAreFinite DEF IInv, TypeOK, AtRest, Counted
<1>5. \A i \in result', j \in throughout \ result' : Dist[i] <= Dist[j]
  BY <1>1 DEF IInv, InWindow, TypeOK, Nearest
<1>6. NearestFirst'
  BY <1>1, <1>5 DEF NearestFirst
<1>7. ASSUME ~disturbed
      PROVE  Nearest(result', index \cap visible, limit)
  <2>1. throughout = index \cap visible /\ result' \subseteq index \cap visible
    BY <1>1, <1>7 DEF IInv, AllAlong, AtRest
  <2>2. CASE Cardinality(out) >= limit
    <3>1. Cardinality(result') = limit
      BY <1>1, <2>2, SubsetsAreFinite DEF Nearest, IInv, TypeOK
    <3> QED
      BY <1>5, <2>1, <3>1 DEF Nearest
  <2>3. CASE ~(Cardinality(out) >= limit)
    <3>1. rest = {}
      BY <2>3 DEF IInv, Hydrated
    <3>2. k >= Counted => Cardinality(index) <= k
      BY <1>7, SubsetsAreFinite DEF IInv, TypeOK, AtRest, Counted
    <3>3. window = index
      BY <1>7, <2>3, <3>2, ShortWindowIsAll DEF IInv, TypeOK, AtRest
    <3>4. out = index \cap visible
      BY <1>7, <2>1, <3>1, <3>3 DEF IInv, InWindow, AtRest
    <3> QED
      BY <1>1, <3>4
  <2> QED
    BY <2>2, <2>3
<1>8. Exact'
  BY <1>7 DEF Exact
<1> QED
  BY <1>3, <1>4, <1>6, <1>8 DEF IInv

LEMMA WidenStep ==
    ASSUME IInv, pc = "judge", Widen, total' = Counted,
           UNCHANGED <<table, limit, window, rest, out>>
    PROVE  IInv'
<1>1. Counted \in Nat
  BY SubsetsAreFinite DEF Counted, IInv, TypeOK
<1>2. k' \in Nat /\ pc' = "knn" /\ result' = result
  BY <1>1 DEF Widen, IInv, TypeOK
<1>3. TypeOK' /\ AllAlong' /\ InWindow' /\ Hydrated' /\ Exact' /\ NearestFirst'
  BY <1>1, <1>2 DEF IInv, TypeOK, AllAlong, InWindow, Hydrated, Exact, NearestFirst
<1>4. AtRest'
  BY <1>2, SubsetsAreFinite DEF IInv, TypeOK, AtRest, Counted
<1> QED
  BY <1>3, <1>4 DEF IInv

LEMMA OtherStep == IInv /\ OtherWrites => IInv'
<1> SUFFICES ASSUME IInv, OtherWrites PROVE IInv'
  OBVIOUS
<1>1. /\ disturbed' /\ pc # "done" /\ throughout' = throughout \cap index' \cap visible'
      /\ UNCHANGED <<limit, k, total, window, rest, out, result, pc>>
      /\ index' \subseteq Ids /\ visible' \subseteq Ids
  BY DEF OtherWrites, Toggle, IInv, TypeOK
<1>2. TypeOK' /\ AllAlong' /\ AtRest'
  BY <1>1 DEF IInv, TypeOK, AllAlong, AtRest
<1>3. InWindow'
  BY <1>1 DEF IInv, InWindow
<1>4. Hydrated' /\ Exact' /\ NearestFirst'
  BY <1>1 DEF IInv, Hydrated, Exact, NearestFirst
<1> QED
  BY <1>2, <1>3, <1>4 DEF IInv

LEMMA NextIInv == IInv /\ [Next]_vars => IInv'
<1> SUFFICES ASSUME IInv, [Next]_vars PROVE IInv'
  OBVIOUS
<1>1. ASSUME Judge PROVE IInv'
  <2>1. CASE Cardinality(out) >= limit \/ Cardinality(window) < k
    BY <1>1, <2>1, FinishStep DEF Judge
  <2>2. CASE ~(Cardinality(out) >= limit \/ Cardinality(window) < k) /\ k >= Counted
    BY <1>1, <2>2, FinishStep DEF Judge
  <2>3. CASE ~(Cardinality(out) >= limit \/ Cardinality(window) < k) /\ ~(k >= Counted)
    BY <1>1, <2>3, WidenStep DEF Judge
  <2> QED
    BY <2>1, <2>2, <2>3
<1>2. CASE UNCHANGED vars
  BY <1>2 DEF vars, IInv, TypeOK, AllAlong, InWindow, AtRest, Hydrated, Exact,
              NearestFirst, Nearest
<1> QED
  BY <1>1, <1>2, KnnStep, HydrateStep, OtherStep DEF Next, Search

-----------------------------------------------------------------------------
LEMMA InductiveInvariant == Spec => []IInv
BY InitIInv, NextIInv, PTL DEF Spec

(***************************************************************************)
(* Alone on the file, a search returns exactly the nearest matching rows,  *)
(* however the matching rows are spread over the table.                    *)
(***************************************************************************)
THEOREM SearchIsExact == Spec => []Exact
<1>1. IInv => Exact
  BY DEF IInv
<1> QED
  BY <1>1, InductiveInvariant, PTL

(***************************************************************************)
(* Beside other writers, no hit is farther than a matching row that was    *)
(* there all along and is missing from the hits.                           *)
(***************************************************************************)
THEOREM SearchIsRanked == Spec => []NearestFirst
<1>1. IInv => NearestFirst
  BY DEF IInv
<1> QED
  BY <1>1, InductiveInvariant, PTL

-----------------------------------------------------------------------------
HIDE DEF table
USE DimsAssumption, BoundAssumption

-----------------------------------------------------------------------------
(* The gate of the store, whoever opens it.                                *)

(* One process passes the check.                                           *)
LEMMA GateChecks ==
    ASSUME TypeOKStore, GateHolds, NEW p \in Procs, CheckVersion(p)
    PROVE  TypeOKStore' /\ GateHolds'
BY VersionAssumption DEF TypeOKStore, GateHolds, CheckVersion

(* One process stamps: if nobody it overtakes stands behind its check, the *)
(* highest version ever stamped is its own.                                *)
LEMMA GateStamps ==
    ASSUME TypeOKStore, GateHolds, NEW p \in Procs, Stamp(p)
    PROVE  TypeOKStore' /\ GateHolds'
<1>1. Version[p] \in Nat /\ newest \in Nat /\ newest' \in Nat
    BY VersionAssumption DEF TypeOKStore, Stamp
<1>2. TypeOKStore'
    BY VersionAssumption DEF TypeOKStore, Stamp
<1>3. ASSUME ~overtaken'
      PROVE  /\ stored' = newest'
             /\ \A q \in Procs : handle'[q] = "checked" => newest' <= Version[q]
    <2>1. newest <= Version[p]
        BY <1>3 DEF Stamp, GateHolds
    <2>2. newest' = Version[p] /\ stored' = Version[p]
        BY <1>1, <2>1 DEF Stamp
    <2>3. ASSUME NEW q \in Procs, handle'[q] = "checked"
          PROVE  Version[p] <= Version[q]
        <3>1. handle[q] = "checked"
            BY <2>3 DEF Stamp, TypeOKStore
        <3>2. ~(Version[q] < Version[p])
            BY <1>3, <3>1 DEF Stamp
        <3>3. Version[q] \in Nat
            BY VersionAssumption
        <3> QED
            BY <1>1, <3>2, <3>3
    <2> QED
        BY <2>2, <2>3
<1> QED
    BY <1>2, <1>3 DEF GateHolds

LEMMA GateCloses ==
    ASSUME TypeOKStore, GateHolds, NEW p \in Procs, Close(p)
    PROVE  TypeOKStore' /\ GateHolds'
BY DEF TypeOKStore, GateHolds, Close

(* Only Admit and Exit are steps of the gate.                              *)
LEMMA NextGate ==
    ASSUME TypeOKStore, GateHolds, [NextDim]_varsDim
    PROVE  TypeOKStore' /\ GateHolds'
<1>1. CASE UNCHANGED store
    BY <1>1 DEF store, TypeOKStore, GateHolds
<1>2. ASSUME NEW p \in Procs, Admit(p) \/ Exit(p)
      PROVE  TypeOKStore' /\ GateHolds'
    BY <1>2, GateChecks, GateStamps, GateCloses DEF Admit, Exit
<1> QED
    BY <1>1, <1>2 DEF NextDim, varsDim

LEMMA InitGate == InitDim => TypeOKStore /\ GateHolds
BY DEF InitDim, InitStore, TypeOKStore, GateHolds

-----------------------------------------------------------------------------
(***************************************************************************)
(* Without a stale handle: before the pin nobody knows of a dimension, and *)
(* there is no table and no vector; after it every open handle knows the   *)
(* pinned one, and so does the table.                                      *)
(***************************************************************************)
Agreed ==
    ~stale =>
      /\ \A p \in Procs : proc[p].stage # "closed" => proc[p].dim = meta
      /\ vec0 \in {0, meta}
      /\ meta = 0 => vecs = {}

(* Only a handle with a dimension gets to create tables or write vectors. *)
Writing ==
    \A p \in Procs :
      /\ proc[p].stage # "closed" => proc[p].provider # 0
      /\ proc[p].stage \in {"create", "insert"} => proc[p].dim # 0

IInvDim == TypeOKDim /\ Agreed /\ Writing

LEMMA InitIInvDim == InitDim => IInvDim
<1> SUFFICES ASSUME InitDim PROVE IInvDim
  OBVIOUS
<1>1. stale \in BOOLEAN
  BY Zenon DEF InitDim
<1>2. proc \in [Procs -> Process] /\ \A p \in Procs : proc[p].stage = "closed"
  BY Zenon DEF InitDim, Closed, Process
<1>3. meta = 0 /\ vec0 = 0 /\ rows = {} /\ vecs = {} /\ nextId = 1
  BY DEF InitDim
<1>4. TypeOKDim
  BY <1>1, <1>2, <1>3 DEF TypeOKDim, RowIds
<1> QED
  BY <1>2, <1>3, <1>4 DEF IInvDim, Agreed, Writing

(* A step of one process, and what it leaves of its record. *)
LEMMA ToKeepsOthers ==
    ASSUME TypeOKDim, NEW p \in Procs, NEW r \in Process, To(p, r)
    PROVE  /\ proc' \in [Procs -> Process] /\ proc'[p] = r
           /\ \A q \in Procs \ {p} : proc'[q] = proc[q]
BY DEF TypeOKDim, To

LEMMA FieldTypes ==
    ASSUME TypeOKDim, NEW p \in Procs
    PROVE  /\ proc[p] \in Process
           /\ proc[p].stage \in {"closed", "opening", "idle", "embed", "create", "insert"}
           /\ proc[p].dim \in Dims \cup {0} /\ proc[p].provider \in Dims \cup {0}
           /\ proc[p].ids \subseteq RowIds /\ proc[p].swap \in BOOLEAN
<1>1. proc[p] \in Process
  BY DEF TypeOKDim
<1> QED
  BY <1>1, Zenon DEF Process

(***************************************************************************)
(* Every step but a pin is a step of one process p: it keeps the pin, and  *)
(* its handle's dimension unless it opens or closes.                       *)
(***************************************************************************)
LEMMA QuietStep ==
    ASSUME IInvDim, NEW p \in Procs, NEW r \in Process, To(p, r),
           UNCHANGED <<meta, stale>>,
           vec0' = vec0 \/ (vec0 = 0 /\ vec0' = proc[p].dim /\ proc[p].stage # "closed"),
           rows' \subseteq RowIds, vecs' \subseteq RowIds, nextId' \in 1..(MaxId + 1),
           r.stage # "closed" =>
              r.dim = meta \/ (proc[p].stage # "closed" /\ r.dim = proc[p].dim),
           r.stage # "closed" => r.provider # 0,
           r.stage \in {"create", "insert"} => r.dim # 0,
           vecs' \subseteq vecs \/ (proc[p].stage # "closed" /\ proc[p].dim # 0)
    PROVE  IInvDim'
<1>1. /\ proc' \in [Procs -> Process] /\ proc'[p] = r
      /\ \A q \in Procs \ {p} : proc'[q] = proc[q]
  BY ToKeepsOthers DEF IInvDim
<1>2. proc[p].dim \in Dims \cup {0}
  BY FieldTypes DEF IInvDim
<1>3. TypeOKDim'
  <2>1. vec0' \in Dims \cup {0}
    BY <1>2 DEF IInvDim, TypeOKDim
  <2> QED
    BY <1>1, <2>1 DEF IInvDim, TypeOKDim
<1>4. Agreed'
  <2> SUFFICES ASSUME ~stale
               PROVE  /\ \A q \in Procs : proc'[q].stage # "closed" => proc'[q].dim = meta
                      /\ vec0' \in {0, meta}
                      /\ meta = 0 => vecs' = {}
    BY DEF Agreed
  <2>1. /\ \A q \in Procs : proc[q].stage # "closed" => proc[q].dim = meta
        /\ vec0 \in {0, meta} /\ (meta = 0 => vecs = {})
    BY DEF IInvDim, Agreed
  <2> QED
    BY <1>1, <2>1
<1>5. Writing'
  BY <1>1 DEF IInvDim, Writing
<1> QED
  BY <1>3, <1>4, <1>5 DEF IInvDim

LEMMA PinStep == ASSUME IInvDim, NEW p \in Procs, Pin(p) PROVE IInvDim'
<1> DEFINE r == [proc[p] EXCEPT !.stage = "create", !.dim = proc[p].provider]
<1>1. /\ proc[p].stage = "embed" /\ proc[p].dim = 0 /\ meta' = proc[p].provider
      /\ To(p, r) /\ UNCHANGED <<vec0, rows, vecs, nextId>>
      /\ stale' = (stale \/ Unaware(p))
  BY DEF Pin
<1>2. proc[p].provider \in Dims \cup {0}
  BY FieldTypes DEF IInvDim
<1>3. /\ r \in Process /\ r.stage = "create" /\ r.dim = proc[p].provider
      /\ r.provider = proc[p].provider
  BY FieldTypes DEF IInvDim, Process
<1> HIDE DEF r
<1>4. /\ proc' \in [Procs -> Process] /\ proc'[p] = r
      /\ \A q \in Procs \ {p} : proc'[q] = proc[q]
  BY <1>1, <1>3, ToKeepsOthers DEF IInvDim
<1>5. TypeOKDim'
  <2>1. stale' \in BOOLEAN
    BY <1>1, Zenon DEF IInvDim, TypeOKDim
  <2> QED
    BY <1>1, <1>2, <1>4, <2>1 DEF IInvDim, TypeOKDim
<1>6. Agreed'
  <2> SUFFICES ASSUME ~stale, ~Unaware(p)
               PROVE  /\ \A q \in Procs : proc'[q].stage # "closed" => proc'[q].dim = meta'
                      /\ vec0' \in {0, meta'}
                      /\ meta' = 0 => vecs' = {}
    BY <1>1 DEF Agreed
  <2>1. /\ \A q \in Procs : proc[q].stage # "closed" => proc[q].dim = meta
        /\ vec0 \in {0, meta} /\ (meta = 0 => vecs = {})
    BY DEF IInvDim, Agreed
  <2>2. meta = 0 /\ \A q \in Procs \ {p} : proc[q].stage = "closed"
    BY <1>1, <2>1 DEF Unaware
  <2> QED
    BY <1>1, <1>3, <1>4, <2>1, <2>2
<1>7. Writing'
  BY <1>1, <1>3, <1>4 DEF IInvDim, Writing
<1> QED
  BY <1>5, <1>6, <1>7 DEF IInvDim

LEMMA NextIInvDim == IInvDim /\ [NextDim]_varsDim => IInvDim'
<1> SUFFICES ASSUME IInvDim, [NextDim]_varsDim PROVE IInvDim'
  OBVIOUS
<1>1. CASE UNCHANGED varsDim
  BY <1>1 DEF varsDim, dims, IInvDim, TypeOKDim, Agreed, Writing
<1>2. ASSUME NEW p \in Procs PROVE
        /\ \A d \in Dims : Open(p, d) => IInvDim'
        /\ EnsureOnOpen(p) \/ Exit(p) \/ Admit(p) => IInvDim'
  <2>1. ASSUME NEW d \in Dims, Open(p, d) PROVE IInvDim'
    <3> DEFINE r == [Closed EXCEPT !.stage = "opening", !.dim = meta, !.provider = d]
    <3>1. r \in Process /\ r.stage = "opening" /\ r.dim = meta /\ r.provider = d
      BY DEF IInvDim, TypeOKDim, Closed, Process
    <3>2. To(p, r) /\ UNCHANGED <<meta, vec0, rows, vecs, nextId, stale>>
      BY <2>1 DEF Open
    <3> HIDE DEF r
    <3> QED
      BY <3>1, <3>2, QuietStep DEF IInvDim, TypeOKDim
  <2>2. ASSUME EnsureOnOpen(p) PROVE IInvDim'
    <3> DEFINE r == [proc[p] EXCEPT !.stage = "idle"]
    <3>1. /\ r \in Process /\ r.stage = "idle" /\ r.dim = proc[p].dim
          /\ r.provider = proc[p].provider
      BY FieldTypes DEF IInvDim, Process
    <3>2. /\ To(p, r) /\ UNCHANGED <<meta, rows, vecs, nextId, stale>>
          /\ proc[p].stage = "opening" /\ vec0' = CreateIfMissing(proc[p].dim)
      BY <2>2 DEF EnsureOnOpen, Go
    <3> HIDE DEF r
    <3> QED
      BY <3>1, <3>2, QuietStep DEF IInvDim, TypeOKDim, CreateIfMissing, Writing
  <2>3. ASSUME Exit(p) PROVE IInvDim'
    <3>1. Closed \in Process /\ Closed.stage = "closed"
      BY DEF Closed, Process
    <3>2. To(p, Closed) /\ UNCHANGED <<meta, vec0, rows, vecs, nextId, stale>>
      BY <2>3 DEF Exit
    <3> QED
      BY <3>1, <3>2, QuietStep DEF IInvDim, TypeOKDim
  <2>4. ASSUME Admit(p) PROVE IInvDim'
    BY <2>4 DEF Admit, dims, IInvDim, TypeOKDim, Agreed, Writing
  <2> QED
    BY <2>1, <2>2, <2>3, <2>4
<1>3. ASSUME NEW p \in Procs PROVE
        Insert(p) \/ Reindex(p) \/ CreateTables(p) \/ Accept(p) => IInvDim'
  <2>1. ASSUME Insert(p) PROVE IInvDim'
    <3> DEFINE r == [proc[p] EXCEPT !.stage = "embed", !.ids = {nextId}]
    <3>1. nextId \in RowIds
      BY <2>1 DEF Insert
    <3>2. /\ r \in Process /\ r.stage = "embed" /\ r.dim = proc[p].dim
          /\ r.provider = proc[p].provider
      BY <3>1, FieldTypes DEF IInvDim, Process
    <3>3. /\ To(p, r) /\ UNCHANGED <<meta, vec0, vecs, stale>> /\ proc[p].stage = "idle"
          /\ rows' = rows \cup {nextId} /\ nextId' = nextId + 1
      BY <2>1 DEF Insert
    <3> HIDE DEF r
    <3> QED
      BY <3>1, <3>2, <3>3, QuietStep DEF IInvDim, TypeOKDim, Writing, RowIds
  <2>2. ASSUME Reindex(p) PROVE IInvDim'
    <3> DEFINE r == [proc[p] EXCEPT !.stage = "embed", !.ids = rows, !.swap = TRUE]
    <3>1. /\ r \in Process /\ r.stage = "embed" /\ r.dim = proc[p].dim
          /\ r.provider = proc[p].provider
      BY FieldTypes DEF IInvDim, TypeOKDim, Process
    <3>2. /\ To(p, r) /\ UNCHANGED <<meta, vec0, rows, vecs, nextId, stale>>
          /\ proc[p].stage = "idle"
      BY <2>2 DEF Reindex
    <3> HIDE DEF r
    <3> QED
      BY <3>1, <3>2, QuietStep DEF IInvDim, TypeOKDim, Writing
  <2>3. ASSUME CreateTables(p) PROVE IInvDim'
    <3> DEFINE r == [proc[p] EXCEPT !.stage = "insert"]
    <3>1. /\ r \in Process /\ r.stage = "insert" /\ r.dim = proc[p].dim
          /\ r.provider = proc[p].provider
      BY FieldTypes DEF IInvDim, Process
    <3>2. /\ To(p, r) /\ UNCHANGED <<meta, rows, vecs, nextId, stale>>
          /\ proc[p].stage = "create" /\ vec0' = CreateIfMissing(proc[p].dim)
      BY <2>3 DEF CreateTables, Go
    <3> HIDE DEF r
    <3> QED
      BY <3>1, <3>2, QuietStep DEF IInvDim, TypeOKDim, CreateIfMissing, Writing
  <2>4. ASSUME Accept(p) PROVE IInvDim'
    <3> DEFINE r == [proc[p] EXCEPT !.stage = "insert"]
    <3>1. /\ r \in Process /\ r.stage = "insert" /\ r.dim = proc[p].dim
          /\ r.provider = proc[p].provider
      BY FieldTypes DEF IInvDim, Process
    <3>2. /\ To(p, r) /\ UNCHANGED <<meta, vec0, rows, vecs, nextId, stale>>
          /\ proc[p].stage = "embed" /\ proc[p].dim = proc[p].provider
      BY <2>4 DEF Accept, Go
    <3> HIDE DEF r
    <3> QED
      BY <3>1, <3>2, QuietStep DEF IInvDim, TypeOKDim, Writing
  <2> QED
    BY <2>1, <2>2, <2>3, <2>4
<1>4. ASSUME NEW p \in Procs PROVE
        /\ EmbedFails(p) \/ Reject(p) \/ WriteVectors(p) \/ ReindexNothing(p) => IInvDim'
        /\ \A i \in RowIds : Forget(p, i) => IInvDim'
  <2> DEFINE r == [proc[p] EXCEPT !.stage = "idle", !.ids = {}, !.swap = FALSE]
  <2>1. /\ r \in Process /\ r.stage = "idle" /\ r.dim = proc[p].dim
        /\ r.provider = proc[p].provider
    BY FieldTypes DEF IInvDim, Process
  <2>2. Return(p) => To(p, r)
    BY DEF Return
  <2> HIDE DEF r
  <2>3. ASSUME EmbedFails(p) \/ Reject(p) PROVE IInvDim'
    <3>1. /\ Return(p) /\ UNCHANGED <<meta, vec0, rows, vecs, nextId, stale>>
          /\ proc[p].stage = "embed"
      BY <2>3 DEF EmbedFails, Reject
    <3> QED
      BY <2>1, <2>2, <3>1, QuietStep DEF IInvDim, TypeOKDim, Writing
  <2>4. ASSUME WriteVectors(p) PROVE IInvDim'
    <3>1. /\ Return(p) /\ UNCHANGED <<meta, vec0, rows, nextId, stale>>
          /\ proc[p].stage = "insert"
          /\ vecs' = vecs \/ vecs' = proc[p].ids \/ vecs' = vecs \cup proc[p].ids
      BY <2>4 DEF WriteVectors
    <3>2. vecs' \subseteq RowIds /\ proc[p].dim # 0
      BY <3>1, FieldTypes DEF IInvDim, TypeOKDim, Writing
    <3> QED
      BY <2>1, <2>2, <3>1, <3>2, QuietStep DEF IInvDim, TypeOKDim, Writing
  <2>5. ASSUME ReindexNothing(p) \/ \E i \in RowIds : Forget(p, i) PROVE IInvDim'
    <3>1. /\ UNCHANGED <<meta, vec0, nextId, proc, stale>>
          /\ rows' \subseteq rows /\ vecs' \subseteq vecs
      BY <2>5 DEF ReindexNothing, Forget
    <3> QED
      BY <3>1 DEF IInvDim, TypeOKDim, Agreed, Writing
  <2> QED
    BY <2>3, <2>4, <2>5
<1> QED
  BY <1>1, <1>2, <1>3, <1>4, PinStep DEF NextDim, Work

LEMMA InvarianceDim == SpecDim => []IInvDim
BY InitIInvDim, NextIInvDim, PTL DEF SpecDim

-----------------------------------------------------------------------------
(* The state of gate and vectors is well typed, for any processes,         *)
(* releases and providers (openDb, vectorIndex.ts).                        *)
THEOREM DimensionTyped == SpecDim => [](TypeOKStore /\ TypeOKDim)
<1>1. IInvDim => TypeOKDim
  BY DEF IInvDim
<1>2. TypeOKStore /\ GateHolds /\ [NextDim]_varsDim => (TypeOKStore /\ GateHolds)'
  BY NextGate
<1> QED
  BY <1>1, <1>2, InitGate, InvarianceDim, PTL DEF SpecDim

(***************************************************************************)
(* The stamp of a store never goes back, and no older release gets past    *)
(* the gate of a newer store, for any processes and releases, unless the   *)
(* newer one stamped while an older one stood between check and stamp.     *)
(* Handles that are open already are not spoken of (openDb).               *)
(***************************************************************************)
THEOREM NewerStoresAreLeft == SpecDim => []GateHolds
<1>1. TypeOKStore /\ GateHolds /\ [NextDim]_varsDim => (TypeOKStore /\ GateHolds)'
  BY NextGate
<1> QED
  BY <1>1, InitGate, PTL DEF SpecDim

(* Pin and tables agree, whoever dies between the two. *)
THEOREM PinAndTablesAgree == SpecDim => []TablesMatchPin
<1>1. IInvDim => TablesMatchPin
  BY DEF IInvDim, Agreed, TablesMatchPin
<1> QED
  BY <1>1, InvarianceDim, PTL

(***************************************************************************)
(* Once pinned, the dimension stays: of all steps only Pin writes it, and  *)
(* the handle of a pinning process knows no dimension, so none is pinned.  *)
(***************************************************************************)
THEOREM PinIsPermanent == SpecDim => DimensionPinned
<1>1. IInvDim /\ [NextDim]_varsDim => [meta # 0 /\ ~stale => meta' = meta]_varsDim
  <2> SUFFICES ASSUME IInvDim, NextDim, meta # 0, ~stale PROVE meta' = meta
    BY DEF varsDim
  <2>1. ASSUME NEW p \in Procs PROVE ~Pin(p)
    BY DEF Pin, IInvDim, Agreed
  <2> QED
    BY <2>1 DEF NextDim, Work, Admit, dims, Open, EnsureOnOpen, Exit, Insert, Reindex, ReindexNothing,
                EmbedFails, CreateTables, Reject, Accept, WriteVectors, Forget
<1> QED
  BY <1>1, InvarianceDim, PTL DEF SpecDim, DimensionPinned

(***************************************************************************)
(* A forgotten row leaves no vector: a handle that knows no dimension has  *)
(* opened a store in which there is no vector yet.                         *)
(***************************************************************************)
THEOREM ForgetLeavesNoVector == SpecDim => ForgetUnindexes
<1>1. IInvDim /\ [NextDim]_varsDim
        => [\A p \in Procs, i \in RowIds : ~stale /\ Forget(p, i) => i \notin vecs']_varsDim
  <2> SUFFICES ASSUME IInvDim, NEW p \in Procs, NEW i \in RowIds, ~stale, Forget(p, i)
               PROVE  i \notin vecs'
    BY DEF varsDim
  <2> QED
    BY DEF Forget, IInvDim, Agreed
<1> QED
  BY <1>1, InvarianceDim, PTL DEF SpecDim, ForgetUnindexes
=============================================================================
