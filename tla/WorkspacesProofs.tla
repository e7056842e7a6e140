---------------------------- MODULE WorkspacesProofs ----------------------------
(***************************************************************************)
(* Proofs about module Workspaces, for any number of users, any names and  *)
(* titles, any grants of the session and any bounds.                       *)
(***************************************************************************)
EXTENDS Workspaces, FiniteSetTheorems, TLAPS

USE BoundAssumption, ScopeAssumption, CallerAssumption, NoneAssumption
    DEF ScopeIds, WsIds, Callers

(* Ids are handed out once: what lies ahead of the counters is unused.     *)
FreshIds ==
    /\ \A s \in ScopeIds : scopes[s] # None => s < nextScope
    /\ \A w \in WsIds : Live(w) => w < nextWs

(***************************************************************************)
(* The scope of a workspace is a foreign key, and it is still the one the  *)
(* workspace began under: scopes have no way back to an id they had.       *)
(***************************************************************************)
KeysOK ==
    \A w \in WsIds : Live(w) /\ ws[w].scope # None =>
        /\ scopes[ws[w].scope] # None
        /\ scopes[ws[w].scope] = born[w]

(***************************************************************************)
(* What a caller holds between its statements, and that an item of the     *)
(* session is on its way to a workspace that began under a granted scope.  *)
(***************************************************************************)
Holds(p, c) ==
    /\ c.stage = "insert" => c.name \in Titles /\ c.scope \in ScopeIds
    /\ c.stage \in {"use", "add"} => c.ws \in WsIds /\ c.ws < nextWs
    /\ p = Tool /\ c.stage = "add" => born[c.ws] \in Grants

CallersOK == \A p \in Callers : Holds(p, caller[p])

(* The workspaces with the flag are one at most.                           *)
AtMostOne == \A v, w \in Active : v = w

(* Items lie in workspaces that have been there.                           *)
ItemsFiled == \A i \in items : i.ws < nextWs

IInv == /\ TypeOK /\ FreshIds /\ KeysOK /\ CallersOK
        /\ AtMostOne /\ ItemsFiled /\ ItemsConfined

-----------------------------------------------------------------------------
LEMMA InitIInv == Init => IInv
<1> SUFFICES ASSUME Init PROVE IInv
  OBVIOUS
<1>1. TypeOK
  BY DEF Init, TypeOK, Caller, Idle
<1>2. \A w \in WsIds : ~Live(w)
  BY DEF Init, Live
<1>3. FreshIds
  BY <1>2 DEF Init, FreshIds
<1>4. KeysOK /\ AtMostOne /\ ItemsFiled /\ ItemsConfined
  BY <1>2 DEF Init, KeysOK, AtMostOne, Active, ItemsFiled, ItemsConfined
<1>5. CallersOK
  BY DEF Init, CallersOK, Holds, Idle
<1> QED
  BY <1>1, <1>3, <1>4, <1>5 DEF IInv

(* What the types say of the parts of the state.                           *)
LEMMA Typed ==
    ASSUME TypeOK
    PROVE  /\ nextScope \in Nat /\ nextWs \in Nat
           /\ \A s \in ScopeIds : scopes[s] \in Names \cup {None}
           /\ \A w \in WsIds : /\ born[w] \in Names \cup {None}
                               /\ ws[w] \in Workspace \cup {None}
           /\ \A w \in WsIds : Live(w) => /\ ws[w] \in Workspace
                                          /\ ws[w].name \in Titles
                                          /\ ws[w].active \in BOOLEAN
                                          /\ ws[w].scope \in ScopeIds \cup {None}
           /\ \A p \in Callers : /\ caller[p] \in Caller
                                 /\ caller[p].stage \in {"idle", "insert", "use", "add"}
                                 /\ caller[p].ws \in WsIds \cup {None}
           /\ \A i \in items : i.ws \in WsIds
<1>1. nextScope \in Nat /\ nextWs \in Nat
  BY DEF TypeOK
<1>2. \A s \in ScopeIds : scopes[s] \in Names \cup {None}
  BY DEF TypeOK
<1>3. \A w \in WsIds : born[w] \in Names \cup {None} /\ ws[w] \in Workspace \cup {None}
  BY DEF TypeOK
<1>4. ASSUME NEW w \in WsIds, Live(w)
      PROVE  /\ ws[w] \in Workspace
             /\ ws[w].name \in Titles
             /\ ws[w].active \in BOOLEAN
             /\ ws[w].scope \in ScopeIds \cup {None}
  <2>1. ws[w] \in Workspace
    BY <1>3, <1>4 DEF Live
  <2> QED
    BY <2>1 DEF Workspace
<1>5. ASSUME NEW p \in Callers
      PROVE  /\ caller[p] \in Caller
             /\ caller[p].stage \in {"idle", "insert", "use", "add"}
             /\ caller[p].ws \in WsIds \cup {None}
  <2>1. caller[p] \in Caller
    BY DEF TypeOK
  <2> QED
    BY <2>1 DEF Caller
<1>6. \A i \in items : i.ws \in WsIds
  BY DEF TypeOK
<1> QED
  BY <1>1, <1>2, <1>3, <1>4, <1>5, <1>6

(***************************************************************************)
(* What a caller holds it goes on holding when others hand out ids, and so *)
(* it is when it takes something else in hand.                             *)
(***************************************************************************)
LEMMA HoldingOn ==
    ASSUME NEW p \in Callers, NEW c \in Caller, Holds(p, c), nextWs \in Nat,
           nextWs' \in Nat, nextWs' >= nextWs,
           \A w \in WsIds : w < nextWs => born'[w] = born[w]
    PROVE  Holds(p, c)'
<1>1. CASE c.stage \in {"use", "add"}
  <2>1. c.ws \in WsIds /\ c.ws < nextWs
    BY <1>1 DEF Holds
  <2>2. c.ws < nextWs' /\ born'[c.ws] = born[c.ws]
    BY <2>1
  <2> QED
    BY <1>1, <2>1, <2>2 DEF Holds
<1>2. CASE c.stage \notin {"use", "add"}
  BY <1>2 DEF Holds
<1> QED
  BY <1>1, <1>2

LEMMA CallerStep ==
    ASSUME IInv, NEW p \in Callers, NEW c \in Caller, Holds(p, c)',
           caller' = [caller EXCEPT ![p] = c], nextWs' \in Nat, nextWs' >= nextWs,
           \A w \in WsIds : w < nextWs => born'[w] = born[w]
    PROVE  caller' \in [Callers -> Caller] /\ CallersOK'
<1>1. caller' \in [Callers -> Caller]
  BY DEF IInv, TypeOK
<1>2. ASSUME NEW q \in Callers PROVE Holds(q, caller[q])'
  <2>1. CASE q = p
    <3>1. caller'[q] = c
      BY <2>1 DEF IInv, TypeOK
    <3> QED
      BY <2>1, <3>1 DEF Holds
  <2>2. CASE q # p
    <3>1. PICK d : d = caller[q]
      OBVIOUS
    <3>2. d \in Caller /\ nextWs \in Nat /\ Holds(q, d)
      BY <3>1, Typed DEF IInv, CallersOK
    <3>3. Holds(q, d)'
      BY <3>2, HoldingOn
    <3>4. caller'[q] = d
      BY <2>2, <3>1 DEF IInv, TypeOK
    <3> QED
      BY <3>3, <3>4 DEF Holds
  <2> QED
    BY <2>1, <2>2
<1> QED
  BY <1>1, <1>2 DEF CallersOK

LEMMA IdleIsCaller == Idle \in Caller /\ \A p \in Callers : Holds(p, Idle)'
BY DEF Idle, Caller, Holds

(* Callers that neither move nor lose what they hold.                      *)
LEMMA CallersStay ==
    ASSUME IInv, UNCHANGED caller, UNCHANGED <<nextWs, born>>
    PROVE  caller' \in [Callers -> Caller] /\ CallersOK'
BY DEF IInv, TypeOK, CallersOK, Holds

-----------------------------------------------------------------------------
LEMMA StutterStep == ASSUME IInv, UNCHANGED vars PROVE IInv'
<1>1. /\ scopes' = scopes /\ ws' = ws /\ items' = items
      /\ nextScope' = nextScope /\ nextWs' = nextWs
      /\ caller' = caller /\ born' = born
  BY DEF vars
<1>2. TypeOK' /\ FreshIds' /\ CallersOK'
  BY <1>1 DEF IInv, TypeOK, FreshIds, Live, CallersOK, Holds
<1>3. KeysOK' /\ AtMostOne' /\ ItemsFiled' /\ ItemsConfined'
  BY <1>1 DEF IInv, KeysOK, AtMostOne, Active, Live, ItemsFiled, ItemsConfined
<1> QED
  BY <1>2, <1>3 DEF IInv

(* A caller takes something in hand, and the tables stay as they are.      *)
LEMMA LookupStep ==
    ASSUME IInv, UNCHANGED tables, NEW p \in Callers, NEW c \in Caller,
           Holds(p, c)', caller' = [caller EXCEPT ![p] = c]
    PROVE  IInv'
<1>1. /\ scopes' = scopes /\ ws' = ws /\ items' = items
      /\ nextScope' = nextScope /\ nextWs' = nextWs /\ born' = born
  BY DEF tables
<1>2. nextWs \in Nat /\ nextWs' \in Nat /\ nextWs' >= nextWs
  BY <1>1, Typed DEF IInv
<1>3. \A w \in WsIds : w < nextWs => born'[w] = born[w]
  BY <1>1
<1>4. caller' \in [Callers -> Caller] /\ CallersOK'
  BY <1>2, <1>3, CallerStep
<1>5. TypeOK'
  BY <1>1, <1>4 DEF IInv, TypeOK
<1>6. FreshIds'
  BY <1>1 DEF IInv, FreshIds, Live
<1>7. KeysOK' /\ AtMostOne' /\ ItemsFiled' /\ ItemsConfined'
  BY <1>1 DEF IInv, KeysOK, AtMostOne, Active, Live, ItemsFiled, ItemsConfined
<1> QED
  BY <1>4, <1>5, <1>6, <1>7 DEF IInv

LEMMA UseStep == ASSUME IInv, NEW p \in Users, NEW t \in Titles, Use(p, t) PROVE IInv'
<1>1. PICK w \in Named(t) : caller' = [caller EXCEPT ![p] =
                               [Idle EXCEPT !.stage = "use", !.name = t, !.ws = w]]
  BY DEF Use, Proceed
<1> DEFINE c == [Idle EXCEPT !.stage = "use", !.name = t, !.ws = w]
<1>2. w \in WsIds /\ Live(w) /\ w < nextWs
  BY DEF Named, IInv, FreshIds
<1>3. c \in Caller /\ c.stage = "use" /\ c.ws = w
  BY <1>2 DEF Idle, Caller
<1>4. UNCHANGED tables /\ nextWs' = nextWs /\ born' = born
  BY DEF Use, tables
<1>5. p \in Callers /\ p # Tool /\ nextWs \in Nat
  BY Typed DEF IInv
<1> HIDE DEF c
<1>6. Holds(p, c)'
  BY <1>2, <1>3, <1>4, <1>5 DEF Holds
<1>7. caller' = [caller EXCEPT ![p] = c]
  BY <1>1 DEF c
<1> QED
  BY <1>3, <1>4, <1>5, <1>6, <1>7, LookupStep

LEMMA AddItemStep ==
    ASSUME IInv, NEW p \in Users, NEW t \in Titles, AddItem(p, t) PROVE IInv'
<1>1. PICK w \in Named(t) : caller' = [caller EXCEPT ![p] =
                               [Idle EXCEPT !.stage = "add", !.ws = w]]
  BY DEF AddItem, Proceed
<1> DEFINE c == [Idle EXCEPT !.stage = "add", !.ws = w]
<1>2. w \in WsIds /\ Live(w) /\ w < nextWs
  BY DEF Named, IInv, FreshIds
<1>3. c \in Caller /\ c.stage = "add" /\ c.ws = w
  BY <1>2 DEF Idle, Caller
<1>4. UNCHANGED tables /\ nextWs' = nextWs /\ born' = born
  BY DEF AddItem, tables
<1>5. p \in Callers /\ p # Tool /\ nextWs \in Nat
  BY Typed DEF IInv
<1> HIDE DEF c
<1>6. Holds(p, c)'
  BY <1>2, <1>3, <1>4, <1>5 DEF Holds
<1>7. caller' = [caller EXCEPT ![p] = c]
  BY <1>1 DEF c
<1> QED
  BY <1>3, <1>4, <1>5, <1>6, <1>7, LookupStep

(* The check of a session reads the scope the workspace began under.       *)
LEMMA AddToWorkspaceStep ==
    ASSUME IInv, NEW given \in WsIds \cup {None}, AddToWorkspace(given) PROVE IInv'
<1>1. PICK w \in ResolveTarget(given) :
        /\ ScopeName(w) \in Grants
        /\ caller' = [caller EXCEPT ![Tool] = [Idle EXCEPT !.stage = "add", !.ws = w]]
  BY DEF AddToWorkspace, Proceed
<1> DEFINE c == [Idle EXCEPT !.stage = "add", !.ws = w]
<1>2. w \in WsIds /\ Live(w)
  BY DEF ResolveTarget, GetActive, Active, List
<1>3. w < nextWs
  BY <1>2 DEF IInv, FreshIds
<1>4. born[w] \in Grants
  <2>1. ws[w].scope # None
    BY <1>1 DEF ScopeName
  <2>2. scopes[ws[w].scope] \in Grants
    BY <1>1, <2>1 DEF ScopeName
  <2> QED
    BY <1>2, <2>1, <2>2 DEF IInv, KeysOK
<1>5. c \in Caller /\ c.stage = "add" /\ c.ws = w
  BY <1>2 DEF Idle, Caller
<1>6. UNCHANGED tables /\ nextWs' = nextWs /\ born' = born
  BY DEF AddToWorkspace, tables
<1>7. Tool \in Callers /\ nextWs \in Nat
  BY Typed DEF IInv
<1> HIDE DEF c
<1>8. Holds(Tool, c)'
  BY <1>2, <1>3, <1>4, <1>5, <1>6 DEF Holds
<1>9. caller' = [caller EXCEPT ![Tool] = c]
  BY <1>1 DEF c
<1> QED
  BY <1>5, <1>6, <1>7, <1>8, <1>9, LookupStep

LEMMA DieStep == ASSUME IInv, NEW p \in Callers, Die(p) PROVE IInv'
<1>1. UNCHANGED tables /\ nextWs' = nextWs /\ born' = born
  BY DEF Die, tables
<1>2. caller' = [caller EXCEPT ![p] = Idle] /\ nextWs \in Nat
  BY Typed DEF Die, Return, IInv
<1> QED
  BY <1>1, <1>2, IdleIsCaller, LookupStep

-----------------------------------------------------------------------------
(* The scope a create resolves may be one it has to make.                  *)
LEMMA CreateStep ==
    ASSUME IInv, NEW p \in Users, NEW t \in Titles, NEW n \in Names, Create(p, t, n)
    PROVE  IInv'
<1>1. PICK s \in ScopeIds :
        /\ ResolveScope(n, s)
        /\ caller' = [caller EXCEPT ![p] =
                        [Idle EXCEPT !.stage = "insert", !.name = t, !.scope = s]]
  BY DEF Create, Proceed
<1> DEFINE c == [Idle EXCEPT !.stage = "insert", !.name = t, !.scope = s]
<1>2. c \in Caller /\ c.stage = "insert" /\ c.name = t /\ c.scope = s
  BY DEF Idle, Caller
<1>3. ws' = ws /\ items' = items /\ nextWs' = nextWs /\ born' = born
  BY DEF Create
<1>4. caller' = [caller EXCEPT ![p] = c]
  BY <1>1 DEF c
<1> HIDE DEF c
<1>5. caller' \in [Callers -> Caller] /\ CallersOK'
  <2>1. Holds(p, c)' /\ p \in Callers
    BY <1>2 DEF Holds
  <2>2. nextWs \in Nat /\ nextWs' \in Nat /\ nextWs' >= nextWs
    BY <1>3, Typed DEF IInv
  <2>3. \A w \in WsIds : w < nextWs => born'[w] = born[w]
    BY <1>3
  <2> QED
    BY <1>2, <1>4, <2>1, <2>2, <2>3, CallerStep
<1>6. CASE UNCHANGED <<scopes, nextScope>>
  <2>1. TypeOK' /\ FreshIds'
    BY <1>3, <1>5, <1>6 DEF IInv, TypeOK, FreshIds, Live
  <2>2. KeysOK' /\ AtMostOne' /\ ItemsFiled' /\ ItemsConfined'
    BY <1>3, <1>6 DEF IInv, KeysOK, AtMostOne, Active, Live, ItemsFiled, ItemsConfined
  <2> QED
    BY <1>5, <2>1, <2>2 DEF IInv
<1>7. CASE /\ \A r \in ScopeIds : scopes[r] # n
           /\ s = nextScope
           /\ scopes' = [scopes EXCEPT ![s] = n]
           /\ nextScope' = nextScope + 1
  <2>1. nextScope \in 2..(MaxScope + 1) /\ scopes \in [ScopeIds -> Names \cup {None}]
    BY DEF IInv, TypeOK
  <2>2. scopes' \in [ScopeIds -> Names \cup {None}] /\ nextScope' \in 2..(MaxScope + 1)
    BY <1>7, <2>1
  <2>3. TypeOK'
    BY <1>3, <1>5, <2>2 DEF IInv, TypeOK
  <2>4. \A r \in ScopeIds : scopes[r] # None => r < nextScope
    BY DEF IInv, FreshIds
  <2>5. \A r \in ScopeIds : /\ scopes'[r] # None => r < nextScope'
                            /\ scopes[r] # None => scopes'[r] = scopes[r]
    <3> TAKE r \in ScopeIds
    <3>1. CASE r = s
      BY <1>7, <2>1, <2>4, <3>1
    <3>2. CASE r # s
      <4>1. scopes'[r] = scopes[r]
        BY <1>7, <2>1, <3>2
      <4> QED
        BY <1>7, <2>1, <2>4, <4>1
    <3> QED
      BY <3>1, <3>2
  <2>6. FreshIds'
    <3>1. \A r \in ScopeIds : scopes'[r] # None => r < nextScope'
      BY <2>5
    <3>2. \A w \in WsIds : Live(w)' => w < nextWs'
      BY <1>3 DEF IInv, FreshIds, Live
    <3> QED
      BY <3>1, <3>2 DEF FreshIds
  <2>7. KeysOK'
    <3>1. ASSUME NEW w \in WsIds, Live(w), ws[w].scope # None
          PROVE  /\ scopes'[ws[w].scope] # None
                 /\ scopes'[ws[w].scope] = born[w]
      <4>1. PICK r : r = ws[w].scope
        OBVIOUS
      <4>2. r \in ScopeIds
        BY <3>1, <4>1, Typed DEF IInv
      <4>3. scopes[r] # None /\ scopes[r] = born[w]
        BY <3>1, <4>1 DEF IInv, KeysOK
      <4>4. scopes'[r] = scopes[r]
        BY <2>5, <4>2, <4>3
      <4> QED
        BY <4>1, <4>3, <4>4
    <3> QED
      BY <1>3, <3>1 DEF KeysOK, Live
  <2>8. AtMostOne' /\ ItemsFiled' /\ ItemsConfined'
    BY <1>3 DEF IInv, AtMostOne, Active, Live, ItemsFiled, ItemsConfined
  <2> QED
    BY <1>5, <2>3, <2>6, <2>7, <2>8 DEF IInv
<1> QED
  BY <1>1, <1>6, <1>7 DEF ResolveScope

(* The new workspace has an id no item and no caller knows.                *)
LEMMA InsertStep == ASSUME IInv, NEW p \in Users, Insert(p) PROVE IInv'
<1> DEFINE t == caller[p].name
           s == caller[p].scope
<1>1. caller' = [caller EXCEPT ![p] = Idle] /\ p \in Callers
  BY DEF Insert, Return
<1>2. scopes' = scopes /\ items' = items /\ nextScope' = nextScope
  BY DEF Insert
<1>3. nextWs \in Nat /\ nextWs \in 1..(MaxWs + 1)
  BY DEF IInv, TypeOK
<1>4. CASE UNCHANGED <<ws, born, nextWs>>
  <2>1. UNCHANGED tables
    BY <1>2, <1>4 DEF tables
  <2> QED
    BY <1>1, <2>1, IdleIsCaller, LookupStep
<1>5. CASE /\ Named(t) = {} /\ scopes[s] # None
           /\ nextWs \in WsIds
           /\ ws' = [ws EXCEPT ![nextWs] = [name |-> t, active |-> FALSE, scope |-> s]]
           /\ born' = [born EXCEPT ![nextWs] = scopes[s]]
           /\ nextWs' = nextWs + 1
  <2>1. t \in Titles /\ s \in ScopeIds
    BY <1>1 DEF Insert, IInv, CallersOK, Holds
  <2> DEFINE y == [name |-> t, active |-> FALSE, scope |-> s]
  <2>2. y \in Workspace /\ y.scope = s /\ y.active = FALSE /\ y # None
    <3>1. y \in Workspace
      BY <2>1 DEF Workspace
    <3>2. y # None
      BY <3>1, Zenon
    <3> QED
      BY <3>1, <3>2
  <2>3. ws' = [ws EXCEPT ![nextWs] = y]
    BY <1>5
  <2> HIDE DEF y, t, s
  <2>4. \A w \in WsIds : w # nextWs => ws'[w] = ws[w] /\ born'[w] = born[w]
    BY <1>5, <2>3 DEF IInv, TypeOK
  <2>5. ws'[nextWs] = y /\ born'[nextWs] = scopes[s]
    <3>1. DOMAIN ws = WsIds /\ DOMAIN born = WsIds /\ nextWs \in WsIds
      BY <1>5 DEF IInv, TypeOK
    <3> QED
      BY <1>5, <2>3, <3>1 DEF s
  <2>6. \A w \in WsIds : w < nextWs => born'[w] = born[w]
    BY <1>3, <2>4
  <2>7. caller' \in [Callers -> Caller] /\ CallersOK'
    <3>1. nextWs' \in Nat /\ nextWs' >= nextWs
      BY <1>3, <1>5
    <3> QED
      BY <1>1, <1>3, <2>6, <3>1, IdleIsCaller, CallerStep
  <2>8. TypeOK'
    <3>1. ws' \in [WsIds -> Workspace \cup {None}]
      BY <2>2, <2>3 DEF IInv, TypeOK
    <3>2. born' \in [WsIds -> Names \cup {None}]
      BY <1>5, <2>1 DEF IInv, TypeOK
    <3>3. nextWs' \in 1..(MaxWs + 1)
      BY <1>3, <1>5
    <3> QED
      BY <1>2, <2>7, <3>1, <3>2, <3>3 DEF IInv, TypeOK
  <2>9. FreshIds'
    <3>1. \A w \in WsIds : Live(w)' => w < nextWs'
      <4> TAKE w \in WsIds
      <4>1. CASE w = nextWs
        BY <1>3, <1>5, <4>1
      <4>2. CASE w # nextWs
        <5>1. Live(w)' => w < nextWs
          BY <2>4, <4>2 DEF IInv, FreshIds, Live
        <5> QED
          BY <1>3, <1>5, <5>1
      <4> QED
        BY <4>1, <4>2
    <3> QED
      BY <1>2, <3>1 DEF IInv, FreshIds
  <2>10. KeysOK'
    <3> SUFFICES ASSUME NEW w \in WsIds, ws'[w] # None, ws'[w].scope # None
                 PROVE  /\ scopes[ws'[w].scope] # None
                        /\ scopes[ws'[w].scope] = born'[w]
      BY <1>2 DEF KeysOK, Live
    <3>1. CASE w = nextWs
      BY <1>5, <2>2, <2>5, <3>1
    <3>2. CASE w # nextWs
      BY <2>4, <3>2 DEF IInv, KeysOK, Live
    <3> QED
      BY <3>1, <3>2
  <2>11. AtMostOne'
    <3>1. ASSUME NEW w \in Active' PROVE w \in Active
      <4>1. w \in WsIds /\ ws'[w] # None /\ ws'[w].active
        BY DEF Active, Live
      <4>2. w # nextWs
        BY <2>2, <2>5, <4>1
      <4> QED
        BY <2>4, <4>1, <4>2 DEF Active, Live
    <3> QED
      BY <3>1 DEF IInv, AtMostOne
  <2>12. ItemsFiled' /\ ItemsConfined'
    <3> SUFFICES ASSUME NEW i \in items
                 PROVE  i.ws < nextWs' /\ (i.tool => born'[i.ws] \in Grants)
      BY <1>2 DEF ItemsFiled, ItemsConfined
    <3>1. i.ws \in WsIds /\ i.ws < nextWs /\ (i.tool => born[i.ws] \in Grants)
      BY Typed DEF IInv, ItemsFiled, ItemsConfined
    <3>2. i.ws < nextWs'
      BY <1>3, <1>5, <3>1
    <3> QED
      BY <2>6, <3>1, <3>2
  <2> QED
    BY <2>7, <2>8, <2>9, <2>10, <2>11, <2>12 DEF IInv
<1> QED
  BY <1>4, <1>5 DEF Insert

(***************************************************************************)
(* Rows of workspaces and of scopes that go, or change but for the scope   *)
(* they began under.                                                       *)
(***************************************************************************)
LEMMA RowsStep ==
    ASSUME IInv, nextScope' = nextScope, nextWs' = nextWs, born' = born,
           items' \subseteq items,
           ws' \in [WsIds -> Workspace \cup {None}],
           scopes' \in [ScopeIds -> Names \cup {None}],
           \A s \in ScopeIds : scopes'[s] # None => scopes[s] # None,
           \A w \in WsIds : ws'[w] # None => Live(w),
           \A w \in WsIds : ws'[w] # None /\ ws'[w].scope # None =>
              /\ ws'[w].scope = ws[w].scope
              /\ scopes'[ws[w].scope] = scopes[ws[w].scope],
           AtMostOne',
           caller' \in [Callers -> Caller], CallersOK'
    PROVE  IInv'
<1>1. TypeOK'
  BY DEF IInv, TypeOK
<1>2. FreshIds'
  BY DEF IInv, FreshIds, Live
<1>3. KeysOK'
  <2> SUFFICES ASSUME NEW w \in WsIds, ws'[w] # None, ws'[w].scope # None
               PROVE  /\ scopes'[ws'[w].scope] # None
                      /\ scopes'[ws'[w].scope] = born[w]
    BY DEF KeysOK, Live
  <2>1. /\ Live(w) /\ ws'[w].scope = ws[w].scope
        /\ scopes'[ws[w].scope] = scopes[ws[w].scope]
    OBVIOUS
  <2>2. scopes[ws[w].scope] # None /\ scopes[ws[w].scope] = born[w]
    BY <2>1 DEF IInv, KeysOK
  <2> QED
    BY <2>1, <2>2
<1>4. ItemsFiled' /\ ItemsConfined'
  BY DEF IInv, ItemsFiled, ItemsConfined
<1> QED
  BY <1>1, <1>2, <1>3, <1>4 DEF IInv

(* One transaction leaves the flag on the row it was for, or on none.      *)
LEMMA SetActiveStep == ASSUME IInv, NEW p \in Users, SetActive(p) PROVE IInv'
<1>1. /\ scopes' = scopes /\ items' = items /\ nextScope' = nextScope
      /\ nextWs' = nextWs /\ born' = born
      /\ caller' = [caller EXCEPT ![p] = Idle] /\ p \in Callers
  BY DEF SetActive, Return
<1>2. \A w \in WsIds : ~Live(w) => ws'[w] = None
  BY DEF SetActive
<1>3. ASSUME NEW w \in WsIds, Live(w)
      PROVE  /\ ws'[w] \in Workspace
             /\ ws'[w].scope = ws[w].scope
             /\ ws'[w].active = (w = caller[p].ws)
  <2>1. ws'[w] = [ws[w] EXCEPT !.active = (w = caller[p].ws)]
    BY <1>3 DEF SetActive
  <2>2. ws[w] \in Workspace
    BY <1>3, Typed DEF IInv
  <2> QED
    BY <2>1, <2>2 DEF Workspace
<1>4. ws' \in [WsIds -> Workspace \cup {None}]
  <2>1. \A w \in WsIds : ws'[w] \in Workspace \cup {None}
    BY <1>2, <1>3
  <2>2. ws' = [w \in WsIds |-> ws'[w]]
    BY DEF SetActive
  <2> QED
    BY <2>1, <2>2
<1>5. AtMostOne'
  <2>1. ASSUME NEW w \in Active' PROVE w = caller[p].ws
    <3>1. w \in WsIds /\ ws'[w] # None /\ ws'[w].active
      BY DEF Active, Live
    <3> QED
      BY <1>2, <1>3, <3>1
  <2> QED
    BY <2>1 DEF AtMostOne
<1>6. caller' \in [Callers -> Caller] /\ CallersOK'
  <2>1. /\ nextWs' \in Nat /\ nextWs' >= nextWs
        /\ \A w \in WsIds : w < nextWs => born'[w] = born[w]
    BY <1>1, Typed DEF IInv
  <2> QED
    BY <1>1, <2>1, IdleIsCaller, CallerStep
<1>7. /\ \A s \in ScopeIds : scopes'[s] # None => scopes[s] # None
      /\ scopes' \in [ScopeIds -> Names \cup {None}]
      /\ items' \subseteq items
  BY <1>1 DEF IInv, TypeOK
<1>8. /\ \A w \in WsIds : ws'[w] # None => Live(w)
      /\ \A w \in WsIds : ws'[w] # None /\ ws'[w].scope # None =>
              /\ ws'[w].scope = ws[w].scope
              /\ scopes'[ws[w].scope] = scopes[ws[w].scope]
  BY <1>1, <1>2, <1>3
<1> QED
  BY <1>1, <1>4, <1>5, <1>6, <1>7, <1>8, RowsStep

LEMMA RemoveStep == ASSUME IInv, NEW t \in Titles, Remove(t) PROVE IInv'
<1>1. /\ scopes' = scopes /\ items' \subseteq items /\ nextScope' = nextScope
      /\ nextWs' = nextWs /\ born' = born /\ caller' = caller
  BY DEF Remove
<1>2. \A w \in WsIds : ws'[w] # None => ws'[w] = ws[w] /\ Live(w)
  BY DEF Remove, Live
<1>3. ws' \in [WsIds -> Workspace \cup {None}]
  BY DEF Remove, IInv, TypeOK
<1>4. AtMostOne'
  <2>1. ASSUME NEW w \in Active' PROVE w \in Active
    BY <1>2 DEF Active, Live
  <2> QED
    BY <2>1 DEF IInv, AtMostOne
<1>5. caller' \in [Callers -> Caller] /\ CallersOK'
  BY <1>1, CallersStay
<1>6. /\ \A s \in ScopeIds : scopes'[s] # None => scopes[s] # None
      /\ scopes' \in [ScopeIds -> Names \cup {None}]
  BY <1>1 DEF IInv, TypeOK
<1>7. /\ \A w \in WsIds : ws'[w] # None => Live(w)
      /\ \A w \in WsIds : ws'[w] # None /\ ws'[w].scope # None =>
              /\ ws'[w].scope = ws[w].scope
              /\ scopes'[ws[w].scope] = scopes[ws[w].scope]
  BY <1>1, <1>2
<1> QED
  BY <1>1, <1>3, <1>4, <1>5, <1>6, <1>7, RowsStep

(* Whoever knew the scope by its id forgets it in the same statement.      *)
LEMMA RemoveScopeStep == ASSUME IInv, NEW s \in ScopeIds, RemoveScope(s) PROVE IInv'
<1>1. /\ items' \subseteq items /\ nextScope' = nextScope
      /\ nextWs' = nextWs /\ born' = born /\ caller' = caller
  BY DEF RemoveScope
<1>2. /\ scopes' \in [ScopeIds -> Names \cup {None}]
      /\ \A r \in ScopeIds : scopes'[r] # None => scopes[r] # None
      /\ \A r \in ScopeIds : r # s => scopes'[r] = scopes[r]
  BY DEF RemoveScope, IInv, TypeOK
<1>3. ASSUME NEW w \in WsIds
      PROVE  /\ ws'[w] \in Workspace \cup {None}
             /\ ws'[w] # None => Live(w) /\ ws'[w].active = ws[w].active
             /\ ws'[w] # None /\ ws'[w].scope # None =>
                    ws'[w].scope = ws[w].scope /\ ws[w].scope # s
  <2>1. CASE Live(w) /\ ws[w].scope = s
    <3>1. ws'[w] = [ws[w] EXCEPT !.scope = None]
      BY <2>1 DEF RemoveScope
    <3>2. ws[w] \in Workspace
      BY <2>1, Typed DEF IInv
    <3> QED
      BY <2>1, <3>1, <3>2 DEF Workspace
  <2>2. CASE ~(Live(w) /\ ws[w].scope = s)
    <3>1. ws'[w] = ws[w]
      BY <2>2 DEF RemoveScope
    <3> QED
      BY <2>2, <3>1, Typed DEF IInv, Live
  <2> QED
    BY <2>1, <2>2
<1>4. ws' \in [WsIds -> Workspace \cup {None}]
  <2>1. ws' = [w \in WsIds |-> ws'[w]]
    BY DEF RemoveScope
  <2> QED
    BY <1>3, <2>1
<1>5. AtMostOne'
  <2>1. ASSUME NEW w \in Active' PROVE w \in Active
    BY <1>3 DEF Active, Live
  <2> QED
    BY <2>1 DEF IInv, AtMostOne
<1>6. caller' \in [Callers -> Caller] /\ CallersOK'
  BY <1>1, CallersStay
<1>7. ASSUME NEW w \in WsIds, ws'[w] # None, ws'[w].scope # None
      PROVE  /\ ws'[w].scope = ws[w].scope
             /\ scopes'[ws[w].scope] = scopes[ws[w].scope]
  <2>1. ws[w].scope \in ScopeIds /\ ws[w].scope # s
    BY <1>3, <1>7, Typed DEF IInv
  <2> QED
    BY <1>2, <1>3, <1>7, <2>1
<1> QED
  BY <1>1, <1>2, <1>3, <1>4, <1>5, <1>6, <1>7, RowsStep

(* The workspace of an item that is inserted is there at that moment.      *)
LEMMA InsertItemStep == ASSUME IInv, NEW p \in Callers, InsertItem(p) PROVE IInv'
<1> DEFINE w == caller[p].ws
<1>1. /\ scopes' = scopes /\ ws' = ws /\ nextScope' = nextScope
      /\ nextWs' = nextWs /\ born' = born
      /\ caller' = [caller EXCEPT ![p] = Idle]
  BY DEF InsertItem, Return
<1>2. /\ w \in WsIds /\ w < nextWs
      /\ p = Tool => born[w] \in Grants
  BY DEF InsertItem, IInv, CallersOK, Holds
<1> DEFINE mine == p = Tool
           y == [ws |-> w, tool |-> mine]
<1>3. \A i \in items' : i \in items \/ i = y
  BY DEF InsertItem
<1>4. mine \in BOOLEAN /\ y.ws = w /\ y.tool = mine
  OBVIOUS
<1>5. y \in [ws : WsIds, tool : BOOLEAN] /\ (y.tool => p = Tool)
  BY <1>2, <1>4
<1>6. caller' \in [Callers -> Caller] /\ CallersOK'
  <2>1. /\ nextWs' \in Nat /\ nextWs' >= nextWs
        /\ \A v \in WsIds : v < nextWs => born'[v] = born[v]
    BY <1>1, Typed DEF IInv
  <2> QED
    BY <1>1, <2>1, IdleIsCaller, CallerStep
<1> HIDE DEF w, y, mine
<1>7. items' \subseteq [ws : WsIds, tool : BOOLEAN]
  BY <1>3, <1>5 DEF IInv, TypeOK
<1>8. TypeOK' /\ FreshIds'
  BY <1>1, <1>6, <1>7 DEF IInv, TypeOK, FreshIds, Live
<1>9. KeysOK' /\ AtMostOne'
  BY <1>1 DEF IInv, KeysOK, AtMostOne, Active, Live
<1>10. ItemsFiled' /\ ItemsConfined'
  BY <1>1, <1>2, <1>3, <1>4, <1>5 DEF IInv, ItemsFiled, ItemsConfined
<1> QED
  BY <1>6, <1>8, <1>9, <1>10 DEF IInv

-----------------------------------------------------------------------------
LEMMA NextIInv == IInv /\ [Next]_vars => IInv'
<1> SUFFICES ASSUME IInv, [Next]_vars PROVE IInv'
  OBVIOUS
<1>1. ASSUME NEW p \in Users, NEW t \in Titles, Use(p, t) \/ AddItem(p, t) PROVE IInv'
  BY <1>1, UseStep, AddItemStep
<1>2. ASSUME NEW p \in Users, NEW t \in Titles, NEW n \in Names, Create(p, t, n)
      PROVE  IInv'
  BY <1>2, CreateStep
<1>3. ASSUME NEW p \in Users, Insert(p) \/ SetActive(p) PROVE IInv'
  BY <1>3, InsertStep, SetActiveStep
<1>4. ASSUME NEW p \in Callers, InsertItem(p) \/ Die(p) PROVE IInv'
  BY <1>4, InsertItemStep, DieStep
<1>5. ASSUME NEW given \in WsIds \cup {None}, AddToWorkspace(given) PROVE IInv'
  BY <1>5, AddToWorkspaceStep
<1>6. ASSUME NEW t \in Titles, Remove(t) PROVE IInv'
  BY <1>6, RemoveStep
<1>7. ASSUME NEW s \in ScopeIds, RemoveScope(s) PROVE IInv'
  BY <1>7, RemoveScopeStep
<1>8. ASSUME UNCHANGED vars PROVE IInv'
  BY <1>8, StutterStep
<1> QED
  BY <1>1, <1>2, <1>3, <1>4, <1>5, <1>6, <1>7, <1>8 DEF Next

THEOREM Invariance == Spec => []IInv
BY InitIInv, NextIInv, PTL DEF Spec

(***************************************************************************)
(* Every reachable state of scopes, workspaces, items and callers is well  *)
(* typed, for any number of users and any bounds.                          *)
(***************************************************************************)
THEOREM TypeCorrect == Spec => []TypeOK
<1>1. IInv => TypeOK
  BY DEF IInv
<1> QED
  BY <1>1, Invariance, PTL

(***************************************************************************)
(* Whatever `use` commands, removals and deaths interleave, at most one    *)
(* workspace is active, so that every reader, of one scope, of all or in a *)
(* session, is told the same (Workspaces.setActive and getActive).         *)
(***************************************************************************)
THEOREM ReadersAgree == Spec => []OneActive
<1>1. ASSUME IInv PROVE OneActive
  <2>1. TypeOK
    BY <1>1 DEF IInv
  <2>2. GetActive(None) = Active
    BY DEF GetActive
  <2>3. IsFiniteSet(Active) /\ Cardinality(Active) <= 1
    <3>1. CASE Active = {}
      BY <3>1, FS_EmptySet
    <3>2. CASE Active # {}
      <4>1. PICK w : w \in Active
        BY <3>2
      <4>2. Active = {w}
        BY <1>1, <4>1 DEF IInv, AtMostOne
      <4> QED
        <5>1. IsFiniteSet({w}) /\ Cardinality({w}) = 1
          BY FS_Singleton
        <5> QED
          BY <4>2, <5>1
    <3> QED
      BY <3>1, <3>2
  <2>4. \A n \in Names : GetActive(n) \subseteq GetActive(None)
    BY DEF GetActive
  <2>5. \A names \in SUBSET Names : ActiveSeen(names) \subseteq ListSeen(names)
    BY DEF ActiveSeen, ListSeen, GetActive, List, Active
  <2> QED
    BY <2>1, <2>2, <2>3, <2>4, <2>5 DEF OneActive
<1> QED
  BY <1>1, Invariance, PTL

(***************************************************************************)
(* An item a session has added lies in a workspace that began under a      *)
(* scope it may write to, whatever becomes of workspace and scope between  *)
(* its check and its INSERT (ScopeFilter.addToWorkspace).                  *)
(***************************************************************************)
THEOREM ItemsStayInGrants == Spec => []ItemsConfined
<1>1. IInv => ItemsConfined
  BY DEF IInv
<1> QED
  BY <1>1, Invariance, PTL

-----------------------------------------------------------------------------
(***************************************************************************)
(* The workspace of a `use` bears the name it was looked up under as long  *)
(* as it is there: rows keep their names, and ids are not handed out anew. *)
(***************************************************************************)
UsesNamed ==
    \A p \in Users : caller[p].stage = "use" /\ Live(caller[p].ws) =>
                        ws[caller[p].ws].name = caller[p].name

(* A row that has been handed out stays what it is, or goes.               *)
LEMMA NamesStay ==
    ASSUME IInv, [Next]_vars
    PROVE  \A w \in WsIds : w < nextWs /\ ws'[w] # None =>
                               Live(w) /\ ws'[w].name = ws[w].name
<1> SUFFICES ASSUME NEW w \in WsIds, w < nextWs, ws'[w] # None
             PROVE  Live(w) /\ ws'[w].name = ws[w].name
  OBVIOUS
<1>1. CASE ws'[w] = ws[w]
  BY <1>1 DEF Live
<1>2. ASSUME NEW p \in Users, Insert(p) PROVE ws'[w] = ws[w]
  BY <1>2, Typed DEF Insert, IInv, TypeOK
<1>3. ASSUME NEW p \in Users, SetActive(p)
      PROVE  Live(w) /\ ws'[w].name = ws[w].name
  <2>1. Live(w) /\ ws'[w] = [ws[w] EXCEPT !.active = (w = caller[p].ws)]
    BY <1>3 DEF SetActive
  <2> QED
    BY <2>1, Typed DEF IInv, Workspace
<1>4. ASSUME NEW t \in Titles, Remove(t) PROVE ws'[w] = ws[w]
  BY <1>4 DEF Remove
<1>5. ASSUME NEW s \in ScopeIds, RemoveScope(s)
      PROVE  Live(w) /\ ws'[w].name = ws[w].name
  <2>1. ws'[w] = ws[w] \/ (Live(w) /\ ws'[w] = [ws[w] EXCEPT !.scope = None])
    BY <1>5 DEF RemoveScope
  <2> QED
    BY <1>1, <2>1, Typed DEF IInv, Workspace
<1>6. ASSUME \/ \E p \in Users, t \in Titles : Use(p, t) \/ AddItem(p, t)
             \/ \E p \in Users, t \in Titles, n \in Names : Create(p, t, n)
             \/ \E p \in Callers : InsertItem(p) \/ Die(p)
             \/ \E given \in WsIds \cup {None} : AddToWorkspace(given)
             \/ UNCHANGED vars
      PROVE  ws' = ws
  BY <1>6 DEF Use, AddItem, Create, InsertItem, Die, AddToWorkspace, tables, vars
<1> QED
  BY <1>1, <1>2, <1>3, <1>4, <1>5, <1>6 DEF Next

(* What a step does to a caller: nothing, or it leaves the step it was at. *)
LEMMA CallerMoves ==
    ASSUME IInv, [Next]_vars, NEW q \in Users
    PROVE  \/ caller'[q] = caller[q]
           \/ caller'[q].stage # "use"
           \/ \E t \in Titles : \E w \in Named(t) :
                 /\ caller'[q].ws = w /\ caller'[q].name = t
                 /\ ws' = ws
<1> USE DEF IInv, TypeOK
<1>1. ASSUME NEW p \in Callers, NEW c, c.stage # "use", caller' = [caller EXCEPT ![p] = c]
      PROVE  caller'[q] = caller[q] \/ caller'[q].stage # "use"
  BY <1>1
<1>2. Idle.stage # "use"
  BY DEF Idle
<1>3. ASSUME NEW p \in Users, NEW t \in Titles, Use(p, t)
      PROVE  \/ caller'[q] = caller[q]
             \/ \E w \in Named(t) : caller'[q].ws = w /\ caller'[q].name = t /\ ws' = ws
  <2>1. PICK w \in Named(t) : caller' = [caller EXCEPT ![p] =
                                [Idle EXCEPT !.stage = "use", !.name = t, !.ws = w]]
    BY <1>3 DEF Use, Proceed
  <2>2. ws' = ws
    BY <1>3 DEF Use, tables
  <2> QED
    BY <2>1, <2>2 DEF Idle
<1>4. ASSUME NEW p \in Users, NEW t \in Titles, AddItem(p, t)
      PROVE  caller'[q] = caller[q] \/ caller'[q].stage # "use"
  <2>1. PICK w : caller' = [caller EXCEPT ![p] = [Idle EXCEPT !.stage = "add", !.ws = w]]
    BY <1>4 DEF AddItem, Proceed
  <2>2. [Idle EXCEPT !.stage = "add", !.ws = w].stage # "use"
    BY DEF Idle
  <2> QED
    BY <1>1, <2>1, <2>2
<1>5. ASSUME NEW p \in Users, NEW t \in Titles, NEW n \in Names, Create(p, t, n)
      PROVE  caller'[q] = caller[q] \/ caller'[q].stage # "use"
  <2>1. PICK s : caller' = [caller EXCEPT ![p] =
                              [Idle EXCEPT !.stage = "insert", !.name = t, !.scope = s]]
    BY <1>5 DEF Create, Proceed
  <2>2. [Idle EXCEPT !.stage = "insert", !.name = t, !.scope = s].stage # "use"
    BY DEF Idle
  <2> QED
    BY <1>1, <2>1, <2>2
<1>6. ASSUME NEW given \in WsIds \cup {None}, AddToWorkspace(given)
      PROVE  caller'[q] = caller[q] \/ caller'[q].stage # "use"
  <2>1. PICK w : caller' = [caller EXCEPT ![Tool] = [Idle EXCEPT !.stage = "add", !.ws = w]]
    BY <1>6 DEF AddToWorkspace, Proceed
  <2>2. [Idle EXCEPT !.stage = "add", !.ws = w].stage # "use"
    BY DEF Idle
  <2> QED
    BY <1>1, <2>1, <2>2
<1>7. ASSUME NEW p \in Callers, Return(p)
      PROVE  caller'[q] = caller[q] \/ caller'[q].stage # "use"
  BY <1>1, <1>2, <1>7 DEF Return
<1>8. ASSUME NEW p \in Callers,
             (p \in Users /\ (Insert(p) \/ SetActive(p))) \/ InsertItem(p) \/ Die(p)
      PROVE  Return(p)
  BY <1>8 DEF Insert, SetActive, InsertItem, Die
<1>9. ASSUME \/ \E t \in Titles : Remove(t)
             \/ \E s \in ScopeIds : RemoveScope(s)
             \/ UNCHANGED vars
      PROVE  caller' = caller
  BY <1>9 DEF Remove, RemoveScope, vars
<1> QED
  BY <1>3, <1>4, <1>5, <1>6, <1>7, <1>8, <1>9 DEF Next

LEMMA UsesStayNamed == ASSUME IInv, UsesNamed, [Next]_vars PROVE UsesNamed'
<1> SUFFICES ASSUME NEW q \in Users, caller'[q].stage = "use", ws'[caller'[q].ws] # None
             PROVE  ws'[caller'[q].ws].name = caller'[q].name
  BY DEF UsesNamed, Live
<1>1. CASE caller'[q] = caller[q]
  <2>1. PICK w : w = caller[q].ws
    OBVIOUS
  <2>2. w \in WsIds /\ w < nextWs
    BY <1>1, <2>1 DEF IInv, CallersOK, Holds
  <2>3. Live(w) /\ ws'[w].name = ws[w].name
    BY <1>1, <2>1, <2>2, NamesStay
  <2> QED
    BY <1>1, <2>1, <2>3 DEF UsesNamed
<1>2. ASSUME NEW t \in Titles, NEW w \in Named(t), caller'[q].ws = w, caller'[q].name = t,
             ws' = ws
      PROVE  ws'[caller'[q].ws].name = caller'[q].name
  BY <1>2 DEF Named
<1> QED
  BY <1>1, <1>2, CallerMoves

THEOREM UsesKeepTheirName == Spec => []UsesNamed
<1>1. Init => UsesNamed
  BY DEF Init, UsesNamed, Idle
<1>2. IInv /\ UsesNamed /\ [Next]_vars => UsesNamed'
  BY UsesStayNamed
<1> QED
  BY <1>1, <1>2, Invariance, PTL DEF Spec

(* The workspaces that become active are those a `use` has asked for.      *)
LEMMA NewlyActive ==
    ASSUME IInv, UsesNamed, [Next]_vars, NEW w \in Active', w \notin Active
    PROVE  \E p \in Users : /\ caller[p].stage = "use" /\ caller'[p].stage = "idle"
                            /\ ws'[w].name = caller[p].name
<1>1. w \in WsIds /\ ws'[w] # None /\ ws'[w].active
  BY DEF Active, Live
<1>2. ASSUME NEW p \in Users, SetActive(p)
      PROVE  /\ caller[p].stage = "use" /\ caller'[p].stage = "idle"
             /\ ws'[w].name = caller[p].name
  <2>1. Live(w) /\ ws'[w] = [ws[w] EXCEPT !.active = (w = caller[p].ws)]
    BY <1>1, <1>2 DEF SetActive
  <2>2. ws[w] \in Workspace
    BY <1>1, <2>1, Typed DEF IInv
  <2>3. w = caller[p].ws /\ ws'[w].name = ws[w].name
    BY <1>1, <2>1, <2>2 DEF Workspace
  <2>4. caller[p].stage = "use" /\ caller'[p].stage = "idle"
    BY <1>2 DEF SetActive, Return, Idle, IInv, TypeOK
  <2> QED
    BY <2>1, <2>3, <2>4 DEF UsesNamed
<1>3. ASSUME ws'[w] = ws[w] PROVE FALSE
  BY <1>1, <1>3 DEF Active, Live
<1>4. ASSUME NEW p \in Users, Insert(p) PROVE FALSE
  <2>1. CASE w = nextWs
    <3>1. ws'[w] = ws[w] \/ ws'[w] = [name |-> caller[p].name, active |-> FALSE,
                                      scope |-> caller[p].scope]
      BY <1>1, <1>4, <2>1 DEF Insert, IInv, TypeOK
    <3> QED
      BY <1>1, <1>3, <3>1
  <2>2. CASE w # nextWs
    BY <1>1, <1>3, <1>4, <2>2 DEF Insert, IInv, TypeOK
  <2> QED
    BY <2>1, <2>2
<1>5. ASSUME NEW t \in Titles, Remove(t) PROVE FALSE
  BY <1>1, <1>3, <1>5 DEF Remove
<1>6. ASSUME NEW s \in ScopeIds, RemoveScope(s) PROVE FALSE
  <2>1. ws'[w] = ws[w] \/ (Live(w) /\ ws'[w] = [ws[w] EXCEPT !.scope = None])
    BY <1>1, <1>6 DEF RemoveScope
  <2>2. Live(w) /\ ws[w].active
    BY <1>1, <1>3, <2>1, Typed DEF IInv, Workspace
  <2> QED
    BY <1>1, <2>2 DEF Active
<1>7. ASSUME \/ \E p \in Users, t \in Titles : Use(p, t) \/ AddItem(p, t)
             \/ \E p \in Users, t \in Titles, n \in Names : Create(p, t, n)
             \/ \E p \in Callers : InsertItem(p) \/ Die(p)
             \/ \E given \in WsIds \cup {None} : AddToWorkspace(given)
             \/ UNCHANGED vars
      PROVE  ws' = ws
  BY <1>7 DEF Use, AddItem, Create, InsertItem, Die, AddToWorkspace, tables, vars
<1> QED
  BY <1>2, <1>3, <1>4, <1>5, <1>6, <1>7 DEF Next

(***************************************************************************)
(* Whichever calls overlap, a workspace becomes active only under the name *)
(* a `use` asked for, and the store loses its active one only by its       *)
(* removal or by a `use` that finds the one it had looked up removed.      *)
(***************************************************************************)
THEOREM ActiveIsKept == Spec => ActiveKept
<1> DEFINE Lost == Active # {} /\ Active' = {}
           Why == \/ \E w \in Active : ws'[w] = None
                  \/ \E p \in Users : /\ caller[p].stage = "use"
                                      /\ ~Live(caller[p].ws)
                                      /\ caller'[p].stage = "idle"
<1>1. ASSUME IInv, [Next]_vars, Lost PROVE Why
  <2>1. PICK a \in WsIds : Live(a) /\ ws[a].active
    BY <1>1 DEF Active
  <2>2. \A w \in WsIds : ~(ws'[w] # None /\ ws'[w].active)
    BY <1>1 DEF Active, Live
  <2>3. CASE ws' = ws
    BY <2>1, <2>2, <2>3 DEF Live
  <2>4. ASSUME NEW p \in Users, Insert(p) PROVE Why
    <3>1. a # nextWs
      BY <1>1, <2>1, Typed DEF IInv, FreshIds
    <3>2. ws'[a] = ws[a]
      BY <1>1, <2>4, <3>1 DEF Insert, IInv, TypeOK
    <3> QED
      BY <2>1, <2>2, <3>2 DEF Live
  <2>5. ASSUME NEW p \in Users, SetActive(p) PROVE Why
    <3>1. CASE Live(caller[p].ws)
      <4>1. PICK w : w = caller[p].ws
        OBVIOUS
      <4>2. w \in WsIds /\ Live(w)
        BY <1>1, <2>5, <3>1, <4>1 DEF SetActive, IInv, CallersOK, Holds
      <4>3. ws[w] \in Workspace /\ ws'[w] = [ws[w] EXCEPT !.active = TRUE]
        BY <1>1, <2>5, <4>1, <4>2, Typed DEF SetActive, IInv
      <4>4. ws'[w] \in Workspace /\ ws'[w].active
        BY <4>3 DEF Workspace
      <4> QED
        BY <2>2, <4>2, <4>4
    <3>2. CASE ~Live(caller[p].ws)
      <4>1. caller[p].stage = "use" /\ caller'[p].stage = "idle"
        BY <1>1, <2>5 DEF SetActive, Return, Idle, IInv, TypeOK
      <4> QED
        BY <3>2, <4>1
    <3> QED
      BY <3>1, <3>2
  <2>6. ASSUME NEW t \in Titles, Remove(t) PROVE Why
    <3>1. ws'[a] = None \/ ws'[a] = ws[a]
      BY <2>6 DEF Remove
    <3>2. a \in Active
      BY <2>1 DEF Active
    <3> QED
      BY <2>1, <2>2, <3>1, <3>2 DEF Live
  <2>7. ASSUME NEW s \in ScopeIds, RemoveScope(s) PROVE Why
    <3>1. ws[a] \in Workspace
      BY <1>1, <2>1, Typed DEF IInv
    <3>2. ws'[a] = ws[a] \/ ws'[a] = [ws[a] EXCEPT !.scope = None]
      BY <2>7 DEF RemoveScope
    <3>3. ws'[a] \in Workspace /\ ws'[a].active
      BY <2>1, <3>1, <3>2 DEF Workspace
    <3> QED
      BY <2>2, <3>3
  <2>8. ASSUME NEW p \in Users, NEW t \in Titles, NEW n \in Names, Create(p, t, n)
        PROVE  ws' = ws
    BY <2>8 DEF Create
  <2>9. ASSUME NEW p \in Users, NEW t \in Titles, Use(p, t) \/ AddItem(p, t)
        PROVE  ws' = ws
    BY <2>9 DEF Use, AddItem, tables
  <2>10. ASSUME NEW p \in Callers, InsertItem(p) \/ Die(p) PROVE ws' = ws
    BY <2>10 DEF InsertItem, Die, tables
  <2>11. ASSUME NEW given \in WsIds \cup {None}, AddToWorkspace(given) PROVE ws' = ws
    BY <2>11 DEF AddToWorkspace, tables
  <2>12. ASSUME UNCHANGED vars PROVE ws' = ws
    BY <2>12 DEF vars
  <2> HIDE DEF Why
  <2> QED
    BY <1>1, <2>3, <2>4, <2>5, <2>6, <2>7, <2>8, <2>9, <2>10, <2>11, <2>12 DEF Next
<1> DEFINE Asked(w) == \E p \in Users : /\ caller[p].stage = "use"
                                        /\ caller'[p].stage = "idle"
                                        /\ ws'[w].name = caller[p].name
<1>2. ASSUME IInv, UsesNamed, [Next]_vars PROVE \A w \in Active' \ Active : Asked(w)
  BY <1>2, NewlyActive
<1> DEFINE Change == (\A w \in Active' \ Active : Asked(w)) /\ (Lost => Why)
<1>3. IInv /\ UsesNamed /\ [Next]_vars => [Change]_vars
  BY <1>1, <1>2
<1> QED
  BY <1>3, Invariance, UsesKeepTheirName, PTL DEF Spec, ActiveKept
=============================================================================
