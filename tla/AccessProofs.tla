------------------------------ MODULE AccessProofs ------------------------------
(***************************************************************************)
(* Proofs about module Access, for every set of names, tools and sessions  *)
(* and every bound.                                                        *)
(***************************************************************************)
EXTENDS Access, FiniteSetTheorems, TLAPS

USE DefaultAssumption, BoundAssumption, NoneAssumption
    DEF ToolIds, Tokens, ScopeIds, RowIds

(***************************************************************************)
(* Ids and tokens are handed out once: nothing is found under those that   *)
(* are still to come.                                                      *)
(***************************************************************************)
FreshIds ==
    /\ \A i \in ScopeIds : i >= next.scope => scopes[i] = None
    /\ \A i \in ToolIds : i >= next.tool => tools[i] = None
    /\ \A i \in RowIds : i >= next.row => rows[i] = None

(* A live tool and a rotation hold tokens issued for their tool. *)
TokensOK ==
    /\ \A i \in ToolIds : tools[i] # None =>
         tools[i].token < next.token /\ issuedTo[tools[i].token] = i
    /\ rotating # None =>
         rotating.token < next.token /\ issuedTo[rotating.token] = rotating.tool

(* The foreign keys of grants and rows. *)
KeysOK ==
    /\ \A i \in ToolIds : tools[i] # None => \A s \in tools[i].scopes : scopes[s] # None
    /\ \A i \in RowIds : rows[i] # None /\ rows[i].scope # None
                           => scopes[rows[i].scope] # None

(***************************************************************************)
(* What a row in a scope was made from was told to scopes of that name.    *)
(***************************************************************************)
RowsTold ==
    \A i \in RowIds : rows[i] # None /\ rows[i].scope # None
                        => rows[i].made \subseteq {scopes[rows[i].scope]}

(***************************************************************************)
(* What session record x has read about its tool is still so, unless the   *)
(* tool is gone; and what its call has in hand and is about to touch is    *)
(* within its grants, unless it is gone.                                   *)
(***************************************************************************)
WritableBy(x) == IF x.write THEN x.grants ELSE {}

IdentityOK(x) ==
    /\ x.stage \notin {"off"} => /\ x.tool \in ToolIds /\ x.name \in ToolNames
                                 /\ x.tool < next.tool
                                 /\ tools[x.tool] # None => tools[x.tool].name = x.name
    /\ x.stage = "off" => x.tool = None
    /\ x.stage \in {"off", "auth"} => x.calls = 0 /\ x.grants = {}
    /\ x.stage \in {"llm", "insert", "delete", "record"} => x.calls >= 1

HandsOK(x) ==
    /\ x.made \subseteq x.grants
    /\ x.stage = "llm" /\ x.target # None =>
         x.target \in WritableBy(x) /\ x.made \subseteq {x.target}
    /\ x.stage = "insert" =>
         /\ x.target \in ScopeIds /\ x.target < next.scope
         /\ scopes[x.target] # None =>
              scopes[x.target] \in WritableBy(x) /\ x.made \subseteq {scopes[x.target]}
    /\ x.stage = "delete" =>
         /\ x.target \in RowIds /\ x.target < next.row
         /\ rows[x.target] # None => ScopeNameOf(x.target) \in WritableBy(x) \cup {None}

Fits(x) == IdentityOK(x) /\ HandsOK(x)

SessionsOK == \A s \in Sess : Fits(sess[s])

(* Only a session that has begun to serve owes an audit row. *)
OwedOK == \A x \in owed : sess[x[1]].stage \notin {"off", "auth"}

IInv == /\ TypeOK /\ FreshIds /\ TokensOK /\ KeysOK /\ RowsTold
        /\ SessionsOK /\ OwedOK /\ AuditNamesTool /\ AuditedUnlessRevoked

-----------------------------------------------------------------------------
LEMMA InitIInv == Init => IInv
<1> SUFFICES ASSUME Init PROVE IInv
  OBVIOUS
<1>1. TypeOK
  <2>1. scopes \in [ScopeIds -> Names \cup {None}] /\ tools \in [ToolIds -> Tool \cup {None}]
    BY DEF Init
  <2>2. rows \in [RowIds -> Row \cup {None}] /\ issuedTo \in [Tokens -> ToolIds \cup {None}]
    BY DEF Init
  <2>3. next \in [tool: 1..(MaxTool + 1), token: 1..(MaxToken + 1),
                  scope: 1..(MaxScope + 1), row: 1..(MaxRow + 1)]
    BY DEF Init
  <2>4. sess \in [Sess -> Session]
    BY DEF Init, Session
  <2>5. rotating = None /\ audit = {} /\ owed = {}
    BY DEF Init
  <2> QED
    BY <2>1, <2>2, <2>3, <2>4, <2>5 DEF TypeOK
<1>2. FreshIds /\ TokensOK /\ KeysOK /\ RowsTold
  BY DEF Init, FreshIds, TokensOK, KeysOK, RowsTold
<1>3. SessionsOK
  BY DEF Init, SessionsOK, Fits, IdentityOK, HandsOK
<1>4. OwedOK /\ AuditNamesTool /\ AuditedUnlessRevoked
  BY DEF Init, OwedOK, AuditNamesTool, AuditedUnlessRevoked
<1> QED
  BY <1>1, <1>2, <1>3, <1>4 DEF IInv

-----------------------------------------------------------------------------
Counters == [tool: 1..(MaxTool + 1), token: 1..(MaxToken + 1),
             scope: 1..(MaxScope + 1), row: 1..(MaxRow + 1)]

(* What the types say of the parts of the state. *)
LEMMA Typed ==
    ASSUME TypeOK
    PROVE  /\ next \in Counters
           /\ next.tool \in Nat /\ next.token \in Nat /\ next.scope \in Nat /\ next.row \in Nat
           /\ \A i \in ScopeIds : scopes[i] \in Names \cup {None}
           /\ \A i \in ToolIds : tools[i] # None =>
                /\ tools[i] \in Tool
                /\ tools[i].name \in ToolNames /\ tools[i].token \in Tokens
                /\ tools[i].scopes \subseteq ScopeIds
           /\ \A i \in RowIds : rows[i] # None =>
                /\ rows[i] \in Row
                /\ rows[i].scope \in ScopeIds \cup {None} /\ rows[i].made \subseteq Names
           /\ rotating # None => /\ rotating \in Rotation
                                 /\ rotating.tool \in ToolIds /\ rotating.token \in Tokens
<1>1. next \in Counters
  BY DEF TypeOK, Counters
<1>2. next.tool \in Nat /\ next.token \in Nat /\ next.scope \in Nat /\ next.row \in Nat
  BY <1>1 DEF Counters
<1>3. \A i \in ScopeIds : scopes[i] \in Names \cup {None}
  BY DEF TypeOK
<1>4. ASSUME NEW i \in ToolIds, tools[i] # None
      PROVE  /\ tools[i] \in Tool
             /\ tools[i].name \in ToolNames /\ tools[i].token \in Tokens
             /\ tools[i].scopes \subseteq ScopeIds
  <2>1. tools[i] \in Tool
    BY <1>4 DEF TypeOK
  <2> QED
    BY <2>1 DEF Tool
<1>5. ASSUME NEW i \in RowIds, rows[i] # None
      PROVE  /\ rows[i] \in Row
             /\ rows[i].scope \in ScopeIds \cup {None} /\ rows[i].made \subseteq Names
  <2>1. rows[i] \in Row
    BY <1>5 DEF TypeOK
  <2> QED
    BY <2>1 DEF Row
<1>6. rotating # None => rotating \in Rotation /\ rotating.tool \in ToolIds
                          /\ rotating.token \in Tokens
  BY DEF TypeOK, Rotation
<1> QED
  BY <1>1, <1>2, <1>3, <1>4, <1>5, <1>6

(***************************************************************************)
(* What every step does to the tables: ids are only added at their ends,   *)
(* and what was there stays what it was, or goes.                          *)
(***************************************************************************)
StoreGrows ==
    /\ next'.tool >= next.tool /\ next'.scope >= next.scope /\ next'.row >= next.row
    /\ \A i \in ToolIds : i < next.tool /\ tools'[i] # None
                            => tools[i] # None /\ tools'[i].name = tools[i].name
    /\ \A i \in ScopeIds : i < next.scope => scopes'[i] \in {scopes[i], None}
    /\ \A i \in RowIds : i < next.row /\ rows'[i] # None =>
         /\ rows[i] # None /\ rows'[i].made = rows[i].made
         /\ rows'[i].scope \in {rows[i].scope, None}

TablesOK == TypeOK /\ FreshIds /\ TokensOK /\ KeysOK /\ RowsTold

LEMMA StoreSame == ASSUME TypeOK, UNCHANGED store PROVE StoreGrows
BY DEF TypeOK, store, StoreGrows

(* A row that is still there is under a scope of the same name, or of none. *)
LEMMA NameKept ==
    ASSUME IInv, StoreGrows, NEW i \in RowIds, i < next.row, rows'[i] # None,
           rows' \in [RowIds -> Row \cup {None}], scopes' \in [ScopeIds -> Names \cup {None}]
    PROVE  /\ rows[i] # None
           /\ (ScopeNameOf(i))' \in {ScopeNameOf(i), None}
<1>1. /\ rows[i] \in Row /\ rows'[i] \in Row /\ rows'[i].scope \in {rows[i].scope, None}
      /\ rows[i] # None
  BY DEF IInv, TypeOK, StoreGrows
<1>2. CASE rows'[i].scope = None
  BY <1>1, <1>2 DEF ScopeNameOf
<1>3. CASE rows'[i].scope # None
  <2>1. rows'[i].scope = rows[i].scope /\ rows[i].scope \in ScopeIds
    BY <1>1, <1>3 DEF Row
  <2>2. rows[i].scope < next.scope
    BY <1>1, <2>1, <1>3 DEF IInv, KeysOK, FreshIds, TypeOK
  <2>3. scopes'[rows[i].scope] \in {scopes[rows[i].scope], None}
    BY <2>1, <2>2 DEF StoreGrows
  <2> QED
    BY <1>1, <2>1, <2>3 DEF ScopeNameOf
<1> QED
  BY <1>2, <1>3

(* A session that does not move keeps fitting. *)
LEMMA FitsKept ==
    ASSUME IInv, TypeOK', StoreGrows, NEW s \in Sess, sess'[s] = sess[s]
    PROVE  Fits(sess[s])'
<1> DEFINE x == sess[s]
<1>1. Fits(x) /\ x \in Session
  BY DEF IInv, SessionsOK, TypeOK
<1>2. /\ {next.tool, next.scope, next.row} \subseteq Nat
      /\ {next'.tool, next'.scope, next'.row} \subseteq Nat
  BY DEF IInv, TypeOK
<1>3. IdentityOK(sess[s])'
  <2>1. IdentityOK(x)
    BY <1>1 DEF Fits
  <2>2. ASSUME x.stage # "off"
        PROVE  /\ x.tool \in ToolIds /\ x.name \in ToolNames /\ x.tool < next'.tool
               /\ tools'[x.tool] # None => tools'[x.tool].name = x.name
    <3>1. /\ x.tool \in ToolIds /\ x.name \in ToolNames /\ x.tool < next.tool
          /\ tools[x.tool] # None => tools[x.tool].name = x.name
      BY <2>1, <2>2 DEF IdentityOK
    <3> QED
      BY <1>2, <3>1 DEF StoreGrows
  <2> QED
    BY <2>1, <2>2 DEF IdentityOK
<1>4. HandsOK(sess[s])'
  <2>1. x.made \subseteq x.grants
    BY <1>1 DEF Fits, HandsOK
  <2>2. x.stage = "llm" /\ x.target # None =>
          x.target \in WritableBy(x) /\ x.made \subseteq {x.target}
    BY <1>1 DEF Fits, HandsOK
  <2>3. ASSUME x.stage = "insert"
        PROVE  /\ x.target \in ScopeIds /\ x.target < next'.scope
               /\ scopes'[x.target] # None =>
                    scopes'[x.target] \in WritableBy(x) /\ x.made \subseteq {scopes'[x.target]}
    BY <1>1, <1>2, <2>3 DEF StoreGrows, Fits, HandsOK
  <2>4. ASSUME x.stage = "delete"
        PROVE  /\ x.target \in RowIds /\ x.target < next'.row
               /\ rows'[x.target] # None =>
                    (ScopeNameOf(sess[s].target))' \in WritableBy(x) \cup {None}
    <3>1. /\ x.target \in RowIds /\ x.target < next.row
          /\ rows[x.target] # None => ScopeNameOf(x.target) \in WritableBy(x) \cup {None}
      BY <1>1, <2>4 DEF Fits, HandsOK
    <3>2. x.target < next'.row
      BY <1>2, <3>1 DEF StoreGrows
    <3>3. ASSUME rows'[x.target] # None
          PROVE  (ScopeNameOf(sess[s].target))' \in WritableBy(x) \cup {None}
      <4>1. rows[x.target] # None /\ (IF rows'[x.target].scope = None THEN None
               ELSE scopes'[rows'[x.target].scope]) \in {ScopeNameOf(x.target), None}
        BY <3>1, <3>3, NameKept DEF TypeOK, ScopeNameOf
      <4> QED
        BY <3>1, <4>1 DEF ScopeNameOf
    <3> QED
      BY <3>1, <3>2, <3>3
  <2> QED
    BY <2>1, <2>2, <2>3, <2>4 DEF HandsOK, WritableBy
<1> QED
  BY <1>3, <1>4 DEF Fits

(***************************************************************************)
(* The operator's commands leave the sessions and what they owe alone.     *)
(***************************************************************************)
LEMMA OperatorStep ==
    ASSUME IInv, TablesOK', StoreGrows, UNCHANGED <<sess, owed>>, AuditNamesTool',
           \A s \in Sess, c \in 1..MaxCalls : Audited(s, c) => Audited(s, c)'
    PROVE  IInv'
<1>1. SessionsOK'
  BY FitsKept DEF TablesOK, SessionsOK
<1>2. OwedOK'
  BY DEF IInv, OwedOK
<1>3. AuditedUnlessRevoked'
  <2> SUFFICES ASSUME NEW x \in owed
               PROVE  \/ Audited(x[1], x[2])'
                      \/ x[2] = sess[x[1]].calls /\ sess[x[1]].stage # "idle"
                      \/ tools'[sess[x[1]].tool] = None
    BY DEF AuditedUnlessRevoked
  <2>1. x[1] \in Sess /\ x[2] \in 1..MaxCalls
    BY DEF IInv, TypeOK
  <2>2. sess[x[1]].tool \in ToolIds /\ sess[x[1]].tool < next.tool
    BY <2>1 DEF IInv, OwedOK, SessionsOK, Fits, IdentityOK
  <2>3. \/ Audited(x[1], x[2])
        \/ x[2] = sess[x[1]].calls /\ sess[x[1]].stage # "idle"
        \/ tools[sess[x[1]].tool] = None
    BY DEF IInv, AuditedUnlessRevoked
  <2> QED
    BY <2>1, <2>2, <2>3 DEF StoreGrows
<1> QED
  BY <1>1, <1>2, <1>3 DEF IInv, TablesOK

(* Steps that leave the audit log alone and take no tool away. *)
LEMMA LogKept ==
    ASSUME IInv, UNCHANGED <<audit, sess>>, StoreGrows,
           \A i \in ToolIds : tools[i] # None => tools'[i] # None
    PROVE  /\ AuditNamesTool'
           /\ \A s \in Sess, c \in 1..MaxCalls : Audited(s, c) => Audited(s, c)'
<1>1. AuditNamesTool'
  <2> SUFFICES ASSUME NEW e \in audit, e.tool # None
               PROVE  /\ tools'[e.tool] # None
                      /\ e.tool = sess[e.sess].tool /\ e.name = tools'[e.tool].name
    BY DEF AuditNamesTool
  <2>1. /\ e.tool \in ToolIds /\ tools[e.tool] # None /\ e.tool = sess[e.sess].tool
        /\ e.name = tools[e.tool].name
    BY DEF IInv, AuditNamesTool, TypeOK, Entry
  <2>2. e.tool < next.tool
    BY <2>1 DEF IInv, FreshIds, TypeOK
  <2> QED
    BY <2>1, <2>2 DEF StoreGrows
<1>2. \A s \in Sess, c \in 1..MaxCalls : Audited(s, c) => Audited(s, c)'
  BY DEF Audited
<1> QED
  BY <1>1, <1>2

(* The scopes that a new tool brings along get as many ids as they are. *)
LEMMA NewIds ==
    ASSUME TypeOK, NEW new \in SUBSET Names, NEW ids,
           ids = next.scope..(next.scope + Cardinality(new) - 1), ids \subseteq ScopeIds,
           NEW name \in [ids -> new], \A n \in new : \E i \in ids : name[i] = n
    PROVE  /\ Cardinality(new) \in Nat
           /\ next.scope + Cardinality(new) \in 1..(MaxScope + 1)
           /\ \A i \in ids : i >= next.scope /\ i < next.scope + Cardinality(new)
<1>1. next.scope \in 1..(MaxScope + 1)
  BY DEF TypeOK
<1>2. IsFiniteSet(ids)
  <2>1. IsFiniteSet(1..MaxScope)
    BY FS_Interval
  <2> QED
    BY <2>1, FS_Subset
<1>3. IsFiniteSet(new)
  <2>1. name \in Surjection(ids, new)
    BY DEF Surjection
  <2> QED
    BY <1>2, <2>1, FS_Surjection
<1>4. Cardinality(new) \in Nat
  BY <1>3, FS_CardinalityType
<1>5. next.scope + Cardinality(new) \in 1..(MaxScope + 1)
  <2>1. CASE Cardinality(new) = 0
    BY <1>1, <2>1
  <2>2. CASE Cardinality(new) > 0
    <3>1. next.scope + Cardinality(new) - 1 \in ids
      BY <1>1, <1>4, <2>2
    <3> QED
      BY <1>1, <1>4, <3>1
  <2> QED
    BY <1>4, <2>1, <2>2
<1> QED
  BY <1>1, <1>4, <1>5

LEMMA AddToolStep ==
    ASSUME IInv, NEW n \in ToolNames, NEW granted \in SUBSET Names, NEW w \in BOOLEAN,
           AddTool(n, granted, w)
    PROVE  IInv'
<1> DEFINE new == {s \in granted : ScopeNamed(s) = {}}
           ids == next.scope..(next.scope + Cardinality(new) - 1)
           tool == [name |-> n, token |-> next.token, write |-> w,
                    scopes |-> {i \in ScopeIds : scopes'[i] \in granted}]
<1>1. PICK name \in [ids -> new] :
        /\ \A s \in new : \E i \in ids : name[i] = s
        /\ scopes' = [i \in ScopeIds |-> IF i \in ids THEN name[i] ELSE scopes[i]]
  BY DEF AddTool
<1>2. /\ next.tool \in ToolIds /\ next.token \in Tokens /\ ids \subseteq ScopeIds
      /\ next' = [next EXCEPT !.tool = @ + 1, !.token = @ + 1,
                              !.scope = @ + Cardinality(new)]
      /\ tools' = [tools EXCEPT ![next.tool] = tool]
      /\ issuedTo' = [issuedTo EXCEPT ![next.token] = next.tool]
      /\ UNCHANGED <<rows, rotating, sess, audit, owed>>
  BY DEF AddTool
<1>3. new \in SUBSET Names
  OBVIOUS
<1> HIDE DEF new
<1>4. /\ Cardinality(new) \in Nat
      /\ next.scope + Cardinality(new) \in 1..(MaxScope + 1)
      /\ \A i \in ids : i >= next.scope /\ i < next.scope + Cardinality(new)
  BY <1>1, <1>2, <1>3, NewIds DEF IInv
<1> DEFINE k == Cardinality(new)
<1>5. \A i \in ScopeIds : i >= next.scope /\ i < next.scope + k => i \in ids
  BY <1>4 DEF IInv, TypeOK
<1> HIDE DEF ids, k
<1>20. TypeOK /\ next \in Counters
  BY Typed DEF IInv
<1>6. /\ next'.scope = next.scope + k /\ next'.tool = next.tool + 1 /\ next'.row = next.row
      /\ next'.token = next.token + 1 /\ next.scope \in Nat /\ k \in Nat
      /\ next' \in Counters
  <2>1. /\ k \in Nat /\ next.scope + k \in 1..(MaxScope + 1)
        /\ next' = [next EXCEPT !.tool = @ + 1, !.token = @ + 1, !.scope = @ + k]
    BY <1>2, <1>4 DEF k
  <2>2. /\ next.tool \in 1..MaxTool /\ next.token \in 1..MaxToken
        /\ next.scope \in 1..(MaxScope + 1) /\ next.row \in 1..(MaxRow + 1)
    BY <1>2, <1>20 DEF Counters
  <2>3. /\ next'.scope = next.scope + k /\ next'.tool = next.tool + 1
        /\ next'.row = next.row /\ next'.token = next.token + 1
    BY <1>20, <2>1 DEF Counters
  <2>4. next.tool + 1 \in 1..(MaxTool + 1) /\ next.token + 1 \in 1..(MaxToken + 1)
    BY <2>2
  <2>5. next' = [tool |-> next.tool + 1, token |-> next.token + 1,
                 scope |-> next.scope + k, row |-> next.row]
    BY <1>20, <2>1 DEF Counters
  <2> QED
    BY <2>1, <2>2, <2>3, <2>4, <2>5 DEF Counters
<1>7. \A i \in ScopeIds : scopes'[i] = IF i \in ids THEN name[i] ELSE scopes[i]
  BY <1>1
<1>8. \A i \in ids : scopes[i] = None /\ scopes'[i] \in Names /\ i \in ScopeIds
  BY <1>1, <1>2, <1>3, <1>4, <1>7 DEF IInv, FreshIds
<1>9. scopes' \in [ScopeIds -> Names \cup {None}]
  BY <1>1, <1>3 DEF IInv, TypeOK
<1>10. tool \in Tool /\ tool # None
  BY <1>2 DEF Tool
<1>11. \A i \in ScopeIds : scopes[i] # None => scopes'[i] = scopes[i]
  BY <1>7, <1>8
<1>12. TypeOK'
  <2>1. tools' \in [ToolIds -> Tool \cup {None}]
    BY <1>2, <1>10, <1>20 DEF TypeOK
  <2>2. issuedTo' \in [Tokens -> ToolIds \cup {None}]
    BY <1>2, <1>20 DEF TypeOK
  <2> QED
    BY <1>2, <1>6, <1>9, <1>20, <2>1, <2>2 DEF TypeOK, Counters
<1>21. /\ next.tool \in Nat /\ next.token \in Nat
       /\ \A i \in ToolIds : i # next.tool => tools'[i] = tools[i]
       /\ tools'[next.tool] = tool
  BY <1>2, <1>20, Typed DEF TypeOK
<1>13. FreshIds'
  <2>1. \A i \in ScopeIds : i >= next'.scope => scopes'[i] = None
    BY <1>4, <1>6, <1>7 DEF IInv, FreshIds, k
  <2>2. \A i \in ToolIds : i >= next'.tool => tools'[i] = None
    BY <1>6, <1>21 DEF IInv, FreshIds
  <2> QED
    BY <1>2, <1>6, <2>1, <2>2 DEF IInv, FreshIds
<1>14. TokensOK'
  <2>1. ASSUME NEW i \in ToolIds, tools'[i] # None
        PROVE  tools'[i].token < next'.token /\ issuedTo'[tools'[i].token] = i
    <3>1. CASE i = next.tool
      BY <1>2, <1>6, <1>20, <1>21, <3>1 DEF TypeOK
    <3>2. CASE i # next.tool
      <4>1. tools[i].token < next.token /\ issuedTo[tools[i].token] = i /\ tools[i].token \in Tokens
        BY <1>20, <1>21, <2>1, <3>2, Typed DEF IInv, TokensOK
      <4> QED
        BY <1>2, <1>6, <1>20, <1>21, <3>2, <4>1 DEF TypeOK
    <3> QED
      BY <3>1, <3>2
  <2>2. ASSUME rotating # None
        PROVE  rotating.token < next'.token /\ issuedTo'[rotating.token] = rotating.tool
    <3>1. rotating.token < next.token /\ issuedTo[rotating.token] = rotating.tool
          /\ rotating.token \in Tokens
      BY <1>20, <2>2, Typed DEF IInv, TokensOK
    <3> QED
      BY <1>2, <1>6, <1>20, <1>21, <3>1 DEF TypeOK
  <2> QED
    BY <1>2, <2>1, <2>2 DEF TokensOK
<1>15. KeysOK'
  <2>1. ASSUME NEW i \in ToolIds, tools'[i] # None, NEW s \in tools'[i].scopes
        PROVE  scopes'[s] # None
    <3>1. CASE i = next.tool
      BY <1>2, <2>1, <3>1 DEF IInv, TypeOK
    <3>2. CASE i # next.tool
      BY <1>2, <1>11, <2>1, <3>2 DEF IInv, TypeOK, KeysOK, Tool
    <3> QED
      BY <3>1, <3>2
  <2>2. ASSUME NEW i \in RowIds, rows[i] # None, rows[i].scope # None
        PROVE  scopes'[rows[i].scope] # None
    BY <1>11, <2>2 DEF IInv, TypeOK, KeysOK, Row
  <2> QED
    BY <1>2, <2>1, <2>2 DEF KeysOK
<1>16. RowsTold'
  BY <1>2, <1>11 DEF IInv, TypeOK, RowsTold, KeysOK, Row
<1>17. StoreGrows
  <2>1. \A i \in ScopeIds : i < next.scope => scopes'[i] = scopes[i]
    BY <1>4, <1>6, <1>7
  <2>2. \A i \in ToolIds : i < next.tool => tools'[i] = tools[i]
    BY <1>21
  <2>3. next.row \in Nat
    BY <1>20, Typed
  <2> QED
    BY <1>2, <1>6, <1>21, <2>1, <2>2, <2>3 DEF StoreGrows
<1>18. \A i \in ToolIds : tools[i] # None => tools'[i] # None
  BY <1>2, <1>10 DEF IInv, TypeOK
<1> QED
  BY <1>2, <1>12, <1>13, <1>14, <1>15, <1>16, <1>17, <1>18, LogKept, OperatorStep DEF TablesOK

LEMMA RevokeStep ==
    ASSUME IInv, NEW i \in ToolIds, Revoke(i)
    PROVE  IInv'
<1>1. /\ tools' = [tools EXCEPT ![i] = None]
      /\ audit' = {IF e.tool = i THEN [e EXCEPT !.tool = None] ELSE e : e \in audit}
      /\ UNCHANGED <<scopes, rows, next, rotating, sess, issuedTo, owed>>
  BY DEF Revoke
<1>2. audit' \subseteq Entry
  <2>1. audit \subseteq Entry
    BY DEF IInv, TypeOK
  <2>2. \A e \in Entry : [e EXCEPT !.tool = None] \in Entry
    BY DEF Entry
  <2> QED
    BY <1>1, <2>1, <2>2
<1>3. TypeOK'
  BY <1>1, <1>2 DEF IInv, TypeOK
<1>4. FreshIds' /\ TokensOK' /\ KeysOK' /\ RowsTold'
  BY <1>1 DEF IInv, TypeOK, FreshIds, TokensOK, KeysOK, RowsTold
<1>5. StoreGrows
  BY <1>1 DEF IInv, TypeOK, StoreGrows
<1>6. AuditNamesTool'
  BY <1>1 DEF IInv, TypeOK, Entry, AuditNamesTool
<1>7. ASSUME NEW s \in Sess, NEW c \in 1..MaxCalls, Audited(s, c)
      PROVE  Audited(s, c)'
  <2>1. PICK e \in audit : e.sess = s /\ e.call = c
    BY <1>7 DEF Audited
  <2>2. e \in Entry
    BY DEF IInv, TypeOK
  <2> DEFINE f == IF e.tool = i THEN [e EXCEPT !.tool = None] ELSE e
  <2>3. f \in audit' /\ f.sess = s /\ f.call = c
    BY <1>1, <2>1, <2>2 DEF Entry
  <2> QED
    BY <2>3 DEF Audited
<1> QED
  BY <1>1, <1>3, <1>4, <1>5, <1>6, <1>7, OperatorStep DEF TablesOK

LEMMA RotateFindStep ==
    ASSUME IInv, NEW i \in ToolIds, RotateFind(i)
    PROVE  IInv'
<1>1. /\ next.token \in Tokens /\ tools[i] # None
      /\ rotating' = [tool |-> i, token |-> next.token]
      /\ issuedTo' = [issuedTo EXCEPT ![next.token] = i]
      /\ next' = [next EXCEPT !.token = @ + 1]
      /\ UNCHANGED <<scopes, tools, rows, sess, audit, owed>>
  BY DEF RotateFind
<1>2. /\ next'.token = next.token + 1 /\ next'.tool = next.tool
      /\ next'.scope = next.scope /\ next'.row = next.row /\ next' \in Counters
  <2>1. next \in Counters
    BY Typed DEF IInv
  <2> QED
    BY <1>1, <2>1 DEF Counters
<1>3. rotating' \in Rotation
  BY <1>1 DEF Rotation
<1>4. TypeOK'
  BY <1>1, <1>2, <1>3 DEF IInv, TypeOK, Counters
<1>5. TokensOK'
  <2>1. next.token \in Nat /\ issuedTo \in [Tokens -> ToolIds \cup {None}]
    BY Typed DEF IInv, TypeOK
  <2>2. ASSUME NEW t \in ToolIds, tools[t] # None
        PROVE  tools[t].token < next'.token /\ issuedTo'[tools[t].token] = t
    <3>1. tools[t].token < next.token /\ issuedTo[tools[t].token] = t /\ tools[t].token \in Tokens
      BY <2>2, Typed DEF IInv, TokensOK
    <3> QED
      BY <1>1, <1>2, <2>1, <3>1
  <2> QED
    BY <1>1, <1>2, <2>1, <2>2 DEF TokensOK
<1>6. FreshIds' /\ KeysOK' /\ RowsTold'
  BY <1>1, <1>2 DEF IInv, FreshIds, KeysOK, RowsTold
<1>7. StoreGrows
  <2>1. next.tool \in Nat /\ next.scope \in Nat /\ next.row \in Nat
    BY Typed DEF IInv
  <2> QED
    BY <1>1, <1>2, <2>1 DEF StoreGrows
<1> QED
  BY <1>1, <1>4, <1>5, <1>6, <1>7, LogKept, OperatorStep DEF TablesOK

LEMMA RotateUpdateStep ==
    ASSUME IInv, RotateUpdate
    PROVE  IInv'
<1>1. /\ rotating \in Rotation /\ rotating' = None
      /\ UNCHANGED <<scopes, rows, next, sess, audit, issuedTo, owed>>
      /\ tools' = IF tools[rotating.tool] = None THEN tools
                  ELSE [tools EXCEPT ![rotating.tool].token = rotating.token]
  BY DEF RotateUpdate, IInv, TypeOK
<1>2. tools' \in [ToolIds -> Tool \cup {None}]
  <2>1. \A i \in ToolIds : tools[i] # None => [tools[i] EXCEPT !.token = rotating.token] \in Tool
    BY <1>1, Typed DEF IInv, Tool, Rotation
  <2> QED
    BY <1>1, <2>1 DEF IInv, TypeOK, Rotation
<1>3. \A i \in ToolIds :
        /\ tools[i] = None => tools'[i] = None
        /\ tools[i] # None => /\ tools'[i] # None /\ tools'[i].name = tools[i].name
                              /\ tools'[i].scopes = tools[i].scopes
                              /\ tools'[i].token \in {tools[i].token, rotating.token}
                              /\ tools'[i].token # tools[i].token => i = rotating.tool
  BY <1>1, <1>2 DEF IInv, TypeOK, Tool, Rotation
<1>4. TypeOK'
  BY <1>1, <1>2 DEF IInv, TypeOK
<1>5. TokensOK'
  BY <1>1, <1>3 DEF IInv, TypeOK, TokensOK
<1>6. FreshIds' /\ KeysOK' /\ RowsTold'
  BY <1>1, <1>3 DEF IInv, FreshIds, KeysOK, RowsTold
<1>7. StoreGrows
  BY <1>1, <1>3 DEF IInv, TypeOK, StoreGrows
<1> QED
  BY <1>1, <1>3, <1>4, <1>5, <1>6, <1>7, LogKept, OperatorStep DEF TablesOK

LEMMA RemoveScopeStep ==
    ASSUME IInv, NEW i \in ScopeIds, RemoveScope(i)
    PROVE  IInv'
<1>1. /\ scopes' = [scopes EXCEPT ![i] = None]
      /\ tools' = [t \in ToolIds |->
                     IF tools[t] = None THEN None
                     ELSE [tools[t] EXCEPT !.scopes = @ \ {i}]]
      /\ rows' = [r \in RowIds |->
                    IF rows[r] = None \/ rows[r].scope # i THEN rows[r]
                    ELSE [rows[r] EXCEPT !.scope = None]]
      /\ UNCHANGED <<next, rotating, sess, audit, issuedTo, owed>>
  BY DEF RemoveScope
<1>2. \A t \in ToolIds :
        /\ tools[t] = None => tools'[t] = None
        /\ tools[t] # None => /\ tools[t] \in Tool /\ tools'[t] \in Tool
                              /\ tools'[t].name = tools[t].name
                              /\ tools'[t].scopes = tools[t].scopes \ {i}
                              /\ tools'[t].token = tools[t].token
  <2>1. ASSUME NEW t \in ToolIds, tools[t] # None
        PROVE  LET u == [tools[t] EXCEPT !.scopes = @ \ {i}]
               IN /\ u \in Tool /\ u.name = tools[t].name /\ u.token = tools[t].token
                  /\ u.scopes = tools[t].scopes \ {i}
    BY <2>1, Typed DEF IInv, Tool
  <2> QED
    BY <1>1, <2>1, Typed DEF IInv
<1>3. \A r \in RowIds :
        /\ rows[r] = None => rows'[r] = None
        /\ rows[r] # None => /\ rows[r] \in Row /\ rows'[r] \in Row
                             /\ rows'[r].made = rows[r].made
                             /\ rows'[r].scope = IF rows[r].scope = i THEN None
                                                 ELSE rows[r].scope
  <2>1. ASSUME NEW r \in RowIds, rows[r] # None
        PROVE  LET u == [rows[r] EXCEPT !.scope = None]
               IN u \in Row /\ u.made = rows[r].made /\ u.scope = None
    BY <2>1, Typed DEF IInv, Row
  <2> QED
    BY <1>1, <2>1, Typed DEF IInv
<1>4. TypeOK'
  BY <1>1, <1>2, <1>3 DEF IInv, TypeOK
<1>5. FreshIds' /\ TokensOK'
  BY <1>1, <1>2, <1>3 DEF IInv, TypeOK, FreshIds, TokensOK
<1>6. KeysOK'
  <2>1. \A s \in ScopeIds : s # i => scopes'[s] = scopes[s]
    BY <1>1 DEF IInv, TypeOK
  <2>2. ASSUME NEW t \in ToolIds, tools'[t] # None, NEW s \in tools'[t].scopes
        PROVE  scopes'[s] # None
    BY <1>2, <2>1, <2>2, Typed DEF IInv, KeysOK
  <2>3. ASSUME NEW r \in RowIds, rows'[r] # None, rows'[r].scope # None
        PROVE  scopes'[rows'[r].scope] # None
    BY <1>3, <2>1, <2>3, Typed DEF IInv, KeysOK
  <2> QED
    BY <2>2, <2>3 DEF KeysOK
<1>7. RowsTold'
  BY <1>1, <1>3 DEF IInv, TypeOK, RowsTold, Row
<1>8. StoreGrows
  BY <1>1, <1>2, <1>3 DEF IInv, TypeOK, StoreGrows
<1>9. \A t \in ToolIds : tools[t] # None => tools'[t] # None
  BY <1>2
<1> QED
  BY <1>1, <1>4, <1>5, <1>6, <1>7, <1>8, <1>9, LogKept, OperatorStep DEF TablesOK

(***************************************************************************)
(* What a search finds was told to the scopes that it searches.            *)
(***************************************************************************)
LEMMA FoundTold ==
    ASSUME TypeOK, RowsTold, NEW names \in SUBSET Names
    PROVE  Found(names) \subseteq names
<1> SUFFICES ASSUME NEW n \in Found(names)
             PROVE  n \in names
  OBVIOUS
<1>1. names # None
  OBVIOUS
<1>2. PICK i \in RowIds : rows[i] # None /\ ScopeNameOf(i) \in names /\ n \in rows[i].made
  BY <1>1 DEF Found
<1>3. rows[i].scope # None
  BY <1>2 DEF ScopeNameOf
<1> QED
  BY <1>2, <1>3 DEF RowsTold, ScopeNameOf

(* A row put into a scope that is there, or that is added with it. *)
LEMMA RowAdded ==
    ASSUME IInv, NEW i \in ScopeIds, NEW n \in Names, NEW made \in SUBSET {n},
           scopes[i] = n \/ i = next.scope, next.row \in RowIds,
           scopes' = [scopes EXCEPT ![i] = n],
           rows' = [rows EXCEPT ![next.row] = [scope |-> i, made |-> made]],
           next' = [next EXCEPT !.row = @ + 1, !.scope = IF i = @ THEN @ + 1 ELSE @],
           UNCHANGED <<tools, rotating, issuedTo>>,
           sess' \in [Sess -> Session], audit' \subseteq Entry,
           owed' \subseteq Sess \X (1..MaxCalls)
    PROVE  TablesOK' /\ StoreGrows
<1> DEFINE row == [scope |-> i, made |-> made]
<1>1. TypeOK /\ next \in Counters /\ next.scope \in Nat /\ next.row \in Nat
      /\ next.tool \in Nat /\ next.token \in Nat
  BY Typed DEF IInv
<1>2. /\ next' \in Counters /\ next'.tool = next.tool /\ next'.token = next.token
      /\ next'.row = next.row + 1
      /\ next'.scope = IF i = next.scope THEN next.scope + 1 ELSE next.scope
  <2>1. next' = [tool |-> next.tool, token |-> next.token, row |-> next.row + 1,
                 scope |-> IF i = next.scope THEN next.scope + 1 ELSE next.scope]
    BY <1>1 DEF Counters
  <2>2. /\ next.tool \in 1..(MaxTool + 1) /\ next.token \in 1..(MaxToken + 1)
        /\ next.row + 1 \in 1..(MaxRow + 1) /\ next.scope \in 1..(MaxScope + 1)
        /\ i = next.scope => next.scope + 1 \in 1..(MaxScope + 1)
    BY <1>1 DEF Counters
  <2> QED
    BY <2>1, <2>2 DEF Counters
<1>3. row \in Row /\ row # None /\ n # None
  BY DEF Row
<1>4. /\ \A j \in ScopeIds : scopes'[j] = IF j = i THEN n ELSE scopes[j]
      /\ \A j \in RowIds : rows'[j] = IF j = next.row THEN row ELSE rows[j]
  BY <1>1 DEF TypeOK
<1>5. \A j \in ScopeIds : scopes[j] # None => j < next.scope /\ scopes'[j] = scopes[j]
  BY <1>1, <1>4 DEF IInv, FreshIds
<1>6. TypeOK'
  BY <1>1, <1>2, <1>3 DEF TypeOK, Counters
<1>7. FreshIds'
  <2>1. \A j \in ScopeIds : j >= next'.scope => scopes'[j] = None
    BY <1>1, <1>2, <1>3, <1>4, <1>5 DEF IInv, FreshIds
  <2>2. \A j \in RowIds : j >= next'.row => rows'[j] = None
    BY <1>1, <1>2, <1>4 DEF IInv, FreshIds
  <2> QED
    BY <1>2, <2>1, <2>2 DEF IInv, FreshIds
<1>8. TokensOK'
  BY <1>2 DEF IInv, TokensOK
<1>9. KeysOK'
  <2>1. \A t \in ToolIds : tools[t] # None => \A s \in tools[t].scopes : scopes'[s] # None
    BY <1>1, <1>5, Typed DEF IInv, KeysOK
  <2>2. ASSUME NEW j \in RowIds, rows'[j] # None, rows'[j].scope # None
        PROVE  scopes'[rows'[j].scope] # None
    BY <1>1, <1>3, <1>4, <1>5, <2>2, Typed DEF IInv, KeysOK
  <2> QED
    BY <2>1, <2>2 DEF KeysOK
<1>10. RowsTold'
  <2>1. ASSUME NEW j \in RowIds, rows'[j] # None, rows'[j].scope # None
        PROVE  rows'[j].made \subseteq {scopes'[rows'[j].scope]}
    <3>1. CASE j = next.row
      BY <1>4, <3>1
    <3>2. CASE j # next.row
      BY <1>1, <1>4, <1>5, <2>1, <3>2, Typed DEF IInv, KeysOK, RowsTold
    <3> QED
      BY <3>1, <3>2
  <2> QED
    BY <2>1 DEF RowsTold
<1>11. StoreGrows
  <2>1. \A j \in ScopeIds : j < next.scope => scopes'[j] \in {scopes[j], None}
    BY <1>1, <1>4
  <2>2. \A j \in RowIds : j < next.row => rows'[j] = rows[j]
    BY <1>1, <1>4
  <2> QED
    BY <1>1, <1>2, <2>1, <2>2 DEF StoreGrows
<1> QED
  BY <1>6, <1>7, <1>8, <1>9, <1>10, <1>11 DEF TablesOK

(* A scope added by itself. *)
LEMMA ScopeAdded ==
    ASSUME IInv, NEW n \in Names, next.scope \in ScopeIds,
           scopes' = [scopes EXCEPT ![next.scope] = n],
           next' = [next EXCEPT !.scope = @ + 1],
           UNCHANGED <<tools, rows, rotating, issuedTo>>,
           sess' \in [Sess -> Session], audit' \subseteq Entry,
           owed' \subseteq Sess \X (1..MaxCalls)
    PROVE  TablesOK' /\ StoreGrows
<1>1. TypeOK /\ next \in Counters /\ next.scope \in Nat /\ next.row \in Nat
      /\ next.tool \in Nat /\ next.token \in Nat
  BY Typed DEF IInv
<1>2. /\ next' \in Counters /\ next'.tool = next.tool /\ next'.token = next.token
      /\ next'.row = next.row /\ next'.scope = next.scope + 1
  BY <1>1 DEF Counters
<1>3. n # None
  OBVIOUS
<1>4. \A j \in ScopeIds : scopes'[j] = IF j = next.scope THEN n ELSE scopes[j]
  BY <1>1 DEF TypeOK
<1>5. \A j \in ScopeIds : scopes[j] # None => j < next.scope /\ scopes'[j] = scopes[j]
  BY <1>1, <1>4 DEF IInv, FreshIds
<1>6. TypeOK'
  BY <1>1, <1>2 DEF TypeOK, Counters
<1>7. FreshIds'
  BY <1>1, <1>2, <1>4, <1>5 DEF IInv, FreshIds
<1>8. TokensOK'
  BY <1>2 DEF IInv, TokensOK
<1>9. KeysOK'
  BY <1>1, <1>5, Typed DEF IInv, KeysOK
<1>10. RowsTold'
  BY <1>1, <1>5, Typed DEF IInv, KeysOK, RowsTold
<1>11. StoreGrows
  BY <1>1, <1>2, <1>4 DEF StoreGrows
<1> QED
  BY <1>6, <1>7, <1>8, <1>9, <1>10, <1>11 DEF TablesOK

LEMMA CliWriteStep ==
    ASSUME IInv, NEW n \in Names, NEW made \in SUBSET {n}, CliWrite(n, made)
    PROVE  IInv'
<1>1. PICK i \in ScopeIds :
        /\ IF ScopeNamed(n) # {} THEN scopes[i] = n ELSE i = next.scope
        /\ scopes' = [scopes EXCEPT ![i] = n]
        /\ rows' = [rows EXCEPT ![next.row] = [scope |-> i, made |-> made]]
        /\ next' = [next EXCEPT !.row = @ + 1, !.scope = IF i = @ THEN @ + 1 ELSE @]
  BY DEF CliWrite
<1>2. next.row \in RowIds /\ UNCHANGED <<tools, rotating, sess, audit, issuedTo, owed>>
  BY DEF CliWrite
<1>3. /\ sess \in [Sess -> Session] /\ audit \subseteq Entry
      /\ owed \subseteq Sess \X (1..MaxCalls)
  BY DEF IInv, TypeOK
<1>4. TablesOK' /\ StoreGrows
  BY <1>1, <1>2, <1>3, RowAdded
<1> QED
  BY <1>2, <1>4, LogKept, OperatorStep

LEMMA OperatorSteps == ASSUME IInv, Operator PROVE IInv'
<1>1. ASSUME NEW n \in ToolNames, NEW granted \in SUBSET Names, NEW w \in BOOLEAN,
             Connect(n, granted, w)
      PROVE  IInv'
  BY <1>1, AddToolStep, RotateFindStep DEF Connect, ToolAdd, ToolNamed
<1>2. ASSUME NEW n \in Names, CliRemember(n) PROVE IInv'
  BY <1>2, CliWriteStep DEF CliRemember
<1>3. ASSUME NEW n \in Names \cup {None}, CliSummarize(n) PROVE IInv'
  BY <1>3, CliWriteStep, FoundTold DEF CliSummarize, IInv
<1> QED
  BY <1>1, <1>2, <1>3, RevokeStep, RotateFindStep, RotateUpdateStep, RemoveScopeStep
     DEF Operator

-----------------------------------------------------------------------------
(***************************************************************************)
(* How a session may go on: it keeps its tool once it has one, and from    *)
(* inside a call it stays inside the same call.                            *)
(***************************************************************************)
Continues(x, y) ==
    /\ x.stage = "off" \/ y.tool = x.tool
    /\ \/ x.stage \in {"off", "auth"}
       \/ /\ y.stage \notin {"off", "auth"}
          /\ x.stage = "idle" \/ (y.calls = x.calls /\ y.stage # "idle")

(* The call of a session as it was authenticated. *)
SameCaller(x, call) ==
    /\ x.stage \notin {"off", "auth"} /\ call.calls >= 1
    /\ call.tool = x.tool /\ call.name = x.name
    /\ call.grants = x.grants /\ call.write = x.write
    /\ x.stage = "idle" \/ call.calls = x.calls

LEMMA SessTyped == ASSUME IInv, NEW s \in Sess PROVE sess[s] \in Session /\ Fits(sess[s])
BY DEF IInv, TypeOK, SessionsOK

(* A step of session s that writes no audit row and takes no tool away. *)
LEMMA SessionStep ==
    ASSUME IInv, NEW s \in Sess, NEW y \in Session, Set(s, y), TablesOK', StoreGrows,
           UNCHANGED <<tools, audit>>,
           \A o \in owed' : o \in owed \/ (o = <<s, y.calls>> /\ y.stage = "record"),
           Continues(sess[s], y), Fits(sess[s])'
    PROVE  IInv'
<1>1. sess'[s] = y /\ \A t \in Sess : t # s => sess'[t] = sess[t]
  BY DEF Set, IInv, TypeOK
<1>2. SessionsOK'
  <2>1. ASSUME NEW t \in Sess, t # s PROVE Fits(sess[t])'
    BY <1>1, <2>1, FitsKept DEF TablesOK
  <2> QED
    BY <2>1 DEF SessionsOK
<1>3. owed \subseteq Sess \X (1..MaxCalls) /\ owed' \subseteq Sess \X (1..MaxCalls)
  BY DEF IInv, TablesOK, TypeOK
<1>4. OwedOK'
  <2> SUFFICES ASSUME NEW o \in owed' PROVE sess'[o[1]].stage \notin {"off", "auth"}
    BY DEF OwedOK
  <2>1. CASE o = <<s, y.calls>> /\ y.stage = "record"
    BY <1>1, <2>1
  <2>2. CASE o \in owed
    BY <1>1, <1>3, <2>2 DEF IInv, OwedOK, Continues
  <2> QED
    BY <2>1, <2>2
<1>5. AuditNamesTool'
  <2> SUFFICES ASSUME NEW e \in audit, e.tool # None
               PROVE  /\ tools[e.tool] # None
                      /\ e.tool = sess'[e.sess].tool /\ e.name = tools[e.tool].name
    BY DEF AuditNamesTool
  <2>1. /\ tools[e.tool] # None /\ e.name = tools[e.tool].name
        /\ e.tool = sess[e.sess].tool /\ e.sess \in Sess
    BY DEF IInv, AuditNamesTool, TypeOK, Entry
  <2>2. sess[s].stage = "off" => sess[s].tool = None
    BY SessTyped DEF Fits, IdentityOK
  <2> QED
    BY <1>1, <2>1, <2>2 DEF Continues
<1>6. AuditedUnlessRevoked'
  <2> SUFFICES ASSUME NEW o \in owed'
               PROVE  \/ Audited(o[1], o[2])'
                      \/ o[2] = sess'[o[1]].calls /\ sess'[o[1]].stage # "idle"
                      \/ tools'[sess'[o[1]].tool] = None
    BY DEF AuditedUnlessRevoked
  <2>1. CASE o = <<s, y.calls>> /\ y.stage = "record"
    BY <1>1, <2>1
  <2>2. CASE o \in owed
    <3>1. /\ o[1] \in Sess /\ sess[o[1]].stage \notin {"off", "auth"}
          /\ \/ Audited(o[1], o[2])
             \/ o[2] = sess[o[1]].calls /\ sess[o[1]].stage # "idle"
             \/ tools[sess[o[1]].tool] = None
      BY <1>3, <2>2 DEF IInv, OwedOK, AuditedUnlessRevoked
    <3>2. Audited(o[1], o[2]) => Audited(o[1], o[2])'
      BY DEF Audited
    <3> QED
      BY <1>1, <3>1, <3>2 DEF Continues
  <2> QED
    BY <2>1, <2>2
<1> QED
  BY <1>2, <1>4, <1>5, <1>6 DEF IInv, TablesOK

(* A step of a session that leaves the tables alone. *)
LEMMA QuietStep ==
    ASSUME IInv, NEW s \in Sess, NEW y \in Session, Set(s, y), UNCHANGED <<store, audit>>,
           \A o \in owed' : o \in owed \/ (o = <<s, y.calls>> /\ y.stage = "record"),
           Continues(sess[s], y), Fits(y)
    PROVE  IInv'
<1>1. UNCHANGED <<scopes, tools, rows, next, rotating, issuedTo>>
  BY DEF store
<1>2. sess' \in [Sess -> Session] /\ sess'[s] = y
  BY DEF Set, IInv, TypeOK
<1>3. owed' \subseteq Sess \X (1..MaxCalls)
  <2>1. y.stage = "record" => y.calls \in 1..MaxCalls
    BY DEF Fits, IdentityOK, Session
  <2> QED
    BY <2>1 DEF IInv, TypeOK
<1>4. TypeOK'
  BY <1>1, <1>2, <1>3 DEF IInv, TypeOK
<1>5. TablesOK' /\ StoreGrows
  BY <1>1, <1>4, StoreSame
     DEF IInv, TablesOK, FreshIds, TokensOK, KeysOK, RowsTold
<1>6. Fits(sess[s])'
  BY <1>1, <1>2 DEF Fits, IdentityOK, HandsOK, ScopeNameOf, WritableBy
<1> QED
  BY <1>1, <1>5, <1>6, SessionStep

(* A call is settled, and its audit row is to be written. *)
LEMMA SettleStep ==
    ASSUME IInv, NEW s \in Sess, NEW call \in Session, NEW o \in Outcomes,
           Settle(s, call, o), UNCHANGED <<store, audit>>,
           \A q \in owed' : q \in owed \/ q = <<s, call.calls>>,
           SameCaller(sess[s], call), o = "ok" => call.made \subseteq call.grants
    PROVE  IInv'
<1> DEFINE y == [call EXCEPT !.stage = "record", !.outcome = o, !.target = None,
                             !.made = IF o = "ok" THEN @ ELSE {}]
<1>1. y \in Session
  BY DEF Session
<1>2. /\ y.stage = "record" /\ y.calls = call.calls /\ y.tool = call.tool
      /\ y.name = call.name /\ y.grants = call.grants /\ y.made \subseteq y.grants
  BY DEF Session
<1>3. Continues(sess[s], y)
  BY <1>2 DEF Continues, SameCaller
<1>4. Fits(y)
  BY <1>2, SessTyped DEF Fits, IdentityOK, HandsOK, SameCaller
<1>5. Set(s, y)
  BY DEF Settle
<1> HIDE DEF y
<1> QED
  BY <1>1, <1>2, <1>3, <1>4, <1>5, QuietStep

LEMMA CallingFits ==
    ASSUME IInv, NEW s \in Sess, MayCall(s)
    PROVE  /\ Calling(s) \in Session /\ SameCaller(sess[s], Calling(s))
           /\ Calling(s).calls = sess[s].calls + 1
<1>1. sess[s] \in Session /\ sess[s].calls + 1 \in 1..MaxCalls
  BY SessTyped DEF Session, MayCall
<1> QED
  BY <1>1 DEF Session, Calling, SameCaller, MayCall

(* Within a call the session is the caller. *)
LEMMA WithinCall ==
    ASSUME IInv, NEW s \in Sess, sess[s].stage \in {"llm", "insert", "delete", "record"}
    PROVE  sess[s] \in Session /\ SameCaller(sess[s], sess[s])
BY SessTyped DEF SameCaller, Fits, IdentityOK

LEMMA DenyStep ==
    ASSUME IInv, NEW s \in Sess, MayCall(s), Deny(s)
    PROVE  IInv'
BY CallingFits, SettleStep DEF Deny, Keep, Outcomes

-----------------------------------------------------------------------------
LEMMA AuthenticateStep ==
    ASSUME IInv, NEW s \in Sess, NEW t \in Tokens, Authenticate(s, t)
    PROVE  IInv'
<1>1. PICK i \in ToolIds :
        /\ tools[i] # None
        /\ Set(s, [sess[s] EXCEPT !.stage = "auth", !.tool = i,
                                  !.name = tools[i].name, !.write = tools[i].write])
  BY DEF Authenticate
<1> DEFINE y == [sess[s] EXCEPT !.stage = "auth", !.tool = i,
                                !.name = tools[i].name, !.write = tools[i].write]
<1>2. tools[i].name \in ToolNames /\ tools[i].write \in BOOLEAN /\ i < next.tool
  BY <1>1, Typed DEF IInv, Tool, FreshIds
<1>3. /\ sess[s] \in Session /\ sess[s].stage = "off" /\ sess[s].calls = 0
      /\ Fits(sess[s])
  BY SessTyped DEF Authenticate, Fits, IdentityOK
<1>4. /\ y \in Session /\ y.stage = "auth" /\ y.calls = 0 /\ y.tool = i
      /\ y.name = tools[i].name /\ y.made = sess[s].made /\ y.grants = sess[s].grants
  BY <1>2, <1>3 DEF Session
<1>5. Fits(y) /\ Continues(sess[s], y)
  BY <1>2, <1>3, <1>4 DEF Fits, IdentityOK, HandsOK, Continues
<1>6. Set(s, y) /\ UNCHANGED store /\ UNCHANGED audit /\ owed' = owed
  BY <1>1 DEF Authenticate, Keep
<1> HIDE DEF y
<1> QED
  BY <1>4, <1>5, <1>6, QuietStep

LEMMA ReadGrantsStep ==
    ASSUME IInv, NEW s \in Sess, ReadGrants(s)
    PROVE  IInv'
<1> DEFINE t == tools[sess[s].tool]
           g == IF t = None THEN {} ELSE {scopes[i] : i \in t.scopes}
           y == [sess[s] EXCEPT !.stage = "idle", !.grants = g]
<1>1. sess[s] \in Session /\ sess[s].stage = "auth" /\ Fits(sess[s])
  BY SessTyped DEF ReadGrants
<1>2. sess[s].tool \in ToolIds
  BY <1>1 DEF Fits, IdentityOK
<1>3. g \in SUBSET Names
  BY <1>2, Typed DEF IInv, KeysOK
<1> HIDE DEF g
<1>4. /\ y \in Session /\ y.stage = "idle" /\ y.calls = sess[s].calls
      /\ y.tool = sess[s].tool /\ y.name = sess[s].name /\ y.made = sess[s].made
  BY <1>1, <1>3 DEF Session
<1>5. Fits(y) /\ Continues(sess[s], y)
  BY <1>1, <1>4 DEF Fits, IdentityOK, HandsOK, Continues
<1>6. Set(s, y) /\ UNCHANGED store /\ UNCHANGED audit /\ owed' = owed
  BY DEF ReadGrants, Keep, g
<1> HIDE DEF y
<1> QED
  BY <1>4, <1>5, <1>6, QuietStep

LEMMA ResolveScopeStep ==
    ASSUME IInv, NEW s \in Sess, NEW call \in Session, SameCaller(sess[s], call),
           NEW n \in Names, n \in WritableBy(call), call.made \subseteq {n},
           ResolveScope(s, n, call)
    PROVE  IInv'
<1>1. ASSUME NEW i \in ScopeNamed(n),
             Set(s, [call EXCEPT !.stage = "insert", !.target = i]), UNCHANGED store
      PROVE  IInv'
  <2> DEFINE y == [call EXCEPT !.stage = "insert", !.target = i]
  <2>1. i \in ScopeIds /\ scopes[i] = n /\ n # None
    BY DEF ScopeNamed
  <2>2. i < next.scope
    BY <2>1, Typed DEF IInv, FreshIds
  <2>3. /\ y \in Session /\ y.stage = "insert" /\ y.target = i /\ y.calls = call.calls
        /\ y.tool = call.tool /\ y.name = call.name /\ y.grants = call.grants
        /\ y.write = call.write /\ y.made = call.made
    BY <2>1 DEF Session
  <2>4. Fits(y) /\ Continues(sess[s], y)
    BY <2>1, <2>2, <2>3, SessTyped
       DEF Fits, IdentityOK, HandsOK, Continues, SameCaller, WritableBy
  <2>5. Set(s, y) /\ UNCHANGED store /\ UNCHANGED audit /\ owed' = owed
    BY <1>1 DEF ResolveScope, Keep
  <2> HIDE DEF y
  <2> QED
    BY <2>3, <2>4, <2>5, QuietStep
<1>2. ASSUME next.scope \in ScopeIds,
             Set(s, [call EXCEPT !.stage = "insert", !.target = next.scope]),
             scopes' = [scopes EXCEPT ![next.scope] = n],
             next' = [next EXCEPT !.scope = @ + 1],
             UNCHANGED <<tools, rows, rotating, issuedTo, owed, audit>>
      PROVE  IInv'
  <2> DEFINE y == [call EXCEPT !.stage = "insert", !.target = next.scope]
  <2>1. /\ y \in Session /\ y.stage = "insert" /\ y.target = next.scope
        /\ y.calls = call.calls /\ y.tool = call.tool /\ y.name = call.name
        /\ y.grants = call.grants /\ y.write = call.write /\ y.made = call.made
    BY <1>2 DEF Session
  <2>2. sess' \in [Sess -> Session] /\ sess'[s] = y
    BY <1>2, <2>1 DEF Set, IInv, TypeOK
  <2> HIDE DEF y
  <2>3. TablesOK' /\ StoreGrows
    BY <1>2, <2>2, ScopeAdded DEF IInv, TypeOK
  <2>4. scopes'[next.scope] = n /\ next'.scope > next.scope /\ next'.tool = next.tool
    BY <1>2, Typed DEF IInv, TypeOK, Counters
  <2>5. Continues(sess[s], y)
    BY <2>1 DEF Continues, SameCaller
  <2>6. Fits(sess[s])'
    <3>1. IdentityOK(sess[s])'
      BY <1>2, <2>1, <2>2, <2>4, SessTyped DEF Fits, IdentityOK, SameCaller
    <3>2. HandsOK(sess[s])'
      BY <1>2, <2>1, <2>2, <2>4 DEF HandsOK, WritableBy
    <3> QED
      BY <3>1, <3>2 DEF Fits
  <2>7. Set(s, y)
    BY <1>2 DEF y
  <2> QED
    BY <1>2, <2>1, <2>3, <2>5, <2>6, <2>7, SessionStep
<1> QED
  BY <1>1, <1>2 DEF ResolveScope, Keep

LEMMA RememberStep ==
    ASSUME IInv, NEW s \in Sess, NEW requested \in SUBSET Names, Remember(s, requested)
    PROVE  IInv'
<1>1. MayCall(s) /\ sess[s] \in Session
  BY SessTyped DEF Remember
<1>2. ASSUME NEW n \in Writable(s) \cap requested,
             ResolveScope(s, n, [Calling(s) EXCEPT !.made = {n}])
      PROVE  IInv'
  <2> DEFINE call == [Calling(s) EXCEPT !.made = {n}]
  <2>1. /\ Calling(s) \in Session /\ SameCaller(sess[s], Calling(s))
        /\ n \in Names /\ n \in WritableBy(sess[s])
    BY <1>1, <1>2, CallingFits DEF Writable, WritableBy
  <2>2. /\ call \in Session /\ SameCaller(sess[s], call) /\ call.made = {n}
        /\ n \in WritableBy(call)
    BY <2>1 DEF Session, SameCaller, WritableBy
  <2> HIDE DEF call
  <2> QED
    BY <1>2, <2>1, <2>2, ResolveScopeStep DEF call
<1> QED
  BY <1>1, <1>2, DenyStep DEF Remember

LEMMA InsertRowStep ==
    ASSUME IInv, NEW s \in Sess, InsertRow(s)
    PROVE  IInv'
<1> DEFINE x == sess[s]
<1>1. /\ x \in Session /\ x.stage = "insert" /\ SameCaller(x, x) /\ Fits(x)
      /\ x.target \in ScopeIds /\ x.target < next.scope
  BY SessTyped, WithinCall DEF InsertRow, Fits, HandsOK
<1>2. CASE scopes[x.target] = None
  <2>1. Settle(s, x, "error") /\ UNCHANGED store /\ UNCHANGED audit /\ owed' = owed
    BY <1>2 DEF InsertRow, store
  <2> QED
    BY <1>1, <2>1, SettleStep DEF Outcomes
<1>3. CASE scopes[x.target] # None
  <2>1. /\ next.row \in RowIds
        /\ rows' = [rows EXCEPT ![next.row] = [scope |-> x.target, made |-> x.made]]
        /\ next' = [next EXCEPT !.row = @ + 1]
        /\ owed' = owed \cup {<<s, x.calls>>}
        /\ UNCHANGED <<scopes, tools, rotating, issuedTo, audit>>
    BY <1>3 DEF InsertRow
  <2>2. PICK o \in {"ok", "error"} : Settle(s, x, o)
    BY <1>3 DEF InsertRow
  <2> DEFINE y == [x EXCEPT !.stage = "record", !.outcome = o, !.target = None,
                            !.made = IF o = "ok" THEN @ ELSE {}]
             n == scopes[x.target]
  <2>3. /\ y \in Session /\ y.stage = "record" /\ y.calls = x.calls /\ y.tool = x.tool
        /\ y.name = x.name /\ y.grants = x.grants /\ y.made \subseteq x.made
        /\ Set(s, y)
    BY <1>1, <2>2 DEF Session, Outcomes, Settle
  <2> HIDE DEF y
  <2>4. sess' \in [Sess -> Session] /\ sess'[s] = y
    BY <2>3 DEF Set, IInv, TypeOK
  <2>5. x.calls \in 1..MaxCalls
    BY <1>1 DEF Session, SameCaller
  <2>6. owed' \subseteq Sess \X (1..MaxCalls) /\ audit' \subseteq Entry
    BY <2>1, <2>5 DEF IInv, TypeOK
  <2>7. /\ scopes[x.target] = n /\ n \in Names /\ x.made \in SUBSET {n} /\ scopes \in [ScopeIds -> Names \cup {None}]
        /\ next \in Counters
    BY <1>1, <1>3, Typed DEF Fits, HandsOK, IInv, TypeOK
  <2>8. /\ scopes' = [scopes EXCEPT ![x.target] = n]
        /\ next' = [next EXCEPT !.row = @ + 1, !.scope = IF x.target = @ THEN @ + 1 ELSE @]
    <3>1. next.scope \in Nat /\ x.target # next.scope
      BY <1>1, <2>7 DEF Counters
    <3>2. scopes = [scopes EXCEPT ![x.target] = n]
      BY <1>1, <2>7
    <3>3. [next EXCEPT !.row = @ + 1] =
            [next EXCEPT !.row = @ + 1, !.scope = IF x.target = @ THEN @ + 1 ELSE @]
      BY <2>7, <3>1 DEF Counters
    <3> QED
      BY <2>1, <3>2, <3>3
  <2>9. TablesOK' /\ StoreGrows
    <3> HIDE DEF n, x
    <3> QED
      BY <1>1, <2>1, <2>4, <2>6, <2>7, <2>8, RowAdded
  <2>10. Continues(x, y)
    BY <1>1, <2>3 DEF Continues, SameCaller
  <2>11. Fits(sess[s])'
    <3>1. next'.tool = next.tool
      BY <2>1, <2>7 DEF Counters
    <3>2. IdentityOK(sess[s])'
      BY <1>1, <2>1, <2>3, <2>4, <3>1 DEF Fits, IdentityOK
    <3>3. HandsOK(sess[s])'
      BY <1>1, <2>3, <2>4 DEF Fits, HandsOK
    <3> QED
      BY <3>2, <3>3 DEF Fits
  <2> QED
    BY <2>1, <2>3, <2>9, <2>10, <2>11, SessionStep
<1> QED
  BY <1>2, <1>3

LEMMA CheckForgetStep ==
    ASSUME IInv, NEW s \in Sess, NEW i \in RowIds, CheckForget(s, i)
    PROVE  IInv'
<1> DEFINE call == Calling(s)
           y == [call EXCEPT !.stage = "delete", !.target = i]
<1>1. /\ MayCall(s) /\ call \in Session /\ SameCaller(sess[s], call)
      /\ call.made \subseteq call.made /\ UNCHANGED store /\ UNCHANGED audit /\ owed' = owed
  BY CallingFits DEF CheckForget, Keep
<1>2. CASE rows[i] # None /\ ScopeNameOf(i) \in Writable(s)
  <2>1. Set(s, y)
    BY <1>2 DEF CheckForget
  <2>2. i < next.row
    BY <1>2, Typed DEF IInv, FreshIds
  <2>3. /\ y \in Session /\ y.stage = "delete" /\ y.target = i /\ y.calls = call.calls
        /\ y.tool = call.tool /\ y.name = call.name /\ y.grants = call.grants
        /\ y.write = call.write /\ y.made = call.made
    BY <1>1 DEF Session
  <2>0. call.made \subseteq call.grants
    BY SessTyped DEF Calling, Session, Fits, HandsOK
  <2> HIDE DEF y, call
  <2>4. Continues(sess[s], y)
    BY <1>1, <2>3 DEF Continues, SameCaller
  <2>5. IdentityOK(y)
    BY <1>1, <2>3, SessTyped DEF Fits, IdentityOK, SameCaller
  <2>6. HandsOK(y)
    BY <1>1, <1>2, <2>2, <2>3, <2>0 DEF HandsOK, SameCaller, Writable, WritableBy
  <2> QED
    BY <1>1, <2>1, <2>3, <2>4, <2>5, <2>6, QuietStep DEF Fits
<1>3. CASE ~(rows[i] # None /\ ScopeNameOf(i) \in Writable(s))
  <2>1. Settle(s, call, "ok")
    BY <1>3 DEF CheckForget
  <2>2. call.made \subseteq call.grants
    BY SessTyped DEF Calling, Session, Fits, HandsOK
  <2> HIDE DEF call
  <2> QED
    BY <1>1, <2>1, <2>2, SettleStep DEF Outcomes
<1> QED
  BY <1>2, <1>3

LEMMA DeleteRowStep ==
    ASSUME IInv, NEW s \in Sess, DeleteRow(s)
    PROVE  IInv'
<1> DEFINE x == sess[s]
           y == [x EXCEPT !.stage = "record", !.outcome = "ok", !.target = None]
<1>1. /\ x \in Session /\ x.stage = "delete" /\ SameCaller(x, x) /\ Fits(x)
      /\ x.target \in RowIds /\ x.calls \in 1..MaxCalls
  BY SessTyped, WithinCall DEF DeleteRow, Fits, HandsOK, SameCaller, Session
<1>2. /\ rows' = [rows EXCEPT ![x.target] = None]
      /\ \A o \in owed' : o \in owed \/ o = <<s, x.calls>>
      /\ UNCHANGED <<scopes, tools, next, rotating, issuedTo, audit>>
  BY DEF DeleteRow
<1>3. Set(s, y)
  BY <1>1 DEF DeleteRow, Settle, Session
<1>4. /\ y \in Session /\ y.stage = "record" /\ y.calls = x.calls /\ y.tool = x.tool
      /\ y.name = x.name /\ y.grants = x.grants /\ y.made = x.made
  BY <1>1 DEF Session, Outcomes
<1> HIDE DEF y
<1>5. sess' \in [Sess -> Session] /\ sess'[s] = y
  BY <1>3, <1>4 DEF Set, IInv, TypeOK
<1>6. TypeOK'
  <2>1. owed' \subseteq Sess \X (1..MaxCalls)
    BY <1>1, <1>2 DEF IInv, TypeOK
  <2> QED
    BY <1>1, <1>2, <1>5, <2>1 DEF IInv, TypeOK
<1>7. \A i \in RowIds : rows'[i] \in {rows[i], None}
  BY <1>1, <1>2 DEF IInv, TypeOK
<1>8. TablesOK'
  BY <1>2, <1>6, <1>7 DEF IInv, TablesOK, FreshIds, TokensOK, KeysOK, RowsTold
<1>9. StoreGrows
  BY <1>2, <1>7, Typed DEF IInv, StoreGrows
<1>10. Continues(x, y)
  BY <1>1, <1>4 DEF Continues, SameCaller
<1>11. Fits(sess[s])'
  BY <1>1, <1>2, <1>4, <1>5 DEF Fits, IdentityOK, HandsOK
<1> QED
  BY <1>2, <1>3, <1>4, <1>8, <1>9, <1>10, <1>11, SessionStep

(* A search, which only finds what its filter lets through. *)
LEMMA AnswerStep ==
    ASSUME IInv, NEW s \in Sess, NEW n \in Names \cup {None}, MayCall(s),
           Answer(s, n) \/ Settle(s, Calling(s), "ok"), UNCHANGED <<store, audit>>,
           \A q \in owed' : q \in owed \/ q = <<s, sess[s].calls + 1>>
    PROVE  IInv'
<1> DEFINE call == Calling(s)
           found == [call EXCEPT !.made = Found(ReadFilter(s, n))]
<1>1. /\ call \in Session /\ SameCaller(sess[s], call)
      /\ call.calls = sess[s].calls + 1 /\ call.made \subseteq call.grants
  BY SessTyped, CallingFits DEF Calling, Session, Fits, HandsOK
<1>2. ASSUME Readable(s, n)
      PROVE  /\ found \in Session /\ SameCaller(sess[s], found) /\ found.calls = call.calls
             /\ found.made \subseteq found.grants
  <2>1. ReadFilter(s, n) \subseteq sess[s].grants /\ sess[s].grants \subseteq Names
    BY <1>2, SessTyped DEF Readable, ReadFilter, Session
  <2>2. Found(ReadFilter(s, n)) \subseteq sess[s].grants
    BY <2>1, FoundTold DEF IInv
  <2>3. found \in Session /\ found.made = Found(ReadFilter(s, n))
    BY <1>1, <2>1, <2>2 DEF Session
  <2>4. /\ found.calls = call.calls /\ found.tool = call.tool /\ found.name = call.name
        /\ found.grants = call.grants /\ found.write = call.write
    BY <1>1 DEF Session
  <2> QED
    BY <1>1, <2>2, <2>3, <2>4 DEF SameCaller
<1>3. \/ Readable(s, n) /\ Settle(s, found, "ok")
      \/ \E o \in Outcomes : Settle(s, call, o)
  BY DEF Answer, Outcomes
<1> HIDE DEF call, found
<1> QED
  BY <1>1, <1>2, <1>3, SettleStep DEF Outcomes

LEMMA SummarizeStep ==
    ASSUME IInv, NEW s \in Sess, NEW n \in Names, NEW save \in BOOLEAN, Summarize(s, n, save)
    PROVE  IInv'
<1> DEFINE call == Calling(s)
           y == [call EXCEPT !.stage = "llm", !.made = Found({n}),
                             !.target = IF save THEN n ELSE None]
<1>1. /\ call \in Session /\ SameCaller(sess[s], call)
      /\ UNCHANGED store /\ UNCHANGED audit /\ owed' = owed
  BY CallingFits DEF Summarize, Keep
<1>2. \/ Set(s, y) /\ n \in (IF save THEN Writable(s) ELSE sess[s].grants)
      \/ Settle(s, call, "error")
      \/ Settle(s, call, "denied")
  BY DEF Summarize
<1>3. CASE Set(s, y) /\ n \in (IF save THEN Writable(s) ELSE sess[s].grants)
  <2>1. Found({n}) \subseteq {n} /\ Found({n}) \subseteq Names
    BY FoundTold DEF IInv
  <2>2. /\ y \in Session /\ y.stage = "llm" /\ y.target = (IF save THEN n ELSE None)
        /\ y.made \subseteq {n} /\ y.calls = call.calls /\ y.tool = call.tool
        /\ y.name = call.name /\ y.grants = call.grants /\ y.write = call.write
    BY <1>1, <2>1 DEF Session
  <2>3. n \in call.grants /\ (save => n \in WritableBy(call))
    BY <1>1, <1>3 DEF Writable, WritableBy, SameCaller
  <2> HIDE DEF call, y
  <2>4. Continues(sess[s], y)
    BY <1>1, <2>2 DEF Continues, SameCaller
  <2>5. IdentityOK(y)
    BY <1>1, <2>2, SessTyped DEF Fits, IdentityOK, SameCaller
  <2>6. HandsOK(y)
    BY <2>2, <2>3 DEF HandsOK, WritableBy
  <2> QED
    BY <1>1, <1>3, <2>2, <2>4, <2>5, <2>6, QuietStep DEF Fits
<1> HIDE DEF call, y
<1> QED
  BY <1>1, <1>2, <1>3, SettleStep DEF Outcomes

LEMMA SummarizedStep ==
    ASSUME IInv, NEW s \in Sess, Summarized(s) \/ LlmFails(s)
    PROVE  IInv'
<1> DEFINE x == sess[s]
<1>1. x \in Session /\ SameCaller(x, x) /\ Fits(x) /\ x.stage = "llm"
  BY SessTyped, WithinCall DEF Summarized, LlmFails
<1>2. CASE \E o \in {"ok", "error"} :
            Settle(s, x, o) /\ UNCHANGED store /\ UNCHANGED audit /\ owed' = owed
  <2>1. x.made \subseteq x.grants
    BY <1>1 DEF Fits, HandsOK
  <2> QED
    BY <1>1, <1>2, <2>1, SettleStep DEF Outcomes
<1>3. CASE x.target # None /\ ResolveScope(s, x.target, x)
  <2>1. x.target \in WritableBy(x) /\ x.made \subseteq {x.target}
    BY <1>1, <1>3 DEF Fits, HandsOK
  <2>2. x.target \in Names
    BY <1>1, <2>1 DEF WritableBy, Session
  <2> QED
    BY <1>1, <1>3, <2>1, <2>2, ResolveScopeStep
<1> QED
  BY <1>2, <1>3 DEF Summarized, LlmFails, Keep

LEMMA StopStep ==
    ASSUME IInv, NEW s \in Sess, Stop(s)
    PROVE  IInv'
<1> DEFINE y == [sess[s] EXCEPT !.stage = "dead", !.grants = {}, !.write = FALSE,
                                !.target = None, !.made = {}, !.outcome = None]
<1>1. sess[s] \in Session /\ Fits(sess[s]) /\ sess[s].stage # "off"
  BY SessTyped DEF Stop
<1>2. /\ y \in Session /\ y.stage = "dead" /\ y.calls = sess[s].calls
      /\ y.tool = sess[s].tool /\ y.name = sess[s].name /\ y.made = {} /\ y.grants = {}
  BY <1>1 DEF Session
<1>3. Set(s, y) /\ UNCHANGED store /\ UNCHANGED audit /\ owed' = owed
  BY DEF Stop, Keep
<1> HIDE DEF y
<1>4. Fits(y) /\ Continues(sess[s], y)
  BY <1>1, <1>2 DEF Fits, IdentityOK, HandsOK, Continues
<1> QED
  BY <1>2, <1>3, <1>4, QuietStep

(***************************************************************************)
(* The audit row of a call: from here on the call is told by the log, or   *)
(* its tool is gone.                                                       *)
(***************************************************************************)
LEMMA RecordStep ==
    ASSUME IInv, NEW s \in Sess, Record(s)
    PROVE  IInv'
<1> DEFINE x == sess[s]
           y == [x EXCEPT !.stage = "idle", !.outcome = None, !.made = {}]
<1>1. /\ x \in Session /\ x.stage = "record" /\ Fits(x) /\ x.calls \in 1..MaxCalls
      /\ x.tool \in ToolIds /\ x.name \in ToolNames
      /\ tools[x.tool] # None => tools[x.tool].name = x.name
  BY SessTyped DEF Record, Fits, IdentityOK, Session
<1>2. /\ audit' = IF tools[x.tool] = None THEN audit ELSE audit \cup {EntryOf(s)}
      /\ owed' = owed \cup {<<s, x.calls>>}
      /\ UNCHANGED <<scopes, tools, rows, next, rotating, issuedTo>> /\ UNCHANGED store
      /\ Set(s, y)
  BY DEF Record, store
<1>3. /\ y \in Session /\ y.stage = "idle" /\ y.calls = x.calls /\ y.tool = x.tool
      /\ y.name = x.name /\ y.grants = x.grants /\ y.made = {}
  BY <1>1 DEF Session
<1> HIDE DEF y
<1>4. /\ sess' \in [Sess -> Session] /\ sess'[s] = y
      /\ \A t \in Sess : t # s => sess'[t] = sess[t]
  BY <1>2, <1>3 DEF Set, IInv, TypeOK
<1>5. /\ EntryOf(s) \in Entry /\ EntryOf(s).sess = s /\ EntryOf(s).call = x.calls
      /\ EntryOf(s).tool = x.tool /\ EntryOf(s).name = x.name
  BY <1>1 DEF EntryOf, Entry
<1>6. audit' \subseteq Entry /\ audit \subseteq audit'
  BY <1>2, <1>5 DEF IInv, TypeOK
<1>7. owed' \subseteq Sess \X (1..MaxCalls) /\ owed \subseteq Sess \X (1..MaxCalls)
  BY <1>1, <1>2 DEF IInv, TypeOK
<1>8. TypeOK'
  BY <1>2, <1>4, <1>6, <1>7 DEF IInv, TypeOK
<1>9. TablesOK' /\ StoreGrows
  BY <1>2, <1>8, StoreSame DEF IInv, TablesOK, FreshIds, TokensOK, KeysOK, RowsTold
<1>10. SessionsOK'
  <2>1. Fits(sess[s])'
    BY <1>1, <1>2, <1>3, <1>4 DEF Fits, IdentityOK, HandsOK
  <2>2. ASSUME NEW t \in Sess, t # s PROVE Fits(sess[t])'
    BY <1>4, <1>8, <1>9, <2>2, FitsKept
  <2> QED
    BY <2>1, <2>2 DEF SessionsOK
<1>11. OwedOK'
  BY <1>2, <1>3, <1>4, <1>7 DEF IInv, OwedOK
<1>12. AuditNamesTool'
  <2> SUFFICES ASSUME NEW e \in audit', e.tool # None
               PROVE  /\ tools[e.tool] # None
                      /\ e.tool = sess'[e.sess].tool /\ e.name = tools[e.tool].name
    BY <1>2 DEF AuditNamesTool
  <2>1. CASE e \in audit
    <3>1. /\ tools[e.tool] # None /\ e.name = tools[e.tool].name
          /\ e.tool = sess[e.sess].tool /\ e.sess \in Sess
      BY <2>1 DEF IInv, AuditNamesTool, TypeOK, Entry
    <3> QED
      BY <1>3, <1>4, <3>1
  <2>2. CASE tools[x.tool] # None /\ e = EntryOf(s)
    BY <1>1, <1>3, <1>4, <1>5, <2>2
  <2> QED
    BY <1>2, <2>1, <2>2
<1>13. AuditedUnlessRevoked'
  <2> SUFFICES ASSUME NEW o \in owed'
               PROVE  \/ Audited(o[1], o[2])'
                      \/ o[2] = sess'[o[1]].calls /\ sess'[o[1]].stage # "idle"
                      \/ tools[sess'[o[1]].tool] = None
    BY <1>2 DEF AuditedUnlessRevoked
  <2>1. CASE o = <<s, x.calls>>
    <3>1. tools[x.tool] # None => EntryOf(s) \in audit'
      BY <1>2
    <3> QED
      BY <1>3, <1>4, <1>5, <2>1, <3>1 DEF Audited
  <2>2. CASE o \in owed /\ o # <<s, x.calls>>
    <3>1. /\ o[1] \in Sess /\ o = <<o[1], o[2]>>
          /\ \/ Audited(o[1], o[2])
             \/ o[2] = sess[o[1]].calls /\ sess[o[1]].stage # "idle"
             \/ tools[sess[o[1]].tool] = None
      BY <1>7, <2>2 DEF IInv, AuditedUnlessRevoked
    <3>2. Audited(o[1], o[2]) => Audited(o[1], o[2])'
      BY <1>6 DEF Audited
    <3>3. CASE o[1] = s
      BY <1>3, <1>4, <2>2, <3>1, <3>2, <3>3
    <3>4. CASE o[1] # s
      BY <1>4, <3>1, <3>2, <3>4
    <3> QED
      BY <3>3, <3>4
  <2> QED
    BY <1>2, <2>1, <2>2
<1> QED
  BY <1>9, <1>10, <1>11, <1>12, <1>13 DEF IInv, TablesOK

LEMMA ServerSteps == ASSUME IInv, NEW s \in Sess, Server(s) PROVE IInv'
<1>1. ASSUME NEW n \in Names \cup {None}, Search(s, n) PROVE IInv'
  BY <1>1, AnswerStep DEF Search, Keep
<1>2. ASSUME NEW n \in Names \cup {None}, UiSearch(s, n) PROVE IInv'
  BY <1>2, AnswerStep DEF UiSearch
<1>3. ASSUME NEW n \in Names, Remember(s, {n}) PROVE IInv'
  BY <1>3, RememberStep
<1>4. ASSUME Remember(s, Names) PROVE IInv'
  BY <1>4, RememberStep
<1> QED
  BY <1>1, <1>2, <1>3, <1>4, AuthenticateStep, ReadGrantsStep, InsertRowStep, DeleteRowStep,
     RecordStep, StopStep, CheckForgetStep, SummarizeStep, SummarizedStep
     DEF Server

LEMMA StutterStep == ASSUME IInv, UNCHANGED vars PROVE IInv'
<1> USE DEF vars
<1>1. TypeOK' /\ FreshIds' /\ TokensOK' /\ KeysOK' /\ RowsTold'
  BY DEF IInv, TypeOK, FreshIds, TokensOK, KeysOK, RowsTold
<1>2. SessionsOK'
  BY DEF IInv, SessionsOK, Fits, IdentityOK, HandsOK, ScopeNameOf
<1>3. OwedOK' /\ AuditNamesTool' /\ AuditedUnlessRevoked'
  BY DEF IInv, OwedOK, AuditNamesTool, AuditedUnlessRevoked, Audited
<1> QED
  BY <1>1, <1>2, <1>3 DEF IInv

-----------------------------------------------------------------------------
(***************************************************************************)
(* The inductive invariant holds in every reachable state, whatever the    *)
(* operator's commands and the servers' sessions do in between each other. *)
(***************************************************************************)
THEOREM Invariance == Spec => []IInv
<1>1. ASSUME IInv, [Next]_vars PROVE IInv'
  BY <1>1, OperatorSteps, ServerSteps, StutterStep DEF Next
<1> QED
  BY InitIInv, <1>1, PTL DEF Spec

(* The state of tools, scopes, rows, sessions and audit log is well typed. *)
THEOREM TypeCorrect == Spec => []TypeOK
<1>1. IInv => TypeOK
  BY DEF IInv
<1> QED
  BY <1>1, Invariance, PTL

(***************************************************************************)
(* The token of a tool is one that was handed out for it, also after       *)
(* rotations that overlap with revocations and new tools (tools.ts:176).   *)
(***************************************************************************)
THEOREM TokensOpenTheirTool == Spec => []TokenOfItsTool
<1>1. IInv => TokenOfItsTool
  BY DEF IInv, TokensOK, TokenOfItsTool
<1> QED
  BY <1>1, Invariance, PTL

(***************************************************************************)
(* An audit row with a tool id is of that tool's own call, under its name. *)
(***************************************************************************)
THEOREM AuditIsTheirs == Spec => []AuditNamesTool
<1>1. IInv => AuditNamesTool
  BY DEF IInv
<1> QED
  BY <1>1, Invariance, PTL

(***************************************************************************)
(* Every call that had an effect or an answer is in the audit log, but for *)
(* the one in progress, the one its server died in, and those of a tool    *)
(* that was revoked.                                                       *)
(***************************************************************************)
THEOREM EffectsAreAudited == Spec => []AuditedUnlessRevoked
<1>1. IInv => AuditedUnlessRevoked
  BY DEF IInv
<1> QED
  BY <1>1, Invariance, PTL

(***************************************************************************)
(* Answers, summaries among them, are made from content that was told to   *)
(* scopes of names the tool was granted, whichever scopes were removed and *)
(* added again while the answer was made.                                  *)
(***************************************************************************)
THEOREM AnswersStayInGrants == Spec => []AnswersConfined
<1>1. IInv => AnswersConfined
  BY DEF IInv, SessionsOK, Fits, HandsOK, AnswersConfined
<1> QED
  BY <1>1, Invariance, PTL

(***************************************************************************)
(* A session adds rows only to scopes it may write, and deletes only from  *)
(* them or from what was left without a scope, although the check, the     *)
(* resolution of the name and the write are steps apart.                   *)
(***************************************************************************)
THEOREM WritesStayInGrants == Spec => WritesConfined
<1> DEFINE Confined ==
      \A s \in Sess, i \in RowIds :
        /\ InsertRow(s) /\ rows[i] = None /\ rows'[i] # None =>
             scopes[rows'[i].scope] \in Writable(s)
        /\ DeleteRow(s) /\ rows[i] # None /\ rows'[i] = None =>
             ScopeNameOf(i) \in Writable(s) \cup {None}
<1>1. ASSUME IInv, NEW s \in Sess, NEW i \in RowIds,
             InsertRow(s), rows[i] = None, rows'[i] # None
      PROVE  scopes[rows'[i].scope] \in Writable(s)
  <2>1. sess[s].stage = "insert" /\ Fits(sess[s])
    BY <1>1, SessTyped DEF InsertRow
  <2>2. scopes[sess[s].target] # None
    BY <1>1 DEF InsertRow
  <2>3. rows'[i] = [scope |-> sess[s].target, made |-> sess[s].made]
    BY <1>1, <2>2 DEF InsertRow, IInv, TypeOK
  <2> QED
    BY <2>1, <2>2, <2>3 DEF Fits, HandsOK, Writable, WritableBy
<1>2. ASSUME IInv, NEW s \in Sess, NEW i \in RowIds,
             DeleteRow(s), rows[i] # None, rows'[i] = None
      PROVE  ScopeNameOf(i) \in Writable(s) \cup {None}
  <2>1. sess[s].stage = "delete" /\ Fits(sess[s])
    BY <1>2, SessTyped DEF DeleteRow
  <2>2. i = sess[s].target
    BY <1>2 DEF DeleteRow, IInv, TypeOK
  <2> QED
    BY <1>2, <2>1, <2>2 DEF Fits, HandsOK, Writable, WritableBy
<1>3. IInv => Confined
  BY <1>1, <1>2
<1>4. IInv => [Confined]_vars
  BY <1>3
<1> QED
  BY <1>4, Invariance, PTL DEF WritesConfined
=============================================================================
