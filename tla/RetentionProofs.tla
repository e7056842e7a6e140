---------------------------- MODULE RetentionProofs ----------------------------
(***************************************************************************)
(* Proofs about module Retention, for any names, periods, kinds of rows    *)
(* and bounds.                                                             *)
(***************************************************************************)
EXTENDS Retention, TLAPS

USE BoundAssumption, DaysAssumption, KindAssumption, NoneAssumption
    DEF ScopeIds, RowIds, Time

(* Names are unique, ids are handed out once, and a rule goes with its scope. *)
ScopesOK ==
    /\ \A s, r \in ScopeIds : scopes[s] # None /\ scopes[s] = scopes[r] => s = r
    /\ \A s \in ScopeIds : scopes[s] # None => s < nextScope
    /\ \A s \in ScopeIds : rules[s] # None => scopes[s] # None

(***************************************************************************)
(* The foreign keys of the content, and its dates: nothing is dated ahead. *)
(***************************************************************************)
RowsOK ==
    \A i \in RowIds : Live(i) =>
        /\ rows[i].at <= clock
        /\ rows[i].scope # None => scopes[rows[i].scope] # None
        /\ rows[i].kind # "item" => rows[i].of = None
        /\ rows[i].kind = "item" =>
             /\ rows[i].scope = None /\ rows[i].of \in RowIds
             /\ Live(rows[i].of) /\ rows[rows[i].of].kind = "workspace"

SetterOK ==
    /\ setter.stage # "idle" => setter.days \in Days
    /\ setter.stage = "create" => setter.name \in Names
    /\ setter.stage = "upsert" => setter.scope \in ScopeIds

(***************************************************************************)
(* What store-dated content scope s has is no older than time t; so it is  *)
(* with a scope that was made after t.                                     *)
(***************************************************************************)
Fresh(s, t) ==
    \A i \in RowIds : Live(i) /\ rows[i].kind # "conversation" /\ ScopeOf(i) = s
                        => rows[i].at >= t

(***************************************************************************)
(* The scope a prune p finds under the name of a rule, or has found, had   *)
(* that rule when p listed them, or has been made since.                   *)
(***************************************************************************)
Ruled(p, d) == \E q \in p.ruled : q[2] = d

Covered(p, s, d) == <<s, d>> \in p.ruled \/ Fresh(s, p.now)

Fits(p) ==
    /\ p.now <= clock
    /\ \A r \in p.rules :
         /\ Ruled(p, r.days)
         /\ \A s \in ScopeIds : scopes[s] = r.name => Covered(p, s, r.days)
    /\ p.stage = "sweep" =>
         /\ p.scope \in ScopeIds /\ p.days \in Days
         /\ Ruled(p, p.days) /\ Covered(p, p.scope, p.days)

IInv == TypeOK /\ ScopesOK /\ RowsOK /\ SetterOK /\ Fits(prune)

-----------------------------------------------------------------------------
LEMMA NotPruningFits == NotPruning \in Prune /\ \A t \in Nat : clock = t => Fits(NotPruning)
BY DEF NotPruning, Prune, Fits

LEMMA InitIInv == Init => IInv
<1> SUFFICES ASSUME Init PROVE IInv
  OBVIOUS
<1>1. \A i \in RowIds : ~Live(i)
  BY DEF Init, Live
<1>2. TypeOK
  BY NotPruningFits DEF Init, TypeOK, Setter, NotSetting
<1>3. ScopesOK /\ RowsOK /\ SetterOK
  BY <1>1 DEF Init, ScopesOK, RowsOK, SetterOK, NotSetting
<1>4. Fits(prune)
  BY NotPruningFits DEF Init
<1> QED
  BY <1>2, <1>3, <1>4 DEF IInv

(* What the types say of the parts of the state.                           *)
LEMMA Typed ==
    ASSUME TypeOK
    PROVE  /\ clock \in Nat /\ clock \in Time
           /\ nextScope \in Nat /\ nextScope \in 1..(MaxScope + 1)
           /\ \A s \in ScopeIds : scopes[s] \in Names \cup {None}
           /\ \A s \in ScopeIds : rules[s] \in Days \cup {None}
           /\ prune \in Prune /\ setter \in Setter
<1>1. clock \in Nat /\ clock \in Time
  BY DEF TypeOK
<1>2. nextScope \in Nat /\ nextScope \in 1..(MaxScope + 1)
  BY DEF TypeOK
<1>3. \A s \in ScopeIds : scopes[s] \in Names \cup {None} /\ rules[s] \in Days \cup {None}
  BY DEF TypeOK
<1>4. prune \in Prune /\ setter \in Setter
  BY DEF TypeOK
<1> QED
  BY <1>1, <1>2, <1>3, <1>4

LEMMA RowTyped ==
    ASSUME TypeOK, NEW i \in RowIds, Live(i)
    PROVE  /\ rows[i] \in Row
           /\ rows[i].kind \in {"memory", "document", "conversation", "workspace", "item"}
           /\ rows[i].scope \in ScopeIds \cup {None}
           /\ rows[i].at \in Nat
           /\ rows[i].of \in RowIds \cup {None}
<1>1. rows[i] \in Row
  BY DEF TypeOK, Live
<1> QED
  BY <1>1 DEF Row, Filed

LEMMA PruneTyped ==
    ASSUME NEW p \in Prune
    PROVE  /\ p.stage \in {"idle", "next", "sweep"}
           /\ p.now \in Nat /\ p.rules \subseteq Rule /\ p.dry \in BOOLEAN
           /\ p.ruled \subseteq ScopeIds \X Days
           /\ \A r \in p.rules : r.name \in Names /\ r.days \in Days
BY DEF Prune, Rule

-----------------------------------------------------------------------------
(***************************************************************************)
(* What a step does to the content of a scope that the store has dated: it *)
(* stays, goes, or is dated now; and a scope that gets a name has none     *)
(* that is older than this moment.                                         *)
(***************************************************************************)
Aging ==
    \A i \in RowIds :
      Live(i)' /\ rows'[i].kind # "conversation" /\ ScopeOf(i)' \in ScopeIds =>
        \/ rows'[i].at >= clock
        \/ /\ Live(i) /\ rows[i].kind # "conversation"
           /\ ScopeOf(i)' = ScopeOf(i) /\ rows'[i].at = rows[i].at

Making ==
    \A s \in ScopeIds : scopes'[s] \notin {None, scopes[s]} =>
      \A i \in RowIds : Live(i)' /\ rows'[i].kind # "conversation" /\ ScopeOf(i)' = s
                          => rows'[i].at >= clock

LEMMA FreshStays ==
    ASSUME NEW s \in ScopeIds, NEW t \in Nat, t <= clock, clock \in Nat,
           rows' \in [RowIds -> Row \cup {None}], Aging, Fresh(s, t)
    PROVE  Fresh(s, t)'
<1> SUFFICES ASSUME NEW i \in RowIds, Live(i)', rows'[i].kind # "conversation",
                    ScopeOf(i)' = s
             PROVE  rows'[i].at >= t
  BY DEF Fresh
<1>1. rows'[i].at \in Nat
  <2>1. rows'[i] \in Row
    BY DEF Live
  <2> QED
    BY <2>1 DEF Row
<1>2. CASE rows'[i].at >= clock
  BY <1>1, <1>2
<1>3. CASE /\ Live(i) /\ rows[i].kind # "conversation"
           /\ ScopeOf(i)' = ScopeOf(i) /\ rows'[i].at = rows[i].at
  BY <1>3 DEF Fresh
<1> QED
  BY <1>2, <1>3 DEF Aging

(* A prune loses nothing it goes by when others change the store.          *)
LEMMA PruneStays ==
    ASSUME TypeOK, NEW p \in Prune, Fits(p), clock' \in Nat, clock' >= clock,
           rows' \in [RowIds -> Row \cup {None}], Aging, Making
    PROVE  Fits(p)'
<1>1. clock \in Nat /\ p.now \in Nat /\ p.now <= clock
  BY Typed, PruneTyped DEF Fits
<1>2. ASSUME NEW s \in ScopeIds, NEW d \in Days, Covered(p, s, d)
      PROVE  Covered(p, s, d)'
  <2>1. Fresh(s, p.now) => Fresh(s, p.now)'
    BY <1>1, FreshStays
  <2> QED
    BY <1>2, <2>1 DEF Covered
<1>3. ASSUME NEW s \in ScopeIds, scopes'[s] \notin {None, scopes[s]}
      PROVE  Fresh(s, p.now)'
  <2> SUFFICES ASSUME NEW i \in RowIds, Live(i)', rows'[i].kind # "conversation",
                      ScopeOf(i)' = s
               PROVE  rows'[i].at >= p.now
    BY DEF Fresh
  <2>1. rows'[i].at >= clock
    BY <1>3 DEF Making
  <2>2. rows'[i].at \in Nat
    <3>1. rows'[i] \in Row
      BY DEF Live
    <3> QED
      BY <3>1 DEF Row
  <2> QED
    BY <1>1, <2>1, <2>2
<1>4. p.now <= clock'
  BY <1>1
<1>5. ASSUME NEW r \in p.rules
      PROVE  /\ Ruled(p, r.days)
             /\ \A s \in ScopeIds : scopes'[s] = r.name => Covered(p, s, r.days)'
  <2>1. Ruled(p, r.days)
    BY DEF Fits
  <2>2. r.name \in Names /\ r.days \in Days /\ r.name # None
    BY PruneTyped
  <2>3. ASSUME NEW s \in ScopeIds, scopes'[s] = r.name
        PROVE  Covered(p, s, r.days)'
    <3>1. CASE scopes[s] = r.name
      <4>1. Covered(p, s, r.days)
        BY <3>1 DEF Fits
      <4> QED
        BY <1>2, <2>2, <4>1
    <3>2. CASE scopes[s] # r.name
      <4>1. Fresh(s, p.now)'
        BY <1>3, <2>2, <2>3, <3>2
      <4> QED
        BY <4>1 DEF Covered
    <3> QED
      BY <3>1, <3>2
  <2> QED
    BY <2>1, <2>3
<1>6. p.stage = "sweep" => /\ p.scope \in ScopeIds /\ p.days \in Days
                           /\ Ruled(p, p.days) /\ Covered(p, p.scope, p.days)'
  BY <1>2 DEF Fits
<1>7. \A d \in Days : Ruled(p, d)' <=> Ruled(p, d)
  BY DEF Ruled
<1> QED
  BY <1>4, <1>5, <1>6, <1>7, PruneTyped DEF Fits

(* Nothing happens to content and scopes.                                  *)
LEMMA StoreRests ==
    ASSUME IInv, rows' = rows, scopes' = scopes, clock' \in Nat, clock' >= clock
    PROVE  /\ rows' \in [RowIds -> Row \cup {None}]
           /\ RowsOK'
           /\ \A p \in Prune : Fits(p) => Fits(p)'
<1>1. rows' \in [RowIds -> Row \cup {None}]
  BY DEF IInv, TypeOK
<1>2. RowsOK'
  <2> SUFFICES ASSUME NEW i \in RowIds, Live(i)
               PROVE  /\ rows[i].at <= clock'
                      /\ rows[i].scope # None => scopes[rows[i].scope] # None
                      /\ rows[i].kind # "item" => rows[i].of = None
                      /\ rows[i].kind = "item" =>
                           /\ rows[i].scope = None /\ rows[i].of \in RowIds
                           /\ Live(rows[i].of) /\ rows[rows[i].of].kind = "workspace"
    BY DEF RowsOK, Live
  <2>1. rows[i].at \in Nat /\ clock \in Nat /\ rows[i].at <= clock
    BY RowTyped, Typed DEF IInv, RowsOK
  <2>2. rows[i].at <= clock'
    BY <2>1
  <2> QED
    BY <2>2 DEF IInv, RowsOK
<1>3. Aging /\ Making
  BY DEF Aging, Making, Live, ScopeOf
<1>4. \A p \in Prune : Fits(p) => Fits(p)'
  BY <1>1, <1>3, PruneStays DEF IInv
<1> QED
  BY <1>1, <1>2, <1>4

LEMMA TickStep == ASSUME IInv, Tick PROVE IInv'
<1>1. /\ scopes' = scopes /\ rules' = rules /\ rows' = rows /\ nextScope' = nextScope
      /\ prune' = prune /\ setter' = setter
  BY DEF Tick, tables
<1>2. clock' \in Time /\ clock' \in Nat /\ clock' >= clock
  BY Typed DEF IInv, Tick
<1>3. TypeOK' /\ ScopesOK' /\ SetterOK'
  BY <1>1, <1>2 DEF IInv, TypeOK, ScopesOK, SetterOK
<1>4. RowsOK' /\ Fits(prune)'
  <2>1. PICK p : p = prune
    OBVIOUS
  <2>2. RowsOK' /\ Fits(p)'
    BY <1>1, <1>2, <2>1, StoreRests, Typed DEF IInv
  <2> QED
    BY <1>1, <2>1, <2>2
<1> QED
  BY <1>3, <1>4 DEF IInv

(* A step that leaves content, scopes and rules as they are.               *)
LEMMA ProcessStep ==
    ASSUME IInv, UNCHANGED tables, clock' = clock,
           prune' \in Prune, Fits(prune'), setter' \in Setter, SetterOK'
    PROVE  IInv'
<1>1. scopes' = scopes /\ rules' = rules /\ rows' = rows /\ nextScope' = nextScope
  BY DEF tables
<1>2. TypeOK' /\ ScopesOK'
  BY <1>1 DEF IInv, TypeOK, ScopesOK
<1>3. clock' \in Nat /\ clock' >= clock
  BY Typed DEF IInv
<1>4. RowsOK'
  BY <1>1, <1>3, StoreRests
<1>5. Fits(prune)'
  <2>1. PICK p : p = prune'
    OBVIOUS
  <2>2. Fits(p)'
    BY <1>1, <1>3, <2>1, StoreRests
  <2> QED
    BY <2>1, <2>2 DEF Fits, Ruled, Covered
<1> QED
  BY <1>2, <1>4, <1>5 DEF IInv

LEMMA StutterStep == ASSUME IInv, UNCHANGED vars PROVE IInv'
<1>1. /\ UNCHANGED tables /\ clock' = clock /\ prune' = prune /\ setter' = setter
  BY DEF vars, tables
<1>2. prune' \in Prune /\ Fits(prune') /\ setter' \in Setter
  BY <1>1, Typed DEF IInv
<1>3. SetterOK'
  BY <1>1 DEF IInv, SetterOK
<1> QED
  BY <1>1, <1>2, <1>3, ProcessStep

LEMMA SetStep == ASSUME IInv, NEW n \in Names, NEW d \in Days, Set(n, d) PROVE IInv'
<1>1. UNCHANGED tables /\ clock' = clock /\ prune' = prune
  BY DEF Set
<1>2. prune' \in Prune /\ Fits(prune')
  BY <1>1, Typed DEF IInv
<1>3. setter' \in Setter /\ SetterOK'
  <2>1. CASE IdsOf(n) = {}
    BY <2>1 DEF Set, Setter, SetterOK
  <2>2. CASE IdsOf(n) # {}
    <3>1. PICK s : s = CHOOSE r \in IdsOf(n) : TRUE
      OBVIOUS
    <3>2. s \in ScopeIds
      BY <2>2, <3>1 DEF IdsOf
    <3>3. setter' = [stage |-> "upsert", name |-> None, days |-> d, scope |-> s]
      BY <2>2, <3>1 DEF Set
    <3> QED
      BY <3>2, <3>3 DEF Setter, SetterOK
  <2> QED
    BY <2>1, <2>2
<1> QED
  BY <1>1, <1>2, <1>3, ProcessStep

LEMMA NotSettingOK ==
    /\ NotSetting \in Setter
    /\ setter' = NotSetting => setter' \in Setter /\ SetterOK'
BY DEF NotSetting, Setter, SetterOK

LEMMA DieStep == ASSUME IInv, Die PROVE IInv'
<1>1. UNCHANGED tables /\ clock' = clock
  BY DEF Die, tables
<1>2. CASE prune' = NotPruning /\ setter' = setter
  <2>1. prune' \in Prune /\ Fits(prune')
    BY <1>2, NotPruningFits, Typed DEF IInv
  <2>2. setter' \in Setter /\ SetterOK'
    BY <1>2, Typed DEF IInv, SetterOK
  <2> QED
    BY <1>1, <2>1, <2>2, ProcessStep
<1>3. CASE prune' = prune /\ setter' = NotSetting
  <2>1. prune' \in Prune /\ Fits(prune')
    BY <1>3, Typed DEF IInv
  <2> QED
    BY <1>1, <1>3, <2>1, NotSettingOK, ProcessStep
<1> QED
  BY <1>2, <1>3 DEF Die

(* The rules as they are listed are covered by what is under them.         *)
LEMMA StartPruneStep ==
    ASSUME IInv, NEW n \in Names \cup {None}, NEW dry \in BOOLEAN, StartPrune(n, dry)
    PROVE  IInv'
<1> DEFINE found == {[name |-> scopes[s], days |-> rules[s]] : s \in Rules(n)}
           held == {<<s, rules[s]>> : s \in Rules(n)}
<1>1. UNCHANGED tables /\ clock' = clock /\ setter' = setter
  BY DEF StartPrune
<1>2. prune' = [NotPruning EXCEPT !.stage = "next", !.now = clock, !.dry = dry,
                                  !.rules = found, !.listed = found,
                                  !.ruled = held]
  BY DEF StartPrune
<1>3. \A s \in Rules(n) : /\ s \in ScopeIds /\ rules[s] \in Days
                          /\ scopes[s] \in Names /\ scopes[s] # None
  BY Typed DEF IInv, ScopesOK, Rules
<1>4. found \subseteq Rule
  BY <1>3 DEF Rule
<1>5. held \subseteq ScopeIds \X Days
  BY <1>3
<1>6. \A r \in found : \E s \in Rules(n) :
        r.name = scopes[s] /\ r.days = rules[s] /\ <<s, rules[s]>> \in held
  OBVIOUS
<1> HIDE DEF found, held
<1>7. /\ prune' \in Prune /\ prune'.stage = "next" /\ prune'.now = clock
      /\ prune'.rules = found /\ prune'.ruled = held
  BY <1>2, <1>4, <1>5, Typed DEF IInv, NotPruning, Prune
<1>8. \A r \in found : /\ \E q \in held : q[2] = r.days
                       /\ \A s \in ScopeIds : scopes[s] = r.name => <<s, r.days>> \in held
  BY <1>3, <1>6 DEF IInv, ScopesOK
<1>9. Fits(prune')
  <2>1. prune'.now <= clock
    BY <1>7, Typed DEF IInv
  <2> QED
    BY <1>7, <1>8, <2>1 DEF Fits, Ruled, Covered
<1>10. setter' \in Setter /\ SetterOK'
  BY <1>1, Typed DEF IInv, SetterOK
<1> QED
  BY <1>1, <1>7, <1>9, <1>10, ProcessStep

(* A prune that is done with a rule, whether it has swept its scope or not. *)
LEMMA DoneFits ==
    ASSUME clock \in Nat, NEW p \in Prune, Fits(p)
    PROVE  Done(p) \in Prune /\ Fits(Done(p))
<1>1. CASE p.rules = {}
  BY <1>1, NotPruningFits DEF Done
<1>2. CASE p.rules # {}
  <2> DEFINE d == [p EXCEPT !.stage = "next", !.days = None, !.scope = None]
  <2>1. /\ d \in Prune /\ d.stage = "next" /\ d.now = p.now
        /\ d.rules = p.rules /\ d.ruled = p.ruled
    BY DEF Prune
  <2>2. Done(p) = d
    BY <1>2 DEF Done
  <2> HIDE DEF d
  <2>3. Fits(d)
    BY <2>1 DEF Fits, Ruled, Covered
  <2> QED
    BY <2>1, <2>2, <2>3
<1> QED
  BY <1>1, <1>2

LEMMA FindScopeStep == ASSUME IInv, NEW r \in Rule, FindScope(r) PROVE IInv'
<1> DEFINE rest == [prune EXCEPT !.rules = @ \ {r}]
<1>1. UNCHANGED tables /\ clock' = clock /\ setter' = setter
  BY DEF FindScope
<1>2. r \in prune.rules /\ prune.stage = "next" /\ prune \in Prune /\ Fits(prune)
  BY Typed DEF FindScope, IInv
<1>3. /\ rest \in Prune /\ rest.stage = "next" /\ rest.now = prune.now
      /\ rest.rules = prune.rules \ {r} /\ rest.ruled = prune.ruled
  BY <1>2 DEF Prune
<1>4. prune' = IF IdsOf(r.name) = {} THEN Done(rest)
               ELSE [rest EXCEPT !.stage = "sweep", !.days = r.days,
                                 !.scope = CHOOSE s \in IdsOf(r.name) : TRUE]
  BY DEF FindScope
<1> HIDE DEF rest
<1>5. Fits(rest)
  BY <1>2, <1>3 DEF Fits, Ruled, Covered
<1>6. prune' \in Prune /\ Fits(prune')
  <2>1. CASE IdsOf(r.name) = {}
    BY <1>3, <1>4, <1>5, <2>1, DoneFits, Typed DEF IInv
  <2>2. CASE IdsOf(r.name) # {}
    <3>1. PICK s : s = CHOOSE t \in IdsOf(r.name) : TRUE
      OBVIOUS
    <3>2. s \in ScopeIds /\ scopes[s] = r.name
      BY <2>2, <3>1 DEF IdsOf
    <3>3. prune' = [rest EXCEPT !.stage = "sweep", !.days = r.days, !.scope = s]
      BY <1>4, <2>2, <3>1
    <3>4. r.days \in Days
      BY DEF Rule
    <3>5. /\ prune' \in Prune /\ prune'.stage = "sweep" /\ prune'.now = rest.now
          /\ prune'.rules = rest.rules /\ prune'.ruled = rest.ruled
          /\ prune'.scope = s /\ prune'.days = r.days
      BY <1>3, <3>2, <3>3, <3>4 DEF Prune
    <3>6. Ruled(prune, r.days) /\ Covered(prune, s, r.days)
      BY <1>2, <3>2 DEF Fits
    <3>7. Ruled(prune', r.days) /\ Covered(prune', s, r.days)
      BY <1>3, <3>5, <3>6 DEF Ruled, Covered
    <3> QED
      BY <1>5, <3>2, <3>4, <3>5, <3>7 DEF Fits, Ruled, Covered
  <2> QED
    BY <2>1, <2>2
<1>7. setter' \in Setter /\ SetterOK'
  BY <1>1, Typed DEF IInv, SetterOK
<1> QED
  BY <1>1, <1>6, <1>7, ProcessStep

-----------------------------------------------------------------------------
(* A rule is set or cleared; neither prune nor content notice.             *)
LEMMA RulesStep ==
    ASSUME IInv, scopes' = scopes, rows' = rows, nextScope' = nextScope,
           clock' = clock, prune' = prune, setter' \in Setter, SetterOK',
           rules' \in [ScopeIds -> Days \cup {None}],
           \A s \in ScopeIds : rules'[s] # None => scopes[s] # None
    PROVE  IInv'
<1>1. TypeOK' /\ ScopesOK'
  BY DEF IInv, TypeOK, ScopesOK
<1>2. clock' \in Nat /\ clock' >= clock
  BY Typed DEF IInv
<1>3. RowsOK' /\ Fits(prune)'
  <2>1. PICK p : p = prune
    OBVIOUS
  <2>2. RowsOK' /\ Fits(p)'
    BY <1>2, <2>1, StoreRests, Typed DEF IInv
  <2> QED
    BY <2>1, <2>2
<1> QED
  BY <1>1, <1>3 DEF IInv

LEMMA SetRuleStep == ASSUME IInv, SetRule PROVE IInv'
<1>1. /\ scopes' = scopes /\ rows' = rows /\ nextScope' = nextScope
      /\ clock' = clock /\ prune' = prune /\ setter' = NotSetting
  BY DEF SetRule
<1>2. setter.scope \in ScopeIds /\ setter.days \in Days
  BY DEF SetRule, IInv, SetterOK
<1>3. /\ rules' \in [ScopeIds -> Days \cup {None}]
      /\ \A s \in ScopeIds : rules'[s] # None => scopes[s] # None
  <2>1. CASE scopes[setter.scope] # None
    <3>1. rules' = [rules EXCEPT ![setter.scope] = setter.days]
      BY <2>1 DEF SetRule
    <3> QED
      BY <1>2, <2>1, <3>1 DEF IInv, TypeOK, ScopesOK
  <2>2. CASE scopes[setter.scope] = None
    <3>1. rules' = rules
      BY <2>2 DEF SetRule
    <3> QED
      BY <3>1 DEF IInv, TypeOK, ScopesOK
  <2> QED
    BY <2>1, <2>2
<1> QED
  BY <1>1, <1>3, NotSettingOK, RulesStep

LEMMA ClearStep == ASSUME IInv, NEW n \in Names, Clear(n) PROVE IInv'
<1>1. /\ scopes' = scopes /\ rows' = rows /\ nextScope' = nextScope
      /\ clock' = clock /\ prune' = prune /\ setter' = setter
  BY DEF Clear
<1>2. /\ rules' \in [ScopeIds -> Days \cup {None}]
      /\ \A s \in ScopeIds : rules'[s] # None => scopes[s] # None
  <2>1. PICK s \in ScopeIds : rules' = [rules EXCEPT ![s] = None]
    BY DEF Clear, IdsOf
  <2> QED
    BY <2>1 DEF IInv, TypeOK, ScopesOK
<1>3. setter' \in Setter /\ SetterOK'
  BY <1>1, Typed DEF IInv, SetterOK
<1> QED
  BY <1>1, <1>2, <1>3, RulesStep

-----------------------------------------------------------------------------
(* Every live row is in a scope that is there, or in none.                 *)
LEMMA ScopeOfTyped ==
    ASSUME IInv, NEW i \in RowIds, Live(i)
    PROVE  /\ ScopeOf(i) \in ScopeIds \cup {None}
           /\ ScopeOf(i) # None => scopes[ScopeOf(i)] # None
<1>1. CASE rows[i].kind = "item"
  <2>1. PICK w : w = rows[i].of
    OBVIOUS
  <2>2. w \in RowIds /\ Live(w)
    BY <1>1, <2>1 DEF IInv, RowsOK
  <2>3. ScopeOf(i) = rows[w].scope
    BY <1>1, <2>1 DEF ScopeOf
  <2> QED
    BY <2>2, <2>3, RowTyped DEF IInv, RowsOK
<1>2. CASE rows[i].kind # "item"
  BY <1>2, RowTyped DEF IInv, RowsOK, ScopeOf
<1> QED
  BY <1>1, <1>2

(* A scope that is made has an id nothing refers to.                       *)
LEMMA MakingIsFresh ==
    ASSUME IInv, Aging,
           \A s \in ScopeIds : scopes'[s] \notin {None, scopes[s]} => scopes[s] = None
    PROVE  Making
<1> SUFFICES ASSUME NEW s \in ScopeIds, scopes'[s] \notin {None, scopes[s]},
                    NEW i \in RowIds, Live(i)', rows'[i].kind # "conversation",
                    ScopeOf(i)' = s
             PROVE  rows'[i].at >= clock
  BY DEF Making
<1>1. CASE rows'[i].at >= clock
  BY <1>1
<1>2. CASE Live(i) /\ ScopeOf(i)' = ScopeOf(i)
  <2>1. ScopeOf(i) = s /\ scopes[s] = None
    BY <1>2
  <2>2. s # None
    OBVIOUS
  <2> QED
    BY <1>2, <2>1, <2>2, ScopeOfTyped
<1> QED
  BY <1>1, <1>2 DEF Aging

(* A step on the content, at one moment and beside the prune.              *)
LEMMA ContentStep ==
    ASSUME IInv, clock' = clock, prune' = prune, TypeOK', ScopesOK', RowsOK', SetterOK',
           Aging, Making
    PROVE  IInv'
<1>1. clock' \in Nat /\ clock' >= clock
  BY Typed DEF IInv
<1>2. rows' \in [RowIds -> Row \cup {None}]
  BY DEF TypeOK
<1>3. PICK p : p = prune
  OBVIOUS
<1>4. p \in Prune /\ Fits(p) /\ TypeOK
  BY <1>3, Typed DEF IInv
<1>5. Fits(p)'
  BY <1>1, <1>2, <1>4, PruneStays
<1>6. Fits(prune)'
  BY <1>3, <1>5
<1> QED
  BY <1>6 DEF IInv

LEMMA SetterRests == ASSUME IInv, setter' = setter PROVE setter' \in Setter /\ SetterOK'
BY Typed DEF IInv, SetterOK

(* A scope is made under a name that has none.                             *)
LEMMA ScopeMade ==
    ASSUME IInv, NEW n \in Names, IdsOf(n) = {}, nextScope \in ScopeIds,
           scopes' = [scopes EXCEPT ![nextScope] = n], nextScope' = nextScope + 1,
           rules' = rules
    PROVE  /\ scopes' \in [ScopeIds -> Names \cup {None}]
           /\ nextScope' \in 1..(MaxScope + 1)
           /\ scopes'[nextScope] = n
           /\ \A s \in ScopeIds : scopes[s] # None => scopes'[s] = scopes[s]
           /\ \A s \in ScopeIds : scopes'[s] \notin {None, scopes[s]} => scopes[s] = None
           /\ ScopesOK'
<1>1. scopes \in [ScopeIds -> Names \cup {None}] /\ nextScope \in 1..(MaxScope + 1)
  BY DEF IInv, TypeOK
<1>2. scopes' \in [ScopeIds -> Names \cup {None}] /\ nextScope' \in 1..(MaxScope + 1)
  BY <1>1
<1>3. scopes[nextScope] = None
  BY <1>1 DEF IInv, ScopesOK
<1>4. /\ scopes'[nextScope] = n
      /\ \A s \in ScopeIds : s # nextScope => scopes'[s] = scopes[s]
  BY <1>1
<1>5. \A s \in ScopeIds : scopes[s] # n
  BY DEF IdsOf
<1>6. \A s, r \in ScopeIds : scopes'[s] # None /\ scopes'[s] = scopes'[r] => s = r
  BY <1>3, <1>4, <1>5 DEF IInv, ScopesOK
<1>7. ASSUME NEW s \in ScopeIds, scopes'[s] # None PROVE s < nextScope'
  <2>1. CASE s = nextScope
    BY <1>1, <2>1
  <2>2. CASE s # nextScope
    <3>1. s < nextScope
      BY <1>4, <1>7, <2>2 DEF IInv, ScopesOK
    <3> QED
      BY <1>1, <3>1
  <2> QED
    BY <2>1, <2>2
<1>8. \A s \in ScopeIds : rules'[s] # None => scopes'[s] # None
  BY <1>3, <1>4 DEF IInv, ScopesOK
<1>9. ScopesOK'
  BY <1>6, <1>7, <1>8 DEF ScopesOK
<1> QED
  BY <1>2, <1>3, <1>4, <1>9

(* A row is written, dated now unless it is a conversation.                *)
LEMMA RowMade ==
    ASSUME IInv, NEW i \in RowIds, ~Live(i), NEW y \in Row,
           rows' = [rows EXCEPT ![i] = y], clock' = clock,
           y.at <= clock, y.kind # "conversation" => y.at = clock,
           \A s \in ScopeIds : scopes[s] # None => scopes'[s] = scopes[s],
           y.scope # None => scopes'[y.scope] # None,
           y.kind # "item" => y.of = None,
           y.kind = "item" => /\ y.scope = None /\ y.of \in RowIds
                              /\ Live(y.of) /\ rows[y.of].kind = "workspace"
    PROVE  rows' \in [RowIds -> Row \cup {None}] /\ RowsOK' /\ Aging
<1>1. rows \in [RowIds -> Row \cup {None}] /\ rows' \in [RowIds -> Row \cup {None}]
  BY DEF IInv, TypeOK
<1>2. rows'[i] = y /\ y # None
  <2>1. y # None
    BY Zenon
  <2> QED
    BY <1>1, <2>1
<1>3. \A j \in RowIds : j # i => rows'[j] = rows[j]
  BY <1>1
<1>4. \A j \in RowIds : Live(j) => Live(j)' /\ rows'[j] = rows[j]
  BY <1>3 DEF Live
<1>5. RowsOK'
  <2> SUFFICES ASSUME NEW j \in RowIds, Live(j)'
               PROVE  /\ rows'[j].at <= clock
                      /\ rows'[j].scope # None => scopes'[rows'[j].scope] # None
                      /\ rows'[j].kind # "item" => rows'[j].of = None
                      /\ rows'[j].kind = "item" =>
                           /\ rows'[j].scope = None /\ rows'[j].of \in RowIds
                           /\ rows'[rows'[j].of] # None
                           /\ rows'[rows'[j].of].kind = "workspace"
    BY DEF RowsOK, Live
  <2>1. CASE j = i
    <3>1. rows'[j] = y
      BY <1>2, <2>1
    <3>2. y.kind = "item" => rows'[y.of] # None /\ rows'[y.of].kind = "workspace"
      BY <1>4 DEF Live
    <3> QED
      BY <3>1, <3>2
  <2>2. CASE j # i
    <3>1. rows'[j] = rows[j] /\ Live(j)
      BY <1>3, <2>2 DEF Live
    <3>2. rows[j].scope # None => scopes'[rows[j].scope] # None
      <4>1. rows[j].scope # None => /\ rows[j].scope \in ScopeIds
                                    /\ scopes[rows[j].scope] # None
        BY <3>1, RowTyped DEF IInv, RowsOK
      <4> QED
        BY <4>1
    <3>3. rows[j].kind = "item" =>
            /\ rows[j].scope = None /\ rows[j].of \in RowIds
            /\ rows'[rows[j].of] # None /\ rows'[rows[j].of].kind = "workspace"
      <4>1. rows[j].kind = "item" =>
              /\ rows[j].scope = None /\ rows[j].of \in RowIds
              /\ Live(rows[j].of) /\ rows[rows[j].of].kind = "workspace"
        BY <3>1 DEF IInv, RowsOK
      <4> QED
        BY <1>4, <4>1 DEF Live
    <3>4. rows[j].at <= clock /\ (rows[j].kind # "item" => rows[j].of = None)
      BY <3>1 DEF IInv, RowsOK
    <3> QED
      BY <3>1, <3>2, <3>3, <3>4
  <2> QED
    BY <2>1, <2>2
<1>6. Aging
  <2> SUFFICES ASSUME NEW j \in RowIds, Live(j)', rows'[j].kind # "conversation"
               PROVE  \/ rows'[j].at >= clock
                      \/ /\ Live(j) /\ rows[j].kind # "conversation"
                         /\ ScopeOf(j)' = ScopeOf(j) /\ rows'[j].at = rows[j].at
    BY DEF Aging
  <2>1. CASE j = i
    <3>1. rows'[j].at = clock
      BY <1>2, <2>1
    <3> QED
      BY <3>1, Typed DEF IInv
  <2>2. CASE j # i
    <3>1. rows'[j] = rows[j] /\ Live(j)
      BY <1>3, <2>2 DEF Live
    <3>2. ScopeOf(j)' = ScopeOf(j)
      <4>1. CASE rows[j].kind = "item"
        <5>1. PICK w : w = rows[j].of
          OBVIOUS
        <5>2. w \in RowIds /\ Live(w)
          BY <3>1, <4>1, <5>1 DEF IInv, RowsOK
        <5>3. rows'[w] = rows[w]
          BY <1>4, <5>2
        <5> QED
          BY <3>1, <4>1, <5>1, <5>3 DEF ScopeOf
      <4>2. CASE rows[j].kind # "item"
        BY <3>1, <4>2 DEF ScopeOf
      <4> QED
        BY <4>1, <4>2
    <3> QED
      BY <3>1, <3>2
  <2> QED
    BY <2>1, <2>2
<1> QED
  BY <1>1, <1>5, <1>6

(* Rows go, an item not later than its workspace.                          *)
LEMMA RowsGo ==
    ASSUME IInv, clock' = clock, scopes' = scopes,
           \A i \in RowIds : Live(i)' => Live(i) /\ rows'[i] = rows[i],
           \A i \in RowIds : Live(i)' /\ rows[i].kind = "item" => rows'[rows[i].of] # None
    PROVE  RowsOK' /\ Aging /\ Making
<1>1. ASSUME NEW i \in RowIds, Live(i)'
      PROVE  /\ rows[i].kind = "item" =>
                  /\ rows[i].of \in RowIds /\ Live(rows[i].of)
                  /\ rows'[rows[i].of] # None /\ rows'[rows[i].of] = rows[rows[i].of]
             /\ ScopeOf(i)' = ScopeOf(i)
  <2>1. Live(i) /\ rows'[i] = rows[i]
    BY <1>1
  <2>2. CASE rows[i].kind = "item"
    <3>1. PICK w : w = rows[i].of
      OBVIOUS
    <3>2. w \in RowIds /\ Live(w)
      BY <2>1, <2>2, <3>1 DEF IInv, RowsOK
    <3>3. Live(w)' /\ rows'[w] = rows[w]
      <4>1. rows'[rows[i].of] # None
        BY <1>1, <2>2 DEF Live
      <4>2. rows'[w] # None
        BY <3>1, <4>1
      <4> QED
        BY <3>2, <4>2 DEF Live
    <3>4. ScopeOf(i)' = rows'[w].scope /\ ScopeOf(i) = rows[w].scope
      BY <2>1, <2>2, <3>1 DEF ScopeOf
    <3>5. rows'[rows[i].of] # None
      BY <1>1, <2>2
    <3> QED
      BY <3>1, <3>2, <3>3, <3>4, <3>5
  <2>3. CASE rows[i].kind # "item"
    BY <2>1, <2>3 DEF ScopeOf
  <2> QED
    BY <2>2, <2>3
<1>2. RowsOK'
  <2> SUFFICES ASSUME NEW j \in RowIds, Live(j)'
               PROVE  /\ rows'[j].at <= clock
                      /\ rows'[j].scope # None => scopes[rows'[j].scope] # None
                      /\ rows'[j].kind # "item" => rows'[j].of = None
                      /\ rows'[j].kind = "item" =>
                           /\ rows'[j].scope = None /\ rows'[j].of \in RowIds
                           /\ rows'[rows'[j].of] # None
                           /\ rows'[rows'[j].of].kind = "workspace"
    BY DEF RowsOK, Live
  <2>1. Live(j) /\ rows'[j] = rows[j]
    OBVIOUS
  <2>2. rows[j].kind = "item" => /\ rows[j].of \in RowIds
                                 /\ rows'[rows[j].of] # None
                                 /\ rows'[rows[j].of] = rows[rows[j].of]
    BY <1>1 DEF Live
  <2> QED
    BY <2>1, <2>2 DEF IInv, RowsOK, Live
<1>3. Aging
  BY <1>1 DEF Aging
<1>4. Making
  BY DEF Making
<1> QED
  BY <1>2, <1>3, <1>4

-----------------------------------------------------------------------------
LEMMA WriteStep ==
    ASSUME IInv, NEW k \in Kinds, NEW n \in Names, NEW t \in Time, Write(k, n, t)
    PROVE  IInv'
<1>1. /\ rules' = rules /\ clock' = clock /\ prune' = prune /\ setter' = setter
      /\ t <= clock /\ (k # "conversation" => t = clock)
  BY DEF Write
<1>2. PICK s \in ScopeIds, i \in RowIds :
        /\ \/ s \in IdsOf(n) /\ UNCHANGED <<scopes, nextScope>>
           \/ /\ IdsOf(n) = {} /\ s = nextScope
              /\ scopes' = [scopes EXCEPT ![s] = n]
              /\ nextScope' = s + 1
        /\ ~Live(i)
        /\ rows' = [rows EXCEPT ![i] = [kind |-> k, scope |-> s, at |-> t, of |-> None]]
  BY DEF Write
<1>3. /\ scopes' \in [ScopeIds -> Names \cup {None}]
      /\ nextScope' \in 1..(MaxScope + 1)
      /\ scopes'[s] = n
      /\ \A r \in ScopeIds : scopes[r] # None => scopes'[r] = scopes[r]
      /\ \A r \in ScopeIds : scopes'[r] \notin {None, scopes[r]} => scopes[r] = None
      /\ ScopesOK'
  <2>1. CASE s \in IdsOf(n) /\ UNCHANGED <<scopes, nextScope>>
    BY <1>1, <2>1 DEF IInv, TypeOK, ScopesOK, IdsOf
  <2>2. CASE /\ IdsOf(n) = {} /\ s = nextScope
             /\ scopes' = [scopes EXCEPT ![s] = n]
             /\ nextScope' = s + 1
    BY <1>1, <2>2, ScopeMade
  <2> QED
    BY <1>2, <2>1, <2>2
<1> DEFINE y == [kind |-> k, scope |-> s, at |-> t, of |-> None]
<1>4. /\ y \in Row /\ y.kind = k /\ y.scope = s /\ y.at = t /\ y.of = None
      /\ k # "item"
  BY DEF Row, Filed
<1>5. rows' = [rows EXCEPT ![i] = y]
  BY <1>2
<1> HIDE DEF y
<1>6. n # None
  OBVIOUS
<1>7. rows' \in [RowIds -> Row \cup {None}] /\ RowsOK' /\ Aging
  BY <1>1, <1>2, <1>3, <1>4, <1>5, <1>6, RowMade
<1>8. Making
  BY <1>3, <1>7, MakingIsFresh
<1>9. TypeOK' /\ SetterOK'
  BY <1>1, <1>3, <1>7, SetterRests DEF IInv, TypeOK
<1> QED
  BY <1>1, <1>3, <1>7, <1>8, <1>9, ContentStep

LEMMA WriteItemStep == ASSUME IInv, NEW w \in RowIds, WriteItem(w) PROVE IInv'
<1>1. /\ scopes' = scopes /\ rules' = rules /\ nextScope' = nextScope
      /\ clock' = clock /\ prune' = prune /\ setter' = setter
      /\ Live(w) /\ rows[w].kind = "workspace"
  BY DEF WriteItem
<1>2. PICK i \in RowIds :
        /\ ~Live(i)
        /\ rows' = [rows EXCEPT ![i] = [kind |-> "item", scope |-> None,
                                        at |-> clock, of |-> w]]
  BY DEF WriteItem
<1> DEFINE y == [kind |-> "item", scope |-> None, at |-> clock, of |-> w]
<1>3. y \in Row /\ y.kind = "item" /\ y.scope = None /\ y.at = clock /\ y.of = w
  BY Typed DEF IInv, Row
<1>4. rows' = [rows EXCEPT ![i] = y] /\ clock <= clock
  BY <1>2, Typed DEF IInv
<1> HIDE DEF y
<1>5. rows' \in [RowIds -> Row \cup {None}] /\ RowsOK' /\ Aging
  BY <1>1, <1>2, <1>3, <1>4, RowMade
<1>6. Making
  BY <1>1 DEF Making
<1>7. TypeOK' /\ ScopesOK' /\ SetterOK'
  BY <1>1, <1>5, SetterRests DEF IInv, TypeOK, ScopesOK
<1> QED
  BY <1>1, <1>5, <1>6, <1>7, ContentStep

LEMMA DeleteStep == ASSUME IInv, NEW w \in RowIds, Delete(w) PROVE IInv'
<1>1. /\ scopes' = scopes /\ rules' = rules /\ nextScope' = nextScope
      /\ clock' = clock /\ prune' = prune /\ setter' = setter
      /\ rows' = [j \in RowIds |-> IF j = w \/ (Live(j) /\ rows[j].of = w)
                                   THEN None ELSE rows[j]]
  BY DEF Delete
<1>2. \A i \in RowIds : Live(i)' => /\ Live(i) /\ rows'[i] = rows[i]
                                    /\ i # w /\ rows[i].of # w
  BY <1>1 DEF Live
<1>3. ASSUME NEW i \in RowIds, Live(i)', rows[i].kind = "item"
      PROVE  rows'[rows[i].of] # None
  <2>1. PICK v : v = rows[i].of
    OBVIOUS
  <2>2. /\ v \in RowIds /\ Live(v) /\ v # w /\ rows[v].kind = "workspace"
    BY <1>2, <1>3, <2>1 DEF IInv, RowsOK
  <2>3. rows[v].of = None /\ None # w
    BY <2>2 DEF IInv, RowsOK
  <2>4. rows'[v] = rows[v]
    BY <1>1, <2>2, <2>3
  <2> QED
    BY <2>1, <2>2, <2>4 DEF Live
<1>4. RowsOK' /\ Aging /\ Making
  BY <1>1, <1>2, <1>3, RowsGo
<1>5. TypeOK' /\ ScopesOK' /\ SetterOK'
  <2>1. rows' \in [RowIds -> Row \cup {None}]
    BY <1>1 DEF IInv, TypeOK
  <2> QED
    BY <1>1, <2>1, SetterRests DEF IInv, TypeOK, ScopesOK
<1> QED
  BY <1>1, <1>4, <1>5, ContentStep

(* The content of a removed scope is in none from then on.                 *)
LEMMA RemoveScopeStep == ASSUME IInv, NEW s \in ScopeIds, RemoveScope(s) PROVE IInv'
<1>1. /\ nextScope' = nextScope /\ clock' = clock /\ prune' = prune /\ setter' = setter
      /\ scopes' = [scopes EXCEPT ![s] = None]
      /\ rules' = [rules EXCEPT ![s] = None]
  BY DEF RemoveScope
<1>2. /\ scopes' \in [ScopeIds -> Names \cup {None}]
      /\ rules' \in [ScopeIds -> Days \cup {None}]
      /\ scopes'[s] = None /\ rules'[s] = None
      /\ \A r \in ScopeIds : r # s => scopes'[r] = scopes[r] /\ rules'[r] = rules[r]
  BY <1>1 DEF IInv, TypeOK
<1>3. ScopesOK'
  BY <1>1, <1>2 DEF IInv, ScopesOK
<1>4. ASSUME NEW i \in RowIds
      PROVE  /\ rows'[i] \in Row \cup {None}
             /\ Live(i)' <=> Live(i)
             /\ Live(i) => /\ rows'[i].kind = rows[i].kind /\ rows'[i].at = rows[i].at
                           /\ rows'[i].of = rows[i].of
                           /\ rows'[i].scope = IF rows[i].scope = s THEN None
                                               ELSE rows[i].scope
  <2>1. CASE Live(i) /\ rows[i].scope = s
    <3>1. rows'[i] = [rows[i] EXCEPT !.scope = None]
      BY <2>1 DEF RemoveScope
    <3>2. rows[i] \in Row
      BY <2>1, RowTyped DEF IInv
    <3>3. rows'[i] \in Row
      BY <3>1, <3>2 DEF Row
    <3>4. rows'[i] # None
      BY <3>3, Zenon
    <3> QED
      BY <2>1, <3>1, <3>2, <3>3, <3>4 DEF Row, Live
  <2>2. CASE ~(Live(i) /\ rows[i].scope = s)
    <3>1. rows'[i] = rows[i]
      BY <2>2 DEF RemoveScope
    <3>2. rows[i] \in Row \cup {None}
      BY DEF IInv, TypeOK
    <3> QED
      BY <2>2, <3>1, <3>2 DEF Live
  <2> QED
    BY <2>1, <2>2
<1>5. rows' \in [RowIds -> Row \cup {None}]
  <2>1. rows' = [i \in RowIds |-> rows'[i]]
    BY DEF RemoveScope
  <2> QED
    BY <1>4, <2>1
<1>6. RowsOK'
  <2> SUFFICES ASSUME NEW j \in RowIds, Live(j)'
               PROVE  /\ rows'[j].at <= clock
                      /\ rows'[j].scope # None => scopes'[rows'[j].scope] # None
                      /\ rows'[j].kind # "item" => rows'[j].of = None
                      /\ rows'[j].kind = "item" =>
                           /\ rows'[j].scope = None /\ rows'[j].of \in RowIds
                           /\ rows'[rows'[j].of] # None
                           /\ rows'[rows'[j].of].kind = "workspace"
    BY <1>1 DEF RowsOK, Live
  <2>1. Live(j)
    BY <1>4
  <2>2. rows'[j].scope # None => scopes'[rows'[j].scope] # None
    <3> SUFFICES ASSUME rows'[j].scope # None PROVE scopes'[rows'[j].scope] # None
      OBVIOUS
    <3>1. PICK r : r = rows[j].scope
      OBVIOUS
    <3>2. r # s /\ r # None /\ rows'[j].scope = r
      BY <1>4, <2>1, <3>1
    <3>3. r \in ScopeIds /\ scopes[r] # None
      BY <2>1, <3>1, <3>2, RowTyped DEF IInv, RowsOK
    <3> QED
      BY <1>2, <3>2, <3>3
  <2>3. rows'[j].kind = "item" =>
           /\ rows'[j].scope = None /\ rows'[j].of \in RowIds
           /\ rows'[rows'[j].of] # None
           /\ rows'[rows'[j].of].kind = "workspace"
    <3> SUFFICES ASSUME rows[j].kind = "item"
                 PROVE  /\ rows'[j].scope = None /\ rows'[j].of \in RowIds
                        /\ rows'[rows'[j].of] # None
                        /\ rows'[rows'[j].of].kind = "workspace"
      BY <1>4, <2>1
    <3>1. PICK w : w = rows[j].of
      OBVIOUS
    <3>2. /\ w \in RowIds /\ Live(w) /\ rows[w].kind = "workspace"
          /\ rows[j].scope = None
      BY <2>1, <3>1 DEF IInv, RowsOK
    <3>3. rows'[w] # None /\ rows'[w].kind = "workspace"
      BY <1>4, <3>2 DEF Live
    <3>4. rows'[j].of = w /\ rows'[j].scope = None
      BY <1>4, <2>1, <3>1, <3>2
    <3> QED
      BY <3>2, <3>3, <3>4
  <2>4. rows'[j].at <= clock /\ (rows'[j].kind # "item" => rows'[j].of = None)
    BY <1>4, <2>1 DEF IInv, RowsOK
  <2> QED
    BY <2>2, <2>3, <2>4
<1>7. Aging
  <2> SUFFICES ASSUME NEW j \in RowIds, Live(j)', rows'[j].kind # "conversation",
                      ScopeOf(j)' \in ScopeIds
               PROVE  /\ Live(j) /\ rows[j].kind # "conversation"
                      /\ ScopeOf(j)' = ScopeOf(j) /\ rows'[j].at = rows[j].at
    BY DEF Aging
  <2>1. /\ Live(j) /\ rows[j].kind # "conversation" /\ rows'[j].at = rows[j].at
        /\ rows'[j].kind = rows[j].kind
    BY <1>4
  <2>2. CASE rows[j].kind = "item"
    <3>1. PICK w : w = rows[j].of
      OBVIOUS
    <3>2. w \in RowIds /\ Live(w)
      BY <2>1, <2>2, <3>1 DEF IInv, RowsOK
    <3>3. rows'[j].of = w
      BY <1>4, <2>1, <3>1
    <3>4. ScopeOf(j)' = rows'[w].scope /\ ScopeOf(j) = rows[w].scope
      BY <2>1, <2>2, <3>1, <3>3 DEF ScopeOf
    <3>5. rows'[w].scope = IF rows[w].scope = s THEN None ELSE rows[w].scope
      BY <1>4, <3>2
    <3> QED
      BY <2>1, <3>4, <3>5
  <2>3. CASE rows[j].kind # "item"
    <3>1. ScopeOf(j)' = rows'[j].scope /\ ScopeOf(j) = rows[j].scope
      BY <2>1, <2>3 DEF ScopeOf
    <3>2. rows'[j].scope = IF rows[j].scope = s THEN None ELSE rows[j].scope
      BY <1>4, <2>1
    <3> QED
      BY <2>1, <3>1, <3>2
  <2> QED
    BY <2>2, <2>3
<1>8. Making
  BY <1>2 DEF Making
<1>9. TypeOK' /\ SetterOK'
  BY <1>1, <1>2, <1>5, SetterRests DEF IInv, TypeOK
<1> QED
  BY <1>1, <1>3, <1>6, <1>7, <1>8, <1>9, ContentStep

LEMMA SetCreatesStep == ASSUME IInv, SetCreates PROVE IInv'
<1>1. /\ rules' = rules /\ rows' = rows /\ clock' = clock /\ prune' = prune
      /\ setter.stage = "create"
  BY DEF SetCreates
<1>2. CASE IdsOf(setter.name) # {}
  <2>1. setter' = NotSetting /\ UNCHANGED tables
    BY <1>1, <1>2 DEF SetCreates, tables
  <2>2. prune' \in Prune /\ Fits(prune')
    BY <1>1, Typed DEF IInv
  <2> QED
    BY <1>1, <2>1, <2>2, NotSettingOK, ProcessStep
<1>3. CASE IdsOf(setter.name) = {}
  <2>1. PICK n \in Names : n = setter.name
    BY <1>1 DEF IInv, SetterOK
  <2>2. /\ nextScope \in ScopeIds
        /\ scopes' = [scopes EXCEPT ![nextScope] = n]
        /\ nextScope' = nextScope + 1
        /\ setter' = [setter EXCEPT !.stage = "upsert", !.name = None,
                                    !.scope = nextScope]
    BY <1>3, <2>1 DEF SetCreates
  <2>3. /\ scopes' \in [ScopeIds -> Names \cup {None}]
        /\ nextScope' \in 1..(MaxScope + 1)
        /\ \A s \in ScopeIds : scopes[s] # None => scopes'[s] = scopes[s]
        /\ \A s \in ScopeIds : scopes'[s] \notin {None, scopes[s]} => scopes[s] = None
        /\ ScopesOK'
    BY <1>1, <1>3, <2>1, <2>2, ScopeMade
  <2>4. setter' \in Setter /\ SetterOK'
    <3>1. setter \in Setter /\ setter.days \in Days
      BY <1>1, Typed DEF IInv, SetterOK
    <3> QED
      BY <2>2, <3>1 DEF Setter, SetterOK
  <2>5. RowsOK'
    <3> SUFFICES ASSUME NEW i \in RowIds, Live(i), rows[i].scope # None
                 PROVE  scopes'[rows[i].scope] # None
      BY <1>1 DEF IInv, RowsOK, Live
    <3>1. rows[i].scope \in ScopeIds /\ scopes[rows[i].scope] # None
      BY RowTyped DEF IInv, RowsOK
    <3> QED
      BY <2>3, <3>1
  <2>6. Aging
    BY <1>1 DEF Aging, Live, ScopeOf
  <2>7. Making
    BY <2>3, <2>6, MakingIsFresh
  <2>8. TypeOK'
    BY <1>1, <2>3, <2>4 DEF IInv, TypeOK
  <2> QED
    BY <1>1, <2>3, <2>4, <2>5, <2>6, <2>7, <2>8, ContentStep
<1> QED
  BY <1>2, <1>3

(* A sweep takes rows with it and no workspace, and goes to the next rule. *)
LEMMA SweepStep == ASSUME IInv, Sweep PROVE IInv'
<1>1. /\ scopes' = scopes /\ rules' = rules /\ nextScope' = nextScope
      /\ clock' = clock /\ setter' = setter /\ prune' = Done(prune)
  BY DEF Sweep
<1>2. \A i \in RowIds : /\ rows'[i] \in {rows[i], None}
                        /\ Live(i) /\ rows[i].kind = "workspace" => rows'[i] = rows[i]
  BY DEF Sweep, Expired
<1>3. rows' \in [RowIds -> Row \cup {None}]
  BY DEF Sweep, IInv, TypeOK
<1>4. RowsOK' /\ Aging /\ Making
  <2>1. \A i \in RowIds : Live(i)' => Live(i) /\ rows'[i] = rows[i]
    BY <1>2 DEF Live
  <2>2. ASSUME NEW i \in RowIds, Live(i)', rows[i].kind = "item"
        PROVE  rows'[rows[i].of] # None
    <3>1. PICK v : v = rows[i].of
      OBVIOUS
    <3>2. v \in RowIds /\ Live(v) /\ rows[v].kind = "workspace"
      BY <2>1, <2>2, <3>1 DEF IInv, RowsOK
    <3>3. rows'[v] = rows[v]
      BY <1>2, <3>2
    <3> QED
      BY <3>1, <3>2, <3>3 DEF Live
  <2> QED
    BY <1>1, <2>1, <2>2, RowsGo
<1>5. PICK d : d = Done(prune)
  OBVIOUS
<1>6. d \in Prune /\ Fits(d) /\ TypeOK
  BY <1>5, DoneFits, Typed DEF IInv
<1>7. Fits(d)'
  <2>1. clock' \in Nat /\ clock' >= clock
    BY <1>1, Typed DEF IInv
  <2> QED
    BY <1>3, <1>4, <1>6, <2>1, PruneStays
<1>8. TypeOK' /\ ScopesOK' /\ SetterOK'
  BY <1>1, <1>3, <1>5, <1>6, SetterRests DEF IInv, TypeOK, ScopesOK
<1>9. Fits(prune)'
  BY <1>1, <1>5, <1>7 DEF Fits, Ruled, Covered
<1> QED
  BY <1>4, <1>8, <1>9 DEF IInv

-----------------------------------------------------------------------------
LEMMA NextIInv == IInv /\ [Next]_vars => IInv'
<1> SUFFICES ASSUME IInv, [Next]_vars PROVE IInv'
  OBVIOUS
<1>1. ASSUME Tick \/ Sweep \/ SetCreates \/ SetRule \/ Die PROVE IInv'
  BY <1>1, TickStep, SweepStep, SetCreatesStep, SetRuleStep, DieStep
<1>2. ASSUME NEW k \in Kinds, NEW n \in Names, NEW t \in Time, Write(k, n, t) PROVE IInv'
  BY <1>2, WriteStep
<1>3. ASSUME NEW i \in RowIds, WriteItem(i) \/ Delete(i) PROVE IInv'
  BY <1>3, WriteItemStep, DeleteStep
<1>4. ASSUME NEW s \in ScopeIds, RemoveScope(s) PROVE IInv'
  BY <1>4, RemoveScopeStep
<1>5. ASSUME NEW n \in Names, Clear(n) \/ \E d \in Days : Set(n, d) PROVE IInv'
  BY <1>5, ClearStep, SetStep
<1>6. ASSUME NEW n \in Names \cup {None}, NEW dry \in BOOLEAN, StartPrune(n, dry)
      PROVE  IInv'
  BY <1>6, StartPruneStep
<1>7. ASSUME NEW r \in Rule, FindScope(r) PROVE IInv'
  BY <1>7, FindScopeStep
<1>8. ASSUME UNCHANGED vars PROVE IInv'
  BY <1>8, StutterStep
<1> QED
  BY <1>1, <1>2, <1>3, <1>4, <1>5, <1>6, <1>7, <1>8 DEF Next

THEOREM Invariance == Spec => []IInv
BY InitIInv, NextIInv, PTL DEF Spec

(***************************************************************************)
(* Every reachable state of scopes, rules, content, prunes and setters is  *)
(* well typed, for any names, periods and bounds.                          *)
(***************************************************************************)
THEOREM TypeCorrect == Spec => []TypeOK
<1>1. IInv => TypeOK
  BY DEF IInv
<1> QED
  BY <1>1, Invariance, PTL

-----------------------------------------------------------------------------
(* A row of an export is one of the store, with the name of its scope.     *)
LEMMA Collected ==
    ASSUME NEW k, NEW f, NEW e
    PROVE  e \in Collect(k, f) <=>
             \E i \in RowIds : /\ Live(i) /\ rows[i].kind = k
                               /\ f = None \/ NameOf(rows[i].scope) = f
                               /\ e = [row |-> i, scope |-> NameOf(rows[i].scope)]
BY DEF Collect

LEMMA CollectOf ==
    ASSUME NEW k, NEW n \in Names
    PROVE  Collect(k, n) = {e \in Collect(k, None) : e.scope = n}
<1>1. n # None
  OBVIOUS
<1>2. ASSUME NEW e PROVE e \in Collect(k, n) <=> e \in Collect(k, None) /\ e.scope = n
  <2>1. ASSUME e \in Collect(k, n) PROVE e \in Collect(k, None) /\ e.scope = n
    BY <1>1, <2>1, Collected
  <2>2. ASSUME e \in Collect(k, None), e.scope = n PROVE e \in Collect(k, n)
    BY <2>2, Collected
  <2> QED
    BY <2>1, <2>2
<1> QED
  BY <1>2

LEMMA CollectedWorkspace ==
    ASSUME NEW f, NEW e
    PROVE  e \in CollectWorkspaces(f) <=>
             \E c \in Collect("workspace", f) :
               e = [row |-> c.row, scope |-> c.scope,
                    items |-> {i \in RowIds : Live(i) /\ rows[i].of = c.row}]
BY DEF CollectWorkspaces

LEMMA CollectWorkspacesOf ==
    ASSUME NEW n \in Names
    PROVE  CollectWorkspaces(n) = {e \in CollectWorkspaces(None) : e.scope = n}
<1>1. ASSUME NEW e
      PROVE  e \in CollectWorkspaces(n) <=> e \in CollectWorkspaces(None) /\ e.scope = n
  <2>1. ASSUME e \in CollectWorkspaces(n)
        PROVE  e \in CollectWorkspaces(None) /\ e.scope = n
    <3>1. PICK c \in Collect("workspace", n) :
            e = [row |-> c.row, scope |-> c.scope,
                 items |-> {i \in RowIds : Live(i) /\ rows[i].of = c.row}]
      BY <2>1, CollectedWorkspace
    <3>2. c \in Collect("workspace", None) /\ c.scope = n
      BY <3>1, CollectOf
    <3> QED
      BY <3>1, <3>2, CollectedWorkspace
  <2>2. ASSUME e \in CollectWorkspaces(None), e.scope = n
        PROVE  e \in CollectWorkspaces(n)
    <3>1. PICK c \in Collect("workspace", None) :
            e = [row |-> c.row, scope |-> c.scope,
                 items |-> {i \in RowIds : Live(i) /\ rows[i].of = c.row}]
      BY <2>2, CollectedWorkspace
    <3>2. c \in Collect("workspace", n)
      BY <2>2, <3>1, CollectOf
    <3> QED
      BY <3>1, <3>2, CollectedWorkspace
  <2> QED
    BY <2>1, <2>2
<1> QED
  BY <1>1

(* What the export of a filter holds, part by part.                        *)
LEMMA Exported ==
    ASSUME NEW f
    PROVE  /\ Export(f).scopes = CollectScopes(f)
           /\ Export(f).rows = Collect("memory", f) \cup Collect("document", f)
                                 \cup Collect("conversation", f)
           /\ Export(f).workspaces = CollectWorkspaces(f)
BY DEF Export, CollectMemories, CollectDocuments, CollectConversations

(* The scope a row names is one there is.                                  *)
LEMMA NamedIsListed ==
    ASSUME IInv, NEW i \in RowIds, Live(i), NameOf(rows[i].scope) # None
    PROVE  /\ rows[i].scope \in ScopeIds
           /\ NameOf(rows[i].scope) = scopes[rows[i].scope]
           /\ NameOf(rows[i].scope) \in Names
           /\ NameOf(rows[i].scope) \in CollectScopes(None)
<1>1. PICK s : s = rows[i].scope
  OBVIOUS
<1>2. s # None /\ NameOf(s) = scopes[s]
  BY <1>1 DEF NameOf
<1>3. s \in ScopeIds
  BY <1>1, <1>2, RowTyped DEF IInv
<1>4. scopes[s] # None /\ scopes[s] \in Names
  BY <1>1, <1>2, <1>3, Typed DEF IInv, RowsOK
<1>5. scopes[s] \in CollectScopes(None)
  BY <1>3, <1>4 DEF CollectScopes
<1> QED
  BY <1>1, <1>2, <1>3, <1>4, <1>5

(* Every entry of an export is for a live row and names its scope.         *)
LEMMA EntryNames ==
    ASSUME NEW e, e \in Export(None).rows \cup Export(None).workspaces
    PROVE  \E i \in RowIds : /\ Live(i) /\ rows[i].kind \in Filed
                             /\ e.row = i /\ e.scope = NameOf(rows[i].scope)
<1>1. CASE e \in Export(None).rows
  <2>1. PICK k \in {"memory", "document", "conversation"} : e \in Collect(k, None)
    BY <1>1, Exported
  <2> QED
    BY <2>1, Collected DEF Filed
<1>2. CASE e \in Export(None).workspaces
  <2>1. PICK c \in Collect("workspace", None) : e.row = c.row /\ e.scope = c.scope
    BY <1>2, Exported, CollectedWorkspace
  <2> QED
    BY <2>1, Collected DEF Filed
<1> QED
  BY <1>1, <1>2

LEMMA NamesListed ==
    ASSUME IInv
    PROVE  {e.scope : e \in Export(None).rows \cup Export(None).workspaces}
             \subseteq Export(None).scopes \cup {None}
<1> SUFFICES ASSUME NEW e \in Export(None).rows \cup Export(None).workspaces,
                    e.scope # None
             PROVE  e.scope \in Export(None).scopes
  OBVIOUS
<1>1. PICK i \in RowIds : Live(i) /\ e.scope = NameOf(rows[i].scope)
  BY EntryNames
<1>2. e.scope \in CollectScopes(None)
  BY <1>1, NamedIsListed
<1> QED
  BY <1>2, Exported

LEMMA PartsAgree ==
    ASSUME IInv, NEW n \in Names
    PROVE  /\ Export(n).rows = {e \in Export(None).rows : e.scope = n}
           /\ Export(n).workspaces = {e \in Export(None).workspaces : e.scope = n}
           /\ Export(n).rows \cup Export(n).workspaces # {} => Export(n).scopes = {n}
<1>1. Export(n).rows = {e \in Export(None).rows : e.scope = n}
  <2>1. \A k : Collect(k, n) = {e \in Collect(k, None) : e.scope = n}
    BY CollectOf
  <2>2. Export(n).rows = {e \in Collect("memory", None) : e.scope = n}
                           \cup {e \in Collect("document", None) : e.scope = n}
                           \cup {e \in Collect("conversation", None) : e.scope = n}
    BY <2>1, Exported
  <2>3. Export(None).rows = Collect("memory", None) \cup Collect("document", None)
                              \cup Collect("conversation", None)
    BY Exported
  <2> QED
    BY <2>2, <2>3
<1>2. Export(n).workspaces = {e \in Export(None).workspaces : e.scope = n}
  BY CollectWorkspacesOf, Exported
<1>3. ASSUME NEW e, e \in Export(n).rows \cup Export(n).workspaces
      PROVE  Export(n).scopes = {n}
  <2>1. e \in Export(None).rows \cup Export(None).workspaces /\ e.scope = n
    BY <1>1, <1>2, <1>3
  <2>2. PICK i \in RowIds : Live(i) /\ e.scope = NameOf(rows[i].scope)
    BY <2>1, EntryNames
  <2>3. n # None
    OBVIOUS
  <2>4. n \in CollectScopes(None)
    BY <2>1, <2>2, <2>3, NamedIsListed
  <2>5. CollectScopes(n) = {n}
    BY <2>3, <2>4 DEF CollectScopes
  <2> QED
    BY <2>5, Exported
<1> QED
  BY <1>1, <1>2, <1>3

LEMMA RowsExported ==
    ASSUME IInv
    PROVE  {i \in RowIds : Live(i)} =
             {e.row : e \in Export(None).rows \cup Export(None).workspaces}
               \cup UNION {e.items : e \in Export(None).workspaces}
<1>1. ASSUME NEW i \in RowIds, Live(i), rows[i].kind \in Filed
      PROVE  i \in {e.row : e \in Export(None).rows \cup Export(None).workspaces}
  <2> DEFINE c == [row |-> i, scope |-> NameOf(rows[i].scope)]
  <2>1. c \in Collect(rows[i].kind, None) /\ c.row = i
    BY <1>1, Collected
  <2> HIDE DEF c
  <2>2. CASE rows[i].kind # "workspace"
    <3>1. c \in Export(None).rows
      BY <1>1, <2>1, <2>2, Exported DEF Filed
    <3> QED
      BY <2>1, <3>1
  <2>3. CASE rows[i].kind = "workspace"
    <3> DEFINE e == [row |-> c.row, scope |-> c.scope,
                     items |-> {j \in RowIds : Live(j) /\ rows[j].of = c.row}]
    <3>1. e \in CollectWorkspaces(None)
      BY <2>1, <2>3, CollectedWorkspace
    <3>2. e.row = i
      BY <2>1
    <3> QED
      BY <3>1, <3>2, Exported
  <2> QED
    BY <2>2, <2>3
<1>2. ASSUME NEW i \in RowIds, Live(i), rows[i].kind = "item"
      PROVE  i \in UNION {e.items : e \in Export(None).workspaces}
  <2>1. PICK w \in RowIds : w = rows[i].of /\ Live(w) /\ rows[w].kind = "workspace"
    BY <1>2 DEF IInv, RowsOK
  <2> DEFINE c == [row |-> w, scope |-> NameOf(rows[w].scope)]
             e == [row |-> c.row, scope |-> c.scope,
                   items |-> {j \in RowIds : Live(j) /\ rows[j].of = c.row}]
  <2>2. c \in Collect("workspace", None)
    BY <2>1, Collected
  <2>3. e \in CollectWorkspaces(None)
    BY <2>2, CollectedWorkspace
  <2>4. i \in e.items
    BY <1>2, <2>1
  <2> HIDE DEF e
  <2> QED
    BY <2>3, <2>4, Exported
<1>3. ASSUME NEW i, i \in {e.row : e \in Export(None).rows \cup Export(None).workspaces}
      PROVE  i \in RowIds /\ Live(i)
  BY <1>3, EntryNames
<1>4. ASSUME NEW i, i \in UNION {e.items : e \in Export(None).workspaces}
      PROVE  i \in RowIds /\ Live(i)
  <2>1. PICK e \in CollectWorkspaces(None) : i \in e.items
    BY <1>4, Exported
  <2> QED
    BY <2>1, CollectedWorkspace
<1>5. \A i \in RowIds : Live(i) => rows[i].kind \in Filed \cup {"item"}
  BY RowTyped DEF IInv, Filed
<1> DEFINE A == {i \in RowIds : Live(i)}
           B == {e.row : e \in Export(None).rows \cup Export(None).workspaces}
           C == UNION {e.items : e \in Export(None).workspaces}
<1>6. \A i : i \in A => i \in B \cup C
  BY <1>1, <1>2, <1>5
<1>7. \A i : i \in B \cup C => i \in A
  BY <1>3, <1>4
<1> HIDE DEF A, B, C
<1>8. A = B \cup C
  BY <1>6, <1>7
<1> QED
  BY <1>8 DEF A, B, C

(***************************************************************************)
(* At every moment, also between the steps of a removal or a prune, the    *)
(* exports agree: the export of a scope is the part of the full one under  *)
(* its name, every scope named is listed, and every row of the store is in *)
(* the full one, an item inside its workspace (export.ts:94-103).          *)
(***************************************************************************)
THEOREM EveryExportAgrees == Spec => []ExportsAgree
<1>1. IInv => ExportsAgree
  <2> SUFFICES ASSUME IInv PROVE ExportsAgree
    OBVIOUS
  <2>1. TypeOK
    BY DEF IInv
  <2>2. \A i \in RowIds : Live(i) /\ rows[i].scope # None
                            => scopes[rows[i].scope] # None
    BY DEF IInv, RowsOK
  <2> QED
    BY <2>1, <2>2, NamesListed, PartsAgree, RowsExported DEF ExportsAgree
<1> QED
  BY <1>1, Invariance, PTL

-----------------------------------------------------------------------------
(* Only a sweep that is not dry removes rows and takes a prune further.    *)
LEMMA OnlySweepRemoves ==
    ASSUME [Next]_vars, prune' # prune, NEW i \in RowIds, Removed(i)
    PROVE  Sweep /\ ~prune.dry /\ i \in Expired
<1>1. rows' # rows
  BY DEF Removed, Live
<1>2. ~(UNCHANGED vars) /\ ~Tick /\ ~SetCreates /\ ~SetRule /\ ~Die
  BY <1>1 DEF vars, Tick, tables, SetCreates, SetRule, Die
<1>3. \A k \in Kinds, n \in Names, t \in Time : ~Write(k, n, t)
  BY DEF Write
<1>4. \A w \in RowIds : ~WriteItem(w) /\ ~Delete(w)
  BY DEF WriteItem, Delete
<1>5. \A s \in ScopeIds : ~RemoveScope(s)
  BY DEF RemoveScope
<1>6. \A n \in Names : ~Clear(n) /\ \A d \in Days : ~Set(n, d)
  BY <1>1 DEF Clear, Set, tables
<1>7. \A n \in Names \cup {None}, dry \in BOOLEAN : ~StartPrune(n, dry)
  BY <1>1 DEF StartPrune, tables
<1>8. \A r \in Rule : ~FindScope(r)
  BY <1>1 DEF FindScope, tables
<1>9. Sweep
  BY <1>2, <1>3, <1>4, <1>5, <1>6, <1>7, <1>8 DEF Next
<1>10. ~prune.dry /\ rows'[i] = IF i \in Expired THEN None ELSE rows[i]
  BY <1>1, <1>9 DEF Sweep
<1> QED
  BY <1>9, <1>10 DEF Removed, Live

(* What a sweep finds expired is under the rule it goes by.                *)
LEMMA ExpiredByRule ==
    ASSUME IInv, prune.stage = "sweep", NEW i \in Expired
    PROVE  /\ i \in RowIds /\ rows[i].kind # "workspace" /\ ScopeOf(i) # None
           /\ \E r \in prune.ruled :
                /\ rows[i].at + r[2] < prune.now
                /\ rows[i].kind # "conversation" => r[1] = ScopeOf(i)
<1>1. /\ i \in RowIds /\ Live(i) /\ rows[i].kind # "workspace"
      /\ ScopeOf(i) = prune.scope /\ rows[i].at < prune.now - prune.days
  BY DEF Expired, Cutoff
<1>2. /\ prune.scope \in ScopeIds /\ prune.days \in Days
      /\ Ruled(prune, prune.days) /\ Covered(prune, prune.scope, prune.days)
  BY DEF IInv, Fits
<1>3. prune.scope # None
  BY <1>2
<1>4. rows[i].at \in Nat /\ prune.now \in Nat /\ prune.days \in Nat \ {0}
  BY <1>1, <1>2, RowTyped, Typed, PruneTyped DEF IInv
<1>5. rows[i].at + prune.days < prune.now /\ ~(rows[i].at >= prune.now)
  BY <1>1, <1>4
<1>6. CASE rows[i].kind = "conversation"
  <2>1. PICK q \in prune.ruled : q[2] = prune.days
    BY <1>2 DEF Ruled
  <2> QED
    BY <1>1, <1>3, <1>5, <1>6, <2>1
<1>7. CASE rows[i].kind # "conversation"
  <2>1. ~Fresh(prune.scope, prune.now)
    BY <1>1, <1>5, <1>7 DEF Fresh
  <2>2. <<prune.scope, prune.days>> \in prune.ruled
    BY <1>2, <2>1 DEF Covered
  <2> QED
    BY <1>1, <1>3, <1>5, <2>2
<1> QED
  BY <1>6, <1>7

-----------------------------------------------------------------------------
(***************************************************************************)
(* The rules a prune has yet to apply are of those it listed, and so is    *)
(* the one it sweeps by, under the name of the scope it has found: a name, *)
(* once gone from an id, does not come back to it.                         *)
(***************************************************************************)
ByName ==
    /\ prune.rules \subseteq prune.listed
    /\ prune.stage = "sweep" =>
         /\ prune.scope \in ScopeIds /\ prune.scope < nextScope
         /\ scopes[prune.scope] # None =>
              [name |-> scopes[prune.scope], days |-> prune.days] \in prune.listed

(* The ids that have been handed out keep their names or lose them.        *)
LEMMA IdsStay ==
    ASSUME IInv, [Next]_vars
    PROVE  /\ nextScope \in Nat /\ nextScope' \in Nat /\ nextScope' >= nextScope
           /\ \A s \in ScopeIds : s < nextScope => scopes'[s] \in {scopes[s], None}
<1> DEFINE Kept == /\ nextScope' \in Nat /\ nextScope' >= nextScope
                   /\ \A s \in ScopeIds : s < nextScope => scopes'[s] \in {scopes[s], None}
<1>1. nextScope \in Nat /\ DOMAIN scopes = ScopeIds
  BY Typed DEF IInv, TypeOK
<1>2. CASE UNCHANGED <<scopes, nextScope>>
  BY <1>1, <1>2
<1>3. ASSUME NEW n, scopes' = [scopes EXCEPT ![nextScope] = n], nextScope' = nextScope + 1
      PROVE  Kept
  BY <1>1, <1>3
<1>4. ASSUME NEW k \in Kinds, NEW n \in Names, NEW t \in Time, Write(k, n, t) PROVE Kept
  BY <1>2, <1>3, <1>4 DEF Write
<1>5. CASE SetCreates
  <2>1. \/ scopes' = [scopes EXCEPT ![nextScope] = setter.name] /\ nextScope' = nextScope + 1
        \/ UNCHANGED <<scopes, nextScope>>
    BY <1>5 DEF SetCreates
  <2>2. CASE UNCHANGED <<scopes, nextScope>>
    BY <1>2, <2>2
  <2>3. CASE scopes' = [scopes EXCEPT ![nextScope] = setter.name] /\ nextScope' = nextScope + 1
    <3>1. Kept
      BY <1>3, <2>3
    <3> QED
      BY <1>1, <3>1
  <2> QED
    BY <2>1, <2>2, <2>3
<1>6. ASSUME NEW s \in ScopeIds, RemoveScope(s) PROVE Kept
  BY <1>1, <1>6 DEF RemoveScope
<1>7. ASSUME \/ Tick \/ Sweep \/ SetRule \/ Die
             \/ \E i \in RowIds : WriteItem(i) \/ Delete(i)
             \/ \E n \in Names : Clear(n) \/ \E d \in Days : Set(n, d)
             \/ \E n \in Names \cup {None}, dry \in BOOLEAN : StartPrune(n, dry)
             \/ \E q \in Rule : FindScope(q)
             \/ UNCHANGED vars
      PROVE  UNCHANGED <<scopes, nextScope>>
  BY <1>7 DEF Tick, Sweep, SetRule, Die, WriteItem, Delete, Clear, Set, StartPrune,
              FindScope, tables, vars
<1> QED
  BY <1>1, <1>2, <1>4, <1>5, <1>6, <1>7 DEF Next

LEMMA ByNameStays == ASSUME IInv, ByName, [Next]_vars PROVE ByName'
<1> DEFINE Named(p) ==
             /\ p.rules \subseteq p.listed
             /\ p.stage = "sweep" =>
                  /\ p.scope \in ScopeIds /\ p.scope < nextScope'
                  /\ scopes'[p.scope] # None =>
                       [name |-> scopes'[p.scope], days |-> p.days] \in p.listed
<1>1. Named(prune)
  <2>1. CASE prune.stage = "sweep"
    <3>1. PICK s : s = prune.scope
      OBVIOUS
    <3>2. /\ s \in ScopeIds /\ s < nextScope
          /\ scopes[s] # None => [name |-> scopes[s], days |-> prune.days] \in prune.listed
      BY <2>1, <3>1 DEF ByName
    <3>3. s < nextScope' /\ scopes'[s] \in {scopes[s], None}
      BY <3>2, IdsStay
    <3> QED
      BY <3>1, <3>2, <3>3 DEF ByName
  <2> QED
    BY <2>1 DEF ByName
<1>2. Named(NotPruning)
  BY DEF NotPruning
<1>3. ASSUME NEW p \in Prune, p.rules \subseteq p.listed
      PROVE  Named(Done(p))
  <2>1. CASE p.rules = {}
    BY <1>2, <2>1 DEF Done
  <2>2. CASE p.rules # {}
    <3> DEFINE d == [p EXCEPT !.stage = "next", !.days = None, !.scope = None]
    <3>1. d.stage = "next" /\ d.rules = p.rules /\ d.listed = p.listed
      BY DEF Prune
    <3>2. Done(p) = d
      BY <2>2 DEF Done
    <3> HIDE DEF d
    <3> QED
      BY <1>3, <3>1, <3>2
  <2> QED
    BY <2>1, <2>2
<1>4. prune \in Prune /\ prune.rules \subseteq prune.listed
  BY Typed DEF IInv, ByName
<1>5. CASE Sweep
  BY <1>3, <1>4, <1>5 DEF Sweep, ByName
<1>6. ASSUME NEW n \in Names \cup {None}, NEW dry \in BOOLEAN, StartPrune(n, dry)
      PROVE  ByName'
  <2> DEFINE found == {[name |-> scopes[s], days |-> rules[s]] : s \in Rules(n)}
             held == {<<s, rules[s]>> : s \in Rules(n)}
  <2>1. prune' = [NotPruning EXCEPT !.stage = "next", !.now = clock, !.dry = dry,
                                    !.rules = found, !.listed = found, !.ruled = held]
    BY <1>6 DEF StartPrune
  <2> HIDE DEF found, held
  <2>2. prune'.stage = "next" /\ prune'.rules = found /\ prune'.listed = found
    BY <2>1 DEF NotPruning
  <2> QED
    BY <2>2 DEF ByName
<1>7. ASSUME NEW q \in Rule, FindScope(q) PROVE ByName'
  <2> DEFINE rest == [prune EXCEPT !.rules = @ \ {q}]
  <2>1. /\ rest \in Prune /\ rest.rules = prune.rules \ {q} /\ rest.listed = prune.listed
        /\ rest.rules \subseteq rest.listed /\ q \in prune.listed
    BY <1>4, <1>7 DEF Prune, FindScope
  <2>2. /\ scopes' = scopes /\ nextScope' = nextScope
        /\ prune' = IF IdsOf(q.name) = {} THEN Done(rest)
                    ELSE [rest EXCEPT !.stage = "sweep", !.days = q.days,
                                      !.scope = CHOOSE s \in IdsOf(q.name) : TRUE]
    BY <1>7 DEF FindScope, tables
  <2> HIDE DEF rest
  <2>3. CASE IdsOf(q.name) = {}
    BY <1>3, <2>1, <2>2, <2>3 DEF ByName
  <2>4. CASE IdsOf(q.name) # {}
    <3>1. PICK s : s = CHOOSE t \in IdsOf(q.name) : TRUE
      OBVIOUS
    <3>2. s \in ScopeIds /\ scopes[s] = q.name
      BY <2>4, <3>1 DEF IdsOf
    <3>3. q.name \in Names /\ q = [name |-> q.name, days |-> q.days]
      BY DEF Rule
    <3>4. s < nextScope
      BY <3>2, <3>3 DEF IInv, ScopesOK
    <3>5. prune' = [rest EXCEPT !.stage = "sweep", !.days = q.days, !.scope = s]
      BY <2>2, <2>4, <3>1
    <3>6. /\ prune'.rules = rest.rules /\ prune'.listed = rest.listed
          /\ prune'.scope = s /\ prune'.days = q.days
      BY <2>1, <3>5 DEF Prune
    <3> QED
      BY <2>1, <2>2, <3>2, <3>3, <3>4, <3>6 DEF ByName
  <2> QED
    BY <2>3, <2>4
<1>8. CASE Die
  BY <1>1, <1>2, <1>8 DEF Die, ByName
<1>9. CASE prune' = prune
  BY <1>1, <1>9 DEF ByName
<1>10. ASSUME \/ Tick \/ SetCreates \/ SetRule
              \/ \E k \in Kinds, n \in Names, t \in Time : Write(k, n, t)
              \/ \E i \in RowIds : WriteItem(i) \/ Delete(i)
              \/ \E s \in ScopeIds : RemoveScope(s)
              \/ \E n \in Names : Clear(n) \/ \E d \in Days : Set(n, d)
              \/ UNCHANGED vars
       PROVE  prune' = prune
  BY <1>10 DEF Tick, SetCreates, SetRule, Write, WriteItem, Delete, RemoveScope, Clear, Set,
               vars
<1> QED
  BY <1>5, <1>6, <1>7, <1>8, <1>9, <1>10 DEF Next

THEOREM SweptByName == Spec => []ByName
<1>1. Init => ByName
  BY DEF Init, ByName, NotPruning
<1>2. IInv /\ ByName /\ [Next]_vars => ByName'
  BY ByNameStays
<1> QED
  BY <1>1, <1>2, Invariance, PTL DEF Spec

(* A row that lies in a scope keeps the scope there: it has a name.        *)
LEMMA ExpiredByName ==
    ASSUME IInv, ByName, prune.stage = "sweep", NEW i \in Expired
    PROVE  \E q \in prune.listed :
              q.name = scopes[ScopeOf(i)] /\ rows[i].at + q.days < prune.now
<1>1. /\ i \in RowIds /\ Live(i) /\ ScopeOf(i) = prune.scope
      /\ rows[i].at < prune.now - prune.days
  BY DEF Expired, Cutoff
<1>2. prune.scope \in ScopeIds /\ prune.days \in Days
  BY DEF IInv, Fits
<1>3. scopes[prune.scope] # None
  <2>1. CASE rows[i].kind = "item"
    <3>1. PICK v : v = rows[i].of
      OBVIOUS
    <3>2. v \in RowIds /\ Live(v) /\ rows[v].scope = prune.scope
      BY <1>1, <2>1, <3>1 DEF IInv, RowsOK, ScopeOf
    <3> QED
      BY <1>2, <3>2 DEF IInv, RowsOK
  <2>2. CASE rows[i].kind # "item"
    BY <1>1, <1>2, <2>2 DEF IInv, RowsOK, ScopeOf
  <2> QED
    BY <2>1, <2>2
<1>4. PICK q \in prune.listed : q = [name |-> scopes[prune.scope], days |-> prune.days]
  BY <1>3 DEF ByName
<1>5. rows[i].at \in Nat /\ prune.now \in Nat /\ prune.days \in Nat
  BY <1>1, <1>2, RowTyped, Typed, PruneTyped DEF IInv
<1>6. q.name = scopes[ScopeOf(i)] /\ rows[i].at + q.days < prune.now
  BY <1>1, <1>4, <1>5
<1> QED
  BY <1>6

(***************************************************************************)
(* "Scopes with no row in scope_retention keep data forever"               *)
(* (retention.ts:9): what a prune removes of the content the store has     *)
(* dated was under a rule of its own scope when the prune began, and older *)
(* than that rule allows, whatever is done to scopes and rules meanwhile;  *)
(* a conversation, and all else, is older than a rule listed under the     *)
(* name of its scope allows; a dry run removes nothing.                    *)
(***************************************************************************)
THEOREM PrunedByItsRule == Spec => PrunesByRule
<1> DEFINE P == prune' # prune =>
                  \A i \in RowIds : Removed(i) =>
                    /\ ~prune.dry
                    /\ \E r \in prune.ruled :
                        /\ rows[i].at + r[2] < prune.now
                        /\ rows[i].kind # "conversation" => r[1] = ScopeOf(i)
                    /\ rows[i].kind # "workspace" /\ ScopeOf(i) # None
                    /\ \E q \in prune.listed :
                        q.name = scopes[ScopeOf(i)] /\ rows[i].at + q.days < prune.now
<1>1. IInv /\ ByName /\ [Next]_vars => P
  <2> SUFFICES ASSUME IInv, ByName, [Next]_vars, prune' # prune,
                      NEW i \in RowIds, Removed(i)
               PROVE  /\ ~prune.dry
                      /\ \E r \in prune.ruled :
                          /\ rows[i].at + r[2] < prune.now
                          /\ rows[i].kind # "conversation" => r[1] = ScopeOf(i)
                      /\ rows[i].kind # "workspace" /\ ScopeOf(i) # None
                      /\ \E q \in prune.listed :
                          q.name = scopes[ScopeOf(i)] /\ rows[i].at + q.days < prune.now
    OBVIOUS
  <2>1. Sweep /\ ~prune.dry /\ i \in Expired
    BY OnlySweepRemoves
  <2>2. prune.stage = "sweep"
    BY <2>1 DEF Sweep
  <2>3. \E q \in prune.listed :
          q.name = scopes[ScopeOf(i)] /\ rows[i].at + q.days < prune.now
    BY <2>1, <2>2, ExpiredByName
  <2> QED
    BY <2>1, <2>2, <2>3, ExpiredByRule
<1> HIDE DEF P
<1>2. Spec => [][P]_vars
  BY <1>1, Invariance, SweptByName, PTL DEF Spec
<1> QED
  BY <1>2 DEF PrunesByRule, P
=============================================================================
