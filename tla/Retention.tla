------------------------------- MODULE Retention -------------------------------
(***************************************************************************)
(* Retention rules, prune and export (core/retention/retention.ts,         *)
(* cli/commands/prune.ts, core/export/export.ts).                          *)
(*                                                                         *)
(* A rule belongs to the row of a scope; a prune lists the rules by the    *)
(* names of their scopes, takes the time once, and then, rule by rule,     *)
(* looks the scope up by its name and sweeps it in one transaction.  Other *)
(* processes write, set and clear rules, remove scopes and make new ones   *)
(* of the same name between any two of these.                              *)
(***************************************************************************)
EXTENDS Integers, FiniteSets

CONSTANTS
    Names,      \* names of scopes; the default scope is one nobody removes
    Days,       \* periods a rule may have
    MaxScope,   \* bound: rows AUTOINCREMENT hands out in scopes
    MaxRow,     \* bound: rows of content
    MaxTime,    \* bound: the last day
    Kinds,      \* bound: the kinds of rows that are written
    None        \* no row, no scope, no name, no period

ScopeIds == 1..MaxScope
RowIds == 1..MaxRow
Time == 0..MaxTime

ASSUME BoundAssumption == MaxScope \in Nat \ {0} /\ MaxRow \in Nat /\ MaxTime \in Nat
ASSUME DaysAssumption == Days \subseteq Nat \ {0}
ASSUME KindAssumption ==
    Kinds \subseteq {"memory", "document", "conversation", "workspace"}

(***************************************************************************)
(* The rows of the five tables with content.  Memories and documents are   *)
(* dated by the store when they are written, and so are the items of a     *)
(* workspace; a conversation has the date of its first message.  An item   *)
(* has no scope of its own but that of its workspace, `of`.                *)
(***************************************************************************)
Filed == {"memory", "document", "conversation", "workspace"}
Row == [kind : Filed \cup {"item"}, scope : ScopeIds \cup {None},
        at : Time, of : RowIds \cup {None}]

ASSUME NoneAssumption ==
    None \notin ScopeIds \cup RowIds \cup Names \cup Days \cup Row

Rule == [name : Names, days : Days]

(***************************************************************************)
(* A prune: `rules` are those it has yet to apply, `now` the time it began *)
(* at; in stage "sweep" it has looked up the scope of a rule.  `listed`    *)
(* and `ruled` are histories: the rules it began with, and which rows of   *)
(* table scopes had them then.                                             *)
(***************************************************************************)
Prune == [stage : {"idle", "next", "sweep"}, rules : SUBSET Rule, now : Time,
          dry : BOOLEAN, days : Days \cup {None}, scope : ScopeIds \cup {None},
          listed : SUBSET Rule, ruled : SUBSET (ScopeIds \X Days)]

(* Retention.set, between its statements.                                  *)
Setter == [stage : {"idle", "create", "upsert"}, name : Names \cup {None},
           scope : ScopeIds \cup {None}, days : Days \cup {None}]

VARIABLES
    scopes,     \* [ScopeIds -> Names or None], table scopes
    rules,      \* [ScopeIds -> Days or None], table scope_retention
    rows,       \* [RowIds -> Row or None], the content
    clock,      \* Date.now() in days
    prune,      \* the prune under way
    setter,     \* the set under way
    nextScope   \* the next AUTOINCREMENT value of scopes

vars == <<scopes, rules, rows, clock, prune, setter, nextScope>>
tables == <<scopes, rules, rows, nextScope>>

-----------------------------------------------------------------------------
Live(i) == rows[i] # None
IdsOf(n) == {s \in ScopeIds : scopes[s] = n}
ScopeOf(i) == IF rows[i].kind = "item" THEN rows[rows[i].of].scope ELSE rows[i].scope

NotSetting == [stage |-> "idle", name |-> None, scope |-> None, days |-> None]
NotPruning == [stage |-> "idle", rules |-> {}, now |-> 0, dry |-> FALSE,
               days |-> None, scope |-> None, listed |-> {}, ruled |-> {}]

Init ==
    /\ scopes = [s \in ScopeIds |-> None]
    /\ rules = [s \in ScopeIds |-> None]
    /\ rows = [i \in RowIds |-> None]
    /\ clock = 0
    /\ prune = NotPruning
    /\ setter = NotSetting
    /\ nextScope = 1

Tick == clock < MaxTime /\ clock' = clock + 1 /\ UNCHANGED <<tables, prune, setter>>

-----------------------------------------------------------------------------
(* A write under scope n, which is made when there is none of that name.   *)
(* Its date is the store's, but for a conversation, which brings its own.  *)
Write(k, n, t) ==
    /\ k = "conversation" \/ t = clock
    /\ t <= clock
    /\ \E s \in ScopeIds, i \in RowIds :
        /\ \/ s \in IdsOf(n) /\ UNCHANGED <<scopes, nextScope>>
           \/ /\ IdsOf(n) = {} /\ s = nextScope
              /\ scopes' = [scopes EXCEPT ![s] = n]
              /\ nextScope' = s + 1
        /\ ~Live(i) /\ \A j \in RowIds : j < i => Live(j)
        /\ rows' = [rows EXCEPT ![i] = [kind |-> k, scope |-> s, at |-> t, of |-> None]]
    /\ UNCHANGED <<rules, clock, prune, setter>>

(* addItem.  No statement ever updates an item.                            *)
WriteItem(w) ==
    /\ Live(w) /\ rows[w].kind = "workspace"
    /\ \E i \in RowIds :
        /\ ~Live(i) /\ \A j \in RowIds : j < i => Live(j)
        /\ rows' = [rows EXCEPT ![i] =
                      [kind |-> "item", scope |-> None, at |-> clock, of |-> w]]
    /\ UNCHANGED <<scopes, rules, clock, prune, setter, nextScope>>

(* forget, delete, remove; a workspace takes its items along.              *)
Delete(i) ==
    /\ Live(i)
    /\ rows' = [j \in RowIds |-> IF j = i \/ (Live(j) /\ rows[j].of = i)
                                 THEN None ELSE rows[j]]
    /\ UNCHANGED <<scopes, rules, clock, prune, setter, nextScope>>

(* Mistake: the rows keep the id of the scope that is gone.                *)
RemoveScopeOnly(s) ==
    /\ scopes[s] # None
    /\ scopes' = [scopes EXCEPT ![s] = None]
    /\ rules' = [rules EXCEPT ![s] = None]
    /\ UNCHANGED <<rows, clock, prune, setter, nextScope>>

(* Scopes.remove: SET NULL on the content, CASCADE on the rule.            *)
RemoveScope(s) ==
    /\ scopes[s] # None
    /\ scopes' = [scopes EXCEPT ![s] = None]
    /\ rules' = [rules EXCEPT ![s] = None]
    /\ rows' = [i \in RowIds |-> IF Live(i) /\ rows[i].scope = s
                                 THEN [rows[i] EXCEPT !.scope = None] ELSE rows[i]]
    /\ UNCHANGED <<clock, prune, setter, nextScope>>

-----------------------------------------------------------------------------
(* Retention.set looks the scope up.                                       *)
Set(n, d) ==
    /\ setter.stage = "idle"
    /\ setter' = IF IdsOf(n) = {}
                 THEN [stage |-> "create", name |-> n, scope |-> None, days |-> d]
                 ELSE [stage |-> "upsert", name |-> None, days |-> d,
                       scope |-> CHOOSE s \in IdsOf(n) : TRUE]
    /\ UNCHANGED <<tables, clock, prune>>

(* resolveScope: unlike the other writers it inserts without ON CONFLICT,  *)
(* so it fails when one of them has made the scope meanwhile.              *)
SetCreates ==
    /\ setter.stage = "create"
    /\ IF IdsOf(setter.name) = {}
       THEN /\ nextScope \in ScopeIds
            /\ scopes' = [scopes EXCEPT ![nextScope] = setter.name]
            /\ nextScope' = nextScope + 1
            /\ setter' = [setter EXCEPT !.stage = "upsert", !.name = None,
                                         !.scope = nextScope]
       ELSE setter' = NotSetting /\ UNCHANGED <<scopes, nextScope>>
    /\ UNCHANGED <<rules, rows, clock, prune>>

(* The upsert; the scope is a foreign key.                                 *)
SetRule ==
    /\ setter.stage = "upsert"
    /\ rules' = IF scopes[setter.scope] # None
                THEN [rules EXCEPT ![setter.scope] = setter.days] ELSE rules
    /\ setter' = NotSetting
    /\ UNCHANGED <<scopes, rows, nextScope, clock, prune>>

(* Retention.clear.                                                        *)
Clear(n) ==
    /\ \E s \in IdsOf(n) : rules[s] # None /\ rules' = [rules EXCEPT ![s] = None]
    /\ UNCHANGED <<scopes, rows, nextScope, clock, prune, setter>>

(* get and list.                                                           *)
Rules(filter) ==
    {s \in ScopeIds : rules[s] # None /\ (filter = None \/ scopes[s] = filter)}

-----------------------------------------------------------------------------
(* prune takes the time and lists the rules, or the one of the given       *)
(* scope; without any there is nothing to do.                              *)
StartPrune(filter, dry) ==
    /\ prune.stage = "idle"
    /\ Rules(filter) # {}
    /\ LET found == {[name |-> scopes[s], days |-> rules[s]] : s \in Rules(filter)} IN
        prune' = [NotPruning EXCEPT !.stage = "next", !.now = clock, !.dry = dry,
                    !.rules = found, !.listed = found,
                    !.ruled = {<<s, rules[s]>> : s \in Rules(filter)}]
    /\ UNCHANGED <<tables, clock, setter>>

Done(p) == IF p.rules = {} THEN NotPruning
           ELSE [p EXCEPT !.stage = "next", !.days = None, !.scope = None]

(* pruneScope looks the scope up by its name; it may be gone, or another.  *)
FindScope(r) ==
    /\ prune.stage = "next"
    /\ r \in prune.rules
    /\ LET rest == [prune EXCEPT !.rules = @ \ {r}] IN
        prune' = IF IdsOf(r.name) = {} THEN Done(rest)
                 ELSE [rest EXCEPT !.stage = "sweep", !.days = r.days,
                                   !.scope = CHOOSE s \in IdsOf(r.name) : TRUE]
    /\ UNCHANGED <<tables, clock, setter>>

(* Mistake: every sweep takes the time anew.                               *)
CutoffNow == clock - prune.days

Cutoff == prune.now - prune.days

Expired ==
    {i \in RowIds : /\ Live(i) /\ rows[i].kind # "workspace"
                    /\ ScopeOf(i) = prune.scope
                    /\ rows[i].at < Cutoff}

(* The transaction of pruneScope.                                          *)
Sweep ==
    /\ prune.stage = "sweep"
    /\ rows' = IF prune.dry THEN rows
               ELSE [i \in RowIds |-> IF i \in Expired THEN None ELSE rows[i]]
    /\ prune' = Done(prune)
    /\ UNCHANGED <<scopes, rules, nextScope, clock, setter>>

Die ==
    \/ prune.stage # "idle" /\ prune' = NotPruning /\ UNCHANGED <<tables, clock, setter>>
    \/ setter.stage # "idle" /\ setter' = NotSetting /\ UNCHANGED <<tables, clock, prune>>

-----------------------------------------------------------------------------
Next ==
    \/ Tick \/ Sweep \/ SetCreates \/ SetRule \/ Die
    \/ \E k \in Kinds, n \in Names, t \in Time : Write(k, n, t)
    \/ \E i \in RowIds : WriteItem(i) \/ Delete(i)
    \/ \E s \in ScopeIds : RemoveScope(s)
    \/ \E n \in Names : Clear(n) \/ \E d \in Days : Set(n, d)
    \/ \E n \in Names \cup {None}, dry \in BOOLEAN : StartPrune(n, dry)
    \/ \E r \in Rule : FindScope(r)

Spec == Init /\ [][Next]_vars

-----------------------------------------------------------------------------
(***************************************************************************)
(* exportSnapshot of the scope with the given name, or of all.  It reads   *)
(* all tables in one transaction, so it is a function of the state.        *)
(***************************************************************************)
NameOf(s) == IF s = None THEN None ELSE scopes[s]

CollectScopes(filter) ==
    {scopes[s] : s \in {r \in ScopeIds : scopes[r] # None}} \cap
        (IF filter = None THEN Names ELSE {filter})

(* LEFT JOIN scopes: a row is exported with the name of its scope.         *)
Collect(k, filter) ==
    {[row |-> i, scope |-> NameOf(rows[i].scope)] :
        i \in {j \in RowIds : /\ Live(j)
                              /\ rows[j].kind = k
                              /\ (filter = None \/ NameOf(rows[j].scope) = filter)}}

CollectMemories(filter) == Collect("memory", filter)
CollectDocuments(filter) == Collect("document", filter)
CollectConversations(filter) == Collect("conversation", filter)

CollectWorkspaces(filter) ==
    {[row |-> e.row, scope |-> e.scope,
      items |-> {i \in RowIds : Live(i) /\ rows[i].of = e.row}] :
        e \in Collect("workspace", filter)}

Export(filter) ==
    [scopes |-> CollectScopes(filter),
     rows |-> CollectMemories(filter) \cup CollectDocuments(filter)
              \cup CollectConversations(filter),
     workspaces |-> CollectWorkspaces(filter)]

-----------------------------------------------------------------------------
TypeOK ==
    /\ scopes \in [ScopeIds -> Names \cup {None}]
    /\ rules \in [ScopeIds -> Days \cup {None}]
    /\ rows \in [RowIds -> Row \cup {None}]
    /\ clock \in Time
    /\ prune \in Prune
    /\ setter \in Setter
    /\ nextScope \in 1..(MaxScope + 1)

(***************************************************************************)
(* At every moment, also between the steps of a removal or a prune, the    *)
(* exports agree: a row of the full one is in the export of exactly the    *)
(* scope it names, or names none; every scope named is listed; and every   *)
(* row of the store is in the full one, an item inside its workspace       *)
(* (export.ts:94-103).                                                     *)
(***************************************************************************)
ExportsAgree ==
    /\ TypeOK
    /\ LET all == Export(None) IN
        /\ {e.scope : e \in all.rows \cup all.workspaces} \subseteq all.scopes \cup {None}
        /\ \A n \in Names :
            LET part == Export(n) IN
            /\ part.rows = {e \in all.rows : e.scope = n}
            /\ part.workspaces = {e \in all.workspaces : e.scope = n}
            /\ part.rows \cup part.workspaces # {} => part.scopes = {n}
        /\ {i \in RowIds : Live(i)} =
             {e.row : e \in all.rows \cup all.workspaces}
               \cup UNION {e.items : e \in all.workspaces}
        /\ \A i \in RowIds : Live(i) /\ rows[i].scope # None
                               => scopes[rows[i].scope] # None

(***************************************************************************)
(* "Scopes with no row in scope_retention keep data forever"               *)
(* (retention.ts:9): whatever a prune removes that the store has dated     *)
(* was under a rule of its own scope when the prune began, and older than  *)
(* that rule allows, though scopes are found by name and may have been     *)
(* removed and made anew, and rules cleared or changed, since.  A          *)
(* conversation has its own date: of these it is certain that the prune    *)
(* listed a rule under the very name of their scope, and they are older    *)
(* than that one allows.  A dry run removes nothing.                       *)
(***************************************************************************)
Removed(i) == Live(i) /\ rows'[i] = None

PrunesByRule ==
    [][ prune' # prune =>
          \A i \in RowIds : Removed(i) =>
            /\ ~prune.dry
            /\ \E r \in prune.ruled :
                /\ rows[i].at + r[2] < prune.now
                /\ rows[i].kind # "conversation" => r[1] = ScopeOf(i)
            /\ rows[i].kind # "workspace" /\ ScopeOf(i) # None
            /\ \E q \in prune.listed :
                q.name = scopes[ScopeOf(i)] /\ rows[i].at + q.days < prune.now ]_vars
=============================================================================
