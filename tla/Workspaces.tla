------------------------------- MODULE Workspaces -------------------------------
(***************************************************************************)
(* Workspaces, the active one among them, and their items                  *)
(* (core/workspace/workspaces.ts, cli/commands/workspace.ts and the        *)
(* workspace tools of an MCP session, mcp/scopeFilter.ts).                 *)
(*                                                                         *)
(* Nothing here waits for anything, but every command is a process of its  *)
(* own on the one file: a command looks a workspace up in one statement    *)
(* and writes by its id in a later one, and other processes come between.  *)
(***************************************************************************)
EXTENDS Integers, FiniteSets

CONSTANTS
    Users,      \* processes that run dcx workspace commands
    Tool,       \* an MCP session
    Names,      \* names of scopes
    Default,    \* the scope that is there from the start and stays
    Grants,     \* names the session may write to, read when it began
    Titles,     \* names of workspaces
    MaxScope,   \* bound: rows AUTOINCREMENT hands out in scopes
    MaxWs,      \* bound: rows AUTOINCREMENT hands out in workspaces
    None        \* no row, no scope, no name

ScopeIds == 1..MaxScope
WsIds == 1..MaxWs
Callers == Users \cup {Tool}

ASSUME BoundAssumption == MaxScope \in Nat \ {0} /\ MaxWs \in Nat
ASSUME ScopeAssumption == Default \in Names /\ Grants \subseteq Names
ASSUME CallerAssumption == Tool \notin Users

(* A row of table workspaces; scope = None is a NULL scope_id.             *)
Workspace == [name : Titles, active : BOOLEAN, scope : ScopeIds \cup {None}]

ASSUME NoneAssumption ==
    None \notin ScopeIds \cup WsIds \cup Names \cup Titles \cup Workspace

(***************************************************************************)
(* Between which statements a caller stands:                               *)
(*   insert  create has found the name free and resolved the scope         *)
(*   use     setActive has found the workspace of that name                *)
(*   add     the workspace an item is for is known (and, in a session,     *)
(*           found writable), the item has yet to be inserted              *)
(***************************************************************************)
Caller == [stage : {"idle", "insert", "use", "add"}, name : Titles \cup {None},
           scope : ScopeIds \cup {None}, ws : WsIds \cup {None}]

VARIABLES
    scopes,     \* [ScopeIds -> Names or None], table scopes
    ws,         \* [WsIds -> Workspace or None], table workspaces
    items,      \* who has put an item into which workspace that is there
    nextScope,  \* the next AUTOINCREMENT value of scopes
    nextWs,     \* the next AUTOINCREMENT value of workspaces
    caller,     \* the commands under way
    born        \* history variable: the scope name a workspace began under

vars == <<scopes, ws, items, nextScope, nextWs, caller, born>>
tables == <<scopes, ws, items, nextScope, nextWs, born>>

-----------------------------------------------------------------------------
Live(w) == ws[w] # None
Active == {w \in WsIds : Live(w) /\ ws[w].active}
Named(n) == {w \in WsIds : Live(w) /\ ws[w].name = n}
ScopeName(w) == IF ws[w].scope = None THEN None ELSE scopes[ws[w].scope]

Idle == [stage |-> "idle", name |-> None, scope |-> None, ws |-> None]
Return(p) == caller' = [caller EXCEPT ![p] = Idle]
Proceed(p, next) == caller[p].stage = "idle" /\ caller' = [caller EXCEPT ![p] = next]

Init ==
    /\ scopes = [s \in ScopeIds |-> IF s = 1 THEN Default ELSE None]
    /\ ws = [w \in WsIds |-> None]
    /\ items = {}
    /\ nextScope = 2
    /\ nextWs = 1
    /\ caller = [p \in Callers |-> Idle]
    /\ born = [w \in WsIds |-> None]

-----------------------------------------------------------------------------
(* resolveScopeOrDefault: INSERT ... ON CONFLICT DO NOTHING, then SELECT.  *)
ResolveScope(n, s) ==
    \/ /\ scopes[s] = n
       /\ UNCHANGED <<scopes, nextScope>>
    \/ /\ \A r \in ScopeIds : scopes[r] # n
       /\ s = nextScope
       /\ scopes' = [scopes EXCEPT ![s] = n]
       /\ nextScope' = nextScope + 1

(* create, as far as its INSERT; a name in use is a conflict.              *)
Create(p, t, n) ==
    /\ Named(t) = {}
    /\ \E s \in ScopeIds :
        /\ ResolveScope(n, s)
        /\ Proceed(p, [Idle EXCEPT !.stage = "insert", !.name = t, !.scope = s])
    /\ UNCHANGED <<ws, items, nextWs, born>>

(* Mistake: a plain rowid instead of AUTOINCREMENT gives freed ids again.  *)
InsertReusingIds(p) ==
    /\ caller[p].stage = "insert"
    /\ LET t == caller[p].name
           s == caller[p].scope IN
        /\ Named(t) = {} /\ scopes[s] # None
        /\ \E w \in WsIds :
            /\ ~Live(w) /\ \A v \in WsIds : v < w => Live(v)
            /\ ws' = [ws EXCEPT ![w] = [name |-> t, active |-> FALSE, scope |-> s]]
            /\ born' = [born EXCEPT ![w] = scopes[s]]
    /\ Return(p)
    /\ UNCHANGED <<scopes, items, nextScope, nextWs>>

(* create: the INSERT.  The name is UNIQUE and the scope a foreign key: if *)
(* either has changed, the statement fails and the command with it.        *)
Insert(p) ==
    /\ caller[p].stage = "insert"
    /\ LET t == caller[p].name
           s == caller[p].scope IN
        IF Named(t) = {} /\ scopes[s] # None
        THEN /\ nextWs \in WsIds
             /\ ws' = [ws EXCEPT ![nextWs] =
                         [name |-> t, active |-> FALSE, scope |-> s]]
             /\ born' = [born EXCEPT ![nextWs] = scopes[s]]
             /\ nextWs' = nextWs + 1
        ELSE UNCHANGED <<ws, born, nextWs>>
    /\ Return(p)
    /\ UNCHANGED <<scopes, items, nextScope>>

-----------------------------------------------------------------------------
(* Mistake: the old flag is taken off before the name is looked up.        *)
UseClearingFirst(p, t) ==
    /\ caller[p].stage = "idle"
    /\ ws' = [w \in WsIds |-> IF Live(w) THEN [ws[w] EXCEPT !.active = FALSE] ELSE None]
    /\ caller' = IF Named(t) = {} THEN caller
                 ELSE [caller EXCEPT ![p] = [Idle EXCEPT !.stage = "use", !.name = t,
                                             !.ws = CHOOSE w \in Named(t) : TRUE]]
    /\ UNCHANGED <<scopes, items, nextScope, nextWs, born>>

(* setActive looks the workspace up by name; an unknown name is an error.  *)
Use(p, t) ==
    /\ \E w \in Named(t) : Proceed(p, [Idle EXCEPT !.stage = "use", !.name = t, !.ws = w])
    /\ UNCHANGED tables

(* Mistake: the new flag is set and the old one left to the next reader.   *)
SetActiveOnly(p) ==
    /\ caller[p].stage = "use"
    /\ ws' = [w \in WsIds |-> IF w = caller[p].ws /\ Live(w)
                              THEN [ws[w] EXCEPT !.active = TRUE] ELSE ws[w]]
    /\ Return(p)
    /\ UNCHANGED <<scopes, items, nextScope, nextWs, born>>

(***************************************************************************)
(* setActive: one transaction clears every flag and sets one by id.  When  *)
(* the workspace has been removed since it was looked up, the flags are    *)
(* cleared all the same and the command then fails with NotFound.          *)
(***************************************************************************)
SetActive(p) ==
    /\ caller[p].stage = "use"
    /\ ws' = [w \in WsIds |-> IF Live(w)
                              THEN [ws[w] EXCEPT !.active = (w = caller[p].ws)]
                              ELSE None]
    /\ Return(p)
    /\ UNCHANGED <<scopes, items, nextScope, nextWs, born>>

(* remove, by name; ON DELETE CASCADE takes the items.                     *)
Remove(t) ==
    /\ Named(t) # {}
    /\ ws' = [w \in WsIds |-> IF w \in Named(t) THEN None ELSE ws[w]]
    /\ items' = {i \in items : i.ws \notin Named(t)}
    /\ UNCHANGED <<scopes, nextScope, nextWs, caller, born>>

(* Scopes.remove: ON DELETE SET NULL on the workspaces of the scope.       *)
RemoveScope(s) ==
    /\ scopes[s] \notin {None, Default}
    /\ scopes' = [scopes EXCEPT ![s] = None]
    /\ ws' = [w \in WsIds |-> IF Live(w) /\ ws[w].scope = s
                              THEN [ws[w] EXCEPT !.scope = None] ELSE ws[w]]
    /\ UNCHANGED <<items, nextScope, nextWs, caller, born>>

-----------------------------------------------------------------------------
(* getActive, of a scope or of all: without an order, any row that fits.   *)
GetActive(filter) == {w \in Active : filter = None \/ ScopeName(w) = filter}

(* What a session that may read `names` sees of it (getActiveWorkspace):   *)
(* the lookup is not filtered, its answer is.                              *)
ActiveSeen(names) == {w \in GetActive(None) : ScopeName(w) \in names}

(* list, of a scope or of all, and what a session sees of it.              *)
List(filter) == {w \in WsIds : Live(w) /\ (filter = None \/ ScopeName(w) = filter)}
ListSeen(names) == {w \in List(None) : ScopeName(w) \in names}

(* dcx workspace add-item: getByName, then the INSERT.                     *)
AddItem(p, t) ==
    /\ \E w \in Named(t) : Proceed(p, [Idle EXCEPT !.stage = "add", !.ws = w])
    /\ UNCHANGED tables

(* resolveTarget: the workspace with the given id, or the active one.      *)
ResolveTarget(given) == IF given = None THEN GetActive(None) ELSE {given} \cap List(None)

(***************************************************************************)
(* add_to_workspace of a session, if it may write to the scope of the      *)
(* workspace; one without a scope is refused.                              *)
(***************************************************************************)
AddToWorkspace(given) ==
    /\ \E w \in ResolveTarget(given) :
        /\ ScopeName(w) \in Grants
        /\ Proceed(Tool, [Idle EXCEPT !.stage = "add", !.ws = w])
    /\ UNCHANGED tables

(* addItem: the INSERT; its workspace is a foreign key.                    *)
InsertItem(p) ==
    /\ caller[p].stage = "add"
    /\ items' = IF Live(caller[p].ws)
                THEN items \cup {[ws |-> caller[p].ws, tool |-> p = Tool]} ELSE items
    /\ Return(p)
    /\ UNCHANGED <<scopes, ws, nextScope, nextWs, born>>

Die(p) ==
    /\ caller[p].stage # "idle"
    /\ Return(p)
    /\ UNCHANGED tables

-----------------------------------------------------------------------------
Next ==
    \/ \E p \in Users, t \in Titles : Use(p, t) \/ AddItem(p, t)
    \/ \E p \in Users, t \in Titles, n \in Names : Create(p, t, n)
    \/ \E p \in Users : Insert(p) \/ SetActive(p)
    \/ \E p \in Callers : InsertItem(p) \/ Die(p)
    \/ \E given \in WsIds \cup {None} : AddToWorkspace(given)
    \/ \E t \in Titles : Remove(t)
    \/ \E s \in ScopeIds : RemoveScope(s)

Spec == Init /\ [][Next]_vars

-----------------------------------------------------------------------------
TypeOK ==
    /\ scopes \in [ScopeIds -> Names \cup {None}]
    /\ ws \in [WsIds -> Workspace \cup {None}]
    /\ items \subseteq [ws : WsIds, tool : BOOLEAN]
    /\ nextScope \in 2..(MaxScope + 1)
    /\ nextWs \in 1..(MaxWs + 1)
    /\ caller \in [Callers -> Caller]
    /\ born \in [WsIds -> Names \cup {None}]

(***************************************************************************)
(* getActive has no order and takes the first row it meets.  Whatever the  *)
(* interleaving of `use` commands, there is one row to meet, so that all   *)
(* readers are told the same: a reader of one scope sees the workspace a   *)
(* reader of all sees, or none, and a session sees it in its list.         *)
(***************************************************************************)
OneActive ==
    /\ TypeOK
    /\ Cardinality(GetActive(None)) <= 1
    /\ \A n \in Names : GetActive(n) \subseteq GetActive(None)
    /\ \A names \in SUBSET Names : ActiveSeen(names) \subseteq ListSeen(names)

(***************************************************************************)
(* Whatever is switched, removed or created anew between the check of a    *)
(* session and its INSERT, its items are only ever in workspaces that      *)
(* began under a scope it may write to (scopeFilter.ts:220, workspaces.ts  *)
(* 114).                                                                   *)
(***************************************************************************)
ItemsConfined == \A i \in items : i.tool => born[i.ws] \in Grants

(***************************************************************************)
(* The active workspace changes as commands have asked, although `use`     *)
(* reads it by name and sets it by id later (workspaces.ts:82-87).  One    *)
(* that becomes active has the name of a `use` that ends with that step,   *)
(* whatever was removed and created anew meanwhile.  The store is left     *)
(* with none active only when the active one is removed, or when a `use`   *)
(* finds its own removed since it looked it up.                            *)
(***************************************************************************)
ActiveKept ==
    [][ /\ \A w \in Active' \ Active :
             \E p \in Users : /\ caller[p].stage = "use"
                              /\ caller'[p].stage = "idle"
                              /\ ws'[w].name = caller[p].name
        /\ Active # {} /\ Active' = {} =>
             \/ \E w \in Active : ws'[w] = None
             \/ \E p \in Users : /\ caller[p].stage = "use"
                                 /\ ~Live(caller[p].ws)
                                 /\ caller'[p].stage = "idle" ]_vars
=============================================================================
