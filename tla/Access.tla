-------------------------------- MODULE Access --------------------------------
(***************************************************************************)
(* Who may do what: tools with their tokens and grants, scopes, the        *)
(* sessions of MCP servers, and the audit log (core/tools, core/scopes,    *)
(* mcp/scopeFilter.ts, mcp/audit.ts, mcp/ui/api.ts, core/audit), and what  *)
(* searches and summaries (core/summarize) let them see.                   *)
(*                                                                         *)
(* A server authenticates its token once and keeps the tool's identity and *)
(* grants for its lifetime; meanwhile the operator runs `dcx tool` and     *)
(* `dcx scope` in other processes on the same file.  Every SQL statement   *)
(* outside a transaction is a step of its own.  Memories stand for all     *)
(* content, and every row in scope matches a query; a session runs one     *)
(* call at a time and starts once.                                         *)
(***************************************************************************)
EXTENDS Integers, FiniteSets

CONSTANTS
    Names,      \* scope names
    Default,    \* the scope seeded by the schema, in Names
    ToolNames,  \* tool names
    Sess,       \* server processes
    MaxTool, MaxToken, MaxScope, MaxRow,    \* bounds on what is ever created
    MaxCalls,   \* bound on the calls of a session
    None        \* no row, no id, no outcome

ToolIds == 1..MaxTool
Tokens == 1..MaxToken
ScopeIds == 1..MaxScope
RowIds == 1..MaxRow

ASSUME DefaultAssumption == Default \in Names
ASSUME BoundAssumption ==
    /\ MaxTool \in Nat /\ MaxToken \in Nat /\ MaxScope \in Nat \ {0}
    /\ MaxRow \in Nat /\ MaxCalls \in Nat

VARIABLES
    scopes,     \* [ScopeIds -> Names or None], table scopes
    tools,      \* [ToolIds -> Tool or None], tables tools and tool_scopes
    rows,       \* [RowIds -> Row or None], table memories
    next,       \* the next AUTOINCREMENT values and the next fresh token
    rotating,   \* the tool a rotation has found and its new token, or None
    sess,       \* the sessions
    audit,      \* table audit_log
    issuedTo,   \* history variable: the tool each token was issued for
    owed        \* history variable: calls that changed content or were answered

vars == <<scopes, tools, rows, next, rotating, sess, audit, issuedTo, owed>>
store == <<scopes, tools, rows, next, rotating, issuedTo>>

(***************************************************************************)
(* A memory; scope = None is a NULL scope_id, what a removed scope leaves. *)
(* `made` is history: the names of the scopes its content was told to.     *)
(***************************************************************************)
Row == [scope: ScopeIds \cup {None}, made: SUBSET Names]

(* A tool and its grants: all readable, writable unless it is read-only. *)
Tool == [name: ToolNames, token: Tokens, scopes: SUBSET ScopeIds, write: BOOLEAN]

(* The tool that dcx tool rotate has found, and the token it has drawn. *)
Rotation == [tool: ToolIds, token: Tokens]

ASSUME NoneAssumption ==
    /\ None \notin Names \cup ToolNames \cup ToolIds \cup ScopeIds \cup RowIds
                 \cup Row \cup Tool \cup Rotation
    /\ \A names \in SUBSET Names : None # names

(***************************************************************************)
(* Stages of a session: `auth` has found the tool and not read its grants; *)
(* `llm` awaits a summary, to be saved under the name in target if any;    *)
(* `insert` has resolved the scope, `delete` has checked the memory of     *)
(* target; `record` has an outcome to write to the audit log.  What the    *)
(* call has in hand was made from `made`.                                  *)
(***************************************************************************)
Outcomes == {"ok", "denied", "error"}
Session == [stage: {"off", "auth", "idle", "llm", "insert", "delete", "record", "dead"},
            tool: ToolIds \cup {None}, name: ToolNames \cup {None},
            grants: SUBSET Names, write: BOOLEAN, calls: 0..MaxCalls,
            target: Names \cup ScopeIds \cup RowIds \cup {None},
            made: SUBSET Names, outcome: Outcomes \cup {None}]

(* An audit row; outcome, arguments and times are left out. *)
Entry == [sess: Sess, call: 1..MaxCalls, tool: ToolIds \cup {None}, name: ToolNames]

Init ==
    /\ scopes = [i \in ScopeIds |-> IF i = 1 THEN Default ELSE None]
    /\ tools = [i \in ToolIds |-> None]
    /\ rows = [i \in RowIds |-> None]
    /\ next = [tool |-> 1, token |-> 1, scope |-> 2, row |-> 1]
    /\ rotating = None
    /\ sess = [s \in Sess |-> [stage |-> "off", tool |-> None, name |-> None,
                               grants |-> {}, write |-> FALSE, calls |-> 0,
                               target |-> None, made |-> {}, outcome |-> None]]
    /\ audit = {} /\ owed = {}
    /\ issuedTo = [t \in Tokens |-> None]

ScopeNamed(n) == {i \in ScopeIds : scopes[i] = n}
ToolNamed(n) == {i \in ToolIds : tools[i] # None /\ tools[i].name = n}
ScopeNameOf(i) == IF rows[i].scope = None THEN None ELSE scopes[rows[i].scope]

(* What the rows a search finds are made from; names = None: no filter. *)
Found(names) ==
    UNION {rows[i].made : i \in {j \in RowIds :
             rows[j] # None /\ (names = None \/ ScopeNameOf(j) \in names)}}

-----------------------------------------------------------------------------
(* The operator's commands, each in a process of its own. *)

(***************************************************************************)
(* Tools.create: in one transaction the tool with a fresh token, the       *)
(* scopes that are missing, and its grants.                                *)
(***************************************************************************)
AddTool(n, granted, w) ==
    LET new == {s \in granted : ScopeNamed(s) = {}}
        ids == next.scope..(next.scope + Cardinality(new) - 1)
    IN /\ ToolNamed(n) = {}
       /\ next.tool \in ToolIds /\ next.token \in Tokens /\ ids \subseteq ScopeIds
       /\ \E name \in [ids -> new] :
            /\ \A s \in new : \E i \in ids : name[i] = s
            /\ scopes' = [i \in ScopeIds |-> IF i \in ids THEN name[i] ELSE scopes[i]]
       /\ next' = [next EXCEPT !.tool = @ + 1, !.token = @ + 1,
                               !.scope = @ + Cardinality(new)]
       /\ tools' = [tools EXCEPT ![next.tool] =
                      [name |-> n, token |-> next.token, write |-> w,
                       scopes |-> {i \in ScopeIds : scopes'[i] \in granted}]]
       /\ issuedTo' = [issuedTo EXCEPT ![next.token] = next.tool]
       /\ UNCHANGED <<rows, rotating, sess, audit, owed>>

(* Mistake: the audit rows keep the id of a tool that is gone. *)
RevokeKeepingIds(i) ==
    /\ tools[i] # None
    /\ tools' = [tools EXCEPT ![i] = None]
    /\ UNCHANGED <<scopes, rows, next, rotating, sess, audit, issuedTo, owed>>

(* dcx tool revoke; the grants go and the audit rows stay, without the id. *)
Revoke(i) ==
    /\ tools[i] # None
    /\ tools' = [tools EXCEPT ![i] = None]
    /\ audit' = {IF e.tool = i THEN [e EXCEPT !.tool = None] ELSE e : e \in audit}
    /\ UNCHANGED <<scopes, rows, next, rotating, sess, issuedTo, owed>>

(* dcx tool rotate: find the tool by name, draw a token for it, ... *)
RotateFind(i) ==
    /\ rotating = None
    /\ tools[i] # None
    /\ next.token \in Tokens
    /\ rotating' = [tool |-> i, token |-> next.token]
    /\ issuedTo' = [issuedTo EXCEPT ![next.token] = i]
    /\ next' = [next EXCEPT !.token = @ + 1]
    /\ UNCHANGED <<scopes, tools, rows, sess, audit, owed>>

(* Mistake: update the tool of that name, whichever it is by now. *)
RotateNewest ==
    /\ rotating # None
    /\ \E i \in ToolIds :
         /\ tools[i] # None
         /\ \A j \in ToolIds : tools[j] # None => j <= i
         /\ tools' = [tools EXCEPT ![i].token = rotating.token]
    /\ rotating' = None
    /\ UNCHANGED <<scopes, rows, next, sess, audit, issuedTo, owed>>

(* ... then UPDATE by id, which touches no row when the tool is gone. *)
RotateUpdate ==
    /\ rotating # None
    /\ tools' = IF tools[rotating.tool] = None THEN tools
                ELSE [tools EXCEPT ![rotating.tool].token = rotating.token]
    /\ rotating' = None
    /\ UNCHANGED <<scopes, rows, next, sess, audit, issuedTo, owed>>

(* dcx tool add names one scope at least. *)
ToolAdd(n, granted, w) == granted # {} /\ AddTool(n, granted, w)

(***************************************************************************)
(* dcx connect: a tool for a client as tool add makes it, or with --rotate *)
(* a new token for the one of that name, whose grants stay what they are.  *)
(***************************************************************************)
Connect(n, granted, w) ==
    \/ ToolAdd(n, granted, w)
    \/ granted # {} /\ \E i \in ToolNamed(n) : RotateFind(i)

(***************************************************************************)
(* dcx scope remove, of any scope but the default one: the grants on it go *)
(* (CASCADE), its content stays without a scope (SET NULL).                *)
(***************************************************************************)
RemoveScope(i) ==
    /\ scopes[i] \notin {None, Default}
    /\ scopes' = [scopes EXCEPT ![i] = None]
    /\ tools' = [t \in ToolIds |->
                   IF tools[t] = None THEN None
                   ELSE [tools[t] EXCEPT !.scopes = @ \ {i}]]
    /\ rows' = [r \in RowIds |->
                  IF rows[r] = None \/ rows[r].scope # i THEN rows[r]
                  ELSE [rows[r] EXCEPT !.scope = None]]
    /\ UNCHANGED <<next, rotating, sess, audit, issuedTo, owed>>

(***************************************************************************)
(* A memory of the operator needs no grant: the scope is created when      *)
(* missing, and the row inserted.  One step: a removal of the scope        *)
(* between the two leaves what it leaves before them.                      *)
(***************************************************************************)
CliWrite(n, made) ==
    /\ next.row \in RowIds
    /\ \E i \in ScopeIds :
         /\ IF ScopeNamed(n) # {} THEN scopes[i] = n ELSE i = next.scope
         /\ scopes' = [scopes EXCEPT ![i] = n]
         /\ rows' = [rows EXCEPT ![next.row] = [scope |-> i, made |-> made]]
         /\ next' = [next EXCEPT !.row = @ + 1,
                                 !.scope = IF i = @ THEN @ + 1 ELSE @]
    /\ UNCHANGED <<tools, rotating, sess, audit, issuedTo, owed>>

(* dcx remember. *)
CliRemember(n) == CliWrite(n, {n})

(* Mistake: without a scope, summarize and save whatever there is. *)
CliSummarizeAll(n) ==
    IF n = None THEN CliWrite(Default, Found(None)) ELSE CliWrite(n, Found({n}))

(***************************************************************************)
(* dcx summarize --save: the summary of a search goes into the scope that  *)
(* was searched, and there must be one.  One step: a session's summary has *)
(* the wait between the search and the INSERT.                             *)
(***************************************************************************)
CliSummarize(n) == n # None /\ CliWrite(n, Found({n}))

-----------------------------------------------------------------------------
(* The sessions. *)
Set(s, next_) == sess' = [sess EXCEPT ![s] = next_]
Keep == UNCHANGED <<owed, audit>>

(* authenticate: SELECT the tool with the token, ... *)
Authenticate(s, t) ==
    /\ sess[s].stage = "off"
    /\ \E i \in ToolIds :
         /\ tools[i] # None /\ tools[i].token = t
         /\ Set(s, [sess[s] EXCEPT !.stage = "auth", !.tool = i,
                                   !.name = tools[i].name, !.write = tools[i].write])
    /\ UNCHANGED store /\ Keep

(* ... then its grants, by the names of their scopes: none if revoked. *)
ReadGrants(s) ==
    /\ sess[s].stage = "auth"
    /\ LET t == tools[sess[s].tool]
       IN Set(s, [sess[s] EXCEPT !.stage = "idle",
                    !.grants = IF t = None THEN {} ELSE {scopes[i] : i \in t.scopes}])
    /\ UNCHANGED store /\ Keep

Writable(s) == IF sess[s].write THEN sess[s].grants ELSE {}
MayCall(s) == sess[s].stage = "idle" /\ sess[s].calls < MaxCalls
Calling(s) == [sess[s] EXCEPT !.calls = @ + 1]
Settle(s, call, outcome) ==
    Set(s, [call EXCEPT !.stage = "record", !.outcome = outcome, !.target = None,
                        !.made = IF outcome = "ok" THEN @ ELSE {}])

Deny(s) ==
    /\ Settle(s, Calling(s), "denied")
    /\ UNCHANGED store /\ Keep

(***************************************************************************)
(* resolveScopeOrDefault: the scope of that name, created when missing.    *)
(* Its INSERT and SELECT are one step: a removal between them fails the    *)
(* call as one right after them does.                                      *)
(***************************************************************************)
ResolveScope(s, n, call) ==
    /\ IF ScopeNamed(n) # {}
       THEN /\ \E i \in ScopeNamed(n) :
                 Set(s, [call EXCEPT !.stage = "insert", !.target = i])
            /\ UNCHANGED store
       ELSE /\ next.scope \in ScopeIds
            /\ Set(s, [call EXCEPT !.stage = "insert", !.target = next.scope])
            /\ scopes' = [scopes EXCEPT ![next.scope] = n]
            /\ next' = [next EXCEPT !.scope = @ + 1]
            /\ UNCHANGED <<tools, rows, rotating, issuedTo>>
    /\ Keep

(***************************************************************************)
(* remember: requireWritableScope, then resolve it.  `requested` holds the *)
(* scope of the call; all names stand for a call without one, which takes  *)
(* the first of the writable scopes.                                       *)
(***************************************************************************)
Remember(s, requested) ==
    /\ MayCall(s)
    /\ \/ \E n \in Writable(s) \cap requested :
            ResolveScope(s, n, [Calling(s) EXCEPT !.made = {n}])
       \/ Writable(s) \cap requested = {} /\ Deny(s)

(***************************************************************************)
(* The INSERT: a scope removed meanwhile violates its foreign key.  The    *)
(* row is there also when its embedding fails and the call with it.        *)
(***************************************************************************)
InsertRow(s) ==
    /\ sess[s].stage = "insert"
    /\ IF scopes[sess[s].target] = None
       THEN /\ Settle(s, sess[s], "error")
            /\ UNCHANGED <<rows, next, owed>>
       ELSE /\ next.row \in RowIds
            /\ rows' = [rows EXCEPT ![next.row] =
                          [scope |-> sess[s].target, made |-> sess[s].made]]
            /\ next' = [next EXCEPT !.row = @ + 1]
            /\ owed' = owed \cup {<<s, sess[s].calls>>}
            /\ \E o \in {"ok", "error"} : Settle(s, sess[s], o)
    /\ UNCHANGED <<scopes, tools, rotating, issuedTo, audit>>

(* Mistake: forget by id alone. *)
CheckNothing(s, i) ==
    /\ MayCall(s)
    /\ Set(s, [Calling(s) EXCEPT !.stage = "delete", !.target = i])
    /\ UNCHANGED store /\ Keep

(***************************************************************************)
(* forget: the memory is read and its scope checked; "not found" and "not  *)
(* yours" give the same answer, a successful one.                          *)
(***************************************************************************)
CheckForget(s, i) ==
    /\ MayCall(s)
    /\ IF rows[i] # None /\ ScopeNameOf(i) \in Writable(s)
       THEN Set(s, [Calling(s) EXCEPT !.stage = "delete", !.target = i])
       ELSE Settle(s, Calling(s), "ok")
    /\ UNCHANGED store /\ Keep

(* The DELETE by id. *)
DeleteRow(s) ==
    /\ sess[s].stage = "delete"
    /\ rows' = [rows EXCEPT ![sess[s].target] = None]
    /\ owed' = IF rows[sess[s].target] = None THEN owed
               ELSE owed \cup {<<s, sess[s].calls>>}
    /\ Settle(s, sess[s], "ok")
    /\ UNCHANGED <<scopes, tools, next, rotating, issuedTo, audit>>

(* requireReadableScope and scopeFilterFor; n = None: no scope requested. *)
Readable(s, n) == n \in sess[s].grants \cup {None}
ReadFilter(s, n) == IF n = None THEN sess[s].grants ELSE {n}

(* A search in the scopes of the filter; its embedding may fail. *)
Answer(s, n) ==
    IF Readable(s, n)
    THEN \/ Settle(s, [Calling(s) EXCEPT !.made = Found(ReadFilter(s, n))], "ok")
         \/ Settle(s, Calling(s), "error")
    ELSE Settle(s, Calling(s), "denied")

Search(s, n) == MayCall(s) /\ Answer(s, n) /\ UNCHANGED store /\ Keep

(***************************************************************************)
(* The searches of the browser UI are answered before they are recorded; a *)
(* blank query is answered unchecked, with no hits.                        *)
(***************************************************************************)
UiSearch(s, n) ==
    /\ MayCall(s)
    /\ Answer(s, n) \/ Settle(s, Calling(s), "ok")
    /\ owed' = owed \cup {<<s, sess[s].calls + 1>>}
    /\ UNCHANGED store /\ UNCHANGED audit

(***************************************************************************)
(* summarize, of a scope the caller must name: readable, writable too for  *)
(* a summary to be saved.  Its search and the start of the wait.           *)
(***************************************************************************)
Summarize(s, n, save) ==
    /\ MayCall(s)
    /\ IF n \in IF save THEN Writable(s) ELSE sess[s].grants
       THEN \/ Set(s, [Calling(s) EXCEPT !.stage = "llm", !.made = Found({n}),
                                         !.target = IF save THEN n ELSE None])
            \/ Settle(s, Calling(s), "error")
       ELSE Settle(s, Calling(s), "denied")
    /\ UNCHANGED store /\ Keep

(* The model answers, and the summary is kept if asked for; or it fails. *)
Summarized(s) ==
    /\ sess[s].stage = "llm"
    /\ IF sess[s].target = None
       THEN Settle(s, sess[s], "ok") /\ UNCHANGED store /\ Keep
       ELSE ResolveScope(s, sess[s].target, sess[s])

LlmFails(s) ==
    /\ sess[s].stage = "llm"
    /\ Settle(s, sess[s], "error")
    /\ UNCHANGED store /\ Keep

EntryOf(s) == [sess |-> s, call |-> sess[s].calls, tool |-> sess[s].tool,
               name |-> sess[s].name]

(* Mistake: a handler that throws is not recorded. *)
RecordSuccess(s) ==
    /\ sess[s].stage = "record"
    /\ audit' = IF sess[s].outcome = "error" \/ tools[sess[s].tool] = None THEN audit
                ELSE audit \cup {EntryOf(s)}
    /\ owed' = owed \cup {<<s, sess[s].calls>>}
    /\ Set(s, [sess[s] EXCEPT !.stage = "idle", !.outcome = None, !.made = {}])
    /\ UNCHANGED store

(***************************************************************************)
(* The audit row: its foreign key fails when the tool is gone, and then    *)
(* the client is told so, whatever the call has done.                      *)
(***************************************************************************)
Record(s) ==
    /\ sess[s].stage = "record"
    /\ audit' = IF tools[sess[s].tool] = None THEN audit ELSE audit \cup {EntryOf(s)}
    /\ owed' = owed \cup {<<s, sess[s].calls>>}
    /\ Set(s, [sess[s] EXCEPT !.stage = "idle", !.outcome = None, !.made = {}])
    /\ UNCHANGED store

(* The server stops, or is killed in the middle of a call. *)
Stop(s) ==
    /\ sess[s].stage \notin {"off", "dead"}
    /\ Set(s, [sess[s] EXCEPT !.stage = "dead", !.grants = {}, !.write = FALSE,
                              !.target = None, !.made = {}, !.outcome = None])
    /\ UNCHANGED store /\ Keep

Operator ==
    \/ \E n \in ToolNames, granted \in SUBSET Names, w \in BOOLEAN :
         Connect(n, granted, w)     \* ToolAdd is one way of it
    \/ \E i \in ToolIds : Revoke(i) \/ RotateFind(i)
    \/ RotateUpdate
    \/ \E i \in ScopeIds : RemoveScope(i)
    \/ \E n \in Names : CliRemember(n)
    \/ \E n \in Names \cup {None} : CliSummarize(n)

Server(s) ==
    \/ \E t \in Tokens : Authenticate(s, t)
    \/ ReadGrants(s)
    \/ \E n \in Names : Remember(s, {n})
    \/ Remember(s, Names)
    \/ InsertRow(s) \/ DeleteRow(s) \/ Record(s) \/ Stop(s)
    \/ \E i \in RowIds : CheckForget(s, i)
    \/ \E n \in Names \cup {None} : Search(s, n) \/ UiSearch(s, n)
    \/ \E n \in Names, save \in BOOLEAN : Summarize(s, n, save)
    \/ Summarized(s) \/ LlmFails(s)

Next == Operator \/ \E s \in Sess : Server(s)

Spec == Init /\ [][Next]_vars

-----------------------------------------------------------------------------
(* Types of the state. *)
TypeOK ==
    /\ scopes \in [ScopeIds -> Names \cup {None}]
    /\ tools \in [ToolIds -> Tool \cup {None}]
    /\ rows \in [RowIds -> Row \cup {None}]
    /\ next \in [tool: 1..(MaxTool + 1), token: 1..(MaxToken + 1),
                 scope: 1..(MaxScope + 1), row: 1..(MaxRow + 1)]
    /\ rotating \in Rotation \cup {None}
    /\ sess \in [Sess -> Session]
    /\ audit \subseteq Entry
    /\ issuedTo \in [Tokens -> ToolIds \cup {None}]
    /\ owed \subseteq Sess \X (1..MaxCalls)

(***************************************************************************)
(* SECURITY.md:28: "Writes require canWrite on the target scope".  The     *)
(* check, the resolution of the name and the write are separate steps, and *)
(* scopes of the same name come and go in between: still a session only    *)
(* adds rows to, and deletes rows from, scopes of names it was granted for *)
(* writing; of a row in a removed scope it may finish the deletion.        *)
(***************************************************************************)
WritesConfined ==
    [][\A s \in Sess, i \in RowIds :
         /\ InsertRow(s) /\ rows[i] = None /\ rows'[i] # None =>
              scopes[rows'[i].scope] \in Writable(s)
         /\ DeleteRow(s) /\ rows[i] # None /\ rows'[i] = None =>
              ScopeNameOf(i) \in Writable(s) \cup {None}]_vars

Audited(s, c) == \E e \in audit : e.sess = s /\ e.call = c

(***************************************************************************)
(* Whatever has had an effect or was answered is in the audit log, except  *)
(* the call in progress, the one a server died in, and the calls of a tool *)
(* that was revoked meanwhile.                                             *)
(***************************************************************************)
AuditedUnlessRevoked ==
    \A x \in owed :
      LET s == x[1]
      IN \/ Audited(s, x[2])
         \/ x[2] = sess[s].calls /\ sess[s].stage # "idle"
         \/ tools[sess[s].tool] = None

(***************************************************************************)
(* What is shown to a tool was told to scopes of names it may read, also   *)
(* when it comes from a summary: summarize.ts:71 fears content smuggled    *)
(* "from tighter scopes into the broadly-readable default".  Scopes go and *)
(* come back under their name while a summary is written.                  *)
(***************************************************************************)
AnswersConfined ==
    \A s \in Sess : sess[s].stage = "record" => sess[s].made \subseteq sess[s].grants

(***************************************************************************)
(* An audit row that names a tool by its id names the tool that made the   *)
(* call: a tool of the same name added after a revocation inherits         *)
(* nothing.                                                                *)
(***************************************************************************)
AuditNamesTool ==
    \A e \in audit : e.tool # None =>
      /\ tools[e.tool] # None
      /\ e.tool = sess[e.sess].tool /\ e.name = tools[e.tool].name

(***************************************************************************)
(* A token opens the tool it was handed out for and no other one, also     *)
(* when that tool is revoked and a new one gets its name while a rotation  *)
(* runs.                                                                   *)
(***************************************************************************)
TokenOfItsTool ==
    TypeOK /\ \A i \in ToolIds : tools[i] # None => issuedTo[tools[i].token] = i
=============================================================================
