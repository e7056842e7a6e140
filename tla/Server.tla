---------------------------------- MODULE Server ----------------------------------
(***************************************************************************)
(* The life of `dcx serve` (mcp/httpServer.ts, mcp/server.ts,              *)
(* cli/commands/serve.ts): it opens the store, authenticates, connects and *)
(* listens, answers requests, and is closed by signals.  Its requests      *)
(* share one embedding provider (Providers); what opening the store means  *)
(* beside other processes is in Store and EmbedDim.                        *)
(*                                                                         *)
(* Everything the server holds is closed by several awaited steps, each of *)
(* which may throw, while connections stay open, requests wait for their   *)
(* embeddings and a second signal begins the same steps again.             *)
(***************************************************************************)
EXTENDS Providers

CONSTANT
    Signals     \* the signals it gets, SIGINT or SIGTERM, each once

(* What may fail: the start, and the shutdown that each signal begins.     *)
Flows == {"start"} \cup Signals

ASSUME SignalsAssumption == "start" \notin Signals

(***************************************************************************)
(* A request is a call of the provider, as each embeds once.  Over HTTP it *)
(* comes on a connection of its own or on one that was kept alive.         *)
(***************************************************************************)
Requests == Calls

Steps == {"down", "auth", "connect", "listen", "up",
          "unwind transport", "unwind mcp", "unwind store", "failed"}
CloseSteps == {"none", "listener", "waiting", "late", "mcp", "transport", "store", "end"}
Parts == {"open", "auth", "connect", "listen", "listener", "mcp", "transport", "store"}

(* "left": opened and not closed, as its opening or its closing threw; of  *)
(* the store, also that AppContext.closed is set and no call closes it.    *)
VARIABLES
    mode,       \* "http" or "stdio"
    start,      \* where the start is
    db,         \* the store: "closed", "open" or "left"
    mcp,        \* the MCP server: "none", "built", "connected", "closed", "left"
    transport,  \* its transport: "none", "open", "closed" or "left"
    listener,   \* the HTTP listener: "none", "bound", "closing" or "closed"
    req,        \* [Requests -> "none", "half", "begun", "embedding" or "stream"]
    client,     \* [Requests -> BOOLEAN]: its connection is open; over stdio,
                \* its caller waits
    closing,    \* [Signals -> where the shutdown it began is]
    reported,   \* [Flows -> the error its caller is to get, or "none"]
    first,      \* history variable: [Flows -> the first that threw in it]
    exited,     \* the process is gone
    cut         \* history variable: a request met a closed store while its
                \* client waited

errors == <<reported, first>>
resources == <<mcp, transport, listener>>
traffic == <<req, client, cut>>
server == <<mode, start, db, resources, traffic, closing, errors, exited>>
vars == <<providers, server>>

Working(r) == req[r] \in {"begun", "embedding"}
Connections == {r \in Requests : client[r]}

Init ==
    /\ InitProviders
    /\ mode \in {"http", "stdio"}
    /\ start = "down" /\ db = "closed"
    /\ mcp = "none" /\ transport = "none" /\ listener = "none"
    /\ req = [r \in Requests |-> "none"]
    /\ client = [r \in Requests |-> FALSE]
    /\ closing = [k \in Signals |-> "none"]
    /\ reported = [f \in Flows |-> "none"]
    /\ first = [f \in Flows |-> "none"]
    /\ exited = FALSE
    /\ cut = FALSE

(* Mistake: the last error is the one that counts.                         *)
ThrowsOver(f, part) ==
    /\ reported' = [reported EXCEPT ![f] = part]
    /\ first' = [first EXCEPT ![f] = IF @ = "none" THEN part ELSE @]

(* Over HTTP the first error is kept; over stdio it is thrown in a         *)
(* `finally`, and the next one takes its place.                            *)
Throws(f, part) ==
    /\ reported' = [reported EXCEPT ![f] = IF mode = "http" /\ @ # "none" THEN @ ELSE part]
    /\ first' = [first EXCEPT ![f] = IF @ = "none" THEN part ELSE @]

-----------------------------------------------------------------------------
(* AppContext.open, outside the try.  A refused store is closed again;     *)
(* what throws behind the gate, schema, stamp or tables, leaves it open.   *)
OpenStore ==
    /\ start = "down"
    /\ \/ start' = "auth" /\ db' = "open" /\ UNCHANGED errors
       \/ start' = "failed" /\ db' \in {"closed", "left"} /\ Throws("start", "open")
    /\ UNCHANGED <<providers, mode, resources, traffic, closing, exited>>

(* An error of the start: what is open is taken down before it is thrown.  *)
Fail(part) ==
    /\ start' = IF mode = "http" THEN "unwind transport" ELSE "unwind mcp"
    /\ Throws("start", part)

(* The token is given and known, server and transport are built, or not.   *)
Authenticate ==
    /\ start = "auth"
    /\ \/ /\ start' = "connect" /\ mcp' = "built" /\ transport' = "open"
          /\ UNCHANGED errors
       \/ Fail("auth") /\ mcp' \in {"none", "built"} /\ UNCHANGED transport
    /\ UNCHANGED <<providers, mode, db, listener, traffic, closing, exited>>

Connect ==
    /\ start = "connect"
    /\ \/ /\ start' = IF mode = "http" THEN "listen" ELSE "up"
          /\ mcp' = "connected"
          /\ UNCHANGED errors
       \/ Fail("connect") /\ UNCHANGED mcp
    /\ UNCHANGED <<providers, mode, db, transport, listener, traffic, closing, exited>>

(* 'listening' races 'error' (EADDRINUSE and the like).                    *)
Listen ==
    /\ start = "listen"
    /\ \/ start' = "up" /\ listener' = "bound" /\ UNCHANGED errors
       \/ Fail("listen") /\ UNCHANGED listener
    /\ UNCHANGED <<providers, mode, db, mcp, transport, traffic, closing, exited>>

Shut(part) == IF part = "none" THEN "none" ELSE "closed"
Stays(part) == IF part \in {"none", "closed"} THEN part ELSE "left"

(* closeTransport; what it throws is swallowed.                            *)
UnwindTransport ==
    /\ start = "unwind transport"
    /\ start' = "unwind mcp"
    /\ transport' \in {Shut(transport), Stays(transport)}
    /\ UNCHANGED <<providers, mode, db, mcp, listener, traffic, closing, errors, exited>>

(* mcpServer.close, if there is one, closes its transport too.  Its error  *)
(* is swallowed over HTTP; over stdio it is thrown.                        *)
UnwindMcp ==
    /\ start = "unwind mcp"
    /\ start' = "unwind store"
    /\ \/ mcp' = Shut(mcp) /\ transport' = Shut(transport) /\ UNCHANGED errors
       \/ /\ mcp # "none"
          /\ mcp' = "left" /\ transport' = Stays(transport)
          /\ IF mode = "http" THEN UNCHANGED errors ELSE Throws("start", "mcp")
    /\ UNCHANGED <<providers, mode, db, listener, traffic, closing, exited>>

(* Mistake: the store is closed only if the server had been built.         *)
UnwindStoreIfBuilt ==
    /\ start = "unwind store"
    /\ start' = "failed"
    /\ db' = IF mcp = "none" THEN db ELSE "closed"
    /\ UNCHANGED <<providers, mode, resources, traffic, closing, errors, exited>>

(* ctx.close, which may throw as well.                                     *)
UnwindStore ==
    /\ start = "unwind store"
    /\ start' = "failed"
    /\ \/ db' = "closed" /\ UNCHANGED errors
       \/ /\ db' = "left"
          /\ IF mode = "http" THEN UNCHANGED errors ELSE Throws("start", "store")
    /\ UNCHANGED <<providers, mode, resources, traffic, closing, exited>>

-----------------------------------------------------------------------------
(* The first bytes of a request, on a new connection or on one kept alive: *)
(* a listener that is closing takes no new ones, and leaves the others be. *)
Arrive(r) ==
    /\ ~exited /\ req[r] = "none" /\ asking[r] = "none"
    /\ IF mode = "http" THEN client[r] \/ listener = "bound" ELSE mcp = "connected"
    /\ req' = [req EXCEPT ![r] = IF mode = "http" THEN "half" ELSE "begun"]
    /\ client' = [client EXCEPT ![r] = TRUE]
    /\ UNCHANGED <<providers, mode, start, db, resources, closing, errors, exited, cut>>

(* The rest of it: a tool call, a stream that the transport keeps open, or *)
(* what is answered at once and without the store.                         *)
Receive(r) ==
    /\ ~exited /\ req[r] = "half"
    /\ \E s \in {"begun", "stream", "none"} : req' = [req EXCEPT ![r] = s]
    /\ UNCHANGED <<providers, mode, start, db, resources, client, closing, errors, exited, cut>>

(* The client goes away, also by the time limit on half a request while    *)
(* the server listens; a handler at work does not notice.                  *)
Disconnect(r) ==
    /\ ~exited /\ mode = "http" /\ client[r]
    /\ client' = [client EXCEPT ![r] = FALSE]
    /\ req' = [req EXCEPT ![r] = IF Working(r) THEN @ ELSE "none"]
    /\ UNCHANGED <<providers, mode, start, db, resources, closing, errors, exited, cut>>

(* keepAliveTimeout of a connection without a request.                     *)
IdleTimesOut(r) ==
    /\ ~exited /\ mode = "http" /\ client[r] /\ req[r] = "none"
    /\ client' = [client EXCEPT ![r] = FALSE]
    /\ UNCHANGED <<providers, mode, start, db, resources, req, closing, errors, exited, cut>>

(* The answer; the connection is kept alive.                               *)
Respond(r) ==
    /\ req' = [req EXCEPT ![r] = "none"]
    /\ client' = IF mode = "http" THEN client ELSE [client EXCEPT ![r] = FALSE]
    /\ cut' = (cut \/ (db = "closed" /\ client[r]))

(* The first statements of a tool, and its call of the provider.           *)
Begin(r) ==
    /\ ~exited /\ req[r] = "begun"
    /\ IF db = "closed"
       THEN Respond(r) /\ UNCHANGED providers
       ELSE Embed(r) /\ req' = [req EXCEPT ![r] = "embedding"] /\ UNCHANGED <<client, cut>>
    /\ UNCHANGED <<mode, start, db, resources, closing, errors, exited>>

(* The embedding or its error is there: the last statements and the audit  *)
(* row, then the answer.                                                   *)
Finish(r) ==
    /\ ~exited /\ req[r] = "embedding"
    /\ Take(r)
    /\ Respond(r)
    /\ UNCHANGED <<mode, start, db, resources, closing, errors, exited>>

Provide ==
    /\ ~exited
    /\ (\E r \in Requests : Answer(r)) \/ (\E n \in Loads : LoadSettles(n))
    /\ UNCHANGED server

-----------------------------------------------------------------------------
At(k, step) == closing[k] = step /\ ~exited
Go(k, step) == closing' = [closing EXCEPT ![k] = step]

(* shutdown, installed for both signals once the start is over.            *)
Signal(k) ==
    /\ ~exited /\ start = "up" /\ closing[k] = "none"
    /\ Go(k, IF mode = "http" THEN "listener" ELSE "mcp")
    /\ UNCHANGED <<providers, mode, start, db, resources, traffic, errors, exited>>

(* Mistake: nobody waits for the connections.                              *)
CloseListenerAtOnce(k) ==
    /\ At(k, "listener")
    /\ listener' = "closed"
    /\ Go(k, "mcp")
    /\ UNCHANGED <<providers, mode, start, db, mcp, transport, traffic, errors, exited>>

(***************************************************************************)
(* httpServer.close: no new connections, and those without a request are   *)
(* ended.  Its callback waits for 'close' either way; if nothing listened  *)
(* any more, it gets an error then.                                        *)
(***************************************************************************)
CloseListener(k) ==
    /\ At(k, "listener")
    /\ IF listener = "bound"
       THEN listener' = "closing" /\ Go(k, "waiting")
       ELSE UNCHANGED listener /\ Go(k, "late")
    /\ client' = [r \in Requests |-> client[r] /\ req[r] # "none"]
    /\ UNCHANGED <<providers, mode, start, db, mcp, transport, req, cut, errors, exited>>

(* 'close': the last connection has ended.                                 *)
ListenerClosed(k) ==
    /\ At(k, "waiting") \/ At(k, "late")
    /\ Connections = {}
    /\ listener' = "closed"
    /\ IF closing[k] = "late" THEN Throws(k, "listener") ELSE UNCHANGED errors
    /\ Go(k, "mcp")
    /\ UNCHANGED <<providers, mode, start, db, mcp, transport, traffic, exited>>

(* Mistake: an error of the MCP server is logged, and the server stays.    *)
CloseMcpOrStay(k) ==
    /\ At(k, "mcp")
    /\ \/ /\ mcp' = "closed" /\ transport' = Shut(transport)
          /\ Go(k, IF mode = "http" THEN "transport" ELSE "store")
       \/ mcp # "closed" /\ Go(k, "none") /\ UNCHANGED <<mcp, transport>>
    /\ UNCHANGED <<providers, mode, start, db, listener, traffic, errors, exited>>

(* mcpServer.close, with its transport; the second time it does nothing.   *)
CloseMcp(k) ==
    /\ At(k, "mcp")
    /\ \/ mcp' = "closed" /\ transport' = Shut(transport) /\ UNCHANGED errors
       \/ /\ mcp # "closed"
          /\ mcp' = "left" /\ transport' = Stays(transport)
          /\ Throws(k, "mcp")
    /\ Go(k, IF mode = "http" THEN "transport" ELSE "store")
    /\ UNCHANGED <<providers, mode, start, db, listener, traffic, exited>>

CloseTransport(k) ==
    /\ At(k, "transport")
    /\ \/ transport' = Shut(transport) /\ UNCHANGED errors
       \/ transport' = Stays(transport) /\ Throws(k, "transport")
    /\ Go(k, "store")
    /\ UNCHANGED <<providers, mode, start, db, mcp, listener, traffic, exited>>

(* AppContext.close, which does nothing the second time.                   *)
CloseStore(k) ==
    /\ At(k, "store")
    /\ \/ db # "open" /\ UNCHANGED <<db, errors>>
       \/ db = "open" /\ db' = "closed" /\ UNCHANGED errors
       \/ db = "open" /\ db' = "left" /\ Throws(k, "store")
    /\ Go(k, "end")
    /\ UNCHANGED <<providers, mode, start, resources, traffic, exited>>

(* process.exit, or the death by a rejection nobody handles.               *)
Exit(k) ==
    /\ At(k, "end")
    /\ exited' = TRUE
    /\ UNCHANGED <<providers, mode, start, db, resources, traffic, closing, errors>>

CloseStep(k) ==
    \/ CloseListener(k) \/ ListenerClosed(k) \/ CloseMcp(k) \/ CloseTransport(k)
    \/ CloseStore(k) \/ Exit(k)

-----------------------------------------------------------------------------
Start ==
    \/ OpenStore \/ Authenticate \/ Connect \/ Listen
    \/ UnwindTransport \/ UnwindMcp \/ UnwindStore

Serve == Provide \/ \E r \in Requests : Begin(r) \/ Finish(r) \/ IdleTimesOut(r)

Next ==
    \/ Start \/ Serve
    \/ \E r \in Requests : Arrive(r) \/ Receive(r) \/ Disconnect(r)
    \/ \E k \in Signals : Signal(k) \/ CloseStep(k)

(***************************************************************************)
(* Fairness: the event loop runs what is ready, the start, the requests    *)
(* and the shutdowns.  A request to a provider ends, by its answer or by   *)
(* the time-out of fetch, and so does the wait of an idle connection.  No  *)
(* client is obliged to finish a request or to go away, no signal to come. *)
(***************************************************************************)
Fairness ==
    /\ WF_vars(Start)
    /\ WF_vars(Serve)
    /\ WF_vars(\E k \in Signals : CloseStep(k))

Spec == Init /\ [][Next]_vars /\ Fairness

-----------------------------------------------------------------------------
TypeOK ==
    /\ mode \in {"http", "stdio"} /\ start \in Steps
    /\ db \in {"closed", "open", "left"}
    /\ mcp \in {"none", "built", "connected", "closed", "left"}
    /\ transport \in {"none", "open", "closed", "left"}
    /\ listener \in {"none", "bound", "closing", "closed"}
    /\ req \in [Requests -> {"none", "half", "begun", "embedding", "stream"}]
    /\ client \in [Requests -> BOOLEAN]
    /\ closing \in [Signals -> CloseSteps]
    /\ reported \in [Flows -> {"none"} \cup Parts]
    /\ first \in [Flows -> {"none"} \cup Parts]
    /\ exited \in BOOLEAN /\ cut \in BOOLEAN

(* A start that has failed, a shutdown that has been through every step.   *)
Ended(f) == IF f = "start" THEN start = "failed" ELSE closing[f] = "end"

(***************************************************************************)
(* "Any error thrown during setup closes every opened resource"            *)
(* (httpServer.ts:38-40) and "we attempt ALL of them, remembering the      *)
(* first failure" (177-184): when a start has failed or a shutdown has     *)
(* ended, nothing listens and nothing is open but what threw itself, when  *)
(* it was closed or, the store, while AppContext.open was at it; of that   *)
(* the caller of the start or of some shutdown hears, and over HTTP what   *)
(* each hears is the first thing that threw.                               *)
(***************************************************************************)
EndsWhole ==
    /\ TypeOK
    /\ \A f \in Flows : Ended(f) =>
        /\ db # "open" /\ listener \in {"none", "closed"}
        /\ mcp \notin {"built", "connected"} /\ transport # "open"
        /\ "left" \in {db, mcp, transport} => \E g \in Flows : reported[g] # "none"
        /\ mode = "http" => reported[f] = first[f]

(***************************************************************************)
(* No HTTP request whose client waits for it is run on a closed store,     *)
(* however many signals come: httpServer.close waits for the connections   *)
(* before anything else is closed.  One whose client has gone may be, and  *)
(* over stdio nothing waits for the calls under way (server.ts:66-76).     *)
(***************************************************************************)
OpenWhileAnswering == cut => mode = "stdio"

(***************************************************************************)
(* A signal ends the process, whatever throws on the way and whoever sends *)
(* a second one, if from some point on no client streams, holds half a     *)
(* request or sends another.  Over HTTP it takes that: the connections are *)
(* waited for before the transport is closed (httpServer.ts:186-203), and  *)
(* a second signal waits for them as well.                                 *)
(***************************************************************************)
Stops ==
    <>[](\A r \in Requests : req[r] \notin {"half", "stream"})
        => \A k \in Signals : closing[k] # "none" ~> exited
=============================================================================
