----------------------- MODULE GoFeatureFlagWebProvider -----------------------
(* The GO Feature Flag provider for browsers                                 *)
(* (libs/providers/go-feature-flag-web): bulk evaluations with retries,      *)
(* started by initialize(), by a change of context, by a message of the      *)
(* websocket and by setApiKey(), above GoFeatureFlagWebSocket.  The data     *)
(* collector is CollectorManager.                                            *)
(* External: the relay proxy with the version of its flags, and the SDK,     *)
(* which sets the context before it calls onContextChange.                   *)
EXTENDS GoFeatureFlagWebSocket

CONSTANTS
  Contexts,       \* evaluation contexts
  Fetches,        \* places for bulk evaluations (bound)
  MaxVersion,     \* bound: changes of the flags at the relay proxy
  MaxFetchFaults  \* bound: evaluations that fail

ASSUME FetchBounds == MaxVersion \in Nat /\ MaxFetchFaults \in Nat

VARIABLES
  init,           \* initialize(): "idle", "pending", "done"
  argument,       \* the context it was called with, while it is pending
  waits,          \* what its Promise.all still waits for
  flags,          \* _flags: the context, key and version they are for
  fetch,          \* the calls of fetchAll / retryFetchAll
  controller,     \* the call _fetchAbortController belongs to
  status,         \* the status the SDK derives from the events
  context,        \* the context set in the SDK
  version,        \* external: version of the flags
  notices,        \* external: messages under way on the websocket
  doubt,          \* history: calls overlapped, were given up, a message was
                  \* missed or the context initialize() retries with is no
                  \* longer the SDK's, since a call last ran alone
  closed,         \* onClose(): "no", "flushing" the collector, "yes"
  faults          \* bounded count of failures

initVars == <<init, argument, waits>>
flagVars == <<flags, fetch, controller>>
envVars == <<context, version, faults>>
vars == <<wsVars, initVars, flagVars, envVars, status, notices, doubt, closed>>

NoFlags == [context |-> "none", key |-> 0, version |-> 0]
NoFetch == "no fetch"
Idle == [by |-> "nobody", pc |-> "idle", context |-> "none", attempt |-> 0, answer |-> NoFlags]
Results == [context: Contexts, key: 0 .. MaxKeys, version: 0 .. MaxVersion]

TypeOK ==
  /\ WsTypeOK
  /\ init \in {"idle", "pending", "done"} /\ argument \in Contexts \union {"none"} /\ waits \subseteq {"fetch", "connect"}
  /\ flags \in Results \union {NoFlags}
  /\ fetch \in [Fetches -> [by: {"nobody", "init", "retry", "context"}, context: Contexts \union {"none"},
                            pc: {"idle", "sent", "answered", "aborted", "delay"},
                            attempt: 0 .. MaxRetries, answer: Results \union {NoFlags}]]
  /\ controller \in Fetches \union {NoFetch}
  /\ status \in {"NOT_READY", "READY", "STALE", "ERROR"}
  /\ context \in Contexts
  /\ version \in 0 .. MaxVersion /\ notices \in 0 .. MaxVersion /\ faults \in 0 .. MaxFetchFaults
  /\ doubt \in BOOLEAN /\ closed \in {"no", "flushing", "yes"}

Init ==
  /\ WsInit
  /\ init = "idle" /\ argument = "none" /\ waits = {}
  /\ flags = NoFlags
  /\ fetch = [f \in Fetches |-> Idle] /\ controller = NoFetch
  /\ status = "NOT_READY"
  /\ context \in Contexts
  /\ version = 0 /\ notices = 0 /\ faults = 0
  /\ doubt = FALSE /\ closed = "no"

Free(calls) == OneOf({f \in Fetches : calls[f].pc = "idle"})
Pending == {f \in Fetches : fetch[f].pc # "idle"}

-----------------------------------------------------------------------------
(* A call of fetchAll (by initialize) or retryFetchAll begins, alone or      *)
(* beside others.                                                            *)
Requests(calls, f, by, ctx) ==
  /\ fetch' = [calls EXCEPT ![f] = [by |-> by, pc |-> "sent", context |-> ctx, attempt |-> 1,
                                     answer |-> NoFlags]]
  /\ controller' = f
Alone(calls, f) == \A g \in Fetches \ {f} : calls[g].pc = "idle"
Starts(calls, f, by, ctx) == Requests(calls, f, by, ctx) /\ doubt' = ~Alone(calls, f)

(* initialize() starts both halves.                                          *)
Initialize ==
  /\ init = "idle" /\ closed = "no"
  /\ init' = "pending" /\ argument' = context /\ waits' = {"fetch", "connect"}
  /\ \E f \in Free(fetch) : Starts(fetch, f, "init", context)
  /\ \E t \in FreeTask : Becomes(begin(World, t, "init", apiKey))
  /\ UNCHANGED <<apiKey, gaveUp, wsFaults, flags, envVars, status, notices, closed>>

(* One half of Promise.all is done.                                          *)
halfDone(half) ==
  /\ waits' = waits \ {half}
  /\ IF init = "pending" /\ waits = {half}
       THEN init' = "done" /\ argument' = "none" /\ status' = "READY"
       ELSE UNCHANGED <<init, argument, status>>

(* The catch of initialize(): ERROR, then both retry loops, then the promise *)
(* resolves all the same and the SDK sets READY.  The flags are fetched with *)
(* the context initialize() was called with.                                 *)
initFails(world, calls, f) ==
  /\ init' = "done" /\ argument' = "none" /\ waits' = {}
  /\ status' = "READY"
  /\ Requests(calls, f, "retry", argument)
  /\ doubt' = (argument # context \/ ~Alone(calls, f))
  /\ \E t \in OneOf({u \in Tasks : world.task[u].pc = "idle"}) : Becomes(begin(world, t, "reconnect", apiKey))
  /\ UNCHANGED <<apiKey, gaveUp>>

(* fetchAll after its await, and what its caller does.                       *)
FetchOk(f) ==
  /\ fetch[f].pc = "answered"
  /\ flags' = fetch[f].answer
  /\ fetch' = [fetch EXCEPT ![f] = Idle]
  /\ CASE fetch[f].by = "init" -> halfDone("fetch")
       [] fetch[f].by = "context" -> status' = "READY" /\ UNCHANGED initVars
       [] OTHER -> UNCHANGED <<status, initVars>>
  /\ UNCHANGED <<wsVars, controller, envVars, notices, doubt, closed>>

(* fetchAll rejects.  A rejection of initialize()'s own call after the other *)
(* half has failed is not looked at any more.                                *)
rejected(f) ==
  \/ /\ fetch[f].by = "init" /\ init = "pending"
     /\ initFails(World, fetch, f)
  \/ /\ fetch[f].by = "init" /\ init = "done"
     /\ fetch' = [fetch EXCEPT ![f] = Idle]
     /\ doubt' = TRUE
     /\ UNCHANGED <<socket, websocket, task, strays, apiKey, gaveUp, initVars, controller, status>>
  \/ /\ fetch[f].by # "init"
     /\ status' = "ERROR"
     /\ fetch' = [fetch EXCEPT ![f].pc = "delay"]
     /\ UNCHANGED <<socket, websocket, task, strays, apiKey, gaveUp, initVars, controller, doubt>>

FetchFails(f) ==
  /\ fetch[f].pc \in {"sent", "answered"}
  /\ faults < MaxFetchFaults /\ faults' = faults + 1
  /\ rejected(f)
  /\ UNCHANGED <<wsFaults, flags, context, version, notices, closed>>

FetchAborted(f) ==
  /\ fetch[f].pc = "aborted"
  /\ rejected(f)
  /\ UNCHANGED <<wsFaults, flags, envVars, notices, closed>>

(* The delay of retryFetchAll: the next attempt, or its quiet end, after     *)
(* which onContextChange emits READY as after a success.                     *)
FetchDelay(f) ==
  /\ fetch[f].pc = "delay"
  /\ \/ /\ fetch[f].attempt < MaxRetries
        /\ fetch' = [fetch EXCEPT ![f].pc = "sent", ![f].attempt = @ + 1, ![f].answer = NoFlags]
        /\ controller' = f
        /\ UNCHANGED <<doubt, status>>
     \/ /\ fetch[f].attempt = MaxRetries
        /\ fetch' = [fetch EXCEPT ![f] = Idle]
        /\ doubt' = TRUE
        /\ status' = IF fetch[f].by = "context" THEN "READY" ELSE status
        /\ UNCHANGED controller
  /\ UNCHANGED <<wsVars, initVars, flags, envVars, notices, closed>>

(* Mutant: the flags are fetched again for the old context.                  *)
OnContextChangeOld ==
  /\ init # "idle" /\ closed = "no"
  /\ context' \in Contexts \ {context}
  /\ status' = "STALE"
  /\ \E f \in Free(fetch) : Starts(fetch, f, "context", context)
  /\ UNCHANGED <<wsVars, initVars, flags, version, faults, notices, closed>>

(* It is called while initialize() is pending, too.                          *)
OnContextChange ==
  /\ init # "idle" /\ closed = "no"
  /\ context' \in Contexts \ {context}
  /\ status' = "STALE"
  /\ \E f \in Free(fetch) : Starts(fetch, f, "context", context')
  /\ UNCHANGED <<wsVars, initVars, flags, version, faults, notices, closed>>

(* onmessage, or a message that finds no handler.                            *)
OnMessage ==
  /\ Open /\ notices > 0
  /\ notices' = notices - 1
  /\ \/ socket[websocket].onerror = "live" /\ \E f \in Free(fetch) : Starts(fetch, f, "retry", context)
     \/ socket[websocket].onerror = Nobody /\ doubt' = TRUE /\ UNCHANGED <<fetch, controller>>
  /\ UNCHANGED <<wsVars, initVars, flags, envVars, status, closed>>

-----------------------------------------------------------------------------
(* What the caller of connectWebsocket does when the task that waited for    *)
(* socket s has its answer.                                                  *)
callerContinues(handler, s) ==
  LET settled == {task[t].kind : t \in Waiter(handler, s)}
  IN /\ IF "init" \in settled THEN halfDone("connect") ELSE UNCHANGED <<initVars, status>>
     /\ IF "apikey" \in settled
          THEN \E f \in Free(fetch) : Starts(fetch, f, "retry", context)
          ELSE UNCHANGED <<fetch, controller>>
                 /\ doubt' = (doubt \/ notices' # notices)

WebsocketOpens(s) ==
  /\ SocketOpens(s)
  /\ UNCHANGED notices
  /\ callerContinues(socket[s].onopen, s)
  /\ UNCHANGED <<flags, envVars, closed>>

(* The messages that were under way on _websocket are lost with it.          *)
WebsocketCloses(s) ==
  /\ SocketCloses(s)
  /\ notices' = IF s = websocket THEN 0 ELSE notices
  /\ callerContinues(socket[s].onclose, s)
  /\ UNCHANGED <<flags, envVars, closed>>

WebsocketErrors(s) ==
  /\ SocketErrors(s)
  /\ notices' = 0
  /\ callerContinues(socket[s].onclose, s)
  /\ UNCHANGED <<flags, envVars, closed>>

ReconnectDelay(t) ==
  /\ RetryDelay(t)
  /\ status' = IF gaveUp' = gaveUp THEN status ELSE "STALE"
  /\ UNCHANGED <<initVars, flagVars, envVars, notices, doubt, closed>>

ConnectTimesOut(t) == WaitTimesOut(t) /\ UNCHANGED <<initVars, flagVars, envVars, status, notices, doubt, closed>>

(* The same for initialize()'s own task: it rejects Promise.all.             *)
InitConnectTimesOut(t) ==
  /\ Overdue(t) /\ task[t].kind = "init"
  /\ wsFaults' = wsFaults + 1
  /\ LET left == [World EXCEPT !.task = [@ EXCEPT ![t] = NoTask]]
     IN \/ /\ init = "pending"
           /\ \E f \in Free(fetch) : initFails(left, fetch, f)
        \/ /\ init = "done"
           /\ Becomes(left)
           /\ UNCHANGED <<apiKey, gaveUp, initVars, fetch, controller, status, doubt>>
  /\ UNCHANGED <<flags, envVars, notices, closed>>

(* setApiKey up to its await; without a socket it goes on at once.           *)
SetApiKey ==
  /\ RotateKey
  /\ LET aborted == IF controller # NoFetch /\ fetch[controller].pc \in {"sent", "answered"}
                      THEN [fetch EXCEPT ![controller].pc = "aborted"] ELSE fetch
     IN IF websocket = NoSocket
          THEN \E f \in Free(aborted) : Starts(aborted, f, "retry", context)
          ELSE fetch' = aborted /\ controller' = NoFetch /\ doubt' = TRUE
  /\ UNCHANGED <<initVars, flags, envVars, status, notices, closed>>

OnClose ==
  /\ init # "idle" /\ closed = "no"
  /\ closed' = "flushing"
  /\ UNCHANGED <<wsVars, initVars, flagVars, envVars, status, notices, doubt>>

(* After the flush: the socket is closed, with the handler it has.           *)
OnCloseContinues ==
  /\ closed = "flushing"
  /\ closed' = "yes"
  /\ IF websocket # NoSocket /\ socket[websocket].state # "closed"
       THEN socket' = [socket EXCEPT ![websocket].state = "closing"] ELSE UNCHANGED socket
  /\ UNCHANGED <<websocket, task, strays, apiKey, gaveUp, wsFaults, initVars, flagVars, envVars, status, notices, doubt>>

-----------------------------------------------------------------------------
(* The relay proxy: it evaluates with the flags it has, and tells the        *)
(* websocket that is open of a change.                                       *)
Evaluates(f) ==
  /\ fetch[f].pc = "sent"
  /\ fetch' = [fetch EXCEPT ![f].pc = "answered",
                            ![f].answer = [context |-> fetch[f].context, key |-> apiKey, version |-> version]]
  /\ UNCHANGED <<wsVars, initVars, flags, controller, envVars, status, notices, doubt, closed>>

FlagsChange ==
  /\ version < MaxVersion
  /\ version' = version + 1
  /\ IF Open THEN notices' = notices + 1 /\ UNCHANGED doubt ELSE doubt' = TRUE /\ UNCHANGED notices
  /\ UNCHANGED <<wsVars, initVars, flagVars, context, faults, status, closed>>

-----------------------------------------------------------------------------
Next ==
  \/ Initialize \/ OnContextChange \/ OnMessage \/ SetApiKey \/ OnClose \/ OnCloseContinues
  \/ \E f \in Fetches : FetchOk(f) \/ FetchFails(f) \/ FetchAborted(f) \/ FetchDelay(f) \/ Evaluates(f)
  \/ \E s \in Sockets : WebsocketOpens(s) \/ WebsocketCloses(s) \/ WebsocketErrors(s)
  \/ \E t \in Tasks : ReconnectDelay(t) \/ ConnectTimesOut(t) \/ InitConnectTimesOut(t)
  \/ FlagsChange

Spec == Init /\ [][Next]_vars

-----------------------------------------------------------------------------
(* Properties                                                                *)

(* There is one socket at most, it is _websocket, and it was opened with the *)
(* key in force, but for one that an error of a socket that is being         *)
(* replaced cuts off: see GoFeatureFlagWebSocket (:109-131, :149-152,        *)
(* :427-444).                                                                *)
SocketsConsistent == TypeOK /\ OneSocket /\ KeyInForce

(* Once nothing is under way the flags are those of the context in the SDK,  *)
(* of the key in force and of the version at the relay proxy, unless a call  *)
(* overlapped another or was given up, a change was missed while no          *)
(* websocket was open (nothing fetches after a reconnect), or initialize()   *)
(* failed after the context had changed: it retries with its own argument    *)
(* (:92-102, :139-144, :190-195, :297-314, :324-387, :427-448).              *)
FlagsFollow ==
  init = "done" /\ Pending = {} /\ notices = 0 /\ ~doubt =>
    flags = [context |-> context, key |-> apiKey, version |-> version]

(* Once initialized the websocket is open with its handlers in place, or its *)
(* close is under way and will be heard, or a call is about to replace it.   *)
(* Since a connection was last up or a key was set, one of these ends may    *)
(* have been met: a loop that gave up and said STALE, one that a timed out   *)
(* connect rejected, and a connect refused to a caller that does not look    *)
(* (initialize(), setApiKey(): the finding about :175-178)                   *)
(* (:136-152, :170-178, :257-276).                                           *)
NeverSilentlyDark ==
  init = "done" /\ gaveUp = "no" =>
    \/ Listening
    \/ socket[websocket].state = "closing" /\ socket[websocket].onclose = "live"
    \/ Active # {}

(* README.md:72: "If the connection to the GO Feature Flag instance fails,   *)
(* the provider will attempt to reconnect with an exponential back-off."     *)
FailureIsRetried ==
  init = "done" /\ socket[websocket].state = "closed" => Busy # {} \/ gaveUp \in {"told", "lapsed"}
=============================================================================
