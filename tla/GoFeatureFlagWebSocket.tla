------------------------ MODULE GoFeatureFlagWebSocket ------------------------
(* The websocket of the GO Feature Flag provider for browsers: every call of *)
(* connectWebsocket, reconnectWebsocket and setApiKey is a task of its own,  *)
(* and they meet only in _websocket and in the handlers of that socket.      *)
(* GoFeatureFlagWebProvider extends this module and adds the flags.          *)
(* External: the browser's WebSocket (one close event per socket, after an   *)
(* error event if the connection failed, and no open event after close())    *)
(* and the relay proxy behind it.                                            *)
EXTENDS Naturals, FiniteSets

CONSTANTS
  Sockets,        \* places for WebSocket objects that are not closed (bound)
  Tasks,          \* places for pending calls (bound)
  MaxRetries,     \* _maxRetries
  MaxKeys,        \* bound: calls of setApiKey
  MaxFaults       \* bound: connections refused, lost, timed out

ASSUME SomePlace == Sockets # {}
(* A maxRetries of 0 is none: it counts as 10.                               *)
ASSUME WsBounds == MaxRetries \in Nat \ {0} /\ MaxKeys \in Nat /\ MaxFaults \in Nat

VARIABLES
  socket,         \* the sockets: state, API key, whom onopen and onclose call,
                  \* whether onmessage and onerror are in place
  websocket,      \* _websocket
  task,           \* the pending calls of connectWebsocket
  apiKey,         \* _apiKey, as its number of rotations
  strays,         \* history: open sockets that an error cut off _websocket
  gaveUp,         \* history: why nobody may care since a connection was last
                  \* up: "told" (STALE emitted), "lapsed" (a timed out
                  \* connectWebsocket ended the loop), "refused" (a caller
                  \* that does not retry was refused), "no"
  wsFaults        \* bounded count of failures

wsVars == <<socket, websocket, task, apiKey, strays, gaveUp, wsFaults>>

NoSocket == "no socket"
Nobody == "nobody"
ASSUME PlacesAreNot == NoSocket \notin Sockets /\ Nobody \notin Tasks /\ "live" \notin Tasks
Blank == [state |-> "closed", key |-> 0, onopen |-> Nobody, onclose |-> Nobody, onerror |-> Nobody]
NoTask == [kind |-> "none", pc |-> "idle", attempt |-> 0, socket |-> NoSocket]

WsTypeOK ==
  /\ socket \in [Sockets -> [state: {"connecting", "open", "closing", "closed"}, key: 0 .. MaxKeys,
                             onopen: Tasks \union {Nobody}, onclose: Tasks \union {Nobody, "live"},
                             onerror: {Nobody, "live"}]]
  /\ websocket \in Sockets \union {NoSocket}
  /\ task \in [Tasks -> [kind: {"none", "init", "reconnect", "apikey"},
                         pc: {"idle", "closing", "waiting", "delay"},
                         attempt: 0 .. MaxRetries, socket: Sockets \union {NoSocket}]]
  /\ apiKey \in 0 .. MaxKeys
  /\ strays \subseteq Sockets
  /\ gaveUp \in {"no", "told", "lapsed", "refused"}
  /\ wsFaults \in 0 .. MaxFaults

WsInit ==
  /\ socket = [s \in Sockets |-> Blank]
  /\ websocket = NoSocket
  /\ task = [t \in Tasks |-> NoTask]
  /\ apiKey = 0
  /\ strays = {}
  /\ gaveUp = "no"
  /\ wsFaults = 0

Busy == {t \in Tasks : task[t].pc # "idle"}

(* A free place of a set, if there is one.                                   *)
OneOf(S) == IF S = {} THEN {} ELSE {CHOOSE x \in S : TRUE}
FreeTask == OneOf(Tasks \ Busy)

-----------------------------------------------------------------------------
(* The sockets, _websocket and the tasks as one record, so that a handler    *)
(* that connects twice can be written as a composition.                      *)
World == [socket |-> socket, current |-> websocket, task |-> task, strays |-> strays]
Becomes(w) == socket' = w.socket /\ websocket' = w.current /\ task' = w.task /\ strays' = w.strays

Unused(w) == {s \in Sockets : w.socket[s].state = "closed"}

(* new WebSocket and waitWebsocketFinalStatus: task t waits for its end.     *)
newWebSocket(w, t, key) ==
  LET s == CHOOSE n \in Unused(w) : TRUE
      new == [state |-> "connecting", key |-> key, onopen |-> t, onclose |-> t, onerror |-> Nobody]
  IN [socket |-> [n \in Sockets |->
                   IF n = s THEN new ELSE IF w.socket[n].state = "closed" THEN Blank ELSE w.socket[n]],
      current |-> s,
      task |-> [w.task EXCEPT ![t].pc = "waiting", ![t].socket = s],
      strays |-> w.strays]

(* Mutant: the old socket is replaced without waiting for its end.           *)
connectAtOnce(w, t, key) == newWebSocket(w, t, key)

(* connectWebsocket up to its first await.  Taking over onclose leaves a     *)
(* task that waits for the socket without its answer (see ended).            *)
connectWebsocket(w, t, key) ==
  IF w.current # NoSocket /\ w.socket[w.current].state # "closed"
    THEN [socket |-> [w.socket EXCEPT ![w.current].state = "closing", ![w.current].onclose = t],
          current |-> w.current,
          task |-> [w.task EXCEPT ![t].pc = "closing", ![t].socket = w.current],
          strays |-> w.strays]
    ELSE newWebSocket(w, t, key)

(* A new call: its task, then connectWebsocket.                              *)
begin(w, t, kind, key) ==
  LET call == [kind |-> kind, pc |-> "idle", attempt |-> 1, socket |-> NoSocket]
  IN connectWebsocket([w EXCEPT !.task = [@ EXCEPT ![t] = call]], t, key)

(* connectWebsocket returns: its handlers are put on the current socket,     *)
(* whichever that is by now.  The loop of reconnectWebsocket ends if that    *)
(* one is open.                                                              *)
connected(w, t) ==
  LET call == w.task[t]
      retries == call.kind = "reconnect" /\ w.socket[w.current].state # "open"
      again == [kind |-> call.kind, pc |-> "delay", attempt |-> call.attempt, socket |-> NoSocket]
  IN [socket |-> [w.socket EXCEPT ![w.current].onopen = Nobody, ![w.current].onclose = "live",
                                  ![w.current].onerror = "live"],
      current |-> w.current,
      task |-> [w.task EXCEPT ![t] = IF retries THEN again ELSE NoTask],
      strays |-> w.strays]

(* Socket s is closed: the task whose handler it has goes on, and one whose  *)
(* handler another task took over waits for ever (a timeout does nothing any *)
(* more).                                                                    *)
ended(w, s) ==
  [socket |-> [w.socket EXCEPT ![s].state = "closed", ![s].onopen = Nobody],
   current |-> w.current,
   task |-> [t \in Tasks |->
              IF w.task[t].socket # s THEN w.task[t]
              ELSE IF w.socket[s].onclose = t THEN [w.task[t] EXCEPT !.pc = "idle", !.socket = NoSocket]
              ELSE NoTask],
   strays |-> w.strays \ {s}]

(* What the close event of socket s of world w starts, in the world v that   *)
(* has come of it.                                                           *)
handleClose(w, s, v, t) ==
  LET handler == w.socket[s].onclose
      waited(pc) == handler \in Tasks /\ w.task[handler].socket = s /\ w.task[handler].pc = pc
  IN CASE handler = "live" -> begin(v, t, "reconnect", apiKey)
       [] waited("closing") -> newWebSocket(v, handler, apiKey)
       [] waited("waiting") -> connected(v, handler)
       [] OTHER -> v

closeEvent(w, s, t) == handleClose(w, s, ended(w, s), t)

(* The error event of socket s and the close event after it: onerror starts  *)
(* a loop, which finds the socket closed and makes a new one.  If a task     *)
(* waits for the close, it makes another one.                                *)
errorEvent(w, s, u, t) ==
  LET once == begin(ended(w, s), u, "reconnect", apiKey)
  IN IF w.socket[s].onclose = "live" THEN handleClose(w, s, once, t)
     ELSE handleClose(w, s, [once EXCEPT !.strays = @ \union {once.current}], t)

(* The task whose waitWebsocketFinalStatus the event of socket s settles.    *)
Waiter(handler, s) == {t \in Tasks : t = handler /\ task[t].socket = s /\ task[t].pc = "waiting"}

(* A place for the loop a live handler starts, nobody's for another one.     *)
Loop(handler, places) == IF handler = "live" THEN OneOf(places) ELSE {Nobody}

Open == websocket # NoSocket /\ socket[websocket].state = "open"
Listening == Open /\ socket[websocket].onclose = "live"

(* The calls that go on: after a delay, or when the event comes that their   *)
(* handler waits for.                                                        *)
Active ==
  {t \in Tasks : \/ task[t].pc = "delay"
                 \/ task[t].socket # NoSocket /\ socket[task[t].socket].onclose = t}

-----------------------------------------------------------------------------
SocketOpens(s) ==
  /\ socket[s].state = "connecting"
  /\ LET open == [World EXCEPT !.socket = [@ EXCEPT ![s].state = "open"]]
         waiter == Waiter(socket[s].onopen, s)
     IN Becomes(IF waiter = {} THEN open ELSE connected(open, CHOOSE t \in waiter : TRUE))
  /\ gaveUp' = IF Listening' THEN "no" ELSE gaveUp
  /\ UNCHANGED <<apiKey, wsFaults>>

(* The close that close() asked for, the end of the handshake of a           *)
(* connection that is refused (only reconnectWebsocket looks whether its     *)
(* socket is open), or of a connection that is lost.                         *)
SocketCloses(s) ==
  /\ socket[s].state = "closing" \/ (socket[s].state # "closed" /\ wsFaults < MaxFaults)
  /\ wsFaults' = IF socket[s].state = "closing" THEN wsFaults ELSE wsFaults + 1
  /\ \E t \in Loop(socket[s].onclose, Tasks \ Busy) : Becomes(closeEvent(World, s, t))
  /\ gaveUp' = IF Listening' THEN "no"
               ELSE IF \E t \in Waiter(socket[s].onclose, s) : task[t].kind # "reconnect" THEN "refused"
               ELSE gaveUp
  /\ UNCHANGED apiKey

(* A connection fails that has the handlers of connectWebsocket, open or not *)
(* any more: onclose may have been taken over since, onerror is not.  The    *)
(* second socket of errorEvent takes a place (bound).                        *)
SocketErrors(s) ==
  /\ socket[s].state # "closed" /\ socket[s].onerror = "live"
  /\ wsFaults < MaxFaults
  /\ wsFaults' = wsFaults + 1
  /\ socket[s].onclose = "live" \/ \E n \in Unused(World) : n # s
  /\ \E u \in FreeTask : \E t \in Loop(socket[s].onclose, Tasks \ (Busy \union {u})) :
       Becomes(errorEvent(World, s, u, t))
  /\ UNCHANGED <<apiKey, gaveUp>>

(* The timeout of waitWebsocketFinalStatus rejects, unless the socket is     *)
(* open or closed.                                                           *)
Overdue(t) ==
  /\ task[t].pc = "waiting"
  /\ socket[task[t].socket].state \in {"connecting", "closing"}
  /\ wsFaults < MaxFaults

(* The loop of reconnectWebsocket ends with it, and setApiKey.               *)
WaitTimesOut(t) ==
  /\ Overdue(t) /\ task[t].kind # "init"
  /\ wsFaults' = wsFaults + 1
  /\ task' = [task EXCEPT ![t] = NoTask]
  /\ gaveUp' = "lapsed"
  /\ UNCHANGED <<socket, websocket, apiKey, strays>>

(* Mutant: the loop ends without STALE.                                      *)
RetryDelaySilent(t) ==
  /\ task[t].pc = "delay"
  /\ IF task[t].attempt < MaxRetries
       THEN LET next == [World EXCEPT !.task = [task EXCEPT ![t].attempt = @ + 1]]
            IN Becomes(connectWebsocket(next, t, apiKey))
       ELSE task' = [task EXCEPT ![t] = NoTask] /\ UNCHANGED <<socket, websocket, strays>>
  /\ UNCHANGED <<apiKey, gaveUp, wsFaults>>

(* The delay of reconnectWebsocket: the next attempt, or STALE.              *)
RetryDelay(t) ==
  /\ task[t].pc = "delay"
  /\ \/ /\ task[t].attempt < MaxRetries
        /\ LET next == [World EXCEPT !.task = [task EXCEPT ![t].attempt = @ + 1]]
           IN Becomes(connectWebsocket(next, t, apiKey))
        /\ UNCHANGED gaveUp
     \/ /\ task[t].attempt = MaxRetries
        /\ task' = [task EXCEPT ![t] = NoTask]
        /\ gaveUp' = "told"
        /\ UNCHANGED <<socket, websocket, strays>>
  /\ UNCHANGED <<apiKey, wsFaults>>

(* setApiKey, the part about the socket: no automatic reconnect while it is  *)
(* replaced.                                                                 *)
RotateKey ==
  /\ apiKey < MaxKeys
  /\ apiKey' = apiKey + 1
  /\ \/ websocket = NoSocket /\ UNCHANGED <<socket, websocket, task, strays>>
     \/ /\ websocket # NoSocket
        /\ \E t \in FreeTask :
             LET silent == [World EXCEPT !.socket = [@ EXCEPT ![websocket].onclose = Nobody]]
             IN Becomes(begin(silent, t, "apikey", apiKey'))
  /\ gaveUp' = "no"
  /\ UNCHANGED wsFaults

-----------------------------------------------------------------------------
(* Whichever calls of connectWebsocket meet (the loop of a lost socket, the  *)
(* two loops of an error, a rotated key, initialize()'s own), there is at    *)
(* most one socket that is not closed, and it is _websocket (:109-116, :131).*)
(* The exception is the one the handlers make: onerror stays when onclose is *)
(* taken over (:149-152, :113, :442), so that after an error of a socket     *)
(* that is being replaced two calls make a socket each.  The first one is    *)
(* cut off, but no message it receives is looked at and its end starts       *)
(* nothing new.                                                              *)
OneSocket ==
  /\ \A s \in Sockets : socket[s].state # "closed" => s = websocket \/ s \in strays
  /\ \A s \in strays : socket[s].onclose # "live" /\ socket[s].onerror = Nobody

(* A socket that is or will be open, and was not cut off, was opened with    *)
(* the key in force: a key that was rotated away is not used for longer than *)
(* its socket takes to close (:124-131, :427-444).                           *)
KeyInForce ==
  \A s \in Sockets \ strays : socket[s].state \in {"connecting", "open"} => socket[s].key = apiKey
=============================================================================
