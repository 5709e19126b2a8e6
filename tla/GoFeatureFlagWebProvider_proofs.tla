------------------- MODULE GoFeatureFlagWebProvider_proofs -------------------
(* The theorems about the GO Feature Flag provider for browsers, for any     *)
(* number of sockets, calls, retries, rotations of the key and faults, and   *)
(* about its data collector.                                                 *)
EXTENDS GoFeatureFlagWebProvider, CollectorManager, FiniteSetTheorems, SequenceTheorems, TLAPS

-----------------------------------------------------------------------------
(* Worlds: the sockets, the current one, the tasks and the sockets cut off   *)

SocketType == [state: {"connecting", "open", "closing", "closed"}, key: 0 .. MaxKeys,
               onopen: Tasks \union {Nobody}, onclose: Tasks \union {Nobody, "live"}, onerror: {Nobody, "live"}]
TaskType == [kind: {"none", "init", "reconnect", "apikey"}, pc: {"idle", "closing", "waiting", "delay"},
             attempt: 0 .. MaxRetries, socket: Sockets \union {NoSocket}]
WorldType == [socket: [Sockets -> SocketType], current: Sockets \union {NoSocket},
              task: [Tasks -> TaskType], strays: SUBSET Sockets]

(* A socket that is not closed is the current one or was cut off, and then   *)
(* only the task that made it hears of it.                                   *)
SocketOK(w, s) ==
  /\ w.socket[s].state # "closed" => s = w.current \/ s \in w.strays
  /\ s \in w.strays => w.socket[s].state # "closed" /\ w.socket[s].onclose # "live" /\ w.socket[s].onerror = Nobody

(* A task waits for the end of the current socket, or for one that opens.    *)
TaskOK(w, t) ==
  /\ w.task[t].pc = "closing" =>
       w.task[t].socket = w.current /\ w.current \in Sockets /\ w.socket[w.current].state = "closing"
  /\ w.task[t].pc = "waiting" =>
       /\ w.task[t].socket \in Sockets /\ w.socket[w.task[t].socket].state # "closed"
       /\ w.task[t].socket \in w.strays =>
            w.task[t].kind = "reconnect" /\ w.socket[w.task[t].socket].onclose = t
  /\ w.task[t].pc \notin {"closing", "waiting"} => w.task[t].socket = NoSocket

Shaped(w) ==
  /\ w \in WorldType
  /\ \A s \in Sockets : SocketOK(w, s)
  /\ \A t \in Tasks : TaskOK(w, t)
  /\ w.current = NoSocket => w.strays = {}

(* The current socket was not cut off, and whoever took over the close       *)
(* handler of one that reports errors waits for its close.                   *)
Apart(w) ==
  /\ w.current \notin w.strays
  /\ w.current \in Sockets /\ w.socket[w.current].state # "closed" /\ w.socket[w.current].onerror = "live" =>
       \/ w.socket[w.current].onclose = "live"
       \/ w.socket[w.current].onclose \in Tasks /\ w.task[w.socket[w.current].onclose].pc = "closing"

KeyIn(w, key) ==
  \A s \in Sockets : s \notin w.strays /\ w.socket[s].state \in {"connecting", "open"} => w.socket[s].key = key

(* Task t goes on, after a delay or when its handler is called.              *)
GoesOn(w, t) ==
  w.task[t].pc = "delay" \/ (w.task[t].socket # NoSocket /\ w.socket[w.task[t].socket].onclose = t)

(* The close event of the current socket is awaited by the call that put its *)
(* handler there, or reconnects; one that is not open is being replaced.     *)
Lit(w) ==
  /\ w.current \in Sockets
  /\ w.socket[w.current].state \in {"connecting", "closed"} => \E t \in Tasks : GoesOn(w, t)
  /\ w.socket[w.current].state # "closed" =>
       \/ w.socket[w.current].onclose = "live"
       \/ \E t \in Tasks : t = w.socket[w.current].onclose /\ w.task[t].socket = w.current

(* initialize()'s task of connectWebsocket waits for its socket from the     *)
(* start, nothing being there to be closed first, and no handler that stays  *)
(* has been put on a socket yet.                                             *)
InitWaits(w, t) ==
  /\ w.task[t].pc = "waiting" /\ w.task[t].socket = w.current /\ w.current \in Sockets
  /\ w.socket[w.current].onopen = t /\ w.socket[w.current].onerror = Nobody /\ w.strays = {}
InitsWait(w) == \A t \in Tasks : w.task[t].kind = "init" => InitWaits(w, t)

(* The tasks of initialize() in w wait and are among those in v.             *)
InitsOf(w, v) == InitsWait(w) /\ \A t \in Tasks : w.task[t].kind = "init" => v.task[t].kind = "init"
NoInits(w) == \A t \in Tasks : w.task[t].kind # "init"

(* One that is left when initialize() is done has its socket closed by       *)
(* another task.                                                             *)
Stranded(w) ==
  \A t \in Tasks : w.task[t].kind = "init" =>
    w.current \in Sockets /\ w.socket[w.current].state = "closing" /\ w.socket[w.current].onclose # t

LEMMA NoTaskTyped == NoTask \in TaskType /\ Blank \in SocketType
BY WsBounds DEF NoTask, TaskType, Blank, SocketType

LEMMA ShapedType ==
  ASSUME NEW w, Shaped(w)
  PROVE  /\ w \in WorldType
         /\ w = [socket |-> w.socket, current |-> w.current, task |-> w.task, strays |-> w.strays]
         /\ w.socket \in [Sockets -> SocketType] /\ w.task \in [Tasks -> TaskType]
         /\ w.current \in Sockets \union {NoSocket} /\ w.strays \subseteq Sockets
         /\ \A s \in Sockets : SocketOK(w, s)
         /\ \A t \in Tasks : TaskOK(w, t)
BY DEF Shaped, WorldType

(* What tells a world from another.                                          *)
LEMMA WorldOf ==
  ASSUME NEW f \in [Sockets -> SocketType], NEW c \in Sockets \union {NoSocket},
         NEW g \in [Tasks -> TaskType], NEW x \in SUBSET Sockets
  PROVE  [socket |-> f, current |-> c, task |-> g, strays |-> x] \in WorldType
BY DEF WorldType

(* A new socket is made where one is closed, when nobody waits for the       *)
(* current one to close.                                                     *)
LEMMA NewSocketFacts ==
  ASSUME NEW w, Shaped(w), NEW t \in Tasks, NEW key \in 0 .. MaxKeys, Unused(w) # {},
         w.task[t].pc \notin {"closing", "waiting"},
         w.current \in Sockets => \/ w.socket[w.current].state = "closed"
                                  \/ w.socket[w.current].state = "connecting" /\ w.current \in w.strays
  PROVE  LET r == newWebSocket(w, t, key)
         IN /\ Shaped(r) /\ Apart(r) /\ KeyIn(r, key) /\ Lit(r)
            /\ r.current \in Unused(w) /\ r.socket[r.current].state = "connecting"
            /\ r.socket[r.current].onopen = t /\ r.socket[r.current].onclose = t
            /\ r.socket[r.current].onerror = Nobody
            /\ \A n \in Sockets : n # r.current => r.socket[n].state = w.socket[n].state
            /\ r.strays = w.strays
            /\ r.task[t].pc = "waiting" /\ r.task[t].kind = w.task[t].kind /\ r.task[t].socket = r.current
            /\ \A u \in Tasks \ {t} : r.task[u] = w.task[u]
            /\ \A u \in Tasks \ {t} : r.task[u].socket # r.current
<1> DEFINE s == CHOOSE n \in Unused(w) : TRUE
           new == [state |-> "connecting", key |-> key, onopen |-> t, onclose |-> t, onerror |-> Nobody]
           r == newWebSocket(w, t, key)
           f == [n \in Sockets |-> IF n = s THEN new ELSE IF w.socket[n].state = "closed" THEN Blank ELSE w.socket[n]]
           g == [w.task EXCEPT ![t].pc = "waiting", ![t].socket = s]
<1>1. s \in Unused(w)
  OBVIOUS
<1>2. s \in Sockets /\ w.socket[s].state = "closed"
  BY <1>1 DEF Unused
<1>3. /\ r.socket = [n \in Sockets |->
           IF n = s THEN new ELSE IF w.socket[n].state = "closed" THEN Blank ELSE w.socket[n]]
      /\ r.current = s
      /\ r.task = [w.task EXCEPT ![t].pc = "waiting", ![t].socket = s]
      /\ r.strays = w.strays
      /\ r = [socket |-> r.socket, current |-> r.current, task |-> r.task, strays |-> r.strays]
  <2>1. r = [socket |-> f, current |-> s, task |-> g, strays |-> w.strays]
    BY DEF newWebSocket
  <2> HIDE DEF r, s, f, g
  <2>2. r = [socket |-> f, current |-> s, task |-> g, strays |-> w.strays]
    BY <2>1
  <2>3. r.socket = f /\ r.current = s /\ r.task = g /\ r.strays = w.strays
    BY <2>2
  <2> QED BY <2>2, <2>3 DEF f, g
<1>4. /\ w.task \in [Tasks -> TaskType] /\ w.socket \in [Sockets -> SocketType] /\ w.strays \subseteq Sockets
  BY ShapedType
<1>5. /\ new \in SocketType /\ new.state = "connecting" /\ new.key = key
      /\ new.onopen = t /\ new.onclose = t /\ new.onerror = Nobody
  BY DEF SocketType
<1> HIDE DEF s, r, new, f, g
<1>6. /\ r.task[t].pc = "waiting" /\ r.task[t].socket = s /\ r.task[t].kind = w.task[t].kind
      /\ r.task \in [Tasks -> TaskType]
      /\ \A u \in Tasks \ {t} : r.task[u] = w.task[u]
  BY <1>2, <1>3, <1>4 DEF TaskType
<1>7. /\ r.socket \in [Sockets -> SocketType]
      /\ r.socket[s] = new
      /\ \A n \in Sockets : n # s => \/ r.socket[n] = w.socket[n]
                                     \/ r.socket[n] = Blank /\ w.socket[n].state = "closed"
  BY <1>2, <1>3, <1>4, <1>5, NoTaskTyped
<1>8. \A n \in Sockets : n # s => /\ r.socket[n].state = w.socket[n].state
                                  /\ w.socket[n].state # "closed" => r.socket[n] = w.socket[n]
  BY <1>7 DEF Blank
<1>9. r \in WorldType
  <2>1. r.strays \in SUBSET Sockets /\ r.current \in Sockets \union {NoSocket}
    BY <1>2, <1>3, <1>4
  <2> QED BY <1>3, <1>6, <1>7, <2>1, WorldOf
<1>10. s \notin w.strays /\ s # NoSocket
  BY <1>2, ShapedType, PlacesAreNot DEF SocketOK
<1>11. ASSUME NEW n \in Sockets PROVE SocketOK(r, n)
  <2>1. CASE n = s
    BY <1>3, <1>10, <2>1 DEF SocketOK
  <2>2. CASE n # s
    <3>1. SocketOK(w, n)
      BY ShapedType
    <3>2. n = w.current => w.socket[n].state = "closed" \/ n \in w.strays
      OBVIOUS
    <3> QED BY <1>3, <1>8, <2>2, <3>1, <3>2 DEF SocketOK
  <2> QED BY <2>1, <2>2
<1>12. \A u \in Tasks : w.task[u].pc # "closing"
  BY ShapedType DEF TaskOK
<1>13. ASSUME NEW u \in Tasks PROVE TaskOK(r, u)
  <2>1. CASE u = t
    BY <1>2, <1>3, <1>5, <1>6, <1>7, <1>10, <2>1 DEF TaskOK
  <2>2. CASE u # t
    <3>1. TaskOK(w, u) /\ r.task[u] = w.task[u] /\ w.task[u].pc # "closing"
      BY <1>6, <1>12, <2>2, ShapedType
    <3>2. CASE w.task[u].pc = "waiting"
      <4>1. w.task[u].socket \in Sockets /\ w.socket[w.task[u].socket].state # "closed"
        BY <3>1, <3>2 DEF TaskOK
      <4>2. w.task[u].socket # s /\ r.socket[w.task[u].socket] = w.socket[w.task[u].socket]
        BY <1>2, <1>8, <4>1
      <4> QED BY <1>3, <3>1, <3>2, <4>1, <4>2 DEF TaskOK
    <3>3. CASE w.task[u].pc # "waiting"
      BY <3>1, <3>3 DEF TaskOK
    <3> QED BY <3>2, <3>3
  <2> QED BY <2>1, <2>2
<1>14. Shaped(r)
  BY <1>3, <1>9, <1>10, <1>11, <1>13 DEF Shaped
<1>15. Apart(r)
  <2>1. r.current = s /\ r.socket[s].onerror = Nobody /\ s \notin r.strays /\ Nobody # "live"
    BY <1>3, <1>5, <1>7, <1>10 DEF Nobody
  <2> QED BY <2>1 DEF Apart
<1>16. KeyIn(r, key)
  <2>1. ASSUME NEW n \in Sockets, n \notin r.strays, r.socket[n].state \in {"connecting", "open"}
        PROVE  n = s
    BY <1>3, <1>11, <2>1 DEF SocketOK
  <2> QED BY <1>5, <1>7, <2>1 DEF KeyIn
<1>17. Lit(r)
  <2>1. r.current = s /\ s \in Sockets /\ r.socket[s].state = "connecting" /\ r.socket[s].onclose = t
    BY <1>2, <1>3, <1>5, <1>7
  <2>2. r.task[t].socket = s /\ GoesOn(r, t)
    BY <1>6, <1>10, <2>1 DEF GoesOn
  <2> QED BY <2>1, <2>2 DEF Lit
<1>18. ASSUME NEW u \in Tasks, u # t PROVE r.task[u].socket # s
  <2>1. TaskOK(w, u) /\ r.task[u] = w.task[u] /\ w.task[u].pc # "closing"
    BY <1>6, <1>12, <1>18, ShapedType
  <2> QED BY <1>2, <1>10, <2>1 DEF TaskOK
<1> QED BY <1>1, <1>3, <1>5, <1>6, <1>7, <1>8, <1>14, <1>15, <1>16, <1>17, <1>18 DEF r

-----------------------------------------------------------------------------
(* What the operations make of a world                                       *)

LEMMA SomeUnused ==
  ASSUME NEW w, Shaped(w), w.current \in Sockets => w.socket[w.current].state = "closed"
  PROVE  Unused(w) # {}
<1>1. CASE w.current \in Sockets
  BY <1>1 DEF Unused
<1>2. CASE w.current \notin Sockets
  <2>1. w.current = NoSocket /\ w.strays = {}
    BY <1>2, ShapedType DEF Shaped
  <2>2. \A s \in Sockets : w.socket[s].state = "closed"
    BY <1>2, <2>1, ShapedType DEF SocketOK
  <2> QED BY <2>2, SomePlace DEF Unused
<1> QED BY <1>1, <1>2

(* connectWebsocket either waits for the current socket, which it closes, or *)
(* replaces it: whatever the keys of the sockets were, only its own is used. *)
LEMMA ConnectFacts ==
  ASSUME NEW w, Shaped(w), w.current \notin w.strays, InitsWait(w), NEW t \in Tasks,
         w.task[t].pc \notin {"closing", "waiting"}, w.task[t].kind # "init", NEW key \in 0 .. MaxKeys
  PROVE  LET r == connectWebsocket(w, t, key)
         IN /\ Shaped(r) /\ Apart(r) /\ KeyIn(r, key) /\ Lit(r) /\ InitsOf(r, w) /\ Stranded(r)
            /\ \A u \in Tasks \ {t} : r.task[u] = w.task[u]
<1> DEFINE r == connectWebsocket(w, t, key)
<1>1. /\ w.task \in [Tasks -> TaskType] /\ w.socket \in [Sockets -> SocketType]
      /\ w.strays \subseteq Sockets
  BY ShapedType
<1>2. CASE w.current # NoSocket /\ w.socket[w.current].state # "closed"
  <2> DEFINE c == w.current
             f == [w.socket EXCEPT ![c].state = "closing", ![c].onclose = t]
             g == [w.task EXCEPT ![t].pc = "closing", ![t].socket = c]
  <2>1. c \in Sockets
    BY <1>2, ShapedType
  <2>2. /\ r.socket = [w.socket EXCEPT ![c].state = "closing", ![c].onclose = t]
        /\ r.current = c
        /\ r.task = [w.task EXCEPT ![t].pc = "closing", ![t].socket = c]
        /\ r.strays = w.strays
        /\ r = [socket |-> r.socket, current |-> r.current, task |-> r.task, strays |-> r.strays]
    <3>1. r = [socket |-> f, current |-> w.current, task |-> g, strays |-> w.strays]
      BY <1>2 DEF connectWebsocket
    <3> HIDE DEF r, f, g
    <3>2. r = [socket |-> f, current |-> w.current, task |-> g, strays |-> w.strays]
      BY <3>1
    <3>3. r.socket = f /\ r.current = c /\ r.task = g /\ r.strays = w.strays
      BY <3>2
    <3> QED BY <3>2, <3>3 DEF f, g
  <2>3. c \notin w.strays
    OBVIOUS
  <2>4. w.current = c /\ w.socket[c].state # "closed"
    BY <1>2
  <2> HIDE DEF r, c, f, g
  <2>5. /\ r.task[t].pc = "closing" /\ r.task[t].socket = c /\ r.task[t].kind = w.task[t].kind
        /\ r.task \in [Tasks -> TaskType]
        /\ \A u \in Tasks \ {t} : r.task[u] = w.task[u]
    BY <1>1, <2>1, <2>2 DEF TaskType
  <2>6. /\ r.socket \in [Sockets -> SocketType]
        /\ r.socket[c].state = "closing" /\ r.socket[c].onclose = t
        /\ r.socket[c].onopen = w.socket[c].onopen /\ r.socket[c].onerror = w.socket[c].onerror
        /\ \A n \in Sockets : n # c => r.socket[n] = w.socket[n]
    <3> DEFINE old == w.socket[c]
               new == [state |-> "closing", key |-> old.key, onopen |-> old.onopen, onclose |-> t,
                       onerror |-> old.onerror]
    <3>1. old \in SocketType /\ new \in SocketType
      BY <1>1, <2>1 DEF SocketType
    <3>2. r.socket = [w.socket EXCEPT ![c] = new]
      BY <1>1, <2>1, <2>2 DEF SocketType
    <3>3. new.state = "closing" /\ new.onopen = old.onopen /\ new.onclose = t /\ new.onerror = old.onerror
      OBVIOUS
    <3> HIDE DEF new
    <3> QED BY <1>1, <2>1, <3>1, <3>2, <3>3
  <2>7. r \in WorldType
    <3>1. r.strays \in SUBSET Sockets /\ r.current \in Sockets \union {NoSocket}
      BY <1>1, <2>1, <2>2
    <3> QED BY <2>2, <2>5, <2>6, <3>1, WorldOf
  <2>8. ASSUME NEW n \in Sockets PROVE SocketOK(r, n)
    <3>1. SocketOK(w, n)
      BY ShapedType
    <3> QED BY <2>2, <2>3, <2>4, <2>6, <3>1 DEF SocketOK
  <2>9. ASSUME NEW u \in Tasks PROVE TaskOK(r, u)
    <3>1. CASE u = t
      BY <2>1, <2>2, <2>5, <2>6, <3>1 DEF TaskOK
    <3>2. CASE u # t
      <4>1. TaskOK(w, u) /\ r.task[u] = w.task[u]
        BY <2>5, <3>2, ShapedType
      <4>2. CASE w.task[u].pc = "waiting"
        <5>1. /\ w.task[u].socket \in Sockets /\ w.socket[w.task[u].socket].state # "closed"
              /\ w.task[u].socket \in w.strays =>
                   w.task[u].kind = "reconnect" /\ w.socket[w.task[u].socket].onclose = u
          BY <4>1, <4>2 DEF TaskOK
        <5>2. /\ r.socket[w.task[u].socket].state # "closed"
              /\ w.task[u].socket # c => r.socket[w.task[u].socket] = w.socket[w.task[u].socket]
          BY <2>6, <5>1
        <5> QED BY <2>2, <2>3, <4>1, <4>2, <5>1, <5>2 DEF TaskOK
      <4>3. CASE w.task[u].pc # "waiting"
        BY <2>1, <2>2, <2>4, <2>6, <4>1, <4>3 DEF TaskOK
      <4> QED BY <4>2, <4>3
    <3> QED BY <3>1, <3>2
  <2>10. Shaped(r)
    BY <2>1, <2>2, <2>7, <2>8, <2>9, PlacesAreNot DEF Shaped
  <2>11. Apart(r)
    BY <2>2, <2>3, <2>5, <2>6 DEF Apart
  <2>12. KeyIn(r, key)
    BY <2>2, <2>6, <2>8 DEF KeyIn, SocketOK
  <2>13. Lit(r)
    BY <2>1, <2>2, <2>5, <2>6 DEF Lit
  <2>14. InitsOf(r, w)
    BY <2>1, <2>2, <2>4, <2>5, <2>6 DEF InitsOf, InitsWait, InitWaits
  <2>15. Stranded(r)
    BY <2>1, <2>2, <2>5, <2>6 DEF Stranded
  <2> QED BY <2>5, <2>10, <2>11, <2>12, <2>13, <2>14, <2>15 DEF r
<1>3. CASE ~(w.current # NoSocket /\ w.socket[w.current].state # "closed")
  <2>1. r = newWebSocket(w, t, key)
    BY <1>3 DEF connectWebsocket
  <2> HIDE DEF r
  <2>2. w.current \in Sockets => w.socket[w.current].state = "closed"
    BY <1>3, PlacesAreNot
  <2>3. Unused(w) # {}
    BY <2>2, SomeUnused
  <2>4. /\ Shaped(r) /\ Apart(r) /\ KeyIn(r, key) /\ Lit(r)
        /\ r.task[t].kind = w.task[t].kind
        /\ \A u \in Tasks \ {t} : r.task[u] = w.task[u]
    BY <2>1, <2>2, <2>3, NewSocketFacts
  <2>5. \A u \in Tasks : w.task[u].kind # "init"
    BY <2>2, ShapedType DEF InitsWait, InitWaits, TaskOK
  <2>6. NoInits(r)
    BY <2>4, <2>5 DEF NoInits
  <2> QED BY <2>4, <2>6 DEF NoInits, InitsOf, InitsWait, Stranded, r
<1> QED BY <1>2, <1>3

(* The world with the task of a new call.                                    *)
called(w, t, kind) ==
  [w EXCEPT !.task = [@ EXCEPT ![t] = [kind |-> kind, pc |-> "idle", attempt |-> 1, socket |-> NoSocket]]]

LEMMA CallFacts ==
  ASSUME NEW w, Shaped(w), NEW t \in Tasks, w.task[t].pc = "idle",
         NEW kind \in {"init", "reconnect", "apikey"}
  PROVE  LET v == called(w, t, kind)
         IN /\ Shaped(v) /\ v.current = w.current /\ v.socket = w.socket /\ v.strays = w.strays
            /\ v.task[t].pc = "idle" /\ v.task[t].kind = kind
            /\ \A u \in Tasks \ {t} : v.task[u] = w.task[u]
            /\ Apart(w) => Apart(v)
            /\ \A key : begin(w, t, kind, key) = connectWebsocket(v, t, key)
<1> DEFINE call == [kind |-> kind, pc |-> "idle", attempt |-> 1, socket |-> NoSocket]
           v == called(w, t, kind)
           g == [w.task EXCEPT ![t] = call]
<1>0. \A key : begin(w, t, kind, key) = connectWebsocket(v, t, key)
  BY DEF begin, called
<1>1. call.kind = kind /\ call.pc = "idle" /\ call.socket = NoSocket
  OBVIOUS
<1>2. call \in TaskType
  BY WsBounds DEF TaskType
<1> HIDE DEF call
<1>3. /\ v.socket = w.socket /\ v.current = w.current /\ v.strays = w.strays
      /\ v.task = [w.task EXCEPT ![t] = call]
      /\ v = [socket |-> v.socket, current |-> v.current, task |-> v.task, strays |-> v.strays]
  <2>1. v = [w EXCEPT !.task = g]
    BY DEF called, call
  <2> HIDE DEF v, g
  <2>2. v = [socket |-> w.socket, current |-> w.current, task |-> g, strays |-> w.strays]
    BY <2>1, ShapedType DEF WorldType
  <2> QED BY <2>2 DEF g
<1> HIDE DEF v, g
<1>4. /\ v.task \in [Tasks -> TaskType]
      /\ v.task[t] = call
      /\ \A u \in Tasks \ {t} : v.task[u] = w.task[u]
  BY <1>2, <1>3, ShapedType
<1>5. v \in WorldType
  <2>1. /\ v.socket \in [Sockets -> SocketType] /\ v.current \in Sockets \union {NoSocket}
        /\ v.strays \in SUBSET Sockets
    BY <1>3, ShapedType
  <2> QED BY <1>3, <1>4, <2>1, WorldOf
<1>6. ASSUME NEW u \in Tasks PROVE TaskOK(v, u)
  <2>1. TaskOK(w, u)
    BY ShapedType
  <2> QED BY <1>1, <1>3, <1>4, <2>1 DEF TaskOK
<1>7. \A s \in Sockets : SocketOK(v, s)
  BY <1>3, ShapedType DEF SocketOK
<1>8. Shaped(v)
  BY <1>3, <1>5, <1>6, <1>7 DEF Shaped
<1>9. Apart(w) => Apart(v)
  BY <1>3, <1>4 DEF Apart
<1> QED BY <1>0, <1>1, <1>3, <1>4, <1>8, <1>9 DEF v

(* A new call of it, and one that finds no socket left.                      *)
LEMMA BeginFacts ==
  ASSUME NEW w, Shaped(w), w.current \notin w.strays, InitsWait(w), NEW t \in Tasks, w.task[t].pc = "idle",
         NEW key \in 0 .. MaxKeys, NEW kind \in {"reconnect", "apikey"}
  PROVE  LET r == begin(w, t, kind, key)
         IN /\ Shaped(r) /\ Apart(r) /\ KeyIn(r, key) /\ Lit(r) /\ InitsOf(r, w) /\ Stranded(r)
            /\ \A u \in Tasks \ {t} : r.task[u] = w.task[u]
<1> DEFINE v == called(w, t, kind)
           r == begin(w, t, kind, key)
<1>1. /\ Shaped(v) /\ v.current = w.current /\ v.socket = w.socket /\ v.strays = w.strays
      /\ v.task[t].pc = "idle" /\ v.task[t].kind = kind
      /\ \A u \in Tasks \ {t} : v.task[u] = w.task[u]
  BY CallFacts
<1>2. r = connectWebsocket(v, t, key)
  BY CallFacts
<1> HIDE DEF v, r
<1>3. InitsWait(v)
  BY <1>1 DEF InitsWait, InitWaits
<1>4. /\ Shaped(r) /\ Apart(r) /\ KeyIn(r, key) /\ Lit(r) /\ InitsOf(r, v) /\ Stranded(r)
      /\ \A u \in Tasks \ {t} : r.task[u] = v.task[u]
  BY <1>1, <1>2, <1>3, ConnectFacts
<1>5. InitsOf(r, w)
  BY <1>1, <1>4 DEF InitsOf
<1> QED BY <1>1, <1>4, <1>5 DEF r

LEMMA BeginNew ==
  ASSUME NEW w, Shaped(w), NEW t \in Tasks, w.task[t].pc = "idle", NEW key \in 0 .. MaxKeys,
         NEW kind \in {"init", "reconnect", "apikey"},
         w.current \in Sockets => w.socket[w.current].state = "closed"
  PROVE  LET r == begin(w, t, kind, key)
         IN /\ Shaped(r) /\ Apart(r) /\ KeyIn(r, key) /\ Lit(r)
            /\ r.current \in Unused(w) /\ r.socket[r.current].state = "connecting"
            /\ r.socket[r.current].onopen = t /\ r.socket[r.current].onclose = t
            /\ r.socket[r.current].onerror = Nobody
            /\ \A n \in Sockets : n # r.current => r.socket[n].state = w.socket[n].state
            /\ r.strays = w.strays
            /\ r.task[t].pc = "waiting" /\ r.task[t].kind = kind /\ r.task[t].socket = r.current
            /\ \A u \in Tasks \ {t} : r.task[u] = w.task[u]
            /\ \A u \in Tasks \ {t} : r.task[u].socket # r.current
<1> DEFINE v == called(w, t, kind)
           r == begin(w, t, kind, key)
<1>1. /\ Shaped(v) /\ v.current = w.current /\ v.socket = w.socket /\ v.strays = w.strays
      /\ v.task[t].pc = "idle" /\ v.task[t].kind = kind
      /\ \A u \in Tasks \ {t} : v.task[u] = w.task[u]
  BY CallFacts
<1>2. r = connectWebsocket(v, t, key)
  BY CallFacts
<1> HIDE DEF v, r
<1>3. v.current \in Sockets => v.socket[v.current].state = "closed"
  BY <1>1
<1>4. r = newWebSocket(v, t, key)
  BY <1>1, <1>2, <1>3, ShapedType DEF connectWebsocket
<1>5. Unused(v) # {} /\ Unused(v) = Unused(w)
  BY <1>1, <1>3, SomeUnused DEF Unused
<1> QED BY <1>1, <1>3, <1>4, <1>5, NewSocketFacts DEF r

(* A closed socket: everything that waits for it ends, but the call whose    *)
(* handler is still there, which waits no more.                              *)
LEMMA EndedFacts ==
  ASSUME NEW w, Shaped(w), NEW s \in Sockets, w.socket[s].state # "closed"
  PROVE  LET r == ended(w, s)
         IN /\ Shaped(r) /\ r.current = w.current /\ r.strays = w.strays \ {s}
            /\ r.socket[s].state = "closed"
            /\ \A n \in Sockets : n # s => r.socket[n] = w.socket[n]
            /\ \A t \in Tasks :
                 /\ w.task[t].socket # s => r.task[t] = w.task[t]
                 /\ w.task[t].socket = s /\ w.socket[s].onclose = t =>
                      r.task[t].pc = "idle" /\ r.task[t].kind = w.task[t].kind
                 /\ w.task[t].socket = s /\ w.socket[s].onclose # t => r.task[t] = NoTask
            /\ \A t \in Tasks : w.task[t].pc = "idle" => r.task[t] = w.task[t]
            /\ Apart(w) => Apart(r)
<1> DEFINE r == ended(w, s)
           over(t) == [w.task[t] EXCEPT !.pc = "idle", !.socket = NoSocket]
           f == [w.socket EXCEPT ![s].state = "closed", ![s].onopen = Nobody]
           g == [t \in Tasks |-> IF w.task[t].socket # s THEN w.task[t]
                                 ELSE IF w.socket[s].onclose = t THEN over(t) ELSE NoTask]
<1>1. /\ r.socket = [w.socket EXCEPT ![s].state = "closed", ![s].onopen = Nobody]
      /\ r.current = w.current
      /\ r.task = [t \in Tasks |-> IF w.task[t].socket # s THEN w.task[t]
                                   ELSE IF w.socket[s].onclose = t THEN over(t) ELSE NoTask]
      /\ r.strays = w.strays \ {s}
      /\ r = [socket |-> r.socket, current |-> r.current, task |-> r.task, strays |-> r.strays]
  <2> DEFINE x == w.strays \ {s}
  <2>1. r = [socket |-> f, current |-> w.current, task |-> g, strays |-> x]
    BY DEF ended
  <2> HIDE DEF r, f, g, x
  <2>2. r = [socket |-> f, current |-> w.current, task |-> g, strays |-> x]
    BY <2>1
  <2>3. r.socket = f /\ r.current = w.current /\ r.task = g /\ r.strays = x
    BY <2>2
  <2> QED BY <2>2, <2>3 DEF f, g, x
<1>2. \A t \in Tasks : /\ over(t) \in TaskType /\ over(t).pc = "idle" /\ over(t).socket = NoSocket
                       /\ over(t).kind = w.task[t].kind
  <2> TAKE t \in Tasks
  <2>1. w.task[t] \in TaskType
    BY ShapedType
  <2> DEFINE old == w.task[t]
             part == [old EXCEPT !.pc = "idle"]
  <2>2. over(t) = [part EXCEPT !.socket = NoSocket] /\ part = [old EXCEPT !.pc = "idle"]
    OBVIOUS
  <2>3. old \in TaskType
    BY <2>1
  <2> HIDE DEF over, old, part
  <2>4. part = [kind |-> old.kind, pc |-> "idle", attempt |-> old.attempt, socket |-> old.socket]
    BY <2>2, <2>3 DEF TaskType
  <2>5. over(t) = [kind |-> old.kind, pc |-> "idle", attempt |-> old.attempt, socket |-> NoSocket]
    BY <2>2, <2>4
  <2> QED BY <2>3, <2>5 DEF TaskType, old
<1> HIDE DEF r, over, f, g
<1>3. /\ r.socket \in [Sockets -> SocketType]
      /\ r.socket[s].state = "closed"
      /\ \A n \in Sockets : n # s => r.socket[n] = w.socket[n]
  BY <1>1, ShapedType DEF SocketType
<1>4. \A t \in Tasks :
        /\ w.task[t].socket # s => r.task[t] = w.task[t]
        /\ w.task[t].socket = s /\ w.socket[s].onclose = t => r.task[t] = over(t)
        /\ w.task[t].socket = s /\ w.socket[s].onclose # t => r.task[t] = NoTask
  BY <1>1
<1>5. r.task \in [Tasks -> TaskType]
  <2>1. \A t \in Tasks : w.task[t] \in TaskType
    BY ShapedType
  <2> QED BY <1>1, <1>2, <2>1, NoTaskTyped
<1>6. r \in WorldType
  <2>1. r.current \in Sockets \union {NoSocket} /\ r.strays \in SUBSET Sockets
    BY <1>1, ShapedType
  <2> QED BY <1>1, <1>3, <1>5, <2>1, WorldOf
<1>7. ASSUME NEW n \in Sockets PROVE SocketOK(r, n)
  <2>1. SocketOK(w, n)
    BY ShapedType
  <2> QED BY <1>1, <1>3, <2>1 DEF SocketOK
<1>8. ASSUME NEW t \in Tasks PROVE TaskOK(r, t)
  <2>1. TaskOK(w, t) /\ NoSocket # s
    BY ShapedType, PlacesAreNot
  <2>2. CASE w.task[t].socket # s
    <3>1. r.task[t] = w.task[t]
      BY <1>4, <2>2
    <3>2. CASE w.task[t].pc = "waiting"
      <4>1. w.task[t].socket \in Sockets /\ r.socket[w.task[t].socket] = w.socket[w.task[t].socket]
        BY <1>3, <2>1, <2>2, <3>2 DEF TaskOK
      <4> QED BY <1>1, <2>1, <3>1, <3>2, <4>1 DEF TaskOK
    <3>3. CASE w.task[t].pc # "waiting"
      BY <1>1, <1>3, <2>1, <2>2, <3>1, <3>3 DEF TaskOK
    <3> QED BY <3>2, <3>3
  <2>3. CASE w.task[t].socket = s
    <3>1. r.task[t].pc = "idle" /\ r.task[t].socket = NoSocket
      BY <1>2, <1>4, <2>3 DEF NoTask
    <3> QED BY <3>1 DEF TaskOK
  <2> QED BY <2>2, <2>3
<1>9. Shaped(r)
  BY <1>1, <1>6, <1>7, <1>8 DEF Shaped
<1>10. ASSUME NEW t \in Tasks, w.task[t].pc = "idle" PROVE r.task[t] = w.task[t]
  <2>1. w.task[t].socket = NoSocket
    BY <1>10, ShapedType DEF TaskOK
  <2> QED BY <1>4, <2>1, PlacesAreNot
<1>11. ASSUME Apart(w) PROVE Apart(r)
  <2>1. r.current \notin r.strays
    BY <1>1, <1>11 DEF Apart
  <2>2. ASSUME r.current \in Sockets, r.socket[r.current].state # "closed", r.socket[r.current].onerror = "live"
        PROVE  \/ r.socket[r.current].onclose = "live"
               \/ r.socket[r.current].onclose \in Tasks /\ r.task[r.socket[r.current].onclose].pc = "closing"
    <3> DEFINE h == w.socket[w.current].onclose
    <3>1. w.current # s /\ w.current \in Sockets /\ r.socket[r.current] = w.socket[w.current]
      BY <1>1, <1>3, <2>2
    <3>2. h = "live" \/ (h \in Tasks /\ w.task[h].pc = "closing")
      BY <1>1, <1>11, <2>2, <3>1 DEF Apart
    <3>3. h \in Tasks /\ w.task[h].pc = "closing" => r.task[h] = w.task[h]
      BY <1>4, <3>1, ShapedType DEF TaskOK
    <3> QED BY <3>1, <3>2, <3>3
  <2> QED BY <2>1, <2>2 DEF Apart
<1> QED BY <1>1, <1>2, <1>3, <1>4, <1>9, <1>10, <1>11 DEF r

(* connectWebsocket returns with its handlers on the current socket, open or *)
(* not: only reconnectWebsocket tries again.                                 *)
LEMMA ConnectedFacts ==
  ASSUME NEW w, Shaped(w), w.current \in Sockets, w.current \notin w.strays, NEW t \in Tasks,
         w.task[t].pc # "closing"
  PROVE  LET r == connected(w, t)
         IN /\ Shaped(r) /\ Apart(r) /\ r.current = w.current /\ r.strays = w.strays
            /\ \A s \in Sockets : r.socket[s].state = w.socket[s].state /\ r.socket[s].key = w.socket[s].key
            /\ r.task[t].kind # "init"
            /\ \A u \in Tasks \ {t} : r.task[u] = w.task[u]
            /\ w.socket[w.current].state = "open" \/ w.task[t].kind = "reconnect" => Lit(r)
<1> DEFINE r == connected(w, t)
           c == w.current
           again == [kind |-> w.task[t].kind, pc |-> "delay", attempt |-> w.task[t].attempt, socket |-> NoSocket]
           retries == w.task[t].kind = "reconnect" /\ w.socket[c].state # "open"
           f == [w.socket EXCEPT ![c].onopen = Nobody, ![c].onclose = "live", ![c].onerror = "live"]
           g == [w.task EXCEPT ![t] = IF retries THEN again ELSE NoTask]
<1>1. /\ r.socket = [w.socket EXCEPT ![c].onopen = Nobody, ![c].onclose = "live", ![c].onerror = "live"]
      /\ r.current = c /\ r.strays = w.strays
      /\ r.task = [w.task EXCEPT ![t] = IF retries THEN again ELSE NoTask]
      /\ r = [socket |-> r.socket, current |-> r.current, task |-> r.task, strays |-> r.strays]
  <2>1. r = [socket |-> f, current |-> c, task |-> g, strays |-> w.strays]
    BY DEF connected
  <2> HIDE DEF r, f, g
  <2>2. r = [socket |-> f, current |-> c, task |-> g, strays |-> w.strays]
    BY <2>1
  <2>3. r.socket = f /\ r.current = c /\ r.task = g /\ r.strays = w.strays
    BY <2>2
  <2> QED BY <2>2, <2>3 DEF f, g
<1>2. again \in TaskType /\ again.pc = "delay" /\ again.socket = NoSocket /\ again.kind = w.task[t].kind
  BY ShapedType DEF TaskType
<1>3. c \in Sockets /\ c \notin w.strays /\ c = w.current
  OBVIOUS
<1> HIDE DEF r, again, c, f, g
<1>4. /\ r.socket \in [Sockets -> SocketType]
      /\ \A s \in Sockets : r.socket[s].state = w.socket[s].state /\ r.socket[s].key = w.socket[s].key
      /\ \A s \in Sockets : s # c => r.socket[s] = w.socket[s]
      /\ r.socket[c].onclose = "live"
  BY <1>1, <1>3, ShapedType DEF SocketType
<1>5. /\ r.task[t] \in {again, NoTask} /\ (retries => r.task[t] = again)
      /\ r.task \in [Tasks -> TaskType]
      /\ \A u \in Tasks \ {t} : r.task[u] = w.task[u]
  BY <1>1, <1>2, ShapedType, NoTaskTyped
<1>6. /\ r.task[t].socket = NoSocket /\ r.task[t].pc \in {"delay", "idle"} /\ r.task[t].kind # "init"
      /\ retries => r.task[t].pc = "delay"
  BY <1>1, <1>2, <1>5, ShapedType DEF NoTask
<1>7. r \in WorldType
  <2>1. r.current \in Sockets \union {NoSocket} /\ r.strays \in SUBSET Sockets
    BY <1>1, <1>3, ShapedType
  <2>2. r.socket \in [Sockets -> SocketType] /\ r.task \in [Tasks -> TaskType]
    BY <1>4, <1>5
  <2>3. r = [socket |-> r.socket, current |-> r.current, task |-> r.task, strays |-> r.strays]
    BY <1>1
  <2> HIDE DEF retries
  <2> QED BY <2>1, <2>2, <2>3, WorldOf
<1>8. ASSUME NEW s \in Sockets PROVE SocketOK(r, s)
  <2>1. SocketOK(w, s)
    BY ShapedType
  <2> QED BY <1>1, <1>3, <1>4, <2>1 DEF SocketOK
<1>9. ASSUME NEW u \in Tasks PROVE TaskOK(r, u)
  <2>1. CASE u = t
    BY <1>6, <2>1 DEF TaskOK
  <2>2. CASE u # t
    <3>1. TaskOK(w, u) /\ r.task[u] = w.task[u]
      BY <1>5, <2>2, ShapedType
    <3>2. CASE w.task[u].pc = "waiting"
      <4>1. /\ w.task[u].socket \in Sockets /\ r.socket[w.task[u].socket].state # "closed"
            /\ w.task[u].socket \in w.strays =>
                 /\ r.socket[w.task[u].socket] = w.socket[w.task[u].socket]
                 /\ w.task[u].kind = "reconnect" /\ w.socket[w.task[u].socket].onclose = u
        BY <1>3, <1>4, <3>1, <3>2 DEF TaskOK
      <4> QED BY <1>1, <3>1, <3>2, <4>1 DEF TaskOK
    <3>3. CASE w.task[u].pc # "waiting"
      BY <1>1, <1>3, <1>4, <3>1, <3>3 DEF TaskOK
    <3> QED BY <3>2, <3>3
  <2> QED BY <2>1, <2>2
<1>10. Shaped(r)
  BY <1>1, <1>3, <1>7, <1>8, <1>9, PlacesAreNot DEF Shaped
<1>11. Apart(r)
  BY <1>1, <1>3, <1>4 DEF Apart
<1>12. ASSUME w.socket[c].state = "open" \/ w.task[t].kind = "reconnect" PROVE Lit(r)
  BY <1>1, <1>3, <1>4, <1>6, <1>12 DEF Lit, GoesOn
<1> QED BY <1>1, <1>4, <1>5, <1>6, <1>10, <1>11, <1>12 DEF r, c

LEMMA EndedInits ==
  ASSUME NEW w, Shaped(w), InitsWait(w), NEW s \in Sockets, w.socket[s].state # "closed",
         w.socket[s].onclose \notin Tasks \/ w.task[w.socket[s].onclose].kind # "init"
                                          \/ w.task[w.socket[s].onclose].socket # s,
         s = w.current \/ w.strays # {}
  PROVE  NoInits(ended(w, s)) /\ InitsWait(ended(w, s))
<1> DEFINE gone == ended(w, s)
<1>1. \A t \in Tasks :
        /\ w.task[t].socket # s => gone.task[t] = w.task[t]
        /\ w.task[t].socket = s /\ w.socket[s].onclose = t =>
             gone.task[t].pc = "idle" /\ gone.task[t].kind = w.task[t].kind
        /\ w.task[t].socket = s /\ w.socket[s].onclose # t => gone.task[t] = NoTask
  BY EndedFacts
<1> HIDE DEF gone
<1>2. ASSUME NEW t \in Tasks PROVE gone.task[t].kind # "init"
  <2>1. CASE w.task[t].kind = "init"
    <3>1. w.task[t].socket = s
      BY <2>1 DEF InitsWait, InitWaits
    <3> QED BY <1>1, <2>1, <3>1 DEF NoTask
  <2>2. CASE w.task[t].kind # "init"
    BY <1>1, <2>2 DEF NoTask
  <2> QED BY <2>1, <2>2
<1> QED BY <1>2 DEF NoInits, InitsWait, gone

(* What the close event of a socket leads to: the only call that ends        *)
(* without another is that of a caller that does not try again.              *)
LEMMA CloseEventFacts ==
  ASSUME NEW w, Shaped(w), Apart(w), InitsWait(w), w.current \in Sockets, NEW s \in Sockets,
         w.socket[s].state # "closed", NEW t,
         w.socket[s].onclose = "live" => t \in Tasks /\ w.task[t].pc = "idle", apiKey \in 0 .. MaxKeys
  PROVE  LET r == closeEvent(w, s, t)
             handler == w.socket[s].onclose
         IN /\ Shaped(r) /\ Apart(r) /\ r.current \in Sockets /\ NoInits(r)
            /\ KeyIn(w, apiKey) => KeyIn(r, apiKey)
            /\ Lit(w) => \/ Lit(r)
                         \/ handler \in Tasks /\ w.task[handler].socket = s /\ w.task[handler].pc = "waiting"
                              /\ w.task[handler].kind # "reconnect"
<1> DEFINE handler == w.socket[s].onclose
           gone == ended(w, s)
           r == closeEvent(w, s, t)
           waited(pc) == handler \in Tasks /\ w.task[handler].socket = s /\ w.task[handler].pc = pc
<1>1. r = CASE handler = "live" -> begin(gone, t, "reconnect", apiKey)
            [] waited("closing") -> newWebSocket(gone, handler, apiKey)
            [] waited("waiting") -> connected(gone, handler)
            [] OTHER -> gone
  BY DEF closeEvent, handleClose
<1>2. /\ Shaped(gone) /\ Apart(gone) /\ gone.current = w.current /\ gone.strays = w.strays \ {s}
      /\ gone.socket[s].state = "closed"
      /\ \A n \in Sockets : n # s => gone.socket[n] = w.socket[n]
      /\ \A u \in Tasks : w.task[u].pc = "idle" => gone.task[u] = w.task[u]
  BY EndedFacts
<1>3. \A u \in Tasks :
        /\ w.task[u].socket # s => gone.task[u] = w.task[u]
        /\ w.task[u].socket = s /\ handler = u => gone.task[u].pc = "idle" /\ gone.task[u].kind = w.task[u].kind
        /\ w.task[u].socket = s /\ handler # u => gone.task[u] = NoTask
  BY EndedFacts
<1>4. /\ s = w.current \/ s \in w.strays
      /\ s \in w.strays => handler # "live" /\ s # w.current
  BY ShapedType DEF SocketOK, Apart
<1>5. s = w.current \/ w.strays # {}
  BY <1>4
<1>6. ASSUME handler \notin Tasks \/ w.task[handler].kind # "init" \/ w.task[handler].socket # s
      PROVE  NoInits(gone) /\ InitsWait(gone)
  BY <1>5, <1>6, EndedInits
<1>7. ASSUME KeyIn(w, apiKey) PROVE KeyIn(gone, apiKey)
  BY <1>2, <1>7 DEF KeyIn
<1>8. gone.current \notin gone.strays
  BY <1>2 DEF Apart
<1> HIDE DEF r, gone, handler
<1>9. CASE handler = "live"
  <2>1. r = begin(gone, t, "reconnect", apiKey)
    BY <1>1, <1>9, PlacesAreNot
  <2>2. handler \notin Tasks /\ t \in Tasks /\ w.task[t].pc = "idle"
    BY <1>9, PlacesAreNot DEF handler
  <2>3. NoInits(gone) /\ InitsWait(gone) /\ gone.task[t].pc = "idle"
    BY <1>2, <1>6, <2>2
  <2>4. /\ Shaped(r) /\ Apart(r) /\ KeyIn(r, apiKey) /\ Lit(r) /\ InitsOf(r, gone)
    BY <1>2, <1>8, <2>1, <2>2, <2>3, BeginFacts
  <2>5. NoInits(r)
    BY <2>3, <2>4 DEF InitsOf, NoInits
  <2> QED BY <2>4, <2>5 DEF Lit, r
<1>10. CASE handler # "live" /\ waited("closing")
  <2>1. r = newWebSocket(gone, handler, apiKey)
    BY <1>1, <1>10
  <2>2. s = w.current
    BY <1>10, ShapedType DEF TaskOK
  <2>3. w.task[handler].kind # "init"
    BY <1>10 DEF InitsWait, InitWaits
  <2>4. NoInits(gone)
    BY <1>6, <2>3
  <2>5. gone.current \in Sockets => gone.socket[gone.current].state = "closed"
    BY <1>2, <2>2
  <2>6. Unused(gone) # {}
    BY <1>2, <2>5, SomeUnused
  <2>7. gone.task[handler].pc = "idle"
    BY <1>3, <1>10
  <2>8. /\ Shaped(r) /\ Apart(r) /\ KeyIn(r, apiKey) /\ Lit(r)
        /\ r.task[handler].kind = gone.task[handler].kind
        /\ \A u \in Tasks \ {handler} : r.task[u] = gone.task[u]
    BY <1>2, <1>10, <2>1, <2>5, <2>6, <2>7, NewSocketFacts
  <2>9. NoInits(r)
    BY <1>10, <2>4, <2>8 DEF NoInits
  <2> QED BY <2>8, <2>9 DEF Lit, r
<1>11. CASE handler # "live" /\ waited("waiting")
  <2>1. r = connected(gone, handler)
    BY <1>1, <1>11
  <2>2. gone.task[handler].pc = "idle" /\ gone.task[handler].kind = w.task[handler].kind
    BY <1>3, <1>11
  <2>3. /\ Shaped(r) /\ Apart(r) /\ r.current = gone.current /\ r.strays = gone.strays
        /\ \A n \in Sockets : r.socket[n].state = gone.socket[n].state /\ r.socket[n].key = gone.socket[n].key
        /\ r.task[handler].kind # "init"
        /\ \A u \in Tasks \ {handler} : r.task[u] = gone.task[u]
        /\ gone.task[handler].kind = "reconnect" => Lit(r)
    BY <1>2, <1>8, <1>11, <2>1, <2>2, ConnectedFacts
  <2>4. ASSUME NEW u \in Tasks PROVE r.task[u].kind # "init"
    <3>1. CASE u = handler
      BY <2>3, <3>1
    <3>2. CASE u # handler
      <4>1. r.task[u] = gone.task[u]
        BY <2>3, <3>2
      <4>2. CASE w.task[u].socket = s
        BY <1>3, <3>2, <4>1, <4>2 DEF NoTask
      <4>3. CASE w.task[u].socket # s
        <5>1. r.task[u] = w.task[u]
          BY <1>3, <4>1, <4>3
        <5>2. w.task[u].kind = "init" => w.task[u].socket = w.current /\ w.strays = {}
          BY DEF InitsWait, InitWaits
        <5> QED BY <1>4, <4>3, <5>1, <5>2
      <4> QED BY <4>2, <4>3
    <3> QED BY <3>1, <3>2
  <2>5. ASSUME KeyIn(w, apiKey) PROVE KeyIn(r, apiKey)
    BY <1>7, <2>3, <2>5 DEF KeyIn
  <2> QED BY <1>2, <1>11, <2>2, <2>3, <2>4, <2>5 DEF NoInits, r, handler
<1>12. CASE handler # "live" /\ ~waited("closing") /\ ~waited("waiting")
  <2>1. r = gone
    BY <1>1, <1>12
  <2>2. handler \in Tasks => w.task[handler].socket # s
    BY <1>12, ShapedType, PlacesAreNot DEF TaskOK
  <2>3. NoInits(r)
    BY <1>6, <2>1, <2>2
  <2>4. ASSUME Lit(w) PROVE Lit(r)
    <3>1. s # w.current
      BY <1>12, <2>2, <2>4 DEF Lit, handler
    <3>2. \A u \in Tasks : GoesOn(w, u) => GoesOn(r, u)
      <4> TAKE u \in Tasks
      <4>1. CASE w.task[u].socket = s
        <5>1. handler # u /\ w.task[u].pc # "delay"
          BY <2>2, <4>1, ShapedType, PlacesAreNot DEF TaskOK
        <5> QED BY <4>1, <5>1 DEF GoesOn, handler
      <4>2. CASE w.task[u].socket # s
        <5>1. r.task[u] = w.task[u]
          BY <1>3, <2>1, <4>2
        <5>2. w.task[u].socket \in Sockets => r.socket[w.task[u].socket] = w.socket[w.task[u].socket]
          BY <1>2, <2>1, <4>2
        <5>3. w.task[u].socket \in Sockets \union {NoSocket}
          BY ShapedType DEF TaskType
        <5> QED BY <5>1, <5>2, <5>3 DEF GoesOn
      <4> QED BY <4>1, <4>2
    <3>3. r.current = w.current /\ r.socket[w.current] = w.socket[w.current]
      BY <1>2, <2>1, <3>1
    <3>4. \A u \in Tasks : w.task[u].socket = w.current => r.task[u] = w.task[u]
      BY <1>3, <2>1, <3>1
    <3> QED BY <2>4, <3>2, <3>3, <3>4 DEF Lit
  <2> QED BY <1>2, <1>7, <2>1, <2>3, <2>4 DEF r
<1> QED BY <1>9, <1>10, <1>11, <1>12

(* The error event of a socket that has the handlers of a connection: two    *)
(* calls make a new one each, and the one that is made first is closed or    *)
(* cut off by the other.                                                     *)
LEMMA ErrorEventFacts ==
  ASSUME NEW w, Shaped(w), Apart(w), InitsWait(w), NEW s \in Sockets,
         w.socket[s].state # "closed", w.socket[s].onerror = "live",
         NEW u \in Tasks, w.task[u].pc = "idle", NEW t,
         w.socket[s].onclose = "live" => t \in Tasks /\ w.task[t].pc = "idle" /\ t # u,
         w.socket[s].onclose = "live" \/ \E n \in Unused(w) : n # s,
         apiKey \in 0 .. MaxKeys
  PROVE  LET r == errorEvent(w, s, u, t)
         IN /\ Shaped(r) /\ Apart(r) /\ NoInits(r) /\ KeyIn(r, apiKey) /\ Lit(r)
            /\ s = w.current /\ NoInits(w)
            /\ w.socket[s].onclose = "live" \/ w.task[w.socket[s].onclose].pc = "closing"
<1> DEFINE handler == w.socket[s].onclose
           gone == ended(w, s)
           once == begin(gone, u, "reconnect", apiKey)
           marks == once.strays \union {once.current}
           marked == [once EXCEPT !.strays = marks]
           r == errorEvent(w, s, u, t)
<1>1. s = w.current /\ w.current \in Sockets /\ w.current \notin w.strays /\ Nobody # "live"
  BY ShapedType DEF SocketOK, Apart, Nobody
<1>2. /\ NoInits(w)
      /\ handler = "live" \/ (handler \in Tasks /\ w.task[handler].pc = "closing")
  BY <1>1 DEF InitsWait, InitWaits, NoInits, Apart
<1>3. \/ handler = "live" /\ r = begin(once, t, "reconnect", apiKey)
      \/ /\ handler # "live" /\ handler \in Tasks /\ w.task[handler].pc = "closing" /\ w.task[handler].socket = s
         /\ r = newWebSocket(marked, handler, apiKey)
  <2>1. handler # "live" => w.task[handler].socket = s
    BY <1>1, <1>2, ShapedType DEF TaskOK
  <2>2. r = IF handler = "live" THEN handleClose(w, s, once, t) ELSE handleClose(w, s, marked, t)
    BY DEF errorEvent
  <2> HIDE DEF r, once, marked, marks
  <2>3. CASE handler = "live"
    <3>1. handleClose(w, s, once, t) = begin(once, t, "reconnect", apiKey)
      BY <2>3, PlacesAreNot DEF handleClose
    <3> QED BY <2>2, <2>3, <3>1
  <2>4. CASE handler # "live"
    <3>1. handleClose(w, s, marked, t) = newWebSocket(marked, handler, apiKey)
      BY <1>2, <2>1, <2>4 DEF handleClose
    <3> QED BY <1>2, <2>1, <2>2, <2>4, <3>1
  <2> QED BY <2>3, <2>4
<1>4. /\ Shaped(gone) /\ gone.current = w.current /\ gone.strays = w.strays \ {s}
      /\ gone.socket[s].state = "closed"
      /\ \A n \in Sockets : n # s => gone.socket[n] = w.socket[n]
      /\ \A v \in Tasks : w.task[v].pc = "idle" => gone.task[v] = w.task[v]
      /\ \A v \in Tasks : w.task[v].socket = s /\ handler = v => gone.task[v].pc = "idle"
  BY EndedFacts
<1>5. NoInits(gone)
  <2>1. handler \notin Tasks \/ w.task[handler].kind # "init"
    BY <1>2 DEF NoInits
  <2> QED BY <1>1, <2>1, EndedInits
<1> HIDE DEF gone
<1>6. /\ Shaped(once) /\ Apart(once)
      /\ once.current \in Unused(gone) /\ once.socket[once.current].state = "connecting"
      /\ once.socket[once.current].onclose = u /\ once.socket[once.current].onerror = Nobody
      /\ \A n \in Sockets : n # once.current => once.socket[n].state = gone.socket[n].state
      /\ once.strays = gone.strays
      /\ once.task[u].pc = "waiting" /\ once.task[u].kind = "reconnect" /\ once.task[u].socket = once.current
      /\ \A v \in Tasks \ {u} : once.task[v] = gone.task[v]
      /\ \A v \in Tasks \ {u} : once.task[v].socket # once.current
  <2>1. gone.task[u].pc = "idle" /\ (gone.current \in Sockets => gone.socket[gone.current].state = "closed")
    BY <1>1, <1>4
  <2> QED BY <1>4, <2>1, BeginNew
<1> HIDE DEF once
<1>7. NoInits(once) /\ InitsWait(once)
  BY <1>5, <1>6 DEF NoInits, InitsWait
<1>8. CASE handler = "live" /\ r = begin(once, t, "reconnect", apiKey)
  <2>1. t \in Tasks /\ w.task[t].pc = "idle" /\ t # u /\ once.current \notin once.strays
    BY <1>6, <1>8 DEF Apart
  <2>2. once.task[t].pc = "idle"
    BY <1>4, <1>6, <2>1
  <2> HIDE DEF r
  <2>3. Shaped(r) /\ Apart(r) /\ KeyIn(r, apiKey) /\ Lit(r) /\ InitsOf(r, once)
    BY <1>6, <1>7, <1>8, <2>1, <2>2, BeginFacts
  <2>4. NoInits(r)
    BY <1>7, <2>3 DEF InitsOf, NoInits
  <2> QED BY <1>1, <1>2, <1>8, <2>3, <2>4 DEF r
<1>9. CASE /\ handler # "live" /\ handler \in Tasks /\ w.task[handler].pc = "closing" /\ w.task[handler].socket = s
           /\ r = newWebSocket(marked, handler, apiKey)
  <2>1. /\ marked.socket = once.socket /\ marked.current = once.current /\ marked.task = once.task
        /\ marked.strays = marks
        /\ marked = [socket |-> marked.socket, current |-> marked.current, task |-> marked.task,
                     strays |-> marked.strays]
    <3> HIDE DEF marks
    <3> QED BY <1>6, ShapedType DEF WorldType
  <2> HIDE DEF marked, r
  <2>2. once.current \in Sockets /\ gone.socket[once.current].state = "closed"
    BY <1>6 DEF Unused
  <2>3. marked \in WorldType
    <3>1. marked.strays \in SUBSET Sockets /\ once \in WorldType
      BY <1>6, <2>1, <2>2, ShapedType
    <3>2. /\ marked.socket \in [Sockets -> SocketType] /\ marked.task \in [Tasks -> TaskType]
          /\ marked.current \in Sockets \union {NoSocket}
      BY <1>6, <2>1, ShapedType
    <3> QED BY <2>1, <3>1, <3>2, WorldOf
  <2>4. ASSUME NEW n \in Sockets PROVE SocketOK(marked, n)
    <3>1. SocketOK(once, n)
      BY <1>6, ShapedType
    <3>2. n = once.current => /\ once.socket[n].state = "connecting" /\ once.socket[n].onclose # "live"
                              /\ once.socket[n].onerror = Nobody
      BY <1>6, PlacesAreNot
    <3> QED BY <2>1, <3>1, <3>2 DEF SocketOK
  <2>5. ASSUME NEW v \in Tasks PROVE TaskOK(marked, v)
    <3>1. TaskOK(once, v)
      BY <1>6, ShapedType
    <3>2. once.task[v].socket = once.current => v = u
      BY <1>6
    <3> QED BY <1>6, <2>1, <3>1, <3>2 DEF TaskOK
  <2>6. Shaped(marked)
    BY <2>1, <2>2, <2>3, <2>4, <2>5, PlacesAreNot DEF Shaped
  <2>7. Unused(marked) # {}
    <3>1. PICK n \in Unused(w) : n # s
      BY <1>9
    <3>2. n \in Sockets /\ gone.socket[n].state = "closed" /\ gone.socket[s].state = "closed"
      BY <1>4, <3>1 DEF Unused
    <3>3. CASE n # once.current
      BY <1>6, <2>1, <3>2, <3>3 DEF Unused
    <3>4. CASE n = once.current
      BY <1>6, <2>1, <3>1, <3>2, <3>4 DEF Unused
    <3> QED BY <3>3, <3>4
  <2>8. handler # u /\ marked.task[handler].pc = "idle"
    BY <1>4, <1>6, <1>9, <2>1
  <2>9. marked.current \in Sockets => marked.socket[marked.current].state = "connecting"
                                        /\ marked.current \in marked.strays
    BY <1>6, <2>1
  <2>10. /\ Shaped(r) /\ Apart(r) /\ KeyIn(r, apiKey) /\ Lit(r)
         /\ r.task[handler].kind = marked.task[handler].kind
         /\ \A v \in Tasks \ {handler} : r.task[v] = marked.task[v]
    BY <1>9, <2>6, <2>7, <2>8, <2>9, NewSocketFacts
  <2>11. NoInits(r)
    BY <1>7, <1>9, <2>1, <2>10 DEF NoInits
  <2> QED BY <1>1, <1>2, <1>9, <2>10, <2>11 DEF r
<1> QED BY <1>3, <1>8, <1>9

-----------------------------------------------------------------------------
(* The invariant about the websocket and initialize()                        *)

(* The loop that reconnects goes on, or its end is on record.                *)
SocketInv ==
  /\ Shaped(World) /\ Apart(World)
  /\ apiKey \in 0 .. MaxKeys
  /\ KeyIn(World, apiKey)
  /\ websocket \in Sockets => Lit(World) \/ gaveUp # "no"
  /\ gaveUp \in {"no", "told", "lapsed", "refused"}
  /\ wsFaults \in 0 .. MaxFaults

InitTypeOK ==
  /\ init \in {"idle", "pending", "done"}
  /\ waits \subseteq {"fetch", "connect"}
  /\ argument \in Contexts \union {"none"}
  /\ init = "pending" => argument \in Contexts

InitInv ==
  /\ InitTypeOK
  /\ init # "idle" <=> websocket \in Sockets
  /\ \A t \in Tasks : task[t].pc # "idle" => websocket \in Sockets
  /\ InitsWait(World)
  /\ init = "done" => Stranded(World)
  /\ \A t \in Tasks : task[t].kind = "init" => (init = "pending" => "connect" \in waits)
  /\ \A t, u \in Tasks : task[t].kind = "init" /\ task[u].kind = "init" => t = u

LEMMA BecomesFacts ==
  ASSUME NEW r, Shaped(r), Becomes(r)
  PROVE  World' = r /\ socket' = r.socket /\ websocket' = r.current /\ task' = r.task /\ strays' = r.strays
BY ShapedType DEF Becomes, World

LEMMA SocketInvBecomes ==
  ASSUME NEW r, Shaped(r), Apart(r), Becomes(r), apiKey' \in 0 .. MaxKeys, KeyIn(r, apiKey'),
         r.current \in Sockets => Lit(r) \/ gaveUp' # "no",
         gaveUp' \in {"no", "told", "lapsed", "refused"}, wsFaults' \in 0 .. MaxFaults
  PROVE  SocketInv'
BY BecomesFacts DEF SocketInv

(* While initialize() does not move on, and when it does.                    *)
LEMMA InitInvKept ==
  ASSUME InitInv, NEW r, Shaped(r), Becomes(r), InitsOf(r, World), UNCHANGED initVars,
         r.current \in Sockets, websocket \in Sockets, init = "done" => Stranded(r)
  PROVE  InitInv'
<1>1. World' = r /\ websocket' = r.current /\ task' = r.task
  BY BecomesFacts
<1>2. InitsWait(r) /\ \A t \in Tasks : r.task[t].kind = "init" => task[t].kind = "init"
  BY DEF InitsOf, World
<1>3. InitTypeOK'
  BY DEF InitInv, InitTypeOK, initVars
<1> QED BY <1>1, <1>2, <1>3 DEF InitInv, initVars

LEMMA InitInvNone ==
  ASSUME NEW r, Shaped(r), Becomes(r), r.current \in Sockets, NoInits(r), InitTypeOK', init' # "idle"
  PROVE  InitInv'
<1>1. World' = r /\ websocket' = r.current /\ task' = r.task
  BY BecomesFacts
<1>2. InitsWait(r) /\ Stranded(r)
  BY DEF InitsWait, Stranded, NoInits
<1> QED BY <1>1, <1>2 DEF InitInv, NoInits

LEMMA SocketsAlone ==
  ASSUME SocketInv, UNCHANGED <<socket, websocket, task, strays, apiKey, gaveUp>>, wsFaults' \in 0 .. MaxFaults
  PROVE  SocketInv'
<1>1. World' = World
  BY DEF World
<1> QED BY <1>1 DEF SocketInv

LEMMA InitAlone ==
  ASSUME InitInv, UNCHANGED <<socket, websocket, task, strays, initVars>>
  PROVE  InitInv'
<1>1. World' = World
  BY DEF World
<1>2. InitTypeOK'
  BY DEF InitInv, InitTypeOK, initVars
<1> QED BY <1>1, <1>2 DEF InitInv, initVars

(* What the invariant says about the world of the variables.                 *)
LEMMA WorldFacts ==
  ASSUME SocketInv, InitInv
  PROVE  /\ Shaped(World) /\ Apart(World) /\ InitsWait(World)
         /\ World.socket = socket /\ World.current = websocket /\ World.task = task /\ World.strays = strays
         /\ websocket \in Sockets \union {NoSocket} /\ strays \subseteq Sockets /\ websocket \notin strays
         /\ task \in [Tasks -> TaskType] /\ socket \in [Sockets -> SocketType]
         /\ apiKey \in 0 .. MaxKeys /\ KeyIn(World, apiKey) /\ wsFaults \in 0 .. MaxFaults
         /\ gaveUp \in {"no", "told", "lapsed", "refused"}
         /\ \A s \in Sockets : SocketOK(World, s)
         /\ \A s \in Sockets : socket[s].state # "closed" => websocket \in Sockets
         /\ \A t \in Tasks : TaskOK(World, t)
<1>1. Shaped(World) /\ World.socket = socket /\ World.current = websocket /\ World.task = task
      /\ World.strays = strays
  BY DEF SocketInv, World
<1>2. ASSUME NEW s \in Sockets, socket[s].state # "closed" PROVE websocket \in Sockets
  <2>1. s = websocket \/ s \in strays
    BY <1>1, <1>2, ShapedType DEF SocketOK
  <2>2. strays # {} => websocket # NoSocket
    BY <1>1 DEF Shaped
  <2> QED BY <1>1, <2>1, <2>2, ShapedType
<1>3. websocket \notin strays /\ Apart(World)
  BY <1>1 DEF SocketInv, Apart
<1> QED BY <1>1, <1>2, <1>3, ShapedType DEF SocketInv, InitInv

LEMMA OneOfFacts == \A S : \A x \in OneOf(S) : x \in S
BY DEF OneOf

LEMMA FreeTaskFacts == \A t \in FreeTask : t \in Tasks /\ task[t].pc = "idle"
BY OneOfFacts DEF FreeTask, Busy

LEMMA LoopFacts ==
  \A handler, S : \A t \in Loop(handler, S) : handler = "live" => t \in S
BY OneOfFacts DEF Loop

LEMMA HalfDoneFacts ==
  ASSUME InitTypeOK, init # "idle", NEW half, halfDone(half)
  PROVE  /\ InitTypeOK' /\ init' # "idle"
         /\ waits' = waits \ {half}
         /\ init' = "pending" => init = "pending"
         /\ init = "pending" /\ init' = "done" => waits = {half}
         /\ status' \in {status, "READY"}
BY DEF halfDone, InitTypeOK

-----------------------------------------------------------------------------
(* The steps of the websocket                                                *)

LEMMA OpenFacts ==
  ASSUME NEW w, Shaped(w), Apart(w), NEW s \in Sockets, w.socket[s].state = "connecting"
  PROVE  LET r == [w EXCEPT !.socket = [@ EXCEPT ![s].state = "open"]]
         IN /\ Shaped(r) /\ Apart(r) /\ r.current = w.current /\ r.task = w.task /\ r.strays = w.strays
            /\ r.socket[s].state = "open"
            /\ \A n \in Sockets : /\ n # s => r.socket[n] = w.socket[n]
                                  /\ r.socket[n].onopen = w.socket[n].onopen
                                  /\ r.socket[n].onclose = w.socket[n].onclose
                                  /\ r.socket[n].onerror = w.socket[n].onerror
                                  /\ r.socket[n].key = w.socket[n].key
            /\ \A key : KeyIn(w, key) => KeyIn(r, key)
            /\ Lit(w) => Lit(r)
            /\ InitsWait(w) => InitsWait(r)
<1> DEFINE f == [w.socket EXCEPT ![s].state = "open"]
           r == [w EXCEPT !.socket = f]
<1>1. /\ r.socket = [w.socket EXCEPT ![s].state = "open"] /\ r.current = w.current /\ r.task = w.task
      /\ r.strays = w.strays
      /\ r = [socket |-> r.socket, current |-> r.current, task |-> r.task, strays |-> r.strays]
  <2> HIDE DEF f
  <2>1. /\ r.socket = f /\ r.current = w.current /\ r.task = w.task /\ r.strays = w.strays
        /\ r = [socket |-> r.socket, current |-> r.current, task |-> r.task, strays |-> r.strays]
    BY ShapedType DEF WorldType
  <2> HIDE DEF r
  <2> QED BY <2>1 DEF f
<1>2. r = [w EXCEPT !.socket = [@ EXCEPT ![s].state = "open"]]
  OBVIOUS
<1> HIDE DEF r, f
<1>3. /\ r.socket \in [Sockets -> SocketType]
      /\ r.socket[s].state = "open" /\ r.socket[s].onclose = w.socket[s].onclose
      /\ r.socket[s].key = w.socket[s].key /\ r.socket[s].onerror = w.socket[s].onerror
      /\ r.socket[s].onopen = w.socket[s].onopen
      /\ \A n \in Sockets : n # s => r.socket[n] = w.socket[n]
  BY <1>1, ShapedType DEF SocketType
<1>4. r \in WorldType
  <2>1. r.task \in [Tasks -> TaskType] /\ r.current \in Sockets \union {NoSocket} /\ r.strays \in SUBSET Sockets
    BY <1>1, ShapedType
  <2> QED BY <1>1, <1>3, <2>1, WorldOf
<1>5. ASSUME NEW n \in Sockets PROVE SocketOK(r, n)
  <2>1. SocketOK(w, n)
    BY ShapedType
  <2> QED BY <1>1, <1>3, <2>1 DEF SocketOK
<1>6. ASSUME NEW t \in Tasks PROVE TaskOK(r, t)
  <2>1. TaskOK(w, t)
    BY ShapedType
  <2> QED BY <1>1, <1>3, <2>1 DEF TaskOK
<1>7. Shaped(r)
  BY <1>1, <1>4, <1>5, <1>6, ShapedType DEF Shaped
<1>8. Apart(r)
  BY <1>1, <1>3 DEF Apart
<1>9. \A n \in Sockets : r.socket[n].onclose = w.socket[n].onclose /\ r.socket[n].onerror = w.socket[n].onerror
                          /\ r.socket[n].key = w.socket[n].key /\ r.socket[n].onopen = w.socket[n].onopen
  BY <1>3
<1>10. \A key : KeyIn(w, key) => KeyIn(r, key)
  BY <1>1, <1>3, <1>9 DEF KeyIn
<1>11. Lit(w) => Lit(r)
  <2>1. \A t \in Tasks : GoesOn(w, t) => GoesOn(r, t)
    BY <1>1, <1>9, ShapedType DEF GoesOn, TaskType
  <2> QED BY <1>1, <1>3, <1>9, <2>1 DEF Lit
<1>12. InitsWait(w) => InitsWait(r)
  BY <1>1, <1>9 DEF InitsWait, InitWaits
<1> QED BY <1>1, <1>2, <1>3, <1>7, <1>8, <1>9, <1>10, <1>11, <1>12

LEMMA ListeningIsLit ==
  ASSUME NEW r, Shaped(r), Becomes(r), Listening'
  PROVE  Lit(r)
<1>1. socket' = r.socket /\ websocket' = r.current
  BY BecomesFacts
<1>2. r.current \in Sockets /\ r.socket[r.current].state = "open" /\ r.socket[r.current].onclose = "live"
  BY <1>1, ShapedType DEF Listening, Open
<1> QED BY <1>2 DEF Lit

LEMMA WebsocketOpensKeeps ==
  ASSUME SocketInv, InitInv, NEW s \in Sockets, WebsocketOpens(s)
  PROVE  SocketInv' /\ InitInv'
<1> DEFINE open == [World EXCEPT !.socket = [@ EXCEPT ![s].state = "open"]]
           waiter == Waiter(socket[s].onopen, s)
           settled == {task[t].kind : t \in waiter}
<1>1. /\ socket[s].state = "connecting"
      /\ Becomes(IF waiter = {} THEN open ELSE connected(open, CHOOSE t \in waiter : TRUE))
      /\ gaveUp' = IF Listening' THEN "no" ELSE gaveUp
      /\ UNCHANGED <<apiKey, wsFaults>>
      /\ IF "init" \in settled THEN halfDone("connect") ELSE UNCHANGED <<initVars, status>>
  BY DEF WebsocketOpens, SocketOpens, callerContinues
<1>2. /\ Shaped(World) /\ Apart(World) /\ InitsWait(World) /\ World.socket = socket /\ World.current = websocket
      /\ World.task = task /\ World.strays = strays /\ KeyIn(World, apiKey) /\ websocket \in Sockets
      /\ apiKey \in 0 .. MaxKeys /\ wsFaults \in 0 .. MaxFaults
      /\ gaveUp \in {"no", "told", "lapsed", "refused"}
  BY <1>1, WorldFacts
<1>3. /\ Shaped(open) /\ Apart(open) /\ open.current = websocket /\ open.task = task /\ open.strays = strays
      /\ open.socket[s].state = "open"
      /\ \A n \in Sockets : /\ n # s => open.socket[n] = socket[n]
                            /\ open.socket[n].onclose = socket[n].onclose
                            /\ open.socket[n].onerror = socket[n].onerror
      /\ KeyIn(open, apiKey) /\ (Lit(World) => Lit(open)) /\ InitsWait(open)
  BY <1>1, <1>2, OpenFacts
<1>4. InitTypeOK /\ init # "idle"
  BY <1>2 DEF InitInv
<1>5. gaveUp' \in {"no", "told", "lapsed", "refused"}
  BY <1>1, <1>2
<1>6. init = "done" /\ s = websocket => NoInits(World)
  BY <1>1, <1>2 DEF InitInv, Stranded, NoInits
<1>7. ASSUME NEW r, Shaped(r), Becomes(r), Lit(World) => Lit(r) PROVE Lit(r) \/ gaveUp' # "no"
  <2>1. CASE Listening'
    BY <1>7, <2>1, ListeningIsLit
  <2>2. CASE ~Listening'
    BY <1>1, <1>2, <1>7, <2>2 DEF SocketInv
  <2> QED BY <2>1, <2>2
<1> HIDE DEF open
<1>8. CASE waiter = {}
  <2>1. Becomes(open) /\ UNCHANGED initVars
    BY <1>1, <1>8
  <2>2. SocketInv'
    BY <1>1, <1>2, <1>3, <1>5, <1>7, <2>1, SocketInvBecomes
  <2>3. InitsOf(open, World)
    BY <1>2, <1>3 DEF InitsOf
  <2>4. init = "done" => Stranded(open)
    <3>1. CASE s = websocket
      BY <1>2, <1>3, <1>6, <3>1 DEF Stranded, NoInits
    <3>2. CASE s # websocket
      BY <1>2, <1>3, <3>2 DEF Stranded, InitInv
    <3> QED BY <3>1, <3>2
  <2>5. InitInv'
    BY <1>2, <1>3, <2>1, <2>3, <2>4, InitInvKept
  <2> QED BY <2>2, <2>5
<1>9. CASE waiter # {}
  <2> DEFINE t == CHOOSE t \in waiter : TRUE
             r == connected(open, t)
  <2>1. t \in waiter /\ Becomes(r)
    BY <1>1, <1>9
  <2>2. t \in Tasks /\ settled = {task[t].kind} /\ task[t].socket = s /\ task[t].pc = "waiting"
    BY <2>1 DEF Waiter
  <2> HIDE DEF t
  <2>3. open.current \notin open.strays /\ open.current \in Sockets /\ open.task[t].pc # "closing"
    BY <1>2, <1>3, <2>2 DEF Apart
  <2>4. /\ Shaped(r) /\ Apart(r) /\ r.current = websocket /\ r.strays = strays
        /\ \A n \in Sockets : r.socket[n].state = open.socket[n].state /\ r.socket[n].key = open.socket[n].key
        /\ r.task[t].kind # "init"
        /\ \A u \in Tasks \ {t} : r.task[u] = task[u]
        /\ open.socket[open.current].state = "open" \/ open.task[t].kind = "reconnect" => Lit(r)
    BY <1>3, <2>2, <2>3, ConnectedFacts
  <2>5. Lit(r)
    <3>1. CASE s = websocket
      BY <1>3, <2>4, <3>1
    <3>2. CASE s # websocket
      <4>1. s \in strays
        BY <1>1, <1>2, <3>2, ShapedType DEF SocketOK
      <4>2. task[t].kind = "reconnect"
        BY <1>2, <2>2, <4>1, ShapedType DEF TaskOK
      <4> QED BY <1>3, <2>4, <4>2
    <3> QED BY <3>1, <3>2
  <2> HIDE DEF r
  <2>6. KeyIn(r, apiKey)
    BY <1>3, <2>4 DEF KeyIn
  <2>7. SocketInv'
    BY <1>1, <1>2, <1>5, <2>1, <2>4, <2>5, <2>6, SocketInvBecomes
  <2>8. CASE task[t].kind = "init"
    <3>1. halfDone("connect")
      BY <1>1, <2>2, <2>8
    <3>2. InitTypeOK' /\ init' # "idle"
      BY <1>4, <3>1, HalfDoneFacts
    <3>3. NoInits(r)
      BY <2>2, <2>4, <2>8 DEF InitInv, NoInits
    <3> QED BY <1>2, <2>1, <2>4, <2>7, <3>2, <3>3, InitInvNone
  <2>9. CASE task[t].kind # "init"
    <3>1. UNCHANGED initVars
      BY <1>1, <2>2, <2>9
    <3>2. NoInits(World)
      <4>1. ASSUME NEW u \in Tasks, task[u].kind = "init" PROVE FALSE
        <5>1. InitWaits(World, u)
          BY <1>2, <4>1 DEF InitsWait
        <5>2. s = websocket
          BY <1>1, <1>2, <5>1, ShapedType DEF InitWaits, SocketOK
        <5>3. socket[websocket].onopen = u /\ socket[s].onopen = t
          BY <1>2, <2>1, <2>2, <5>1 DEF InitWaits, Waiter
        <5> QED BY <2>9, <4>1, <5>2, <5>3
      <4> QED BY <1>2, <4>1 DEF NoInits
    <3>3. NoInits(r)
      BY <1>2, <2>4, <3>2 DEF NoInits
    <3>4. InitTypeOK' /\ init' # "idle"
      BY <1>4, <3>1 DEF InitTypeOK, initVars
    <3> QED BY <1>2, <2>1, <2>4, <2>7, <3>3, <3>4, InitInvNone
  <2> QED BY <2>8, <2>9
<1> QED BY <1>8, <1>9

LEMMA WebsocketClosesKeeps ==
  ASSUME SocketInv, InitInv, NEW s \in Sockets, WebsocketCloses(s)
  PROVE  SocketInv' /\ InitInv'
<1> DEFINE handler == socket[s].onclose
           waiter == Waiter(handler, s)
           settled == {task[u].kind : u \in waiter}
<1>1. /\ socket[s].state # "closed"
      /\ socket[s].state = "closing" \/ wsFaults < MaxFaults
      /\ wsFaults' = IF socket[s].state = "closing" THEN wsFaults ELSE wsFaults + 1
      /\ gaveUp' = IF Listening' THEN "no"
                   ELSE IF \E u \in waiter : task[u].kind # "reconnect" THEN "refused" ELSE gaveUp
      /\ UNCHANGED apiKey
      /\ IF "init" \in settled THEN halfDone("connect") ELSE UNCHANGED <<initVars, status>>
  BY DEF WebsocketCloses, SocketCloses, callerContinues
<1>2. PICK t \in Loop(handler, Tasks \ Busy) : Becomes(closeEvent(World, s, t))
  BY DEF WebsocketCloses, SocketCloses
<1>3. /\ Shaped(World) /\ Apart(World) /\ InitsWait(World) /\ World.socket = socket /\ World.current = websocket
      /\ World.task = task /\ apiKey \in 0 .. MaxKeys /\ websocket \in Sockets /\ KeyIn(World, apiKey)
      /\ wsFaults \in 0 .. MaxFaults /\ gaveUp \in {"no", "told", "lapsed", "refused"}
  BY <1>1, WorldFacts
<1>4. handler = "live" => t \in Tasks /\ task[t].pc = "idle"
  BY <1>2, LoopFacts DEF Busy
<1> DEFINE r == closeEvent(World, s, t)
<1>5. /\ Shaped(r) /\ Apart(r) /\ KeyIn(r, apiKey) /\ r.current \in Sockets /\ NoInits(r)
      /\ Lit(World) => \/ Lit(r)
                       \/ handler \in Tasks /\ task[handler].socket = s /\ task[handler].pc = "waiting"
                            /\ task[handler].kind # "reconnect"
  BY <1>1, <1>3, <1>4, CloseEventFacts
<1> HIDE DEF r
<1>6. Becomes(r)
  BY <1>2 DEF r
<1>7. handler \in Tasks /\ task[handler].socket = s /\ task[handler].pc = "waiting" => handler \in waiter
  BY DEF Waiter
<1>8. Lit(r) \/ gaveUp' # "no"
  <2>1. CASE Listening'
    BY <1>5, <1>6, <2>1, ListeningIsLit
  <2>2. CASE ~Listening' /\ Lit(World)
    BY <1>1, <1>5, <1>7, <2>2
  <2>3. CASE ~Listening' /\ gaveUp # "no"
    BY <1>1, <2>3
  <2> QED BY <1>3, <2>1, <2>2, <2>3 DEF SocketInv
<1>9. wsFaults' \in 0 .. MaxFaults
  BY <1>1, <1>3, WsBounds
<1>10. gaveUp' \in {"no", "told", "lapsed", "refused"}
  BY <1>1, <1>3
<1>11. SocketInv'
  BY <1>1, <1>3, <1>5, <1>6, <1>8, <1>9, <1>10, SocketInvBecomes
<1>12. InitTypeOK' /\ init' # "idle"
  <2>1. InitTypeOK /\ init # "idle"
    BY <1>3 DEF InitInv
  <2>2. CASE "init" \in settled
    BY <1>1, <2>1, <2>2, HalfDoneFacts
  <2>3. CASE "init" \notin settled
    BY <1>1, <2>1, <2>3 DEF initVars, InitTypeOK
  <2> QED BY <2>2, <2>3
<1>13. InitInv'
  BY <1>5, <1>6, <1>12, InitInvNone
<1> QED BY <1>11, <1>13

(* Nobody waits for the socket in connectWebsocket.                          *)
LEMMA ErrorSettlesNobody ==
  ASSUME SocketInv, InitInv, NEW s \in Sockets, SocketErrors(s)
  PROVE  Waiter(socket[s].onclose, s) = {} /\ websocket \in Sockets
<1>1. /\ Shaped(World) /\ Apart(World) /\ World.socket = socket /\ World.current = websocket /\ World.task = task
      /\ socket[s].state # "closed" /\ socket[s].onerror = "live" /\ websocket \in Sockets /\ Nobody # "live"
  BY WorldFacts DEF SocketErrors, Nobody
<1>2. s = websocket
  BY <1>1, ShapedType DEF SocketOK
<1>3. \/ socket[s].onclose = "live"
      \/ socket[s].onclose \in Tasks /\ task[socket[s].onclose].pc = "closing"
  BY <1>1, <1>2 DEF Apart
<1> QED BY <1>1, <1>3, PlacesAreNot DEF Waiter

LEMMA WebsocketErrorsKeeps ==
  ASSUME SocketInv, InitInv, NEW s \in Sockets, WebsocketErrors(s)
  PROVE  SocketInv' /\ InitInv'
<1> DEFINE handler == socket[s].onclose
<1>1. /\ SocketErrors(s) /\ socket[s].state # "closed" /\ socket[s].onerror = "live"
      /\ wsFaults < MaxFaults /\ wsFaults' = wsFaults + 1
      /\ handler = "live" \/ \E n \in Unused(World) : n # s
      /\ UNCHANGED <<apiKey, gaveUp>>
      /\ callerContinues(handler, s)
  BY DEF WebsocketErrors, SocketErrors
<1>2. PICK u \in FreeTask : \E t \in Loop(handler, Tasks \ (Busy \union {u})) : Becomes(errorEvent(World, s, u, t))
  BY DEF WebsocketErrors, SocketErrors
<1>3. PICK t \in Loop(handler, Tasks \ (Busy \union {u})) : Becomes(errorEvent(World, s, u, t))
  BY <1>2
<1>4. /\ u \in Tasks /\ task[u].pc = "idle"
      /\ handler = "live" => t \in Tasks /\ task[t].pc = "idle" /\ t # u
  BY <1>2, <1>3, FreeTaskFacts, LoopFacts DEF Busy
<1>5. /\ Shaped(World) /\ Apart(World) /\ InitsWait(World) /\ World.socket = socket /\ World.current = websocket
      /\ World.task = task /\ apiKey \in 0 .. MaxKeys /\ websocket \in Sockets
      /\ wsFaults \in 0 .. MaxFaults /\ gaveUp \in {"no", "told", "lapsed", "refused"}
  BY <1>1, WorldFacts
<1> DEFINE r == errorEvent(World, s, u, t)
<1>6. Shaped(r) /\ Apart(r) /\ NoInits(r) /\ KeyIn(r, apiKey) /\ Lit(r)
  BY <1>1, <1>4, <1>5, ErrorEventFacts
<1> HIDE DEF r
<1>7. Becomes(r)
  BY <1>3 DEF r
<1>8. wsFaults' \in 0 .. MaxFaults
  BY <1>1, <1>5, WsBounds
<1>9. SocketInv'
  BY <1>1, <1>5, <1>6, <1>7, <1>8, SocketInvBecomes
<1>10. InitTypeOK' /\ init' # "idle"
  <2>1. UNCHANGED initVars
    BY <1>1, ErrorSettlesNobody DEF callerContinues
  <2>2. InitTypeOK /\ init # "idle"
    BY <1>5 DEF InitInv
  <2> QED BY <2>1, <2>2 DEF initVars, InitTypeOK
<1>11. InitInv'
  BY <1>6, <1>7, <1>10, InitInvNone DEF Lit
<1> QED BY <1>9, <1>11

(* A task ends without touching the sockets.                                 *)
LEMMA TaskEnds ==
  ASSUME SocketInv, InitInv, NEW t \in Tasks, task[t].pc # "closing"
  PROVE  LET r == [socket |-> socket, current |-> websocket, task |-> [task EXCEPT ![t] = NoTask],
                   strays |-> strays]
         IN /\ Shaped(r) /\ Apart(r) /\ KeyIn(r, apiKey) /\ InitsOf(r, World)
            /\ init = "done" => Stranded(r)
            /\ r.current = websocket /\ r.strays = strays /\ r.socket = socket
            /\ r.task[t].pc = "idle" /\ r.task[t].kind # "init"
            /\ \A u \in Tasks : u # t => r.task[u] = task[u]
<1> DEFINE g == [task EXCEPT ![t] = NoTask]
           r == [socket |-> socket, current |-> websocket, task |-> g, strays |-> strays]
<1>1. /\ Shaped(World) /\ Apart(World) /\ InitsWait(World) /\ World.socket = socket /\ World.current = websocket
      /\ World.task = task /\ World.strays = strays /\ KeyIn(World, apiKey)
      /\ socket \in [Sockets -> SocketType] /\ task \in [Tasks -> TaskType]
      /\ websocket \in Sockets \union {NoSocket} /\ strays \in SUBSET Sockets
  BY WorldFacts
<1>2. g \in [Tasks -> TaskType] /\ g[t] = NoTask /\ \A u \in Tasks : u # t => g[u] = task[u]
  BY <1>1, NoTaskTyped
<1> HIDE DEF g
<1>3. r.socket = socket /\ r.current = websocket /\ r.task = g /\ r.strays = strays
  OBVIOUS
<1>4. r \in WorldType
  BY <1>1, <1>2, WorldOf
<1> HIDE DEF r
<1>5. NoTask.pc = "idle" /\ NoTask.kind # "init" /\ NoTask.socket = NoSocket
  BY DEF NoTask
<1>6. ASSUME NEW u \in Tasks PROVE TaskOK(r, u)
  <2>1. TaskOK(World, u)
    BY <1>1, ShapedType
  <2> QED BY <1>1, <1>2, <1>3, <1>5, <2>1 DEF TaskOK
<1>7. \A s \in Sockets : SocketOK(r, s)
  BY <1>1, <1>3, ShapedType DEF SocketOK
<1>8. Shaped(r)
  BY <1>1, <1>3, <1>4, <1>6, <1>7 DEF Shaped
<1>9. Apart(r)
  BY <1>1, <1>2, <1>3 DEF Apart
<1>10. KeyIn(r, apiKey)
  BY <1>1, <1>3 DEF KeyIn
<1>11. InitsOf(r, World)
  BY <1>1, <1>2, <1>3, <1>5 DEF InitsOf, InitsWait, InitWaits
<1>12. init = "done" => Stranded(r)
  BY <1>1, <1>2, <1>3, <1>5 DEF Stranded, InitInv
<1> QED BY <1>2, <1>3, <1>5, <1>8, <1>9, <1>10, <1>11, <1>12 DEF r, g

(* Another attempt of the loop.                                              *)
LEMMA AttemptFacts ==
  ASSUME SocketInv, InitInv, NEW t \in Tasks, task[t].pc = "delay", task[t].attempt < MaxRetries
  PROVE  LET next == [World EXCEPT !.task = [task EXCEPT ![t].attempt = @ + 1]]
         IN /\ Shaped(next) /\ next.current = websocket /\ next.strays = strays /\ next.socket = socket
            /\ next.task[t].pc = "delay" /\ next.task[t].kind = task[t].kind
            /\ \A u \in Tasks : next.task[u].kind = task[u].kind
            /\ InitsWait(next)
<1> DEFINE more == [task EXCEPT ![t].attempt = @ + 1]
           next == [World EXCEPT !.task = more]
<1>1. /\ Shaped(World) /\ InitsWait(World) /\ World.socket = socket /\ World.current = websocket
      /\ World.task = task /\ World.strays = strays
      /\ socket \in [Sockets -> SocketType] /\ task \in [Tasks -> TaskType]
      /\ websocket \in Sockets \union {NoSocket} /\ strays \in SUBSET Sockets
  BY WorldFacts
<1>2. /\ more \in [Tasks -> TaskType]
      /\ more[t].pc = "delay" /\ more[t].kind = task[t].kind /\ more[t].socket = task[t].socket
      /\ \A u \in Tasks : u # t => more[u] = task[u]
  BY <1>1, WsBounds DEF TaskType
<1>3. next = [World EXCEPT !.task = [task EXCEPT ![t].attempt = @ + 1]]
  OBVIOUS
<1> HIDE DEF more
<1>4. /\ next.socket = socket /\ next.current = websocket /\ next.task = more /\ next.strays = strays
      /\ next = [socket |-> socket, current |-> websocket, task |-> more, strays |-> strays]
  BY DEF World
<1> HIDE DEF next
<1>5. next \in WorldType
  BY <1>1, <1>2, <1>4, WorldOf
<1>6. ASSUME NEW u \in Tasks PROVE TaskOK(next, u)
  <2>1. TaskOK(World, u)
    BY <1>1, ShapedType
  <2> QED BY <1>1, <1>2, <1>4, <2>1 DEF TaskOK
<1>7. \A s \in Sockets : SocketOK(next, s)
  BY <1>1, <1>4, ShapedType DEF SocketOK
<1>8. Shaped(next)
  BY <1>1, <1>4, <1>5, <1>6, <1>7 DEF Shaped
<1>9. \A u \in Tasks : next.task[u].kind = task[u].kind
  BY <1>2, <1>4
<1>10. InitsWait(next)
  <2>1. \A u \in Tasks : task[u].kind = "init" => u # t
    BY <1>1 DEF InitsWait, InitWaits
  <2> QED BY <1>1, <1>2, <1>4, <1>9, <2>1 DEF InitsWait, InitWaits
<1> QED BY <1>2, <1>3, <1>4, <1>8, <1>9, <1>10

LEMMA ReconnectDelayKeeps ==
  ASSUME SocketInv, InitInv, NEW t \in Tasks, ReconnectDelay(t)
  PROVE  SocketInv' /\ InitInv'
<1> DEFINE next == [World EXCEPT !.task = [task EXCEPT ![t].attempt = @ + 1]]
<1>1. /\ task[t].pc = "delay" /\ UNCHANGED <<apiKey, wsFaults>> /\ UNCHANGED initVars
      /\ \/ task[t].attempt < MaxRetries /\ Becomes(connectWebsocket(next, t, apiKey)) /\ UNCHANGED gaveUp
         \/ /\ task' = [task EXCEPT ![t] = NoTask] /\ gaveUp' = "told"
            /\ UNCHANGED <<socket, websocket, strays>>
  BY DEF ReconnectDelay, RetryDelay
<1>2. /\ Shaped(World) /\ InitsWait(World) /\ World.current = websocket /\ World.task = task
      /\ apiKey \in 0 .. MaxKeys /\ websocket \notin strays
      /\ wsFaults \in 0 .. MaxFaults /\ gaveUp \in {"no", "told", "lapsed", "refused"}
  BY WorldFacts
<1>3. websocket \in Sockets
  BY <1>1 DEF InitInv
<1>4. CASE task[t].attempt < MaxRetries /\ Becomes(connectWebsocket(next, t, apiKey)) /\ UNCHANGED gaveUp
  <2> DEFINE r == connectWebsocket(next, t, apiKey)
  <2>1. /\ Shaped(next) /\ next.current = websocket /\ next.strays = strays
        /\ next.task[t].pc = "delay" /\ next.task[t].kind = task[t].kind
        /\ \A u \in Tasks : next.task[u].kind = task[u].kind
        /\ InitsWait(next)
    BY <1>1, <1>4, AttemptFacts
  <2> HIDE DEF next
  <2>2. task[t].kind # "init"
    BY <1>1, <1>2 DEF InitsWait, InitWaits
  <2>3. Shaped(r) /\ Apart(r) /\ KeyIn(r, apiKey) /\ Lit(r) /\ InitsOf(r, next) /\ Stranded(r)
    BY <1>2, <2>1, <2>2, ConnectFacts
  <2> HIDE DEF r
  <2>4. InitsOf(r, World) /\ r.current \in Sockets
    BY <1>2, <2>1, <2>3 DEF InitsOf, Lit
  <2>5. Becomes(r)
    BY <1>4 DEF r
  <2>6. SocketInv'
    BY <1>1, <1>2, <1>4, <2>3, <2>5, SocketInvBecomes
  <2> QED BY <1>1, <1>3, <2>3, <2>4, <2>5, <2>6, InitInvKept
<1>5. CASE /\ task' = [task EXCEPT ![t] = NoTask] /\ gaveUp' = "told"
           /\ UNCHANGED <<socket, websocket, strays>>
  <2> DEFINE r == [socket |-> socket, current |-> websocket, task |-> [task EXCEPT ![t] = NoTask],
                   strays |-> strays]
  <2>1. /\ Shaped(r) /\ Apart(r) /\ KeyIn(r, apiKey) /\ InitsOf(r, World) /\ r.current = websocket
        /\ init = "done" => Stranded(r)
    BY <1>1, TaskEnds
  <2>2. Becomes(r)
    BY <1>5 DEF Becomes
  <2> HIDE DEF r
  <2>3. SocketInv'
    BY <1>1, <1>2, <1>5, <2>1, <2>2, SocketInvBecomes
  <2> QED BY <1>1, <1>3, <2>1, <2>2, <2>3, InitInvKept
<1> QED BY <1>1, <1>4, <1>5

LEMMA ConnectTimesOutKeeps ==
  ASSUME SocketInv, InitInv, NEW t \in Tasks, ConnectTimesOut(t)
  PROVE  SocketInv' /\ InitInv'
<1>1. /\ task[t].pc = "waiting" /\ wsFaults < MaxFaults /\ wsFaults' = wsFaults + 1
      /\ task' = [task EXCEPT ![t] = NoTask] /\ gaveUp' = "lapsed"
      /\ UNCHANGED <<socket, websocket, apiKey, strays>> /\ UNCHANGED initVars
  BY DEF ConnectTimesOut, WaitTimesOut, Overdue
<1>2. websocket \in Sockets /\ apiKey \in 0 .. MaxKeys /\ wsFaults' \in 0 .. MaxFaults
  BY <1>1, WsBounds DEF InitInv, SocketInv
<1> DEFINE r == [socket |-> socket, current |-> websocket, task |-> [task EXCEPT ![t] = NoTask],
                 strays |-> strays]
<1>3. /\ Shaped(r) /\ Apart(r) /\ KeyIn(r, apiKey) /\ InitsOf(r, World) /\ r.current = websocket
      /\ init = "done" => Stranded(r)
  BY <1>1, TaskEnds
<1>4. Becomes(r)
  BY <1>1 DEF Becomes
<1> HIDE DEF r
<1>5. SocketInv'
  BY <1>1, <1>2, <1>3, <1>4, SocketInvBecomes
<1> QED BY <1>1, <1>2, <1>3, <1>4, <1>5, InitInvKept

(* The catch of initialize(), in a world without its task.                   *)
LEMMA InitFailsKeeps ==
  ASSUME SocketInv, InitInv, NEW w, Shaped(w), w.current \notin w.strays, InitsOf(w, World),
         NEW calls, NEW f, initFails(w, calls, f), wsFaults' \in 0 .. MaxFaults
  PROVE  SocketInv' /\ InitInv'
<1>1. init' = "done" /\ argument' = "none" /\ waits' = {} /\ UNCHANGED <<apiKey, gaveUp>>
  BY DEF initFails
<1>2. PICK t \in OneOf({u \in Tasks : w.task[u].pc = "idle"}) : Becomes(begin(w, t, "reconnect", apiKey))
  BY DEF initFails
<1>3. t \in Tasks /\ w.task[t].pc = "idle"
  BY <1>2, OneOfFacts
<1>4. InitsWait(w) /\ apiKey \in 0 .. MaxKeys /\ gaveUp \in {"no", "told", "lapsed", "refused"}
  BY DEF InitsOf, SocketInv
<1> DEFINE r == begin(w, t, "reconnect", apiKey)
<1>5. Shaped(r) /\ Apart(r) /\ KeyIn(r, apiKey) /\ Lit(r) /\ InitsOf(r, w) /\ Stranded(r)
  BY <1>3, <1>4, BeginFacts
<1> HIDE DEF r
<1>6. Becomes(r)
  BY <1>2 DEF r
<1>7. SocketInv'
  BY <1>1, <1>4, <1>5, <1>6, SocketInvBecomes
<1>8. World' = r /\ websocket' = r.current /\ task' = r.task
  BY <1>5, <1>6, BecomesFacts
<1>9. websocket' \in Sockets
  BY <1>5, <1>8 DEF Lit
<1>10. InitsWait(r)
  BY <1>5 DEF InitsOf
<1>11. \A u \in Tasks : task'[u].kind = "init" => task[u].kind = "init"
  BY <1>5, <1>8 DEF InitsOf, World
<1>12. \A u, v \in Tasks : task'[u].kind = "init" /\ task'[v].kind = "init" => u = v
  BY <1>11 DEF InitInv
<1>13. InitTypeOK'
  BY <1>1 DEF InitTypeOK
<1>14. InitInv'
  BY <1>1, <1>5, <1>8, <1>9, <1>10, <1>12, <1>13 DEF InitInv
<1> QED BY <1>7, <1>14

LEMMA RejectedKeeps ==
  ASSUME SocketInv, InitInv, NEW f, rejected(f), UNCHANGED wsFaults
  PROVE  SocketInv' /\ InitInv'
<1>1. wsFaults' \in 0 .. MaxFaults
  BY DEF SocketInv
<1>2. CASE initFails(World, fetch, f)
  <2>1. Shaped(World) /\ InitsOf(World, World) /\ World.current \notin World.strays
    BY WorldFacts DEF InitsOf
  <2> QED BY <1>1, <1>2, <2>1, InitFailsKeeps
<1>3. CASE UNCHANGED <<socket, websocket, task, strays, apiKey, gaveUp, initVars>>
  BY <1>1, <1>3, SocketsAlone, InitAlone
<1> QED BY <1>2, <1>3 DEF rejected

LEMMA InitConnectTimesOutKeeps ==
  ASSUME SocketInv, InitInv, NEW t \in Tasks, InitConnectTimesOut(t)
  PROVE  SocketInv' /\ InitInv'
<1> DEFINE left == [World EXCEPT !.task = [@ EXCEPT ![t] = NoTask]]
           g == [task EXCEPT ![t] = NoTask]
           r == [socket |-> socket, current |-> websocket, task |-> [task EXCEPT ![t] = NoTask],
                 strays |-> strays]
<1>1. /\ task[t].kind = "init" /\ task[t].pc = "waiting"
      /\ wsFaults < MaxFaults /\ wsFaults' = wsFaults + 1
      /\ \/ init = "pending" /\ \E f \in Free(fetch) : initFails(left, fetch, f)
         \/ init = "done" /\ Becomes(left) /\ UNCHANGED <<apiKey, gaveUp, initVars>>
  BY DEF InitConnectTimesOut, Overdue
<1>2. wsFaults' \in 0 .. MaxFaults
  BY <1>1, WsBounds DEF SocketInv
<1>3. /\ Shaped(World) /\ World.socket = socket /\ World.current = websocket /\ World.task = task
      /\ World.strays = strays /\ websocket \notin strays
      /\ apiKey \in 0 .. MaxKeys /\ gaveUp \in {"no", "told", "lapsed", "refused"}
      /\ task \in [Tasks -> TaskType]
  BY WorldFacts
<1>4. left = r
  <2>1. left = [World EXCEPT !.task = g] /\ r = [socket |-> socket, current |-> websocket, task |-> g, strays |-> strays]
    BY <1>3
  <2> HIDE DEF left, r, g
  <2> QED BY <2>1 DEF World
<1>5. /\ Shaped(r) /\ Apart(r) /\ KeyIn(r, apiKey) /\ InitsOf(r, World) /\ r.current = websocket
      /\ init = "done" => Stranded(r)
      /\ \A u \in Tasks : u # t => r.task[u] = task[u]
      /\ r.socket = socket /\ r.strays = strays
  BY <1>1, TaskEnds
<1> HIDE DEF left, r, g
<1>6. CASE init = "pending" /\ \E f \in Free(fetch) : initFails(left, fetch, f)
  BY <1>2, <1>3, <1>4, <1>5, <1>6, InitFailsKeeps
<1>7. CASE init = "done" /\ Becomes(left) /\ UNCHANGED <<apiKey, gaveUp, initVars>>
  <2>1. Becomes(r) /\ websocket \in Sockets
    BY <1>4, <1>7 DEF InitInv
  <2>2. Stranded(World) /\ InitsWait(World)
    BY <1>7 DEF InitInv
  <2>3. /\ socket[websocket].state = "closing" /\ socket[websocket].onclose # t
        /\ task[t].socket = websocket
    BY <1>1, <1>3, <2>2 DEF Stranded, InitsWait, InitWaits
  <2>4. Lit(World) => Lit(r)
    BY <1>3, <1>5, <2>1, <2>3 DEF Lit
  <2>5. SocketInv'
    BY <1>2, <1>3, <1>5, <1>7, <2>1, <2>4, SocketInvBecomes DEF SocketInv
  <2>6. InitInv'
    BY <1>5, <1>7, <2>1, InitInvKept
  <2> QED BY <2>5, <2>6
<1> QED BY <1>1, <1>6, <1>7

LEMMA SilentFacts ==
  ASSUME NEW w, Shaped(w), w.current \notin w.strays, InitsWait(w), w.current \in Sockets
  PROVE  LET r == [w EXCEPT !.socket = [@ EXCEPT ![w.current].onclose = Nobody]]
         IN Shaped(r) /\ InitsWait(r) /\ r.task = w.task /\ r.current \notin r.strays
<1> DEFINE c == w.current
           f == [w.socket EXCEPT ![c].onclose = Nobody]
           r == [w EXCEPT !.socket = f]
<1>0. r = [w EXCEPT !.socket = [@ EXCEPT ![w.current].onclose = Nobody]]
  OBVIOUS
<1>1. c \in Sockets /\ c \notin w.strays /\ c = w.current
  OBVIOUS
<1>2. /\ f \in [Sockets -> SocketType]
      /\ f[c].state = w.socket[c].state /\ f[c].onclose = Nobody /\ f[c].onerror = w.socket[c].onerror
      /\ f[c].onopen = w.socket[c].onopen
      /\ \A n \in Sockets : n # c => f[n] = w.socket[n]
  <2> HIDE DEF c
  <2> QED BY <1>1, ShapedType DEF SocketType
<1> HIDE DEF f, c
<1>3. /\ r.socket = f /\ r.current = w.current /\ r.task = w.task /\ r.strays = w.strays
      /\ r = [socket |-> r.socket, current |-> r.current, task |-> r.task, strays |-> r.strays]
  BY ShapedType DEF WorldType
<1> HIDE DEF r
<1>4. r \in WorldType
  <2>1. r.task \in [Tasks -> TaskType] /\ r.current \in Sockets \union {NoSocket} /\ r.strays \in SUBSET Sockets
    BY <1>3, ShapedType
  <2> QED BY <1>2, <1>3, <2>1, WorldOf
<1>5. ASSUME NEW n \in Sockets PROVE SocketOK(r, n)
  <2>1. SocketOK(w, n)
    BY ShapedType
  <2> QED BY <1>1, <1>2, <1>3, <2>1 DEF SocketOK
<1>6. ASSUME NEW t \in Tasks PROVE TaskOK(r, t)
  <2>1. TaskOK(w, t)
    BY ShapedType
  <2> QED BY <1>1, <1>2, <1>3, <2>1 DEF TaskOK
<1>7. Shaped(r)
  BY <1>3, <1>4, <1>5, <1>6, ShapedType DEF Shaped
<1>8. InitsWait(r)
  BY <1>1, <1>2, <1>3 DEF InitsWait, InitWaits
<1> QED BY <1>0, <1>1, <1>3, <1>7, <1>8

LEMMA SetApiKeyKeeps ==
  ASSUME SocketInv, InitInv, SetApiKey
  PROVE  SocketInv' /\ InitInv'
<1>1. /\ apiKey < MaxKeys /\ apiKey' = apiKey + 1 /\ gaveUp' = "no" /\ UNCHANGED wsFaults /\ UNCHANGED initVars
      /\ \/ websocket = NoSocket /\ UNCHANGED <<socket, websocket, task, strays>>
         \/ /\ websocket # NoSocket
            /\ \E t \in FreeTask :
                 LET silent == [World EXCEPT !.socket = [@ EXCEPT ![websocket].onclose = Nobody]]
                 IN Becomes(begin(silent, t, "apikey", apiKey'))
  BY DEF SetApiKey, RotateKey
<1>2. apiKey' \in 0 .. MaxKeys /\ wsFaults' \in 0 .. MaxFaults
  BY <1>1, WsBounds DEF SocketInv
<1>3. /\ Shaped(World) /\ Apart(World) /\ InitsWait(World) /\ World.current = websocket /\ World.task = task
      /\ World.socket = socket /\ World.strays = strays
      /\ websocket \in Sockets \union {NoSocket} /\ websocket \notin strays
  BY WorldFacts
<1>4. CASE websocket = NoSocket /\ UNCHANGED <<socket, websocket, task, strays>>
  <2>1. InitInv'
    BY <1>1, <1>4, InitAlone
  <2>2. \A s \in Sockets : World.socket[s].state = "closed"
    BY <1>3, <1>4, WorldFacts, PlacesAreNot
  <2>3. KeyIn(World, apiKey')
    BY <2>2 DEF KeyIn
  <2>4. World' = World /\ websocket' \notin Sockets
    BY <1>4, PlacesAreNot DEF World
  <2>5. SocketInv'
    BY <1>1, <1>2, <1>3, <2>3, <2>4 DEF SocketInv
  <2> QED BY <2>1, <2>5
<1>5. CASE websocket # NoSocket
  <2> DEFINE silent == [World EXCEPT !.socket = [@ EXCEPT ![websocket].onclose = Nobody]]
  <2>1. PICK t \in FreeTask : Becomes(begin(silent, t, "apikey", apiKey'))
    BY <1>1, <1>5
  <2>2. t \in Tasks /\ task[t].pc = "idle"
    BY <2>1, FreeTaskFacts
  <2>3. websocket \in Sockets
    BY <1>3, <1>5
  <2>4. Shaped(silent) /\ InitsWait(silent) /\ silent.task = task /\ silent.current \notin silent.strays
    BY <1>3, <2>3, SilentFacts
  <2> HIDE DEF silent
  <2> DEFINE r == begin(silent, t, "apikey", apiKey')
  <2>5. Shaped(r) /\ Apart(r) /\ KeyIn(r, apiKey') /\ Lit(r) /\ InitsOf(r, silent) /\ Stranded(r)
    BY <1>2, <2>2, <2>4, BeginFacts
  <2>6. Becomes(r)
    BY <2>1
  <2> HIDE DEF r
  <2>7. InitsOf(r, World) /\ r.current \in Sockets
    BY <1>3, <2>4, <2>5 DEF InitsOf, Lit
  <2>8. SocketInv'
    BY <1>1, <1>2, <2>5, <2>6, SocketInvBecomes
  <2>9. InitInv'
    BY <1>1, <2>3, <2>5, <2>6, <2>7, InitInvKept
  <2> QED BY <2>8, <2>9
<1> QED BY <1>1, <1>4, <1>5

LEMMA OnCloseContinuesKeeps ==
  ASSUME SocketInv, InitInv, OnCloseContinues
  PROVE  SocketInv' /\ InitInv'
<1>1. /\ IF websocket # NoSocket /\ socket[websocket].state # "closed"
           THEN socket' = [socket EXCEPT ![websocket].state = "closing"] ELSE UNCHANGED socket
      /\ UNCHANGED <<websocket, task, strays, apiKey, gaveUp, wsFaults>> /\ UNCHANGED initVars
  BY DEF OnCloseContinues
<1>2. /\ Shaped(World) /\ Apart(World) /\ InitsWait(World) /\ World.socket = socket /\ World.current = websocket
      /\ World.task = task /\ World.strays = strays /\ wsFaults \in 0 .. MaxFaults
      /\ websocket \in Sockets \union {NoSocket} /\ strays \in SUBSET Sockets /\ websocket \notin strays
      /\ socket \in [Sockets -> SocketType] /\ task \in [Tasks -> TaskType] /\ KeyIn(World, apiKey)
      /\ apiKey \in 0 .. MaxKeys /\ gaveUp \in {"no", "told", "lapsed", "refused"}
  BY WorldFacts
<1>3. CASE websocket # NoSocket /\ socket[websocket].state # "closed"
  <2> DEFINE f == [socket EXCEPT ![websocket].state = "closing"]
             r == [socket |-> f, current |-> websocket, task |-> task, strays |-> strays]
  <2>1. websocket \in Sockets
    BY <1>2, <1>3
  <2>2. Becomes(r)
    BY <1>1, <1>3 DEF Becomes
  <2>3. /\ f \in [Sockets -> SocketType]
        /\ f[websocket].state = "closing" /\ f[websocket].onclose = socket[websocket].onclose
        /\ f[websocket].onopen = socket[websocket].onopen /\ f[websocket].onerror = socket[websocket].onerror
        /\ \A n \in Sockets : n # websocket => f[n] = socket[n]
    BY <1>2, <2>1 DEF SocketType
  <2> HIDE DEF f
  <2>4. r.socket = f /\ r.current = websocket /\ r.task = task /\ r.strays = strays
    OBVIOUS
  <2>5. r \in WorldType
    BY <1>2, <2>3, WorldOf
  <2> HIDE DEF r
  <2>6. ASSUME NEW n \in Sockets PROVE SocketOK(r, n)
    <3>1. SocketOK(World, n)
      BY <1>2, ShapedType
    <3> QED BY <1>2, <2>3, <2>4, <3>1 DEF SocketOK
  <2>7. ASSUME NEW t \in Tasks PROVE TaskOK(r, t)
    <3>1. TaskOK(World, t)
      BY <1>2, ShapedType
    <3> QED BY <1>2, <2>3, <2>4, <3>1 DEF TaskOK
  <2>8. Shaped(r)
    BY <1>3, <2>4, <2>5, <2>6, <2>7 DEF Shaped
  <2>9. Apart(r)
    BY <1>2, <1>3, <2>1, <2>3, <2>4 DEF Apart
  <2>10. KeyIn(r, apiKey)
    BY <1>2, <2>3, <2>4 DEF KeyIn
  <2>11. Lit(World) => Lit(r)
    BY <1>2, <1>3, <2>1, <2>3, <2>4 DEF Lit
  <2>12. InitsOf(r, World)
    BY <1>2, <2>3, <2>4 DEF InitsOf, InitsWait, InitWaits
  <2>13. init = "done" => Stranded(r)
    BY <1>2, <2>3, <2>4 DEF Stranded, InitInv
  <2>14. SocketInv'
    BY <1>1, <1>2, <2>1, <2>2, <2>8, <2>9, <2>10, <2>11, SocketInvBecomes DEF SocketInv
  <2>15. InitInv'
    BY <1>1, <2>1, <2>2, <2>4, <2>8, <2>12, <2>13, InitInvKept
  <2> QED BY <2>14, <2>15
<1>4. CASE UNCHANGED socket
  BY <1>1, <1>2, <1>4, SocketsAlone, InitAlone
<1> QED BY <1>1, <1>3, <1>4

(* initialize() finds no socket: its task waits for a new one at once.       *)
LEMMA InitializeKeeps ==
  ASSUME SocketInv, InitInv, context \in Contexts, Initialize
  PROVE  SocketInv' /\ InitInv'
<1>1. /\ init = "idle" /\ init' = "pending" /\ argument' = context /\ waits' = {"fetch", "connect"}
      /\ UNCHANGED <<apiKey, gaveUp, wsFaults>>
  BY DEF Initialize
<1>2. PICK t \in FreeTask : Becomes(begin(World, t, "init", apiKey))
  BY DEF Initialize
<1>3. t \in Tasks /\ task[t].pc = "idle"
  BY <1>2, FreeTaskFacts
<1>4. /\ Shaped(World) /\ InitsWait(World) /\ World.socket = socket /\ World.current = websocket
      /\ World.task = task /\ websocket \notin Sockets
      /\ apiKey \in 0 .. MaxKeys /\ wsFaults \in 0 .. MaxFaults
      /\ gaveUp \in {"no", "told", "lapsed", "refused"}
  BY <1>1, WorldFacts DEF InitInv
<1>5. \A u \in Tasks : task[u].kind # "init"
  BY <1>4 DEF InitsWait, InitWaits
<1> DEFINE r == begin(World, t, "init", apiKey)
<1>6. /\ Shaped(r) /\ Apart(r) /\ KeyIn(r, apiKey) /\ Lit(r)
      /\ r.current \in Unused(World)
      /\ r.socket[r.current].onopen = t /\ r.socket[r.current].onerror = Nobody
      /\ r.strays = World.strays
      /\ r.task[t].pc = "waiting" /\ r.task[t].socket = r.current
      /\ \A u \in Tasks \ {t} : r.task[u] = World.task[u]
  BY <1>3, <1>4, BeginNew
<1> HIDE DEF r
<1>7. Becomes(r)
  BY <1>2 DEF r
<1>8. SocketInv'
  BY <1>1, <1>4, <1>6, <1>7, SocketInvBecomes
<1>9. World' = r /\ websocket' = r.current /\ task' = r.task
  BY <1>6, <1>7, BecomesFacts
<1>10. \A u \in Tasks : r.task[u].kind = "init" => u = t
  BY <1>4, <1>5, <1>6
<1>11. r.strays = {} /\ r.current \in Sockets
  BY <1>4, <1>6, ShapedType DEF Shaped, Unused
<1>12. InitsWait(r)
  BY <1>6, <1>10, <1>11 DEF InitsWait, InitWaits
<1>13. InitTypeOK'
  BY <1>1 DEF InitTypeOK
<1>14. InitInv'
  BY <1>1, <1>9, <1>10, <1>11, <1>12, <1>13 DEF InitInv
<1> QED BY <1>8, <1>14

LEMMA FetchOkKeeps ==
  ASSUME SocketInv, InitInv, NEW f, FetchOk(f)
  PROVE  SocketInv' /\ InitInv'
<1>1. /\ UNCHANGED wsVars
      /\ \/ halfDone("fetch") /\ fetch[f].by = "init"
         \/ UNCHANGED initVars
  BY DEF FetchOk
<1>2. UNCHANGED <<socket, websocket, task, strays, apiKey, gaveUp, wsFaults>>
  BY <1>1 DEF wsVars
<1>3. SocketInv'
  BY <1>2, SocketsAlone DEF SocketInv
<1>4. CASE UNCHANGED initVars
  BY <1>2, <1>3, <1>4, InitAlone
<1>5. CASE halfDone("fetch")
  <2>1. World' = World
    BY <1>2 DEF World
  <2>2. CASE init = "idle"
    <3>1. UNCHANGED init /\ InitTypeOK'
      BY <1>5, <2>2 DEF halfDone, InitInv, InitTypeOK
    <3> QED BY <1>2, <1>3, <2>1, <2>2, <3>1 DEF InitInv
  <2>3. CASE init # "idle"
    <3>1. /\ InitTypeOK' /\ init' # "idle"
          /\ waits' = waits \ {"fetch"}
          /\ init' = "pending" => init = "pending"
          /\ init = "pending" /\ init' = "done" => waits = {"fetch"}
      BY <1>5, <2>3, HalfDoneFacts DEF InitInv
    <3>2. init = "pending" /\ init' = "done" => Stranded(World)
      BY <3>1 DEF InitInv, Stranded, World
    <3>3. init' = "done" => init \in {"pending", "done"}
      BY <2>3 DEF InitInv, InitTypeOK
    <3> QED BY <1>2, <1>3, <2>1, <2>3, <3>1, <3>2, <3>3 DEF InitInv
  <2> QED BY <2>2, <2>3
<1> QED BY <1>1, <1>4, <1>5

-----------------------------------------------------------------------------
(* The invariant about the flags                                             *)

FetchType == [by: {"nobody", "init", "retry", "context"}, context: Contexts \union {"none"},
              pc: {"idle", "sent", "answered", "aborted", "delay"},
              attempt: 0 .. MaxRetries, answer: Results \union {NoFlags}]

CallsTyped(calls) ==
  /\ calls \in [Fetches -> FetchType]
  /\ \A f \in Fetches : calls[f].pc # "idle" => calls[f].context \in Contexts
  /\ \A f \in Fetches : calls[f].pc = "answered" => calls[f].answer \in Results

FetchInv ==
  /\ flags \in Results \union {NoFlags}
  /\ CallsTyped(fetch)
  /\ controller \in Fetches \union {NoFetch}
  /\ status \in {"NOT_READY", "READY", "STALE", "ERROR"}
  /\ context \in Contexts
  /\ version \in 0 .. MaxVersion /\ notices \in 0 .. version /\ faults \in 0 .. MaxFetchFaults
  /\ doubt \in BOOLEAN /\ closed \in {"no", "flushing", "yes"}

Current == [context |-> context, key |-> apiKey, version |-> version]

(* A call that runs alone runs for the current context, and what it answers  *)
(* is current while no message of a change is under way.                     *)
Follows ==
  /\ \A f, g \in Fetches : fetch[f].pc # "idle" /\ fetch[g].pc # "idle" => f = g
  /\ \A f \in Fetches : fetch[f].pc # "idle" => fetch[f].context = context
  /\ notices = 0 =>
       /\ (\A f \in Fetches : fetch[f].pc = "idle") => flags = Current
       /\ \A f \in Fetches : fetch[f].pc = "answered" => fetch[f].answer = Current

FollowInv == ~doubt /\ init # "idle" => Follows

LEMMA RequestFacts ==
  ASSUME NEW calls, CallsTyped(calls), NEW f \in Fetches, NEW by \in {"init", "retry", "context"},
         NEW ctx \in Contexts, Requests(calls, f, by, ctx)
  PROVE  /\ CallsTyped(fetch') /\ controller' \in Fetches \union {NoFetch}
         /\ ctx = context' /\ Alone(calls, f) => Follows'
<1> DEFINE new == [by |-> by, pc |-> "sent", context |-> ctx, attempt |-> 1, answer |-> NoFlags]
<1>1. fetch' = [calls EXCEPT ![f] = new] /\ controller' = f
  BY DEF Requests
<1>2. new \in FetchType /\ new.pc = "sent" /\ new.context = ctx
  BY WsBounds DEF FetchType
<1> HIDE DEF new
<1>3. /\ fetch' \in [Fetches -> FetchType] /\ fetch'[f] = new
      /\ \A g \in Fetches : g # f => fetch'[g] = calls[g]
  BY <1>1, <1>2 DEF CallsTyped
<1>4. CallsTyped(fetch')
  BY <1>2, <1>3 DEF CallsTyped
<1>5. ASSUME ctx = context', Alone(calls, f) PROVE Follows'
  BY <1>1, <1>2, <1>3, <1>5 DEF Follows, Alone
<1> QED BY <1>1, <1>4, <1>5

LEMMA StartsFacts ==
  ASSUME NEW calls, CallsTyped(calls), NEW f \in Fetches, NEW by \in {"init", "retry", "context"},
         NEW ctx \in Contexts, Starts(calls, f, by, ctx)
  PROVE  /\ CallsTyped(fetch') /\ controller' \in Fetches \union {NoFetch} /\ doubt' \in BOOLEAN
         /\ ctx = context' => FollowInv'
<1>1. Requests(calls, f, by, ctx) /\ doubt' = ~Alone(calls, f)
  BY DEF Starts
<1>2. /\ CallsTyped(fetch') /\ controller' \in Fetches \union {NoFetch}
      /\ ctx = context' /\ Alone(calls, f) => Follows'
  BY <1>1, RequestFacts
<1> QED BY <1>1, <1>2 DEF FollowInv, Alone

LEMMA FreeFacts == \A calls : \A f \in Free(calls) : f \in Fetches /\ calls[f].pc = "idle"
BY OneOfFacts DEF Free

(* Nothing of the fetches moves.                                             *)
LEMMA FetchAlone ==
  ASSUME FetchInv, FollowInv, init' # "idle" => init # "idle",
         UNCHANGED <<flags, fetch, controller, context, version, faults, notices, doubt, apiKey>>,
         status' \in {"NOT_READY", "READY", "STALE", "ERROR"}, closed' \in {"no", "flushing", "yes"}
  PROVE  FetchInv' /\ FollowInv'
BY DEF FetchInv, FollowInv, Follows, Current

(* The messages under way are lost: if there were any the flags are in doubt. *)
LEMMA MessagesLost ==
  ASSUME FetchInv, FollowInv, init' # "idle" => init # "idle",
         UNCHANGED <<flags, fetch, controller, context, version, faults, apiKey, closed>>,
         notices' \in {notices, 0}, doubt' = (doubt \/ notices' # notices),
         status' \in {"NOT_READY", "READY", "STALE", "ERROR"}
  PROVE  FetchInv' /\ FollowInv'
<1>1. notices' \in 0 .. version /\ doubt' \in BOOLEAN
  BY DEF FetchInv
<1>2. ~doubt' => notices' = notices /\ ~doubt
  OBVIOUS
<1> QED BY <1>1, <1>2 DEF FetchInv, FollowInv, Follows, Current

-----------------------------------------------------------------------------
(* The steps of the evaluations                                              *)

LEMMA StartsKeeps ==
  ASSUME FetchInv, NEW calls, CallsTyped(calls), NEW f \in Fetches, NEW by \in {"init", "retry", "context"},
         context' \in Contexts, Starts(calls, f, by, context'),
         flags' = flags, UNCHANGED version, faults' \in 0 .. MaxFetchFaults, notices' \in 0 .. version,
         status' \in {"NOT_READY", "READY", "STALE", "ERROR"}, closed' \in {"no", "flushing", "yes"}
  PROVE  FetchInv' /\ FollowInv'
<1>1. /\ CallsTyped(fetch') /\ controller' \in Fetches \union {NoFetch} /\ doubt' \in BOOLEAN
      /\ FollowInv'
  BY StartsFacts
<1> QED BY <1>1 DEF FetchInv

LEMMA InitializeFetches ==
  ASSUME FetchInv, Initialize
  PROVE  FetchInv' /\ FollowInv'
<1>1. UNCHANGED <<flags, context, version, faults, status, notices, closed>>
  BY DEF Initialize, envVars
<1>2. PICK f \in Free(fetch) : Starts(fetch, f, "init", context)
  BY DEF Initialize
<1> QED BY <1>1, <1>2, FreeFacts, StartsKeeps DEF FetchInv

(* The retry runs for the context initialize() was called with.              *)
LEMMA InitFailsFetches ==
  ASSUME InitInv, FetchInv, init = "pending", NEW w, NEW f \in Fetches, initFails(w, fetch, f),
         UNCHANGED <<flags, context, version, notices, closed>>, faults' \in 0 .. MaxFetchFaults
  PROVE  FetchInv' /\ FollowInv'
<1>1. /\ status' = "READY" /\ Requests(fetch, f, "retry", argument)
      /\ doubt' = (argument # context \/ ~Alone(fetch, f))
  BY DEF initFails
<1>2. argument \in Contexts
  BY DEF InitInv, InitTypeOK
<1>3. /\ CallsTyped(fetch') /\ controller' \in Fetches \union {NoFetch}
      /\ argument = context' /\ Alone(fetch, f) => Follows'
  BY <1>1, <1>2, RequestFacts DEF FetchInv
<1>4. doubt' \in BOOLEAN /\ (~doubt' => argument = context' /\ Alone(fetch, f))
  BY <1>1 DEF Alone
<1>5. FollowInv'
  BY <1>3, <1>4 DEF FollowInv
<1> QED BY <1>1, <1>3, <1>4, <1>5 DEF FetchInv

LEMMA FetchOkFetches ==
  ASSUME InitInv, FetchInv, FollowInv, NEW f \in Fetches, FetchOk(f)
  PROVE  FetchInv' /\ FollowInv'
<1>1. /\ fetch[f].pc = "answered" /\ flags' = fetch[f].answer /\ fetch' = [fetch EXCEPT ![f] = Idle]
      /\ UNCHANGED <<apiKey, controller, context, version, faults, notices, doubt, closed>>
      /\ status' \in {status, "READY"}
      /\ init' # "idle" => init # "idle"
  <2>1. \/ halfDone("fetch")
        \/ status' = "READY" /\ UNCHANGED initVars
        \/ UNCHANGED <<status, initVars>>
    BY DEF FetchOk
  <2>2. status' \in {status, "READY"} /\ (init' # "idle" => init # "idle")
    BY <2>1 DEF halfDone, initVars
  <2> QED BY <2>2 DEF FetchOk, wsVars, envVars
<1>2. Idle \in FetchType /\ Idle.pc = "idle"
  BY WsBounds DEF Idle, FetchType
<1>3. /\ fetch' \in [Fetches -> FetchType] /\ fetch'[f] = Idle
      /\ \A g \in Fetches : g # f => fetch'[g] = fetch[g]
  BY <1>1, <1>2 DEF FetchInv, CallsTyped
<1>4. CallsTyped(fetch')
  BY <1>2, <1>3 DEF FetchInv, CallsTyped
<1>5. flags' \in Results
  BY <1>1 DEF FetchInv, CallsTyped
<1>6. ASSUME Follows PROVE Follows'
  <2>1. \A g \in Fetches : fetch'[g].pc = "idle"
    BY <1>1, <1>2, <1>3, <1>6 DEF Follows
  <2>2. notices' = 0 => flags' = Current'
    BY <1>1, <1>6 DEF Follows, Current
  <2> QED BY <2>1, <2>2 DEF Follows
<1>7. FetchInv'
  BY <1>1, <1>4, <1>5 DEF FetchInv
<1> QED BY <1>1, <1>6, <1>7 DEF FollowInv

(* The calls change, and the flags are in doubt or the calls are as before.  *)
LEMMA DoubtKeeps ==
  ASSUME FetchInv, CallsTyped(fetch'), controller' \in Fetches \union {NoFetch},
         UNCHANGED <<flags, context>>, version' \in 0 .. MaxVersion, notices' \in 0 .. version',
         faults' \in 0 .. MaxFetchFaults, doubt' = TRUE,
         status' \in {"NOT_READY", "READY", "STALE", "ERROR"}, closed' \in {"no", "flushing", "yes"}
  PROVE  FetchInv' /\ FollowInv'
BY DEF FetchInv, FollowInv

LEMMA RejectedFetches ==
  ASSUME InitInv, FetchInv, FollowInv, NEW f \in Fetches, fetch[f].pc # "idle", rejected(f),
         UNCHANGED <<flags, context, version, notices, closed>>, faults' \in 0 .. MaxFetchFaults
  PROVE  FetchInv' /\ FollowInv'
<1>1. CASE init = "pending" /\ initFails(World, fetch, f)
  BY <1>1, InitFailsFetches
<1>2. CASE /\ fetch' = [fetch EXCEPT ![f] = Idle]
           /\ doubt' = TRUE
           /\ UNCHANGED <<apiKey, initVars, controller, status>>
  <2>1. Idle \in FetchType /\ Idle.pc = "idle"
    BY WsBounds DEF Idle, FetchType
  <2>2. CallsTyped(fetch')
    BY <1>2, <2>1 DEF FetchInv, CallsTyped
  <2> QED BY <1>2, <2>2, DoubtKeeps DEF FetchInv
<1>3. CASE /\ status' = "ERROR"
           /\ fetch' = [fetch EXCEPT ![f].pc = "delay"]
           /\ UNCHANGED <<apiKey, initVars, controller, doubt>>
  <2>1. /\ fetch' \in [Fetches -> FetchType]
        /\ fetch'[f].pc = "delay" /\ fetch'[f].context = fetch[f].context
        /\ \A g \in Fetches : g # f => fetch'[g] = fetch[g]
    BY <1>3 DEF FetchInv, CallsTyped, FetchType
  <2>2. CallsTyped(fetch')
    BY <2>1 DEF FetchInv, CallsTyped
  <2>3. FetchInv'
    BY <1>3, <2>2 DEF FetchInv
  <2>4. Follows => Follows'
    BY <1>3, <2>1 DEF Follows, Current
  <2> QED BY <1>3, <2>3, <2>4 DEF FollowInv, initVars
<1> QED BY <1>1, <1>2, <1>3 DEF rejected

LEMMA FetchFailsFetches ==
  ASSUME InitInv, FetchInv, FollowInv, NEW f \in Fetches, FetchFails(f) \/ FetchAborted(f)
  PROVE  FetchInv' /\ FollowInv'
<1>1. CASE FetchFails(f)
  <2>1. fetch[f].pc # "idle" /\ rejected(f) /\ UNCHANGED <<flags, context, version, notices, closed>>
    BY <1>1 DEF FetchFails
  <2>2. faults' \in 0 .. MaxFetchFaults
    BY <1>1, FetchBounds DEF FetchFails, FetchInv
  <2> QED BY <2>1, <2>2, RejectedFetches
<1>2. CASE FetchAborted(f)
  <2>1. fetch[f].pc # "idle" /\ rejected(f) /\ UNCHANGED <<flags, context, version, notices, closed, faults>>
    BY <1>2 DEF FetchAborted, envVars
  <2> QED BY <2>1, RejectedFetches DEF FetchInv
<1> QED BY <1>1, <1>2

LEMMA FetchDelayFetches ==
  ASSUME FetchInv, FollowInv, NEW f \in Fetches, FetchDelay(f)
  PROVE  FetchInv' /\ FollowInv'
<1>1. /\ fetch[f].pc = "delay"
      /\ UNCHANGED <<apiKey, init, flags, context, version, faults, notices, closed>>
  BY DEF FetchDelay, wsVars, initVars, envVars
<1>2. CASE /\ fetch[f].attempt < MaxRetries
           /\ fetch' = [fetch EXCEPT ![f].pc = "sent", ![f].attempt = @ + 1, ![f].answer = NoFlags]
           /\ controller' = f
           /\ UNCHANGED <<doubt, status>>
  <2> DEFINE new == [fetch[f] EXCEPT !.pc = "sent", !.attempt = @ + 1, !.answer = NoFlags]
  <2>1. new \in FetchType /\ new.pc = "sent" /\ new.context = fetch[f].context
    BY <1>2, WsBounds DEF FetchInv, CallsTyped, FetchType
  <2>2. fetch' = [fetch EXCEPT ![f] = new]
    BY <1>2
  <2> HIDE DEF new
  <2>3. /\ fetch' \in [Fetches -> FetchType] /\ fetch'[f] = new
        /\ \A g \in Fetches : g # f => fetch'[g] = fetch[g]
    BY <2>1, <2>2 DEF FetchInv, CallsTyped
  <2>4. CallsTyped(fetch')
    BY <1>1, <2>1, <2>3 DEF FetchInv, CallsTyped
  <2>5. FetchInv'
    BY <1>1, <1>2, <2>4 DEF FetchInv
  <2>6. Follows => Follows'
    BY <1>1, <2>1, <2>3 DEF Follows, Current
  <2> QED BY <1>1, <1>2, <2>5, <2>6 DEF FollowInv
<1>3. CASE /\ fetch' = [fetch EXCEPT ![f] = Idle]
           /\ doubt' = TRUE
           /\ status' \in {"READY", status}
           /\ UNCHANGED controller
  <2>1. Idle \in FetchType /\ Idle.pc = "idle"
    BY WsBounds DEF Idle, FetchType
  <2>2. CallsTyped(fetch')
    BY <1>3, <2>1 DEF FetchInv, CallsTyped
  <2> QED BY <1>1, <1>3, <2>2, DoubtKeeps DEF FetchInv
<1> QED BY <1>2, <1>3 DEF FetchDelay

LEMMA OnContextChangeFetches ==
  ASSUME FetchInv, OnContextChange
  PROVE  FetchInv' /\ FollowInv'
<1>1. /\ context' \in Contexts /\ status' = "STALE"
      /\ UNCHANGED <<flags, version, faults, notices, closed>>
  BY DEF OnContextChange
<1>2. PICK f \in Free(fetch) : Starts(fetch, f, "context", context')
  BY DEF OnContextChange
<1> QED BY <1>1, <1>2, FreeFacts, StartsKeeps DEF FetchInv

LEMMA OnMessageFetches ==
  ASSUME FetchInv, OnMessage
  PROVE  FetchInv' /\ FollowInv'
<1>1. /\ notices > 0 /\ notices' = notices - 1
      /\ UNCHANGED <<flags, context, version, faults, status, closed>>
  BY DEF OnMessage, envVars
<1>2. notices' \in 0 .. version
  BY <1>1 DEF FetchInv
<1>3. CASE \E f \in Free(fetch) : Starts(fetch, f, "retry", context)
  BY <1>1, <1>2, <1>3, FreeFacts, StartsKeeps DEF FetchInv
<1>4. CASE doubt' = TRUE /\ UNCHANGED <<fetch, controller>>
  BY <1>1, <1>2, <1>4, DoubtKeeps DEF FetchInv
<1> QED BY <1>3, <1>4 DEF OnMessage

LEMMA ContinuesFetches ==
  ASSUME InitInv, FetchInv, FollowInv, init # "idle", NEW handler, NEW s, callerContinues(handler, s),
         UNCHANGED <<flags, context, version, faults, apiKey, closed>>, notices' \in {notices, 0}
  PROVE  FetchInv' /\ FollowInv'
<1>1. notices' \in 0 .. version
  BY DEF FetchInv
<1>2. status' \in {status, "READY"}
  <2>1. halfDone("connect") \/ UNCHANGED status
    BY DEF callerContinues
  <2> QED BY <2>1 DEF halfDone
<1>3. CASE \E f \in Free(fetch) : Starts(fetch, f, "retry", context)
  BY <1>1, <1>2, <1>3, FreeFacts, StartsKeeps DEF FetchInv
<1>4. CASE UNCHANGED <<fetch, controller>> /\ doubt' = (doubt \/ notices' # notices)
  BY <1>2, <1>4, MessagesLost DEF FetchInv
<1> QED BY <1>3, <1>4 DEF callerContinues

LEMMA WebsocketFetches ==
  ASSUME SocketInv, InitInv, FetchInv, FollowInv, NEW s \in Sockets,
         WebsocketOpens(s) \/ WebsocketCloses(s) \/ WebsocketErrors(s)
  PROVE  FetchInv' /\ FollowInv'
<1>1. /\ socket[s].state # "closed"
      /\ UNCHANGED <<flags, context, version, faults, apiKey, closed>>
      /\ notices' \in {notices, 0}
  BY DEF WebsocketOpens, WebsocketCloses, WebsocketErrors, SocketOpens, SocketCloses, SocketErrors,
         flagVars, envVars
<1>2. init # "idle"
  BY <1>1, WorldFacts DEF InitInv
<1>3. callerContinues(socket[s].onopen, s) \/ callerContinues(socket[s].onclose, s)
  BY DEF WebsocketOpens, WebsocketCloses, WebsocketErrors
<1> QED BY <1>1, <1>2, <1>3, ContinuesFetches

LEMMA InitConnectTimesOutFetches ==
  ASSUME InitInv, FetchInv, FollowInv, NEW t \in Tasks, InitConnectTimesOut(t)
  PROVE  FetchInv' /\ FollowInv'
<1> DEFINE left == [World EXCEPT !.task = [@ EXCEPT ![t] = NoTask]]
<1>1. UNCHANGED <<flags, context, version, faults, notices, closed>>
  BY DEF InitConnectTimesOut, envVars
<1>2. CASE init = "pending" /\ \E f \in Free(fetch) : initFails(left, fetch, f)
  BY <1>1, <1>2, FreeFacts, InitFailsFetches DEF FetchInv
<1>3. CASE UNCHANGED <<apiKey, gaveUp, initVars, fetch, controller, status, doubt>>
  BY <1>1, <1>3, FetchAlone DEF FetchInv, initVars
<1> QED BY <1>2, <1>3 DEF InitConnectTimesOut

LEMMA SetApiKeyFetches ==
  ASSUME FetchInv, SetApiKey
  PROVE  FetchInv' /\ FollowInv'
<1> DEFINE aborts == controller # NoFetch /\ fetch[controller].pc \in {"sent", "answered"}
           aborted == IF aborts THEN [fetch EXCEPT ![controller].pc = "aborted"] ELSE fetch
<1>1. UNCHANGED <<flags, context, version, faults, status, notices, closed>>
  BY DEF SetApiKey, envVars
<1>2. CallsTyped(aborted)
  <2>1. CASE aborts
    <3>1. controller \in Fetches
      BY <2>1 DEF FetchInv
    <3>2. aborted = [fetch EXCEPT ![controller].pc = "aborted"]
      BY <2>1
    <3> HIDE DEF aborted
    <3>3. /\ aborted \in [Fetches -> FetchType]
          /\ aborted[controller].pc = "aborted" /\ aborted[controller].context = fetch[controller].context
          /\ \A g \in Fetches : g # controller => aborted[g] = fetch[g]
      BY <3>1, <3>2 DEF FetchInv, CallsTyped, FetchType
    <3> QED BY <2>1, <3>1, <3>3 DEF FetchInv, CallsTyped
  <2>2. CASE ~aborts
    BY <2>2 DEF FetchInv
  <2> QED BY <2>1, <2>2
<1>3. IF websocket = NoSocket
        THEN \E f \in Free(aborted) : Starts(aborted, f, "retry", context)
        ELSE fetch' = aborted /\ controller' = NoFetch /\ doubt' = TRUE
  BY DEF SetApiKey
<1> HIDE DEF aborted
<1>4. CASE \E f \in Free(aborted) : Starts(aborted, f, "retry", context)
  BY <1>1, <1>2, <1>4, FreeFacts, StartsKeeps DEF FetchInv
<1>5. CASE fetch' = aborted /\ controller' = NoFetch /\ doubt' = TRUE
  BY <1>1, <1>2, <1>5, DoubtKeeps DEF FetchInv
<1> QED BY <1>3, <1>4, <1>5

LEMMA EvaluatesFetches ==
  ASSUME SocketInv, FetchInv, FollowInv, NEW f \in Fetches, Evaluates(f)
  PROVE  FetchInv' /\ FollowInv'
<1> DEFINE answer == [context |-> fetch[f].context, key |-> apiKey, version |-> version]
<1>1. /\ fetch[f].pc = "sent"
      /\ fetch' = [fetch EXCEPT ![f].pc = "answered", ![f].answer = answer]
      /\ UNCHANGED <<apiKey, init, flags, controller, context, version, faults, status, notices, doubt, closed>>
  BY DEF Evaluates, wsVars, initVars, envVars
<1>2. answer \in Results /\ (fetch[f].context = context => answer = Current)
  BY <1>1 DEF Results, FetchInv, CallsTyped, SocketInv, Current
<1> HIDE DEF answer
<1>3. /\ fetch' \in [Fetches -> FetchType]
      /\ fetch'[f].pc = "answered" /\ fetch'[f].answer = answer /\ fetch'[f].context = fetch[f].context
      /\ \A g \in Fetches : g # f => fetch'[g] = fetch[g]
  BY <1>1, <1>2 DEF FetchInv, CallsTyped, FetchType
<1>4. CallsTyped(fetch')
  BY <1>1, <1>2, <1>3 DEF FetchInv, CallsTyped
<1>5. FetchInv'
  BY <1>1, <1>4 DEF FetchInv
<1>6. Current' = Current
  BY <1>1 DEF Current
<1>7. Follows => Follows'
  BY <1>1, <1>2, <1>3, <1>6 DEF Follows
<1> QED BY <1>1, <1>5, <1>7 DEF FollowInv

LEMMA FlagsChangeFetches ==
  ASSUME FetchInv, FollowInv, FlagsChange
  PROVE  FetchInv' /\ FollowInv'
<1>1. /\ version < MaxVersion /\ version' = version + 1
      /\ IF Open THEN notices' = notices + 1 /\ UNCHANGED doubt ELSE doubt' = TRUE /\ UNCHANGED notices
      /\ UNCHANGED <<apiKey, init, flags, fetch, controller, context, faults, status, closed>>
  BY DEF FlagsChange, wsVars, initVars, flagVars
<1>2. version' \in 0 .. MaxVersion /\ notices' \in 0 .. version'
  BY <1>1, FetchBounds DEF FetchInv
<1>3. CASE Open
  <2>1. notices' # 0
    BY <1>1, <1>3 DEF FetchInv
  <2>2. FetchInv'
    BY <1>1, <1>2, <1>3 DEF FetchInv
  <2>3. Follows => Follows'
    BY <1>1, <2>1 DEF Follows
  <2> QED BY <1>1, <1>3, <2>2, <2>3 DEF FollowInv
<1>4. CASE ~Open
  BY <1>1, <1>2, <1>4, DoubtKeeps DEF FetchInv
<1> QED BY <1>3, <1>4

LEMMA QuietFetches ==
  ASSUME FetchInv, FollowInv,
         UNCHANGED <<apiKey, initVars, flagVars, envVars, notices, doubt>>,
         status' \in {status, "STALE"}, closed' \in {closed, "flushing", "yes"}
  PROVE  FetchInv' /\ FollowInv'
<1>1. UNCHANGED <<flags, fetch, controller, context, version, faults, notices, doubt, apiKey, init>>
  BY DEF initVars, flagVars, envVars
<1> QED BY <1>1, FetchAlone DEF FetchInv

-----------------------------------------------------------------------------
(* The theorems                                                              *)

IInv == SocketInv /\ InitInv /\ FetchInv /\ FollowInv

LEMMA InitIInv == Init => IInv
<1> SUFFICES ASSUME Init PROVE IInv
  OBVIOUS
<1> USE DEF Init, WsInit
<1>1. /\ World.socket = socket /\ World.current = websocket /\ World.task = task /\ World.strays = strays
      /\ World = [socket |-> socket, current |-> websocket, task |-> task, strays |-> strays]
  BY DEF World
<1>2. /\ \A s \in Sockets : socket[s] = Blank
      /\ \A t \in Tasks : task[t] = NoTask
      /\ socket \in [Sockets -> SocketType] /\ task \in [Tasks -> TaskType]
  BY NoTaskTyped
<1>3. World \in WorldType
  <2>1. websocket \in Sockets \union {NoSocket} /\ strays \in SUBSET Sockets
    OBVIOUS
  <2> QED BY <1>1, <1>2, <2>1, WorldOf
<1>4. Shaped(World) /\ Apart(World)
  <2>1. /\ \A s \in Sockets : World.socket[s].state = "closed" /\ s \notin World.strays
        /\ \A t \in Tasks : World.task[t].pc = "idle" /\ World.task[t].socket = NoSocket
        /\ World.current \notin Sockets /\ World.strays = {}
    BY <1>1, <1>2, PlacesAreNot DEF Blank, NoTask
  <2> QED BY <1>3, <2>1 DEF Shaped, SocketOK, TaskOK, Apart
<1>5. KeyIn(World, apiKey) /\ InitsWait(World)
  BY <1>1, <1>2 DEF KeyIn, InitsWait, Blank, NoTask
<1>6. SocketInv
  BY <1>4, <1>5, PlacesAreNot, WsBounds DEF SocketInv
<1>7. InitInv
  BY <1>2, <1>5, PlacesAreNot DEF InitInv, InitTypeOK, NoTask
<1>8. Idle \in FetchType /\ Idle.pc = "idle"
  BY WsBounds DEF Idle, FetchType
<1>9. CallsTyped(fetch)
  BY <1>8 DEF CallsTyped
<1>10. version \in 0 .. MaxVersion /\ notices \in 0 .. version /\ faults \in 0 .. MaxFetchFaults
  BY FetchBounds
<1>11. FetchInv
  BY <1>9, <1>10 DEF FetchInv
<1> QED BY <1>6, <1>7, <1>11 DEF IInv, FollowInv

(* The steps that leave the websocket and initialize() alone.                *)
LEMMA ElsewhereKeeps ==
  ASSUME IInv, UNCHANGED <<wsVars, initVars>>
  PROVE  SocketInv' /\ InitInv'
BY SocketsAlone, InitAlone DEF IInv, wsVars, initVars, SocketInv

LEMMA StepKeeps == IInv /\ [Next]_vars => IInv'
<1> SUFFICES ASSUME IInv, [Next]_vars PROVE IInv'
  OBVIOUS
<1> USE DEF IInv
<1>1. CASE Initialize
  BY <1>1, InitializeKeeps, InitializeFetches DEF FetchInv
<1>2. CASE OnContextChange
  BY <1>2, ElsewhereKeeps, OnContextChangeFetches DEF OnContextChange
<1>3. CASE OnMessage
  BY <1>3, ElsewhereKeeps, OnMessageFetches DEF OnMessage
<1>4. CASE SetApiKey
  BY <1>4, SetApiKeyKeeps, SetApiKeyFetches
<1>5. CASE OnClose
  BY <1>5, ElsewhereKeeps, QuietFetches DEF OnClose, wsVars
<1>6. CASE OnCloseContinues
  BY <1>6, OnCloseContinuesKeeps, QuietFetches DEF OnCloseContinues
<1>7. ASSUME NEW f \in Fetches, FetchOk(f) PROVE IInv'
  BY <1>7, FetchOkKeeps, FetchOkFetches
<1>8. ASSUME NEW f \in Fetches, FetchFails(f) PROVE IInv'
  <2>1. rejected(f) /\ UNCHANGED wsFaults
    BY <1>8 DEF FetchFails
  <2> QED BY <1>8, <2>1, RejectedKeeps, FetchFailsFetches
<1>9. ASSUME NEW f \in Fetches, FetchAborted(f) PROVE IInv'
  <2>1. rejected(f) /\ UNCHANGED wsFaults
    BY <1>9 DEF FetchAborted
  <2> QED BY <1>9, <2>1, RejectedKeeps, FetchFailsFetches
<1>10. ASSUME NEW f \in Fetches, FetchDelay(f) PROVE IInv'
  BY <1>10, ElsewhereKeeps, FetchDelayFetches DEF FetchDelay
<1>11. ASSUME NEW f \in Fetches, Evaluates(f) PROVE IInv'
  BY <1>11, ElsewhereKeeps, EvaluatesFetches DEF Evaluates
<1>12. ASSUME NEW s \in Sockets, WebsocketOpens(s) PROVE IInv'
  BY <1>12, WebsocketOpensKeeps, WebsocketFetches
<1>13. ASSUME NEW s \in Sockets, WebsocketCloses(s) PROVE IInv'
  BY <1>13, WebsocketClosesKeeps, WebsocketFetches
<1>14. ASSUME NEW s \in Sockets, WebsocketErrors(s) PROVE IInv'
  BY <1>14, WebsocketErrorsKeeps, WebsocketFetches
<1>15. ASSUME NEW t \in Tasks, ReconnectDelay(t) PROVE IInv'
  BY <1>15, ReconnectDelayKeeps, QuietFetches DEF ReconnectDelay, RetryDelay
<1>16. ASSUME NEW t \in Tasks, ConnectTimesOut(t) PROVE IInv'
  BY <1>16, ConnectTimesOutKeeps, QuietFetches DEF ConnectTimesOut, WaitTimesOut
<1>17. ASSUME NEW t \in Tasks, InitConnectTimesOut(t) PROVE IInv'
  BY <1>17, InitConnectTimesOutKeeps, InitConnectTimesOutFetches
<1>18. CASE FlagsChange
  BY <1>18, ElsewhereKeeps, FlagsChangeFetches DEF FlagsChange
<1>19. CASE UNCHANGED vars
  BY <1>19, ElsewhereKeeps, QuietFetches DEF vars, wsVars
<1> QED BY <1>1, <1>2, <1>3, <1>4, <1>5, <1>6, <1>7, <1>8, <1>9, <1>10, <1>11, <1>12, <1>13, <1>14,
           <1>15, <1>16, <1>17, <1>18, <1>19 DEF Next

(* There is one socket at most that is not closed, it is _websocket, and it  *)
(* was opened with the key in force, whichever calls of connectWebsocket     *)
(* meet: the loop of a lost socket, the two loops of an error, a rotated     *)
(* key, initialize()'s own.  Only an error of a socket that is being         *)
(* replaced leaves another one open, which was cut off: nothing it receives  *)
(* is looked at (go-feature-flag-web-provider.ts:109-131, :149-152,          *)
(* :427-444).                                                                *)
THEOREM OneSocketInUse == Spec => []SocketsConsistent
<1>1. IInv => SocketsConsistent
  <2> SUFFICES ASSUME IInv PROVE SocketsConsistent
    OBVIOUS
  <2> USE DEF IInv
  <2>1. OneSocket
    BY WorldFacts DEF OneSocket, SocketOK
  <2>2. KeyInForce
    BY WorldFacts DEF KeyInForce, KeyIn
  <2>3. WsTypeOK
    BY WorldFacts DEF WsTypeOK, SocketInv, SocketType, TaskType
  <2>4. notices \in 0 .. MaxVersion
    BY FetchBounds DEF FetchInv
  <2>5. TypeOK
    BY <2>3, <2>4 DEF TypeOK, InitInv, InitTypeOK, FetchInv, CallsTyped, FetchType
  <2> QED BY <2>1, <2>2, <2>5 DEF SocketsConsistent
<1> QED BY <1>1, InitIInv, StepKeeps, PTL DEF Spec

(* Once initialized the websocket is open with its handlers in place, or its *)
(* close will be heard, or a call is on its way to replace it, unless since  *)
(* a connection was last up the loop of reconnectWebsocket ended with STALE  *)
(* or with a rejection, or a connect was refused to a caller that does not   *)
(* look (:136-152, :170-178, :257-276).                                      *)
THEOREM NeverDark == Spec => []NeverSilentlyDark
<1>1. IInv => NeverSilentlyDark
  <2> SUFFICES ASSUME IInv, init = "done", gaveUp = "no", Active = {}
               PROVE  \/ Listening
                      \/ socket[websocket].state = "closing" /\ socket[websocket].onclose = "live"
    BY DEF NeverSilentlyDark
  <2> USE DEF IInv
  <2>1. websocket \in Sockets
    BY DEF InitInv
  <2>2. Lit(World) /\ World.socket = socket /\ World.current = websocket /\ World.task = task
    BY <2>1, WorldFacts DEF SocketInv
  <2>3. \A t \in Tasks : ~GoesOn(World, t)
    BY <2>2 DEF Active, GoesOn
  <2>4. socket[websocket].state \in {"connecting", "open", "closing", "closed"}
    BY <2>1, WorldFacts DEF SocketType
  <2>5. websocket # NoSocket
    BY <2>1, PlacesAreNot
  <2>6. socket[websocket].state \in {"open", "closing"} /\ socket[websocket].onclose = "live"
    BY <2>1, <2>2, <2>3, <2>4, <2>5 DEF Lit, GoesOn
  <2> QED BY <2>5, <2>6 DEF Listening, Open
<1> QED BY <1>1, InitIInv, StepKeeps, PTL DEF Spec

(* Once nothing is under way the flags are those of the context in the SDK,  *)
(* of the key in force and of the version at the relay proxy, unless calls   *)
(* overlapped, one was given up, a change was missed or initialize() retried *)
(* with an older context since a call last ran alone (:92-102, :139-144,     *)
(* :190-195, :297-314, :324-387, :427-448).                                  *)
THEOREM FlagsAreCurrent == Spec => []FlagsFollow
<1>1. IInv => FlagsFollow
  <2> SUFFICES ASSUME IInv, init = "done", Pending = {}, notices = 0, ~doubt
               PROVE  flags = Current
    BY DEF FlagsFollow, Current
  <2>1. \A f \in Fetches : fetch[f].pc = "idle"
    BY DEF Pending
  <2>2. Follows
    BY DEF IInv, FollowInv
  <2> QED BY <2>1, <2>2 DEF Follows
<1> QED BY <1>1, InitIInv, StepKeeps, PTL DEF Spec

-----------------------------------------------------------------------------
(* The data collector                                                        *)

LEMMA EmptyProperties == ToSet(<<>>) = {} /\ IsInjective(<<>>)
BY DEF ToSet, IsInjective

LEMMA AppendedEvent ==
  ASSUME NEW S, NEW list \in Seq(S), NEW e \in S
  PROVE  /\ Append(list, e) \in Seq(S)
         /\ ToSet(Append(list, e)) = ToSet(list) \union {e}
         /\ IsInjective(list) /\ e \notin ToSet(list) => IsInjective(Append(list, e))
<1> DEFINE n == Len(list)
           r == Append(list, e)
<1>1. /\ n \in Nat /\ DOMAIN list = 1..n
      /\ r \in Seq(S) /\ DOMAIN r = 1..(n + 1)
      /\ \A j \in 1..n : r[j] = list[j]
      /\ r[n + 1] = e
  BY AppendProperties, LenProperties
<1> HIDE DEF n, r
<1>2. DOMAIN r = DOMAIN list \union {n + 1} /\ n + 1 \notin DOMAIN list
  BY <1>1
<1>3. ToSet(r) = ToSet(list) \union {e}
  BY <1>1, <1>2 DEF ToSet
<1>4. ASSUME IsInjective(list), e \notin ToSet(list) PROVE IsInjective(r)
  BY <1>1, <1>2, <1>4 DEF ToSet, IsInjective
<1> QED BY <1>1, <1>3, <1>4 DEF r

LEMMA JoinedEvents ==
  ASSUME NEW S, NEW l \in Seq(S), NEW m \in Seq(S)
  PROVE  /\ l \o m \in Seq(S)
         /\ ToSet(l \o m) = ToSet(l) \union ToSet(m)
         /\ IsInjective(l) /\ IsInjective(m) /\ ToSet(l) \intersect ToSet(m) = {} => IsInjective(l \o m)
<1> DEFINE r == l \o m
           a == Len(l)
           b == Len(m)
<1>1. /\ a \in Nat /\ b \in Nat /\ DOMAIN l = 1..a /\ DOMAIN m = 1..b
      /\ r \in Seq(S) /\ DOMAIN r = 1..(a + b)
      /\ \A j \in 1..(a + b) : r[j] = IF j <= a THEN l[j] ELSE m[j - a]
  BY ConcatProperties, LenProperties
<1> HIDE DEF r, a, b
<1>2. ASSUME NEW j \in DOMAIN r PROVE \/ j \in DOMAIN l /\ r[j] = l[j]
                                      \/ j > a /\ j - a \in DOMAIN m /\ r[j] = m[j - a]
  BY <1>1
<1>3. ASSUME NEW j \in DOMAIN l PROVE j \in DOMAIN r /\ r[j] = l[j]
  BY <1>1
<1>4. ASSUME NEW j \in DOMAIN m PROVE j + a \in DOMAIN r /\ r[j + a] = m[j]
  <2>1. j + a \in 1..(a + b) /\ ~(j + a <= a) /\ (j + a) - a = j
    BY <1>1
  <2> QED BY <2>1, <1>1
<1>5. ToSet(r) = ToSet(l) \union ToSet(m)
  <2>1. ToSet(r) \subseteq ToSet(l) \union ToSet(m)
    BY <1>2 DEF ToSet
  <2>2. ToSet(l) \subseteq ToSet(r)
    BY <1>3 DEF ToSet
  <2>3. ToSet(m) \subseteq ToSet(r)
    BY <1>4 DEF ToSet
  <2> QED BY <2>1, <2>2, <2>3
<1>6. ASSUME IsInjective(l), IsInjective(m), ToSet(l) \intersect ToSet(m) = {}
      PROVE  IsInjective(r)
  <2> SUFFICES ASSUME NEW j \in DOMAIN r, NEW k \in DOMAIN r, r[j] = r[k] PROVE j = k
    BY DEF IsInjective
  <2>1. CASE j \in DOMAIN l /\ k \in DOMAIN l
    BY <2>1, <1>3, <1>6 DEF IsInjective
  <2>2. CASE j > a /\ k > a
    <3>1. j - a \in DOMAIN m /\ k - a \in DOMAIN m /\ m[j - a] = m[k - a]
      BY <2>2, <1>1, <1>2
    <3>2. j - a = k - a
      BY <3>1, <1>6 DEF IsInjective
    <3> QED BY <3>2, <1>1
  <2>3. ASSUME NEW p \in DOMAIN r, NEW q \in DOMAIN r, p \in DOMAIN l, q > a, r[p] = r[q]
        PROVE  FALSE
    <3>1. r[p] \in ToSet(l)
      BY <2>3, <1>3 DEF ToSet
    <3>2. q - a \in DOMAIN m /\ r[q] = m[q - a]
      BY <2>3, <1>1, <1>2
    <3>3. r[q] \in ToSet(m)
      BY <3>2 DEF ToSet
    <3> QED BY <2>3, <3>1, <3>3, <1>6
  <2> QED BY <2>1, <2>2, <2>3, <1>2
<1> QED BY <1>1, <1>5, <1>6 DEF r

(* Events spread over places, each in one of them.                           *)
Spread(lists, events) ==
  /\ lists \in [Places -> Seq(Events)]
  /\ \A p \in Places : IsInjective(lists[p])
  /\ \A p, q \in Places : p # q => ToSet(lists[p]) \intersect ToSet(lists[q]) = {}
  /\ \A e : e \in events <=> \E p \in Places : e \in ToSet(lists[p])

(* What one place had is put behind what another one has.                    *)
LEMMA SpreadWhenMoved ==
  ASSUME NEW lists, NEW events, Spread(lists, events), NEW from \in Places, NEW to \in Places, from # to,
         NEW moved \in [Places -> Seq(Events)],
         moved[to] = lists[to] \o lists[from], moved[from] = <<>>,
         \A p \in Places : p # from /\ p # to => moved[p] = lists[p]
  PROVE  Spread(moved, events)
<1> USE DEF Spread
<1>1. /\ ToSet(moved[to]) = ToSet(lists[to]) \union ToSet(lists[from]) /\ IsInjective(moved[to])
  BY JoinedEvents
<1>2. ToSet(moved[from]) = {} /\ IsInjective(moved[from])
  BY EmptyProperties
<1>3. \A p \in Places : IsInjective(moved[p])
  BY <1>1, <1>2
<1>4. ASSUME NEW p \in Places, NEW q \in Places, p # q PROVE ToSet(moved[p]) \intersect ToSet(moved[q]) = {}
  BY <1>1, <1>2, <1>4
<1>5. ASSUME NEW e PROVE e \in events <=> \E p \in Places : e \in ToSet(moved[p])
  BY <1>1, <1>2
<1> QED BY <1>3, <1>4, <1>5

LEMMA SpreadWhenAdded ==
  ASSUME NEW lists, NEW events, Spread(lists, events), NEW to \in Places, NEW e \in Events, e \notin events,
         NEW more \in [Places -> Seq(Events)], more[to] = Append(lists[to], e),
         \A p \in Places : p # to => more[p] = lists[p]
  PROVE  Spread(more, events \union {e})
<1> USE DEF Spread
<1>1. /\ ToSet(more[to]) = ToSet(lists[to]) \union {e} /\ IsInjective(more[to])
  BY AppendedEvent
<1>2. \A p \in Places : e \notin ToSet(lists[p])
  OBVIOUS
<1>3. \A p \in Places : IsInjective(more[p])
  BY <1>1, <1>2
<1>4. ASSUME NEW p \in Places, NEW q \in Places, p # q PROVE ToSet(more[p]) \intersect ToSet(more[q]) = {}
  <2>1. ASSUME NEW d, d \in ToSet(more[p]), d \in ToSet(more[q]) PROVE FALSE
    <3>1. \A r \in Places : d \in ToSet(more[r]) => d \in ToSet(lists[r]) \/ (r = to /\ d = e)
      BY <1>1
    <3>2. ~(d \in ToSet(lists[p]) /\ d \in ToSet(lists[q]))
      BY <1>4
    <3> QED BY <1>2, <1>4, <2>1, <3>1, <3>2
  <2> QED BY <2>1
<1>5. ASSUME NEW d PROVE d \in events \union {e} <=> \E p \in Places : d \in ToSet(more[p])
  BY <1>1
<1> QED BY <1>3, <1>4, <1>5

Held == [p \in Places |-> held(p)]

CollectorInv == CollectorTypeOK /\ Spread(Held, added)

LEMMA PlacesFacts ==
  /\ {"buffer", "taken", "dropped"} \subseteq Places /\ Sends \subseteq Places
  /\ \A s \in Sends : s \notin {"buffer", "taken", "dropped"}
  /\ \A p \in Places : p \in {"buffer", "taken", "dropped"} \/ p \in Sends
BY SendsAreSends DEF Places

LEMMA HeldFacts ==
  /\ Held["buffer"] = buffer /\ Held["taken"] = taken /\ Held["dropped"] = dropped
  /\ \A s \in Sends : Held[s] = send[s]
  /\ \A p \in Places : Held[p] = held(p)
BY PlacesFacts DEF Held, held

LEMMA HeldNext ==
  /\ Held["buffer"]' = buffer' /\ Held["taken"]' = taken' /\ Held["dropped"]' = dropped'
  /\ \A s \in Sends : Held[s]' = send'[s]
  /\ {buffer', taken', dropped'} \subseteq Seq(Events) /\ send' \in [Sends -> Seq(Events)]
       => Held' \in [Places -> Seq(Events)]
<1>1. Held' = [p \in Places |-> IF p = "buffer" THEN buffer' ELSE IF p = "taken" THEN taken'
                                ELSE IF p = "dropped" THEN dropped' ELSE send'[p]]
  BY DEF Held, held
<1> DEFINE h == Held'
<1> HIDE DEF h
<1>2. /\ h["buffer"] = buffer' /\ h["taken"] = taken' /\ h["dropped"] = dropped'
      /\ \A s \in Sends : h[s] = send'[s]
      /\ {buffer', taken', dropped'} \subseteq Seq(Events) /\ send' \in [Sends -> Seq(Events)]
           => h \in [Places -> Seq(Events)]
  BY <1>1, PlacesFacts DEF h
<1> QED BY <1>2 DEF h

(* callGoffDataCollection moves the buffer to a request that was free.       *)
LEMMA CallSpreads ==
  ASSUME CollectorInv, NEW s \in Sends, callGoffDataCollection(s), UNCHANGED <<added, taken, dropped>>
  PROVE  /\ buffer' \in Seq(Events) /\ send' \in [Sends -> Seq(Events)]
         /\ Held' \in [Places -> Seq(Events)] => Spread(Held', added')
<1>1. /\ send[s] = <<>> /\ buffer' = <<>>
      /\ send' = IF buffer = <<>> THEN send ELSE [send EXCEPT ![s] = buffer]
  BY DEF callGoffDataCollection, collectData
<1>2. buffer \in Seq(Events) /\ send \in [Sends -> Seq(Events)] /\ buffer' \in Seq(Events)
  BY <1>1, EmptySeq DEF CollectorInv, CollectorTypeOK
<1>3. /\ send' \in [Sends -> Seq(Events)] /\ send'[s] = buffer
      /\ \A r \in Sends : r # s => send'[r] = send[r]
  BY <1>1, <1>2
<1>4. ASSUME Held' \in [Places -> Seq(Events)] PROVE Spread(Held', added')
  <2>1. /\ Held'["buffer"] = <<>> /\ Held'["taken"] = Held["taken"] /\ Held'["dropped"] = Held["dropped"]
        /\ \A r \in Sends : Held'[r] = send'[r]
    BY <1>1, HeldFacts, HeldNext
  <2>2. send[s] \o buffer = buffer
    BY <1>1, <1>2, ConcatEmptySeq
  <2>3. Held'[s] = Held[s] \o Held["buffer"] /\ s # "buffer" /\ s \in Places /\ "buffer" \in Places
    BY <1>3, <2>1, <2>2, HeldFacts, PlacesFacts
  <2>4. \A p \in Places : p # "buffer" /\ p # s => Held'[p] = Held[p]
    BY <1>3, <2>1, HeldFacts, PlacesFacts
  <2> DEFINE h == Held'
  <2> HIDE DEF h
  <2>5. /\ h \in [Places -> Seq(Events)] /\ h[s] = Held[s] \o Held["buffer"] /\ h["buffer"] = <<>>
        /\ \A p \in Places : p # "buffer" /\ p # s => h[p] = Held[p]
    BY <1>4, <2>1, <2>3, <2>4 DEF h
  <2>6. Spread(Held, added)
    BY DEF CollectorInv
  <2>7. Spread(h, added)
    BY <2>3, <2>5, <2>6, SpreadWhenMoved
  <2> QED BY <2>7 DEF h
<1> QED BY <1>2, <1>3, <1>4

LEMMA SpreadGives == Spread(Held, added) <=>
  /\ Held \in [Places -> Seq(Events)]
  /\ \A p \in Places : IsInjective(held(p))
  /\ \A p, q \in Places : p # q => ToSet(held(p)) \intersect ToSet(held(q)) = {}
  /\ added = UNION {ToSet(held(p)) : p \in Places}
<1>1. \A p \in Places : Held[p] = held(p)
  BY DEF Held
<1>2. (\A e : e \in added <=> \E p \in Places : e \in ToSet(held(p)))
        <=> added = UNION {ToSet(held(p)) : p \in Places}
  <2> DEFINE all == UNION {ToSet(held(p)) : p \in Places}
  <2>1. \A e : e \in all <=> \E p \in Places : e \in ToSet(held(p))
    OBVIOUS
  <2> HIDE DEF all
  <2>2. (\A e : e \in added <=> e \in all) <=> added = all
    OBVIOUS
  <2>3. (\A e : e \in added <=> \E p \in Places : e \in ToSet(held(p))) <=> added = all
    BY <2>1, <2>2
  <2> QED BY <2>3 DEF all
<1>3. Spread(Held, added) <=>
        /\ Held \in [Places -> Seq(Events)]
        /\ \A p \in Places : IsInjective(held(p))
        /\ \A p, q \in Places : p # q => ToSet(held(p)) \intersect ToSet(held(q)) = {}
        /\ \A e : e \in added <=> \E p \in Places : e \in ToSet(held(p))
  BY <1>1 DEF Spread
<1> QED BY <1>2, <1>3

LEMMA CollectorStepKeeps == CollectorInv /\ [CollectorNext]_collectorVars => CollectorInv'
<1> SUFFICES ASSUME CollectorInv, [CollectorNext]_collectorVars PROVE CollectorInv'
  OBVIOUS
<1> DEFINE h == Held'
<1>1. /\ buffer \in Seq(Events) /\ taken \in Seq(Events) /\ dropped \in Seq(Events) /\ <<>> \in Seq(Events)
      /\ send \in [Sends -> Seq(Events)] /\ added \subseteq Events /\ received \subseteq Events
      /\ Spread(Held, added)
  BY EmptySeq DEF CollectorInv, CollectorTypeOK
<1>2. /\ h["buffer"] = buffer' /\ h["taken"] = taken' /\ h["dropped"] = dropped'
      /\ \A s \in Sends : h[s] = send'[s]
      /\ {buffer', taken', dropped'} \subseteq Seq(Events) /\ send' \in [Sends -> Seq(Events)]
           => h \in [Places -> Seq(Events)]
  BY HeldNext
<1>3. h = Held'
  OBVIOUS
<1> HIDE DEF h
<1>4. CASE InitCollector
  <2>1. /\ inits < MaxInits /\ inits' = inits + 1 /\ bgScheduler' = TRUE
        /\ dropped' = dropped \o buffer /\ buffer' = <<>>
        /\ UNCHANGED <<send, closing, added, taken, received, failures>>
    BY <1>4 DEF InitCollector
  <2>2. dropped' \in Seq(Events) /\ inits' \in 0 .. MaxInits
    BY <1>1, <2>1, ConcatProperties, CollectorBounds DEF CollectorInv, CollectorTypeOK
  <2>3. /\ h["dropped"] = Held["dropped"] \o Held["buffer"] /\ h["buffer"] = <<>>
        /\ \A p \in Places : p # "buffer" /\ p # "dropped" => h[p] = Held[p]
    BY <1>2, <2>1, HeldFacts, PlacesFacts
  <2>4. Spread(Held', added')
    <3>1. h \in [Places -> Seq(Events)]
      BY <1>1, <1>2, <2>1, <2>2
    <3>2. Spread(h, added)
      BY <1>1, <2>3, <3>1, PlacesFacts, SpreadWhenMoved
    <3> QED BY <1>3, <2>1, <3>2
  <2> QED BY <1>1, <2>1, <2>2, <2>4 DEF CollectorInv, CollectorTypeOK
<1>5. ASSUME NEW event \in Events, add(event) PROVE CollectorInv'
  <2>1. /\ event \notin added
        /\ UNCHANGED <<bgScheduler, send, closing, inits, taken, dropped, received, failures>>
    BY <1>5 DEF add
  <2>2. CASE UNCHANGED <<buffer, added>>
    <3>1. Held' = Held
      BY <2>1, <2>2 DEF Held, held
    <3> QED BY <1>1, <2>1, <2>2, <3>1 DEF CollectorInv, CollectorTypeOK
  <2>3. CASE buffer' = Append(buffer, event) /\ added' = added \union {event}
    <3>1. buffer' \in Seq(Events)
      BY <1>1, <2>3, AppendProperties
    <3>2. /\ h \in [Places -> Seq(Events)] /\ h["buffer"] = Append(Held["buffer"], event)
          /\ \A p \in Places : p # "buffer" => h[p] = Held[p]
      BY <1>1, <1>2, <2>1, <2>3, <3>1, HeldFacts, PlacesFacts
    <3>3. Spread(h, added')
      BY <1>1, <2>1, <2>3, <3>2, PlacesFacts, SpreadWhenAdded
    <3> QED BY <1>1, <1>3, <2>1, <2>3, <3>1, <3>3 DEF CollectorInv, CollectorTypeOK
  <2> QED BY <1>5, <2>2, <2>3 DEF add
<1>6. CASE Interval
  <2>1. PICK s \in Sends : callGoffDataCollection(s)
    BY <1>6 DEF Interval
  <2>2. UNCHANGED <<bgScheduler, closing, inits, added, taken, dropped, received, failures>>
    BY <1>6 DEF Interval
  <2>3. /\ buffer' \in Seq(Events) /\ send' \in [Sends -> Seq(Events)]
        /\ Held' \in [Places -> Seq(Events)] => Spread(Held', added')
    BY <2>1, <2>2, CallSpreads
  <2>4. h \in [Places -> Seq(Events)]
    BY <1>1, <1>2, <2>2, <2>3
  <2> QED BY <1>1, <1>3, <2>2, <2>3, <2>4 DEF CollectorInv, CollectorTypeOK
<1>7. CASE Close
  <2>1. PICK s \in Sends : callGoffDataCollection(s) /\ closing' = IF send'[s] = <<>> THEN NoSend ELSE s
    BY <1>7 DEF Close
  <2>2. bgScheduler' = FALSE /\ UNCHANGED <<inits, added, taken, dropped, received, failures>>
    BY <1>7 DEF Close
  <2>3. /\ buffer' \in Seq(Events) /\ send' \in [Sends -> Seq(Events)]
        /\ Held' \in [Places -> Seq(Events)] => Spread(Held', added')
    BY <2>1, <2>2, CallSpreads
  <2>4. h \in [Places -> Seq(Events)]
    BY <1>1, <1>2, <2>2, <2>3
  <2> QED BY <1>1, <1>3, <2>1, <2>2, <2>3, <2>4 DEF CollectorInv, CollectorTypeOK
<1>8. ASSUME NEW s \in Sends, SendOk(s) PROVE CollectorInv'
  <2>1. /\ received' = received \union ToSet(send[s])
        /\ taken' = taken \o send[s] /\ send' = [send EXCEPT ![s] = <<>>]
        /\ closing' = IF closing = s THEN NoSend ELSE closing
        /\ UNCHANGED <<buffer, bgScheduler, inits, added, dropped, failures>>
    BY <1>8 DEF SendOk
  <2>2. taken' \in Seq(Events) /\ send' \in [Sends -> Seq(Events)]
    BY <1>1, <2>1, ConcatProperties
  <2>3. ToSet(send[s]) \subseteq Events
    BY <1>1, LenProperties, ElementOfSeq DEF ToSet
  <2>4. /\ h["taken"] = Held["taken"] \o Held[s] /\ h[s] = <<>>
        /\ \A p \in Places : p # s /\ p # "taken" => h[p] = Held[p]
    BY <1>1, <1>2, <2>1, HeldFacts, PlacesFacts
  <2>5. Spread(Held', added')
    <3>1. h \in [Places -> Seq(Events)]
      BY <1>1, <1>2, <2>1, <2>2
    <3>2. Spread(h, added)
      BY <1>1, <2>4, <3>1, PlacesFacts, SpreadWhenMoved
    <3> QED BY <1>3, <2>1, <3>2
  <2> QED BY <1>1, <2>1, <2>2, <2>3, <2>5 DEF CollectorInv, CollectorTypeOK
<1>9. ASSUME NEW s \in Sends, SendFails(s) PROVE CollectorInv'
  <2>1. /\ failures < MaxFailures /\ failures' = failures + 1 /\ buffer' = buffer \o send[s]
        /\ received' \in {received, received \union ToSet(send[s])}
        /\ send' = [send EXCEPT ![s] = <<>>]
        /\ closing' = IF closing = s THEN NoSend ELSE closing
        /\ UNCHANGED <<bgScheduler, inits, added, taken, dropped>>
    BY <1>9 DEF SendFails, putBack
  <2>2. buffer' \in Seq(Events) /\ send' \in [Sends -> Seq(Events)]
    BY <1>1, <2>1, ConcatProperties
  <2>3. ToSet(send[s]) \subseteq Events
    BY <1>1, LenProperties, ElementOfSeq DEF ToSet
  <2>4. /\ h["buffer"] = Held["buffer"] \o Held[s] /\ h[s] = <<>>
        /\ \A p \in Places : p # s /\ p # "buffer" => h[p] = Held[p]
    BY <1>1, <1>2, <2>1, HeldFacts, PlacesFacts
  <2>5. Spread(Held', added')
    <3>1. h \in [Places -> Seq(Events)]
      BY <1>1, <1>2, <2>1, <2>2
    <3>2. Spread(h, added)
      BY <1>1, <2>4, <3>1, PlacesFacts, SpreadWhenMoved
    <3> QED BY <1>3, <2>1, <3>2
  <2>6. failures' \in 0 .. MaxFailures
    BY <2>1, CollectorBounds DEF CollectorInv, CollectorTypeOK
  <2> QED BY <1>1, <2>1, <2>2, <2>3, <2>5, <2>6 DEF CollectorInv, CollectorTypeOK
<1>10. CASE UNCHANGED collectorVars
  <2>1. Held' = Held
    BY <1>10 DEF Held, held, collectorVars
  <2> QED BY <1>10, <2>1 DEF CollectorInv, CollectorTypeOK, collectorVars
<1>11. ASSUME NEW flag \in Flags, after(flag) \/ error(flag) \/ track(flag) PROVE CollectorInv'
  BY <1>5, <1>11 DEF after, error, track, Events
<1> QED BY <1>4, <1>6, <1>7, <1>8, <1>9, <1>10, <1>11 DEF CollectorNext

(* Whatever additions, intervals, failures and close() interleave, an event  *)
(* is in exactly one place: the buffer, one request, acknowledged, or lost   *)
(* to a second init(); no batch is lost and none is put back twice           *)
(* (collector-manager.ts:46-50, 66-80).                                      *)
THEOREM NoCollectedEventLost == CollectorInit /\ [][CollectorNext]_collectorVars => []EventsConserved
<1>1. CollectorInit => CollectorInv
  <2> SUFFICES ASSUME CollectorInit PROVE CollectorInv
    OBVIOUS
  <2>1. <<>> \in Seq(Events)
    BY EmptySeq
  <2>2. CollectorTypeOK
    <3>1. buffer \in Seq(Events) /\ taken \in Seq(Events) /\ dropped \in Seq(Events)
      BY <2>1 DEF CollectorInit
    <3>2. send \in [Sends -> Seq(Events)]
      BY <2>1 DEF CollectorInit
    <3>3. inits \in 0 .. MaxInits /\ failures \in 0 .. MaxFailures
      BY CollectorBounds DEF CollectorInit
    <3>4. bgScheduler \in BOOLEAN /\ closing \in Sends \union {NoSend} /\ added = {} /\ received = {}
      BY DEF CollectorInit
    <3> QED BY <3>1, <3>2, <3>3, <3>4 DEF CollectorTypeOK
  <2>3. \A p \in Places : Held[p] = <<>>
    BY PlacesFacts, HeldFacts DEF CollectorInit
  <2>4. Held \in [Places -> Seq(Events)]
    BY <2>1, <2>3 DEF Held
  <2>5. added = {}
    BY DEF CollectorInit
  <2> QED BY <2>2, <2>3, <2>4, <2>5, EmptyProperties DEF CollectorInv, Spread
<1>2. CollectorInv => EventsConserved
  BY SpreadGives DEF CollectorInv, EventsConserved
<1> QED BY <1>1, <1>2, CollectorStepKeeps, PTL
=============================================================================
