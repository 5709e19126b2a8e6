----------------------------- MODULE SseManager ------------------------------
(* The SSE connections of the OFREP web provider                             *)
(* (libs/providers/ofrep-web/src/lib/sse-manager.ts): one EventSource for    *)
(* each URL, a grace period for interruptions, a debounce for notifications, *)
(* a pause while the page is hidden.  Its owner, OfrepWebProvider, calls     *)
(* connect and dispose and is told by onRefetch, onStale and onError.        *)
(* External: the EventSource of the browser, the page's visibility.  An      *)
(* EventSource that was closed delivers nothing any more; one that nobody    *)
(* closes goes on.  Time is abstracted: an armed timer may fire at any step. *)
EXTENDS Naturals, FiniteSets

CONSTANTS
  Urls,           \* URLs of event streams
  Generations,    \* bound: EventSources of one URL at the same time
  MaxConnects,    \* bound: calls of connect
  MaxErrors       \* bound: errors of EventSources

ASSUME SseBounds ==
  Generations \in Nat \ {0} /\ MaxConnects \in Nat /\ MaxErrors \in Nat

VARIABLES
  source,         \* external: the EventSources and their readyState
  connections,    \* _connections
  urls,           \* _urls
  disposed,       \* _disposed
  stale,          \* _stale
  grace,          \* _gracePeriodTimerId: names a timeout that is pending, and
                  \* the grace timeouts pending
  inactivity,     \* _inactivityTimerId: "unset", "pending", "fired"
  debounce,       \* the debounce timeout is pending
  listening,      \* _visibilityHandler is registered
  hidden,         \* external: the page is hidden
  told,           \* history: what the owner was last told, "off" at first
                  \* and after it asked for no streams
  owed,           \* history: a notification has come, no onRefetch since
  lost,           \* history: an EventSource was dropped without a close
  connects,       \* calls of connect so far
  errors          \* external: errors so far

timerVars == <<grace, inactivity, debounce>>
sseVars == <<source, connections, urls, disposed, stale, timerVars, listening, hidden, told, owed, lost,
          connects, errors>>

Sources == Urls \X (1..Generations)
url(s) == s[1]

SseTypeOK ==
  /\ source \in [Sources -> {"none", "connecting", "open"}]
  /\ connections \subseteq Sources
  /\ urls \subseteq Urls
  /\ disposed \in BOOLEAN /\ stale \in BOOLEAN
  /\ grace \in [handle: BOOLEAN, running: Nat]
  /\ debounce \in BOOLEAN
  /\ inactivity \in {"unset", "pending", "fired"}
  /\ listening \in BOOLEAN /\ hidden \in BOOLEAN
  /\ told \in {"off", "ok", "stale", "error"}
  /\ owed \in BOOLEAN /\ lost \in BOOLEAN
  /\ connects \in 0..MaxConnects /\ errors \in 0..MaxErrors

SseInit ==
  /\ source = [s \in Sources |-> "none"]
  /\ connections = {} /\ urls = {}
  /\ disposed = FALSE /\ stale = FALSE
  /\ grace = [handle |-> FALSE, running |-> 0]
  /\ inactivity = "unset" /\ debounce = FALSE
  /\ listening = FALSE
  /\ hidden \in BOOLEAN
  /\ told = "off" /\ owed = FALSE /\ lost = FALSE
  /\ connects = 0 /\ errors = 0

Live == {s \in Sources : source[s] # "none"}

-----------------------------------------------------------------------------
(* close() on each of some EventSources.  Mutant: on none.                   *)
closingNothing(S) == source

closing(S) == [s \in Sources |-> IF s \in S THEN "none" ELSE source[s]]

(* An EventSource of each of some URLs, beside those there are.              *)
free(existing, u) == {s \in Sources : url(s) = u /\ existing[s] = "none"}
canOpen(existing, U) == \A u \in U : free(existing, u) # {}
fresh(existing, U) ==
  {s \in Sources : url(s) \in U /\ s \in free(existing, url(s))
                     /\ \A r \in free(existing, url(s)) : s[2] <= r[2]}
opening(existing, S) == [s \in Sources |-> IF s \in S THEN "connecting" ELSE existing[s]]

clearGracePeriod ==
  grace' = [handle |-> FALSE, running |-> IF grace.handle THEN grace.running - 1 ELSE grace.running]

(* disconnect().                                                             *)
disconnect ==
  /\ debounce' = FALSE /\ inactivity' = "unset"
  /\ clearGracePeriod
  /\ stale' = FALSE
  /\ listening' = FALSE
  /\ source' = closing(connections)
  /\ connections' = {}
  /\ urls' = {}

(* connect(), with the URLs of the streams it is given.  URLs that are       *)
(* connected already keep their connections.                                 *)
urlsUnchanged(U) == connections # {} /\ urls = U

connect(U) ==
  /\ ~disposed
  /\ connects < MaxConnects
  /\ connects' = connects + 1
  /\ \/ U = {} /\ disconnect /\ told' = "off" /\ owed' = FALSE
     \/ /\ U # {} /\ urlsUnchanged(U)
        /\ UNCHANGED <<source, connections, urls, stale, timerVars, listening, told, owed>>
     \/ /\ U # {} /\ ~urlsUnchanged(U)
        /\ canOpen(closing(connections), U)
        /\ LET new == fresh(closing(connections), U)
           IN source' = opening(closing(connections), new) /\ connections' = new
        /\ urls' = U
        /\ debounce' = FALSE /\ inactivity' = "unset"
        /\ clearGracePeriod
        /\ stale' = FALSE
        /\ listening' = TRUE
        /\ told' = "ok" /\ owed' = FALSE
  /\ UNCHANGED <<disposed, hidden, lost, errors>>

dispose ==
  /\ ~disposed
  /\ disposed' = TRUE
  /\ disconnect
  /\ told' = "off" /\ owed' = FALSE
  /\ UNCHANGED <<hidden, lost, connects, errors>>

-----------------------------------------------------------------------------
(* The handlers of an EventSource, also of one the manager no longer has     *)

(* The connection is back: the grace period ends.                            *)
recovered ==
  /\ stale' = FALSE
  /\ IF stale THEN clearGracePeriod ELSE UNCHANGED grace
  /\ told' = IF stale THEN "ok" ELSE told

handleOpen(s) ==
  /\ source[s] = "connecting"
  /\ source' = [source EXCEPT ![s] = "open"]
  /\ recovered
  /\ UNCHANGED <<connections, urls, disposed, inactivity, debounce, listening, hidden, owed, lost,
                 connects, errors>>

(* A refetchEvaluation event (re)starts the debounce.                        *)
handleMessage(s) ==
  /\ source[s] = "open"
  /\ recovered
  /\ debounce' = TRUE
  /\ owed' = TRUE
  /\ UNCHANGED <<source, connections, urls, disposed, inactivity, listening, hidden, lost, connects, errors>>

(* The browser reconnects by itself: STALE once, and the grace period.       *)
handleTransientError(s) ==
  /\ source[s] # "none"
  /\ errors < MaxErrors
  /\ errors' = errors + 1
  /\ source' = [source EXCEPT ![s] = "connecting"]
  /\ stale' = TRUE
  /\ grace' = IF stale THEN grace ELSE [handle |-> TRUE, running |-> grace.running + 1]
  /\ told' = IF stale THEN told ELSE "stale"
  /\ UNCHANGED <<connections, urls, disposed, inactivity, debounce, listening, hidden, owed, lost, connects>>

(* onError: the owner either keeps the manager or disposes of it at once     *)
(* (OFREPWebProvider._handleSseError); an owner that has disposed of it      *)
(* does not react.                                                           *)
onError ==
  \/ /\ told' = IF disposed THEN told ELSE "error"
     /\ UNCHANGED <<disposed, inactivity, debounce, listening, owed>>
  \/ /\ ~disposed
     /\ disposed' = TRUE
     /\ inactivity' = "unset" /\ debounce' = FALSE /\ listening' = FALSE
     /\ told' = "off" /\ owed' = FALSE

(* The browser gave up: all connections are forgotten.                       *)
handleFatalError(s) ==
  /\ source[s] # "none"
  /\ errors < MaxErrors
  /\ errors' = errors + 1
  /\ source' = closing({s})
  /\ lost' = (lost \/ connections \ {s} # {})
  /\ connections' = {}
  /\ urls' = {}
  /\ stale' = FALSE
  /\ clearGracePeriod
  /\ onError
  /\ UNCHANGED <<hidden, connects>>

-----------------------------------------------------------------------------
(* Timers and visibility                                                     *)

GraceTimer ==
  /\ grace.running > 0
  /\ grace' = [handle |-> FALSE, running |-> grace.running - 1]
  /\ stale' = FALSE
  /\ source' = closing(connections)
  /\ connections' = {}
  /\ urls' = {}
  /\ onError
  /\ UNCHANGED <<hidden, lost, connects, errors>>

DebounceTimer ==
  /\ debounce
  /\ debounce' = FALSE
  /\ owed' = FALSE
  /\ UNCHANGED <<source, connections, urls, disposed, stale, grace, inactivity, listening, hidden, told,
                 lost, connects, errors>>

(* Mutant: a pause forgets the notification that is about to be passed on.   *)
InactivityTimerForgets ==
  /\ inactivity = "pending"
  /\ inactivity' = "fired"
  /\ source' = closing(connections)
  /\ connections' = {}
  /\ debounce' = FALSE
  /\ UNCHANGED <<urls, disposed, stale, grace, listening, hidden, told, owed, lost, connects, errors>>

InactivityTimer ==
  /\ inactivity = "pending"
  /\ inactivity' = "fired"
  /\ source' = closing(connections)
  /\ connections' = {}
  /\ UNCHANGED <<urls, disposed, stale, grace, debounce, listening, hidden, told, owed, lost, connects,
                 errors>>

Hide ==
  /\ ~hidden
  /\ hidden' = TRUE
  /\ inactivity' = IF listening THEN "pending" ELSE inactivity
  /\ UNCHANGED <<source, connections, urls, disposed, stale, grace, debounce, listening, told, owed, lost,
                 connects, errors>>

(* Whether connections that were closed for inactivity are opened again,     *)
(* with an unconditional onRefetch.                                          *)
resumes == listening /\ inactivity # "unset" /\ connections = {} /\ urls # {}

Show ==
  /\ hidden
  /\ hidden' = FALSE
  /\ inactivity' = IF listening THEN "unset" ELSE inactivity
  /\ IF resumes
       THEN /\ canOpen(source, urls)
            /\ source' = IF disposed THEN source ELSE opening(source, fresh(source, urls))
            /\ connections' = IF disposed THEN {} ELSE fresh(source, urls)
            /\ owed' = FALSE
       ELSE UNCHANGED <<source, connections, owed>>
  /\ UNCHANGED <<urls, disposed, stale, grace, debounce, listening, told, lost, connects, errors>>

SseNext ==
  \/ \E U \in SUBSET Urls : connect(U)
  \/ dispose
  \/ \E s \in Sources :
       handleOpen(s) \/ handleMessage(s) \/ handleTransientError(s) \/ handleFatalError(s)
  \/ GraceTimer \/ DebounceTimer \/ InactivityTimer \/ Hide \/ Show

SseSpec == SseInit /\ [][SseNext]_sseVars

(* Timers that are armed fire.                                               *)
SseFairness == WF_sseVars(GraceTimer) /\ WF_sseVars(DebounceTimer) /\ WF_sseVars(InactivityTimer)

-----------------------------------------------------------------------------
(* Properties                                                                *)

(* A stale manager has its grace period running, and only then: otherwise it *)
(* stays stale for ever, or gives up on a connection that is back            *)
(* (sse-manager.ts:175-181, 194-235).                                        *)
StaleIsTimed == grace = [handle |-> stale, running |-> IF stale THEN 1 ELSE 0]

(* Every EventSource that is open can be closed, and there is one of each    *)
(* URL, however connects, pauses and errors alternate, unless one of several *)
(* was dropped by the permanent error of another (sse-manager.ts:196-206).   *)
TrackedUnlessLost ==
  /\ ~lost => Live = connections
  /\ \A s, r \in connections : url(s) = url(r) => s = r

(* A page that is visible is connected to all URLs the manager was given, or *)
(* the owner knows that it is not (sse-manager.ts:289-315).                  *)
VisibleIsConnected ==
  ~disposed /\ ~hidden => {url(s) : s \in connections} = urls

(* The manager never goes without URLs silently.                             *)
NeverSilentlyDark == urls = {} /\ ~disposed /\ ~lost => told \in {"off", "error"}

(* The four together: one EventSource for each URL that is wanted and no     *)
(* other, the grace period running exactly while the manager is stale, and   *)
(* an owner that knows when there is none (sse-manager.ts:96-315).           *)
ConnectedOnce ==
  SseTypeOK /\ StaleIsTimed /\ TrackedUnlessLost /\ VisibleIsConnected /\ NeverSilentlyDark

(* Every notification is followed by an onRefetch, unless the owner changes  *)
(* or drops the streams first (sse-manager.ts:252-260).                      *)
Delivered == owed ~> ~owed
=============================================================================
