-------------------------- MODULE OfrepWebProvider ---------------------------
(* The OFREP web provider (libs/providers/ofrep-web/src/lib):                *)
(* ofrep-web-provider.ts with the persisted cache of store/storage.ts.  All  *)
(* flags are evaluated by the server for one context at a time and kept in   *)
(* _flagCache; they are fetched again when the context changes, by polling,  *)
(* and on notifications of an SSE stream.  Every async function is a task;   *)
(* its phase is the await it is suspended at.  Of SseManager only the state  *)
(* its callbacks report is kept here; it has a module of its own.            *)
(* External: the OFREP server with its flag configuration.                   *)
EXTENDS Naturals, FiniteSets

CONSTANTS
  Contexts,          \* evaluation contexts
  targetingKey(_),   \* the targeting key of a context
  Options,           \* the option records a provider is created with
  Tasks,             \* async functions that may run at the same time
  None,              \* null or undefined
  MaxContextChanges, \* bound: calls of onContextChange, for each cache mode
  MaxVersion,        \* bound: changes of the flag configuration
  MaxFaults,         \* bound: failed requests and errors of the SSE stream
  MaxEvents          \* bound: of these three together

CacheModes == {"local-cache-first", "network-first", "disabled"}

ASSUME OptionsTyped ==
  Options \subseteq [cacheMode: CacheModes, polls: BOOLEAN, detection: {"sse", "polling", "none"}]
ASSUME BoundsNat ==
  MaxContextChanges \in [CacheModes -> Nat] /\ MaxVersion \in Nat /\ MaxFaults \in Nat
  /\ MaxEvents \in Nat

VARIABLES
  options,        \* _cacheMode, _pollingInterval > 0, changeDetection
  life,           \* of the SDK: "new", "initializing", "initialized", "failed", "closed"
  raced,          \* history: the context changed while initialize() was pending
  context,        \* _context
  revision,       \* _contextRevision
  flags,          \* the answer _flagCache was filled from
  etag,           \* the answer _etag belongs to
  usingCache,     \* _isUsingCache
  eventStreams,   \* _eventStreams: what it offers
  limited,        \* _retryPollingAfter is in the future
  isFetching,     \* _isFetching
  polling,        \* _pollingIntervalId: its handle, and the intervals running
  listener,      \* the listener of visibilitychange is registered
  sse,            \* _sseManager: "none", or what it is connected to
  stray,          \* an EventSource that no manager knows any more is open
  sseRetry,       \* _sseRetryTimerId: its handle, and the timeouts pending
  stored,         \* localStorage: the entry of each targeting key
  clearing,       \* targeting keys whose removal awaits its hash
  task,           \* the async functions that run
  server,         \* external: its configuration, whether it offers streams
  faults          \* external: faults so far

baseVars == <<options, context, revision, limited, stored, clearing, server>>
lifeVars == <<life, raced, listener>>
streamVars == <<polling, sse, sseRetry>>
flagVars == <<flags, etag, usingCache, eventStreams>>
vars == <<baseVars, lifeVars, streamVars, stray, flagVars, isFetching, task, faults>>

Keys == {targetingKey(c) : c \in Contexts}

(* The event streams of a result: none, a list with an entry SseManager can  *)
(* connect to, or a list without one (no type 'sse', no URL).                *)
Streams == {"none", "usable", "unusable"}

(* A response with status 200: the flags of a context and the event streams. *)
(* It stands for its ETag as well.                                           *)
Answer == [context: Contexts, version: 0..MaxVersion, streams: Streams]

Kinds == {"initialize", "contextChange", "background", "refresh", "sseRefetch", "sseRetry"}
Idle == [phase |-> "idle"]

(* "load" awaits storage.retrieve, "sent" a response, "store" storage.store. *)
Task ==
  [phase: {"load", "sent", "ok", "notModified", "store"}, kind: Kinds, context: Contexts,
   generation: Nat, etag: Answer \union {None}, answer: Answer \union {None}]

TypeOK ==
  /\ options \in Options
  /\ life \in {"new", "initializing", "initialized", "failed", "closed"}
  /\ context \in Contexts \union {None}
  /\ revision \in Nat
  /\ flags \in Answer \union {None} /\ etag \in Answer \union {None}
  /\ usingCache \in BOOLEAN /\ eventStreams \in Streams
  /\ raced \in BOOLEAN /\ listener \in BOOLEAN /\ stray \in BOOLEAN
  /\ limited \in BOOLEAN /\ isFetching \in BOOLEAN
  /\ polling \in [handle: BOOLEAN, running: Nat]
  /\ sse \in {"none", "live", "down", "idle"}
  /\ sseRetry \in [handle: BOOLEAN, running: Nat]
  /\ stored \in [Keys -> Answer \union {None}]
  /\ clearing \subseteq Keys
  /\ task \in [Tasks -> Task \union {Idle}]
  /\ server \in [version: 0..MaxVersion, streams: Streams]
  /\ faults \in 0..MaxFaults

(* The bound of the three counters together.                                 *)
MoreEvents == revision + server.version + faults < MaxEvents

NoTimer == [handle |-> FALSE, running |-> 0]

(* An earlier session may have left an entry for any targeting key.          *)
Init ==
  /\ options \in Options
  /\ life = "new"
  /\ context = None
  /\ revision = 0
  /\ raced = FALSE /\ listener = FALSE /\ stray = FALSE
  /\ flags = None /\ etag = None /\ usingCache = FALSE /\ eventStreams = "none"
  /\ limited = FALSE /\ isFetching = FALSE
  /\ polling = NoTimer /\ sse = "none" /\ sseRetry = NoTimer
  /\ \E left \in SUBSET Contexts, streams \in Streams :
       /\ options.cacheMode = "disabled" => left = {}
       /\ \A c, d \in left : c # d => targetingKey(c) # targetingKey(d)
       /\ stored = [k \in Keys |->
            IF \E c \in left : targetingKey(c) = k
              THEN [context |-> CHOOSE c \in left : targetingKey(c) = k,
                    version |-> 0, streams |-> streams]
              ELSE None]
  /\ clearing = {}
  /\ task = [t \in Tasks |-> Idle]
  /\ server \in [version: {0}, streams: Streams]
  /\ faults = 0

-----------------------------------------------------------------------------
(* Timers                                                                    *)

(* Mutant: forgets the handle only.                                          *)
clearedHandleOnly(timer) == [handle |-> FALSE, running |-> timer.running]

cleared(timer) ==
  IF timer.handle THEN [handle |-> FALSE, running |-> timer.running - 1] ELSE timer
started(timer) == [handle |-> TRUE, running |-> timer.running + 1]

(* Whether a provider without a stream polls.                                *)
shouldPoll == options.polls /\ options.detection # "none"

-----------------------------------------------------------------------------
(* Requests                                                                  *)

(* _fetchFlags up to its await.  The generation is the revision at the call. *)
request(kind, c, gen, tag) ==
  [phase |-> "sent", kind |-> kind, context |-> c, generation |-> gen, etag |-> tag, answer |-> None]

load(kind, c) ==
  [phase |-> "load", kind |-> kind, context |-> c, generation |-> 0, etag |-> None, answer |-> None]

(* _connectSseIfAvailable.  A manager that can use none of the streams is    *)
(* connected to nothing: polling has been stopped for it all the same.       *)
connectsTo(streams) == streams # "none" /\ options.detection = "sse"

connectSseIfAvailable(streams) ==
  IF connectsTo(streams)
    THEN /\ polling' = cleared(polling)
         /\ sseRetry' = cleared(sseRetry)
         /\ sse' = IF streams = "usable" THEN "live" ELSE "idle"
    ELSE /\ sse' = "none"
         /\ UNCHANGED <<polling, sseRetry>>

(* The same if there is a result, and then startPolling when it is wanted;   *)
(* onContextChange looks whether it already runs, initialize does not.       *)
connectSseOrPoll(kind, hasResult, streams) ==
  IF connectsTo(streams)
    THEN connectSseIfAvailable(streams)
    ELSE /\ sse' = IF hasResult THEN "none" ELSE sse
         /\ polling' = IF sse' = "none" /\ shouldPoll /\ (kind = "initialize" \/ ~polling.handle)
                      THEN started(polling) ELSE polling
         /\ UNCHANGED sseRetry

(* Mutant: the manager is disposed of, and that is all.                      *)
handleSseErrorGivesUp(manager) == sse' = "none" /\ UNCHANGED <<polling, sseRetry>>

(* _handleSseError, while the manager is in this state.                      *)
handleSseError(manager) ==
  \/ manager = "none" /\ UNCHANGED streamVars
  \/ /\ manager # "none" /\ options.polls
     /\ \/ polling.handle /\ sse' = manager /\ UNCHANGED polling
        \/ ~polling.handle /\ sse' = "none" /\ polling' = started(polling)
     /\ UNCHANGED sseRetry
  \/ /\ manager # "none" /\ ~options.polls
     /\ sse' = manager
     /\ sseRetry' = IF options.detection # "none" THEN started(sseRetry) ELSE sseRetry
     /\ UNCHANGED polling

(* The end of initialize(): the listener of the visibility is registered     *)
(* with a success, on a provider that was closed meanwhile too.              *)
initialized(outcome) ==
  /\ life' = IF life = "initializing" THEN outcome ELSE life
  /\ listener' = (listener \/ outcome = "initialized")
  /\ UNCHANGED raced

(* What follows the _fetchFlags of a task that did not throw.                *)
continueWith(kind, changes, streams) ==
  CASE kind = "initialize" ->
         connectSseOrPoll(kind, TRUE, streams) /\ initialized("initialized") /\ UNCHANGED isFetching
    [] kind = "contextChange" ->
         connectSseOrPoll(kind, TRUE, streams) /\ UNCHANGED <<lifeVars, isFetching>>
    [] kind = "background" ->
         /\ IF changes THEN connectSseIfAvailable(streams) ELSE UNCHANGED streamVars
         /\ UNCHANGED <<lifeVars, isFetching>>
    [] kind = "refresh" -> isFetching' = FALSE /\ UNCHANGED <<lifeVars, streamVars>>
    [] kind = "sseRefetch" -> UNCHANGED <<lifeVars, isFetching, streamVars>>
    [] kind = "sseRetry" -> connectSseIfAvailable(streams) /\ UNCHANGED <<lifeVars, isFetching>>

Finish(t) == task' = [task EXCEPT ![t] = Idle]

-----------------------------------------------------------------------------
(* initialize() and onContextChange()                                        *)

(* The SDK hands over the context it has; in mode network-first and without  *)
(* persistence the request is sent at once.                                  *)
initialize(t, c) ==
  /\ life = "new"
  /\ task[t] = Idle
  /\ life' = "initializing"
  /\ context' = c
  /\ task' = [task EXCEPT ![t] = IF options.cacheMode = "local-cache-first"
                                  THEN load("initialize", c)
                                  ELSE request("initialize", c, revision, etag)]
  /\ UNCHANGED <<options, raced, listener, revision, flagVars, limited, isFetching, streamVars, stray,
                 stored, clearing, server, faults>>

(* The SDK calls it without waiting for an earlier call, or for initialize().*)
onContextChange(t, c) ==
  /\ life \notin {"new", "closed"}
  /\ MoreEvents /\ revision < MaxContextChanges[options.cacheMode]
  /\ c # context
  /\ task[t] = Idle
  /\ revision' = revision + 1
  /\ context' = c
  /\ raced' = (raced \/ life = "initializing")
  /\ LET sameKey == targetingKey(c) = targetingKey(context)
     IN /\ etag' = IF sameKey THEN etag ELSE None
        /\ clearing' = IF sameKey \/ options.cacheMode = "disabled"
                         THEN clearing ELSE clearing \union {targetingKey(context)}
  /\ task' = [task EXCEPT ![t] = IF limited THEN Idle
                                  ELSE IF options.cacheMode = "local-cache-first"
                                  THEN load("contextChange", c)
                                  ELSE request("contextChange", c, revision', etag')]
  /\ UNCHANGED <<options, life, listener, flags, usingCache, eventStreams, limited, isFetching,
                 streamVars, stray, stored, server, faults>>

(* Storage.clear after its hash.                                             *)
clear(k) ==
  /\ k \in clearing
  /\ clearing' = clearing \ {k}
  /\ stored' = [stored EXCEPT ![k] = None]
  /\ UNCHANGED <<options, lifeVars, context, revision, flagVars, limited, isFetching, streamVars,
                 stray, task, server, faults>>

(* storage.retrieve found an entry that has not expired.                     *)
loadFlags(entry) ==
  /\ flags' = entry
  /\ etag' = entry
  /\ usingCache' = TRUE
  /\ eventStreams' = entry.streams

(* _tryLoadFlagsFromCache and its caller.  A hit connects to the persisted   *)
(* streams and starts _refreshFlagsInBackground, for the context of now.     *)
CacheHit(t) ==
  LET k == targetingKey(task[t].context)
  IN /\ task[t].phase = "load"
     /\ options.cacheMode = "local-cache-first"
     /\ stored[k] # None
     /\ loadFlags(stored[k])
     /\ \/ /\ task[t].kind = "initialize"
           /\ connectSseOrPoll("initialize", FALSE, stored[k].streams)
           /\ initialized("initialized")
        \/ /\ task[t].kind # "initialize"
           /\ IF stored[k].streams # "none"
                THEN connectSseIfAvailable(stored[k].streams) ELSE UNCHANGED streamVars
           /\ UNCHANGED lifeVars
     /\ task' = [task EXCEPT ![t] = IF limited THEN Idle
                                     ELSE request("background", context, revision, etag')]
     /\ UNCHANGED <<options, context, revision, limited, isFetching, stray, stored, clearing, server,
                    faults>>

(* A miss; an expired entry counts as one and is removed.  The request that  *)
(* follows belongs to the context of the call, its generation to now.        *)
CacheMiss(t) ==
  LET k == targetingKey(task[t].context)
  IN /\ task[t].phase = "load"
     /\ options.cacheMode = "local-cache-first"
     /\ stored' = [stored EXCEPT ![k] = None]
     /\ task' = [task EXCEPT ![t] = request(task[t].kind, task[t].context, revision, etag)]
     /\ UNCHANGED <<options, lifeVars, context, revision, flagVars, limited, isFetching, streamVars,
                    stray, clearing, server, faults>>

(* The fallback of _initNetworkFirst.                                        *)
Fallback(t) ==
  LET entry == stored[targetingKey(task[t].context)]
  IN /\ task[t].phase = "load"
     /\ options.cacheMode = "network-first"
     /\ \/ /\ entry # None
           /\ loadFlags(entry)
           /\ connectSseOrPoll("initialize", FALSE, entry.streams)
           /\ initialized("initialized")
           /\ UNCHANGED stored
        \/ /\ stored' = [stored EXCEPT ![targetingKey(task[t].context)] = None]
           /\ initialized("failed")
           /\ UNCHANGED <<flagVars, streamVars>>
     /\ Finish(t)
     /\ UNCHANGED <<options, context, revision, limited, isFetching, stray, clearing, server, faults>>

-----------------------------------------------------------------------------
(* Responses                                                                 *)

currentAnswer(c) == [context |-> c, version |-> server.version, streams |-> server.streams]

(* The server evaluates the flags; an ETag that matches them gets a 304.     *)
ServerAnswers(t) ==
  /\ task[t].phase = "sent"
  /\ life # "closed"
  /\ LET answer == currentAnswer(task[t].context)
     IN task' = [task EXCEPT ![t] = [@ EXCEPT !.answer = answer,
                   !.phase = IF task[t].etag = answer THEN "notModified" ELSE "ok"]]
  /\ UNCHANGED <<options, lifeVars, context, revision, flagVars, limited, isFetching, streamVars,
                 stray, stored, clearing, server, faults>>

(* A 304 surfaces the streams known by now.                                  *)
NotModified(t) ==
  /\ task[t].phase = "notModified"
  /\ continueWith(task[t].kind, FALSE, eventStreams)
  /\ Finish(t)
  /\ UNCHANGED <<options, context, revision, flagVars, limited, stray, stored, clearing, server, faults>>

(* Mutant: no check of the generation.                                       *)
isCurrentAlways(t) == TRUE

isCurrent(t) == task[t].generation = revision

(* A 200 of a context that has been superseded: no changes, no streams.      *)
Superseded(t) ==
  /\ task[t].phase = "ok"
  /\ ~isCurrent(t)
  /\ continueWith(task[t].kind, FALSE, "none")
  /\ Finish(t)
  /\ UNCHANGED <<options, context, revision, flagVars, limited, stray, stored, clearing, server, faults>>

(* A 200 replaces the flags and is persisted ...                             *)
Apply(t) ==
  /\ task[t].phase = "ok"
  /\ isCurrent(t)
  /\ flags' = task[t].answer
  /\ eventStreams' = task[t].answer.streams
  /\ task' = [task EXCEPT ![t].phase = "store"]
  /\ UNCHANGED <<options, lifeVars, context, revision, etag, usingCache, limited, isFetching,
                 streamVars, stray, stored, clearing, server, faults>>

(* ... and its ETag is kept once that is done.                               *)
Stored(t) ==
  /\ task[t].phase = "store"
  /\ stored' = IF options.cacheMode = "disabled" THEN stored
               ELSE [stored EXCEPT ![targetingKey(task[t].context)] = task[t].answer]
  /\ etag' = task[t].answer
  /\ usingCache' = FALSE
  /\ continueWith(task[t].kind, TRUE, task[t].answer.streams)
  /\ Finish(t)
  /\ UNCHANGED <<options, context, revision, flags, eventStreams, limited, stray, clearing, server,
                 faults>>

(* The request fails: denied (400, 401, 403, 404), rate limited (429) or in  *)
(* any other way; every request does once the provider is closed.            *)
RequestFails(t, why) ==
  /\ task[t].phase \in {"sent", "ok", "notModified"}
  /\ IF life = "closed" THEN why = "transient" /\ UNCHANGED faults
                        ELSE MoreEvents /\ faults < MaxFaults /\ faults' = faults + 1
  /\ limited' = (limited \/ why = "limited")
  /\ IF task[t].kind = "initialize" /\ options.cacheMode = "network-first" /\ why # "denied"
       THEN task' = [task EXCEPT ![t] = load("initialize", task[t].context)]
       ELSE Finish(t)
  /\ IF task[t].kind = "initialize" /\ task'[t] = Idle THEN initialized("failed") ELSE UNCHANGED lifeVars
  /\ isFetching' = (isFetching /\ task[t].kind # "refresh")
  /\ IF task[t].kind = "sseRetry" THEN handleSseError(sse) ELSE UNCHANGED streamVars
  /\ UNCHANGED <<options, context, revision, flagVars, stray, stored, clearing, server>>

-----------------------------------------------------------------------------
(* Polling and visibility                                                    *)

(* _refreshFlags, called by the interval or when the page becomes visible.   *)
refreshFlags(t) ==
  /\ ~isFetching
  /\ ~limited
  /\ isFetching' = TRUE
  /\ task[t] = Idle
  /\ task' = [task EXCEPT ![t] = request("refresh", context, revision, etag)]
  /\ UNCHANGED <<baseVars, lifeVars, streamVars, stray, flagVars, faults>>

PollTick(t) == polling.running > 0 /\ refreshFlags(t)

(* With disableVisibilityRefresh the listener is never called.               *)
BecomesVisible(t) == listener /\ refreshFlags(t)

RetryAfterOver ==
  /\ limited
  /\ limited' = FALSE
  /\ UNCHANGED <<options, lifeVars, context, revision, flagVars, isFetching, streamVars, stray, stored,
                 clearing, task, server, faults>>

-----------------------------------------------------------------------------
(* The callbacks of SseManager                                               *)

(* _handleSseRefetch: outside the guard of _refreshFlags, whatever the rate  *)
(* limit.  After a pause for inactivity the request is unconditional.        *)
SseRefetch(t) ==
  /\ sse = "live" \/ stray
  /\ task[t] = Idle
  /\ \E tag \in {etag, None} :
       task' = [task EXCEPT ![t] = request("sseRefetch", context, revision, tag)]
  /\ UNCHANGED <<baseVars, lifeVars, streamVars, stray, flagVars, isFetching, faults>>

(* onError, when the browser gives up or the grace period is over.  The      *)
(* manager forgets its connections, others of which may be open; theirs are  *)
(* the errors that find another manager, or none.                            *)
SseError ==
  /\ MoreEvents /\ faults < MaxFaults
  /\ faults' = faults + 1
  /\ \/ sse = "live" /\ handleSseError("down") /\ stray' \in {stray, TRUE}
     \/ stray /\ handleSseError(sse) /\ stray' \in BOOLEAN
  /\ UNCHANGED <<baseVars, lifeVars, flagVars, isFetching, task>>

(* The backoff timeout of _handleSseError.                                   *)
SseRetryTimer(t) ==
  /\ sseRetry.running > 0
  /\ task[t] = Idle
  /\ sseRetry' = [handle |-> FALSE, running |-> sseRetry.running - 1]
  /\ task' = [task EXCEPT ![t] = request("sseRetry", context, revision, etag)]
  /\ UNCHANGED <<baseVars, lifeVars, polling, sse, stray, flagVars, isFetching, faults>>

-----------------------------------------------------------------------------
(* Mutant: the listener outlives the provider.                               *)
onCloseKeepsListener ==
  /\ life \notin {"new", "closed"}
  /\ life' = "closed"
  /\ polling' = cleared(polling)
  /\ sseRetry' = cleared(sseRetry)
  /\ sse' = "none"
  /\ UNCHANGED <<baseVars, raced, listener, stray, flagVars, isFetching, task, faults>>

onClose ==
  /\ life \notin {"new", "closed"}
  /\ life' = "closed"
  /\ polling' = cleared(polling)
  /\ sseRetry' = cleared(sseRetry)
  /\ listener' = FALSE
  /\ sse' = "none"
  /\ UNCHANGED <<baseVars, raced, stray, flagVars, isFetching, task, faults>>

(* The configuration changes, or whether streams are offered.                *)
ServerChanges ==
  /\ MoreEvents /\ server.version < MaxVersion
  /\ \E streams \in Streams :
       server' = [version |-> server.version + 1, streams |-> streams]
  /\ UNCHANGED <<options, lifeVars, context, revision, limited, stored, clearing, streamVars, stray,
                 flagVars, isFetching, task, faults>>

Next ==
  \/ \E t \in Tasks, c \in Contexts : initialize(t, c) \/ onContextChange(t, c)
  \/ \E k \in Keys : clear(k)
  \/ \E t \in Tasks : CacheHit(t) \/ CacheMiss(t) \/ Fallback(t)
  \/ \E t \in Tasks : ServerAnswers(t) \/ NotModified(t) \/ Superseded(t) \/ Apply(t) \/ Stored(t)
  \/ \E t \in Tasks, why \in {"denied", "limited", "transient"} : RequestFails(t, why)
  \/ \E t \in Tasks : PollTick(t) \/ BecomesVisible(t) \/ SseRefetch(t) \/ SseRetryTimer(t)
  \/ RetryAfterOver \/ SseError
  \/ onClose \/ ServerChanges

Spec == Init /\ [][Next]_vars

-----------------------------------------------------------------------------
(* Properties                                                                *)

(* Polling and SSE exclude each other: whichever of the concurrent fetches   *)
(* ends last, a connected provider does not poll as well                     *)
(* (ofrep-web-provider.ts:475-506, 539-571).                                 *)
NotBoth == sse # "none" => ~polling.handle

(* The intervals running are those the handle can stop, but for one: a       *)
(* context change during initialize() may have started polling, and          *)
(* initialize() starts it again without looking (:121-124).                  *)
Known == IF polling.handle THEN 1 ELSE 0
OnePoll == polling.running = Known \/ (raced /\ polling.running = Known + 1)

(* The guard of _refreshFlags is up exactly while a refresh runs: left up,   *)
(* it would end polling for ever (ofrep-web-provider.ts:438-468).            *)
GuardMatchesRefresh ==
  Cardinality({t \in Tasks : task[t] # Idle /\ task[t].kind = "refresh"}) = IF isFetching THEN 1 ELSE 0

(* Polling does not die, and doubles only where a context change overtakes   *)
(* initialize(): else one interval at most, which the handle can stop, none  *)
(* beside a manager of SSE, and whose ticks are suppressed only while a      *)
(* refresh runs (:121-124, :438-468, :475-506, :539-588).                    *)
PollingTracked == TypeOK /\ NotBoth /\ OnePoll /\ GuardMatchesRefresh

(* The flags only ever change to those of the current context, or to         *)
(* persisted ones that are marked as such (ofrep-web-provider.ts:333-335).   *)
FlagsFollowContext ==
  [][flags' # flags => usingCache' \/ flags'.context = context']_vars

(* Without the await of the persisted cache they do.                         *)
FlagsFollowContextUncached ==
  [][options.cacheMode # "local-cache-first" /\ flags' # flags
       => usingCache' \/ flags'.context = context']_vars

(* A provider that should watch for changes does, by polling or over the     *)
(* connection of a manager (ofrep-web-provider-options.ts:51), unless the    *)
(* last streams it was told of are none that SseManager can use: polling has *)
(* then stopped for a manager connected to nothing                           *)
(* (ofrep-web-provider.ts:478-500, sse-manager.ts:91-112).                   *)
Watches == life = "initialized" /\ shouldPoll => polling.handle \/ sse \in {"live", "idle"}

WatchesUncached == options.cacheMode # "local-cache-first" => Watches

(* Nothing is left that could start anything.                                *)
Quiet ==
  /\ life = "closed" /\ sse = "none" /\ ~stray /\ ~listener
  /\ polling.running = 0 /\ sseRetry.running = 0
  /\ \A t \in Tasks : task[t] = Idle

(* A provider that is closed while nothing is under way, and that lost track *)
(* of no timer and no EventSource, is quiet and stays so                     *)
(* (ofrep-web-provider.ts:231-241).                                          *)
ClosesQuietly ==
  /\ life # "closed" /\ life' = "closed"
  /\ ~raced /\ ~stray /\ sseRetry.running = (IF sseRetry.handle THEN 1 ELSE 0)
  /\ \A t \in Tasks : task[t] = Idle

QuietAfterClose == [][ClosesQuietly \/ Quiet => Quiet']_vars
=============================================================================
