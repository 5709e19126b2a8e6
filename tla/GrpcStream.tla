----------------------------- MODULE GrpcStream ------------------------------
(* The connection both gRPC resolvers of the flagd provider keep: wait for   *)
(* the channel, open the stream, on any error report it and start again from *)
(* a timer.  GRPCService (grpc-service.ts) and GrpcFetch (grpc-fetch.ts)     *)
(* hold the same listen / reconnect / handleError code; what differs between *)
(* them is added by the modules of those names, which extend this one.       *)
(*                                                                           *)
(* External, modelled from how the code uses it: the gRPC channel and its    *)
(* callbacks, and the server's end of the stream.  Time is abstracted: a     *)
(* timer that is armed may run at any later step.                            *)
EXTENDS FlagdProvider, Sequences

CONSTANTS
  MaxFaults,      \* bound: losses of the channel or of a stream
  MaxInbox        \* bound: messages on their way to the client

ASSUME BoundsNat == MaxFaults \in Nat /\ MaxInbox \in Nat

VARIABLES
  initialized,    \* _initialized
  errorThrottled, \* _errorThrottled
  waits,          \* waitForReady callbacks pending, by kind of attempt
  stream,         \* the current stream: its state, the attempt it belongs to
  retryTimers,    \* reconnect() timeouts pending, by delay
  gaveUp,         \* history: the attempt that ended in
                  \* handleFatalStatusCodeError, if any
  channel,        \* external: connectivity of the channel
  server,         \* external: the server's end of the current stream
  inbox,          \* external: messages of the stream not yet delivered
  faults          \* external: losses so far

connectionVars ==
  <<initialized, errorThrottled, waits, stream, retryTimers, gaveUp, channel, server, inbox, faults>>

Delays == {"now", "backoff"}

(* The callbacks of the first attempt close over the promise of connect(),   *)
(* those of a retry do not.                                                  *)
AttemptKinds == {"first", "retry"}

ConnectionTypeOK ==
  /\ ProviderTypeOK
  /\ initialized \in BOOLEAN
  /\ errorThrottled \in BOOLEAN
  /\ waits \in [AttemptKinds -> Nat]
  /\ stream \in [state: {"none", "open", "failed", "closed"}, attempt: AttemptKinds]
  /\ retryTimers \in [Delays -> Nat]
  /\ gaveUp \in {"no"} \union AttemptKinds
  /\ channel \in {"READY", "DOWN", "SHUTDOWN"}
  /\ server \in {"none", "opening", "notifying", "broken", "ended"}
  /\ faults \in Nat

ConnectionInit ==
  /\ ProviderInit
  /\ initialized = FALSE
  /\ errorThrottled = FALSE
  /\ waits = [a \in AttemptKinds |-> 0]
  /\ stream = [state |-> "none", attempt |-> "first"]
  /\ retryTimers = [d \in Delays |-> 0]
  /\ gaveUp = "no"
  /\ channel \in {"READY", "DOWN"}
  /\ server = "none"
  /\ inbox = <<>>
  /\ faults = 0

-----------------------------------------------------------------------------
(* closeStreamIfDefined(): handlers removed, call cancelled.                 *)
closeStreamIfDefined ==
  /\ stream' = [state |-> IF stream.state = "none" THEN "none" ELSE "closed", attempt |-> stream.attempt]
  /\ server' = "none"
  /\ inbox' = <<>>

(* listen() up to waitForReady.                                              *)
listen(attempt) ==
  /\ closeStreamIfDefined
  /\ waits' = [waits EXCEPT ![attempt] = @ + 1]

reconnectNever(throttled) ==
  /\ errorThrottled' = throttled
  /\ UNCHANGED retryTimers

(* reconnect(), which finds _errorThrottled = throttled.                     *)
reconnect(throttled) ==
  /\ retryTimers' = [retryTimers EXCEPT ![IF throttled THEN "backoff" ELSE "now"] = @ + 1]
  /\ errorThrottled' = FALSE

(* Either error callback of an attempt.  A fatal code ends the retries as    *)
(* long as _initialized is down.                                             *)
isFatal(fatalCode) == fatalCode /\ ~initialized

(* Mutant: a fatal code does not end the retries.                            *)
attemptFailsAndRetries(attempt, fatalCode, throttled) ==
  /\ handleError
  /\ IF attempt = "first" THEN Settle(IF isFatal(fatalCode) THEN "fatal" ELSE "rejected")
                          ELSE UNCHANGED init
  /\ reconnect(throttled)
  /\ UNCHANGED <<closed, initialized, gaveUp>>

attemptFails(attempt, fatalCode, throttled) ==
  /\ handleError
  /\ IF attempt = "first" THEN Settle(IF isFatal(fatalCode) THEN "fatal" ELSE "rejected")
                          ELSE UNCHANGED init
  /\ \/ /\ isFatal(fatalCode)
        /\ gaveUp' = attempt
        /\ errorThrottled' = throttled
        /\ UNCHANGED retryTimers
     \/ /\ ~isFatal(fatalCode)
        /\ reconnect(throttled)
        /\ UNCHANGED gaveUp
  /\ UNCHANGED <<closed, initialized>>

(* initialize() up to the await of connect().                                *)
Connect ==
  /\ init = "idle"
  /\ init' = "pending"
  /\ listen("first")
  /\ UNCHANGED <<isErrorState, errorTimer, graceTimeouts, status, closed>>
  /\ UNCHANGED <<initialized, errorThrottled, retryTimers, gaveUp, channel, faults>>

(* waitForReady calls back without an error: the stream is opened.           *)
WaitReady(attempt) ==
  /\ MicrotasksDone
  /\ waits[attempt] > 0
  /\ channel = "READY"
  /\ waits' = [waits EXCEPT ![attempt] = @ - 1]
  /\ stream' = [state |-> "open", attempt |-> attempt]
  /\ server' = "opening"
  /\ inbox' = <<>>
  /\ UNCHANGED <<providerVars, initialized, errorThrottled, retryTimers, gaveUp, channel, faults>>

(* waitForReady calls back with an error: its deadline passed, or the client *)
(* was closed.  Either is a plain Error without a status code.               *)
WaitFails(attempt) ==
  /\ MicrotasksDone
  /\ waits[attempt] > 0
  /\ channel # "READY"
  /\ waits' = [waits EXCEPT ![attempt] = @ - 1]
  /\ attemptFails(attempt, FALSE, errorThrottled)
  /\ UNCHANGED <<stream, channel, server, inbox, faults>>

(* The 'error' handler of the stream.  What was still in the inbox is lost.  *)
StreamError(fatalCode) ==
  /\ stream.state = "open"
  /\ server = "broken"
  /\ attemptFails(stream.attempt, fatalCode, TRUE)
  /\ stream' = [state |-> "failed", attempt |-> stream.attempt]
  /\ server' = "none"
  /\ inbox' = <<>>
  /\ UNCHANGED <<waits, channel, faults>>

(* A message reaches the 'data' handler.                                     *)
MessageArrives ==
  /\ stream.state = "open"
  /\ inbox # <<>>
  /\ inbox' = Tail(inbox)
  /\ UNCHANGED <<closed, errorThrottled, waits, stream, retryTimers, gaveUp, channel, server, faults>>

(* Mutant: an interval where the code arms a timeout.                        *)
RetryTimerRepeats(d) ==
  /\ MicrotasksDone
  /\ retryTimers[d] > 0
  /\ listen("retry")
  /\ UNCHANGED <<providerVars, initialized, errorThrottled, retryTimers, gaveUp, channel, faults>>

(* The timeout of reconnect().  Nothing cancels it when the client closes.   *)
RetryTimer(d) ==
  /\ MicrotasksDone
  /\ retryTimers[d] > 0
  /\ retryTimers' = [retryTimers EXCEPT ![d] = @ - 1]
  /\ listen("retry")
  /\ UNCHANGED <<providerVars, initialized, errorThrottled, gaveUp, channel, faults>>

(* onClose() with disconnect(): the stream is closed, then the client.       *)
Close ==
  /\ onClose
  /\ closeStreamIfDefined
  /\ channel' = "SHUTDOWN"
  /\ UNCHANGED <<initialized, errorThrottled, waits, retryTimers, gaveUp, faults>>

-----------------------------------------------------------------------------
(* The channel and the server's end of the stream                            *)

ServerAccepts(message) ==
  /\ server = "opening"
  /\ server' = "notifying"
  /\ inbox' = <<message>>
  /\ UNCHANGED <<providerVars, initialized, errorThrottled, waits, stream, retryTimers, gaveUp,
                 channel, faults>>

(* Reset, stream deadline, crash of the server: an error is on its way.      *)
StreamBreaks ==
  /\ server \in {"opening", "notifying"}
  /\ faults < MaxFaults
  /\ faults' = faults + 1
  /\ server' = "broken"
  /\ UNCHANGED <<providerVars, initialized, errorThrottled, waits, stream, retryTimers, gaveUp,
                 channel, inbox>>

(* The server completes the stream with status OK: the client's stream ends  *)
(* and emits 'end', for which the code has no handler.                       *)
StreamEnds ==
  /\ server = "notifying"
  /\ faults < MaxFaults
  /\ faults' = faults + 1
  /\ server' = "ended"
  /\ UNCHANGED <<providerVars, initialized, errorThrottled, waits, stream, retryTimers, gaveUp,
                 channel, inbox>>

ChannelDown ==
  /\ channel = "READY"
  /\ faults < MaxFaults
  /\ faults' = faults + 1
  /\ channel' = "DOWN"
  /\ server' = IF server \in {"opening", "notifying"} THEN "broken" ELSE server
  /\ UNCHANGED <<providerVars, initialized, errorThrottled, waits, stream, retryTimers, gaveUp, inbox>>

ChannelUp ==
  /\ channel = "DOWN"
  /\ channel' = "READY"
  /\ UNCHANGED <<providerVars, initialized, errorThrottled, waits, stream, retryTimers, gaveUp,
                 server, inbox, faults>>

(* The steps of the channel and of the stream's end that touch nothing else. *)
Environment == StreamBreaks \/ StreamEnds \/ ChannelDown \/ ChannelUp

-----------------------------------------------------------------------------
(* Properties                                                                *)

(* Attempts at having a stream: waits, retry timers, and the stream whose    *)
(* handlers can still start another attempt.                                 *)
Attempts ==
  waits["first"] + waits["retry"] + retryTimers["now"] + retryTimers["backoff"]
    + (IF stream.state = "open" THEN 1 ELSE 0)

(* However often the stream is lost, there is exactly one attempt at having  *)
(* it: two would double the events and the load at each loss, none would     *)
(* leave the provider without updates for ever (grpc-service.ts:181-278,     *)
(* grpc-fetch.ts:101-213).                                                   *)
OneAttempt ==
  /\ Attempts <= 1
  /\ init # "idle" /\ ~closed /\ gaveUp = "no" => Attempts = 1

(* A stream that was answered with an error status is never retried at once: *)
(* the loop with a proxy that errors immediately is throttled                *)
(* (grpc-service.ts:207-209, 262-266).                                       *)
NoTightLoop == stream.state = "failed" => retryTimers["now"] = 0

(* Every loss of the stream leads to exactly one further attempt, and to     *)
(* none at once after an error status (grpc-service.ts:181-278).             *)
RetriesSound == OneAttempt /\ NoTightLoop

(* A provider that was closed with nothing pending stays quiet: no attempt,  *)
(* no event, no timer afterwards (grpc-service.ts:140-143).                  *)
QuietStep ==
  closed /\ Attempts = 0 /\ MicrotasksDone => Attempts' = 0 /\ UNCHANGED <<status, graceTimeouts>>

(* An outage that is not closed ends: the provider is READY again, or it     *)
(* stopped on a fatal code (grpc-service.ts:257-278, grpc-fetch.ts:178-213). *)
OutageEnds == (isErrorState /\ ~closed) ~> (status = "READY" \/ closed \/ gaveUp # "no")

(* The provider implements the life cycle an application relies on: it goes  *)
(* from READY to ERROR through STALE only, and a fatal first failure is      *)
(* never followed by READY, not even once FATAL has degraded to ERROR        *)
(* (flagd-provider.ts:124-147, grpc-service.ts:206-230).                     *)
Lifecycle == INSTANCE ProviderLifecycle WITH status <- status, stopped <- gaveUp # "no"
ImplementsLifecycle == Lifecycle!Spec
=============================================================================
