--------------------------- MODULE FlagdWebProvider ---------------------------
(* The flagd provider for browsers (libs/providers/flagd-web): one event     *)
(* stream with an exponential back-off, and bulk evaluations (resolveAll)    *)
(* that each message of the stream and each change of context start.         *)
(* External: flagd with the version of its flags, the connect transport, and *)
(* the SDK, which sets the context before it calls onContextChange.          *)
EXTENDS Naturals, Sequences, FiniteSets

CONSTANTS
  Contexts,       \* evaluation contexts
  Fetches,        \* places for bulk evaluations in flight (bound)
  MaxRetries,     \* the option maxRetries
  MaxDelay,       \* the option maxDelay, in units of INITIAL_DELAY_MS
  MaxVersion,     \* bound: changes of the flags at the server
  MaxFaults,      \* bound: streams and evaluations that fail
  MaxInbox        \* bound: messages under way

ASSUME WebBounds ==
  {MaxRetries, MaxVersion, MaxFaults, MaxInbox} \subseteq Nat /\ MaxDelay \in Nat \ {0}

VARIABLES
  init,           \* initialize(): "idle", "pending", "done"
  streams,        \* streams opened whose callbacks may still be called
  first,          \* the last stream is the one initialize() waits for
  serving,        \* external: the server has accepted the last stream
  inbox,          \* external: messages under way on it
  retryTimers,    \* reconnect timeouts the event loop still holds
  retry,          \* _retry
  delay,          \* _delayMs
  connected,      \* _connected
  flags,          \* _flags: the context and the version they were computed for
  fetch,          \* the bulk evaluations in flight
  status,         \* the status the SDK derives from the events
  context,        \* the context set in the SDK
  version,        \* external: version of the flags at the server
  doubt,          \* history: evaluations overlapped or failed since one ran alone
  faults,         \* bounded count of failures
  gaveUp,         \* history: the Error event for used up retries was emitted
  closed          \* onClose() has run

streamVars == <<streams, first, serving, inbox, retryTimers, retry, delay, gaveUp>>
flagVars == <<flags, fetch, doubt>>
webVars == <<init, streamVars, connected, flagVars, status, context, version, faults, closed>>

InitialDelay == 1
NoFlags == [context |-> "none", version |-> 0]
Results == [context: Contexts, version: 0 .. MaxVersion]
Idle == [purpose |-> "none"]
Sent == [purpose: {"ready", "change", "context"}, first: BOOLEAN, context: Contexts,
         answer: {NoFlags} \union Results]

WebTypeOK ==
  /\ init \in {"idle", "pending", "done"}
  /\ streams \in Nat /\ retryTimers \in Nat
  /\ {first, serving, connected, doubt, gaveUp, closed} \subseteq BOOLEAN
  /\ inbox \in Seq({"provider_ready", "configuration_change"})
  /\ retry \in 0 .. MaxRetries
  /\ delay \in InitialDelay .. MaxDelay
  /\ flags \in {NoFlags} \union Results
  /\ fetch \in [Fetches -> {Idle} \union Sent]
  /\ status \in {"NOT_READY", "READY", "ERROR"}
  /\ context \in Contexts
  /\ version \in 0 .. MaxVersion
  /\ faults \in 0 .. MaxFaults

WebInit ==
  /\ init = "idle"
  /\ streams = 0 /\ retryTimers = 0
  /\ first = FALSE /\ serving = FALSE /\ connected = FALSE
  /\ doubt = FALSE /\ gaveUp = FALSE /\ closed = FALSE
  /\ inbox = <<>>
  /\ retry = 0
  /\ delay = InitialDelay
  /\ flags = NoFlags
  /\ fetch = [f \in Fetches |-> Idle]
  /\ status = "NOT_READY"
  /\ context \in Contexts
  /\ version = 0
  /\ faults = 0

InFlight == {f \in Fetches : fetch[f] # Idle}

-----------------------------------------------------------------------------
(* The delay doubles before the stream is opened, so that the first timeout  *)
(* is already twice INITIAL_DELAY_MS.                                        *)
retryConnect(isFirst) ==
  /\ delay' = IF delay * 2 <= MaxDelay THEN delay * 2 ELSE MaxDelay
  /\ streams' = streams + 1
  /\ first' = isFirst
  /\ serving' = FALSE
  /\ inbox' = <<>>

(* Start of fetchAll: the request, with the context it is for.               *)
fetchAll(purpose, ctx) ==
  \E f \in Fetches \ InFlight :
    /\ fetch' = [fetch EXCEPT ![f] = [purpose |-> purpose, first |-> first, context |-> ctx,
                                      answer |-> NoFlags]]
    /\ doubt' = (InFlight # {})
    /\ UNCHANGED flags

Initialize ==
  /\ init = "idle" /\ ~closed
  /\ init' = "pending"
  /\ retryConnect(TRUE)
  /\ UNCHANGED <<retryTimers, retry, gaveUp, connected, flagVars, status, context, version, faults, closed>>

(* The message callback, with the context at the time of the message.        *)
Message ==
  /\ inbox # <<>>
  /\ inbox' = Tail(inbox)
  /\ \/ Head(inbox) = "provider_ready" /\ fetchAll("ready", context)
     \/ Head(inbox) = "configuration_change" /\ fetchAll("change", context)
  /\ UNCHANGED <<init, streams, first, serving, retryTimers, retry, delay, gaveUp, connected, status,
                 context, version, faults, closed>>

(* Mutant: the stream is opened again at once and once more by a timer.      *)
StreamErrorTwice ==
  /\ streams > 0 /\ faults < MaxFaults
  /\ faults' = faults + 1
  /\ retryTimers' = retryTimers + 1
  /\ retryConnect(FALSE)
  /\ UNCHANGED <<init, retry, gaveUp, connected, flagVars, status, context, version, closed>>

(* Mutant: the retry is counted and not started.                             *)
StreamErrorForgets ==
  /\ streams > 0 /\ faults < MaxFaults
  /\ faults' = faults + 1
  /\ streams' = streams - 1
  /\ serving' = FALSE /\ inbox' = <<>>
  /\ retry' = IF retry < MaxRetries THEN retry + 1 ELSE retry
  /\ UNCHANGED <<init, first, retryTimers, delay, gaveUp, connected, flagVars, status, context, version,
                 closed>>

(* The close callback: called for an error and when the server ends the      *)
(* stream, not after a cancellation.                                         *)
StreamError ==
  /\ streams > 0
  /\ faults < MaxFaults
  /\ faults' = faults + 1
  /\ streams' = streams - 1
  /\ serving' = FALSE
  /\ inbox' = <<>>
  /\ \/ /\ retry < MaxRetries
        /\ retry' = retry + 1
        /\ retryTimers' = retryTimers + 1
        /\ UNCHANGED <<status, gaveUp>>
     \/ /\ retry >= MaxRetries
        /\ status' = "ERROR"
        /\ gaveUp' = TRUE
        /\ UNCHANGED <<retry, retryTimers>>
  /\ UNCHANGED <<init, first, delay, connected, flagVars, context, version, closed>>

(* The timeout of retryConnect; onClose() does not clear it.                 *)
RetryTimer ==
  /\ retryTimers > 0
  /\ retryTimers' = retryTimers - 1
  /\ retryConnect(FALSE)
  /\ UNCHANGED <<init, retry, gaveUp, connected, flagVars, status, context, version, faults, closed>>

(* onContextChange; the SDK calls it once the provider is initialized.       *)
ContextChange ==
  /\ init = "done" /\ ~closed
  /\ context' \in Contexts \ {context}
  /\ fetchAll("context", context')
  /\ UNCHANGED <<init, streamVars, connected, status, version, faults, closed>>

resetConnectionState ==
  /\ retry' = 0
  /\ delay' = InitialDelay
  /\ connected' = TRUE

(* fetchAll after its await, and what each caller does then.  Only the       *)
(* promise of the first stream is the one initialize() returned.             *)
Resolved(f) ==
  /\ f \in InFlight
  /\ fetch[f].answer # NoFlags
  /\ flags' = fetch[f].answer
  /\ fetch' = [fetch EXCEPT ![f] = Idle]
  /\ \/ /\ fetch[f].purpose = "ready"
        /\ resetConnectionState
        /\ IF fetch[f].first /\ init = "pending"
             THEN init' = "done" /\ status' = "READY"
             ELSE UNCHANGED <<init, status>>
     \/ /\ fetch[f].purpose = "change"
        /\ UNCHANGED <<retry, delay, connected, init, status>>
     \/ /\ fetch[f].purpose = "context"
        /\ status' = "READY"
        /\ UNCHANGED <<retry, delay, connected, init>>
  /\ UNCHANGED <<streams, first, serving, inbox, retryTimers, gaveUp, context, version, doubt, faults, closed>>

(* A rejected resolveAll: nobody handles it but the SDK, for a context.      *)
Rejected(f) ==
  /\ f \in InFlight
  /\ faults < MaxFaults
  /\ faults' = faults + 1
  /\ fetch' = [fetch EXCEPT ![f] = Idle]
  /\ doubt' = TRUE
  /\ status' = IF fetch[f].purpose = "context" THEN "ERROR" ELSE status
  /\ UNCHANGED <<init, streamVars, connected, flags, context, version, closed>>

(* onClose(): cancels the stream of the last _cancelFunction, no timer.      *)
OnClose ==
  /\ init # "idle" /\ ~closed
  /\ closed' = TRUE
  /\ streams' = 0
  /\ serving' = FALSE
  /\ inbox' = <<>>
  /\ UNCHANGED <<init, first, retryTimers, retry, delay, gaveUp, connected, flagVars, status, context,
                 version, faults>>

-----------------------------------------------------------------------------
(* flagd: it greets a stream with provider_ready, announces its changes, and *)
(* evaluates a request with the flags it has.                                *)
ServerAccepts ==
  /\ streams > 0 /\ ~serving
  /\ serving' = TRUE
  /\ inbox' = <<"provider_ready">>
  /\ UNCHANGED <<init, streams, first, retryTimers, retry, delay, gaveUp, connected, flagVars, status,
                 context, version, faults, closed>>

ServerChanges ==
  /\ version < MaxVersion
  /\ Len(inbox) < MaxInbox
  /\ version' = version + 1
  /\ inbox' = IF serving THEN Append(inbox, "configuration_change") ELSE inbox
  /\ UNCHANGED <<init, streams, first, serving, retryTimers, retry, delay, gaveUp, connected, flagVars,
                 status, context, faults, closed>>

ServerResolves(f) ==
  /\ f \in InFlight
  /\ fetch[f].answer = NoFlags
  /\ fetch' = [fetch EXCEPT ![f].answer = [context |-> fetch[f].context, version |-> version]]
  /\ UNCHANGED <<init, streamVars, connected, flags, doubt, status, context, version, faults, closed>>

-----------------------------------------------------------------------------
WebNext ==
  \/ Initialize \/ Message \/ StreamError \/ RetryTimer \/ ContextChange \/ OnClose
  \/ \E f \in Fetches : Resolved(f) \/ Rejected(f) \/ ServerResolves(f)
  \/ ServerAccepts \/ ServerChanges

(* What the event loop owes (timers, messages, responses) and a server that  *)
(* answers; failures, changes of context and onClose() need not happen.      *)
WebFairness ==
  /\ WF_webVars(RetryTimer) /\ WF_webVars(Message) /\ WF_webVars(ServerAccepts)
  /\ \A f \in Fetches : WF_webVars(ServerResolves(f)) /\ WF_webVars(Resolved(f))

-----------------------------------------------------------------------------
(* Properties                                                                *)

(* Until it is closed the provider has exactly one stream or one timeout     *)
(* that will open it, or has used up its retries and said so: an outage      *)
(* never leaves two streams, nor silence (flagd-web-provider.ts:143-153).    *)
OneStream ==
  init # "idle" /\ ~closed =>
    \/ streams + retryTimers = 1
    \/ streams + retryTimers = 0 /\ gaveUp

(* Once nothing is under way the flags are those of the context in the SDK   *)
(* and of the server's version, whatever was missed while the stream was     *)
(* down, unless evaluations overlapped or failed: nothing orders them        *)
(* (flagd-web-provider.ts:129-140, 158-177).                                 *)
FlagsFollow ==
  serving /\ inbox = <<>> /\ InFlight = {} /\ ~doubt =>
    flags = [context |-> context, version |-> version]

(* All of it: the provider keeps up with its server.                         *)
KeepsUp == WebTypeOK /\ OneStream /\ FlagsFollow

(* A provider without a stream gets one again, unless the retries are used   *)
(* up: the count starts again with each stream that got its flags            *)
(* (flagd-web-provider.ts:129-133, 146-151, 179-183).                        *)
StreamComesBack == init # "idle" /\ ~serving ~> serving \/ gaveUp \/ closed
=============================================================================
