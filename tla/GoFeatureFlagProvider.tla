------------------------ MODULE GoFeatureFlagProvider ------------------------
(* The server provider of GO Feature Flag with in-process evaluation         *)
(* (go-feature-flag-provider.ts): its life cycle over the evaluator and the  *)
(* event publisher, and the events its hook and track() collect.             *)
(* The SDK calls initialize() once and onClose() once, at any time after.    *)
EXTENDS EventPublisher, InProcessEvaluation

VARIABLES init,         \* "idle", "wasm", "loading", "loaded", "ready" or "failed"
          close,        \* "open", "disposed", "stopping" or "closed"
          clean,        \* had initialize() settled when onClose() was called?
          late          \* events collected once the publisher was stopped

providerVars == <<init, close, clean, late>>
vars == <<publisherVars, evaluatorVars, evaluationVars, providerVars>>

Init == /\ PublisherInit /\ EvaluatorInit /\ EvaluationInit
        /\ init = "idle" /\ close = "open" /\ clean = FALSE /\ late = {}

evaluatorOnly == UNCHANGED publisherVars
publisherOnly == UNCHANGED <<evaluatorVars, evaluationVars>>

-----------------------------------------------------------------------------
(* initialize() up to the load of the WASM module.                           *)
initialize ==
  /\ init = "idle" /\ close = "open"
  /\ init' = "wasm"
  /\ UNCHANGED <<publisherVars, evaluatorVars, evaluationVars, close, clean, late>>

WasmLoaded ==
  /\ init = "wasm" /\ init' = "loading"
  /\ engineLoads /\ UNCHANGED <<call, settled>>
  /\ initializeEvaluator
  /\ evaluatorOnly /\ UNCHANGED <<close, clean, late>>

WasmNotLoaded ==
  /\ init = "wasm" /\ init' = "failed"
  /\ engineThrows /\ UNCHANGED <<call, settled>>
  /\ UNCHANGED <<publisherVars, evaluatorVars, close, clean, late>>

(* A step of the evaluator; the end of its first load settles its            *)
(* initialize().                                                             *)
EvaluatorStep ==
  /\ EvaluatorSteps
  /\ init' = IF load = "first" /\ load' = "none"
             THEN IF configurationState' = "initialized" THEN "loaded" ELSE "failed"
             ELSE init
  /\ UNCHANGED evaluationVars
  /\ evaluatorOnly /\ UNCHANGED <<close, clean, late>>

(* initialize() goes on to start the publisher, and has settled.             *)
StartPublisher ==
  /\ init = "loaded" /\ init' = "ready"
  /\ start
  /\ publisherOnly /\ UNCHANGED <<close, clean, late>>

onClose ==
  /\ close = "open" /\ close' = "disposed"
  /\ init # "idle"
  /\ clean' = (init \in {"ready", "failed"})
  /\ disposeEvaluator
  /\ disposeEngine /\ UNCHANGED <<call, settled>>
  /\ evaluatorOnly /\ UNCHANGED <<init, late>>

(* onClose() goes on to stop the publisher.                                  *)
StopPublisher ==
  /\ close = "disposed"
  /\ close' = IF isRunning THEN "stopping" ELSE "closed"
  /\ stop
  /\ publisherOnly /\ UNCHANGED <<init, clean, late>>

(* A step of the publisher; the return of the last publishEvents settles     *)
(* onClose().                                                                *)
stopCalls(calls) == {i \in DOMAIN calls : calls[i].by = "stop"}

PublisherStep ==
  /\ PublisherSteps
  /\ close' = IF close = "stopping" /\ stopCalls(inflight') = {} THEN "closed" ELSE close
  /\ publisherOnly /\ UNCHANGED <<init, clean, late>>

(* track() or the data collector hook.  Evaluations that were on their way   *)
(* when the provider was closed still run the hook.                          *)
collect ==
  /\ \E e \in Events :
       /\ addEvent(e)
       /\ late' = IF close \in {"stopping", "closed"} THEN late \union {e} ELSE late
  /\ publisherOnly /\ UNCHANGED <<init, close, clean>>

(* An application evaluates flags whenever it likes.                         *)
EvaluationStep == EvaluationSteps /\ UNCHANGED <<publisherVars, providerVars>>

Next == \/ initialize \/ WasmLoaded \/ WasmNotLoaded \/ EvaluatorStep \/ StartPublisher
        \/ onClose \/ StopPublisher \/ PublisherStep \/ collect
        \/ EvaluationStep

Spec == Init /\ [][Next]_vars

(* Timers fire, promises settle, and a cluster of relay proxies does not     *)
(* answer with an old configuration for ever.                                *)
LoadedNewest == load # "none" /\ EvaluatorStep /\ load' = "none" /\ etag' = server

Settles(e) == isSending(e) /\ PublisherStep /\ ~isSending(e)'
Returns(by) ==
  LET calls(list) == Cardinality({i \in DOMAIN list : list[i].by = by})
  IN calls(inflight) > 0 /\ PublisherStep /\ calls(inflight') < calls(inflight)

Fairness == /\ WF_vars(StartPublisher) /\ WF_vars(StopPublisher) /\ WF_vars(WasmLoaded \/ WasmNotLoaded)
            /\ WF_vars((load # "none" \/ periodicRunner = "armed") /\ EvaluatorStep /\ (load # "none" \/ PollTimer))
            /\ SF_vars(LoadedNewest)
            /\ WF_vars(intervalId = "armed" /\ PublisherStep /\ intervalId' = "fired")
            /\ \A by \in {"runner", "stop"} : WF_vars(Returns(by))
            /\ \A e \in Events : WF_vars(Settles(e))

FairSpec == Spec /\ Fairness
-----------------------------------------------------------------------------
TypeOK ==
  /\ PublisherTypeOK /\ EvaluatorTypeOK /\ EvaluationTypeOK
  /\ init \in {"idle", "wasm", "loading", "loaded", "ready", "failed"}
  /\ close \in {"open", "disposed", "stopping", "closed"}
  /\ clean \in BOOLEAN
  /\ late \subseteq Events

(* However batches of events overlap, fail and are sent again, no event is   *)
(* lost or doubled by the publisher, and the chain of its timers neither     *)
(* breaks nor doubles: see EventPublisher (event-publisher.ts:44-127).       *)
EventsConserved == TypeOK /\ OnePlace /\ OneRunner

(* A provider that was closed after initialize() had settled has no timer    *)
(* and arms none, whatever was on its way when it was closed.                *)
TimersStop ==
  close # "open" /\ clean =>
    /\ periodicRunner # "armed"
    /\ close # "disposed" => ~isRunning /\ intervalId # "armed"

(* When onClose() has settled, every event collected before the publisher    *)
(* was stopped has reached the collector or is on its way to it, unless a    *)
(* request has failed.                                                       *)
FlushedUnlessFailed ==
  close = "closed" /\ init = "ready" /\ clean /\ faults = 0 =>
    \A e \in added \ late : e \in received \/ isSending(e)

(* Closing is complete: no timer is left behind, and the events are handed   *)
(* over (go-feature-flag-provider.ts:121-124).                               *)
ClosedCleanly == TimersStop /\ FlushedUnlessFailed

(* As long as the provider is open every event is confirmed some day, when   *)
(* requests do not fail for ever.                                            *)
EventuallyPublished ==
  \A e \in Events : e \in added /\ init = "ready" ~> e \in acknowledged \/ close # "open"

(* As long as the provider is open its flags are those of the relay proxies  *)
(* again and again: no failed poll ends the polling, and no 304 confirms     *)
(* other flags than the proxies have.  (Proxies that send no dates can take  *)
(* them back in between; a body that could not be parsed leaves the provider *)
(* without flags until the next version, under the ETag of this one.)        *)
FlagsConverge ==
  <>[](init = "ready" /\ close = "open")
    => []<>(etag = server /\ (flags = server \/ unreadable))

(* What an open provider owes in the long run: its events and its flags.     *)
Converges == EventuallyPublished /\ FlagsConverge
=============================================================================
