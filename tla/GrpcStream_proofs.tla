-------------------------- MODULE GrpcStream_proofs --------------------------
(* What every step of a connection preserves, whichever resolver it serves.  *)
(* GRPCService_proofs and GrpcFetch_proofs cite PreservesConnectionInv and   *)
(* RefinesLifecycle for the steps of their resolver.                         *)
EXTENDS GrpcStream, TLAPS

(* The inductive invariant.  The parts beside the stated properties say what *)
(* a settled promise still knows of the attempt that settled it, and that a  *)
(* stream with live handlers, a wait and a timer exclude one another.        *)
PromiseInv ==
  /\ init = "idle" => Attempts = 0 /\ gaveUp = "no" /\ status = "NOT_READY"
  /\ init = "pending" =>
       /\ status = "NOT_READY"
       /\ waits["retry"] = 0 /\ retryTimers["now"] = 0 /\ retryTimers["backoff"] = 0
       /\ stream.state = "open" => stream.attempt = "first"
  /\ init = "resolved" =>
       /\ status \in {"NOT_READY", "STALE"}
       /\ stream.state = "open" => stream.attempt = "first"
  /\ init \in {"rejected", "fatal"} => status = "STALE" /\ stream.state # "open"
  /\ init = "fatal" => gaveUp = "first"
  /\ status = "FATAL" => init = "done" /\ gaveUp # "no"

StreamInv ==
  /\ waits["first"] + waits["retry"] > 0 => stream.state \in {"none", "closed"}
  /\ gaveUp # "no" => Attempts = 0

(* A closed client opens no stream; only a retry that outlives it can still  *)
(* arm the grace timer.                                                      *)
CloseInv ==
  closed =>
    /\ init # "idle"
    /\ channel = "SHUTDOWN" /\ stream.state # "open"
    /\ Attempts = 0 => ~errorTimer

ConnectionInv ==
  /\ ConnectionTypeOK
  /\ NoLeakedGraceTimer
  /\ errorTimer => isErrorState
  /\ ErrorFlagMatchesStatus
  /\ StaleIsTimed
  /\ OneAttempt
  /\ NoTightLoop
  /\ StreamInv
  /\ PromiseInv
  /\ CloseInv

(* The steps of a connection, with every way a resolver treats a message.    *)
MessageStep ==
  /\ MessageArrives
  /\ initialized' \in BOOLEAN
  /\ \/ stream.attempt = "first" /\ Settle("resolved") /\ UNCHANGED <<isErrorState, errorTimer, graceTimeouts, status>>
     \/ stream.attempt = "retry" /\ handleReconnect /\ UNCHANGED init
     \/ UNCHANGED <<init, isErrorState, errorTimer, graceTimeouts, status>>

GraceStep == graceElapsed /\ UNCHANGED connectionVars

ContinueStep ==
  /\ initializeContinues
  /\ initialized' \in BOOLEAN
  /\ UNCHANGED <<errorThrottled, waits, stream, retryTimers, gaveUp, channel, server, faults>>

(* Steps of the server that only send messages.                              *)
SendStep ==
  UNCHANGED <<providerVars, initialized, errorThrottled, waits, stream, retryTimers, gaveUp,
              channel, server, faults>>

ConnectionNext ==
  \/ Connect
  \/ \E a \in AttemptKinds : WaitReady(a) \/ WaitFails(a)
  \/ \E fatalCode \in BOOLEAN : StreamError(fatalCode)
  \/ MessageStep
  \/ \E d \in Delays : RetryTimer(d)
  \/ GraceStep
  \/ ContinueStep
  \/ Close
  \/ \E message : ServerAccepts(message)
  \/ Environment
  \/ SendStep

-----------------------------------------------------------------------------
LEMMA InitConnectionInv == ConnectionInit => ConnectionInv
<1> SUFFICES ASSUME ConnectionInit PROVE ConnectionInv OBVIOUS
<1> USE DEF ConnectionInit, ProviderInit, Delays, AttemptKinds
<1>1. ConnectionTypeOK BY DEF ConnectionTypeOK, ProviderTypeOK
<1>2. NoLeakedGraceTimer /\ (errorTimer => isErrorState) BY DEF NoLeakedGraceTimer
<1>3. ErrorFlagMatchesStatus /\ StaleIsTimed BY DEF ErrorFlagMatchesStatus, StaleIsTimed
<1>4. Attempts = 0 BY DEF Attempts
<1>5. OneAttempt /\ NoTightLoop BY <1>4 DEF OneAttempt, NoTightLoop
<1>6. StreamInv /\ PromiseInv /\ CloseInv BY <1>4 DEF StreamInv, PromiseInv, CloseInv
<1> QED BY <1>1, <1>2, <1>3, <1>5, <1>6 DEF ConnectionInv

LEMMA ConnectStep ==
  ASSUME ConnectionInv, Connect
  PROVE  ConnectionInv'
<1> USE DEF ConnectionInv, Connect, listen, closeStreamIfDefined, Delays, AttemptKinds, MicrotasksDone
<1>0. /\ waits["first"] = 0 /\ waits["retry"] = 0
      /\ retryTimers["now"] = 0 /\ retryTimers["backoff"] = 0
      /\ stream.state # "open" /\ gaveUp = "no"
  BY DEF OneAttempt, Attempts, PromiseInv, ConnectionTypeOK
<1>1. ConnectionTypeOK'
  <2>1. (graceTimeouts \in Nat)' BY <1>0 DEF ConnectionTypeOK, ProviderTypeOK, NoLeakedGraceTimer
  <2>2. (isErrorState \in BOOLEAN /\ errorTimer \in BOOLEAN /\ closed \in BOOLEAN)'
    BY <1>0 DEF ConnectionTypeOK, ProviderTypeOK
  <2>3. (waits \in [AttemptKinds -> Nat] /\ retryTimers \in [Delays -> Nat])'
    BY <1>0 DEF ConnectionTypeOK
  <2>4. (init \in {"idle", "pending", "resolved", "rejected", "fatal", "done"} /\ gaveUp \in {"no"} \union AttemptKinds)'
    BY <1>0 DEF ConnectionTypeOK, ProviderTypeOK
  <2> QED BY <1>0, <2>1, <2>2, <2>3, <2>4 DEF ConnectionTypeOK, ProviderTypeOK
<1>2. NoLeakedGraceTimer' /\ (errorTimer => isErrorState)'
  BY <1>0 DEF NoLeakedGraceTimer, ConnectionTypeOK, ProviderTypeOK
<1>3. ErrorFlagMatchesStatus'
  BY <1>0 DEF ErrorFlagMatchesStatus, PromiseInv, StreamInv, ConnectionTypeOK, ProviderTypeOK
<1>4. StaleIsTimed'
  BY <1>0 DEF StaleIsTimed, ErrorFlagMatchesStatus, PromiseInv, ConnectionTypeOK, ProviderTypeOK
<1>5. OneAttempt'
  BY <1>0 DEF OneAttempt, Attempts, PromiseInv, StreamInv, ConnectionTypeOK, ProviderTypeOK
<1>6. NoTightLoop'
  BY <1>0 DEF NoTightLoop, OneAttempt, Attempts, StreamInv, ConnectionTypeOK
<1>7. StreamInv'
  BY <1>0 DEF StreamInv, OneAttempt, Attempts, ConnectionTypeOK, PromiseInv
<1>8. PromiseInv'
  BY <1>0 DEF PromiseInv, ErrorFlagMatchesStatus, StreamInv, OneAttempt, Attempts, ConnectionTypeOK, ProviderTypeOK
<1>9. CloseInv'
  BY <1>0 DEF CloseInv, OneAttempt, Attempts, NoLeakedGraceTimer, ConnectionTypeOK, ProviderTypeOK
<1> QED BY <1>1, <1>2, <1>3, <1>4, <1>5, <1>6, <1>7, <1>8, <1>9

LEMMA WaitReadyStep ==
  ASSUME NEW a \in AttemptKinds, ConnectionInv, WaitReady(a)
  PROVE  ConnectionInv'
BY DEF WaitReady, providerVars, ConnectionInv, ConnectionTypeOK, ProviderTypeOK, NoLeakedGraceTimer,
  ErrorFlagMatchesStatus, StaleIsTimed, OneAttempt, NoTightLoop, StreamInv, PromiseInv, CloseInv, Attempts,
  Delays, AttemptKinds, MicrotasksDone

LEMMA WaitFailsStep ==
  ASSUME NEW a \in AttemptKinds, ConnectionInv, WaitFails(a)
  PROVE  ConnectionInv'
<1> USE DEF ConnectionInv, WaitFails, attemptFails, isFatal, reconnect, handleError, Settle, Delays, AttemptKinds, MicrotasksDone
<1>1. ConnectionTypeOK'
  <2>1. (graceTimeouts \in Nat)' BY DEF ConnectionTypeOK, ProviderTypeOK, NoLeakedGraceTimer
  <2>2. (isErrorState \in BOOLEAN /\ errorTimer \in BOOLEAN /\ closed \in BOOLEAN)'
    BY DEF ConnectionTypeOK, ProviderTypeOK
  <2>3. (waits \in [AttemptKinds -> Nat] /\ retryTimers \in [Delays -> Nat])'
    BY DEF ConnectionTypeOK
  <2>4. (init \in {"idle", "pending", "resolved", "rejected", "fatal", "done"} /\ gaveUp \in {"no"} \union AttemptKinds)'
    BY DEF ConnectionTypeOK, ProviderTypeOK
  <2> QED BY <2>1, <2>2, <2>3, <2>4 DEF ConnectionTypeOK, ProviderTypeOK
<1>2. NoLeakedGraceTimer' /\ (errorTimer => isErrorState)'
  BY DEF NoLeakedGraceTimer, ConnectionTypeOK, ProviderTypeOK
<1>3. ErrorFlagMatchesStatus'
  BY DEF ErrorFlagMatchesStatus, PromiseInv, StreamInv, ConnectionTypeOK, ProviderTypeOK
<1>4. StaleIsTimed'
  BY DEF StaleIsTimed, ErrorFlagMatchesStatus, PromiseInv, ConnectionTypeOK, ProviderTypeOK
<1>5. OneAttempt'
  BY DEF OneAttempt, Attempts, PromiseInv, StreamInv, ConnectionTypeOK, ProviderTypeOK
<1>6. NoTightLoop'
  BY DEF NoTightLoop, OneAttempt, Attempts, StreamInv, ConnectionTypeOK
<1>7. StreamInv'
  BY DEF StreamInv, OneAttempt, Attempts, ConnectionTypeOK, PromiseInv
<1>8. PromiseInv'
  BY DEF PromiseInv, ErrorFlagMatchesStatus, StreamInv, OneAttempt, Attempts, ConnectionTypeOK, ProviderTypeOK
<1>9. CloseInv'
  BY DEF CloseInv, OneAttempt, Attempts, NoLeakedGraceTimer, ConnectionTypeOK, ProviderTypeOK
<1> QED BY <1>1, <1>2, <1>3, <1>4, <1>5, <1>6, <1>7, <1>8, <1>9

LEMMA StreamErrorStep ==
  ASSUME NEW fatalCode \in BOOLEAN, ConnectionInv, StreamError(fatalCode)
  PROVE  ConnectionInv'
<1> USE DEF ConnectionInv, StreamError, attemptFails, isFatal, reconnect, handleError, Settle, Delays, AttemptKinds, MicrotasksDone
<1>0. /\ waits["first"] = 0 /\ waits["retry"] = 0
      /\ retryTimers["now"] = 0 /\ retryTimers["backoff"] = 0
      /\ stream.attempt \in AttemptKinds
  BY DEF OneAttempt, Attempts, ConnectionTypeOK
<1>1. ConnectionTypeOK'
  <2>1. (graceTimeouts \in Nat)' BY <1>0 DEF ConnectionTypeOK, ProviderTypeOK, NoLeakedGraceTimer
  <2>2. (isErrorState \in BOOLEAN /\ errorTimer \in BOOLEAN /\ closed \in BOOLEAN)'
    BY <1>0 DEF ConnectionTypeOK, ProviderTypeOK
  <2>3. (waits \in [AttemptKinds -> Nat] /\ retryTimers \in [Delays -> Nat])'
    BY <1>0 DEF ConnectionTypeOK
  <2>4. (init \in {"idle", "pending", "resolved", "rejected", "fatal", "done"} /\ gaveUp \in {"no"} \union AttemptKinds)'
    BY <1>0 DEF ConnectionTypeOK, ProviderTypeOK
  <2> QED BY <1>0, <2>1, <2>2, <2>3, <2>4 DEF ConnectionTypeOK, ProviderTypeOK
<1>2. NoLeakedGraceTimer' /\ (errorTimer => isErrorState)'
  BY <1>0 DEF NoLeakedGraceTimer, ConnectionTypeOK, ProviderTypeOK
<1>3. ErrorFlagMatchesStatus'
  BY <1>0 DEF ErrorFlagMatchesStatus, PromiseInv, StreamInv, ConnectionTypeOK, ProviderTypeOK
<1>4. StaleIsTimed'
  BY <1>0 DEF StaleIsTimed, ErrorFlagMatchesStatus, PromiseInv, ConnectionTypeOK, ProviderTypeOK
<1>5. OneAttempt'
  BY <1>0 DEF OneAttempt, Attempts, PromiseInv, StreamInv, ConnectionTypeOK, ProviderTypeOK
<1>6. NoTightLoop'
  BY <1>0 DEF NoTightLoop, OneAttempt, Attempts, StreamInv, ConnectionTypeOK
<1>7. StreamInv'
  BY <1>0 DEF StreamInv, OneAttempt, Attempts, ConnectionTypeOK, PromiseInv
<1>8. PromiseInv'
  BY <1>0 DEF PromiseInv, ErrorFlagMatchesStatus, StreamInv, OneAttempt, Attempts, ConnectionTypeOK, ProviderTypeOK
<1>9. CloseInv'
  BY <1>0 DEF CloseInv, OneAttempt, Attempts, NoLeakedGraceTimer, ConnectionTypeOK, ProviderTypeOK
<1> QED BY <1>1, <1>2, <1>3, <1>4, <1>5, <1>6, <1>7, <1>8, <1>9

LEMMA MessageStepInv ==
  ASSUME ConnectionInv, MessageStep
  PROVE  ConnectionInv'
<1> USE DEF ConnectionInv, MessageStep, MessageArrives, handleReconnect, clearErrorTimer, Settle, Delays, AttemptKinds, MicrotasksDone
<1>0. /\ waits["first"] = 0 /\ waits["retry"] = 0
      /\ retryTimers["now"] = 0 /\ retryTimers["backoff"] = 0
      /\ init # "idle" /\ gaveUp = "no"
  <2>1. Attempts = 1 /\ stream.state = "open"
    BY DEF OneAttempt, Attempts, ConnectionTypeOK
  <2>2. waits["first"] = 0 /\ waits["retry"] = 0 /\ retryTimers["now"] = 0 /\ retryTimers["backoff"] = 0
    BY <2>1 DEF Attempts, ConnectionTypeOK
  <2>3. init # "idle" /\ gaveUp = "no"
    BY <2>1 DEF PromiseInv, StreamInv
  <2> QED BY <2>2, <2>3
<1>1. ConnectionTypeOK'
  <2>1. (graceTimeouts \in Nat)' BY <1>0 DEF ConnectionTypeOK, ProviderTypeOK, NoLeakedGraceTimer
  <2>2. (isErrorState \in BOOLEAN /\ errorTimer \in BOOLEAN /\ closed \in BOOLEAN)'
    BY <1>0 DEF ConnectionTypeOK, ProviderTypeOK
  <2>3. (waits \in [AttemptKinds -> Nat] /\ retryTimers \in [Delays -> Nat])'
    BY <1>0 DEF ConnectionTypeOK
  <2>4. (init \in {"idle", "pending", "resolved", "rejected", "fatal", "done"} /\ gaveUp \in {"no"} \union AttemptKinds)'
    BY <1>0 DEF ConnectionTypeOK, ProviderTypeOK
  <2> QED BY <1>0, <2>1, <2>2, <2>3, <2>4 DEF ConnectionTypeOK, ProviderTypeOK
<1>2. NoLeakedGraceTimer' /\ (errorTimer => isErrorState)'
  BY <1>0 DEF NoLeakedGraceTimer, ConnectionTypeOK, ProviderTypeOK
<1>3. ErrorFlagMatchesStatus'
  BY <1>0 DEF ErrorFlagMatchesStatus, PromiseInv, StreamInv, ConnectionTypeOK, ProviderTypeOK
<1>4. StaleIsTimed'
  BY <1>0 DEF StaleIsTimed, ErrorFlagMatchesStatus, PromiseInv, ConnectionTypeOK, ProviderTypeOK
<1>5. OneAttempt'
  BY <1>0 DEF OneAttempt, Attempts, PromiseInv, StreamInv, ConnectionTypeOK, ProviderTypeOK
<1>6. NoTightLoop'
  BY <1>0 DEF NoTightLoop, OneAttempt, Attempts, StreamInv, ConnectionTypeOK
<1>7. StreamInv'
  BY <1>0 DEF StreamInv, OneAttempt, Attempts, ConnectionTypeOK, PromiseInv
<1>8. PromiseInv'
  BY <1>0 DEF PromiseInv, ErrorFlagMatchesStatus, StreamInv, OneAttempt, Attempts, ConnectionTypeOK, ProviderTypeOK
<1>9. CloseInv'
  BY <1>0 DEF CloseInv, OneAttempt, Attempts, NoLeakedGraceTimer, ConnectionTypeOK, ProviderTypeOK
<1> QED BY <1>1, <1>2, <1>3, <1>4, <1>5, <1>6, <1>7, <1>8, <1>9

LEMMA RetryTimerStep ==
  ASSUME NEW d \in Delays, ConnectionInv, RetryTimer(d)
  PROVE  ConnectionInv'
<1> USE DEF ConnectionInv, RetryTimer, listen, closeStreamIfDefined, providerVars, Delays, AttemptKinds, MicrotasksDone
<1>0. /\ waits["first"] = 0 /\ waits["retry"] = 0 /\ stream.state # "open"
      /\ init = "done" /\ gaveUp = "no"
  BY DEF OneAttempt, Attempts, ConnectionTypeOK, ProviderTypeOK, PromiseInv, StreamInv
<1>1. ConnectionTypeOK'
  <2>1. (graceTimeouts \in Nat)' BY <1>0 DEF ConnectionTypeOK, ProviderTypeOK, NoLeakedGraceTimer
  <2>2. (isErrorState \in BOOLEAN /\ errorTimer \in BOOLEAN /\ closed \in BOOLEAN)'
    BY <1>0 DEF ConnectionTypeOK, ProviderTypeOK
  <2>3. (waits \in [AttemptKinds -> Nat] /\ retryTimers \in [Delays -> Nat])'
    BY <1>0 DEF ConnectionTypeOK
  <2>4. (init \in {"idle", "pending", "resolved", "rejected", "fatal", "done"} /\ gaveUp \in {"no"} \union AttemptKinds)'
    BY <1>0 DEF ConnectionTypeOK, ProviderTypeOK
  <2> QED BY <1>0, <2>1, <2>2, <2>3, <2>4 DEF ConnectionTypeOK, ProviderTypeOK
<1>2. NoLeakedGraceTimer' /\ (errorTimer => isErrorState)'
  BY <1>0 DEF NoLeakedGraceTimer, ConnectionTypeOK, ProviderTypeOK
<1>3. ErrorFlagMatchesStatus'
  BY <1>0 DEF ErrorFlagMatchesStatus, PromiseInv, StreamInv, ConnectionTypeOK, ProviderTypeOK
<1>4. StaleIsTimed'
  BY <1>0 DEF StaleIsTimed, ErrorFlagMatchesStatus, PromiseInv, ConnectionTypeOK, ProviderTypeOK
<1>5. OneAttempt'
  BY <1>0 DEF OneAttempt, Attempts, PromiseInv, StreamInv, ConnectionTypeOK, ProviderTypeOK
<1>6. NoTightLoop'
  BY <1>0 DEF NoTightLoop, OneAttempt, Attempts, StreamInv, ConnectionTypeOK
<1>7. StreamInv'
  BY <1>0 DEF StreamInv, OneAttempt, Attempts, ConnectionTypeOK, PromiseInv
<1>8. PromiseInv'
  BY <1>0 DEF PromiseInv, ErrorFlagMatchesStatus, StreamInv, OneAttempt, Attempts, ConnectionTypeOK, ProviderTypeOK
<1>9. CloseInv'
  BY <1>0, <1>1 DEF CloseInv, OneAttempt, Attempts, NoLeakedGraceTimer, ConnectionTypeOK, ProviderTypeOK
<1> QED BY <1>1, <1>2, <1>3, <1>4, <1>5, <1>6, <1>7, <1>8, <1>9

LEMMA GraceStepInv ==
  ASSUME ConnectionInv, GraceStep
  PROVE  ConnectionInv'
<1> USE DEF ConnectionInv, GraceStep, graceElapsed, connectionVars, Delays, AttemptKinds, MicrotasksDone
<1>1. ConnectionTypeOK'
  <2>1. (graceTimeouts \in Nat)' BY DEF ConnectionTypeOK, ProviderTypeOK, NoLeakedGraceTimer
  <2>2. (isErrorState \in BOOLEAN /\ errorTimer \in BOOLEAN /\ closed \in BOOLEAN)'
    BY DEF ConnectionTypeOK, ProviderTypeOK
  <2>3. (waits \in [AttemptKinds -> Nat] /\ retryTimers \in [Delays -> Nat])'
    BY DEF ConnectionTypeOK
  <2>4. (init \in {"idle", "pending", "resolved", "rejected", "fatal", "done"} /\ gaveUp \in {"no"} \union AttemptKinds)'
    BY DEF ConnectionTypeOK, ProviderTypeOK
  <2> QED BY <2>1, <2>2, <2>3, <2>4 DEF ConnectionTypeOK, ProviderTypeOK
<1>2. NoLeakedGraceTimer' /\ (errorTimer => isErrorState)'
  BY DEF NoLeakedGraceTimer, ConnectionTypeOK, ProviderTypeOK
<1>3. ErrorFlagMatchesStatus'
  BY DEF ErrorFlagMatchesStatus, PromiseInv, StreamInv, ConnectionTypeOK, ProviderTypeOK
<1>4. StaleIsTimed'
  BY DEF StaleIsTimed, ErrorFlagMatchesStatus, PromiseInv, ConnectionTypeOK, ProviderTypeOK
<1>5. OneAttempt'
  BY DEF OneAttempt, Attempts, PromiseInv, StreamInv, ConnectionTypeOK, ProviderTypeOK
<1>6. NoTightLoop'
  BY DEF NoTightLoop, OneAttempt, Attempts, StreamInv, ConnectionTypeOK
<1>7. StreamInv'
  BY DEF StreamInv, OneAttempt, Attempts, ConnectionTypeOK, PromiseInv
<1>8. PromiseInv'
  BY DEF PromiseInv, ErrorFlagMatchesStatus, StreamInv, OneAttempt, Attempts, ConnectionTypeOK, ProviderTypeOK
<1>9. CloseInv'
  BY DEF CloseInv, OneAttempt, Attempts, NoLeakedGraceTimer, ConnectionTypeOK, ProviderTypeOK
<1> QED BY <1>1, <1>2, <1>3, <1>4, <1>5, <1>6, <1>7, <1>8, <1>9

LEMMA ContinueStepInv ==
  ASSUME ConnectionInv, ContinueStep
  PROVE  ConnectionInv'
<1> USE DEF ConnectionInv, ContinueStep, initializeContinues, clearErrorTimer, Delays, AttemptKinds, MicrotasksDone
<1>1. ConnectionTypeOK'
  <2>1. (graceTimeouts \in Nat)' BY DEF ConnectionTypeOK, ProviderTypeOK, NoLeakedGraceTimer
  <2>2. (isErrorState \in BOOLEAN /\ errorTimer \in BOOLEAN /\ closed \in BOOLEAN)'
    BY DEF ConnectionTypeOK, ProviderTypeOK
  <2>3. (waits \in [AttemptKinds -> Nat] /\ retryTimers \in [Delays -> Nat])'
    BY DEF ConnectionTypeOK
  <2>4. (init \in {"idle", "pending", "resolved", "rejected", "fatal", "done"} /\ gaveUp \in {"no"} \union AttemptKinds)'
    BY DEF ConnectionTypeOK, ProviderTypeOK
  <2> QED BY <2>1, <2>2, <2>3, <2>4 DEF ConnectionTypeOK, ProviderTypeOK
<1>2. NoLeakedGraceTimer' /\ (errorTimer => isErrorState)'
  BY DEF NoLeakedGraceTimer, ConnectionTypeOK, ProviderTypeOK
<1>3. ErrorFlagMatchesStatus'
  BY DEF ErrorFlagMatchesStatus, PromiseInv, StreamInv, ConnectionTypeOK, ProviderTypeOK
<1>4. StaleIsTimed'
  BY DEF StaleIsTimed, ErrorFlagMatchesStatus, PromiseInv, ConnectionTypeOK, ProviderTypeOK
<1>5. OneAttempt'
  BY DEF OneAttempt, Attempts, PromiseInv, StreamInv, ConnectionTypeOK, ProviderTypeOK
<1>6. NoTightLoop'
  BY DEF NoTightLoop, OneAttempt, Attempts, StreamInv, ConnectionTypeOK
<1>7. StreamInv'
  BY DEF StreamInv, OneAttempt, Attempts, ConnectionTypeOK, PromiseInv
<1>8. PromiseInv'
  BY DEF PromiseInv, ErrorFlagMatchesStatus, StreamInv, OneAttempt, Attempts, ConnectionTypeOK, ProviderTypeOK
<1>9. CloseInv'
  BY DEF CloseInv, OneAttempt, Attempts, NoLeakedGraceTimer, ConnectionTypeOK, ProviderTypeOK
<1> QED BY <1>1, <1>2, <1>3, <1>4, <1>5, <1>6, <1>7, <1>8, <1>9

LEMMA CloseStep ==
  ASSUME ConnectionInv, Close
  PROVE  ConnectionInv'
<1> USE DEF ConnectionInv, Close, onClose, clearErrorTimer, closeStreamIfDefined, Delays, AttemptKinds, MicrotasksDone
<1>1. ConnectionTypeOK'
  <2>1. (graceTimeouts \in Nat)' BY DEF ConnectionTypeOK, ProviderTypeOK, NoLeakedGraceTimer
  <2>2. (isErrorState \in BOOLEAN /\ errorTimer \in BOOLEAN /\ closed \in BOOLEAN)'
    BY DEF ConnectionTypeOK, ProviderTypeOK
  <2>3. (waits \in [AttemptKinds -> Nat] /\ retryTimers \in [Delays -> Nat])'
    BY DEF ConnectionTypeOK
  <2>4. (init \in {"idle", "pending", "resolved", "rejected", "fatal", "done"} /\ gaveUp \in {"no"} \union AttemptKinds)'
    BY DEF ConnectionTypeOK, ProviderTypeOK
  <2> QED BY <2>1, <2>2, <2>3, <2>4 DEF ConnectionTypeOK, ProviderTypeOK
<1>2. NoLeakedGraceTimer' /\ (errorTimer => isErrorState)'
  BY DEF NoLeakedGraceTimer, ConnectionTypeOK, ProviderTypeOK
<1>3. ErrorFlagMatchesStatus'
  BY DEF ErrorFlagMatchesStatus, PromiseInv, StreamInv, ConnectionTypeOK, ProviderTypeOK
<1>4. StaleIsTimed'
  BY DEF StaleIsTimed, ErrorFlagMatchesStatus, PromiseInv, ConnectionTypeOK, ProviderTypeOK
<1>5. OneAttempt'
  BY DEF OneAttempt, Attempts, PromiseInv, StreamInv, ConnectionTypeOK, ProviderTypeOK
<1>6. NoTightLoop'
  BY DEF NoTightLoop, OneAttempt, Attempts, StreamInv, ConnectionTypeOK
<1>7. StreamInv'
  BY DEF StreamInv, OneAttempt, Attempts, ConnectionTypeOK, PromiseInv
<1>8. PromiseInv'
  BY DEF PromiseInv, ErrorFlagMatchesStatus, StreamInv, OneAttempt, Attempts, ConnectionTypeOK, ProviderTypeOK
<1>9. CloseInv'
  BY DEF CloseInv, OneAttempt, Attempts, NoLeakedGraceTimer, ConnectionTypeOK, ProviderTypeOK
<1> QED BY <1>1, <1>2, <1>3, <1>4, <1>5, <1>6, <1>7, <1>8, <1>9

LEMMA AcceptStep ==
  ASSUME NEW message, ConnectionInv, ServerAccepts(message)
  PROVE  ConnectionInv'
BY DEF ServerAccepts, providerVars, ConnectionInv, ConnectionTypeOK, ProviderTypeOK, NoLeakedGraceTimer,
  ErrorFlagMatchesStatus, StaleIsTimed, OneAttempt, NoTightLoop, StreamInv, PromiseInv, CloseInv, Attempts,
  Delays, AttemptKinds, MicrotasksDone

LEMMA EnvironmentStep ==
  ASSUME ConnectionInv, Environment
  PROVE  ConnectionInv'
<1> USE DEF ConnectionInv, ConnectionTypeOK, ProviderTypeOK, NoLeakedGraceTimer,
  ErrorFlagMatchesStatus, StaleIsTimed, OneAttempt, NoTightLoop, StreamInv, PromiseInv, CloseInv, Attempts,
  MicrotasksDone, providerVars
<1>1. CASE StreamBreaks BY <1>1 DEF StreamBreaks
<1>2. CASE StreamEnds BY <1>2 DEF StreamEnds
<1>3. CASE ChannelDown BY <1>3 DEF ChannelDown
<1>4. CASE ChannelUp BY <1>4 DEF ChannelUp
<1> QED BY <1>1, <1>2, <1>3, <1>4 DEF Environment

LEMMA SendStepInv ==
  ASSUME ConnectionInv, SendStep
  PROVE  ConnectionInv'
BY DEF SendStep, providerVars, ConnectionInv, ConnectionTypeOK, ProviderTypeOK, NoLeakedGraceTimer,
  ErrorFlagMatchesStatus, StaleIsTimed, OneAttempt, NoTightLoop, StreamInv, PromiseInv, CloseInv, Attempts,
  Delays, AttemptKinds, MicrotasksDone

(* The invariant is inductive over the steps of a connection.                *)
THEOREM PreservesConnectionInv ==
  ASSUME ConnectionInv, ConnectionNext
  PROVE  ConnectionInv'
BY ConnectStep, WaitReadyStep, WaitFailsStep, StreamErrorStep, MessageStepInv, RetryTimerStep,
  GraceStepInv, ContinueStepInv, CloseStep, AcceptStep, EnvironmentStep, SendStepInv
  DEF ConnectionNext

(* Every step of a connection is a step of the life cycle, or leaves both    *)
(* the status and the decision to stop alone.                                *)
THEOREM RefinesLifecycle ==
  ASSUME ConnectionInv, ConnectionNext
  PROVE  Lifecycle!Next \/ UNCHANGED <<status, gaveUp # "no">>
<1> USE DEF Lifecycle!Next, Lifecycle!Initialized, Lifecycle!InitializationFailed, Lifecycle!Stops,
  Lifecycle!Disconnected, Lifecycle!GraceOver, Lifecycle!Reconnected
<1>0. status \in {"NOT_READY", "READY", "STALE", "ERROR", "FATAL"} /\ ErrorFlagMatchesStatus
  BY DEF ConnectionInv, ConnectionTypeOK, ProviderTypeOK
<1>a. Attempts # 0 => gaveUp = "no" /\ status # "FATAL"
  BY DEF ConnectionInv, StreamInv, PromiseInv
<1>1. ASSUME NEW a \in AttemptKinds, NEW f \in BOOLEAN, NEW t, attemptFails(a, f, t), Attempts # 0
      PROVE  Lifecycle!Next \/ UNCHANGED <<status, gaveUp # "no">>
  <2>1. gaveUp = "no" /\ status # "FATAL"
    BY <1>a, <1>1
  <2>2. gaveUp' = a \/ UNCHANGED gaveUp
    BY <1>1 DEF attemptFails
  <2>3. a # "no"
    BY DEF AttemptKinds
  <2>4. CASE isErrorState
    <3>1. UNCHANGED status /\ status \in {"STALE", "ERROR"}
      BY <1>0, <1>1, <2>1, <2>4 DEF attemptFails, handleError, ErrorFlagMatchesStatus
    <3> QED BY <2>1, <2>2, <2>3, <3>1
  <2>5. CASE ~isErrorState
    <3>1. status' = "STALE" /\ status \in {"NOT_READY", "READY"}
      BY <1>0, <1>1, <2>5 DEF attemptFails, handleError, ErrorFlagMatchesStatus
    <3> QED BY <2>1, <2>2, <2>3, <3>1
  <2> QED BY <2>4, <2>5
<1>2. CASE MessageStep
  <2>1. gaveUp = "no" /\ status # "FATAL" /\ UNCHANGED gaveUp
    BY <1>2, <1>a DEF MessageStep, MessageArrives, ConnectionInv, Attempts,
      ConnectionTypeOK, Delays, AttemptKinds
  <2> QED BY <1>0, <1>2, <2>1 DEF MessageStep, handleReconnect
<1>3. CASE GraceStep
  BY <1>0, <1>3 DEF GraceStep, graceElapsed, ErrorFlagMatchesStatus, connectionVars
<1>4. CASE ContinueStep
  BY <1>0, <1>4 DEF ContinueStep, initializeContinues, ConnectionInv, PromiseInv
<1>5. ASSUME NEW a \in AttemptKinds, WaitFails(a)
      PROVE  Lifecycle!Next \/ UNCHANGED <<status, gaveUp # "no">>
  <2>1. Attempts # 0
    BY <1>5 DEF WaitFails, Attempts, ConnectionInv, ConnectionTypeOK, Delays, AttemptKinds
  <2> QED BY <1>1, <1>5, <2>1 DEF WaitFails
<1>6. ASSUME NEW fatalCode \in BOOLEAN, StreamError(fatalCode)
      PROVE  Lifecycle!Next \/ UNCHANGED <<status, gaveUp # "no">>
  <2>1. Attempts # 0 /\ stream.attempt \in AttemptKinds
    BY <1>6 DEF StreamError, Attempts, ConnectionInv, ConnectionTypeOK, Delays, AttemptKinds
  <2> QED BY <1>1, <1>6, <2>1 DEF StreamError
<1> QED
  BY <1>2, <1>3, <1>4, <1>5, <1>6 DEF ConnectionNext, Connect, WaitReady,
    RetryTimer, Close, onClose, ServerAccepts, Environment, StreamBreaks, StreamEnds,
    ChannelDown, ChannelUp, SendStep, providerVars

(* A fatal first failure is final: whatever implements the life cycle is     *)
(* never READY again once it was FATAL, although FATAL degrades to ERROR     *)
(* with the grace timer (flagd-provider.ts:135-147).                         *)
THEOREM FatalIsFinal == ImplementsLifecycle => [](status = "FATAL" => [](status # "READY"))
<1> DEFINE Final == status \in {"FATAL", "ERROR"} /\ gaveUp # "no"
<1> USE DEF Lifecycle!Init, Lifecycle!Next, Lifecycle!Initialized, Lifecycle!InitializationFailed,
  Lifecycle!Stops, Lifecycle!Disconnected, Lifecycle!GraceOver, Lifecycle!Reconnected
<1>1. Lifecycle!Init => (status = "FATAL" => Final)
  OBVIOUS
<1>2. (status = "FATAL" => Final) /\ [Lifecycle!Next]_<<status, gaveUp # "no">>
        => (status = "FATAL" => Final)'
  OBVIOUS
<1>3. Final /\ [Lifecycle!Next]_<<status, gaveUp # "no">> => Final'
  OBVIOUS
<1>4. Final => status # "READY"
  OBVIOUS
<1> HIDE DEF Final, Lifecycle!Init, Lifecycle!Next
<1> QED BY <1>1, <1>2, <1>3, <1>4, PTL DEF ImplementsLifecycle, Lifecycle!Spec

LEMMA NothingPending ==
  ASSUME ConnectionTypeOK, Attempts = 0
  PROVE  /\ waits["first"] = 0 /\ waits["retry"] = 0
         /\ retryTimers["now"] = 0 /\ retryTimers["backoff"] = 0
         /\ stream.state # "open"
<1>1. /\ waits["first"] \in Nat /\ waits["retry"] \in Nat
      /\ retryTimers["now"] \in Nat /\ retryTimers["backoff"] \in Nat
  BY DEF ConnectionTypeOK, Delays, AttemptKinds
<1>2. PICK live \in {0, 1} : live = IF stream.state = "open" THEN 1 ELSE 0
  BY Zenon
<1>3. waits["first"] + waits["retry"] + retryTimers["now"] + retryTimers["backoff"] + live = 0
  BY <1>2, Zenon DEF Attempts
<1>4. waits["first"] + waits["retry"] + retryTimers["now"] + retryTimers["backoff"] + live <= 0
  BY <1>3
<1>5. live \in Nat
  BY <1>2
<1>6. /\ waits["first"] = 0 /\ waits["retry"] = 0
      /\ retryTimers["now"] = 0 /\ retryTimers["backoff"] = 0
      /\ live = 0
  BY <1>1, <1>4, <1>5
<1>7. stream.state # "open"
  BY <1>2, <1>6
<1> QED BY <1>6, <1>7

(* A closed provider with nothing pending starts nothing.                    *)
THEOREM StaysQuiet ==
  ASSUME ConnectionInv, ConnectionNext
  PROVE  QuietStep
<1> SUFFICES ASSUME closed, Attempts = 0, MicrotasksDone
             PROVE  Attempts' = 0 /\ UNCHANGED <<status, graceTimeouts>>
  BY DEF QuietStep
<1> USE DEF MicrotasksDone
<1>1. /\ waits["first"] = 0 /\ waits["retry"] = 0
      /\ retryTimers["now"] = 0 /\ retryTimers["backoff"] = 0
      /\ stream.state # "open"
  BY NothingPending DEF ConnectionInv
<1>2. graceTimeouts = 0 /\ init # "idle"
  BY DEF ConnectionInv, CloseInv, NoLeakedGraceTimer
<1>3. CASE \/ Environment \/ SendStep \/ \E message : ServerAccepts(message)
  BY <1>3 DEF Environment, StreamBreaks, StreamEnds, ChannelDown, ChannelUp, SendStep,
    ServerAccepts, providerVars, Attempts
<1>4. ~Connect /\ ~Close /\ ~GraceStep /\ ~ContinueStep
  <2>1. ~Connect /\ ~Close
    BY <1>2 DEF Connect, Close, onClose
  <2>2. ~GraceStep
    BY <1>2 DEF GraceStep, graceElapsed
  <2>3. ~ContinueStep
    BY DEF ContinueStep, initializeContinues
  <2> QED BY <2>1, <2>2, <2>3
<1>5. /\ \A a \in AttemptKinds : ~WaitReady(a) /\ ~WaitFails(a)
      /\ \A d \in Delays : ~RetryTimer(d)
  <2>1. \A a \in AttemptKinds : ~(waits[a] > 0)
    BY <1>1 DEF AttemptKinds
  <2>2. \A d \in Delays : ~(retryTimers[d] > 0)
    BY <1>1 DEF Delays
  <2> QED BY <2>1, <2>2 DEF WaitReady, WaitFails, RetryTimer
<1>6. ~MessageStep /\ \A fatalCode \in BOOLEAN : ~StreamError(fatalCode)
  BY <1>1 DEF MessageStep, MessageArrives, StreamError
<1> QED BY <1>3, <1>4, <1>5, <1>6 DEF ConnectionNext
=============================================================================
