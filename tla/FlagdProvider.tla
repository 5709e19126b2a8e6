---------------------------- MODULE FlagdProvider ----------------------------
(* The provider object of libs/providers/flagd (flagd-provider.ts): the      *)
(* promise of initialize(), the error flag with its grace timer, the events  *)
(* it emits.  The handlers below are the callbacks it hands to its Service;  *)
(* GRPCService and GrpcFetch extend this module and run them inside their    *)
(* own steps, as the code does (the callbacks are synchronous).              *)
EXTENDS Naturals

VARIABLES
  init,          \* initialize(): "idle", "pending" on connect(), settled but
                 \* not yet continued ("resolved", "rejected", "fatal"), "done"
  isErrorState,  \* _isErrorState
  errorTimer,    \* _errorTimer holds a handle
  graceTimeouts, \* number of grace timeouts the event loop still has to run
  status,        \* the status the SDK derives from the events and the promise
  closed         \* onClose() has run

providerVars == <<init, isErrorState, errorTimer, graceTimeouts, status, closed>>

ProviderTypeOK ==
  /\ init \in {"idle", "pending", "resolved", "rejected", "fatal", "done"}
  /\ isErrorState \in BOOLEAN
  /\ errorTimer \in BOOLEAN
  /\ graceTimeouts \in Nat
  /\ status \in {"NOT_READY", "READY", "STALE", "ERROR", "FATAL"}
  /\ closed \in BOOLEAN

ProviderInit ==
  /\ init = "idle"
  /\ isErrorState = FALSE
  /\ errorTimer = FALSE
  /\ graceTimeouts = 0
  /\ status = "NOT_READY"
  /\ closed = FALSE

(* The continuation of a settled promise is a microtask: no timer and no     *)
(* other callback of the event loop runs before it.                          *)
MicrotasksDone == init \notin {"resolved", "rejected", "fatal"}

(* resolveConnect / rejectConnect: only the first call settles the promise.  *)
Settle(outcome) == init' = IF init = "pending" THEN outcome ELSE init

clearErrorTimer ==
  /\ errorTimer' = FALSE
  /\ graceTimeouts' = IF errorTimer THEN graceTimeouts - 1 ELSE graceTimeouts

(* The callback for "reconnected": emits READY.                              *)
handleReconnect ==
  /\ clearErrorTimer
  /\ isErrorState' = FALSE
  /\ status' = "READY"

(* Mutant: every failed attempt reports.                                     *)
handleErrorEveryTime ==
  /\ isErrorState' = TRUE
  /\ status' = "STALE"
  /\ errorTimer' = TRUE
  /\ graceTimeouts' = graceTimeouts + 1

(* The callback for "disconnected": one STALE event and one timer per        *)
(* outage; in an outage that was already reported it returns early.          *)
handleError ==
  \/ /\ isErrorState
     /\ UNCHANGED <<isErrorState, errorTimer, graceTimeouts, status>>
  \/ /\ ~isErrorState
     /\ isErrorState' = TRUE
     /\ status' = "STALE"
     /\ errorTimer' = TRUE
     /\ graceTimeouts' = graceTimeouts + 1

(* The provider's side of a grace timeout: its service clears its cache in   *)
(* the same callback when the outage lasts.                                  *)
graceElapsed ==
  /\ graceTimeouts > 0
  /\ MicrotasksDone
  /\ graceTimeouts' = graceTimeouts - 1
  /\ errorTimer' = FALSE
  /\ status' = IF isErrorState THEN "ERROR" ELSE status
  /\ UNCHANGED <<init, isErrorState, closed>>

(* initialize() after its await: the success path forgets any outage, the    *)
(* failure path rethrows; the SDK sets the status from the outcome.          *)
initializeContinues ==
  /\ \/ init = "resolved" /\ clearErrorTimer /\ isErrorState' = FALSE /\ status' = "READY"
     \/ /\ init \in {"rejected", "fatal"}
        /\ status' = IF init = "fatal" THEN "FATAL" ELSE "ERROR"
        /\ UNCHANGED <<isErrorState, errorTimer, graceTimeouts>>
  /\ init' = "done"
  /\ UNCHANGED closed

(* onClose(): clears the timer, not the error flag.                          *)
onClose ==
  /\ init # "idle"
  /\ ~closed
  /\ closed' = TRUE
  /\ clearErrorTimer
  /\ UNCHANGED <<init, isErrorState, status>>

-----------------------------------------------------------------------------
(* The timeout the event loop still holds is the one the handle names: no    *)
(* outage leaves behind a timer that nobody can clear and that would turn a  *)
(* recovered provider to ERROR (flagd-provider.ts:130-159).                  *)
NoLeakedGraceTimer == graceTimeouts = IF errorTimer THEN 1 ELSE 0

(* _isErrorState, which decides whether an outage is reported at all, agrees *)
(* with what the SDK was told: a status that says "outage" with the flag     *)
(* down would report twice, a READY with the flag up would hide the next     *)
(* outage (flagd-provider.ts:124-148).                                       *)
ErrorFlagMatchesStatus == isErrorState <=> status \in {"STALE", "ERROR", "FATAL"}

(* A STALE provider that is not closed has its grace timer running, or the   *)
(* promise of initialize() is about to override the status: STALE is never   *)
(* a state the provider stays in by itself (flagd-provider.ts:135-147).      *)
StaleIsTimed == status = "STALE" /\ ~closed => errorTimer \/ ~MicrotasksDone

(* The bookkeeping of an outage: timer, flag and status agree whichever way  *)
(* outages, reconnects, the grace timer, initialize() and onClose() meet     *)
(* (flagd-provider.ts:124-159).                                              *)
OutageTracked == NoLeakedGraceTimer /\ ErrorFlagMatchesStatus /\ StaleIsTimed
=============================================================================
