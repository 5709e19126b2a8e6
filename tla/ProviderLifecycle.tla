-------------------------- MODULE ProviderLifecycle --------------------------
(* What an application sees of a streaming flagd provider: the status the    *)
(* OpenFeature SDK keeps for it.  A lost stream is first reported as STALE,  *)
(* STALE turns into ERROR only when the grace period runs out, a provider    *)
(* that failed fatally on its first connection is never READY: it has        *)
(* stopped for good, and stays so when FATAL later degrades to ERROR.        *)
VARIABLES
  status,
  stopped   \* it has met a fatal code and starts no further attempt

Statuses == {"NOT_READY", "READY", "STALE", "ERROR", "FATAL"}

Init == status = "NOT_READY" /\ stopped = FALSE

(* The promise of initialize() settles.  The failure of the first attempt is *)
(* reported as STALE before the promise is seen to settle.  A promise that   *)
(* was resolved before the stream met its fatal code still settles as READY. *)
Initialized ==
  /\ status \in {"NOT_READY", "STALE"}
  /\ status' = "READY"
  /\ UNCHANGED stopped

InitializationFailed ==
  /\ status = "STALE"
  /\ \/ status' = "ERROR"
     \/ stopped /\ status' = "FATAL"
  /\ UNCHANGED stopped

(* Only a provider with nothing to report yet, or a READY one, turns STALE.  *)
Disconnected ==
  /\ ~stopped
  /\ status \in {"NOT_READY", "READY"}
  /\ status' = "STALE"
  /\ stopped' \in BOOLEAN

(* A fatal code in an outage that was reported already.                      *)
Stops ==
  /\ ~stopped
  /\ status \in {"STALE", "ERROR"}
  /\ stopped' = TRUE
  /\ UNCHANGED status

(* The timer armed with the STALE event also runs after a failed             *)
(* initialize(): FATAL then degrades to a plain ERROR.                       *)
GraceOver ==
  /\ status \in {"STALE", "ERROR", "FATAL"}
  /\ status' = "ERROR"
  /\ UNCHANGED stopped

Reconnected ==
  /\ ~stopped
  /\ status \in {"NOT_READY", "STALE", "ERROR"}
  /\ status' = "READY"
  /\ UNCHANGED stopped

Next == \/ Initialized
        \/ InitializationFailed
        \/ Disconnected
        \/ Stops
        \/ GraceOver
        \/ Reconnected

Spec == Init /\ [][Next]_<<status, stopped>>
=============================================================================
