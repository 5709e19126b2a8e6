---------------------------- MODULE StatusTracker ----------------------------
(* How the multi-provider of the server SDK condenses the events of its      *)
(* providers into events of its own (status-tracker.ts), and the status the  *)
(* OpenFeature SDK derives from them and from the promise of initialize().   *)
(* The wrapper of a provider in the SDK takes an Error event with the code   *)
(* PROVIDER_FATAL for FATAL, any other for ERROR.                            *)
EXTENDS Integers, FiniteSets

CONSTANT N              \* number of providers, in the order of registration

Providers == 1..N

VARIABLES promise,      \* what the promise of each provider's initialize() is
          initialized,  \* has the promise of the multi-provider settled?
          actual,       \* the status a provider would have on its own
          statuses,     \* providerStatuses of the tracker
          sdk,          \* the status the SDK keeps for the multi-provider
          heard         \* has the multi-provider emitted since initialize()?

vars == <<promise, initialized, actual, statuses, sdk, heard>>

Ranking == <<"FATAL", "NOT_READY", "ERROR", "STALE">>

(* The most critical of a set of statuses; READY when there is none.         *)
MostCriticalOf(S) ==
  IF \E i \in DOMAIN Ranking : Ranking[i] \in S
  THEN Ranking[CHOOSE i \in DOMAIN Ranking :
                 Ranking[i] \in S /\ \A j \in 1..(i - 1) : Ranking[j] \notin S]
  ELSE "READY"

(* getStatusFromProviderStatuses: "none" stands for a provider that has not  *)
(* emitted and is no key of the record.                                      *)
overall(tracked) == MostCriticalOf({tracked[p] : p \in Providers})

Init ==
  /\ promise = [p \in Providers |-> "pending"]
  /\ initialized = FALSE
  /\ actual = [p \in Providers |-> "NOT_READY"]
  /\ statuses = [p \in Providers |-> "none"]
  /\ sdk = "NOT_READY"
  /\ heard = FALSE

(* The promise of one provider's initialize() settles.                       *)
InitializeSettles(p) ==
  /\ promise[p] = "pending"
  /\ \E result \in {"READY", "ERROR", "FATAL"} :
       /\ promise' = [promise EXCEPT ![p] = result]
       /\ actual' = [actual EXCEPT ![p] = result]
  /\ UNCHANGED <<initialized, statuses, sdk, heard>>

(* Promise.allSettled resolves.  One rejection rejects initialize() with an  *)
(* AggregateError, whose code is GENERAL whatever the causes are.            *)
initialize ==
  /\ \A p \in Providers : promise[p] # "pending"
  /\ ~initialized /\ initialized' = TRUE
  /\ sdk' = IF \A p \in Providers : promise[p] = "READY" THEN "READY" ELSE "ERROR"
  /\ UNCHANGED <<promise, actual, statuses, heard>>

(* A mutant: every event of a provider is passed on.                         *)
changeAlwaysEmits(p, status, details) ==
  /\ statuses' = [statuses EXCEPT ![p] = status]
  /\ sdk' = IF status = "ERROR" THEN details ELSE status
  /\ heard' = (heard \/ initialized)

(* The event a change of the overall status makes the multi-provider emit,   *)
(* as the SDK takes it: the details of the causing event are passed on, an   *)
(* error code PROVIDER_FATAL in them included.                               *)
changeProviderStatus(p, status, details) ==
  LET tracked == [statuses EXCEPT ![p] = status]
      emits == overall(statuses) # overall(tracked)
  IN /\ statuses' = tracked
     /\ sdk' = IF ~emits THEN sdk
               ELSE IF overall(tracked) = "ERROR" THEN details ELSE overall(tracked)
     /\ heard' = (heard \/ (emits /\ initialized))

(* A provider emits Ready, Stale or Error, the last perhaps with the code    *)
(* PROVIDER_FATAL, which the handler of the tracker does not look at.        *)
ProviderEvent(p) ==
  /\ \E s \in {"READY", "STALE", "ERROR", "FATAL"} :
       /\ actual' = [actual EXCEPT ![p] = s]
       /\ changeProviderStatus(p, IF s = "FATAL" THEN "ERROR" ELSE s,
                               IF s \in {"ERROR", "FATAL"} THEN s ELSE "ERROR")
  /\ UNCHANGED <<promise, initialized>>

Next == \/ \E p \in Providers : InitializeSettles(p) \/ ProviderEvent(p)
        \/ initialize

Spec == Init /\ [][Next]_vars
-----------------------------------------------------------------------------
(* The variables have values of their types: the tracker knows neither       *)
(* NOT_READY nor FATAL.                                                      *)
TypeOK ==
  /\ promise \in [Providers -> {"pending", "READY", "ERROR", "FATAL"}]
  /\ initialized \in BOOLEAN
  /\ actual \in [Providers -> {"NOT_READY", "READY", "STALE", "ERROR", "FATAL"}]
  /\ statuses \in [Providers -> {"none", "READY", "STALE", "ERROR"}]
  /\ sdk \in {"NOT_READY", "READY", "STALE", "ERROR", "FATAL"}
  /\ heard \in BOOLEAN

(* Once the multi-provider has emitted an event after initialize(), the SDK  *)
(* keeps for it the most critical of the statuses the tracker knows, however *)
(* the providers' events follow one another.                                 *)
SdkFollowsTracker ==
  heard => overall(statuses) = IF sdk = "FATAL" THEN "ERROR" ELSE sdk
=============================================================================
