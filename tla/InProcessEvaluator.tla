------------------------- MODULE InProcessEvaluator -------------------------
(* The in-process evaluator of the GO Feature Flag provider                  *)
(* (inprocess-evaluator.ts) and the retrieval of its configuration (api.ts). *)
(* The relay proxy is external: its configuration has versions 1, 2, ...,    *)
(* the ETag of a response names its version, and so does the Last-Modified   *)
(* header where there is one; a proxy of a cluster can be behind the others. *)
EXTENDS Integers, FiniteSets

CONSTANTS MaxVersion,   \* bound: versions of the configuration
          MaxLoadFaults \* bound: loads that fail or bring an unreadable body

ASSUME MaxVersionAssumption == MaxVersion \in Nat \ {0}
ASSUME MaxLoadFaultsAssumption == MaxLoadFaults \in Nat

None == 0               \* no ETag, no date, no flags

VARIABLES server,       \* the newest version
          dated,        \* do responses have a Last-Modified header?
          etag, lastUpdate, flags, evaluationContextEnrichment,
          configurationState,
          periodicRunner,     \* "none", "armed" or "fired"
          load,               \* loadConfiguration on its way: "none", "first" or "poll"
          unreadable,         \* has the body of the flags in use not been parsed?
          loadFaults

evaluatorVars == <<server, dated, etag, lastUpdate, flags, evaluationContextEnrichment,
                   configurationState, periodicRunner, load, unreadable, loadFaults>>
configuration == <<etag, lastUpdate, flags, evaluationContextEnrichment, unreadable>>

EvaluatorInit ==
  /\ server = 1 /\ dated \in BOOLEAN
  /\ etag = None /\ lastUpdate = None /\ flags = None
  /\ evaluationContextEnrichment = None
  /\ configurationState = "not_initialized"
  /\ periodicRunner = "none"
  /\ load = "none"
  /\ unreadable = FALSE /\ loadFaults = 0

ServerChanges ==
  /\ server < MaxVersion
  /\ server' = server + 1
  /\ UNCHANGED <<dated, configuration, configurationState, periodicRunner, load, loadFaults>>

(* loadConfiguration up to its await: one load is on its way at a time, so   *)
(* the ETag it has sent is the one there is.                                 *)
loadConfiguration(which) == load' = which

(* initialize() once the WASM module is loaded.                              *)
initializeEvaluator ==
  /\ load = "none"
  /\ loadConfiguration("first")
  /\ UNCHANGED <<server, dated, configuration, configurationState, periodicRunner, loadFaults>>

(* A mutant: only a success arms the timer of the polling again.             *)
finishedIfOk(ok) ==
  /\ load' = "none"
  /\ periodicRunner' = IF ok /\ (load = "first" \/ periodicRunner # "none")
                       THEN "armed" ELSE periodicRunner
  /\ configurationState' = IF load = "poll" THEN configurationState
                           ELSE IF ok THEN "initialized" ELSE "error"

(* What follows a load: initialize() arms the timer, the polling interval    *)
(* being set; poll() arms it again if dispose() has not reset it meanwhile,  *)
(* whether the load succeeded or not.                                        *)
finished(ok) ==
  /\ load' = "none"
  /\ periodicRunner' = IF (load = "first" /\ ok) \/ (load = "poll" /\ periodicRunner # "none")
                       THEN "armed" ELSE periodicRunner
  /\ configurationState' = IF load = "poll" THEN configurationState
                           ELSE IF ok THEN "initialized" ELSE "error"

(* A mutant: the date of the configuration is not looked at.                 *)
isOlderNever(date) == FALSE

isOlder(date) == lastUpdate # None /\ date # None /\ date < lastUpdate

(* The assignments of loadConfiguration.                                     *)
accepted(version, date, parsed) ==
  /\ etag' = version
  /\ lastUpdate' = date
  /\ flags' = IF parsed THEN version ELSE None
  /\ evaluationContextEnrichment' = flags'
  /\ unreadable' = ~parsed

(* The relay proxy answers: 304 when it has the version the ETag names, else *)
(* 200 with its version.  A body that cannot be parsed counts as an empty    *)
(* configuration.                                                            *)
Loaded ==
  /\ load # "none"
  /\ \E version \in 1..server, parsed \in BOOLEAN :
       LET date == IF dated THEN version ELSE None
       IN
         /\ parsed \/ (loadFaults < MaxLoadFaults /\ version # etag)
         /\ loadFaults' = IF parsed THEN loadFaults ELSE loadFaults + 1
         /\ IF etag = version \/ isOlder(date) THEN UNCHANGED configuration
            ELSE accepted(version, date, parsed)
  /\ finished(TRUE)
  /\ UNCHANGED <<server, dated>>

(* Any other status, an error of the network, or the timeout.                *)
LoadFails ==
  /\ load # "none"
  /\ loadFaults < MaxLoadFaults /\ loadFaults' = loadFaults + 1
  /\ finished(FALSE)
  /\ UNCHANGED <<server, dated, configuration>>

(* The timer: poll().                                                        *)
PollTimer ==
  /\ periodicRunner = "armed" /\ periodicRunner' = "fired"
  /\ loadConfiguration("poll")
  /\ UNCHANGED <<server, dated, configuration, configurationState, loadFaults>>

(* A mutant: the handle is cleared but not reset.                            *)
disposeEvaluatorKeepingHandle ==
  /\ periodicRunner' = IF periodicRunner = "armed" THEN "fired" ELSE periodicRunner
  /\ UNCHANGED <<server, dated, configuration, configurationState, load, loadFaults>>

disposeEvaluator ==
  /\ periodicRunner' = "none"
  /\ UNCHANGED <<server, dated, configuration, configurationState, load, loadFaults>>

EvaluatorSteps == ServerChanges \/ Loaded \/ LoadFails \/ PollTimer
-----------------------------------------------------------------------------
EvaluatorTypeOK ==
  /\ server \in 1..MaxVersion
  /\ {etag, lastUpdate, flags, evaluationContextEnrichment} \subseteq 0..MaxVersion
  /\ configurationState \in {"not_initialized", "initialized", "error"}
  /\ periodicRunner \in {"none", "armed", "fired"}
  /\ load \in {"none", "first", "poll"}
  /\ unreadable \in BOOLEAN
  /\ loadFaults \in 0..MaxLoadFaults

(* When responses are dated, the evaluator never goes back to an earlier     *)
(* configuration, although the proxies of a cluster answer in any order.     *)
NeverBackwards == [][dated /\ etag' # etag => etag' > etag]_evaluatorVars
=============================================================================
