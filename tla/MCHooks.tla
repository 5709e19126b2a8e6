------------------------------- MODULE MCHooks -------------------------------
(* The parts that keep something between evaluations, for TLC: the debounce  *)
(* hook and its cache, the data collector of the GO Feature Flag provider    *)
(* for browsers with what it hands its events to, and the cache of the AWS   *)
(* SSM provider.  A behaviour is about one of them.                          *)
EXTENDS DebounceHook, CollectorManager, AwsSsmProvider

VARIABLES subject       \* "debounce", "collector" or "parameters"

MCAsks == [n \in Names |-> IF n = "p" THEN {"boolean", "string", "object"} ELSE {"string"}]

MCInit ==
  /\ Init /\ CollectorInit /\ SsmInit
  /\ subject \in {"debounce", "collector", "parameters"}
  /\ subject # "debounce" => maxItems = 1 /\ async /\ cacheErrors
  /\ subject # "parameters" => enabled /\ ~enableDecryption
  /\ \A n \in Names : parameter[n].text = IF n = "p" /\ enableDecryption THEN "none" ELSE "boolean"

(* One of the parameters is written; an answer is looked at and forgotten.   *)
Writes == \A n \in Names : parameter'[n] = parameter[n] \/ (n = "p" /\ parameter'[n].text = "number")

(* Requests that are alike: the second one is used when the first is busy.   *)
InOrder == request[2] = NoRequest /\ request'[2] # NoRequest => request[1] # NoRequest

Forget ==
  /\ answer # {} /\ answer' = {}
  /\ UNCHANGED <<vars, collectorVars, subject, clock, enabled, enableDecryption, parameter, since, lru, request>>

MCNext ==
  \/ subject = "debounce" /\ Next /\ UNCHANGED <<collectorVars, ssmVars, subject>>
  \/ subject = "collector" /\ CollectorNext /\ UNCHANGED <<vars, ssmVars, subject>>
  \/ /\ subject = "parameters" /\ answer = {}
     /\ SsmNext /\ Writes /\ InOrder
     /\ UNCHANGED <<vars, collectorVars, subject>>
  \/ Forget

MCSpec == MCInit /\ [][MCNext]_<<vars, collectorVars, ssmVars, subject>>
=============================================================================
