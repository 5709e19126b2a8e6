--------------------------- MODULE MCGoFeatureFlag ---------------------------
(* The GO Feature Flag provider for TLC: a behaviour is about its events,    *)
(* the configuration being as it is, or about polls and evaluations, without *)
(* events.                                                                   *)
EXTENDS GoFeatureFlagProvider

CONSTANTS asks_boolean, asks_object

MCAsked == [c \in {asks_boolean, asks_object} |-> IF c = asks_boolean THEN "boolean" ELSE "object"]

VARIABLE subject        \* "events" or "flags"

(* Nothing at any place, a custom file before another one, or the module at  *)
(* the last place alone.                                                     *)
At(custom, relative, last) ==
  [p \in Range(Places) |-> CASE p = "custom" -> custom [] p = "relative" -> relative
                             [] p = "require.resolve" -> last [] OTHER -> "missing"]
MCPlacements ==
  {At("missing", "missing", "missing"), At("partial", "whole", "missing"), At("missing", "missing", "whole")}

MCInit ==
  /\ Init
  /\ subject \in {"events", "flags"}
  /\ subject = "events" => wasmFiles = At("missing", "missing", "whole") /\ dated

(* What an evaluation answered is looked at and forgotten.                   *)
Forget ==
  /\ settled # {} /\ settled' = {}
  /\ UNCHANGED <<publisherVars, evaluatorVars, wasmVars, call, providerVars, subject>>

MCNext ==
  /\ settled = {}
  /\ Next
  /\ subject' = subject
  /\ subject = "events" => UNCHANGED <<server, call>> /\ (load = "poll" => UNCHANGED loadFaults)
  /\ subject = "flags" => UNCHANGED added

MCSpec == MCInit /\ [][MCNext \/ Forget]_<<vars, subject>> /\ Fairness
=============================================================================
