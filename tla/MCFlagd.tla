----------------------------- MODULE MCFlagd -----------------------------
(* flagd beside its server provider, for TLC: the evaluation in flagd-core,  *)
(* each part on its own inputs (the flags and their texts, the weights of a  *)
(* fractional rule, the versions of a sem_ver rule), the settings of the     *)
(* provider, and the provider for browsers.  A behaviour is about one.       *)
EXTENDS FlagdCore, FlagdConfiguration, FlagdWebProvider

CONSTANTS
  Numbers,        \* in the versions below
  Rollouts,       \* two fractional rules, before and after a change
  VersionTexts,   \* the versions that are compared
  Environments,   \* what the environment variables may be
  Options         \* the options given with them

ASSUME InputsTyped ==
  /\ Rollouts \subseteq [before : Seq(EntryType), after : Seq(EntryType)]
  /\ VersionTexts \subseteq VersionType
  /\ Environments \subseteq [Variables -> EnvTexts]

VARIABLES subject, input

MCWeights == {NoWeight, <<-1>>, <<0>>, <<2>>, <<3>>}
MCVariants == <<"a", "b", "c">>

NoInput == [none |-> TRUE]

(* Rollouts of up to three entries.                                          *)
MCEntries(n) == {[i \in 1 .. n |-> [variant |-> MCVariants[i], weight |-> w[i], usable |-> TRUE]] : w \in [1 .. n -> MCWeights]}
MCRollouts == {[before |-> b, after |-> a] : b, a \in MCEntries(2) \union MCEntries(3)}

MCVersions == {Written(a, b, c, p) : a, b, c \in Numbers, p \in {-1, 0}}
                \union {[Written(a, b, 0, 0) EXCEPT !.form = f] : a, b \in Numbers, f \in {"major", "minor"}}
                \union {NoVersion}

(* An environment with the resolver and one more variable, the same options. *)
Unset(names) == [s \in names |-> "unset"]
MCEnvironments ==
  {[Unset(Variables) EXCEPT !["resolverType"] = r, ![v] = t, !["syncPort"] = p] :
     r \in {"unset", "rpc", "IN-PROCESS"}, v \in Settings, t \in EnvTexts, p \in {"unset", "0", "7"}}
MCOptions ==
  {[Unset(Settings) EXCEPT !["resolverType"] = r, ![s] = "9"] :
     r \in {"unset", "rpc", "in-process"}, s \in {"port", "host", "retryGracePeriod"}}
    \union {[Unset(Settings) EXCEPT ![s] = "undefined"] : s \in {"streamDeadlineMs", "deadlineMs"}}
    \union {[Unset(Settings) EXCEPT !["resolverType"] = r] : r \in {"unset", "rpc", "in-process"}}

-----------------------------------------------------------------------------
(* Texts of flags.                                                           *)
Rule(operation) == [op |-> operation]
Ref(name) == [op |-> "$ref", key |-> name]
Literal(v) == [op |-> "literal", value |-> v]
Split(good, named) == [op |-> "fractional", bucketBy |-> named,
                    entries |-> <<[variant |-> "on", weight |-> <<1>>, usable |-> good],
                                  [variant |-> "off", weight |-> NoWeight, usable |-> TRUE]>>]
MCRules ==
  {NoTargeting, Rule("unknown"), Rule("throws"), Ref("x"), Ref("z"), Literal("on"), Literal("gone"), Literal(Null),
   Split(TRUE, FALSE), Split(FALSE, TRUE),
   [op |-> "sem_ver", operator |-> "^", version |-> Written(1, 0, 0, 0)],
   [op |-> "starts_with", text |-> <<1>>]}
Evaluator(name, r) == [key |-> name, rule |-> r]
MCEvaluators ==
  {<<>>, <<Evaluator("x", Literal("on"))>>,
   <<Evaluator("x", Ref("y")), Evaluator("y", Literal("off"))>>,
   <<Evaluator("y", Literal("off")), Evaluator("x", Ref("y"))>>}
MCFlags ==
  [state : {"ENABLED", "DISABLED", "odd"}, defaultVariant : {"on", "gone", NoVariant},
   variants : {[v \in {"on", "off", "true"} |-> "boolean"], [v \in {"on"} |-> "string"]}, targeting : MCRules]
MCFixed == [state |-> "ENABLED", defaultVariant |-> "on", variants |-> [v \in {"on"} |-> "string"],
            targeting |-> Ref("x")]
MCConfigurations ==
  {[json |-> TRUE, schema |-> f.state # "odd", flags |-> [k \in {"a"} |-> f], evaluators |-> e] :
     f \in MCFlags, e \in MCEvaluators}
    \union {[json |-> TRUE, schema |-> FALSE, flags |-> [k \in FlagKeys |-> IF k = "a" THEN f ELSE MCFixed],
             evaluators |-> <<Evaluator("x", Literal("on"))>>] : f \in MCFlags}
    \union {[json |-> FALSE, schema |-> FALSE, flags |-> [k \in {} |-> k], evaluators |-> <<>>]}
MCEvalContexts ==
  {[targetingKey |-> k, hash |-> h, version |-> v, name |-> n] :
     k \in {"user", Null}, h \in {0, HashRange - 1}, v \in {Written(1, 1, 0, 0), NoVersion}, n \in {<<1, 2>>, <<2>>}}

-----------------------------------------------------------------------------
MCInit ==
  /\ CoreInit /\ WebInit
  /\ input = NoInput
  /\ subject \in {"flags", "rollout", "versions", "settings", "web"}
  /\ subject # "web" => context = CHOOSE c \in Contexts : TRUE

Configure == subject = "flags" /\ CoreNext /\ UNCHANGED <<subject, input, webVars>>

Inputs ==
  CASE subject = "rollout" -> Rollouts
    [] subject = "versions" -> [a : VersionTexts, b : VersionTexts, c : VersionTexts]
    [] subject = "settings" -> [env : Environments, options : Options]
    [] OTHER -> {}
Choose == input = NoInput /\ input' \in Inputs /\ UNCHANGED <<coreVars, subject, webVars>>
Forget == input # NoInput /\ input' = NoInput /\ UNCHANGED <<coreVars, subject, webVars>>

Browse == subject = "web" /\ WebNext /\ UNCHANGED <<coreVars, subject, input>>

MCSpec ==
  /\ MCInit /\ [][Configure \/ Choose \/ Forget \/ Browse]_<<coreVars, subject, input, webVars>>
  /\ subject = "web" => WebFairness

On(name) == subject = name /\ input # NoInput

(* Every text of flags the parser accepts is answered, the references in it  *)
(* replaced, and the bulk answers are those of the single evaluations        *)
(* (parser.ts:56-107, flagd-core.ts:116-211).                                *)
FlagsAnswer == AcceptedFlagsAnswer /\ ResolveAllAgrees /\ RefsResolved

(* The operators of the rules: fractional shares are proportional and grow   *)
(* without moving anyone back, and the comparisons of versions fit together  *)
(* (fractional.ts:64-121, sem-ver.ts:53-77).                                 *)
OperatorsHold ==
  /\ On("rollout") => Proportional(input.before) /\ Monotone(input.before, input.after)
  /\ On("versions") => OperatorsAgree(input.a, input.b, input.c)

(* Settings are usable numbers and texts, whichever of options, environment  *)
(* and defaults they come from (configuration.ts:200-286).                   *)
SettingsHold == On("settings") => SettingsUsable(input.env, input.options)
=============================================================================
