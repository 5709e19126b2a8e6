------------------------------- MODULE FlagdCore -------------------------------
(* The evaluation of libs/shared/flagd-core: parser.ts, feature-flag.ts,     *)
(* the targeting rules and flagd-core.ts.  A configuration has flags and shared   *)
(* evaluators; a rule is a record with its operation.  What json-logic       *)
(* computes is external but for the operations flagd adds to it.             *)
EXTENDS Fractional, SemVer, FiniteSets, SequencesExt

CONSTANTS
  FlagKeys,       \* flag keys
  Configurations, \* the texts that may be set, see Configuration below
  EvalContexts    \* evaluation contexts: targeting key, its hash, and version

VARIABLES
  storage,        \* MemoryStorage: the flags by key
  accepted        \* the last text that was, with the caller's strictness

coreVars == <<storage, accepted>>

Types == {"boolean", "string"}
NoVariant == "undefined"   \* no default variant, or an empty one
NoTargeting == [op |-> "none"]
Failed == [op |-> "parse error"]

(* A value is its type here.                                                 *)
RulesOf(config) ==
  {config.flags[k].targeting : k \in DOMAIN config.flags}
    \union {config.evaluators[i].rule : i \in DOMAIN config.evaluators}
VariantsOf(config) == {config.flags[k].variants : k \in DOMAIN config.flags}
ASSUME ConfigurationsTyped ==
  \A config \in Configurations :
    /\ config.flags \in [DOMAIN config.flags -> [state : STRING, defaultVariant : STRING,
                                                variants : VariantsOf(config), targeting : RulesOf(config)]]
    /\ \A variants \in VariantsOf(config) : variants \in [DOMAIN variants -> Types]
    /\ config.evaluators \in Seq([key : STRING, rule : RulesOf(config)])

-----------------------------------------------------------------------------
(* transform: the text with its $ref's replaced, one evaluator after the     *)
(* other in the order of their keys, by the evaluators as they were written. *)
replaceAll(rules, evaluator) ==
  [k \in DOMAIN rules |-> IF rules[k].op = "$ref" /\ rules[k].key = evaluator.key
                            THEN evaluator.rule ELSE rules[k]]

transform(rules, evaluators) ==
  LET transformed[i \in 0 .. Len(evaluators)] ==
        IF i = 0 THEN rules ELSE replaceAll(transformed[i - 1], evaluators[i])
  IN transformed[Len(evaluators)]

(* validateMethods: the methods flagd registers or json-logic has.           *)
Methods == {"fractional", "sem_ver", "starts_with", "ends_with", "literal", "throws"}

(* The constructor of Targeting, with its exception caught by FeatureFlag.   *)
targeting(rule) == IF rule.op = "none" \/ rule.op \in Methods THEN rule ELSE Failed

(* validateStructure, where it does not throw.                               *)
validateStructure(flag) ==
  /\ flag.state \in {"ENABLED", "DISABLED"}
  /\ flag.defaultVariant # NoVariant => flag.defaultVariant \in DOMAIN flag.variants

(* parse: a map of flags, or a ParseError if the text is not JSON, a flag is *)
(* not valid, or the schema does not admit the text and the caller is strict.*)
parse(config) ==
  LET rules == transform([k \in DOMAIN config.flags |-> config.flags[k].targeting], config.evaluators)
  IN [k \in DOMAIN config.flags |-> [config.flags[k] EXCEPT !.targeting = targeting(rules[k])]]
parses(config, strict) ==
  /\ config.json
  /\ strict => config.schema
  /\ \A k \in DOMAIN config.flags : validateStructure(config.flags[k])

-----------------------------------------------------------------------------
(* compare of string-comp.ts, on strings given as sequences.                 *)
compareStrings(method, s, t) ==
  IF \/ method = "starts_with" /\ IsPrefix(t, s)
     \/ method = "ends_with" /\ IsSuffix(t, s) THEN "true" ELSE "false"

(* Targeting.evaluate, with toString() of what it answers.                   *)
evaluateRule(rule, ctx) ==
  CASE rule.op = "fractional" -> fractional(rule.entries, IF rule.bucketBy THEN "given" ELSE ctx.targetingKey, ctx.hash)
    [] rule.op = "sem_ver" -> semVer(ctx.version, rule.operator, rule.version)
    [] rule.op \in {"starts_with", "ends_with"} -> compareStrings(rule.op, ctx.name, rule.text)
    [] rule.op = "literal" -> rule.value

Answer(reason, value) == [reason |-> reason, value |-> value, error |-> "none"]
Error(code) == [reason |-> "ERROR", value |-> "undefined", error |-> code]

(* The second half of FeatureFlag.evaluate: the value of a variant, of the   *)
(* default one if there is any.                                              *)
variantOf(flag, variant, reason) ==
  IF variant \in DOMAIN flag.variants THEN Answer(reason, flag.variants[variant]) ELSE Error("GENERAL")
defaultOf(flag, reason) ==
  IF flag.defaultVariant = NoVariant THEN Answer("DEFAULT", "undefined")
  ELSE variantOf(flag, flag.defaultVariant, reason)

(* FeatureFlag.evaluate                                                      *)
evaluate(flag, ctx) ==
  CASE flag.targeting = Failed -> Error("PARSE_ERROR")
    [] flag.targeting.op = "none" -> defaultOf(flag, "STATIC")
    [] flag.targeting.op = "throws" -> Error("GENERAL")
    [] OTHER -> LET answer == evaluateRule(flag.targeting, ctx)
                IN IF answer = Null THEN defaultOf(flag, "DEFAULT")
                                    ELSE variantOf(flag, answer, "TARGETING_MATCH")

(* resolve: value "default" is the caller's.  A value is [type, ...].        *)
resolve(type, key, ctx) ==
  IF key \notin DOMAIN storage THEN [Error("FLAG_NOT_FOUND") EXCEPT !.value = "default"]
  ELSE IF storage[key].state = "DISABLED" THEN Answer("DISABLED", "default")
  ELSE LET resolution == evaluate(storage[key], ctx)
       IN IF resolution.value = "undefined" THEN [resolution EXCEPT !.value = "default"]
          ELSE IF resolution.value # type THEN [Error("TYPE_MISMATCH") EXCEPT !.value = "default"]
          ELSE resolution

(* Mutant: disabled flags are in the list.                                   *)
resolveAllFlags(ctx) ==
  {<<k, evaluate(storage[k], ctx)>> : k \in {n \in DOMAIN storage : evaluate(storage[n], ctx).value # "undefined"}}

resolveAll(ctx) ==
  {<<k, evaluate(storage[k], ctx)>> :
     k \in {n \in DOMAIN storage : /\ storage[n].state # "DISABLED"
                                   /\ evaluate(storage[n], ctx).value # "undefined"}}

-----------------------------------------------------------------------------
CoreInit ==
  /\ storage = [k \in {} |-> k]
  /\ accepted = [set |-> FALSE]

(* A text that does not parse changes nothing.                               *)
SetConfigurations(config, strict) ==
  IF parses(config, strict)
    THEN /\ storage' = parse(config)
         /\ accepted' = [set |-> TRUE, config |-> config, strict |-> strict]
    ELSE UNCHANGED coreVars

CoreNext == \E config \in Configurations, strict \in BOOLEAN : SetConfigurations(config, strict)

CoreSpec == CoreInit /\ [][CoreNext]_coreVars

-----------------------------------------------------------------------------
(* Properties                                                                *)

(* A flag the parser let through answers whatever the context: it fails only *)
(* for its targeting rule, never for its own default variant, and what it    *)
(* falls back to is a value of one of its variants or, without a default     *)
(* variant, none (feature-flag.ts:112-194, parser.ts:56-74).                 *)
AcceptedFlagsAnswer ==
  \A k \in DOMAIN storage, ctx \in EvalContexts :
    LET flag == storage[k]
        resolution == evaluate(flag, ctx)
    IN /\ resolution.reason = "ERROR" => flag.targeting # NoTargeting
       /\ resolution.reason \in {"STATIC", "DEFAULT"} =>
            resolution.value = IF flag.defaultVariant = NoVariant THEN "undefined"
                               ELSE flag.variants[flag.defaultVariant]

(* A flag is in the list of resolveAll with a value exactly if asking for it *)
(* alone, with the type of that value, gives the same answer                 *)
(* (flagd-core.ts:122-145, 157-211).                                         *)
ResolveAllAgrees ==
  \A k \in FlagKeys, ctx \in EvalContexts :
    {all[2] : all \in {a \in resolveAll(ctx) : a[1] = k}}
      = {one \in {resolve(t, k, ctx) : t \in Types} : one.value # "default"}

(* A reference to an evaluator is replaced by what that stands for, through  *)
(* any number of evaluators, as long as each comes before those it mentions  *)
(* and has a rule flagd understands; only in another order is a reference    *)
(* left over, and its flag answers with an error (parser.ts:89-107).         *)
RefsResolved ==
  accepted.set =>
    LET evaluators == accepted.config.evaluators
        Mentions(rule, i) == rule.op = "$ref" /\ rule.key = evaluators[i].key
        inOrder == \A i \in DOMAIN evaluators :
                     IF evaluators[i].rule.op = "$ref"
                       THEN \E j \in i + 1 .. Len(evaluators) : Mentions(evaluators[i].rule, j)
                       ELSE targeting(evaluators[i].rule) # Failed
    IN inOrder => \A k \in DOMAIN storage : \A i \in DOMAIN evaluators :
                    Mentions(accepted.config.flags[k].targeting, i) => storage[k].targeting # Failed
=============================================================================
