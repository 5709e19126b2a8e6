------------------------ MODULE InProcessEvaluation ------------------------
(* Evaluations by the in-process evaluator of GO Feature Flag                *)
(* (inprocess-evaluator.ts): they share the configuration with its polling   *)
(* and the engine with its disposal.                                         *)
EXTENDS InProcessEvaluator, EvaluateWasm

CONSTANTS Calls,        \* evaluations that can be on their way at once
          Asked         \* the type each of them asks for

ASSUME AskedAssumption == Asked \in [Calls -> {"boolean", "string", "number", "object"}]

VARIABLES call,         \* the evaluations on their way
          settled       \* the last one that settled, if any

evaluationVars == <<wasmVars, call, settled>>

NoCall == [phase |-> "none"]
Versions == 0..MaxVersion
Inputs == [flag : Versions, evaluationContextEnrichment : Versions]
EvaluationInit == WasmInit /\ call = [c \in Calls |-> NoCall] /\ settled = {}

(* handleError: the codes that have an error of their own.                   *)
CodesWithErrors == {"FLAG_NOT_FOUND", "PARSE_ERROR", "TYPE_MISMATCH", "TARGETING_KEY_MISSING",
                    "INVALID_CONTEXT", "PROVIDER_NOT_READY", "PROVIDER_FATAL"}

Throws(code) == [error |-> IF code \in CodesWithErrors THEN code ELSE "GENERAL", value |-> "undefined"]
Yields(type) == [error |-> NoError, value |-> type]

(* A mutant: typeof is asked alone, and null is an object, too.              *)
hasTypeOf(type, asked) == type = asked \/ (asked = "object" /\ type \in {"null", "array"})

(* typeof, for an object not null.                                           *)
hasType(type, asked) == type = asked \/ (asked = "object" /\ type = "array")

(* evaluateBoolean, evaluateString, evaluateNumber and evaluateObject after  *)
(* genericEvaluate: handleError, the comparison of the type, and             *)
(* prepareResponse.                                                          *)
evaluateAs(asked, response) ==
  IF response.errorCode # NoError THEN Throws(response.errorCode)
  ELSE IF hasType(response.value, asked) THEN Yields(response.value)
  ELSE Throws("TYPE_MISMATCH")

Settled(c, input, response, got) ==
  /\ call' = [call EXCEPT ![c] = NoCall]
  /\ settled' = {[asked |-> Asked[c], input |-> input, response |-> response,
                  answer |-> evaluateAs(Asked[c], got)]}

(* The two early returns of genericEvaluate.                                 *)
refusal ==
  [errorCode |-> IF configurationState # "initialized" THEN "GENERAL" ELSE "FLAG_NOT_FOUND",
   value |-> "default"]
isRefused == configurationState # "initialized" \/ flags = None

(* The input for the engine; the flag and the enrichment are of a version.   *)
inputNow == [flag |-> flags, evaluationContextEnrichment |-> evaluationContextEnrichment]
NoInput == [flag |-> None, evaluationContextEnrichment |-> None]

(* An evaluation up to the answer of the engine or, when this has been       *)
(* disposed of, up to its initialize().                                      *)
evaluate(c) ==
  /\ call[c].phase = "none"
  /\ UNCHANGED evaluatorVars
  /\ \/ isRefused /\ Settled(c, NoInput, refusal, refusal) /\ UNCHANGED wasmVars
     \/ /\ ~isRefused /\ wasmExports # "null"
        /\ \E r \in evaluateNow : Settled(c, inputNow, r[1], r[2])
        /\ UNCHANGED wasmVars
     \/ /\ ~isRefused /\ wasmExports = "null"
        /\ call' = [call EXCEPT ![c] = [phase |-> "loading", input |-> inputNow]]
        /\ UNCHANGED <<wasmVars, settled>>

(* The engine is initialized again, once for each evaluation that found it   *)
(* without; its evaluation goes on in a microtask.                           *)
EngineLoadedFor(c) ==
  /\ call[c].phase = "loading"
  /\ engineLoads
  /\ call' = [call EXCEPT ![c] = [phase |-> "loaded", input |-> call[c].input]]
  /\ UNCHANGED <<evaluatorVars, settled>>

EngineThrowsFor(c) ==
  /\ call[c].phase = "loading"
  /\ engineThrows
  /\ Settled(c, call[c].input, NoResponse, NoResponse)
  /\ UNCHANGED evaluatorVars

EvaluationGoesOn(c) ==
  /\ call[c].phase = "loaded"
  /\ \E r \in evaluateNow : Settled(c, call[c].input, r[1], r[2])
  /\ UNCHANGED <<evaluatorVars, wasmVars>>

EvaluationSteps ==
  \E c \in Calls : evaluate(c) \/ EngineLoadedFor(c) \/ EngineThrowsFor(c) \/ EvaluationGoesOn(c)

-----------------------------------------------------------------------------
EvaluationTypeOK ==
  /\ WasmTypeOK
  /\ call \in [Calls -> {NoCall} \union [phase : {"loading", "loaded"}, input : Inputs]]

(* A flag is evaluated with the enrichment it was configured with, although  *)
(* the configuration is replaced while the engine loads.                     *)
OneConfiguration == \A s \in settled : s.input.flag = s.input.evaluationContextEnrichment

(* A caller gets a value of the type it asked for, the one of a response     *)
(* without an error, and never the default, null or nothing as a value.      *)
AnswersTyped ==
  \A s \in settled : s.answer.error = NoError =>
    /\ s.response = [errorCode |-> NoError, value |-> s.answer.value]
    /\ s.answer.value \in {s.asked} \union (IF s.asked = "object" THEN {"array"} ELSE {})

(* The evaluations of the in-process evaluator are sound, however the engine *)
(* answers and whenever it is disposed of (inprocess-evaluator.ts:110-263,   *)
(* evaluate-wasm.ts:223-384).                                                *)
EvaluationsSound == OneConfiguration /\ AnswersTyped
=============================================================================
