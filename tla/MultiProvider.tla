---------------------------- MODULE MultiProvider ----------------------------
(* The multi-provider of the server SDK (multi-provider.ts): one evaluation  *)
(* at a time over its providers, each surrounded by the hooks of that        *)
(* provider, and the three strategies (strategies/*.ts).                     *)
(*                                                                           *)
(* Every provider takes part: a strategy skips those that are NOT_READY or   *)
(* FATAL, but the tracker knows neither status (TypeOK of StatusTracker).    *)
EXTENDS Integers, FiniteSets, Sequences

CONSTANTS N,            \* number of providers, in the order of registration
          Values        \* the values a flag can have

ASSUME NAssumption == N \in Nat \ {0}

Providers == 1..N
Strategies == {"FirstMatch", "FirstSuccessful", "Comparison"}
Failures == {"FLAG_NOT_FOUND", "OTHER"}
Results == Values \union Failures
NoResult == "none"
AggregateError == "AGGREGATE"
GeneralError == "GENERAL"

ASSUME ValuesAssumption == Values \intersect (Failures \union {AggregateError, GeneralError}) = {}

VARIABLES strategy,     \* the strategy given to the constructor
          fallback,     \* the fallback provider; 0: one that is not in the list
          call,         \* "idle", "running" or "settled"
          stage,        \* where the evaluation of each provider has got to
          result,       \* what it has come to
          added,        \* context objects: whose hooks have added entries to it
          frozen,       \* those that are frozen
          outcome       \* how the last call settled

hookVars == <<added, frozen>>
vars == <<strategy, fallback, call, stage, result, hookVars, outcome>>

(* The objects that hold a context: 0 is the one the SDK made for the call,  *)
(* by whose identity flagResolutionProxy finds the hook context.             *)
Objects == 0..N

runMode == IF strategy = "Comparison" THEN "parallel" ELSE "sequential"

Init ==
  /\ strategy \in Strategies
  /\ fallback \in IF strategy = "Comparison" THEN 0..N ELSE {0}
  /\ call = "idle"
  /\ stage = [p \in Providers |-> "none"]
  /\ result = [p \in Providers |-> NoResult]
  /\ added = [o \in Objects |-> {}] /\ frozen = {}
  /\ outcome = NoResult

-----------------------------------------------------------------------------
hasError(r) == r \in Failures

(* A mutant: an error of any kind lets the next provider be asked.           *)
shouldEvaluateNextOnError(r) == hasError(r)

shouldEvaluateNextProvider(r) ==
  CASE strategy = "FirstMatch"      -> r = "FLAG_NOT_FOUND"
    [] strategy = "FirstSuccessful" -> hasError(r)
    [] strategy = "Comparison"      -> TRUE

(* What becomes of the resolutions rs, in the order of the providers: a      *)
(* value, or the AggregateError.  A fallback provider that is not among the  *)
(* resolutions makes the comparison throw.                                   *)
firstOrLast(rs) == IF hasError(rs[Len(rs)]) THEN AggregateError ELSE rs[Len(rs)]

compared(rs) ==
  IF \E p \in DOMAIN rs : hasError(rs[p]) THEN AggregateError
  ELSE IF fallback \notin DOMAIN rs THEN GeneralError
  ELSE IF \E p \in DOMAIN rs : rs[p] # rs[1] THEN rs[fallback]
  ELSE rs[1]

determineFinalResult(rs) ==
  IF strategy = "Comparison" THEN compared(rs) ELSE firstOrLast(rs)

-----------------------------------------------------------------------------
constructed == UNCHANGED <<strategy, fallback>>

(* A mutant: the hook context is not copied.                                 *)
hookContextShared(p) == 0

(* The object the hooks of provider p write to and p is asked with: a copy   *)
(* of the shared one, made when the evaluation of p begins.  It is a shallow *)
(* one: this is about the entries of the context, not what is nested in them.*)
hookContextCopy(p) == p

(* flagResolutionProxy up to its first await: the first provider, or all of  *)
(* them, with copies of the new context of this call.                        *)
resolve ==
  /\ call # "running"
  /\ call' = "running"
  /\ stage' = [p \in Providers |->
                 IF runMode = "parallel" \/ p = 1 THEN "before" ELSE "none"]
  /\ result' = [p \in Providers |-> NoResult]
  /\ added' = [o \in Objects |-> {}] /\ frozen' = {}
  /\ outcome' = NoResult
  /\ constructed

(* A before hook of p resolves: its entries are assigned to the context,     *)
(* which throws if that is frozen.                                           *)
beforeHook(p) ==
  /\ stage[p] = "before"
  /\ hookContextCopy(p) \notin frozen
  /\ added' = [added EXCEPT ![hookContextCopy(p)] = @ \union {p}]
  /\ UNCHANGED <<call, stage, result, frozen, outcome>> /\ constructed

(* All have: the context is frozen and handed to the provider.               *)
beforeHooks(p) ==
  /\ stage[p] = "before"
  /\ frozen' = frozen \union {hookContextCopy(p)}
  /\ stage' = [stage EXCEPT ![p] = "resolve"]
  /\ UNCHANGED <<call, result, added, outcome>> /\ constructed

(* The provider answers: a result with an error code goes to the after hooks *)
(* like a value.                                                             *)
callProviderResolve(p) ==
  /\ stage[p] = "resolve"
  /\ \E r \in Results : result' = [result EXCEPT ![p] = r]
  /\ stage' = [stage EXCEPT ![p] = "after"]
  /\ UNCHANGED <<call, hookVars, outcome>> /\ constructed

afterHooks(p) ==
  /\ stage[p] = "after"
  /\ stage' = [stage EXCEPT ![p] = "finally"]
  /\ UNCHANGED <<call, result, hookVars, outcome>> /\ constructed

(* A hook or the provider throws: the error hooks run, what was resolved is  *)
(* replaced by the default value with the code of the error.                 *)
errorHooks(p) ==
  /\ stage[p] \in {"before", "resolve", "after"}
  /\ \E r \in Failures : result' = [result EXCEPT ![p] = r]
  /\ stage' = [stage EXCEPT ![p] = "finally"]
  /\ UNCHANGED <<call, hookVars, outcome>> /\ constructed

(* The finally hooks, then the loop of flagResolutionProxy: in sequence the  *)
(* next provider is evaluated if the strategy wants it, with a copy of what  *)
(* the shared context holds by now.                                          *)
finallyHooks(p) ==
  /\ stage[p] = "finally"
  /\ LET done == [stage EXCEPT ![p] = "done"]
         goesOn == runMode = "sequential" /\ p < N /\ shouldEvaluateNextProvider(result[p])
     IN /\ stage' = IF goesOn THEN [done EXCEPT ![p + 1] = "before"] ELSE done
        /\ added' = IF goesOn THEN [added EXCEPT ![hookContextCopy(p + 1)] = added[0]] ELSE added
  /\ UNCHANGED <<call, result, frozen, outcome>> /\ constructed

(* Promise.all(tasks) resolves and the strategy determines the final result. *)
tasks == {p \in Providers : stage[p] # "none"}
resolutions == [p \in 1..Cardinality(tasks) |-> result[p]]

(* A mutant: every provider of the list is waited for.                       *)
settleAfterAll ==
  /\ call = "running"
  /\ \A p \in Providers : stage[p] = "done"
  /\ call' = "settled"
  /\ outcome' = determineFinalResult(resolutions)
  /\ UNCHANGED <<stage, result, hookVars>> /\ constructed

settle ==
  /\ call = "running"
  /\ \A p \in tasks : stage[p] = "done"
  /\ call' = "settled"
  /\ outcome' = determineFinalResult(resolutions)
  /\ UNCHANGED <<stage, result, hookVars>> /\ constructed

Next == \/ resolve \/ settle
        \/ \E p \in Providers : \/ beforeHook(p) \/ beforeHooks(p) \/ callProviderResolve(p)
                                \/ afterHooks(p) \/ errorHooks(p)
                                \/ finallyHooks(p)

Spec == Init /\ [][Next]_vars

(* The promises of the providers and of their hooks settle.                  *)
FairSpec == /\ Spec
            /\ WF_vars(settle)
            /\ \A p \in Providers :
                 WF_vars(\/ beforeHook(p) \/ beforeHooks(p) \/ callProviderResolve(p)
                         \/ afterHooks(p) \/ errorHooks(p) \/ finallyHooks(p))
-----------------------------------------------------------------------------
(* The variables have values of their types.                                 *)
TypeOK ==
  /\ strategy \in Strategies
  /\ fallback \in 0..N
  /\ call \in {"idle", "running", "settled"}
  /\ stage \in [Providers -> {"none", "before", "resolve", "after", "finally", "done"}]
  /\ result \in [Providers -> Results \union {NoResult}]
  /\ \A p \in Providers : stage[p] \in {"after", "finally", "done"} => result[p] \in Results
  /\ added \in [Objects -> SUBSET Providers] /\ frozen \subseteq Objects
  /\ outcome \in Results \union {NoResult, AggregateError, GeneralError}

(* Whatever order the hooks of parallel evaluations run in, and whichever    *)
(* fail half-way: the object a provider is asked with holds what its own     *)
(* hooks added and nothing the hooks of the others did, and the one of the   *)
(* call, from which the later copies are made and which the SDK hands to its *)
(* own hooks, holds nothing of them (multi-provider.ts:148, 254-259,         *)
(* hook-executor.ts:9-21).                                                   *)
ContextIsolated ==
  /\ added[0] = {}
  /\ \A p \in Providers : added[hookContextCopy(p)] \subseteq {p}

(* A value is the one the strategy's code chooses of the answers the         *)
(* providers gave: the first match comes after providers without the flag    *)
(* only and nobody is asked after it; the first success comes after failures *)
(* only; a comparison returns a value only when every provider has one, that *)
(* of the fallback provider when they differ.                                *)
ValueIsJustified ==
  call = "settled" /\ outcome \in Values =>
    CASE strategy = "FirstMatch" ->
           \E p \in Providers : /\ result[p] = outcome
                                /\ \A q \in 1..(p - 1) : result[q] = "FLAG_NOT_FOUND"
                                /\ \A q \in (p + 1)..N : stage[q] = "none"
      [] strategy = "FirstSuccessful" ->
           \E p \in Providers : /\ result[p] = outcome
                                /\ \A q \in 1..(p - 1) : result[q] \in Failures
                                /\ \A q \in (p + 1)..N : stage[q] = "none"
      [] strategy = "Comparison" ->
           /\ \A p \in Providers : result[p] \in Values
           /\ (\E p, q \in Providers : result[p] # result[q]) => result[fallback] = outcome

(* A call fails only for a reason: the first answer other than "not found"   *)
(* was an error or there was none; nobody succeeded; a comparison had an     *)
(* error, or no fallback provider.                                           *)
FailureIsJustified ==
  call = "settled" /\ outcome \in {AggregateError, GeneralError} =>
    CASE strategy = "FirstMatch" ->
           \/ \A p \in Providers : result[p] = "FLAG_NOT_FOUND"
           \/ \E p \in Providers : /\ result[p] = "OTHER"
                                   /\ \A q \in 1..(p - 1) : result[q] = "FLAG_NOT_FOUND"
      [] strategy = "FirstSuccessful" -> \A p \in Providers : result[p] \in Failures
      [] strategy = "Comparison" -> \/ \E p \in Providers : result[p] \in Failures
                                    \/ fallback = 0

(* Whatever a call ends with is justified by the answers the providers gave, *)
(* as the code of the strategies has it (multi-provider.ts:142-193,          *)
(* FirstMatchStrategy.ts:11-35, FirstSuccessfulStrategy.ts:12-31,            *)
(* ComparisonStrategy.ts:36-69).  In two cases the README of the package     *)
(* says otherwise: an error in a comparison makes it fail, where README:65   *)
(* says that the fallback provider's result is used, and a flag nobody has   *)
(* fails with GENERAL, not with FLAG_NOT_FOUND (README:46, errors.ts:14-21). *)
AnswersJustified == ValueIsJustified /\ FailureIsJustified

(* Every call settles, whichever of the hooks and of the providers throw.    *)
CallsSettle == call = "running" ~> call = "settled"
=============================================================================
