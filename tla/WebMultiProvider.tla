--------------------------- MODULE WebMultiProvider ---------------------------
(* The multi-provider of the web SDK (multi-provider-web.ts).  Evaluations   *)
(* are synchronous and ask one provider after the other under every          *)
(* strategy; a change of context awaits one provider after the other.        *)
(* Registration is ProviderRegistration, the status tracker is StatusTracker.*)
(* External: the SDK, which starts a change while another one is pending.    *)
EXTENDS Integers, Sequences

CONSTANTS
  N,              \* number of providers, in the order of their entries
  Values,         \* the values a flag can have
  Contexts,       \* evaluation contexts
  Changes         \* places for changes of context in flight (bound)

Providers == 1 .. N
Strategies == {"FirstMatch", "FirstSuccessful", "Comparison"}
Failures == {"FLAG_NOT_FOUND", "OTHER"}
NoResult == "none"
AggregateError == "AGGREGATE"
GeneralError == "GENERAL"
NoChange == 0

VARIABLES
  strategy,       \* the strategy given to the constructor
  fallback,       \* the fallback provider; 0: one that is not in the list
  context,        \* the context set in the SDK
  contexts,       \* the context each provider was told last
  change,         \* changes in flight: the provider that is awaited, its context
  status,         \* the status of the multi-provider in the SDK
  overlapped,     \* history: two changes were in flight at once
  results,        \* what the providers would answer in the last evaluation
  outcome         \* what the last evaluation returned or threw

evaluation == <<results, outcome>>
vars == <<strategy, fallback, context, contexts, change, status, overlapped, evaluation>>

Idle == [at |-> NoChange, context |-> NoResult]
InFlight == {c \in Changes : change[c] # Idle}

Init ==
  /\ strategy \in Strategies
  /\ fallback \in IF strategy = "Comparison" THEN 0 .. N ELSE {0}
  /\ context \in Contexts
  /\ contexts = [p \in Providers |-> context]
  /\ change = [c \in Changes |-> Idle]
  /\ status = "READY"
  /\ overlapped = FALSE
  /\ results = <<>> /\ outcome = NoResult

Forget == results' = <<>> /\ outcome' = NoResult

-----------------------------------------------------------------------------
hasError(r) == r \in Failures

shouldEvaluateNextProvider(r) ==
  CASE strategy = "FirstMatch" -> r = "FLAG_NOT_FOUND"
    [] strategy = "FirstSuccessful" -> hasError(r)
    [] strategy = "Comparison" -> TRUE

(* The providers flagResolutionProxy asks before its loop breaks.            *)
asked(rs) == {p \in Providers : \A q \in 1 .. p - 1 : shouldEvaluateNextProvider(rs[q])}

(* Mutant: the value of the first provider without an error is taken.        *)
comparedLeniently(rs) ==
  IF \A p \in asked(rs) : hasError(rs[p]) THEN AggregateError
  ELSE rs[CHOOSE p \in asked(rs) : ~hasError(rs[p])]

(* ComparisonStrategy.determineFinalResult                                   *)
compared(rs) ==
  IF \E p \in asked(rs) : hasError(rs[p]) THEN AggregateError
  ELSE IF fallback = 0 THEN GeneralError
  ELSE IF \E p \in asked(rs) : rs[p] # rs[1] THEN rs[fallback] ELSE rs[1]

(* determineFinalResult of the other two looks at the last resolution.       *)
determineFinalResult(rs) ==
  LET last == CHOOSE p \in asked(rs) : \A q \in asked(rs) : q <= p
  IN IF strategy = "Comparison" THEN compared(rs)
     ELSE IF hasError(rs[last]) THEN AggregateError ELSE rs[last]

(* flagResolutionProxy, with a result of each provider.  evaluateProviderEntry *)
(* turns what a provider or a before or after hook throws into the default   *)
(* value with an error code; error and finally hooks cannot fail.            *)
flagResolutionProxy(rs) ==
  /\ results' = rs
  /\ outcome' = determineFinalResult(rs)
  /\ UNCHANGED <<strategy, fallback, context, contexts, change, status, overlapped>>

-----------------------------------------------------------------------------
(* Calls the handler of provider p for change c, or resolves the promise     *)
(* after the last one.                                                       *)
continue(c, p, ctx) ==
  /\ contexts' = IF p <= N THEN [contexts EXCEPT ![p] = ctx] ELSE contexts
  /\ change' = [change EXCEPT ![c] = IF p <= N THEN [at |-> p, context |-> ctx] ELSE Idle]

settles(c, outcomeStatus) ==
  status' = IF InFlight = {c} THEN outcomeStatus ELSE status

(* setContext of the SDK, and onContextChange up to its first await.         *)
OnContextChange(c) ==
  /\ change[c] = Idle
  /\ \E ctx \in Contexts \ {context} : context' = ctx /\ continue(c, 1, ctx)
  /\ status' = "RECONCILING"
  /\ overlapped' = (overlapped \/ InFlight # {})
  /\ Forget
  /\ UNCHANGED <<strategy, fallback>>

(* Mutant: the loop ends with the first provider that has a handler.         *)
HandlerResolvesOnce(c) ==
  /\ c \in InFlight
  /\ continue(c, N + 1, change[c].context)
  /\ settles(c, "READY")
  /\ Forget
  /\ UNCHANGED <<strategy, fallback, context, overlapped>>

(* The awaited handler resolves: the next provider's is called.              *)
HandlerResolves(c) ==
  /\ c \in InFlight
  /\ continue(c, change[c].at + 1, change[c].context)
  /\ IF change[c].at = N THEN settles(c, "READY") ELSE UNCHANGED status
  /\ Forget
  /\ UNCHANGED <<strategy, fallback, context, overlapped>>

(* It rejects: the loop ends, the providers after it are not told.           *)
HandlerRejects(c) ==
  /\ c \in InFlight
  /\ change' = [change EXCEPT ![c] = Idle]
  /\ settles(c, "ERROR")
  /\ Forget
  /\ UNCHANGED <<strategy, fallback, context, contexts, overlapped>>

Next ==
  \/ \E rs \in [Providers -> Values \union Failures] : flagResolutionProxy(rs)
  \/ \E c \in Changes : OnContextChange(c) \/ HandlerResolves(c) \/ HandlerRejects(c)

Spec == Init /\ [][Next]_vars

-----------------------------------------------------------------------------
(* Properties                                                                *)

(* What an evaluation returns is what the comments on the strategies say:    *)
(* the first result that is not "flag not found", an error included          *)
(* (FirstMatchStrategy.ts:6-9); the first that is no error                   *)
(* (FirstSuccessfulStrategy.ts:5-9); the value all agree on, or that of the  *)
(* fallback provider (ComparisonStrategy.ts:11-16).  Of errors that comment  *)
(* says nothing: the code returns none of the values then (:36-38), contrary *)
(* to README:65-66.                                                          *)
WebAnswers ==
  LET First(S) == results[CHOOSE p \in S : \A q \in S : p <= q]
      Found == {p \in Providers : results[p] # "FLAG_NOT_FOUND"}
      Successful == {p \in Providers : results[p] \in Values}
      Or(S) == IF S = {} \/ First(S) \in Failures THEN AggregateError ELSE First(S)
  IN outcome # NoResult =>
       CASE strategy = "FirstMatch" -> outcome = Or(Found)
         [] strategy = "FirstSuccessful" -> outcome = Or(Successful)
         [] strategy = "Comparison" ->
              /\ outcome \in Values => Successful = Providers
              /\ outcome \in Values => \A p \in Providers :
                   results[p] # outcome => fallback # 0 /\ results[fallback] = outcome
              /\ outcome = AggregateError => Successful # Providers
              /\ outcome = GeneralError => fallback = 0

(* Once a change has settled that no other one overlapped, every provider    *)
(* evaluates with the context of the SDK, or the SDK has the status ERROR: a *)
(* provider that rejects leaves the ones after it behind, and that is said   *)
(* (multi-provider-web.ts:110-114).                                          *)
ContextsFollow ==
  InFlight = {} /\ ~overlapped /\ status # "ERROR" => \A p \in Providers : contexts[p] = context
=============================================================================
