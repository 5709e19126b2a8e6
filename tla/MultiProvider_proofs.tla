------------------------ MODULE MultiProvider_proofs -------------------------
(* The theorems about the multi-providers, for any number of providers, any  *)
(* values and any contexts: the evaluations of the server's, its status      *)
(* tracker, the evaluations and the changes of context of the web's; and, for*)
(* any list of providers, the registration of both.                          *)
EXTENDS MCMultiProvider, FiniteSetTheorems, WellFoundedInduction, TLAPS

(* In sequence the call has reached provider k: all before it are done and   *)
(* the strategy went on after each, nobody after it has been asked.          *)
Reached(k) ==
  /\ \A p \in 1..(k - 1) : stage[p] = "done" /\ shouldEvaluateNextProvider(result[p])
  /\ stage[k] # "none"
  /\ stage[k] = "done" => k = N \/ ~shouldEvaluateNextProvider(result[k])
  /\ \A p \in (k + 1)..N : stage[p] = "none"

Asked ==
  /\ call = "idle" => \A p \in Providers : stage[p] = "none"
  /\ call # "idle" => IF strategy = "Comparison" THEN \A p \in Providers : stage[p] # "none"
                      ELSE \E k \in Providers : Reached(k)

Settled ==
  call = "settled" =>
    /\ \A p \in tasks : stage[p] = "done"
    /\ outcome = determineFinalResult(resolutions)

IInv == TypeOK /\ ContextIsolated /\ Asked /\ Settled

-----------------------------------------------------------------------------
(* The resolutions the final result is determined from.                      *)

LEMMA ParallelResolutions ==
  ASSUME TypeOK, Asked, call # "idle", strategy = "Comparison"
  PROVE  resolutions = [p \in 1..N |-> result[p]]
<1>1. tasks = 1..N BY DEF tasks, Asked, Providers
<1>2. Cardinality(1..N) = N BY NAssumption, FS_Interval
<1> QED BY <1>1, <1>2 DEF resolutions

LEMMA SequentialResolutions ==
  ASSUME TypeOK, NEW k \in Providers, Reached(k)
  PROVE  /\ tasks = 1..k
         /\ resolutions = [p \in 1..k |-> result[p]]
<1>0. k \in 1..N /\ N \in Nat BY NAssumption DEF Providers
<1>1. \A p \in 1..N : stage[p] # "none" <=> p <= k BY <1>0 DEF Reached
<1>2. tasks = 1..k BY <1>0, <1>1 DEF tasks, Providers
<1>3. Cardinality(1..k) = k BY <1>0, FS_Interval
<1> QED BY <1>2, <1>3 DEF resolutions

(* What the strategies for a sequence make of them: the answer of the last.  *)
LEMMA LastDecides ==
  ASSUME TypeOK, NEW k \in Providers, Reached(k), strategy # "Comparison"
  PROVE  determineFinalResult(resolutions) =
           IF hasError(result[k]) THEN AggregateError ELSE result[k]
<1>0. k \in 1..N /\ N \in Nat BY NAssumption DEF Providers
<1>1. resolutions = [p \in 1..k |-> result[p]] BY SequentialResolutions
<1>2. Len(resolutions) = k BY <1>0, <1>1
<1>3. resolutions[Len(resolutions)] = result[k] BY <1>0, <1>1, <1>2
<1> QED BY <1>3 DEF determineFinalResult, firstOrLast

LEMMA ComparedResolutions ==
  ASSUME TypeOK, Asked, call # "idle", strategy = "Comparison"
  PROVE  determineFinalResult(resolutions) =
           IF \E p \in Providers : hasError(result[p]) THEN AggregateError
           ELSE IF fallback \notin Providers THEN GeneralError
           ELSE IF \E p \in Providers : result[p] # result[1] THEN result[fallback]
           ELSE result[1]
<1>0. 1 \in Providers BY NAssumption DEF Providers
<1>1. resolutions = [p \in Providers |-> result[p]] BY ParallelResolutions DEF Providers
<1>2. DOMAIN resolutions = Providers /\ \A p \in Providers : resolutions[p] = result[p]
  BY <1>1
<1> QED BY <1>0, <1>2 DEF determineFinalResult, compared

LEMMA Answered ==
  ASSUME TypeOK, NEW p \in Providers, stage[p] = "done"
  PROVE  result[p] \in Results
BY DEF TypeOK

(* A settled call has waited for all it asked, so its outcome is a result or *)
(* an error.                                                                 *)
LEMMA OutcomeType ==
  ASSUME TypeOK, Asked, call # "idle", \A p \in tasks : stage[p] = "done"
  PROVE  determineFinalResult(resolutions) \in Results \union {NoResult, AggregateError, GeneralError}
<1>1. CASE strategy = "Comparison"
  <2>1. \A p \in Providers : stage[p] = "done" BY <1>1 DEF Asked, tasks
  <2>2. \A p \in Providers : result[p] \in Results BY <2>1, Answered
  <2>3. 1 \in Providers BY NAssumption DEF Providers
  <2> QED BY <1>1, <2>2, <2>3, ComparedResolutions
<1>2. CASE strategy # "Comparison"
  <2>1. PICK k \in Providers : Reached(k) BY <1>2 DEF Asked
  <2>2. stage[k] = "done" BY <2>1 DEF Reached, tasks
  <2>3. result[k] \in Results BY <2>2, Answered
  <2> QED BY <1>2, <2>1, <2>3, LastDecides
<1> QED BY <1>1, <1>2

-----------------------------------------------------------------------------
(* The inductive invariant                                                   *)

LEMMA InitIInv == Init => IInv
BY NAssumption DEF Init, IInv, TypeOK, ContextIsolated, hookContextCopy, Objects, Asked, Settled, Strategies,
                   Providers, Results

(* A new call.                                                               *)
LEMMA ResolveStep ==
  ASSUME IInv, resolve
  PROVE  IInv'
<1> USE DEF resolve, constructed
<1>0. 1 \in Providers /\ N \in Nat BY NAssumption DEF Providers
<1>1. TypeOK' BY DEF IInv, TypeOK
<1>2. ContextIsolated' BY <1>0 DEF ContextIsolated, hookContextCopy, Objects, Providers
<1>3. Asked'
  <2>1. CASE strategy = "Comparison" BY <2>1 DEF Asked, runMode
  <2>2. CASE strategy # "Comparison"
    <3>1. stage' = [p \in Providers |-> IF p = 1 THEN "before" ELSE "none"]
      BY <2>2 DEF runMode
    <3>2. Reached(1)' BY <1>0, <3>1 DEF Reached, Providers
    <3> QED BY <1>0, <2>2, <3>2 DEF Asked
  <2> QED BY <2>1, <2>2
<1>4. Settled' BY DEF Settled
<1> QED BY <1>1, <1>2, <1>3, <1>4 DEF IInv

(* A step of one provider's evaluation before its end: its stage moves on,   *)
(* nothing else that the other parts look at changes.                        *)
Advances(p) ==
  /\ stage[p] \in {"before", "resolve", "after"}
  /\ \E s \in {"resolve", "after", "finally"} : stage' = [stage EXCEPT ![p] = s]
  /\ \A q \in Providers \ {p} : result'[q] = result[q]
  /\ UNCHANGED <<strategy, fallback, call, outcome>>

LEMMA AdvanceKeepsAsked ==
  ASSUME IInv, NEW p \in Providers, Advances(p)
  PROVE  Asked' /\ Settled'
<1> USE DEF Advances
<1>0. N \in Nat /\ Providers = 1..N BY NAssumption DEF Providers
<1>1. stage \in [Providers -> {"none", "before", "resolve", "after", "finally", "done"}]
  BY DEF IInv, TypeOK
<1>2. \A q \in Providers : (stage'[q] = "none" <=> stage[q] = "none") /\ (q # p => stage'[q] = stage[q])
  BY <1>1
<1>3. stage'[p] # "done" BY <1>1
<1>4. call = "running"
  <2>1. call # "idle" BY DEF IInv, Asked
  <2>2. call # "settled" BY DEF IInv, Settled, tasks
  <2> QED BY <2>1, <2>2 DEF IInv, TypeOK
<1>5. CASE strategy = "Comparison" BY <1>2, <1>4, <1>5 DEF IInv, Asked, Settled
<1>6. CASE strategy # "Comparison"
  <2>1. PICK k \in Providers : Reached(k) BY <1>4, <1>6 DEF IInv, Asked
  <2>2. p = k BY <1>0, <2>1 DEF Reached
  <2>3. \A q \in 1..(k - 1) : stage'[q] = "done" /\ shouldEvaluateNextProvider(result[q])'
    <3> SUFFICES ASSUME NEW q \in 1..(k - 1)
                 PROVE  stage'[q] = "done" /\ shouldEvaluateNextProvider(result[q])'
      OBVIOUS
    <3>1. q \in Providers /\ q # p BY <1>0, <2>2
    <3>2. result'[q] = result[q] /\ stage'[q] = stage[q] BY <1>2, <3>1
    <3> QED BY <2>1, <3>2 DEF Reached, shouldEvaluateNextProvider
  <2>4. stage'[k] # "none" /\ stage'[k] # "done" BY <1>2, <1>3, <2>2
  <2>5. \A q \in (k + 1)..N : stage'[q] = "none" BY <1>0, <1>2, <2>1 DEF Reached
  <2>6. Reached(k)' BY <2>3, <2>4, <2>5 DEF Reached
  <2> QED BY <1>4, <1>6, <2>6 DEF Asked, Settled
<1> QED BY <1>5, <1>6

(* A hook adds to the object of its own provider, and to that one only.      *)
LEMMA HookStep ==
  ASSUME IInv, NEW p \in Providers, beforeHook(p)
  PROVE  IInv'
<1>0. Providers = 1..N /\ Objects = 0..N /\ N \in Nat BY NAssumption DEF Providers, Objects
<1>1. /\ added' = [added EXCEPT ![p] = @ \union {p}]
      /\ UNCHANGED <<strategy, fallback, call, stage, result, frozen, outcome>>
  BY DEF beforeHook, hookContextCopy, constructed
<1>2. added \in [Objects -> SUBSET Providers] BY DEF IInv, TypeOK
<1>3. \A o \in Objects : added'[o] = IF o = p THEN added[p] \union {p} ELSE added[o] BY <1>1, <1>2
<1>4. TypeOK' BY <1>0, <1>1, <1>2 DEF IInv, TypeOK
<1>5. ContextIsolated' BY <1>0, <1>3 DEF IInv, ContextIsolated, hookContextCopy
<1>6. Asked' BY <1>1 DEF IInv, Asked, Reached, shouldEvaluateNextProvider
<1>7. Settled'
  BY <1>1 DEF IInv, Settled, tasks, resolutions, determineFinalResult, compared, firstOrLast
<1> QED BY <1>4, <1>5, <1>6, <1>7 DEF IInv

LEMMA AdvanceStep ==
  ASSUME IInv, NEW p \in Providers,
         beforeHooks(p) \/ callProviderResolve(p) \/ afterHooks(p) \/ errorHooks(p)
  PROVE  IInv'
<1> USE DEF constructed
<1>1. CASE beforeHooks(p)
  <2>1. Advances(p) BY <1>1 DEF beforeHooks, Advances
  <2>2. TypeOK'
    <3>1. hookContextCopy(p) \in Objects BY NAssumption DEF hookContextCopy, Objects, Providers
    <3> QED BY <1>1, <3>1 DEF beforeHooks, IInv, TypeOK
  <2>3. ContextIsolated' BY <1>1 DEF beforeHooks, IInv, ContextIsolated
  <2> QED BY <2>1, <2>2, <2>3, AdvanceKeepsAsked DEF IInv
<1>2. CASE callProviderResolve(p)
  <2>1. Advances(p) BY <1>2 DEF callProviderResolve, Advances, IInv, TypeOK
  <2>2. TypeOK' BY <1>2 DEF callProviderResolve, hookVars, IInv, TypeOK
  <2>3. ContextIsolated' BY <1>2 DEF callProviderResolve, hookVars, IInv, ContextIsolated
  <2> QED BY <2>1, <2>2, <2>3, AdvanceKeepsAsked DEF IInv
<1>3. CASE afterHooks(p)
  <2>1. Advances(p) BY <1>3 DEF afterHooks, Advances
  <2>2. TypeOK' BY <1>3 DEF afterHooks, hookVars, IInv, TypeOK
  <2>3. ContextIsolated' BY <1>3 DEF afterHooks, hookVars, IInv, ContextIsolated
  <2> QED BY <2>1, <2>2, <2>3, AdvanceKeepsAsked DEF IInv
<1>4. CASE errorHooks(p)
  <2>1. Advances(p) BY <1>4 DEF errorHooks, Advances, IInv, TypeOK
  <2>2. TypeOK' BY <1>4 DEF errorHooks, hookVars, IInv, TypeOK, Results
  <2>3. ContextIsolated' BY <1>4 DEF errorHooks, hookVars, IInv, ContextIsolated
  <2> QED BY <2>1, <2>2, <2>3, AdvanceKeepsAsked DEF IInv
<1> QED BY <1>1, <1>2, <1>3, <1>4

(* The end of one provider's evaluation: in sequence the call reaches the    *)
(* next provider, or stays with this one for good.                           *)
LEMMA FinallyStep ==
  ASSUME IInv, NEW p \in Providers, finallyHooks(p)
  PROVE  IInv'
<1> DEFINE goesOn == runMode = "sequential" /\ p < N /\ shouldEvaluateNextProvider(result[p])
           done == [stage EXCEPT ![p] = "done"]
<1>0. N \in Nat /\ Providers = 1..N /\ p \in 1..N BY NAssumption DEF Providers
<1>1. /\ stage[p] = "finally"
      /\ stage' = IF goesOn THEN [done EXCEPT ![p + 1] = "before"] ELSE done
      /\ added' = IF goesOn THEN [added EXCEPT ![p + 1] = added[0]] ELSE added
      /\ UNCHANGED <<strategy, fallback, call, result, frozen, outcome>>
  BY DEF finallyHooks, constructed, hookContextCopy
<1>2. stage \in [Providers -> {"none", "before", "resolve", "after", "finally", "done"}]
  BY DEF IInv, TypeOK
<1>3. TypeOK'
  <2>1. result[p] \in Results BY <1>1 DEF IInv, TypeOK
  <2>2. stage' \in [Providers -> {"none", "before", "resolve", "after", "finally", "done"}]
    BY <1>1, <1>2
  <2>3. \A q \in Providers : stage'[q] \in {"after", "finally", "done"} => q = p \/ stage[q] = stage'[q]
    BY <1>0, <1>1, <1>2
  <2>4. added' \in [Objects -> SUBSET Providers]
    BY <1>0, <1>1 DEF IInv, TypeOK, Objects
  <2> QED BY <1>1, <2>1, <2>2, <2>3, <2>4 DEF IInv, TypeOK
<1>4. ContextIsolated'
  <2>1. \A o \in 0..N : added'[o] = added[o] \/ (o # 0 /\ added'[o] = added[0])
    BY <1>0, <1>1 DEF IInv, TypeOK, Objects
  <2> QED BY <1>0, <2>1 DEF IInv, ContextIsolated, hookContextCopy
<1>5. call = "running"
  <2>1. call # "idle" BY <1>1 DEF IInv, Asked
  <2>2. call # "settled" BY <1>1 DEF IInv, Settled, tasks
  <2> QED BY <2>1, <2>2 DEF IInv, TypeOK
<1>6. CASE strategy = "Comparison"
  <2>1. stage' = done BY <1>1, <1>6 DEF runMode
  <2> QED BY <1>1, <1>2, <1>3, <1>4, <1>5, <1>6, <2>1 DEF IInv, Asked, Settled
<1>7. CASE strategy # "Comparison"
  <2>1. PICK k \in Providers : Reached(k) BY <1>5, <1>7 DEF IInv, Asked
  <2>2. p = k BY <1>0, <1>1, <2>1 DEF Reached
  <2>4. CASE goesOn
    <3>0. \A q \in Providers : stage'[q] = IF q = p THEN "done" ELSE IF q = p + 1 THEN "before" ELSE stage[q]
      BY <1>0, <1>1, <1>2, <2>4
    <3>3. \A q \in 1..p : stage'[q] = "done" /\ shouldEvaluateNextProvider(result[q])
      BY <1>0, <2>1, <2>2, <2>4, <3>0 DEF Reached
    <3>4. stage'[p + 1] = "before" BY <1>0, <2>4, <3>0
    <3>5. \A q \in (p + 2)..N : stage'[q] = "none" BY <1>0, <2>1, <2>2, <3>0 DEF Reached
    <3>6. \A q \in 1..p : shouldEvaluateNextProvider(result[q])'
      BY <1>1, <3>3 DEF shouldEvaluateNextProvider
    <3>1. Reached(p + 1)' BY <1>0, <3>3, <3>4, <3>5, <3>6 DEF Reached
    <3>2. p + 1 \in Providers BY <1>0, <2>4
    <3> QED BY <1>1, <1>3, <1>4, <1>5, <1>7, <3>1, <3>2 DEF IInv, Asked, Settled
  <2>5. CASE ~goesOn
    <3>1. p = N \/ ~shouldEvaluateNextProvider(result[p]) BY <1>0, <1>7, <2>5 DEF runMode
    <3>0. \A q \in Providers : stage'[q] = IF q = p THEN "done" ELSE stage[q]
      BY <1>0, <1>1, <1>2, <2>5
    <3>3. \A q \in 1..(p - 1) : stage'[q] = "done" /\ shouldEvaluateNextProvider(result[q])
      BY <1>0, <2>1, <2>2, <3>0 DEF Reached
    <3>4. \A q \in (p + 1)..N : stage'[q] = "none" BY <1>0, <2>1, <2>2, <3>0 DEF Reached
    <3>5. \A q \in 1..p : shouldEvaluateNextProvider(result[q])' <=> shouldEvaluateNextProvider(result[q])
      BY <1>1 DEF shouldEvaluateNextProvider
    <3>2. Reached(p)' BY <1>0, <3>0, <3>1, <3>3, <3>4, <3>5 DEF Reached
    <3> QED BY <1>1, <1>3, <1>4, <1>5, <1>7, <3>2 DEF IInv, Asked, Settled
  <2> QED BY <2>4, <2>5
<1> QED BY <1>6, <1>7

LEMMA SettleStep ==
  ASSUME IInv, settle
  PROVE  IInv'
<1>1. /\ call = "running" /\ call' = "settled"
      /\ \A p \in tasks : stage[p] = "done"
      /\ outcome' = determineFinalResult(resolutions)
      /\ UNCHANGED <<strategy, fallback, stage, result, added, frozen>>
  BY DEF settle, constructed, hookVars
<1>2. outcome' \in Results \union {NoResult, AggregateError, GeneralError}
  BY <1>1, OutcomeType DEF IInv
<1>3. TypeOK' BY <1>1, <1>2 DEF IInv, TypeOK
<1>4. ContextIsolated' BY <1>1 DEF IInv, ContextIsolated
<1>5. Asked' BY <1>1 DEF IInv, Asked, Reached, shouldEvaluateNextProvider
<1>6. Settled'
  BY <1>1 DEF Settled, tasks, resolutions, determineFinalResult, compared, firstOrLast
<1> QED BY <1>3, <1>4, <1>5, <1>6 DEF IInv

LEMMA StutterStep ==
  ASSUME IInv, UNCHANGED vars
  PROVE  IInv'
<1>1. TypeOK' /\ ContextIsolated' BY DEF IInv, vars, hookVars, TypeOK, ContextIsolated
<1>2. Asked' BY DEF IInv, vars, Asked, Reached, shouldEvaluateNextProvider
<1>3. Settled'
  BY DEF IInv, vars, Settled, tasks, resolutions, determineFinalResult, compared, firstOrLast
<1> QED BY <1>1, <1>2, <1>3 DEF IInv

LEMMA Inductive == IInv /\ [Next]_vars => IInv'
BY ResolveStep, SettleStep, HookStep, AdvanceStep, FinallyStep, StutterStep DEF Next

(* The inductive invariant holds in every reachable state.                   *)
THEOREM Invariance == Spec => []IInv
BY InitIInv, Inductive, PTL DEF Spec

(* Every variable keeps its type (multi-provider.ts:142-301).                *)
THEOREM TypeCorrect == Spec => []TypeOK
<1>1. IInv => TypeOK BY DEF IInv
<1> QED BY <1>1, Invariance, PTL

(* No hook changes the object another provider is asked with, nor the one of *)
(* the call that the later copies are made from (multi-provider.ts:251-259). *)
THEOREM Isolated == Spec => []ContextIsolated
<1>1. IInv => ContextIsolated BY DEF IInv
<1> QED BY <1>1, Invariance, PTL

-----------------------------------------------------------------------------
(* The outcome of a call                                                     *)

LEMMA ValueFromInv == IInv => ValueIsJustified
<1> SUFFICES ASSUME IInv, call = "settled", outcome \in Values
             PROVE  ValueIsJustified
  BY DEF ValueIsJustified
<1>0. N \in Nat /\ Providers = 1..N /\ 1 \in Providers BY NAssumption DEF Providers
<1>1. outcome = determineFinalResult(resolutions) BY DEF IInv, Settled
<1>2. outcome \notin Failures \union {AggregateError, GeneralError} BY ValuesAssumption
<1>3. TypeOK /\ Asked BY DEF IInv
<1>4. CASE strategy = "Comparison"
  <2>1. \A p \in Providers : result[p] \in Results
    BY <1>3, <1>4, Answered DEF IInv, Asked, Settled, tasks
  <2>2. ~\E p \in Providers : hasError(result[p])
    BY <1>1, <1>2, <1>3, <1>4, ComparedResolutions
  <2>3. \A p \in Providers : result[p] \in Values BY <2>1, <2>2 DEF hasError, Results
  <2>4. (\E p \in Providers : result[p] # result[1]) => result[fallback] = outcome
    BY <1>1, <1>2, <1>3, <1>4, <2>2, ComparedResolutions
  <2>5. (\E p, q \in Providers : result[p] # result[q]) => result[fallback] = outcome
    BY <2>4
  <2> QED BY <1>4, <2>3, <2>5 DEF ValueIsJustified
<1>5. CASE strategy # "Comparison"
  <2>1. PICK k \in Providers : Reached(k) BY <1>3, <1>5 DEF Asked
  <2>2. ~hasError(result[k]) /\ outcome = result[k]
    BY <1>1, <1>2, <1>3, <1>5, <2>1, LastDecides
  <2>3. \A q \in 1..(k - 1) : shouldEvaluateNextProvider(result[q]) BY <2>1 DEF Reached
  <2>4. \A q \in (k + 1)..N : stage[q] = "none" BY <2>1 DEF Reached
  <2>5. CASE strategy = "FirstMatch"
    <3>1. \A q \in 1..(k - 1) : result[q] = "FLAG_NOT_FOUND"
      BY <2>3, <2>5 DEF shouldEvaluateNextProvider
    <3> QED BY <2>2, <2>4, <2>5, <3>1 DEF ValueIsJustified
  <2>6. CASE strategy = "FirstSuccessful"
    <3>1. \A q \in 1..(k - 1) : result[q] \in Failures
      BY <2>3, <2>6 DEF shouldEvaluateNextProvider, hasError
    <3> QED BY <2>2, <2>4, <2>6, <3>1 DEF ValueIsJustified
  <2> QED BY <1>3, <1>5, <2>5, <2>6 DEF TypeOK, Strategies
<1> QED BY <1>4, <1>5

(* What a call returns is what its strategy promises, for any number of      *)
(* providers (multi-provider.ts:142-193, strategies).                        *)
THEOREM ReturnsJustifiedValue == Spec => []ValueIsJustified
BY ValueFromInv, Invariance, PTL

LEMMA FailureFromInv == IInv => FailureIsJustified
<1> SUFFICES ASSUME IInv, call = "settled", outcome \in {AggregateError, GeneralError}
             PROVE  FailureIsJustified
  BY DEF FailureIsJustified
<1>0. N \in Nat /\ Providers = 1..N /\ 1 \in Providers BY NAssumption DEF Providers
<1>1. outcome = determineFinalResult(resolutions) BY DEF IInv, Settled
<1>2. outcome \notin Results
  BY ValuesAssumption DEF Results, Failures, AggregateError, GeneralError
<1>3. TypeOK /\ Asked BY DEF IInv
<1>4. CASE strategy = "Comparison"
  <2>1. \A p \in Providers : result[p] \in Results
    BY <1>3, <1>4, Answered DEF IInv, Asked, Settled, tasks
  <2>2. (\E p \in Providers : hasError(result[p])) \/ fallback \notin Providers
    BY <1>0, <1>1, <1>2, <1>3, <1>4, <2>1, ComparedResolutions
  <2>3. (\E p \in Providers : result[p] \in Failures) \/ fallback = 0
    BY <1>0, <1>3, <2>2 DEF hasError, TypeOK
  <2> QED BY <1>4, <2>3 DEF FailureIsJustified
<1>5. CASE strategy # "Comparison"
  <2>1. PICK k \in Providers : Reached(k) BY <1>3, <1>5 DEF Asked
  <2>2. stage[k] = "done" BY <2>1 DEF IInv, Settled, Reached, tasks
  <2>3. result[k] \in Results BY <1>3, <2>2, Answered
  <2>4. hasError(result[k]) BY <1>1, <1>2, <1>3, <1>5, <2>1, <2>3, LastDecides
  <2>5. \A q \in 1..(k - 1) : shouldEvaluateNextProvider(result[q]) BY <2>1 DEF Reached
  <2>6. k = N \/ ~shouldEvaluateNextProvider(result[k]) BY <2>1, <2>2 DEF Reached
  <2>7. CASE strategy = "FirstMatch"
    <3>1. \A q \in 1..(k - 1) : result[q] = "FLAG_NOT_FOUND"
      BY <2>5, <2>7 DEF shouldEvaluateNextProvider
    <3>2. CASE result[k] = "FLAG_NOT_FOUND"
      <4>1. k = N BY <2>6, <2>7, <3>2 DEF shouldEvaluateNextProvider
      <4>2. \A p \in Providers : result[p] = "FLAG_NOT_FOUND" BY <1>0, <3>1, <3>2, <4>1
      <4> QED BY <2>7, <4>2 DEF FailureIsJustified
    <3>3. CASE result[k] # "FLAG_NOT_FOUND"
      <4>1. result[k] = "OTHER" BY <2>4, <3>3 DEF hasError, Failures
      <4> QED BY <2>7, <3>1, <4>1 DEF FailureIsJustified
    <3> QED BY <3>2, <3>3
  <2>8. CASE strategy = "FirstSuccessful"
    <3>1. \A q \in 1..(k - 1) : result[q] \in Failures
      BY <2>5, <2>8 DEF shouldEvaluateNextProvider, hasError
    <3>2. k = N BY <2>4, <2>6, <2>8 DEF shouldEvaluateNextProvider
    <3>3. \A p \in Providers : result[p] \in Failures
      BY <1>0, <2>4, <3>1, <3>2 DEF hasError
    <3> QED BY <2>8, <3>3 DEF FailureIsJustified
  <2> QED BY <1>3, <1>5, <2>7, <2>8 DEF TypeOK, Strategies
<1> QED BY <1>4, <1>5

(* A call fails only for a reason its strategy gives, for any number of      *)
(* providers (multi-provider.ts:183-193, strategies).                        *)
THEOREM FailsJustified == Spec => []FailureIsJustified
BY FailureFromInv, Invariance, PTL

(* Both: every call ends as its strategy promises (multi-provider.ts:142-193)*)
THEOREM EveryCallJustified == Spec => []AnswersJustified
<1>1. IInv => AnswersJustified BY ValueFromInv, FailureFromInv DEF AnswersJustified
<1> QED BY <1>1, Invariance, PTL

-----------------------------------------------------------------------------
(* The status tracker: the SDK's status follows the providers' events        *)

(* What the SDK was told is the overall status the tracker knows; before     *)
(* initialize() has settled it has heard nothing that counts.                *)
Told(known) == IF sdk = "FATAL" THEN known = "ERROR" ELSE known = sdk

TrackerInv ==
  /\ Tracker!TypeOK
  /\ heard => initialized
  /\ heard => Told(Tracker!overall(statuses))

(* The tracker's own status is never FATAL or NOT_READY, because no status   *)
(* it keeps is (status-tracker.ts:56-72).                                    *)
LEMMA OverallIsTracked ==
  ASSUME NEW tracked \in [Tracker!Providers -> {"none", "READY", "STALE", "ERROR"}]
  PROVE  Tracker!overall(tracked) \in {"READY", "STALE", "ERROR"}
<1> DEFINE S == {tracked[p] : p \in Tracker!Providers}
<1>1. S \subseteq {"none", "READY", "STALE", "ERROR"}
  OBVIOUS
<1>2. DOMAIN Tracker!Ranking = 1..4
  BY DEF Tracker!Ranking
<1>3. Tracker!Ranking[1] \notin S /\ Tracker!Ranking[2] \notin S
  BY <1>1 DEF Tracker!Ranking
<1>4. CASE \E i \in DOMAIN Tracker!Ranking : Tracker!Ranking[i] \in S
  <2> DEFINE First(i) == Tracker!Ranking[i] \in S /\ \A j \in 1..(i - 1) : Tracker!Ranking[j] \notin S
  <2>1. \E i \in DOMAIN Tracker!Ranking : First(i)
    <3>1. CASE Tracker!Ranking[3] \in S
      <4>1. \A j \in 1..(3 - 1) : Tracker!Ranking[j] \notin S
        BY <1>3
      <4> QED BY <3>1, <4>1, <1>2
    <3>2. CASE Tracker!Ranking[3] \notin S
      <4>1. Tracker!Ranking[4] \in S
        BY <1>2, <1>3, <1>4, <3>2
      <4>2. \A j \in 1..(4 - 1) : Tracker!Ranking[j] \notin S
        BY <1>3, <3>2
      <4> QED BY <4>1, <4>2, <1>2
    <3> QED BY <3>1, <3>2
  <2>2. First(CHOOSE i \in DOMAIN Tracker!Ranking : First(i)) /\ (CHOOSE i \in DOMAIN Tracker!Ranking : First(i)) \in DOMAIN Tracker!Ranking
    BY <2>1
  <2>3. (CHOOSE i \in DOMAIN Tracker!Ranking : First(i)) \in {3, 4}
    BY <1>2, <1>3, <2>2
  <2>4. Tracker!Ranking[3] = "ERROR" /\ Tracker!Ranking[4] = "STALE"
    BY DEF Tracker!Ranking
  <2> QED BY <1>4, <2>3, <2>4 DEF Tracker!overall, Tracker!MostCriticalOf
<1>5. CASE ~ \E i \in DOMAIN Tracker!Ranking : Tracker!Ranking[i] \in S
  BY <1>5 DEF Tracker!overall, Tracker!MostCriticalOf
<1> QED BY <1>4, <1>5

LEMMA TrackerInit == Tracker!Init => TrackerInv
  BY DEF Tracker!Init, TrackerInv, Tracker!TypeOK

(* An event of a provider changes the SDK's status exactly when the overall  *)
(* one changes.                                                              *)
LEMMA EventPreserves ==
  ASSUME TrackerInv, NEW p \in Tracker!Providers, Tracker!ProviderEvent(p)
  PROVE  TrackerInv'
<1> USE DEF TrackerInv
<1>1. PICK s \in {"READY", "STALE", "ERROR", "FATAL"} :
        /\ actual' = [actual EXCEPT ![p] = s]
        /\ Tracker!changeProviderStatus(p, IF s = "FATAL" THEN "ERROR" ELSE s,
                                IF s \in {"ERROR", "FATAL"} THEN s ELSE "ERROR")
  BY DEF Tracker!ProviderEvent
<1> DEFINE kept    == IF s = "FATAL" THEN "ERROR" ELSE s
           details == IF s \in {"ERROR", "FATAL"} THEN s ELSE "ERROR"
           tracked == [statuses EXCEPT ![p] = kept]
<1>2. UNCHANGED <<promise, initialized>>
  BY DEF Tracker!ProviderEvent
<1>3. /\ statuses' = tracked
      /\ sdk' = IF Tracker!overall(statuses) = Tracker!overall(tracked) THEN sdk
                ELSE IF Tracker!overall(tracked) = "ERROR" THEN details ELSE Tracker!overall(tracked)
      /\ heard' = (heard \/ (Tracker!overall(statuses) # Tracker!overall(tracked) /\ initialized))
  BY <1>1 DEF Tracker!changeProviderStatus
<1>4. tracked \in [Tracker!Providers -> {"none", "READY", "STALE", "ERROR"}]
  BY DEF Tracker!TypeOK
<1>5. Tracker!overall(tracked) \in {"READY", "STALE", "ERROR"}
  BY <1>4, OverallIsTracked
<1>6. Tracker!TypeOK'
  <2>1. sdk' \in {"NOT_READY", "READY", "STALE", "ERROR", "FATAL"}
    BY <1>3, <1>5 DEF Tracker!TypeOK
  <2>2. heard' \in BOOLEAN
    BY <1>3 DEF Tracker!TypeOK
  <2>3. actual' \in [Tracker!Providers -> {"NOT_READY", "READY", "STALE", "ERROR", "FATAL"}]
    BY <1>1 DEF Tracker!TypeOK
  <2> QED BY <1>2, <1>3, <1>4, <2>1, <2>2, <2>3 DEF Tracker!TypeOK
<1>7. (heard => initialized)'
  BY <1>2, <1>3
<1>8. (heard => Told(Tracker!overall(statuses)))'
  <2>1. CASE Tracker!overall(statuses) = Tracker!overall(tracked)
    BY <1>3, <2>1 DEF Told
  <2>2. CASE Tracker!overall(statuses) # Tracker!overall(tracked)
    <3>1. sdk' = IF Tracker!overall(tracked) = "ERROR" THEN details ELSE Tracker!overall(tracked)
      BY <1>3, <2>2
    <3>2. details \in {"ERROR", "FATAL"}
      OBVIOUS
    <3>3. Told(Tracker!overall(statuses))'
      BY <1>3, <1>5, <3>1, <3>2 DEF Told
    <3> QED BY <3>3
  <2> QED BY <2>1, <2>2
<1> QED BY <1>6, <1>7, <1>8

LEMMA TrackerKeeps == TrackerInv /\ [Tracker!Next]_(Tracker!vars) => TrackerInv'
<1> SUFFICES ASSUME TrackerInv, [Tracker!Next]_(Tracker!vars) PROVE TrackerInv'
  OBVIOUS
<1>1. CASE \E p \in Tracker!Providers : Tracker!InitializeSettles(p)
  BY <1>1 DEF Tracker!InitializeSettles, TrackerInv, Tracker!TypeOK, Told, Tracker!overall
<1>2. CASE \E p \in Tracker!Providers : Tracker!ProviderEvent(p)
  BY <1>2, EventPreserves
<1>3. CASE Tracker!initialize
  BY <1>3 DEF Tracker!initialize, TrackerInv, Tracker!TypeOK, Told, Tracker!overall
<1>4. CASE UNCHANGED Tracker!vars
  BY <1>4 DEF Tracker!vars, TrackerInv, Tracker!TypeOK, Told, Tracker!overall
<1> QED BY <1>1, <1>2, <1>3, <1>4 DEF Tracker!Next

(* The tracker keeps neither FATAL nor NOT_READY and the SDK follows it, in  *)
(* every order of events (status-tracker.ts:15-66).                          *)
THEOREM TrackerInvariance == Tracker!Spec => []TrackerInv
  BY TrackerInit, TrackerKeeps, PTL DEF Tracker!Spec

(* The tracker's variables keep their types, for any number of providers.    *)
THEOREM TrackerTypeCorrect == Tracker!Spec => []TrackerTypeOK
<1>1. TrackerInv => TrackerTypeOK
  BY DEF TrackerInv, TrackerTypeOK
<1> QED BY <1>1, TrackerInvariance, PTL

(* Once the multi-provider has emitted an event after initialize(), the SDK  *)
(* has the most critical of the statuses the tracker knows, for any number   *)
(* of providers (status-tracker.ts:44-72).                                   *)
THEOREM SdkFollows == Tracker!Spec => []SdkFollowsTracker
<1>1. TrackerInv => SdkFollowsTracker
  BY DEF TrackerInv, Told, SdkFollowsTracker, Tracker!SdkFollowsTracker
<1> QED BY <1>1, TrackerInvariance, PTL

-----------------------------------------------------------------------------
(* The evaluations of the web's multi-provider                               *)

WebAnswerInv ==
  /\ strategy \in Strategies /\ fallback \in 0..N
  /\ webOutcome # NoResult =>
       /\ results \in [Providers -> Values \union Failures]
       /\ webOutcome = Web!determineFinalResult(results)

(* Numbers from 1 to n have a least one: the sets of those below each are    *)
(* ordered by inclusion.                                                     *)
LEMMA Least ==
  ASSUME NEW n \in Nat, NEW S \in SUBSET (1..n), S # {}
  PROVE  \E m \in S : \A k \in S : m <= k
<1> DEFINE R == StrictSubsetOrdering(1..n)
           T == {1..k : k \in S}
<1>1. IsWellFoundedOn(R, FiniteSubsetsOf(1..n))
  BY FS_StrictSubsetOrderingWellFounded
<1>2. \A X, Y \in SUBSET (1..n) : X \subseteq Y /\ X # Y => <<X, Y>> \in R
  BY DEF StrictSubsetOrdering
<1>3. T \subseteq FiniteSubsetsOf(1..n)
  <2> SUFFICES ASSUME NEW k \in S PROVE 1..k \in FiniteSubsetsOf(1..n)
    OBVIOUS
  <2>1. IsFiniteSet(1..k) BY FS_Interval
  <2>2. 1..k \subseteq 1..n OBVIOUS
  <2> QED BY <2>1, <2>2 DEF FiniteSubsetsOf
<1>4. T # {} OBVIOUS
<1> HIDE DEF R
<1>5. PICK X \in T : \A Y \in T : <<Y, X>> \notin R
  <2> HIDE DEF T
  <2> QED BY <1>1, <1>3, <1>4, WFMin
<1>6. PICK m \in S : X = 1..m BY <1>5
<1>7. ASSUME NEW k \in S PROVE m <= k
  <2> SUFFICES ASSUME k < m PROVE FALSE
    OBVIOUS
  <2>1. 1..k \in T /\ <<1..k, 1..m>> \notin R BY <1>5, <1>6
  <2>2. 1..k \subseteq 1..m /\ 1..k \in SUBSET (1..n) /\ 1..m \in SUBSET (1..n)
    OBVIOUS
  <2>3. m \in 1..m /\ m \notin 1..k OBVIOUS
  <2> QED BY <2>1, <2>2, <2>3, <1>2
<1> QED BY <1>7

(* The loop of flagResolutionProxy breaks after the first provider of a set  *)
(* that stops it, or after the last provider: that one decides.              *)
LEMMA LoopStops ==
  ASSUME NEW rs, NEW Stop \in SUBSET Providers,
         \A p \in Providers : Web!shouldEvaluateNextProvider(rs[p]) <=> p \notin Stop
  PROVE  LET last == CHOOSE p \in Web!asked(rs) : \A q \in Web!asked(rs) : q <= p
         IN /\ Stop = {} => last = N
            /\ Stop # {} => last = CHOOSE p \in Stop : \A q \in Stop : p <= q
<1> DEFINE A == Web!asked(rs)
           Greatest(p) == p \in A /\ \A q \in A : q <= p
           First(p) == p \in Stop /\ \A q \in Stop : p <= q
           last == CHOOSE p \in A : \A q \in A : q <= p
           first == CHOOSE p \in Stop : \A q \in Stop : p <= q
<1>0. N \in Nat \ {0} /\ Providers = 1..N /\ Stop \subseteq 1..N
  BY NAssumption DEF Providers
<1>1. A = {p \in 1..N : \A q \in 1..(p - 1) : q \notin Stop}
  <2> SUFFICES ASSUME NEW p \in 1..N
               PROVE  (\A q \in 1..(p - 1) : Web!shouldEvaluateNextProvider(rs[q]))
                        <=> \A q \in 1..(p - 1) : q \notin Stop
    BY DEF Web!asked, Web!Providers
  <2>1. \A q \in 1..(p - 1) : q \in Providers BY <1>0
  <2> QED BY <2>1
<1> HIDE DEF A
<1>2. CASE Stop = {}
  <2>1. Greatest(N) BY <1>0, <1>1, <1>2
  <2>2. \A p : Greatest(p) => p = N BY <1>0, <1>1, <2>1
  <2>3. last = N BY <2>1, <2>2
  <2> QED BY <1>2, <2>3 DEF A
<1>3. CASE Stop # {}
  <2>1. PICK f \in Stop : \A q \in Stop : f <= q BY <1>0, <1>3, Least
  <2>2. f \in 1..N BY <1>0
  <2>3. Greatest(f)
    <3>1. f \in A BY <1>0, <1>1, <2>1, <2>2
    <3>2. ASSUME NEW q \in A PROVE q <= f
      <4>1. q \in 1..N /\ f \notin 1..(q - 1) BY <1>1
      <4> QED BY <2>2, <4>1
    <3> QED BY <3>1, <3>2
  <2>4. \A p : Greatest(p) => p = f
    <3> SUFFICES ASSUME NEW p, Greatest(p) PROVE p = f
      OBVIOUS
    <3>1. p \in 1..N BY <1>1
    <3>2. p <= f /\ f <= p BY <2>3
    <3> QED BY <2>2, <3>1, <3>2
  <2>5. \A p : First(p) => p = f
    <3> SUFFICES ASSUME NEW p, First(p) PROVE p = f
      OBVIOUS
    <3>1. p \in 1..N /\ p <= f /\ f <= p BY <1>0, <2>1
    <3> QED BY <2>2, <3>1
  <2>6. last = f BY <2>3, <2>4
  <2>7. first = f BY <2>1, <2>5
  <2> QED BY <1>3, <2>6, <2>7 DEF A
<1> QED BY <1>2, <1>3

LEMMA WebAnswersFromInv == WebAnswerInv => WebAnswers
<1> SUFFICES ASSUME WebAnswerInv, webOutcome # NoResult PROVE WebAnswers
  BY DEF WebAnswers, Web!WebAnswers, Web!NoResult, NoResult
<1> DEFINE First(S) == results[CHOOSE p \in S : \A q \in S : p <= q]
           Found == {p \in Providers : results[p] # "FLAG_NOT_FOUND"}
           Successful == {p \in Providers : results[p] \in Values}
           Or(S) == IF S = {} \/ First(S) \in Failures THEN AggregateError ELSE First(S)
           last == CHOOSE p \in Web!asked(results) : \A q \in Web!asked(results) : q <= p
<1>0. /\ N \in Nat \ {0} /\ Providers = 1..N /\ Web!Providers = Providers
      /\ Web!Failures = Failures /\ Web!AggregateError = AggregateError
      /\ Web!GeneralError = GeneralError /\ Web!NoResult = NoResult
  BY NAssumption
  DEF Providers, Web!Providers, Failures, Web!Failures, AggregateError, Web!AggregateError,
      GeneralError, Web!GeneralError, NoResult, Web!NoResult
<1>1. /\ \A p \in Providers : results[p] \in Values \union Failures
      /\ webOutcome = Web!determineFinalResult(results)
  BY DEF WebAnswerInv
<1>2. Values \intersect Failures = {} /\ AggregateError \notin Values /\ GeneralError \notin Values
  BY ValuesAssumption
<1>3. \A r : Web!hasError(r) <=> r \in Failures
  BY <1>0 DEF Web!hasError
<1>4. strategy # "Comparison" =>
        webOutcome = IF results[last] \in Failures THEN AggregateError ELSE results[last]
  BY <1>0, <1>1, <1>3 DEF Web!determineFinalResult
<1>5. CASE strategy = "FirstMatch"
  <2>1. \A p \in Providers : Web!shouldEvaluateNextProvider(results[p]) <=> p \notin Found
    BY <1>5 DEF Web!shouldEvaluateNextProvider
  <2>2. Found \in SUBSET Providers OBVIOUS
  <2>3. /\ Found = {} => last = N
        /\ Found # {} => last = CHOOSE p \in Found : \A q \in Found : p <= q
    <3> HIDE DEF Found
    <3> QED BY <2>1, <2>2, LoopStops
  <2>4. Found = {} => results[N] \in Failures BY <1>0 DEF Failures
  <2>5. webOutcome = Or(Found)
    <3> HIDE DEF Found, last
    <3> QED BY <1>4, <1>5, <2>3, <2>4
  <2> QED BY <1>0, <1>5, <2>5 DEF WebAnswers, Web!WebAnswers
<1>6. CASE strategy = "FirstSuccessful"
  <2>1. \A p \in Providers : Web!shouldEvaluateNextProvider(results[p]) <=> p \notin Successful
    BY <1>1, <1>2, <1>3, <1>6 DEF Web!shouldEvaluateNextProvider
  <2>2. Successful \in SUBSET Providers OBVIOUS
  <2>3. /\ Successful = {} => last = N
        /\ Successful # {} => last = CHOOSE p \in Successful : \A q \in Successful : p <= q
    <3> HIDE DEF Successful
    <3> QED BY <2>1, <2>2, LoopStops
  <2>4. Successful = {} => results[N] \in Failures BY <1>0, <1>1
  <2>5. webOutcome = Or(Successful)
    <3> HIDE DEF Successful, last
    <3> QED BY <1>4, <1>6, <2>3, <2>4
  <2> QED BY <1>0, <1>6, <2>5 DEF WebAnswers, Web!WebAnswers
<1>7. CASE strategy = "Comparison"
  <2>1. Web!asked(results) = Providers
    BY <1>0, <1>7 DEF Web!asked, Web!shouldEvaluateNextProvider
  <2>2. webOutcome = IF \E p \in Providers : results[p] \in Failures THEN AggregateError
                     ELSE IF fallback = 0 THEN GeneralError
                     ELSE IF \E p \in Providers : results[p] # results[1] THEN results[fallback]
                     ELSE results[1]
    BY <1>0, <1>1, <1>3, <1>7, <2>1 DEF Web!determineFinalResult, Web!compared
  <2> DEFINE Failed == \E p \in Providers : results[p] \in Failures
             Differ == \E p \in Providers : results[p] # results[1]
  <2>3. Failed <=> Successful # Providers BY <1>1, <1>2
  <2>4. 1 \in Providers BY <1>0
  <2>5. AggregateError # GeneralError BY DEF AggregateError, GeneralError
  <2>6. webOutcome \in Values => Successful = Providers BY <1>2, <2>2, <2>3
  <2>7. webOutcome \in Values => \A p \in Providers :
          results[p] # webOutcome => fallback # 0 /\ results[fallback] = webOutcome
    BY <1>2, <2>2
  <2>8. ~Failed /\ fallback # 0 => webOutcome \in Values
    <3>1. fallback \in 0..N BY DEF WebAnswerInv
    <3>2. fallback # 0 => fallback \in Providers BY <1>0, <3>1
    <3> QED BY <1>1, <2>2, <2>4, <3>2
  <2>9. ~Failed /\ fallback = 0 => webOutcome = GeneralError BY <2>2
  <2>10. Failed => webOutcome = AggregateError BY <2>2
  <2>11. webOutcome = AggregateError => Successful # Providers
    <3> HIDE DEF Failed, Successful
    <3> QED BY <1>2, <2>3, <2>5, <2>8, <2>9
  <2>12. webOutcome = GeneralError => fallback = 0
    <3> HIDE DEF Failed
    <3> QED BY <1>2, <2>5, <2>8, <2>10
  <2> QED BY <1>0, <1>7, <2>6, <2>7, <2>11, <2>12 DEF WebAnswers, Web!WebAnswers
<1> QED BY <1>5, <1>6, <1>7 DEF WebAnswerInv, Strategies

LEMMA WebAnswerKeeps == WebAnswerInv /\ [Web!Next]_(Web!vars) => WebAnswerInv'
<1> SUFFICES ASSUME WebAnswerInv, [Web!Next]_(Web!vars) PROVE WebAnswerInv'
  OBVIOUS
<1>1. UNCHANGED <<strategy, fallback>>
  BY DEF Web!Next, Web!vars, Web!flagResolutionProxy, Web!OnContextChange, Web!HandlerResolves,
         Web!HandlerRejects
<1>2. CASE \E rs \in [Web!Providers -> Values \union Web!Failures] : Web!flagResolutionProxy(rs)
  <2>1. PICK rs \in [Web!Providers -> Values \union Web!Failures] : Web!flagResolutionProxy(rs)
    BY <1>2
  <2>2. results' \in [Providers -> Values \union Failures]
    BY <2>1 DEF Web!flagResolutionProxy, Web!Providers, Providers, Web!Failures, Failures
  <2>3. webOutcome' = Web!determineFinalResult(results)'
    BY <1>1, <2>1
    DEF Web!flagResolutionProxy, Web!determineFinalResult, Web!compared, Web!asked,
        Web!shouldEvaluateNextProvider
  <2> QED BY <1>1, <2>2, <2>3 DEF WebAnswerInv
<1>3. CASE \E c \in Changes : \/ Web!OnContextChange(c) \/ Web!HandlerResolves(c)
                              \/ Web!HandlerRejects(c)
  <2>1. webOutcome' = NoResult
    BY <1>3
    DEF Web!OnContextChange, Web!HandlerResolves, Web!HandlerRejects, Web!Forget, NoResult,
        Web!NoResult
  <2> QED BY <1>1, <2>1 DEF WebAnswerInv
<1>4. CASE UNCHANGED Web!vars
  <2>1. UNCHANGED <<results, webOutcome>> BY <1>4 DEF Web!vars, Web!evaluation
  <2>2. Web!determineFinalResult(results)' = Web!determineFinalResult(results)
    BY <1>1, <2>1
    DEF Web!determineFinalResult, Web!compared, Web!asked, Web!shouldEvaluateNextProvider
  <2> QED BY <1>1, <2>1, <2>2 DEF WebAnswerInv
<1> QED BY <1>2, <1>3, <1>4 DEF Web!Next

(* What an evaluation of the web's multi-provider returns is what the        *)
(* strategy promises of the results of all providers, though it asks only    *)
(* those up to the one that decides (multi-provider-web.ts:180-225,          *)
(* strategies), for any number of providers and any values.                  *)
THEOREM WebAnswersJustified == Web!Spec => []WebAnswers
<1>1. Web!Init => WebAnswerInv
  <2> SUFFICES ASSUME Web!Init PROVE WebAnswerInv
    OBVIOUS
  <2>1. strategy \in Strategies /\ fallback \in 0..N
    BY NAssumption DEF Web!Init, Web!Strategies, Strategies
  <2>2. webOutcome = NoResult BY DEF Web!Init, Web!NoResult, NoResult
  <2> QED BY <2>1, <2>2 DEF WebAnswerInv
<1> QED BY <1>1, WebAnswerKeeps, WebAnswersFromInv, PTL DEF Web!Spec

-----------------------------------------------------------------------------
(* The changes of context of the web's multi-provider                        *)

(* As long as no two changes were in flight at once: the one in flight takes *)
(* the context of the SDK from provider to provider, and when it has settled *)
(* all have it, unless one rejected.                                         *)
WebContextInv ==
  /\ contexts \in [Providers -> Contexts]
  /\ change \in [Changes -> [at : 0..N, context : Contexts \union {NoResult}]]
  /\ \A c \in Web!InFlight : change[c].at \in Providers /\ change[c].context \in Contexts
  /\ ~overlapped =>
       /\ \A c, d \in Web!InFlight : c = d
       /\ \A c \in Web!InFlight : /\ change[c].context = context
                                  /\ \A p \in 1..change[c].at : contexts[p] = context
       /\ Web!InFlight = {} /\ status # "ERROR" => \A p \in Providers : contexts[p] = context

LEMMA WebContextInit == Web!Init => WebContextInv
<1> SUFFICES ASSUME Web!Init PROVE WebContextInv
  OBVIOUS
<1>1. /\ contexts \in [Providers -> Contexts] /\ \A p \in Providers : contexts[p] = context
      /\ change = [c \in Changes |-> Web!Idle]
  BY DEF Web!Init, Web!Providers, Providers
<1>2. Web!InFlight = {} BY <1>1 DEF Web!InFlight
<1>3. Web!Idle \in [at : 0..N, context : Contexts \union {NoResult}]
  BY NAssumption DEF Web!Idle, Web!NoChange, Web!NoResult, NoResult
<1> QED BY <1>1, <1>2, <1>3 DEF WebContextInv

(* A step of change c that leaves the other changes where they are.          *)
LEMMA OnlyThisChange ==
  ASSUME WebContextInv, NEW c \in Changes,
         NEW next \in [at : 0..N, context : Contexts \union {NoResult}],
         change' = [change EXCEPT ![c] = next]
  PROVE  /\ change' \in [Changes -> [at : 0..N, context : Contexts \union {NoResult}]]
         /\ change'[c] = next /\ \A d \in Changes \ {c} : change'[d] = change[d]
         /\ Web!InFlight' = (Web!InFlight \ {c}) \union (IF next = Web!Idle THEN {} ELSE {c})
<1>1. /\ change' \in [Changes -> [at : 0..N, context : Contexts \union {NoResult}]]
      /\ change'[c] = next /\ \A d \in Changes \ {c} : change'[d] = change[d]
  BY DEF WebContextInv
<1>2. Web!InFlight' = {d \in Changes : change'[d] # Web!Idle}
  BY DEF Web!InFlight, Web!Idle
<1> QED BY <1>1, <1>2 DEF Web!InFlight

LEMMA ChangeStarts ==
  ASSUME WebContextInv, NEW c \in Changes, Web!OnContextChange(c)
  PROVE  WebContextInv'
<1>0. N \in Nat \ {0} /\ Providers = 1..N /\ 1 \in Providers BY NAssumption DEF Providers
<1>1. PICK ctx \in Contexts : context' = ctx /\ Web!continue(c, 1, ctx)
  BY DEF Web!OnContextChange
<1>2. /\ change[c] = Web!Idle /\ status' = "RECONCILING"
      /\ overlapped' = (overlapped \/ Web!InFlight # {})
  BY DEF Web!OnContextChange
<1> DEFINE next == [at |-> 1, context |-> ctx]
<1>3. /\ contexts' = [contexts EXCEPT ![1] = ctx]
      /\ change' = [change EXCEPT ![c] = next]
  BY <1>0, <1>1 DEF Web!continue
<1>4. next \in [at : 0..N, context : Contexts \union {NoResult}] BY <1>0
<1>5. next # Web!Idle
  <2>1. next.at # Web!Idle.at BY DEF Web!Idle, Web!NoChange
  <2> QED BY <2>1
<1>6. /\ change' \in [Changes -> [at : 0..N, context : Contexts \union {NoResult}]]
      /\ change'[c] = next /\ \A d \in Changes \ {c} : change'[d] = change[d]
      /\ Web!InFlight' = Web!InFlight \union {c}
  <2> HIDE DEF next
  <2> QED BY <1>3, <1>4, <1>5, OnlyThisChange
<1>7. contexts' \in [Providers -> Contexts] /\ contexts'[1] = ctx
  BY <1>0, <1>3 DEF WebContextInv
<1>8. \A d \in Web!InFlight' : change'[d].at \in Providers /\ change'[d].context \in Contexts
  <2> SUFFICES ASSUME NEW d \in Web!InFlight'
               PROVE  change'[d].at \in Providers /\ change'[d].context \in Contexts
    OBVIOUS
  <2>1. CASE d = c BY <1>0, <1>6, <2>1
  <2>2. CASE d # c
    <3>1. d \in Web!InFlight /\ d \in Changes BY <1>6, <2>2 DEF Web!InFlight
    <3> QED BY <1>6, <2>2, <3>1 DEF WebContextInv
  <2> QED BY <2>1, <2>2
<1>9. ASSUME ~overlapped'
      PROVE  /\ \A d, e \in Web!InFlight' : d = e
             /\ \A d \in Web!InFlight' : /\ change'[d].context = context'
                                         /\ \A p \in 1..change'[d].at : contexts'[p] = context'
             /\ Web!InFlight' # {}
  <2>1. Web!InFlight' = {c} BY <1>2, <1>6, <1>9
  <2>2. change'[c].context = context' /\ change'[c].at = 1 BY <1>1, <1>6
  <2>3. \A p \in 1..1 : contexts'[p] = context' BY <1>1, <1>7
  <2> QED BY <2>1, <2>2, <2>3
<1> QED BY <1>6, <1>7, <1>8, <1>9 DEF WebContextInv

LEMMA ChangeGoesOn ==
  ASSUME WebContextInv, NEW c \in Changes, Web!HandlerResolves(c)
  PROVE  WebContextInv'
<1>0. N \in Nat \ {0} /\ Providers = 1..N BY NAssumption DEF Providers
<1> DEFINE at == change[c].at
           ctx == change[c].context
           next == IF at + 1 <= N THEN [at |-> at + 1, context |-> ctx] ELSE Web!Idle
<1>1. c \in Web!InFlight /\ UNCHANGED <<context, overlapped>> /\ Web!continue(c, at + 1, ctx)
  BY DEF Web!HandlerResolves
<1>2. at \in 1..N /\ ctx \in Contexts
  BY <1>0, <1>1 DEF WebContextInv
<1>3. /\ contexts' = IF at + 1 <= N THEN [contexts EXCEPT ![at + 1] = ctx] ELSE contexts
      /\ change' = [change EXCEPT ![c] = next]
  BY <1>1 DEF Web!continue
<1>4. next \in [at : 0..N, context : Contexts \union {NoResult}]
  BY <1>0, <1>2 DEF Web!Idle, Web!NoChange, Web!NoResult, NoResult
<1>5. at < N => next # Web!Idle
  <2> SUFFICES ASSUME at < N PROVE next # Web!Idle
    OBVIOUS
  <2>1. next = [at |-> at + 1, context |-> ctx] /\ at + 1 # 0
    BY <1>0, <1>2
  <2>2. Web!Idle.at = 0 BY DEF Web!Idle, Web!NoChange
  <2> HIDE DEF at, ctx, next
  <2> QED BY <2>1, <2>2
<1>6. at = N => next = Web!Idle BY <1>0
<1>7. /\ change' \in [Changes -> [at : 0..N, context : Contexts \union {NoResult}]]
      /\ change'[c] = next /\ \A d \in Changes \ {c} : change'[d] = change[d]
      /\ Web!InFlight' = (Web!InFlight \ {c}) \union (IF next = Web!Idle THEN {} ELSE {c})
  <2> HIDE DEF next
  <2> QED BY <1>3, <1>4, OnlyThisChange
<1>8. /\ contexts' \in [Providers -> Contexts]
      /\ at < N => contexts'[at + 1] = ctx
      /\ \A p \in 1..at : contexts'[p] = contexts[p]
  BY <1>0, <1>2, <1>3 DEF WebContextInv
<1>9. \A d \in Web!InFlight' : change'[d].at \in Providers /\ change'[d].context \in Contexts
  <2> SUFFICES ASSUME NEW d \in Web!InFlight'
               PROVE  change'[d].at \in Providers /\ change'[d].context \in Contexts
    OBVIOUS
  <2>1. CASE d = c
    <3>1. at < N BY <1>0, <1>2, <1>6, <1>7, <2>1
    <3> QED BY <1>0, <1>2, <1>7, <2>1, <3>1
  <2>2. CASE d # c
    <3>1. d \in Web!InFlight /\ d \in Changes BY <1>7, <2>2 DEF Web!InFlight
    <3> QED BY <1>7, <2>2, <3>1 DEF WebContextInv
  <2> QED BY <2>1, <2>2
<1>10. ASSUME ~overlapped'
       PROVE  /\ \A d, e \in Web!InFlight' : d = e
              /\ \A d \in Web!InFlight' : /\ change'[d].context = context'
                                          /\ \A p \in 1..change'[d].at : contexts'[p] = context'
              /\ Web!InFlight' = {} => \A p \in Providers : contexts'[p] = context'
  <2>1. /\ Web!InFlight = {c} /\ ctx = context
        /\ \A p \in 1..at : contexts[p] = context
    BY <1>1, <1>10 DEF WebContextInv
  <2>2. CASE at < N
    <3>1. Web!InFlight' = {c}
      <4> HIDE DEF next
      <4> QED BY <1>5, <1>7, <2>1, <2>2
    <3>2. change'[c].context = context' /\ change'[c].at = at + 1
      <4>1. next = [at |-> at + 1, context |-> ctx] BY <1>0, <1>2, <2>2
      <4> HIDE DEF at, ctx, next
      <4> QED BY <1>1, <1>7, <2>1, <4>1
    <3>3. \A p \in 1..(at + 1) : contexts'[p] = context'
      <4> HIDE DEF at, ctx
      <4> QED BY <1>1, <1>2, <1>8, <2>1, <2>2
    <3> QED BY <3>1, <3>2, <3>3
  <2>3. CASE at = N
    <3>1. Web!InFlight' = {} BY <1>6, <1>7, <2>1, <2>3
    <3>2. \A p \in Providers : contexts'[p] = context'
      BY <1>0, <1>1, <1>8, <2>1, <2>3
    <3> QED BY <3>1, <3>2
  <2> QED BY <1>0, <1>2, <2>2, <2>3
<1> QED BY <1>7, <1>8, <1>9, <1>10 DEF WebContextInv

LEMMA ChangeFails ==
  ASSUME WebContextInv, NEW c \in Changes, Web!HandlerRejects(c)
  PROVE  WebContextInv'
<1>1. /\ c \in Web!InFlight /\ UNCHANGED <<context, contexts, overlapped>>
      /\ change' = [change EXCEPT ![c] = Web!Idle]
      /\ Web!InFlight = {c} => status' = "ERROR"
  BY DEF Web!HandlerRejects, Web!settles
<1>2. Web!Idle \in [at : 0..N, context : Contexts \union {NoResult}]
  BY NAssumption DEF Web!Idle, Web!NoChange, Web!NoResult, NoResult
<1>3. /\ change' \in [Changes -> [at : 0..N, context : Contexts \union {NoResult}]]
      /\ \A d \in Changes \ {c} : change'[d] = change[d]
      /\ Web!InFlight' = Web!InFlight \ {c}
  BY <1>1, <1>2, OnlyThisChange
<1>4. \A d \in Web!InFlight' : d \in Web!InFlight /\ d \in Changes /\ change'[d] = change[d]
  BY <1>3 DEF Web!InFlight
<1>5. ASSUME ~overlapped'
      PROVE  Web!InFlight' = {} /\ status' = "ERROR"
  <2>1. Web!InFlight = {c} BY <1>1, <1>5 DEF WebContextInv
  <2> QED BY <1>1, <1>3, <2>1
<1> QED BY <1>1, <1>3, <1>4, <1>5 DEF WebContextInv

LEMMA WebContextKeeps == WebContextInv /\ [Web!Next]_(Web!vars) => WebContextInv'
<1> SUFFICES ASSUME WebContextInv, [Web!Next]_(Web!vars) PROVE WebContextInv'
  OBVIOUS
<1>1. CASE UNCHANGED <<context, contexts, change, status, overlapped>>
  <2>1. Web!InFlight' = Web!InFlight BY <1>1 DEF Web!InFlight, Web!Idle
  <2> QED BY <1>1, <2>1 DEF WebContextInv
<1>2. CASE \E rs \in [Web!Providers -> Values \union Web!Failures] : Web!flagResolutionProxy(rs)
  BY <1>1, <1>2 DEF Web!flagResolutionProxy
<1>3. CASE \E c \in Changes : \/ Web!OnContextChange(c) \/ Web!HandlerResolves(c)
                              \/ Web!HandlerRejects(c)
  BY <1>3, ChangeStarts, ChangeGoesOn, ChangeFails
<1>4. CASE UNCHANGED Web!vars
  BY <1>1, <1>4 DEF Web!vars
<1> QED BY <1>2, <1>3, <1>4 DEF Web!Next

(* Once a change of context has settled that no other one overlapped, every  *)
(* provider has the context of the SDK, or the SDK has the status ERROR, for *)
(* any number of providers and any contexts (multi-provider-web.ts:110-114). *)
THEOREM ContextsFollowTheSdk == Web!Spec => []ContextsFollow
<1>1. WebContextInv => ContextsFollow
  BY DEF WebContextInv, ContextsFollow, Web!ContextsFollow, Web!Providers, Providers
<1> QED BY <1>1, WebContextInit, WebContextKeeps, PTL DEF Web!Spec
-----------------------------------------------------------------------------
(* The registration of the providers                                         *)

(* Every nonempty set of natural numbers has a least element.                *)
LEMMA LeastNumber ==
  ASSUME NEW T, T \subseteq Nat, T # {}
  PROVE  \E x \in T : \A y \in T : x <= y
<1>1. IsWellFoundedOn(OpToRel(<, Nat), Nat)
  BY NatLessThanWellFounded
<1>2. PICK x \in T : \A y \in T : <<y, x>> \notin OpToRel(<, Nat)
  BY <1>1, WFMin
<1>3. \A y \in T : ~(y < x)
  BY <1>2 DEF OpToRel
<1> QED BY <1>3

LEMMA LeastIs ==
  ASSUME NEW S, S \subseteq Nat, S # {}
  PROVE  least(S) \in S /\ \A j \in S : least(S) <= j
BY LeastNumber DEF least

(* Where a total order puts the numbers up to n, b[i] being those before i.  *)
Ordered(n, b) ==
  /\ \A i \in 1 .. n : b[i] \subseteq 1 .. n /\ i \notin b[i]
  /\ \A i, j \in 1 .. n : i = j \/ i \in b[j] \/ j \in b[i]
  /\ \A i \in 1 .. n : \A j \in b[i] : b[j] \subseteq b[i]

LEMMA Ranks ==
  ASSUME NEW n \in Nat, NEW b, Ordered(n, b)
  PROVE  /\ \A i \in 1 .. n : IsFiniteSet(b[i]) /\ Cardinality(b[i]) \in 0 .. n - 1
         /\ \A i, j \in 1 .. n : Cardinality(b[i]) = Cardinality(b[j]) => i = j
         /\ \A k \in 1 .. n : \E i \in 1 .. n : Cardinality(b[i]) = k - 1
<1> DEFINE D == 1 .. n
<1>1. IsFiniteSet(D) /\ Cardinality(D) = n
  BY FS_Interval
<1>2. ASSUME NEW i \in D PROVE IsFiniteSet(b[i]) /\ Cardinality(b[i]) \in 0 .. n - 1
  <2>1. b[i] \in SUBSET (D \ {i})
    BY DEF Ordered
  <2> HIDE DEF D
  <2>2. IsFiniteSet(D \ {i}) /\ Cardinality(D \ {i}) = n - 1
    BY <1>1, FS_RemoveElement
  <2>3. IsFiniteSet(b[i]) /\ Cardinality(b[i]) <= n - 1
    BY <2>1, <2>2, FS_Subset
  <2>4. Cardinality(b[i]) \in Nat
    BY <2>3, FS_CardinalityType
  <2> QED BY <2>3, <2>4
<1>3. ASSUME NEW i \in D, NEW j \in D, i \in b[j] PROVE Cardinality(b[i]) # Cardinality(b[j])
  <2>1. b[i] \in SUBSET b[j] /\ i \notin b[i]
    BY <1>3 DEF Ordered
  <2>2. b[i] # b[j]
    BY <1>3, <2>1
  <2> QED BY <1>2, <2>1, <2>2, FS_Subset
<1>4. \A i, j \in D : Cardinality(b[i]) = Cardinality(b[j]) => i = j
  BY <1>3 DEF Ordered
<1> DEFINE rank == [i \in D |-> Cardinality(b[i]) + 1]
<1>5. ASSUME NEW i \in D PROVE Cardinality(b[i]) + 1 \in 1 .. n
  BY <1>2
<1>6. rank \in [D -> D]
  BY <1>5
<1>7. \A i, j \in D : rank[i] = rank[j] => i = j
  <2>1. \A i, j \in D : Cardinality(b[i]) + 1 = Cardinality(b[j]) + 1 => Cardinality(b[i]) = Cardinality(b[j])
    BY <1>2
  <2> QED BY <1>4, <2>1
<1>8. rank \in Injection(D, D)
  <2> HIDE DEF rank, D
  <2> QED BY <1>6, <1>7 DEF Injection, IsInjective
<1>9. rank \in Surjection(D, D)
  BY <1>1, <1>8, FS_Injection
<1>10. ASSUME NEW k \in D PROVE \E i \in D : Cardinality(b[i]) = k - 1
  <2>1. PICK i \in D : rank[i] = k
    BY <1>9 DEF Surjection
  <2>2. Cardinality(b[i]) + 1 = k
    BY <2>1
  <2> QED BY <1>2, <2>2
<1> QED BY <1>2, <1>4, <1>10

LEMMA UpTo ==
  ASSUME NEW n \in Nat
  PROVE  IsFiniteSet(1 .. n) /\ Cardinality(1 .. n) = n /\ 1 .. n \subseteq Nat
<1>1. IsFiniteSet(1 .. n) /\ Cardinality(1 .. n) = n
  BY FS_Interval
<1> QED BY <1>1

(* The lists as the properties need them.                                    *)
Registered(l) == l \in Seq([name : Names \union {NoName}, type : Names]) /\ Len(l) <= MaxProviders

LEMMA ListTyped ==
  ASSUME NEW l, Registered(l)
  PROVE  /\ Len(l) \in Nat /\ Len(l) <= MaxProviders /\ DOMAIN l = 1 .. Len(l)
         /\ \A i \in 1 .. Len(l) : candidateName(l[i]) \in Names
<1> DEFINE E == [name : Names \union {NoName}, type : Names]
<1>1. l \in Seq(E)
  BY DEF Registered
<1>2. \A e \in E : candidateName(e) \in Names
  BY DEF candidateName
<1> HIDE DEF E
<1>3. Len(l) \in Nat /\ DOMAIN l = 1 .. Len(l) /\ \A i \in 1 .. Len(l) : l[i] \in E
  BY <1>1
<1> QED BY <1>2, <1>3 DEF Registered

LEMMA ListOrdered ==
  ASSUME NEW l, Registered(l)
  PROVE  Ordered(Len(l), [i \in 1 .. Len(l) |-> before(l, i)])
<1> DEFINE n == Len(l)
           D == 1 .. n
           lead(i) == least(sameName(l, i))
<1>1. n \in Nat /\ DOMAIN l = D
  BY ListTyped
<1>2. \A i \in D : sameName(l, i) \subseteq D /\ i \in sameName(l, i)
  BY <1>1 DEF sameName
<1>3. \A i, j \in D : j \in sameName(l, i) => sameName(l, j) = sameName(l, i)
  BY DEF sameName
<1>4. D \subseteq Nat
  OBVIOUS
<1>5. \A i \in D : lead(i) \in sameName(l, i) /\ lead(i) \in Nat
  BY <1>2, <1>4, LeastIs
<1>6. \A i \in D : before(l, i) = {j \in D : lead(j) < lead(i) \/ (sameName(l, j) = sameName(l, i) /\ j < i)}
  BY Zenon, <1>1 DEF before
<1>7. \A i, j \in D : lead(i) = lead(j) => sameName(l, i) = sameName(l, j)
  BY <1>2, <1>3, <1>5
<1>8. \A i, j \in D : sameName(l, i) = sameName(l, j) => lead(i) = lead(j)
  OBVIOUS
<1> HIDE DEF lead, D
<1>9. \A i \in D : i \notin before(l, i)
  BY <1>4, <1>5, <1>6
<1>10. ASSUME NEW i \in D, NEW j \in D PROVE i = j \/ i \in before(l, j) \/ j \in before(l, i)
  <2>1. lead(i) < lead(j) \/ lead(j) < lead(i) \/ lead(i) = lead(j)
    BY <1>5
  <2>2. i < j \/ j < i \/ i = j
    BY <1>4
  <2>3. lead(i) = lead(j) => sameName(l, i) = sameName(l, j)
    BY <1>7
  <2> QED BY <1>6, <2>1, <2>2, <2>3
<1>11. ASSUME NEW i \in D, NEW j \in before(l, i), NEW k \in before(l, j) PROVE k \in before(l, i)
  <2>1. j \in D /\ k \in D
    BY <1>6
  <2>2. lead(k) \in Nat /\ lead(j) \in Nat /\ lead(i) \in Nat /\ lead(k) <= lead(j) /\ lead(j) <= lead(i)
    BY <1>5, <1>6, <1>8, <2>1
  <2>3. CASE lead(k) = lead(j) /\ lead(j) = lead(i)
    <3>1. k < j /\ j < i
      BY <1>5, <1>6, <2>1, <2>3
    <3>2. sameName(l, k) = sameName(l, i)
      BY <1>7, <2>1, <2>3
    <3> QED BY <1>4, <1>6, <2>1, <3>1, <3>2
  <2>4. CASE lead(k) < lead(i)
    BY <1>6, <2>1, <2>4
  <2> QED BY <1>5, <2>1, <2>2, <2>3, <2>4
<1> DEFINE b == [i \in D |-> before(l, i)]
<1>12. \A i \in D : b[i] = before(l, i) /\ before(l, i) \subseteq D
  BY <1>6
<1> HIDE DEF b
<1>13. Ordered(n, b)
  <2>1. \A i \in D : b[i] \subseteq D /\ i \notin b[i]
    BY <1>9, <1>12
  <2>2. \A i, j \in D : i = j \/ i \in b[j] \/ j \in b[i]
    BY <1>10, <1>12
  <2>3. \A i \in D : \A j \in b[i] : b[j] \subseteq b[i]
    BY <1>11, <1>12
  <2> QED BY Zenon, <2>1, <2>2, <2>3 DEF Ordered, D
<1> QED BY <1>13 DEF b, D

(* The entries are the providers of the list in another order.               *)
LEMMA Positions ==
  ASSUME NEW l, Registered(l)
  PROVE  /\ \A k \in 1 .. Len(l) : position(l, k) \in 1 .. Len(l)
         /\ \A j, k \in 1 .. Len(l) : position(l, j) = position(l, k) => j = k
         /\ \A i \in 1 .. Len(l) : \E k \in 1 .. Len(l) : position(l, k) = i
<1> DEFINE n == Len(l)
           D == 1 .. n
           b == [i \in D |-> before(l, i)]
           rank(i) == Cardinality(before(l, i))
<1>1. n \in Nat /\ DOMAIN l = D
  BY ListTyped
<1>2. Ordered(n, b)
  BY ListOrdered
<1>3. \A i \in D : b[i] = before(l, i)
  OBVIOUS
<1>4. /\ \A i \in D : Cardinality(b[i]) \in 0 .. n - 1
      /\ \A i, j \in D : Cardinality(b[i]) = Cardinality(b[j]) => i = j
      /\ \A k \in D : \E i \in D : Cardinality(b[i]) = k - 1
  <2> HIDE DEF b, n
  <2> QED BY <1>1, <1>2, Ranks
<1>5. /\ \A i \in D : rank(i) \in 0 .. n - 1
      /\ \A i, j \in D : rank(i) = rank(j) => i = j
      /\ \A k \in D : \E i \in D : rank(i) = k - 1
  BY <1>3, <1>4
<1> HIDE DEF b, D, rank
<1>6. \A k \in D : position(l, k) \in D /\ rank(position(l, k)) = k - 1
  BY <1>1, <1>5 DEF position, rank
<1>7. D \subseteq Nat
  BY <1>1 DEF D
<1>8. ASSUME NEW j \in D, NEW k \in D, position(l, j) = position(l, k) PROVE j = k
  BY <1>6, <1>7, <1>8
<1>9. ASSUME NEW i \in D PROVE \E k \in D : position(l, k) = i
  <2>1. rank(i) \in 0 .. n - 1
    BY <1>5
  <2>2. rank(i) + 1 \in D /\ (rank(i) + 1) - 1 = rank(i)
    BY <1>1, <2>1 DEF D
  <2> DEFINE k == rank(i) + 1
  <2>3. k \in D /\ k - 1 = rank(i)
    BY <2>2
  <2> HIDE DEF k
  <2>4. position(l, k) \in D /\ rank(position(l, k)) = rank(i)
    BY <1>6, <2>3
  <2> QED BY <1>5, <2>3, <2>4
<1> QED BY <1>6, <1>8, <1>9 DEF D

(* The index of an entry is one of those there are texts for.                *)
LEMMA IndexBounded ==
  ASSUME NEW l, Registered(l)
  PROVE  \A i \in 1 .. Len(l) :
           /\ IsFiniteSet({j \in sameName(l, i) : j <= i})
           /\ Cardinality({j \in sameName(l, i) : j <= i}) \in 1 .. MaxProviders
<1> DEFINE D == 1 .. Len(l)
           upTo(i) == {j \in sameName(l, i) : j <= i}
           index(i) == Cardinality(upTo(i))
<1>1. Len(l) \in Nat /\ Len(l) <= MaxProviders /\ DOMAIN l = D
  BY ListTyped
<1>2. IsFiniteSet(D) /\ Cardinality(D) = Len(l) /\ D \subseteq Nat
  BY <1>1, UpTo
<1> HIDE DEF D
<1>3. \A i \in D : upTo(i) \in SUBSET D /\ i \in upTo(i)
  BY <1>1, <1>2 DEF sameName
<1>4. \A i \in D : IsFiniteSet(upTo(i)) /\ index(i) \in 1 .. MaxProviders
  <2> SUFFICES ASSUME NEW i \in D PROVE IsFiniteSet(upTo(i)) /\ index(i) \in 1 .. MaxProviders
    OBVIOUS
  <2> DEFINE U == upTo(i)
  <2>1. U \in SUBSET D /\ i \in U
    BY <1>3
  <2> HIDE DEF U
  <2>2. IsFiniteSet(U) /\ Cardinality(U) <= Len(l) /\ Cardinality(U) \in Nat
    BY <1>2, <2>1, FS_Subset, FS_CardinalityType
  <2>3. Cardinality(U) # 0
    BY <2>1, <2>2, FS_EmptySet
  <2> QED BY <1>1, <2>2, <2>3, IndexedApart DEF U
<1> QED BY Zenon, <1>4 DEF D

(* The indices of a name that several providers have.                        *)
LEMMA Indices ==
  ASSUME NEW l, Registered(l), NEW p \in 1 .. Len(l), NEW q \in 1 .. Len(l), p # q,
         sameName(l, p) # {p}, sameName(l, q) # {q}
  PROVE  indexedName(l, p) # indexedName(l, q)
<1> DEFINE D == 1 .. Len(l)
           upTo(i) == {j \in sameName(l, i) : j <= i}
           index(i) == Cardinality(upTo(i))
<1>1. Len(l) \in Nat /\ Len(l) <= MaxProviders /\ DOMAIN l = D
  BY ListTyped
<1>2. D \subseteq Nat
  BY <1>1, UpTo
<1> HIDE DEF D
<1>3. \A i \in D : upTo(i) \in SUBSET D /\ i \in upTo(i)
  BY <1>1, <1>2 DEF sameName
<1>4. \A i \in D : IsFiniteSet(upTo(i)) /\ index(i) \in 1 .. MaxProviders
  BY Zenon, IndexBounded DEF D
<1>5. \A i \in D : candidateName(l[i]) \in Names
  BY ListTyped DEF D
<1>6. p \in D /\ q \in D
  BY DEF D
<1>7. /\ indexedName(l, p) = indexed[candidateName(l[p]), index(p)]
      /\ indexedName(l, q) = indexed[candidateName(l[q]), index(q)]
  BY Zenon DEF indexedName
<1>8. ASSUME NEW i \in D, NEW j \in D, candidateName(l[i]) = candidateName(l[j]), i < j PROVE index(i) # index(j)
  <2> DEFINE U == upTo(i)
             V == upTo(j)
  <2>1. sameName(l, i) = sameName(l, j)
    BY <1>8 DEF sameName
  <2>2. U \in SUBSET V /\ j \in V /\ j \notin U
    BY <1>2, <1>3, <1>8, <2>1 DEF sameName
  <2>3. IsFiniteSet(V)
    BY <1>4
  <2> HIDE DEF U, V
  <2>4. Cardinality(U) # Cardinality(V)
    BY <2>2, <2>3, FS_Subset
  <2> QED BY <2>4 DEF U, V
<1> SUFFICES ASSUME indexedName(l, p) = indexedName(l, q) PROVE FALSE
  OBVIOUS
<1>9. candidateName(l[p]) = candidateName(l[q]) /\ index(p) = index(q)
  <2> HIDE DEF index
  <2>1. <<candidateName(l[p]), index(p)>> \in DOMAIN indexed /\ <<candidateName(l[q]), index(q)>> \in DOMAIN indexed
    BY <1>4, <1>5, <1>6, IndexedApart
  <2>2. <<candidateName(l[p]), index(p)>> = <<candidateName(l[q]), index(q)>>
    BY <1>7, <2>1, IndexedApart
  <2> QED BY <2>2
<1>10. p < q \/ q < p
  BY <1>2, <1>6
<1> HIDE DEF index
<1> QED BY <1>6, <1>8, <1>9, <1>10

(* For any list of providers, any names and any texts that end in a number:  *)
(* every provider has one entry, only a given name that ends like an indexed *)
(* one meets one, and a given name is kept, but for providers without a name *)
(* that follow (multi-provider.ts:64-92, multi-provider-web.ts:68-96).       *)
THEOREM ListsRegisterApart ==
  ASSUME NEW l, Registered(l)
  PROVE  RegisteredApart(l)
<1> DEFINE D == 1 .. Len(l)
           entries == providerEntries(l)
           Clash(i, j) == i # j /\ candidateName(l[i]) = indexedName(l, j)
<1>1. DOMAIN l = D /\ DOMAIN entries = D /\ D \subseteq Nat
  BY ListTyped DEF providerEntries
<1>2. \A k \in D : entries[k].provider = position(l, k) /\ entries[k].name = indexedName(l, position(l, k))
  BY <1>1 DEF providerEntries
<1>3. /\ \A k \in D : position(l, k) \in D
      /\ \A j, k \in D : position(l, j) = position(l, k) => j = k
      /\ \A i \in D : \E k \in D : position(l, k) = i
  BY Positions
<1>4. ASSUME NEW p \in D, NEW q \in D, p # q, indexedName(l, p) = indexedName(l, q)
      PROVE  Clash(p, q) \/ Clash(q, p)
  <2>1. sameName(l, p) = {p} => indexedName(l, p) = candidateName(l[p])
    BY DEF indexedName
  <2>2. sameName(l, q) = {q} => indexedName(l, q) = candidateName(l[q])
    BY DEF indexedName
  <2>3. sameName(l, p) = {p} \/ sameName(l, q) = {q}
    BY <1>4, Indices
  <2> QED BY <1>4, <2>1, <2>2, <2>3
<1>5. ASSUME NEW i \in D, ~throws(l), l[i].name # NoName, indexedName(l, i) # l[i].name
      PROVE  \E j \in D : j > i /\ l[j].name = NoName /\ l[j].type = l[i].name
  <2>1. candidateName(l[i]) = l[i].name
    BY <1>5 DEF candidateName
  <2>2. sameName(l, i) # {i} /\ i \in sameName(l, i)
    BY <1>1, <1>5, <2>1 DEF indexedName, sameName
  <2>3. PICK j \in D : j # i /\ candidateName(l[j]) = candidateName(l[i])
    BY <1>1, <2>2 DEF sameName
  <2>4. ASSUME NEW a \in D, NEW c \in D, c < a, l[a].name # NoName PROVE candidateName(l[c]) # l[a].name
    <3>1. c \in 1 .. a - 1
      BY <2>4
    <3> QED BY <1>1, <1>5, <2>4, <3>1 DEF throws
  <2>5. ~(j < i)
    BY <1>5, <2>1, <2>3, <2>4
  <2>6. j > i
    BY <1>1, <2>3, <2>5
  <2>7. l[j].name = NoName
    <3>1. l[j].name # NoName => candidateName(l[j]) = l[j].name
      BY DEF candidateName
    <3> QED BY <2>3, <2>4, <2>6, <3>1
  <2>8. l[j].type = l[i].name
    BY <2>1, <2>3, <2>7 DEF candidateName
  <2> QED BY <2>6, <2>7, <2>8
<1> HIDE DEF D, entries, Clash
<1>6. \A j, k \in D : j # k /\ entries[j].name = entries[k].name =>
        \E m, n \in {j, k} : Clash(entries[m].provider, entries[n].provider)
  <2> SUFFICES ASSUME NEW j \in D, NEW k \in D, j # k, entries[j].name = entries[k].name
               PROVE  \E m, n \in {j, k} : Clash(entries[m].provider, entries[n].provider)
    OBVIOUS
  <2>1. position(l, j) # position(l, k) /\ position(l, j) \in D /\ position(l, k) \in D
    BY <1>3
  <2>2. indexedName(l, position(l, j)) = indexedName(l, position(l, k))
    BY <1>2
  <2>3. Clash(position(l, j), position(l, k)) \/ Clash(position(l, k), position(l, j))
    BY <1>4, <2>1, <2>2
  <2> QED BY <1>2, <2>3
<1>7. \A i \in D : \E k \in D : entries[k].provider = i
  BY <1>2, <1>3
<1>8. ~throws(l) => \A k \in D : LET i == entries[k].provider
                                  IN l[i].name # NoName /\ entries[k].name # l[i].name =>
                                       \E j \in D : j > i /\ l[j].name = NoName /\ l[j].type = l[i].name
  BY <1>2, <1>3, <1>5
<1>9. D = DOMAIN l /\ D = DOMAIN entries
  BY <1>1
<1> DEFINE OnlyClashes(I, K) == \A j, k \in K : j # k /\ entries[j].name = entries[k].name =>
                                  \E m, n \in {j, k} : Clash(entries[m].provider, entries[n].provider)
           AllEntered(I, K) == \A i \in I : \E k \in K : entries[k].provider = i
           GivenKept(I, K) == \A k \in K : LET i == entries[k].provider
                                           IN l[i].name # NoName /\ entries[k].name # l[i].name =>
                                                \E j \in I : j > i /\ l[j].name = NoName /\ l[j].type = l[i].name
<1>10. OnlyClashes(D, D) /\ AllEntered(D, D) /\ (~throws(l) => GivenKept(D, D))
  BY <1>6, <1>7, <1>8
<1> HIDE DEF OnlyClashes, AllEntered, GivenKept
<1>11. /\ OnlyClashes(DOMAIN l, DOMAIN entries) /\ AllEntered(DOMAIN l, DOMAIN entries)
       /\ ~throws(l) => GivenKept(DOMAIN l, DOMAIN entries)
  BY ONLY <1>9, <1>10
<1> USE DEF OnlyClashes, AllEntered, GivenKept, entries, Clash
<1> QED BY <1>11 DEF RegisteredApart

(* Where no name of a list reads like an indexed one, the maps by name have  *)
(* a key for every provider (multi-provider.ts:83-92).                       *)
THEOREM PlainNamesAreKeys ==
  ASSUME NEW l, Registered(l),
         \A i \in DOMAIN l : \A p \in DOMAIN indexed : candidateName(l[i]) # indexed[p]
  PROVE  \A j, k \in DOMAIN providerEntries(l) :
           providerEntries(l)[j].name = providerEntries(l)[k].name => j = k
<1> DEFINE D == 1 .. Len(l)
           index(i) == Cardinality({j \in sameName(l, i) : j <= i})
<1>1. DOMAIN l = D /\ DOMAIN providerEntries(l) = D /\ \A i \in D : candidateName(l[i]) \in Names
  BY ListTyped DEF providerEntries
<1>2. \A i \in D : index(i) \in 1 .. MaxProviders
  BY Zenon, IndexBounded DEF D
<1>3. \A k \in D : position(l, k) \in D
  BY Positions
<1>4. \A j, k \in D : position(l, j) = position(l, k) => j = k
  BY Positions
<1>5. \A k \in D : providerEntries(l)[k].name = indexedName(l, position(l, k))
  BY <1>1 DEF providerEntries
<1>6. ASSUME NEW p \in D, NEW q \in D, p # q PROVE indexedName(l, p) # indexedName(l, q)
  <2> HIDE DEF index
  <2>1. ASSUME NEW i \in D, sameName(l, i) # {i}
        PROVE  \E m \in DOMAIN indexed : indexedName(l, i) = indexed[m]
    <3>1. indexedName(l, i) = indexed[<<candidateName(l[i]), index(i)>>]
      BY Zenon, <2>1 DEF indexedName, index
    <3>2. <<candidateName(l[i]), index(i)>> \in DOMAIN indexed
      BY <1>1, <1>2, IndexedApart
    <3> QED BY <3>1, <3>2
  <2>2. ASSUME NEW i \in D, NEW j \in D, i # j, sameName(l, i) = {i}
        PROVE  indexedName(l, i) # indexedName(l, j)
    <3>1. indexedName(l, i) = candidateName(l[i])
      BY <2>2 DEF indexedName
    <3>2. j \notin sameName(l, i)
      BY <2>2
    <3>3. candidateName(l[j]) # candidateName(l[i])
      BY <1>1, <3>2 DEF sameName
    <3>4. CASE sameName(l, j) = {j}
      BY <3>1, <3>3, <3>4 DEF indexedName
    <3>5. CASE sameName(l, j) # {j}
      BY <1>1, <2>1, <3>1, <3>5
    <3> QED BY <3>4, <3>5
  <2>3. CASE sameName(l, p) = {p}
    BY <1>6, <2>2, <2>3
  <2>4. CASE sameName(l, q) = {q}
    BY <1>6, <2>2, <2>4
  <2>5. CASE sameName(l, p) # {p} /\ sameName(l, q) # {q}
    BY <1>6, <2>5, Indices
  <2> QED BY <2>3, <2>4, <2>5
<1> HIDE DEF D
<1> QED BY <1>1, <1>3, <1>4, <1>5, <1>6

(* As the constructors call it.                                              *)
THEOREM EntriesAlwaysDistinct == MCSpec => []EntriesDistinct
<1> DEFINE Given == list = <<>> \/ list \in Lists
<1>1. MCInit => Given
  BY DEF MCInit
<1>2. Given /\ [Evaluation \/ Tracking \/ OnTheWeb \/ Register]_mcVars => Given'
  BY DEF Evaluation, Tracking, OnTheWeb, Register, mcVars
<1>3. Given => EntriesDistinct
  <2> SUFFICES ASSUME Given PROVE Registered(list)
    BY ListsRegisterApart DEF EntriesDistinct
  <2>1. CASE list = <<>>
    <3>1. Len(<<>>) = 0 /\ <<>> \in Seq([name : Names \union {NoName}, type : Names])
      OBVIOUS
    <3> QED BY <2>1, <3>1, IndexedApart DEF Registered
  <2>2. CASE list \in Lists
    BY Zenon, <2>2, ListsTyped DEF Registered
  <2> QED BY <2>1, <2>2
<1> QED BY <1>1, <1>2, <1>3, PTL DEF MCSpec
=============================================================================
