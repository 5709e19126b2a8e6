---------------------------- MODULE DebounceHook ----------------------------
(* The debounce hook (debounce-hook.ts) over its cache                       *)
(* (fixed-size-expiring-cache.ts): a stage of the wrapped hook that ran for  *)
(* a key is skipped until its entry expires, and repeats what it came to.    *)
(* One entry holds the results of all stages of a key.                       *)
(*                                                                           *)
(* A result is the time the run ended and whether it threw: runs that end at *)
(* different times are told apart, whatever they return.  A call without a   *)
(* cache key runs the stage and touches nothing, and is left out.            *)
EXTENDS Integers, Sequences, FiniteSets, SequencesExt

CONSTANTS Keys, Stages,
          DebounceTime, \* options.debounceTime
          MaxTime,      \* bound: the clock
          MaxCalls      \* bound: asynchronous runs at the same time

ASSUME KeysFinite == IsFiniteSet(Keys)
ASSUME TimesNat == MaxTime \in Nat /\ DebounceTime \in Nat
ASSUME CallsNat == MaxCalls \in Nat

VARIABLES now,
          async,        \* does the wrapped hook return promises (server) or not (web)?
          cacheErrors,  \* options.cacheErrors
          maxItems,     \* options.maxCacheItems
          cache,        \* the entries in the order of the Map
          running,      \* asynchronous runs: the arguments of their continuations
          last,         \* how the last synchronous run of a stage for a key ended
          evicted,      \* keys and stages evicted since their last run
          skipped       \* the call just skipped, if the last step was one

vars == <<now, async, cacheErrors, maxItems, cache, running, last, evicted, skipped>>
options == <<async, cacheErrors, maxItems>>

None == [at |-> -1, threw |-> FALSE]
Nothing == [s \in Stages |-> None]
NoSkip == <<>>

Init ==
  /\ now = 0
  /\ async \in BOOLEAN /\ cacheErrors \in BOOLEAN
  /\ maxItems \in 1..Cardinality(Keys)
  /\ cache = <<>>
  /\ running = <<>>
  /\ last = [k \in Keys |-> Nothing]
  /\ evicted = {}
  /\ skipped = NoSkip

-----------------------------------------------------------------------------
(* FixedSizeExpiringCache.  An entry is [key, value, expiry].                *)
keys(entries) == {entries[i].key : i \in DOMAIN entries}
place(entries, k) == CHOOSE i \in DOMAIN entries : entries[i].key = k
find(entries, k) == entries[place(entries, k)]
without(entries, k) == IF k \in keys(entries) THEN RemoveAt(entries, place(entries, k)) ELSE entries

isLive(e) == e.expiry > now

(* get(): an entry that has expired is removed.                              *)
got(k) == IF k \in keys(cache) /\ isLive(find(cache, k)) THEN find(cache, k).value
          ELSE Nothing
afterGet(k) == IF k \in keys(cache) /\ ~isLive(find(cache, k)) THEN without(cache, k)
               ELSE cache

(* set(): a new key at the maximal size evicts the first entry; the entry    *)
(* becomes the last one.                                                     *)
set(entries, k, value) ==
  LET room == IF k \notin keys(entries) /\ Len(entries) >= maxItems THEN Tail(entries)
              ELSE entries
  IN Append(without(room, k), [key |-> k, value |-> value, expiry |-> now + DebounceTime])

-----------------------------------------------------------------------------
(* A mutant: the entry keeps the result of this stage only.                  *)
cachedRunAlone(entries, k, s, cached, threw) ==
  IF threw /\ ~cacheErrors THEN entries
  ELSE set(entries, k, [Nothing EXCEPT ![s] = [at |-> now, threw |-> threw]])

(* cacheSuccess and cacheError: the entry becomes what the call had got,     *)
(* with the result of this stage.                                            *)
cachedRun(entries, k, s, cached, threw) ==
  IF threw /\ ~cacheErrors THEN entries
  ELSE set(entries, k, [cached EXCEPT ![s] = [at |-> now, threw |-> threw]])

ended(k, s, threw) == last' = [last EXCEPT ![k][s] = [at |-> now, threw |-> threw]]
tracked(k, s) ==
  evicted' = (evicted \ {<<k, s>>}) \union (((keys(cache) \ {k}) \ keys(cache')) \X Stages)

cachedStage(k, s) == got(k)[s]

(* maybeSkipAndCache: a result of the stage is in the entry.                 *)
Skip(k, s) ==
  /\ cachedStage(k, s) # None
  /\ skipped' = <<k, s, cachedStage(k, s)>>
  /\ UNCHANGED <<now, options, cache, running, last, evicted>>

(* The wrapped hook is synchronous: it runs to its end.                      *)
RunSync(k, s) ==
  /\ ~async
  /\ cachedStage(k, s) = None
  /\ \E threw \in BOOLEAN :
       /\ cache' = cachedRun(afterGet(k), k, s, got(k), threw)
       /\ ended(k, s, threw)
  /\ tracked(k, s)
  /\ skipped' = NoSkip
  /\ UNCHANGED <<now, options, running>>

(* The wrapped hook returns a promise; the continuation keeps what was got.  *)
RunAsync(k, s) ==
  /\ async
  /\ cachedStage(k, s) = None
  /\ Len(running) < MaxCalls
  /\ running' = Append(running, [key |-> k, stage |-> s, got |-> got(k)])
  /\ cache' = afterGet(k)
  /\ skipped' = NoSkip
  /\ UNCHANGED <<now, options, last, evicted>>

Settles ==
  /\ \E i \in DOMAIN running, threw \in BOOLEAN :
       LET call == running[i]
       IN /\ running' = RemoveAt(running, i)
          /\ cache' = cachedRun(cache, call.key, call.stage, call.got, threw)
  /\ skipped' = NoSkip
  /\ UNCHANGED <<now, options, last, evicted>>

Tick ==
  /\ now < MaxTime /\ now' = now + 1
  /\ skipped' = NoSkip
  /\ UNCHANGED <<options, cache, running, last, evicted>>

Next == \/ \E k \in Keys, s \in Stages : Skip(k, s) \/ RunSync(k, s) \/ RunAsync(k, s)
        \/ Settles \/ Tick

-----------------------------------------------------------------------------
Outcome == [at : -1..MaxTime, threw : BOOLEAN]

(* The variables have their types, and the cache keeps to its size with one  *)
(* entry for a key.                                                          *)
TypeOK ==
  /\ now \in 0..MaxTime
  /\ async \in BOOLEAN /\ cacheErrors \in BOOLEAN
  /\ maxItems \in 1..Cardinality(Keys)
  /\ cache \in Seq([key : Keys, value : [Stages -> Outcome], expiry : Nat])
  /\ Len(cache) <= maxItems /\ Cardinality(keys(cache)) = Len(cache)
  /\ running \in Seq([key : Keys, stage : Stages, got : [Stages -> Outcome]])
  /\ last \in [Keys -> [Stages -> Outcome]]
  /\ evicted \subseteq Keys \X Stages

(* With a synchronous hook a skipped stage repeats how the last run of that  *)
(* stage for that key ended: never an older run, never another stage, never  *)
(* a run before one that threw, and a throw only when errors are cached.     *)
SkipRepeatsLastRun ==
  ~async /\ skipped # NoSkip =>
    /\ skipped[3] = last[skipped[1]][skipped[2]]
    /\ skipped[3].threw => cacheErrors

(* With a synchronous hook a stage that succeeded does not run again for the *)
(* same key within the debounce time, unless the key was evicted meanwhile.  *)
OncePerPeriod ==
  [][~async => \A k \in Keys, s \in Stages :
       LET run == last[k][s]
       IN last'[k][s] # run /\ run # None /\ ~run.threw /\ <<k, s>> \notin evicted
            => now >= run.at + DebounceTime]_vars

(* Both, with the types: what a stage that is skipped repeats, and when a    *)
(* stage runs again (debounce-hook.ts:155-224).                              *)
StagesDebounced == [](TypeOK /\ SkipRepeatsLastRun) /\ OncePerPeriod
=============================================================================
