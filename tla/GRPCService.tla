----------------------------- MODULE GRPCService -----------------------------
(* The remote ("rpc") resolver of the flagd provider:                        *)
(* libs/providers/flagd/src/lib/service/grpc/grpc-service.ts under           *)
(* FlagdProvider.  Resolutions are unary calls; their STATIC answers are     *)
(* cached until a configuration_change on the stream names their flag, or    *)
(* the stream is lost.  External: the flagd server with its flags.           *)
EXTENDS GrpcStream, FiniteSets

CONSTANTS
  Keys,           \* flag keys
  Calls,          \* resolutions that may be in flight at the same time
  CacheEnabled,   \* config.cache === 'lru'
  MaxCacheSize,   \* config.maxCacheSize
  MaxVersion,     \* bound: changes of one flag at the server
  NoEntry         \* the value of an absent cache entry

ASSUME KeysFinite == IsFiniteSet(Keys)
ASSUME CacheEnabledBoolean == CacheEnabled \in BOOLEAN
ASSUME MaxCacheSizePositive == MaxCacheSize \in Nat \ {0}
ASSUME MaxVersionNat == MaxVersion \in Nat

VARIABLES
  cache,          \* _cache
  rpc,            \* resolutions between their call and their answer
  flag            \* external: version of each flag at the server

vars == <<providerVars, connectionVars, cache, rpc, flag>>

(* covered: the answer was computed while the server notified this client of *)
(* changes, and no change of the flag was delivered since (a history field). *)
Entry == [version: 0..MaxVersion, covered: BOOLEAN]
Idle == [phase |-> "idle"]
Rpc == [phase: {"sent"}, key: Keys]
         \union [phase: {"answered"}, key: Keys, version: 0..MaxVersion, covered: BOOLEAN]

(* The set of flags a configuration_change names; {} stands for the          *)
(* provider_ready message that opens a stream.                               *)
Message == SUBSET Keys
providerReady == {}

TypeOK ==
  /\ ConnectionTypeOK
  /\ inbox \in Seq(Message)
  /\ cache \in [Keys -> Entry \union {NoEntry}]
  /\ rpc \in [Calls -> Rpc \union {Idle}]
  /\ flag \in [Keys -> 0..MaxVersion]

EmptyCache == [k \in Keys |-> NoEntry]

Init ==
  /\ ConnectionInit
  /\ cache = EmptyCache
  /\ rpc = [c \in Calls |-> Idle]
  /\ flag = [k \in Keys |-> 0]

-----------------------------------------------------------------------------
(* The cache                                                                 *)

(* "the cache is active if the config enabled it, AND the gRPC stream is     *)
(* live": what the code looks at is the channel.                             *)
cacheActive == CacheEnabled /\ channel = "READY"

Cached == {k \in Keys : cache[k] # NoEntry}

(* In-flight answers that an eviction of their flag has overtaken.           *)
Uncovered(K) ==
  [c \in Calls |-> IF rpc[c].phase = "answered" /\ rpc[c].key \in K
                     THEN [phase |-> "answered", key |-> rpc[c].key,
                           version |-> rpc[c].version, covered |-> FALSE]
                     ELSE rpc[c]]

evict(K) ==
  /\ cache' = [k \in Keys |-> IF k \in K THEN NoEntry ELSE cache[k]]
  /\ rpc' = Uncovered(K)

(* Mutant: an outage leaves the cache as it is.                              *)
clearCacheSkipped ==
  /\ rpc' = Uncovered(Keys)
  /\ UNCHANGED cache

clearCache == evict(Keys)

(* LRUCache.set at its maximum size drops another entry first.               *)
cacheSet(k, entry) ==
  IF k \in Cached \/ Cardinality(Cached) < MaxCacheSize
    THEN cache' = [cache EXCEPT ![k] = entry]
    ELSE \E victim \in Cached : cache' = [cache EXCEPT ![k] = entry, ![victim] = NoEntry]

-----------------------------------------------------------------------------
(* The connection, with what each step does to the cache                     *)

Initialize == Connect /\ UNCHANGED <<cache, rpc, flag>>

ChannelReady(a) == WaitReady(a) /\ UNCHANGED <<cache, rpc, flag>>

ChannelNotReady(a) == WaitFails(a) /\ clearCache /\ UNCHANGED flag

StreamFails ==
  /\ \E fatalCode \in BOOLEAN :
       /\ StreamError(fatalCode)
       /\ IF isFatal(fatalCode) THEN UNCHANGED <<cache, rpc>> ELSE clearCache
  /\ UNCHANGED flag

(* The 'data' handler of the stream, provider_ready.                         *)
ProviderReady ==
  /\ MessageArrives
  /\ Head(inbox) = providerReady
  /\ initialized' = TRUE
  /\ \/ /\ stream.attempt = "first"
        /\ Settle("resolved")
        /\ UNCHANGED <<isErrorState, errorTimer, graceTimeouts, status>>
     \/ stream.attempt = "retry" /\ handleReconnect /\ UNCHANGED init
  /\ UNCHANGED <<cache, rpc, flag>>

(* The 'data' handler of the stream, configuration_change.                   *)
handleFlagsChanged ==
  /\ MessageArrives
  /\ Head(inbox) # providerReady
  /\ evict(Head(inbox))
  /\ UNCHANGED <<init, isErrorState, errorTimer, graceTimeouts, status, initialized, flag>>

Retry(d) == RetryTimer(d) /\ UNCHANGED <<cache, rpc, flag>>

(* The provider's own steps.                                                 *)
GraceTimer ==
  /\ graceElapsed
  /\ IF isErrorState THEN clearCache ELSE UNCHANGED <<cache, rpc>>
  /\ UNCHANGED <<connectionVars, flag>>

InitializeContinues == initializeContinues /\ UNCHANGED <<connectionVars, cache, rpc, flag>>

OnClose == Close /\ UNCHANGED <<cache, rpc, flag>>

-----------------------------------------------------------------------------
(* Resolutions                                                               *)

(* resolve() that finds nothing usable in the cache; the SDK calls it unless *)
(* the provider is NOT_READY, FATAL or closed.                               *)
Resolve(c, k) ==
  /\ status \notin {"NOT_READY", "FATAL"} /\ ~closed
  /\ rpc[c] = Idle
  /\ ~(cacheActive /\ k \in Cached)
  /\ rpc' = [rpc EXCEPT ![c] = [phase |-> "sent", key |-> k]]
  /\ UNCHANGED <<providerVars, connectionVars, cache, flag>>

(* resolve() after its await.                                                *)
ResolveReturns(c) ==
  /\ rpc[c].phase = "answered"
  /\ \E reason \in {"STATIC", "TARGETING_MATCH"} :
       IF cacheActive /\ reason = "STATIC"
         THEN cacheSet(rpc[c].key, [version |-> rpc[c].version, covered |-> rpc[c].covered])
         ELSE UNCHANGED cache
  /\ rpc' = [rpc EXCEPT ![c] = Idle]
  /\ UNCHANGED <<providerVars, connectionVars, flag>>

(* The call fails: onRejected throws.                                        *)
ResolveFails(c) ==
  /\ rpc[c].phase = "sent"
  /\ rpc' = [rpc EXCEPT ![c] = Idle]
  /\ UNCHANGED <<providerVars, connectionVars, cache, flag>>

-----------------------------------------------------------------------------
(* The flagd server                                                          *)

Accept == ServerAccepts(providerReady) /\ UNCHANGED <<cache, rpc, flag>>

ConnectionStep == Environment /\ UNCHANGED <<cache, rpc, flag>>

(* flagd reloads its sources: some flags change, subscribers are notified.   *)
FlagsChange ==
  /\ Len(inbox) < MaxInbox
  /\ \E K \in SUBSET Keys \ {{}} :
       /\ \A k \in K : flag[k] < MaxVersion
       /\ flag' = [k \in Keys |-> IF k \in K THEN flag[k] + 1 ELSE flag[k]]
       /\ inbox' = IF server = "notifying" THEN Append(inbox, K) ELSE inbox
  /\ UNCHANGED <<providerVars, initialized, errorThrottled, waits, stream, retryTimers, gaveUp,
                 channel, server, faults, cache, rpc>>

(* The server evaluates the flag of a call.                                  *)
ServerAnswers(c) ==
  /\ rpc[c].phase = "sent"
  /\ channel = "READY"
  /\ rpc' = [rpc EXCEPT ![c] = [phase |-> "answered", key |-> rpc[c].key,
                                version |-> flag[rpc[c].key], covered |-> server = "notifying"]]
  /\ UNCHANGED <<providerVars, connectionVars, cache, flag>>

-----------------------------------------------------------------------------
Next ==
  \/ Initialize
  \/ \E a \in AttemptKinds : ChannelReady(a) \/ ChannelNotReady(a)
  \/ StreamFails \/ ProviderReady \/ handleFlagsChanged
  \/ \E d \in Delays : Retry(d)
  \/ GraceTimer \/ InitializeContinues \/ OnClose
  \/ \E c \in Calls : ResolveReturns(c) \/ ResolveFails(c) \/ ServerAnswers(c)
  \/ \E c \in Calls, k \in Keys : Resolve(c, k)
  \/ Accept \/ ConnectionStep \/ FlagsChange

Spec == Init /\ [][Next]_vars

(* Armed timers run, promise continuations run, the channel comes back, an   *)
(* attempt on it is answered, a broken stream reports its error and what is  *)
(* in the inbox is delivered; faults are bounded by MaxFaults.               *)
Fairness ==
  /\ WF_vars(GraceTimer)
  /\ WF_vars(InitializeContinues)
  /\ \A d \in Delays : WF_vars(Retry(d))
  /\ \A a \in AttemptKinds : WF_vars(ChannelReady(a) \/ ChannelNotReady(a))
  /\ WF_vars(StreamFails)
  /\ WF_vars(ProviderReady \/ handleFlagsChanged)
  /\ WF_vars(Accept)
  /\ WF_vars(ChannelUp /\ UNCHANGED <<cache, rpc, flag>>)

FairSpec == Spec /\ Fairness

-----------------------------------------------------------------------------
(* Properties                                                                *)

(* A provider that was closed with nothing pending stays quiet: no attempt,  *)
(* no event, no timer afterwards (grpc-service.ts:140-143).                  *)
QuietAfterClose == [][QuietStep]_vars

(* A cache entry whose answer crossed neither an eviction of its flag nor a  *)
(* period without notifications is current, or the message that will evict   *)
(* it is on its way.  The entries this leaves out are those of               *)
(* grpc-service.ts:300-329: the answer of a call is cached after the await   *)
(* whatever was evicted meanwhile.                                           *)
CoveredEntriesCurrent ==
  server = "notifying" =>
    \A k \in Cached : cache[k].covered =>
      \/ cache[k].version = flag[k]
      \/ \E i \in 1..Len(inbox) : k \in inbox[i]

(* The cache never holds more than its configured maximum.                   *)
CacheBounded == Cardinality(Cached) <= MaxCacheSize
=============================================================================
