------------------------- MODULE GRPCService_proofs --------------------------
(* The theorems about the remote resolver.  Each step of GRPCService is a    *)
(* step of its connection (ConnectionNext), so the connection's part of the  *)
(* invariant comes from GrpcStream_proofs; the resolver's own parts are the  *)
(* types of its cache, calls and server, and how current cached answers are. *)
EXTENDS GRPCService, GrpcStream_proofs, FiniteSetTheorems, SequenceTheorems

ResolverTypeOK ==
  /\ inbox \in Seq(Message)
  /\ cache \in [Keys -> Entry \union {NoEntry}]
  /\ rpc \in [Calls -> Rpc \union {Idle}]
  /\ flag \in [Keys -> 0..MaxVersion]

Answered == {c \in Calls : rpc[c].phase = "answered"}

NoneCovered ==
  /\ \A k \in Cached : ~cache[k].covered
  /\ \A c \in Answered : ~rpc[c].covered

Notified(k) == \E i \in 1..Len(inbox) : k \in inbox[i]

(* Every covered answer, cached or on its way, is current or about to be     *)
(* evicted.                                                                  *)
AnswersCurrent ==
  /\ \A k \in Cached : cache[k].covered => cache[k].version = flag[k] \/ Notified(k)
  /\ \A c \in Answered :
       rpc[c].covered => rpc[c].version = flag[rpc[c].key] \/ Notified(rpc[c].key)

(* CoveredEntriesCurrent is not inductive: an answer on its way becomes an   *)
(* entry, and an entry of an earlier stream must not survive into the next.  *)
CoverageInv ==
  /\ server # "none" => stream.state = "open"
  /\ server = "opening" => NoneCovered
  /\ stream.state # "open" /\ ~closed /\ gaveUp = "no" => NoneCovered
  /\ server = "notifying" => AnswersCurrent

IInv == ConnectionInv /\ ResolverTypeOK /\ CoverageInv /\ CacheBounded

-----------------------------------------------------------------------------
(* What is told apart by its phase.                                          *)
LEMMA RpcPhases ==
  ASSUME NEW r \in Rpc \union {Idle}
  PROVE  /\ r.phase \in {"idle", "sent", "answered"}
         /\ r.phase = "sent" => r.key \in Keys
         /\ r.phase = "answered" =>
              \E k \in Keys, v \in 0..MaxVersion, b \in BOOLEAN :
                r = [phase |-> "answered", key |-> k, version |-> v, covered |-> b]
BY DEF Rpc, Idle

(* An eviction takes the entries of its keys and uncovers the answers on     *)
(* their way to them; it leaves everything else as it was.                   *)
LEMMA EvictEffect ==
  ASSUME ResolverTypeOK, NEW K, evict(K)
  PROVE  /\ (cache \in [Keys -> Entry \union {NoEntry}])'
         /\ (rpc \in [Calls -> Rpc \union {Idle}])'
         /\ Cached' = Cached \ K
         /\ \A k \in Cached' : cache'[k] = cache[k]
         /\ Answered' = Answered
         /\ \A c \in Answered : /\ rpc'[c].key = rpc[c].key /\ rpc'[c].version = rpc[c].version
                                /\ rpc'[c].covered => rpc[c].covered /\ rpc[c].key \notin K
<1>1. cache' \in [Keys -> Entry \union {NoEntry}]
  BY DEF evict, ResolverTypeOK
<1>2. Cached' = Cached \ K /\ \A k \in Cached' : cache'[k] = cache[k]
  BY DEF evict, Cached, ResolverTypeOK
<1>3. ASSUME NEW c \in Calls
      PROVE  /\ rpc'[c] \in Rpc \union {Idle}
             /\ rpc'[c].phase = rpc[c].phase
             /\ rpc[c].phase = "answered" =>
                  /\ rpc'[c].key = rpc[c].key /\ rpc'[c].version = rpc[c].version
                  /\ rpc'[c].covered => rpc[c].covered /\ rpc[c].key \notin K
  <2>1. CASE rpc[c].phase = "answered" /\ rpc[c].key \in K
    <3>1. PICK k \in Keys, v \in 0..MaxVersion, b \in BOOLEAN :
            rpc[c] = [phase |-> "answered", key |-> k, version |-> v, covered |-> b]
      BY <2>1, RpcPhases DEF ResolverTypeOK
    <3>2. rpc[c].key = k /\ rpc[c].version = v /\ rpc[c].covered = b
      BY <3>1
    <3>3. rpc'[c] = [phase |-> "answered", key |-> rpc[c].key, version |-> rpc[c].version,
                     covered |-> FALSE]
      BY <2>1 DEF evict, Uncovered
    <3>4. rpc'[c] \in Rpc
      BY <3>2, <3>3 DEF Rpc
    <3> QED BY <2>1, <3>2, <3>3, <3>4
  <2>2. CASE ~(rpc[c].phase = "answered" /\ rpc[c].key \in K)
    <3>1. rpc'[c] = rpc[c]
      BY <2>2 DEF evict, Uncovered
    <3> QED BY <2>2, <3>1 DEF ResolverTypeOK
  <2> QED BY <2>1, <2>2
<1>4. rpc' \in [Calls -> Rpc \union {Idle}]
  BY <1>3 DEF evict, Uncovered
<1>5. Answered' = Answered
  BY <1>3 DEF Answered
<1> QED BY <1>1, <1>2, <1>3, <1>4, <1>5 DEF Answered

LEMMA ClearCacheEffect ==
  ASSUME ResolverTypeOK, clearCache
  PROVE  NoneCovered'
<1>1. evict(Keys) BY DEF clearCache
<1>2. Cached' = {} BY <1>1, EvictEffect DEF Cached
<1>3. \A c \in Answered : rpc[c].key \in Keys BY RpcPhases DEF Answered, ResolverTypeOK
<1> QED BY <1>1, <1>2, <1>3, EvictEffect DEF NoneCovered

-----------------------------------------------------------------------------
LEMMA InitIInv == Init => IInv
<1> SUFFICES ASSUME Init PROVE IInv OBVIOUS
<1>1. ConnectionInv
  BY InitConnectionInv DEF Init
<1>2. ResolverTypeOK
  BY MaxVersionNat DEF Init, ResolverTypeOK, ConnectionInit, EmptyCache, Idle
<1>3. Cached = {} /\ Answered = {}
  BY DEF Init, Cached, EmptyCache, Answered, Idle
<1>4. CoverageInv
  BY <1>3 DEF Init, ConnectionInit, CoverageInv, NoneCovered
<1>5. CacheBounded
  BY <1>3, FS_EmptySet, MaxCacheSizePositive DEF CacheBounded
<1> QED BY <1>1, <1>2, <1>4, <1>5 DEF IInv

(* Each step of the resolver, as the step of the connection it is.           *)
LEMMA StepOfConnection ==
  ASSUME IInv, [Next]_vars
  PROVE  ConnectionNext
<1>1. CASE Initialize BY <1>1 DEF Initialize, ConnectionNext
<1>2. CASE \E a \in AttemptKinds : ChannelReady(a) \/ ChannelNotReady(a)
  BY <1>2 DEF ChannelReady, ChannelNotReady, ConnectionNext
<1>3. CASE StreamFails BY <1>3 DEF StreamFails, ConnectionNext
<1>4. CASE ProviderReady
  <2>1. MessageStep BY <1>4 DEF ProviderReady, MessageStep
  <2> QED BY <2>1 DEF ConnectionNext
<1>5. CASE handleFlagsChanged
  <2>1. initialized \in BOOLEAN BY DEF IInv, ConnectionInv, ConnectionTypeOK
  <2>2. MessageStep BY <1>5, <2>1 DEF handleFlagsChanged, MessageStep
  <2> QED BY <2>2 DEF ConnectionNext
<1>6. CASE \E d \in Delays : Retry(d) BY <1>6 DEF Retry, ConnectionNext
<1>7. CASE GraceTimer BY <1>7 DEF GraceTimer, GraceStep, ConnectionNext
<1>8. CASE InitializeContinues
  <2>1. initialized \in BOOLEAN BY DEF IInv, ConnectionInv, ConnectionTypeOK
  <2>2. ContinueStep BY <1>8, <2>1 DEF InitializeContinues, ContinueStep, connectionVars
  <2> QED BY <2>2 DEF ConnectionNext
<1>9. CASE OnClose BY <1>9 DEF OnClose, ConnectionNext
<1>10. CASE \/ \E c \in Calls : ResolveReturns(c) \/ ResolveFails(c) \/ ServerAnswers(c)
            \/ \E c \in Calls, k \in Keys : Resolve(c, k)
            \/ FlagsChange \/ UNCHANGED vars
  <2>1. SendStep
    BY <1>10 DEF ResolveReturns, ResolveFails, ServerAnswers, Resolve, FlagsChange, vars,
      SendStep, connectionVars
  <2> QED BY <2>1 DEF ConnectionNext
<1>11. CASE Accept BY <1>11 DEF Accept, ConnectionNext
<1>12. CASE ConnectionStep BY <1>12 DEF ConnectionStep, ConnectionNext
<1> QED
  BY <1>1, <1>2, <1>3, <1>4, <1>5, <1>6, <1>7, <1>8, <1>9, <1>10, <1>11, <1>12 DEF Next

-----------------------------------------------------------------------------
(* Type correctness                                                          *)

(* What the steps of a connection do to the inbox.                           *)
LEMMA InboxType ==
  ASSUME ResolverTypeOK, Next
  PROVE  inbox' \in Seq(Message)
<1>1. CASE inbox' = <<>> \/ inbox' = inbox
  <2>1. <<>> \in Seq(Message) OBVIOUS
  <2>2. inbox \in Seq(Message) BY DEF ResolverTypeOK
  <2> QED BY <1>1, <2>1, <2>2
<1>2. CASE MessageArrives
  BY <1>2 DEF MessageArrives, ResolverTypeOK
<1>3. CASE Accept
  BY <1>3 DEF Accept, ServerAccepts, providerReady, Message
<1>4. CASE FlagsChange
  BY <1>4 DEF FlagsChange, ResolverTypeOK, Message
<1>5. CASE Initialize \/ (\E d \in Delays : Retry(d)) \/ OnClose
  BY <1>1, <1>5 DEF Initialize, Connect, Retry, RetryTimer, OnClose, Close, listen, closeStreamIfDefined
<1>6. CASE \E a \in AttemptKinds : ChannelReady(a) \/ ChannelNotReady(a)
  BY <1>1, <1>6 DEF ChannelReady, WaitReady, ChannelNotReady, WaitFails
<1>7. CASE StreamFails
  BY <1>1, <1>7 DEF StreamFails, StreamError
<1>8. CASE GraceTimer \/ InitializeContinues \/ ConnectionStep
  BY <1>1, <1>8 DEF GraceTimer, InitializeContinues, ConnectionStep, Environment, StreamBreaks,
    StreamEnds, ChannelDown, ChannelUp, connectionVars
<1>9. CASE \/ \E c \in Calls : ResolveReturns(c) \/ ResolveFails(c) \/ ServerAnswers(c)
           \/ \E c \in Calls, k \in Keys : Resolve(c, k)
  BY <1>1, <1>9 DEF ResolveReturns, ResolveFails, ServerAnswers, Resolve, connectionVars
<1> QED
  BY <1>2, <1>3, <1>4, <1>5, <1>6, <1>7, <1>8, <1>9 DEF Next, ProviderReady, handleFlagsChanged

LEMMA FlagType ==
  ASSUME ResolverTypeOK, Next
  PROVE  flag' \in [Keys -> 0..MaxVersion]
<1>1. CASE FlagsChange
  BY <1>1, MaxVersionNat DEF FlagsChange, ResolverTypeOK
<1>2. CASE UNCHANGED flag
  BY <1>2 DEF ResolverTypeOK
<1> QED
  BY <1>1, <1>2 DEF Next, Initialize, ChannelReady, ChannelNotReady, StreamFails, ProviderReady,
    handleFlagsChanged, Retry, GraceTimer, InitializeContinues, OnClose, ResolveReturns,
    ResolveFails, ServerAnswers, Resolve, Accept, ConnectionStep

(* The steps that evict, and those that leave the cache and the calls alone. *)
Evicts == \E K : evict(K)
LeavesAnswers == UNCHANGED <<cache, rpc>>

LEMMA StepOnAnswers ==
  ASSUME Next
  PROVE  \/ Evicts \/ LeavesAnswers
         \/ \E c \in Calls : ResolveReturns(c) \/ ResolveFails(c) \/ ServerAnswers(c)
         \/ \E c \in Calls, k \in Keys : Resolve(c, k)
BY DEF Next, Evicts, LeavesAnswers, clearCache, Initialize, ChannelReady, ChannelNotReady, StreamFails,
  ProviderReady, handleFlagsChanged, Retry, GraceTimer, InitializeContinues, OnClose, Accept,
  ConnectionStep, FlagsChange

LEMMA CallTypes ==
  ASSUME ResolverTypeOK, NEW c \in Calls
  PROVE  /\ ResolveReturns(c) \/ ResolveFails(c) => rpc' \in [Calls -> Rpc \union {Idle}]
         /\ ServerAnswers(c) => rpc' \in [Calls -> Rpc \union {Idle}]
         /\ \A k \in Keys : Resolve(c, k) => rpc' \in [Calls -> Rpc \union {Idle}]
<1>1. ResolveReturns(c) \/ ResolveFails(c) => rpc' \in [Calls -> Rpc \union {Idle}]
  BY DEF ResolveReturns, ResolveFails, ResolverTypeOK
<1>2. ASSUME ServerAnswers(c) PROVE rpc' \in [Calls -> Rpc \union {Idle}]
  <2>1. rpc[c].key \in Keys
    BY <1>2, RpcPhases DEF ServerAnswers, ResolverTypeOK
  <2>2. flag[rpc[c].key] \in 0..MaxVersion
    BY <2>1 DEF ResolverTypeOK
  <2>3. [phase |-> "answered", key |-> rpc[c].key, version |-> flag[rpc[c].key],
         covered |-> server = "notifying"] \in Rpc
    BY <2>1, <2>2 DEF Rpc
  <2> QED BY <1>2, <2>3 DEF ServerAnswers, ResolverTypeOK
<1>3. ASSUME NEW k \in Keys, Resolve(c, k) PROVE rpc' \in [Calls -> Rpc \union {Idle}]
  <2>1. [phase |-> "sent", key |-> k] \in Rpc
    BY DEF Rpc
  <2> QED BY <1>3, <2>1 DEF Resolve, ResolverTypeOK
<1> QED BY <1>1, <1>2, <1>3

(* The entry that the answer of a call becomes.                              *)
LEMMA AnswerIsEntry ==
  ASSUME ResolverTypeOK, NEW c \in Calls, rpc[c].phase = "answered"
  PROVE  /\ rpc[c].key \in Keys
         /\ [version |-> rpc[c].version, covered |-> rpc[c].covered] \in Entry
BY RpcPhases DEF ResolverTypeOK, Entry

LEMMA CacheSetType ==
  ASSUME ResolverTypeOK, NEW k \in Keys, NEW e \in Entry, cacheSet(k, e)
  PROVE  cache' \in [Keys -> Entry \union {NoEntry}]
<1>1. CASE cache' = [cache EXCEPT ![k] = e]
  BY <1>1 DEF ResolverTypeOK
<1>2. CASE \E victim \in Cached : cache' = [cache EXCEPT ![k] = e, ![victim] = NoEntry]
  BY <1>2 DEF ResolverTypeOK
<1> QED BY <1>1, <1>2 DEF cacheSet

LEMMA StepType ==
  ASSUME ResolverTypeOK, Next
  PROVE  ResolverTypeOK'
<1>1. inbox' \in Seq(Message) /\ flag' \in [Keys -> 0..MaxVersion]
  BY InboxType, FlagType
<1>2. rpc' \in [Calls -> Rpc \union {Idle}]
  BY StepOnAnswers, EvictEffect, CallTypes DEF Evicts, LeavesAnswers, ResolverTypeOK
<1>3. cache' \in [Keys -> Entry \union {NoEntry}]
  <2>1. ASSUME NEW c \in Calls, ResolveReturns(c)
        PROVE  cache' \in [Keys -> Entry \union {NoEntry}]
    <3>1. CASE UNCHANGED cache
      BY <3>1 DEF ResolverTypeOK
    <3>2. CASE cacheSet(rpc[c].key, [version |-> rpc[c].version, covered |-> rpc[c].covered])
      BY <2>1, <3>2, AnswerIsEntry, CacheSetType DEF ResolveReturns
    <3> QED BY <2>1, <3>1, <3>2 DEF ResolveReturns
  <2>2. CASE UNCHANGED cache
    BY <2>2 DEF ResolverTypeOK
  <2> QED
    BY <2>1, <2>2, StepOnAnswers, EvictEffect DEF Evicts, LeavesAnswers, ResolveFails, ServerAnswers,
      Resolve
<1> QED BY <1>1, <1>2, <1>3 DEF ResolverTypeOK

-----------------------------------------------------------------------------
(* How current the answers are                                               *)

LEMMA CacheSetEffect ==
  ASSUME ResolverTypeOK, NEW k \in Keys, NEW e \in Entry, cacheSet(k, e)
  PROVE  \A j \in Cached' : (j = k /\ cache'[j] = e) \/ (j \in Cached /\ cache'[j] = cache[j])
<1>1. CASE cache' = [cache EXCEPT ![k] = e]
  BY <1>1 DEF Cached, ResolverTypeOK
<1>2. CASE \E victim \in Cached : cache' = [cache EXCEPT ![k] = e, ![victim] = NoEntry]
  BY <1>2 DEF Cached, ResolverTypeOK
<1> QED BY <1>1, <1>2 DEF cacheSet

(* What a returning call leaves in the cache was there or is its answer.     *)
LEMMA ResolveReturnsEffect ==
  ASSUME ResolverTypeOK, NEW c \in Calls, ResolveReturns(c)
  PROVE  /\ c \in Answered
         /\ \A j \in Cached' :
              \/ /\ j = rpc[c].key
                 /\ cache'[j].version = rpc[c].version /\ cache'[j].covered = rpc[c].covered
              \/ j \in Cached /\ cache'[j] = cache[j]
         /\ \A d \in Answered' : d \in Answered /\ rpc'[d] = rpc[d]
<1>1. c \in Answered BY DEF ResolveReturns, Answered
<1>2. \A d \in Answered' : d \in Answered /\ rpc'[d] = rpc[d]
  BY DEF ResolveReturns, Answered, ResolverTypeOK, Idle
<1>3. CASE UNCHANGED cache BY <1>1, <1>2, <1>3 DEF Cached
<1>4. CASE cacheSet(rpc[c].key, [version |-> rpc[c].version, covered |-> rpc[c].covered])
  <2>1. rpc[c].key \in Keys /\ [version |-> rpc[c].version, covered |-> rpc[c].covered] \in Entry
    BY <1>1, AnswerIsEntry DEF Answered
  <2> QED BY <1>1, <1>2, <1>4, <2>1, CacheSetEffect
<1> QED BY <1>3, <1>4 DEF ResolveReturns

(* A call that is sent, fails or is answered.                                *)
LEMMA OtherCallsEffect ==
  ASSUME ResolverTypeOK, NEW c \in Calls,
         ResolveFails(c) \/ ServerAnswers(c) \/ \E k \in Keys : Resolve(c, k)
  PROVE  /\ Cached' = Cached /\ UNCHANGED <<cache, inbox, flag, server>>
         /\ \A d \in Answered' : \/ d \in Answered /\ rpc'[d] = rpc[d]
                                 \/ /\ rpc'[d].covered = (server = "notifying")
                                    /\ rpc'[d].version = flag[rpc'[d].key]
<1>1. CASE ResolveFails(c)
  BY <1>1 DEF ResolveFails, Answered, ResolverTypeOK, Idle, Cached, connectionVars
<1>2. CASE \E k \in Keys : Resolve(c, k)
  BY <1>2 DEF Resolve, Answered, ResolverTypeOK, Cached, connectionVars
<1>3. CASE ServerAnswers(c)
  <2>1. \A d \in Calls \ {c} : rpc'[d] = rpc[d]
    BY <1>3 DEF ServerAnswers, ResolverTypeOK
  <2>2. rpc'[c].covered = (server = "notifying") /\ rpc'[c].version = flag[rpc'[c].key]
    BY <1>3 DEF ServerAnswers, ResolverTypeOK
  <2> QED BY <1>3, <2>1, <2>2 DEF ServerAnswers, Answered, Cached, connectionVars
<1> QED BY <1>1, <1>2, <1>3

(* Without notifications no answer becomes covered.                          *)
LEMMA NoneCoveredKept ==
  ASSUME ResolverTypeOK, Next, NoneCovered, server # "notifying"
  PROVE  NoneCovered'
<1>1. CASE Evicts BY <1>1, EvictEffect DEF Evicts, NoneCovered
<1>2. CASE LeavesAnswers BY <1>2 DEF LeavesAnswers, NoneCovered, Cached, Answered
<1>3. ASSUME NEW c \in Calls, ResolveReturns(c) PROVE NoneCovered'
  BY <1>3, ResolveReturnsEffect DEF NoneCovered
<1>4. ASSUME NEW c \in Calls, ResolveFails(c) \/ ServerAnswers(c) \/ \E k \in Keys : Resolve(c, k)
      PROVE  NoneCovered'
  <2>1. \A d \in Answered' : ~rpc'[d].covered
    BY <1>4, OtherCallsEffect DEF NoneCovered
  <2>2. \A k \in Cached' : ~cache'[k].covered
    BY <1>4, OtherCallsEffect DEF NoneCovered
  <2> QED BY <2>1, <2>2 DEF NoneCovered
<1> QED BY <1>1, <1>2, <1>3, <1>4, StepOnAnswers

LEMMA AnswerKeys ==
  ASSUME ResolverTypeOK
  PROVE  \A c \in Answered : rpc[c].key \in Keys
BY RpcPhases DEF Answered, ResolverTypeOK

(* A step that neither changes a flag nor touches the inbox leaves every     *)
(* covered answer as current as it was.                                      *)
LEMMA AnswersCurrentKept ==
  ASSUME ResolverTypeOK, Next, AnswersCurrent, UNCHANGED <<inbox, flag>>
  PROVE  AnswersCurrent'
<1>0. \A k : Notified(k) <=> Notified(k)' BY DEF Notified
<1>1. CASE Evicts BY <1>0, <1>1, EvictEffect DEF Evicts, AnswersCurrent
<1>2. CASE LeavesAnswers
  BY <1>0, <1>2 DEF LeavesAnswers, AnswersCurrent, Cached, Answered
<1>3. ASSUME NEW c \in Calls, ResolveReturns(c) PROVE AnswersCurrent'
  BY <1>0, <1>3, ResolveReturnsEffect DEF AnswersCurrent
<1>4. ASSUME NEW c \in Calls, ResolveFails(c) \/ ServerAnswers(c) \/ \E k \in Keys : Resolve(c, k)
      PROVE  AnswersCurrent'
  <2>1. (\A k \in Cached : cache[k].covered => cache[k].version = flag[k] \/ Notified(k))'
    BY <1>0, <1>4, OtherCallsEffect DEF AnswersCurrent
  <2>2. (\A d \in Answered :
           rpc[d].covered => rpc[d].version = flag[rpc[d].key] \/ Notified(rpc[d].key))'
    BY <1>0, <1>4, OtherCallsEffect DEF AnswersCurrent
  <2> QED BY <2>1, <2>2 DEF AnswersCurrent
<1> QED BY <1>1, <1>2, <1>3, <1>4, StepOnAnswers

(* A delivered message either says nothing of a flag or evicts its answers.  *)
LEMMA DeliveryKeepsCurrent ==
  ASSUME ResolverTypeOK, AnswersCurrent, ProviderReady \/ handleFlagsChanged
  PROVE  AnswersCurrent'
<1> DEFINE K == Head(inbox)
<1>0. MessageArrives /\ UNCHANGED flag
  BY DEF ProviderReady, handleFlagsChanged
<1>1. \A k : k \notin K /\ Notified(k) => Notified(k)'
  <2> SUFFICES ASSUME NEW k, k \notin K, NEW i \in 1..Len(inbox), k \in inbox[i]
               PROVE  Notified(k)'
    BY DEF Notified
  <2>1. inbox \in Seq(Message) /\ inbox # <<>> /\ inbox' = Tail(inbox)
    BY <1>0 DEF ResolverTypeOK, MessageArrives
  <2>2. i # 1
    BY <2>1
  <2>3. i - 1 \in 1..Len(inbox') /\ inbox'[i - 1] = inbox[i]
    BY <2>1, <2>2, HeadTailProperties
  <2> QED BY <2>3 DEF Notified
<1>2. CASE ProviderReady
  <2>1. K = {} /\ UNCHANGED <<cache, rpc>>
    BY <1>2 DEF ProviderReady, providerReady
  <2> QED BY <1>0, <1>1, <2>1 DEF AnswersCurrent, Cached, Answered
<1>3. CASE handleFlagsChanged
  <2>1. evict(K)
    BY <1>3 DEF handleFlagsChanged
  <2> QED BY <1>0, <1>1, <2>1, EvictEffect DEF AnswersCurrent
<1> QED BY <1>2, <1>3

(* A flag that changes is announced to the notified client.                  *)
LEMMA ChangeKeepsCurrent ==
  ASSUME ResolverTypeOK, AnswersCurrent, FlagsChange, server = "notifying"
  PROVE  AnswersCurrent'
<1>1. PICK K \in SUBSET Keys :
        /\ flag' = [k \in Keys |-> IF k \in K THEN flag[k] + 1 ELSE flag[k]]
        /\ inbox' = Append(inbox, K)
  BY DEF FlagsChange
<1>2. \A k : k \in K \/ Notified(k) => Notified(k)'
  <2>1. /\ Len(inbox') = Len(inbox) + 1 /\ Len(inbox) \in Nat
        /\ \A i \in 1..Len(inbox) : inbox'[i] = inbox[i]
        /\ inbox'[Len(inbox) + 1] = K
    BY <1>1, AppendProperties DEF ResolverTypeOK, Message
  <2> QED BY <2>1 DEF Notified
<1>3. \A k \in Keys \ K : flag'[k] = flag[k]
  BY <1>1
<1>4. (\A k \in Cached : cache[k].covered => cache[k].version = flag[k] \/ Notified(k))'
  BY <1>2, <1>3 DEF AnswersCurrent, FlagsChange, Cached
<1>5. (\A d \in Answered :
         rpc[d].covered => rpc[d].version = flag[rpc[d].key] \/ Notified(rpc[d].key))'
  BY <1>2, <1>3, AnswerKeys DEF AnswersCurrent, FlagsChange, Answered
<1> QED BY <1>4, <1>5 DEF AnswersCurrent

(* The steps that leave the connection where it is.                          *)
LEMMA QuietCoverage ==
  ASSUME IInv, Next, UNCHANGED <<server, stream, closed, gaveUp>>,
         server = "notifying" /\ AnswersCurrent => AnswersCurrent'
  PROVE  CoverageInv'
<1>1. NoneCovered /\ server # "notifying" => NoneCovered'
  BY NoneCoveredKept DEF IInv
<1> QED BY <1>1 DEF IInv, CoverageInv

(* A pending wait or retry excludes a live stream and a connection that gave *)
(* up.                                                                       *)
LEMMA AttemptPending ==
  ASSUME IInv,
         \/ \E a \in AttemptKinds : waits[a] > 0
         \/ \E d \in Delays : retryTimers[d] > 0
  PROVE  gaveUp = "no" /\ stream.state # "open"
<1>1. Attempts > 0 /\ Attempts <= 1
  BY DEF IInv, ConnectionInv, ConnectionTypeOK, OneAttempt, Attempts, AttemptKinds, Delays
<1>2. stream.state # "open"
  BY <1>1 DEF IInv, ConnectionInv, ConnectionTypeOK, Attempts, AttemptKinds, Delays
<1> QED BY <1>1, <1>2 DEF IInv, ConnectionInv, StreamInv

LEMMA StepCoverage ==
  ASSUME IInv, Next
  PROVE  CoverageInv'
<1>0. /\ ResolverTypeOK /\ ConnectionTypeOK /\ CoverageInv
      /\ gaveUp # "no" => stream.state # "open"
      /\ closed => channel = "SHUTDOWN" /\ stream.state # "open"
  BY NothingPending DEF IInv, ConnectionInv, StreamInv, CloseInv
<1>1. CASE Initialize
  <2>1. stream.state # "open" /\ ~closed /\ gaveUp = "no"
    BY <1>1, NothingPending DEF Initialize, Connect, IInv, ConnectionInv, PromiseInv, CloseInv
  <2>2. NoneCovered /\ server = "none"
    BY <1>0, <2>1 DEF CoverageInv
  <2>3. NoneCovered' /\ server' = "none"
    BY <1>0, <1>1, <2>2, NoneCoveredKept DEF Initialize, Connect, listen, closeStreamIfDefined
  <2> QED BY <2>3 DEF CoverageInv
<1>2. ASSUME NEW a \in AttemptKinds, ChannelReady(a) PROVE CoverageInv'
  <2>1. ~closed /\ gaveUp = "no" /\ stream.state # "open"
    BY <1>0, <1>2, AttemptPending DEF ChannelReady, WaitReady
  <2>2. NoneCovered /\ server = "none"
    BY <1>0, <2>1 DEF CoverageInv
  <2>3. NoneCovered' /\ server' = "opening" /\ stream'.state = "open"
    BY <1>0, <1>2, <2>2, NoneCoveredKept DEF ChannelReady, WaitReady
  <2> QED BY <2>3 DEF CoverageInv
<1>3. ASSUME NEW a \in AttemptKinds, ChannelNotReady(a) PROVE CoverageInv'
  <2>1. stream.state # "open"
    BY <1>3, AttemptPending DEF ChannelNotReady, WaitFails
  <2>2. server = "none"
    BY <1>0, <2>1 DEF CoverageInv
  <2>3. NoneCovered' /\ server' = "none"
    BY <1>0, <1>3, <2>2, ClearCacheEffect DEF ChannelNotReady, WaitFails
  <2> QED BY <2>3 DEF CoverageInv
<1>4. CASE StreamFails
  <2> SUFFICES ASSUME NEW fatalCode \in BOOLEAN, StreamError(fatalCode),
                      IF isFatal(fatalCode) THEN UNCHANGED <<cache, rpc>> ELSE clearCache
               PROVE  CoverageInv'
    BY <1>4 DEF StreamFails
  <2>1. server' = "none"
    BY DEF StreamError
  <2>2. CASE isFatal(fatalCode)
    <3>1. gaveUp' \in AttemptKinds
      BY <1>0, <2>2 DEF StreamError, attemptFails, ConnectionTypeOK
    <3> QED BY <2>1, <3>1 DEF CoverageInv, AttemptKinds
  <2>3. CASE ~isFatal(fatalCode)
    BY <1>0, <2>1, <2>3, ClearCacheEffect DEF CoverageInv
  <2> QED BY <2>2, <2>3
<1>5. ASSUME NEW d \in Delays, Retry(d) PROVE CoverageInv'
  <2>1. gaveUp = "no" /\ stream.state # "open"
    BY <1>5, AttemptPending DEF Retry, RetryTimer
  <2>2. server = "none" /\ (closed \/ NoneCovered)
    BY <1>0, <2>1 DEF CoverageInv
  <2>3. server' = "none" /\ (closed' \/ NoneCovered')
    BY <1>0, <1>5, <2>2, NoneCoveredKept DEF Retry, RetryTimer, listen, closeStreamIfDefined, providerVars
  <2> QED BY <2>3 DEF CoverageInv
<1>6. CASE OnClose
  BY <1>6 DEF OnClose, Close, onClose, closeStreamIfDefined, CoverageInv
<1>7. CASE Accept
  <2>1. NoneCovered' /\ stream' = stream /\ stream.state = "open" /\ server' = "notifying"
    BY <1>0, <1>7, NoneCoveredKept DEF Accept, ServerAccepts, CoverageInv
  <2> QED BY <2>1 DEF CoverageInv, NoneCovered, AnswersCurrent
<1>8. CASE ConnectionStep
  <2>1. /\ UNCHANGED <<stream, closed, gaveUp, cache, rpc, inbox, flag>>
        /\ server' = server \/ (server # "none" /\ server' \in {"broken", "ended"})
    BY <1>8 DEF ConnectionStep, Environment, StreamBreaks, StreamEnds, ChannelDown, ChannelUp, providerVars
  <2> QED BY <1>0, <2>1 DEF CoverageInv, NoneCovered, AnswersCurrent, Cached, Answered, Notified
<1>9. CASE ProviderReady \/ handleFlagsChanged
  <2>1. UNCHANGED <<server, stream, closed, gaveUp>>
    BY <1>9 DEF ProviderReady, handleFlagsChanged, MessageArrives
  <2> QED BY <1>0, <1>9, <2>1, QuietCoverage, DeliveryKeepsCurrent
<1>10. CASE FlagsChange
  <2>1. UNCHANGED <<server, stream, closed, gaveUp>>
    BY <1>10 DEF FlagsChange, providerVars
  <2> QED BY <1>0, <1>10, <2>1, QuietCoverage, ChangeKeepsCurrent
<1>11. CASE \/ GraceTimer \/ InitializeContinues
            \/ \E c \in Calls : ResolveReturns(c) \/ ResolveFails(c) \/ ServerAnswers(c)
            \/ \E c \in Calls, k \in Keys : Resolve(c, k)
  <2>1. UNCHANGED <<server, stream, closed, gaveUp, inbox, flag>>
    BY <1>11 DEF GraceTimer, graceElapsed, InitializeContinues, initializeContinues, ResolveReturns,
      ResolveFails, ServerAnswers, Resolve, providerVars, connectionVars
  <2> QED BY <1>0, <2>1, QuietCoverage, AnswersCurrentKept
<1> QED
  BY <1>1, <1>2, <1>3, <1>4, <1>5, <1>6, <1>7, <1>8, <1>9, <1>10, <1>11 DEF Next

-----------------------------------------------------------------------------
(* The size of the cache                                                     *)

LEMMA CachedFinite == IsFiniteSet(Cached) /\ IsFiniteSet(Cached')
BY KeysFinite, FS_Subset DEF Cached

LEMMA CacheSetBounded ==
  ASSUME ResolverTypeOK, CacheBounded, NEW k \in Keys, NEW e \in Entry, cacheSet(k, e)
  PROVE  CacheBounded'
<1>1. Cardinality(Cached) \in Nat /\ Cardinality(Cached') \in Nat
  BY CachedFinite, FS_CardinalityType
<1>2. CASE k \in Cached
  <2>1. Cached' \subseteq Cached
    BY <1>2, CacheSetEffect
  <2> QED BY <1>1, <2>1, CachedFinite, FS_Subset, MaxCacheSizePositive DEF CacheBounded
<1>3. CASE k \notin Cached /\ Cardinality(Cached) < MaxCacheSize
  <2>1. Cached' \subseteq Cached \union {k}
    BY CacheSetEffect
  <2>2. /\ IsFiniteSet(Cached \union {k})
        /\ Cardinality(Cached \union {k}) = Cardinality(Cached) + 1
    BY <1>3, CachedFinite, FS_AddElement
  <2>3. Cardinality(Cached') <= Cardinality(Cached) + 1
    BY <2>1, <2>2, FS_Subset
  <2> QED BY <1>1, <1>3, <2>3, MaxCacheSizePositive DEF CacheBounded
<1>4. CASE k \notin Cached /\ ~(Cardinality(Cached) < MaxCacheSize)
  <2>1. PICK victim \in Cached : cache' = [cache EXCEPT ![k] = e, ![victim] = NoEntry]
    BY <1>4 DEF cacheSet
  <2>2. Cached' \subseteq (Cached \ {victim}) \union {k}
    BY <2>1 DEF Cached, ResolverTypeOK
  <2>3. /\ IsFiniteSet(Cached \ {victim})
        /\ Cardinality(Cached \ {victim}) = Cardinality(Cached) - 1
    BY CachedFinite, FS_RemoveElement
  <2>4. /\ IsFiniteSet((Cached \ {victim}) \union {k})
        /\ Cardinality((Cached \ {victim}) \union {k}) = Cardinality(Cached \ {victim}) + 1
    BY <1>4, <2>3, FS_AddElement
  <2>5. Cardinality(Cached') <= Cardinality((Cached \ {victim}) \union {k})
    BY <2>2, <2>4, FS_Subset
  <2> QED BY <1>1, <2>3, <2>4, <2>5, MaxCacheSizePositive DEF CacheBounded
<1> QED BY <1>2, <1>3, <1>4

LEMMA StepBounded ==
  ASSUME ResolverTypeOK, CacheBounded, Next
  PROVE  CacheBounded'
<1>1. CASE Cached' \subseteq Cached
  <2>1. Cardinality(Cached) \in Nat /\ Cardinality(Cached') <= Cardinality(Cached)
    BY <1>1, CachedFinite, FS_Subset, FS_CardinalityType
  <2>2. Cardinality(Cached') \in Nat
    BY CachedFinite, FS_CardinalityType
  <2> QED BY <2>1, <2>2, MaxCacheSizePositive DEF CacheBounded
<1>2. CASE Evicts BY <1>1, <1>2, EvictEffect DEF Evicts
<1>3. CASE LeavesAnswers BY <1>1, <1>3 DEF LeavesAnswers, Cached
<1>4. ASSUME NEW c \in Calls, ResolveReturns(c) PROVE CacheBounded'
  <2>1. CASE UNCHANGED cache BY <1>1, <2>1 DEF Cached
  <2>2. CASE cacheSet(rpc[c].key, [version |-> rpc[c].version, covered |-> rpc[c].covered])
    BY <1>4, <2>2, AnswerIsEntry, CacheSetBounded DEF ResolveReturns
  <2> QED BY <1>4, <2>1, <2>2 DEF ResolveReturns
<1>5. ASSUME NEW c \in Calls, ResolveFails(c) \/ ServerAnswers(c) \/ \E k \in Keys : Resolve(c, k)
      PROVE  CacheBounded'
  BY <1>1, <1>5, OtherCallsEffect
<1> QED BY <1>2, <1>3, <1>4, <1>5, StepOnAnswers

-----------------------------------------------------------------------------
(* Theorems                                                                  *)

LEMMA Inductive == IInv /\ [Next]_vars => IInv'
<1> SUFFICES ASSUME IInv, [Next]_vars PROVE IInv' OBVIOUS
<1>1. ConnectionInv'
  BY StepOfConnection, PreservesConnectionInv DEF IInv
<1>2. CASE Next
  BY <1>1, <1>2, StepType, StepCoverage, StepBounded DEF IInv
<1>3. CASE UNCHANGED vars
  <2>1. ResolverTypeOK' /\ CacheBounded'
    BY <1>3 DEF IInv, vars, connectionVars, ResolverTypeOK, CacheBounded, Cached
  <2>2. CoverageInv'
    BY <1>3 DEF IInv, vars, connectionVars, providerVars, CoverageInv, NoneCovered, AnswersCurrent,
      Cached, Answered, Notified
  <2> QED BY <1>1, <2>1, <2>2 DEF IInv
<1> QED BY <1>2, <1>3

(* The inductive invariant holds in every reachable state.                   *)
THEOREM Invariance == Spec => []IInv
BY InitIInv, Inductive, PTL DEF Spec

(* Every variable keeps its type, for any number of flags and calls.         *)
THEOREM TypeCorrect == Spec => []TypeOK
<1>1. IInv => TypeOK
  BY DEF IInv, ConnectionInv, ResolverTypeOK, TypeOK
<1> QED BY <1>1, Invariance, PTL

(* The remote resolver never runs two attempts at a stream, and never none   *)
(* while it is open and has not given up; a stream that was answered with an *)
(* error is not retried at once (grpc-service.ts:181-278).                   *)
THEOREM ExactlyOneAttempt == Spec => []RetriesSound
<1>1. IInv => RetriesSound
  BY DEF IInv, ConnectionInv, RetriesSound
<1> QED BY <1>1, Invariance, PTL

(* The provider's timer, flag and status agree (flagd-provider.ts:124-159).  *)
THEOREM OutageBookkeeping ==
  Spec => []OutageTracked
<1>1. IInv => OutageTracked
  BY DEF IInv, ConnectionInv, OutageTracked
<1> QED BY <1>1, Invariance, PTL

(* An entry whose answer crossed no eviction of its flag is current or about *)
(* to be evicted (grpc-service.ts:237-255, 300-329).                         *)
THEOREM CoveredAreCurrent == Spec => []CoveredEntriesCurrent
<1>1. IInv => CoveredEntriesCurrent
  BY DEF IInv, CoverageInv, AnswersCurrent, Notified, CoveredEntriesCurrent
<1> QED BY <1>1, Invariance, PTL

(* The cache stays within maxCacheSize (grpc-service.ts:113-115).            *)
THEOREM StaysBounded == Spec => []CacheBounded
<1>1. IInv => CacheBounded
  BY DEF IInv
<1> QED BY <1>1, Invariance, PTL

(* A closed provider with nothing pending starts nothing                     *)
(* (grpc-service.ts:140-143).                                                *)
THEOREM QuietOnceClosed == Spec => QuietAfterClose
<1>1. IInv /\ [Next]_vars => [QuietStep]_vars
  BY StepOfConnection, StaysQuiet DEF IInv
<1> QED BY <1>1, Invariance, PTL DEF Spec, QuietAfterClose

(* The remote resolver implements the life cycle of ProviderLifecycle.       *)
THEOREM Implements == Spec => ImplementsLifecycle
<1>1. Init => Lifecycle!Init
  BY DEF Init, ConnectionInit, ProviderInit, Lifecycle!Init
<1>2. IInv /\ [Next]_vars => [Lifecycle!Next]_<<status, gaveUp # "no">>
  BY StepOfConnection, RefinesLifecycle DEF IInv, vars, connectionVars, providerVars
<1> QED BY <1>1, <1>2, Invariance, PTL DEF Spec, ImplementsLifecycle, Lifecycle!Spec
=============================================================================
