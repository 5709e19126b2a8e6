-------------------------- MODULE GrpcFetch_proofs ---------------------------
(* The theorems about the in-process resolver.  With the sync stream the     *)
(* connection's part of the invariant comes from GrpcStream_proofs; the      *)
(* resolver's own part says what the messages on their way amount to and     *)
(* what the application was told.  With a file it is the listener's reads.   *)
EXTENDS GrpcFetch, FileFetch, GrpcStream_proofs, SequenceTheorems

Flags == FlagSets(Keys, Definitions)

SyncTypeOK ==
  /\ inbox \in Seq(Payload)
  /\ isConnected \in BOOLEAN
  /\ storage \in Flags
  /\ announced \in Flags
  /\ config \in Payload
  /\ pushes \in Nat

(* StorageFollowsServer says nothing while messages are on their way: then   *)
(* the last of them is the configuration of the server.                      *)
SyncInv ==
  server = "notifying" =>
    IF inbox = <<>> THEN config.parses => storage = config.flags
                    ELSE inbox[Len(inbox)] = config

(* The list of changes is complete, so the application's copy never drifts.  *)
AnnounceInv == initialized => announced = storage

IInv == ConnectionInv /\ SyncTypeOK /\ SyncInv /\ AnnounceInv

-----------------------------------------------------------------------------
(* The storage                                                               *)

LEMMA FlagSetIsFunction ==
  ASSUME NEW f \in Flags
  PROVE  /\ f = [k \in DOMAIN f |-> f[k]]
         /\ DOMAIN f \subseteq Keys
         /\ \A k \in DOMAIN f : f[k] \in Definitions
BY DEF Flags, FlagSets

(* A key setConfigurations does not name has the definition it had, or is    *)
(* still absent (storage.ts:65-89).                                          *)
LEMMA UnnamedKeysKept ==
  ASSUME NEW old, NEW new, NEW k, k \notin flagsChanged(old, new)
  PROVE  /\ k \in DOMAIN old <=> k \in DOMAIN new
         /\ k \in DOMAIN new => old[k] = new[k]
BY DEF flagsChanged, added, removed, changed

(* A reader that looks again at the named keys has the new flags.            *)
THEOREM ChangesComplete ==
  ASSUME NEW old, NEW new, new = [k \in DOMAIN new |-> new[k]]
  PROVE  Refreshed(old, flagsChanged(old, new), new) = new
<1> DEFINE K == flagsChanged(old, new)
<1>1. (DOMAIN old \ K) \union (K \intersect DOMAIN new) = DOMAIN new
  BY UnnamedKeysKept DEF flagsChanged, added, removed, changed
<1>2. \A k \in DOMAIN new : (IF k \in K THEN new[k] ELSE old[k]) = new[k]
  BY UnnamedKeysKept
<1>3. Refreshed(old, K, new) = [k \in DOMAIN new |-> new[k]]
  BY <1>1, <1>2 DEF Refreshed
<1> QED BY <1>3

-----------------------------------------------------------------------------
LEMMA InitIInv == Init => IInv
<1> SUFFICES ASSUME Init PROVE IInv OBVIOUS
<1>1. ConnectionInv
  BY InitConnectionInv DEF Init
<1>2. NoFlags \in Flags
  BY DEF NoFlags, Flags, FlagSets
<1>3. SyncTypeOK
  <2>1. <<>> \in Seq(Payload) OBVIOUS
  <2> QED BY <1>2, <2>1 DEF Init, ConnectionInit, SyncTypeOK, Payload, Flags
<1>4. SyncInv /\ AnnounceInv
  BY DEF Init, ConnectionInit, SyncInv, AnnounceInv
<1> QED BY <1>1, <1>3, <1>4 DEF IInv

(* Each step of the resolver, as the step of the connection it is.           *)
LEMMA StepOfConnection ==
  ASSUME IInv, [Next]_vars
  PROVE  ConnectionNext
<1>0. initialized \in BOOLEAN
  BY DEF IInv, ConnectionInv, ConnectionTypeOK
<1>1. CASE Initialize BY <1>1 DEF Initialize, ConnectionNext
<1>2. CASE \E a \in AttemptKinds : ChannelReady(a) \/ ChannelNotReady(a)
  BY <1>2 DEF ChannelReady, ChannelNotReady, ConnectionNext
<1>3. CASE StreamFails BY <1>3 DEF StreamFails, ConnectionNext
<1>4. CASE Data
  <2>1. MessageStep BY <1>0, <1>4 DEF Data, MessageStep
  <2> QED BY <2>1 DEF ConnectionNext
<1>5. CASE \E d \in Delays : Retry(d) BY <1>5 DEF Retry, ConnectionNext
<1>6. CASE GraceTimer BY <1>6 DEF GraceTimer, GraceStep, ConnectionNext
<1>7. CASE InitializeContinues
  <2>1. ContinueStep BY <1>0, <1>7 DEF InitializeContinues, ContinueStep
  <2> QED BY <2>1 DEF ConnectionNext
<1>8. CASE OnClose BY <1>8 DEF OnClose, ConnectionNext
<1>9. CASE ConfigChanges \/ UNCHANGED vars
  <2>1. SendStep BY <1>9 DEF ConfigChanges, vars, SendStep, connectionVars
  <2> QED BY <2>1 DEF ConnectionNext
<1>10. CASE Accept BY <1>10 DEF Accept, ConnectionNext
<1>11. CASE ConnectionStep BY <1>11 DEF ConnectionStep, ConnectionNext
<1> QED BY <1>1, <1>2, <1>3, <1>4, <1>5, <1>6, <1>7, <1>8, <1>9, <1>10, <1>11 DEF Next

-----------------------------------------------------------------------------
(* The steps that store and announce nothing, and leave the messages alone   *)
(* or drop them with their stream.                                           *)
NothingStored ==
  /\ UNCHANGED <<storage, announced, config, pushes, initialized>>
  /\ isConnected' \in BOOLEAN
  /\ inbox' = inbox \/ inbox' = <<>>
  /\ server' = "notifying" => server = "notifying" /\ inbox' = inbox

LEMMA NothingStoredSteps ==
  ASSUME IInv,
         \/ Initialize
         \/ \E a \in AttemptKinds : ChannelReady(a) \/ ChannelNotReady(a)
         \/ StreamFails \/ (\E d \in Delays : Retry(d)) \/ GraceTimer \/ OnClose \/ ConnectionStep
  PROVE  NothingStored
<1>0. isConnected \in BOOLEAN BY DEF IInv, SyncTypeOK
<1>1. CASE Initialize
  BY <1>0, <1>1 DEF Initialize, Connect, listen, closeStreamIfDefined, syncVars, NothingStored
<1>2. ASSUME NEW a \in AttemptKinds, ChannelReady(a) PROVE NothingStored
  BY <1>0, <1>2 DEF ChannelReady, WaitReady, syncVars, NothingStored
<1>3. ASSUME NEW a \in AttemptKinds, ChannelNotReady(a) PROVE NothingStored
  BY <1>0, <1>3 DEF ChannelNotReady, WaitFails, attemptFails, syncVars, NothingStored
<1>4. CASE StreamFails
  BY <1>0, <1>4 DEF StreamFails, StreamError, attemptFails, syncVars, NothingStored
<1>5. ASSUME NEW d \in Delays, Retry(d) PROVE NothingStored
  BY <1>0, <1>5 DEF Retry, RetryTimer, listen, closeStreamIfDefined, syncVars, NothingStored
<1>6. CASE GraceTimer
  BY <1>0, <1>6 DEF GraceTimer, connectionVars, syncVars, NothingStored
<1>7. CASE OnClose
  BY <1>0, <1>7 DEF OnClose, Close, closeStreamIfDefined, syncVars, NothingStored
<1>8. CASE ConnectionStep
  BY <1>0, <1>8 DEF ConnectionStep, Environment, StreamBreaks, StreamEnds, ChannelDown, ChannelUp,
    syncVars, NothingStored
<1> QED BY <1>1, <1>2, <1>3, <1>4, <1>5, <1>6, <1>7, <1>8

LEMMA NothingStoredInv ==
  ASSUME IInv, NothingStored
  PROVE  SyncTypeOK' /\ SyncInv' /\ AnnounceInv'
<1>1. SyncTypeOK'
  <2>1. <<>> \in Seq(Payload) OBVIOUS
  <2> QED BY <2>1 DEF IInv, NothingStored, SyncTypeOK
<1>2. SyncInv'
  BY DEF IInv, NothingStored, SyncInv
<1>3. AnnounceInv'
  BY DEF IInv, NothingStored, AnnounceInv
<1> QED BY <1>1, <1>2, <1>3

LEMMA DataInv ==
  ASSUME IInv, Data
  PROVE  SyncTypeOK' /\ SyncInv' /\ AnnounceInv'
<1> DEFINE payload == Head(inbox)
           told == IF initialized THEN Refreshed(announced, flagsChanged(storage, storage'), storage')
                                  ELSE announced
<1>1. /\ inbox \in Seq(Payload) /\ inbox # <<>> /\ inbox' = Tail(inbox)
      /\ server' = server /\ config' = config /\ initialized' = initialized
  BY DEF IInv, SyncTypeOK, Data, MessageArrives
<1>2. payload \in Payload /\ inbox' \in Seq(Payload)
  BY <1>1, HeadTailProperties
<1>3. storage' = (IF payload.parses THEN payload.flags ELSE storage) /\ storage' \in Flags
  BY <1>2 DEF Data, setFlagConfiguration, IInv, SyncTypeOK, Payload, Flags
<1>4. told \in Flags /\ (initialized => told = storage')
  <2>1. storage \in Flags /\ announced \in Flags
    BY DEF IInv, SyncTypeOK
  <2>2. CASE initialized
    BY <1>3, <2>1, <2>2, FlagSetIsFunction, ChangesComplete DEF IInv, AnnounceInv
  <2>3. CASE ~initialized
    BY <2>1, <2>3
  <2> QED BY <2>2, <2>3
<1>5. announced' \in {told, storage'}
  BY DEF Data
<1>6. SyncTypeOK'
  BY <1>1, <1>2, <1>3, <1>4, <1>5 DEF SyncTypeOK, Data, IInv
<1>7. AnnounceInv'
  BY <1>1, <1>4, <1>5 DEF AnnounceInv
<1>8. SyncInv'
  <2> SUFFICES ASSUME server = "notifying"
               PROVE  IF inbox' = <<>> THEN config.parses => storage' = config.flags
                                       ELSE inbox'[Len(inbox')] = config
    BY <1>1 DEF SyncInv
  <2>1. inbox[Len(inbox)] = config
    BY <1>1 DEF IInv, SyncInv
  <2>2. CASE inbox' = <<>>
    <3>1. Len(inbox) \in Nat /\ Len(inbox') = Len(inbox) - 1 /\ Len(inbox') = 0
      BY <1>1, <2>2, HeadTailProperties, EmptySeq
    <3>2. Len(inbox) = 1
      BY <3>1
    <3>3. payload = config
      BY <1>1, <2>1, <3>2
    <3> QED BY <1>3, <2>2, <3>3
  <2>3. CASE inbox' # <<>>
    <3>1. Len(inbox') \in 1..Len(inbox') /\ Len(inbox') = Len(inbox) - 1
      BY <1>1, <1>2, <2>3, HeadTailProperties, EmptySeq
    <3>2. inbox'[Len(inbox')] = inbox[Len(inbox)]
      BY <1>1, <3>1, HeadTailProperties
    <3> QED BY <2>1, <2>3, <3>2
  <2> QED BY <2>2, <2>3
<1> QED BY <1>6, <1>7, <1>8

LEMMA ContinueInv ==
  ASSUME IInv, InitializeContinues
  PROVE  SyncTypeOK' /\ SyncInv' /\ AnnounceInv'
<1>1. SyncTypeOK' /\ SyncInv'
  BY DEF IInv, InitializeContinues, SyncTypeOK, SyncInv
<1>2. AnnounceInv'
  BY DEF IInv, InitializeContinues, AnnounceInv
<1> QED BY <1>1, <1>2

LEMMA ServerInv ==
  ASSUME IInv, Accept \/ ConfigChanges
  PROVE  SyncTypeOK' /\ SyncInv' /\ AnnounceInv'
<1>1. CASE Accept
  <2>1. inbox' = <<config>> /\ UNCHANGED <<isConnected, syncVars, initialized>> /\ config \in Payload
    BY <1>1 DEF Accept, ServerAccepts, IInv, SyncTypeOK
  <2>2. inbox' \in Seq(Payload) /\ Len(inbox') = 1 /\ inbox'[1] = config
    BY <2>1
  <2> QED BY <2>1, <2>2 DEF IInv, SyncTypeOK, SyncInv, AnnounceInv, syncVars
<1>2. CASE ConfigChanges
  <2>1. /\ config' \in Payload
        /\ inbox' = (IF server = "notifying" THEN Append(inbox, config') ELSE inbox)
        /\ UNCHANGED <<server, initialized, isConnected, storage, announced>>
        /\ pushes' = pushes + 1
    BY <1>2 DEF ConfigChanges
  <2>2. inbox \in Seq(Payload)
    BY DEF IInv, SyncTypeOK
  <2>3. server = "notifying" => /\ inbox' \in Seq(Payload) /\ inbox' # <<>>
                                /\ Len(inbox') = Len(inbox) + 1
                                /\ inbox'[Len(inbox) + 1] = config'
    BY <2>1, <2>2, AppendProperties
  <2> QED BY <2>1, <2>2, <2>3 DEF IInv, SyncTypeOK, SyncInv, AnnounceInv
<1> QED BY <1>1, <1>2

LEMMA Inductive == IInv /\ [Next]_vars => IInv'
<1> SUFFICES ASSUME IInv, [Next]_vars PROVE IInv' OBVIOUS
<1>1. ConnectionInv'
  BY StepOfConnection, PreservesConnectionInv DEF IInv
<1>2. SyncTypeOK' /\ SyncInv' /\ AnnounceInv'
  <2>1. CASE UNCHANGED vars
    BY <2>1 DEF IInv, vars, connectionVars, SyncTypeOK, SyncInv, AnnounceInv
  <2>2. CASE Next
    BY <2>2, NothingStoredSteps, NothingStoredInv, DataInv, ContinueInv, ServerInv DEF Next
  <2> QED BY <2>1, <2>2
<1> QED BY <1>1, <1>2 DEF IInv

-----------------------------------------------------------------------------
(* Theorems                                                                  *)

(* The inductive invariant holds in every reachable state.                   *)
THEOREM Invariance == Spec => []IInv
BY InitIInv, Inductive, PTL DEF Spec

(* Every variable keeps its type, for any set of keys and definitions.       *)
THEOREM TypeCorrect == Spec => []TypeOK
<1>1. IInv => TypeOK
  BY DEF IInv, ConnectionInv, SyncTypeOK, Flags, TypeOK
<1> QED BY <1>1, Invariance, PTL

(* The in-process resolver has exactly one attempt at its stream and never   *)
(* retries an errored stream at once (grpc-fetch.ts:101-213).                *)
THEOREM ExactlyOneAttempt == Spec => []RetriesSound
<1>1. IInv => RetriesSound
  BY DEF IInv, ConnectionInv, RetriesSound
<1> QED BY <1>1, Invariance, PTL

(* The provider's timer, flag and status agree (flagd-provider.ts:124-159).  *)
THEOREM OutageBookkeeping ==
  Spec => []OutageTracked
<1>1. IInv => OutageTracked
  BY DEF IInv, ConnectionInv, OutageTracked
<1> QED BY <1>1, Invariance, PTL

(* Once all that was sent is delivered, the storage is the server's          *)
(* configuration (grpc-fetch.ts:126-139, storage.ts:65-89).                  *)
THEOREM FollowsServer == Spec => []StorageFollowsServer
<1>1. IInv => StorageFollowsServer
  BY DEF IInv, SyncInv, StorageFollowsServer
<1> QED BY <1>1, Invariance, PTL

(* After a first connection that succeeded, the announced changes add up to  *)
(* the flags in the storage (grpc-fetch.ts:83-93, 126-149).                  *)
THEOREM AnnouncedWhenInitialized == Spec => []ChangesAnnouncedOnceInitialized
<1>1. IInv => ChangesAnnouncedOnceInitialized
  BY DEF IInv, AnnounceInv, ChangesAnnouncedOnceInitialized, ChangesAnnounced
<1> QED BY <1>1, Invariance, PTL

(* A closed provider with nothing pending starts nothing                     *)
(* (grpc-fetch.ts:95-99).                                                    *)
THEOREM QuietOnceClosed == Spec => QuietAfterClose
<1>1. IInv /\ [Next]_vars => [QuietStep]_vars
  BY StepOfConnection, StaysQuiet DEF IInv
<1> QED BY <1>1, Invariance, PTL DEF Spec, QuietAfterClose

(* The in-process resolver implements the life cycle of ProviderLifecycle.   *)
THEOREM Implements == Spec => ImplementsLifecycle
<1>1. Init => Lifecycle!Init
  BY DEF Init, ConnectionInit, ProviderInit, Lifecycle!Init
<1>2. IInv /\ [Next]_vars => [Lifecycle!Next]_<<status, gaveUp # "no">>
  BY StepOfConnection, RefinesLifecycle DEF IInv, vars, connectionVars, providerVars
<1> QED BY <1>1, <1>2, Invariance, PTL DEF Spec, ImplementsLifecycle, Lifecycle!Spec

-----------------------------------------------------------------------------
(* The file                                                                  *)

(* What the reads of the listener hold, and which of them can be under way.  *)
ReadTypeOK ==
  /\ FileTypeOK
  /\ read \in [Reads -> {NoRead, [phase |-> "reading"]} \union [phase : {"read"}, contents : FileContents]]
  /\ connecting # "watching" => ~watched.by /\ Busy = {}
  /\ fileStorage = [k \in DOMAIN fileStorage |-> fileStorage[k]]

(* The version of the last stat is the file's or an earlier one.  While it   *)
(* is the file's, what has been read is the file's too, as long as no write  *)
(* escaped the listener and no two reads overlapped.                         *)
ReadInv ==
  /\ watched.version <= file.version
  /\ connecting = "read" /\ watched.version = file.version => fileStorage = file.contents.flags
  /\ ~overtaken => \A r, s \in Busy : r = s
  /\ ~overtaken /\ watched.version = file.version =>
       \A r \in Reads : read[r].phase = "read" => read[r].contents = file.contents

FileInv == ReadTypeOK /\ ReadInv /\ StorageFollowsFile /\ FileChangesAnnounced

LEMMA FileInitInv == FileInit => FileInv
<1> SUFFICES ASSUME FileInit PROVE FileInv OBVIOUS
<1>1. FileTypeOK
  <2>1. file.contents \in FileContents /\ file.version = 0 BY DEF FileInit
  <2>2. 0 \in 0..MaxWrites BY MaxWritesNat
  <2>3. watched \in [by : BOOLEAN, version : 0..MaxWrites] BY <2>2 DEF FileInit
  <2> QED BY <2>1, <2>2, <2>3 DEF FileInit, FileTypeOK
<1>2. Busy = {} BY DEF FileInit, Busy, NoRead
<1>3. ReadTypeOK BY <1>1, <1>2 DEF FileInit, ReadTypeOK
<1>4. ReadInv BY <1>2 DEF FileInit, ReadInv, NoRead
<1>5. StorageFollowsFile /\ FileChangesAnnounced
  BY DEF FileInit, StorageFollowsFile, FileChangesAnnounced
<1> QED BY <1>3, <1>4, <1>5 DEF FileInv

(* The steps that leave the reads, the stat and the storage alone.           *)
LEMMA ReadsRest ==
  ASSUME FileInv, UNCHANGED <<file, read, fileStorage, fileAnnounced, overtaken>>,
         connecting' = connecting \/ (connecting = "no" /\ connecting' = "reading"),
         watched' = watched \/ watched' = [watched EXCEPT !.by = FALSE], disconnected' \in BOOLEAN
  PROVE  FileInv'
<1>1. watched' \in [by : BOOLEAN, version : 0..MaxWrites]
      /\ watched'.version = watched.version /\ (watched'.by => watched.by)
  BY DEF FileInv, ReadTypeOK, FileTypeOK
<1>2. Busy' = Busy BY DEF Busy
<1>3. FileTypeOK' BY <1>1 DEF FileInv, ReadTypeOK, FileTypeOK
<1>4. ReadTypeOK' BY <1>1, <1>2, <1>3 DEF FileInv, ReadTypeOK
<1>5. ReadInv' BY <1>1, <1>2 DEF FileInv, ReadInv
<1>6. StorageFollowsFile' BY <1>1, <1>2 DEF FileInv, StorageFollowsFile
<1> QED BY <1>4, <1>5, <1>6 DEF FileInv, FileChangesAnnounced

LEMMA FirstReadInv ==
  ASSUME FileInv, FirstRead
  PROVE  FileInv'
<1>0. connecting = "reading" /\ ~watched.by /\ Busy = {}
  BY DEF FirstRead, FileInv, ReadTypeOK
<1>1. /\ watched' = [watched EXCEPT !.version = file.version]
      /\ UNCHANGED <<file, read, disconnected, overtaken>>
  BY DEF FirstRead
<1>2. /\ watched' \in [by : BOOLEAN, version : 0..MaxWrites] /\ file.version \in Nat
      /\ watched'.version = file.version /\ ~watched'.by
  BY <1>0, <1>1 DEF FileInv, ReadTypeOK, FileTypeOK
<1>3. Busy' = {} /\ \A r \in Reads : read[r].phase # "read"
  BY <1>0, <1>1 DEF Busy
<1>4. \/ connecting' = "read" /\ fileStorage' = file.contents.flags /\ fileAnnounced' = fileStorage'
      \/ connecting' = "failed" /\ UNCHANGED <<fileStorage, fileAnnounced>>
  BY DEF FirstRead, dataFill
<1>5. FileTypeOK' BY <1>1, <1>2, <1>4 DEF FileInv, ReadTypeOK, FileTypeOK
<1>6. ReadTypeOK'
  <2>1. fileStorage' = [k \in DOMAIN fileStorage' |-> fileStorage'[k]]
    BY <1>4, FlagsAreRecords DEF FileInv, ReadTypeOK, FileTypeOK
  <2> QED BY <1>1, <1>2, <1>3, <1>4, <1>5, <2>1 DEF FileInv, ReadTypeOK
<1>7. ReadInv' BY <1>1, <1>2, <1>3, <1>4 DEF ReadInv
<1>8. StorageFollowsFile' BY <1>2 DEF StorageFollowsFile
<1>9. FileChangesAnnounced' BY <1>4 DEF FileInv, FileChangesAnnounced
<1> QED BY <1>6, <1>7, <1>8, <1>9 DEF FileInv

LEMMA FirstStatInv ==
  ASSUME FileInv, FirstStat
  PROVE  FileInv'
<1>0. connecting = "read" /\ Busy = {}
  BY DEF FirstStat, FileInv, ReadTypeOK
<1>1. /\ watched' = [by |-> TRUE, version |-> file.version] /\ connecting' = "watching"
      /\ overtaken' = (overtaken \/ watched.version # file.version)
      /\ UNCHANGED <<file, read, fileStorage, fileAnnounced, disconnected>>
  BY DEF FirstStat
<1>2. Busy' = {} /\ \A r \in Reads : read[r].phase # "read"
  BY <1>0, <1>1 DEF Busy
<1>3. FileTypeOK' BY <1>1 DEF FileInv, ReadTypeOK, FileTypeOK
<1>4. ReadTypeOK' BY <1>1, <1>3 DEF FileInv, ReadTypeOK
<1>5. file.version <= file.version BY DEF FileInv, ReadTypeOK, FileTypeOK
<1>6. ReadInv' BY <1>1, <1>2, <1>5 DEF ReadInv
<1>7. StorageFollowsFile' BY <1>0, <1>1 DEF FileInv, ReadInv, StorageFollowsFile
<1>8. FileChangesAnnounced' BY <1>1 DEF FileInv, FileChangesAnnounced
<1> QED BY <1>4, <1>6, <1>7, <1>8 DEF FileInv

LEMMA StatChangedInv ==
  ASSUME FileInv, NEW r \in Reads, StatChanged(r)
  PROVE  FileInv'
<1>1. /\ watched.by /\ read[r] = NoRead
      /\ watched' = [watched EXCEPT !.version = file.version]
      /\ read' = [read EXCEPT ![r] = [phase |-> "reading"]]
      /\ overtaken' = (overtaken \/ Busy # {})
      /\ UNCHANGED <<file, connecting, fileStorage, fileAnnounced, disconnected>>
  BY DEF StatChanged
<1>2. /\ watched' \in [by : BOOLEAN, version : 0..MaxWrites] /\ file.version \in Nat
      /\ watched'.version = file.version /\ connecting = "watching"
  BY <1>1 DEF FileInv, ReadTypeOK, FileTypeOK
<1>3. /\ read' \in [Reads -> {NoRead, [phase |-> "reading"]} \union [phase : {"read"}, contents : FileContents]]
      /\ read'[r].phase = "reading" /\ \A s \in Reads \ {r} : read'[s] = read[s]
  BY <1>1 DEF FileInv, ReadTypeOK
<1>4. Busy' = Busy \union {r} BY <1>3 DEF Busy
<1>5. FileTypeOK' BY <1>1, <1>2 DEF FileInv, ReadTypeOK, FileTypeOK
<1>6. ReadTypeOK' BY <1>1, <1>2, <1>3, <1>5 DEF FileInv, ReadTypeOK
<1>7. ~overtaken' => Busy' = {r} BY <1>1, <1>4
<1>8. ReadInv'
  <2>1. ~overtaken' => \A s \in Reads : read'[s].phase # "read"
    BY <1>3, <1>7 DEF Busy
  <2> QED BY <1>1, <1>2, <1>7, <2>1 DEF ReadInv
<1>9. StorageFollowsFile' BY <1>4 DEF StorageFollowsFile
<1> QED BY <1>1, <1>6, <1>8, <1>9 DEF FileInv, FileChangesAnnounced

LEMMA ReadFileInv ==
  ASSUME FileInv, NEW r \in Reads, ReadFile(r)
  PROVE  FileInv'
<1> DEFINE next == IF file.readable THEN [phase |-> "read", contents |-> file.contents] ELSE NoRead
<1>1. /\ read[r].phase = "reading" /\ read' = [read EXCEPT ![r] = next]
      /\ UNCHANGED <<file, connecting, watched, fileStorage, fileAnnounced, disconnected, overtaken>>
  BY DEF ReadFile
<1>2. /\ next \in {NoRead} \union [phase : {"read"}, contents : FileContents]
      /\ next.phase = "read" => next.contents = file.contents
      /\ next = NoRead => ~file.readable
  BY DEF FileInv, ReadTypeOK, FileTypeOK, NoRead
<1>3. r \in Busy /\ Busy # {} BY <1>1 DEF Busy
<1> HIDE DEF next
<1>4. /\ read' \in [Reads -> {NoRead, [phase |-> "reading"]} \union [phase : {"read"}, contents : FileContents]]
      /\ read'[r] = next /\ \A s \in Reads \ {r} : read'[s] = read[s]
  BY <1>1, <1>2 DEF FileInv, ReadTypeOK
<1>5. /\ Busy' \subseteq Busy
      /\ Busy' = {} => next.phase = "idle"
  BY <1>3, <1>4 DEF Busy
<1>6. next.phase = "idle" => ~file.readable
  BY <1>2
<1>7. FileTypeOK' BY <1>1 DEF FileInv, ReadTypeOK, FileTypeOK
<1>8. ReadTypeOK' BY <1>1, <1>4, <1>5, <1>7 DEF FileInv, ReadTypeOK
<1>9. ReadInv' BY <1>1, <1>2, <1>4, <1>5 DEF FileInv, ReadInv
<1>10. StorageFollowsFile' BY <1>1, <1>5, <1>6 DEF StorageFollowsFile
<1> QED BY <1>1, <1>8, <1>9, <1>10 DEF FileInv, FileChangesAnnounced

LEMMA RefillInv ==
  ASSUME FileInv, NEW r \in Reads, Refill(r)
  PROVE  FileInv'
<1> DEFINE contents == read[r].contents
<1>1. /\ read[r].phase = "read" /\ read' = [read EXCEPT ![r] = NoRead]
      /\ fileStorage' = IF contents.parses THEN contents.flags ELSE fileStorage
      /\ fileAnnounced' = Refreshed(fileAnnounced, flagsChanged(fileStorage, fileStorage'), fileStorage')
      /\ UNCHANGED <<file, connecting, watched, disconnected, overtaken>>
  BY DEF Refill, dataFill
<1>2. contents \in FileContents
  BY <1>1 DEF FileInv, ReadTypeOK, NoRead
<1>3. /\ read' \in [Reads -> {NoRead, [phase |-> "reading"]} \union [phase : {"read"}, contents : FileContents]]
      /\ read'[r] = NoRead /\ \A s \in Reads \ {r} : read'[s] = read[s]
  BY <1>1 DEF FileInv, ReadTypeOK
<1>4. r \in Busy /\ Busy' = Busy \ {r} BY <1>1, <1>3 DEF Busy, NoRead
<1>5. connecting = "watching" BY <1>4 DEF FileInv, ReadTypeOK
<1>6. FileTypeOK' BY <1>1 DEF FileInv, ReadTypeOK, FileTypeOK
<1>7. fileStorage' = [k \in DOMAIN fileStorage' |-> fileStorage'[k]]
  BY <1>1, <1>2, FlagsAreRecords DEF FileInv, ReadTypeOK
<1>8. ReadTypeOK' BY <1>1, <1>3, <1>5, <1>6, <1>7 DEF ReadTypeOK
<1>9. ReadInv' BY <1>1, <1>3, <1>4, <1>5 DEF FileInv, ReadInv, NoRead
<1>10. StorageFollowsFile'
  <2> SUFFICES ASSUME watched.version = file.version, ~overtaken, file.contents.parses
               PROVE  fileStorage' = file.contents.flags
    BY <1>1 DEF StorageFollowsFile
  <2>1. contents = file.contents BY <1>1 DEF FileInv, ReadInv
  <2> QED BY <1>1, <2>1
<1>11. FileChangesAnnounced'
  <2> DEFINE new == fileStorage'
  <2>1. fileAnnounced' = Refreshed(fileStorage, flagsChanged(fileStorage, new), new)
    BY <1>1 DEF FileInv, FileChangesAnnounced
  <2> HIDE DEF new
  <2>2. new = [k \in DOMAIN new |-> new[k]] BY <1>7 DEF new
  <2>3. fileAnnounced' = new BY <2>1, <2>2, ChangesComplete
  <2> QED BY <2>3 DEF new, FileChangesAnnounced
<1> QED BY <1>8, <1>9, <1>10, <1>11 DEF FileInv

LEMMA FileWrittenInv ==
  ASSUME FileInv, FileWritten
  PROVE  FileInv'
<1>1. PICK contents \in FileContents, readable \in BOOLEAN :
        file' = [contents |-> contents, version |-> file.version + 1, readable |-> readable]
  BY DEF FileWritten
<1>2. /\ file.version < MaxWrites
      /\ UNCHANGED <<connecting, watched, read, fileStorage, fileAnnounced, disconnected, overtaken>>
  BY DEF FileWritten
<1>3. /\ file'.contents \in FileContents /\ file'.version = file.version + 1
      /\ file.version \in Nat /\ watched.version \in Nat
  BY <1>1 DEF FileInv, ReadTypeOK, FileTypeOK
<1>4. watched.version < file'.version BY <1>3 DEF FileInv, ReadInv
<1>5. Busy' = Busy BY <1>2 DEF Busy
<1>6. FileTypeOK' BY <1>2, <1>3, MaxWritesNat DEF FileInv, ReadTypeOK, FileTypeOK
<1>7. ReadTypeOK' BY <1>2, <1>5, <1>6 DEF FileInv, ReadTypeOK
<1>8. ReadInv' BY <1>2, <1>3, <1>4, <1>5 DEF FileInv, ReadInv
<1>9. StorageFollowsFile' BY <1>2, <1>3, <1>4 DEF StorageFollowsFile
<1> QED BY <1>2, <1>7, <1>8, <1>9 DEF FileInv, FileChangesAnnounced

LEMMA FileInductive == FileInv /\ [FileNext]_fileVars => FileInv'
<1> SUFFICES ASSUME FileInv, [FileNext]_fileVars PROVE FileInv' OBVIOUS
<1>0. disconnected \in BOOLEAN BY DEF FileInv, ReadTypeOK, FileTypeOK
<1>1. CASE connectFile BY <1>0, <1>1, ReadsRest DEF connectFile
<1>2. CASE disconnectFile BY <1>2, ReadsRest DEF disconnectFile
<1>3. CASE OtherDisconnects BY <1>0, <1>3, ReadsRest DEF OtherDisconnects
<1>4. CASE UNCHANGED fileVars BY <1>0, <1>4, ReadsRest DEF fileVars
<1>5. CASE FirstRead \/ FirstStat \/ FileWritten
  BY <1>5, FirstReadInv, FirstStatInv, FileWrittenInv
<1>6. CASE \E r \in Reads : StatChanged(r) \/ ReadFile(r) \/ Refill(r)
  BY <1>6, StatChangedInv, ReadFileInv, RefillInv
<1> QED BY <1>1, <1>2, <1>3, <1>4, <1>5, <1>6 DEF FileNext

(* A file that is watched is followed, and an application that heeds the     *)
(* announced changes knows the flags, for any contents, any number of reads  *)
(* under way and of writes (file-fetch.ts:17-38, storage.ts:65-89).          *)
THEOREM FollowsFile == FileInit /\ [][FileNext]_fileVars => []FileFollowed
<1>1. FileInv => FileFollowed
  BY DEF FileInv, ReadTypeOK, FileFollowed
<1> QED BY <1>1, FileInitInv, FileInductive, PTL
=============================================================================
