----------------------------- MODULE GrpcFetch -------------------------------
(* The in-process resolver of the flagd provider: InProcessService and       *)
(* GrpcFetch (libs/providers/flagd/src/lib/service/in-process) under         *)
(* FlagdProvider.  Each message of the sync stream carries a whole flag      *)
(* configuration, which replaces the one in MemoryStorage; the flags that    *)
(* changed are announced to the application.                                 *)
(* External: the sync server with its configuration.                         *)
EXTENDS GrpcStream, MemoryStorage

CONSTANTS
  Keys,           \* flag keys
  Definitions,    \* flag definitions
  MaxPushes       \* bound: changes of the configuration at the server

ASSUME MaxPushesNat == MaxPushes \in Nat

VARIABLES
  isConnected,    \* _isConnected
  storage,        \* the flags of MemoryStorage
  announced,      \* history: the flags as an application knows them that
                  \* reads all at READY and the named ones at each change
  config,         \* external: the server's configuration
  pushes          \* external: changes of it so far

vars == <<providerVars, connectionVars, isConnected, storage, announced, config, pushes>>

(* A configuration that is not parseable is pushed like any other.           *)
Payload == [flags: FlagSets(Keys, Definitions), parses: BOOLEAN]
NoFlags == [k \in {} |-> k]

TypeOK ==
  /\ ConnectionTypeOK
  /\ inbox \in Seq(Payload)
  /\ isConnected \in BOOLEAN
  /\ storage \in FlagSets(Keys, Definitions)
  /\ announced \in FlagSets(Keys, Definitions)
  /\ config \in Payload
  /\ pushes \in Nat

Init ==
  /\ ConnectionInit
  /\ isConnected = FALSE
  /\ storage = NoFlags
  /\ announced = NoFlags
  /\ config \in [flags: FlagSets(Keys, Definitions), parses: {TRUE}]
  /\ pushes = 0

-----------------------------------------------------------------------------
syncVars == <<storage, announced, config, pushes>>

Initialize == Connect /\ UNCHANGED <<isConnected, syncVars>>

ChannelReady(a) == WaitReady(a) /\ UNCHANGED <<isConnected, syncVars>>

ChannelNotReady(a) == WaitFails(a) /\ isConnected' = FALSE /\ UNCHANGED syncVars

StreamFails ==
  /\ \E fatalCode \in BOOLEAN : StreamError(fatalCode)
  /\ isConnected' = FALSE
  /\ UNCHANGED syncVars

(* Mutant: a payload is merged into the storage.                             *)
setFlagConfigurationMerged(payload) ==
  storage' = IF payload.parses
               THEN [k \in DOMAIN storage \union DOMAIN payload.flags |->
                       IF k \in DOMAIN payload.flags THEN payload.flags[k] ELSE storage[k]]
               ELSE storage

(* dataCallback: a payload that does not parse throws before anything is     *)
(* stored, and the handler swallows the exception.                           *)
setFlagConfiguration(payload) == storage' = IF payload.parses THEN payload.flags ELSE storage

(* The 'data' handler.  READY makes an application read all flags again, a   *)
(* changed event the flags it names.                                         *)
Data ==
  /\ MessageArrives
  /\ setFlagConfiguration(Head(inbox))
  /\ isConnected' = TRUE
  /\ LET changes == flagsChanged(storage, storage')
         told == IF initialized THEN Refreshed(announced, changes, storage') ELSE announced
     IN \/ /\ stream.attempt = "first"
           /\ Settle("resolved")
           /\ announced' = told
           /\ UNCHANGED <<isErrorState, errorTimer, graceTimeouts, status>>
        \/ /\ stream.attempt = "retry" /\ ~isConnected
           /\ handleReconnect
           /\ announced' = storage'
           /\ UNCHANGED init
        \/ /\ stream.attempt = "retry" /\ isConnected
           /\ announced' = told
           /\ UNCHANGED <<init, isErrorState, errorTimer, graceTimeouts, status>>
  /\ UNCHANGED <<initialized, config, pushes>>

Retry(d) == RetryTimer(d) /\ UNCHANGED <<isConnected, syncVars>>

(* connect() after its await, and initialize() after that: _initialized is   *)
(* only set when the first attempt was the one that succeeded.               *)
InitializeContinues ==
  /\ initializeContinues
  /\ initialized' = (initialized \/ init = "resolved")
  /\ announced' = IF init = "resolved" THEN storage ELSE announced
  /\ UNCHANGED <<errorThrottled, waits, stream, retryTimers, gaveUp, channel, server, inbox, faults>>
  /\ UNCHANGED <<isConnected, storage, config, pushes>>

(* clearCache() of InProcessService does nothing.                            *)
GraceTimer == graceElapsed /\ UNCHANGED <<connectionVars, isConnected, syncVars>>

OnClose == Close /\ UNCHANGED <<isConnected, syncVars>>

-----------------------------------------------------------------------------
(* The sync server: a new stream starts with the whole configuration.        *)
Accept == ServerAccepts(config) /\ UNCHANGED <<isConnected, syncVars>>

ConnectionStep == Environment /\ UNCHANGED <<isConnected, syncVars>>

ConfigChanges ==
  /\ pushes < MaxPushes
  /\ Len(inbox) < MaxInbox
  /\ pushes' = pushes + 1
  /\ config' \in Payload \ {config}
  /\ inbox' = IF server = "notifying" THEN Append(inbox, config') ELSE inbox
  /\ UNCHANGED <<providerVars, initialized, errorThrottled, waits, stream, retryTimers, gaveUp,
                 channel, server, faults, isConnected, storage, announced>>

-----------------------------------------------------------------------------
Next ==
  \/ Initialize
  \/ \E a \in AttemptKinds : ChannelReady(a) \/ ChannelNotReady(a)
  \/ StreamFails \/ Data
  \/ \E d \in Delays : Retry(d)
  \/ GraceTimer \/ InitializeContinues \/ OnClose
  \/ Accept \/ ConnectionStep \/ ConfigChanges

Spec == Init /\ [][Next]_vars

(* As for GRPCService, and an application that does initialize its provider. *)
Fairness ==
  /\ WF_vars(Initialize)
  /\ WF_vars(GraceTimer)
  /\ WF_vars(InitializeContinues)
  /\ \A d \in Delays : WF_vars(Retry(d))
  /\ \A a \in AttemptKinds : WF_vars(ChannelReady(a) \/ ChannelNotReady(a))
  /\ WF_vars(StreamFails)
  /\ WF_vars(Data)
  /\ WF_vars(Accept)
  /\ WF_vars(ChannelUp /\ UNCHANGED <<isConnected, syncVars>>)

FairSpec == Spec /\ Fairness

-----------------------------------------------------------------------------
(* Properties                                                                *)

(* See GrpcStream; grpc-fetch.ts:95-99.                                      *)
QuietAfterClose == [][QuietStep]_vars

(* Once all that was sent is delivered, the provider evaluates the flags the *)
(* server has, however many payloads and reconnects were in between, unless  *)
(* the last payload did not parse (grpc-fetch.ts:126-139, storage.ts:65-89). *)
StorageFollowsServer ==
  server = "notifying" /\ inbox = <<>> /\ config.parses => storage = config.flags

(* README.md:221: an application that reads all flags when told READY, and   *)
(* the named ones when told of a change, knows the flags as they are.        *)
ChangesAnnounced == status = "READY" /\ MicrotasksDone => announced = storage

(* What of it holds: it does so if the first attempt to connect succeeded.   *)
ChangesAnnouncedOnceInitialized == initialized => ChangesAnnounced

(* A configuration the server keeps reaches the application's evaluations.   *)
Converges ==
  <>[](\/ closed \/ gaveUp # "no" \/ server = "ended" \/ ~config.parses
       \/ storage = config.flags)
=============================================================================
