--------------------------- MODULE CollectorManager ---------------------------
(* The data collector of the GO Feature Flag provider for browsers           *)
(* (collector-manager.ts, controller/goff-api.ts, data-collector-hook.ts):   *)
(* events are buffered and sent by an interval and by close(); a batch that  *)
(* fails goes back to the buffer.  Calls of callGoffDataCollection overlap   *)
(* when a request outlasts the interval.                                     *)
(* External: the relay proxy, which may have taken a batch whose response    *)
(* is lost.                                                                  *)
EXTENDS Naturals, Sequences, SequencesExt

CONSTANTS
  Flags,          \* what is evaluated or tracked
  Sends,          \* places for requests in flight (bound)
  MaxInits,       \* bound: how often the provider is initialized
  MaxFailures     \* bound: requests that fail

ASSUME CollectorBounds == MaxInits \in Nat /\ MaxFailures \in Nat
ASSUME SendsAreSends == {"buffer", "taken", "dropped"} \intersect Sends = {}

VARIABLES
  buffer,         \* dataCollectorBuffer; it is undefined before the first init()
  bgScheduler,    \* the interval runs
  send,           \* requests in flight: their events
  closing,        \* the request close() waits for, if any
  inits,          \* calls of init() so far
  added,          \* history: events that were put into the buffer
  taken,          \* history: events a response acknowledged
  dropped,        \* history: events init() found in the buffer
  received,       \* external: events the relay proxy has
  failures        \* bounded count of failures

collectorVars == <<buffer, bgScheduler, send, closing, inits, added, taken, dropped, received, failures>>

NoSend == "none"
Events == [source: {"after", "error", "track"}, flag: Flags]

CollectorTypeOK ==
  /\ buffer \in Seq(Events)
  /\ bgScheduler \in BOOLEAN
  /\ send \in [Sends -> Seq(Events)]
  /\ closing \in Sends \union {NoSend}
  /\ inits \in 0 .. MaxInits /\ failures \in 0 .. MaxFailures
  /\ {added, received} \subseteq SUBSET Events
  /\ {taken, dropped} \subseteq Seq(Events)

CollectorInit ==
  /\ buffer = <<>>
  /\ bgScheduler = FALSE
  /\ send = [s \in Sends |-> <<>>]
  /\ closing = NoSend
  /\ inits = 0 /\ failures = 0
  /\ added = {} /\ received = {}
  /\ taken = <<>> /\ dropped = <<>>

-----------------------------------------------------------------------------
(* init(), by initialize() when collection is not disabled.  A provider that *)
(* was closed can be set again.                                              *)
InitCollector ==
  /\ inits < MaxInits
  /\ ~bgScheduler
  /\ inits' = inits + 1
  /\ bgScheduler' = TRUE
  /\ dropped' = dropped \o buffer
  /\ buffer' = <<>>
  /\ UNCHANGED <<send, closing, added, taken, received, failures>>

(* add(): nothing is kept before the first init().                           *)
add(event) ==
  /\ event \notin added
  /\ IF inits = 0
       THEN UNCHANGED <<buffer, added>>
       ELSE buffer' = Append(buffer, event) /\ added' = added \union {event}
  /\ UNCHANGED <<bgScheduler, send, closing, inits, taken, dropped, received, failures>>

(* An evaluation from the cache, one that fell back to the default, track(). *)
after(flag) == add([source |-> "after", flag |-> flag])
error(flag) == add([source |-> "error", flag |-> flag])
track(flag) == add([source |-> "track", flag |-> flag])

(* collectData: no request for no events.                                    *)
collectData(s, events) == send' = IF events = <<>> THEN send ELSE [send EXCEPT ![s] = events]

(* callGoffDataCollection up to its await: the buffer is emptied first, so   *)
(* that what is added meanwhile is not in two batches.                       *)
callGoffDataCollection(s) ==
  /\ send[s] = <<>>
  /\ collectData(s, buffer)
  /\ buffer' = <<>>

Interval ==
  /\ bgScheduler
  /\ \E s \in Sends : callGoffDataCollection(s)
  /\ UNCHANGED <<bgScheduler, closing, inits, added, taken, dropped, received, failures>>

(* close(): the interval ends, and a last batch is sent.                     *)
Close ==
  /\ bgScheduler
  /\ bgScheduler' = FALSE
  /\ \E s \in Sends : callGoffDataCollection(s) /\ closing' = IF send'[s] = <<>> THEN NoSend ELSE s
  /\ UNCHANGED <<inits, added, taken, dropped, received, failures>>

SendOk(s) ==
  /\ send[s] # <<>>
  /\ received' = received \union ToSet(send[s])
  /\ taken' = taken \o send[s]
  /\ send' = [send EXCEPT ![s] = <<>>]
  /\ closing' = IF closing = s THEN NoSend ELSE closing
  /\ UNCHANGED <<buffer, bgScheduler, inits, added, dropped, failures>>

(* Mutant: the batch replaces what was added while it was under way.         *)
putBackAlone(events) == buffer' = events

(* A CollectorError: the batch goes back behind what was added meanwhile.    *)
putBack(events) == buffer' = buffer \o events

SendFails(s) ==
  /\ send[s] # <<>>
  /\ failures < MaxFailures
  /\ failures' = failures + 1
  /\ putBack(send[s])
  /\ received' \in {received, received \union ToSet(send[s])}
  /\ send' = [send EXCEPT ![s] = <<>>]
  /\ closing' = IF closing = s THEN NoSend ELSE closing
  /\ UNCHANGED <<bgScheduler, inits, added, taken, dropped>>

-----------------------------------------------------------------------------
CollectorNext ==
  \/ InitCollector \/ Interval \/ Close
  \/ \E flag \in Flags : after(flag) \/ error(flag) \/ track(flag)
  \/ \E s \in Sends : SendOk(s) \/ SendFails(s)

-----------------------------------------------------------------------------
(* Properties                                                                *)

(* Where an event can be.                                                    *)
Places == {"buffer", "taken", "dropped"} \union Sends
held(place) == IF place = "buffer" THEN buffer ELSE IF place = "taken" THEN taken
               ELSE IF place = "dropped" THEN dropped ELSE send[place]

(* Whatever additions, intervals, failures and close() interleave, an event  *)
(* is in exactly one place: the buffer, one request, acknowledged, or lost   *)
(* to a second init(); no batch is lost and none is put back twice           *)
(* (collector-manager.ts:46-50, 66-80).                                      *)
EventsConserved ==
  /\ CollectorTypeOK
  /\ \A p \in Places : IsInjective(held(p))
  /\ \A p, q \in Places : p # q => ToSet(held(p)) \intersect ToSet(held(q)) = {}
  /\ added = UNION {ToSet(held(p)) : p \in Places}
=============================================================================
