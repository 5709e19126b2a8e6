--------------------------- MODULE EventPublisher ---------------------------
(* The event publisher of the GO Feature Flag provider (event-publisher.ts): *)
(* events are collected in a list and sent in batches, by a periodic runner, *)
(* when the list is full, and when the publisher is stopped.  A batch that   *)
(* fails is put back at the end of the list.                                 *)
EXTENDS Integers, Sequences, SequencesExt

CONSTANTS Events,             \* the events that can be collected
          MaxPendingEvents,   \* options.maxPendingEvents
          MaxFaults           \* bound: requests that fail

ASSUME MaxPendingAssumption == MaxPendingEvents \in Nat \ {0}
ASSUME MaxFaultsAssumption == MaxFaults \in Nat

VARIABLES added,        \* the events collected so far
          events,       \* EventPublisher.events, the list
          isRunning,
          intervalId,   \* the last timer: "none", "armed" or "fired"
          inflight,     \* calls of publishEvents that have not returned
          acknowledged, \* events in a batch the collector has confirmed
          received,     \* events the collector has got, confirmed or not
          faults

publisherVars == <<added, events, isRunning, intervalId, inflight, acknowledged,
                   received, faults>>

PublisherInit ==
  /\ added = {} /\ events = <<>> /\ isRunning = FALSE
  /\ intervalId = "none" /\ inflight = <<>>
  /\ acknowledged = {} /\ received = {} /\ faults = 0

(* A mutant: the list is cleared only after the request.                     *)
publishEventsKeeping(by, list) ==
  /\ inflight' = Append(inflight, [by |-> by, list |-> list])
  /\ events' = list

(* publishEvents, called by the runner, by addEvent or by stop, up to its    *)
(* await: it takes the whole list.  With an empty list it returns at once,   *)
(* and the caller goes on in a microtask.                                    *)
publishEvents(by, list) ==
  /\ inflight' = Append(inflight, [by |-> by, list |-> list])
  /\ events' = <<>>

(* start(): the first call of runPublisher.                                  *)
start ==
  IF isRunning THEN UNCHANGED publisherVars
  ELSE /\ isRunning' = TRUE
       /\ publishEvents("runner", events)
       /\ UNCHANGED <<added, intervalId, acknowledged, received, faults>>

stop ==
  IF ~isRunning THEN UNCHANGED publisherVars
  ELSE /\ isRunning' = FALSE
       /\ intervalId' = "none"
       /\ publishEvents("stop", events)
       /\ UNCHANGED <<added, acknowledged, received, faults>>

addEvent(e) ==
  LET list == Append(events, e)
  IN /\ e \notin added
     /\ added' = added \union {e}
     /\ IF Len(list) >= MaxPendingEvents
        THEN publishEvents("addEvent", list)
        ELSE events' = list /\ UNCHANGED inflight
     /\ UNCHANGED <<isRunning, intervalId, acknowledged, received, faults>>

(* The timer of runPublisher fires.                                          *)
RunnerTimer ==
  /\ intervalId = "armed" /\ intervalId' = "fired"
  /\ publishEvents("runner", events)
  /\ UNCHANGED <<added, isRunning, acknowledged, received, faults>>

(* What follows a call of publishEvents: the runner arms its timer while the *)
(* publisher runs.                                                           *)
continues(by) ==
  intervalId' = IF by = "runner" /\ isRunning THEN "armed" ELSE intervalId

Contents(list) == {list[i] : i \in DOMAIN list}

(* The collector answers 200, or there was nothing to send.                  *)
Published ==
  \E i \in DOMAIN inflight :
    LET batch == inflight[i]
    IN /\ inflight' = RemoveAt(inflight, i)
       /\ acknowledged' = acknowledged \union Contents(batch.list)
       /\ received' = received \union Contents(batch.list)
       /\ continues(batch.by)
       /\ UNCHANGED <<added, events, isRunning, faults>>

(* Another answer, an error of the network or the timeout of the request,    *)
(* which may come although the collector has got the events.                 *)
PublishFails ==
  \E i \in DOMAIN inflight :
    LET batch == inflight[i]
    IN /\ batch.list # <<>>
       /\ faults < MaxFaults /\ faults' = faults + 1
       /\ inflight' = RemoveAt(inflight, i)
       /\ events' = events \o batch.list
       /\ \/ received' = received \union Contents(batch.list)
          \/ UNCHANGED received
       /\ continues(batch.by)
       /\ UNCHANGED <<added, isRunning, acknowledged>>

PublisherSteps == RunnerTimer \/ Published \/ PublishFails
-----------------------------------------------------------------------------
PublisherTypeOK ==
  /\ added \subseteq Events /\ acknowledged \subseteq Events /\ received \subseteq Events
  /\ events \in Seq(Events)
  /\ isRunning \in BOOLEAN
  /\ intervalId \in {"none", "armed", "fired"}
  /\ faults \in 0..MaxFaults
  /\ inflight \in Seq([by : {"runner", "addEvent", "stop"}, list : Seq(Events)])

Distinct(list) == \A j, k \in DOMAIN list : list[j] = list[k] => j = k

(* The events that are owed to the collector are in the list or in one of    *)
(* the batches, each in one place only.                                      *)
Placed(list, batches, owed) ==
  /\ Distinct(list)
  /\ \A i \in DOMAIN batches :
       /\ Distinct(batches[i].list)
       /\ Contents(batches[i].list) \intersect Contents(list) = {}
       /\ \A k \in DOMAIN batches :
            k # i => Contents(batches[i].list) \intersect Contents(batches[k].list) = {}
  /\ owed = Contents(list) \union UNION {Contents(batches[i].list) : i \in DOMAIN batches}

(* No event is lost or doubled by the publisher: until the collector has     *)
(* confirmed it, it is in the list or in exactly one batch on its way, and   *)
(* never again afterwards, however batches overlap and fail.                 *)
OnePlace == acknowledged \subseteq added /\ Placed(events, inflight, added \ acknowledged)

isSending(e) == \E i \in DOMAIN inflight : e \in Contents(inflight[i].list)

runnerCalls == {i \in DOMAIN inflight : inflight[i].by = "runner"}

(* The chain of the runner never breaks and never doubles: as long as the    *)
(* publisher runs, either a call of publishEvents is on its way that will    *)
(* arm the timer, or the timer is armed; a publisher that is stopped has no  *)
(* timer.                                                                    *)
OneRunner ==
  IF isRunning
  THEN IF intervalId = "armed" THEN runnerCalls = {} ELSE \E i \in DOMAIN inflight : runnerCalls = {i}
  ELSE intervalId # "armed"
=============================================================================
