--------------------------- MODULE MCMultiProvider ---------------------------
(* The evaluations and the status tracker of a multi-provider do not         *)
(* interact, because no status the tracker keeps changes which providers are *)
(* asked: each is checked on its own, and so are the multi-provider of the   *)
(* web SDK, its answers apart from its contexts, and the registration of     *)
(* both.  "subject" says which.                                              *)
EXTENDS MultiProvider, ProviderRegistration, TLC

CONSTANTS Contexts, Changes,
          Lists         \* what the constructors are given

ASSUME ListsTyped ==
  \A l \in Lists : l \in Seq([name : Names \union {NoName}, type : Names]) /\ Len(l) <= MaxProviders

VARIABLES subject, promise, initialized, actual, statuses, sdk, heard,
          context, contexts, change, status, overlapped, results, webOutcome, list

Tracker == INSTANCE StatusTracker
Web == INSTANCE WebMultiProvider WITH outcome <- webOutcome

trackerVars == <<promise, initialized, actual, statuses, sdk, heard>>
webVars == <<context, contexts, change, status, overlapped, results, webOutcome>>
mcVars == <<vars, trackerVars, webVars, list, subject>>

(* Providers with names that were given or not; "a-1" is like an index.      *)
MCEntries == [name : {NoName, "a", "b", "a-1"}, type : {"a", "b"}]
MCLists == UNION {[1 .. n -> MCEntries] : n \in 1 .. 3}
MCIndexed == [p \in Names \X (1 .. MaxProviders) |-> p[1] \o "-" \o ToString(p[2])]

MCInit ==
  /\ Init /\ Tracker!Init /\ Web!Init /\ list = <<>>
  /\ subject \in {"evaluation", "tracker", "web answers", "web contexts", "registration"}
  /\ subject \notin {"evaluation", "web answers"} => strategy = "FirstMatch"
  /\ subject # "web contexts" => context = "c1"

Evaluation == subject = "evaluation" /\ Next /\ UNCHANGED <<trackerVars, webVars, list, subject>>
Tracking == subject = "tracker" /\ Tracker!Next /\ UNCHANGED <<vars, webVars, list, subject>>
OnTheWeb == /\ Web!Next
            /\ \/ subject = "web answers" /\ UNCHANGED change
               \/ subject = "web contexts" /\ results' = <<>>
            /\ UNCHANGED <<call, stage, result, hookVars, outcome, trackerVars, list, subject>>
Register == /\ subject = "registration"
            /\ list' \in IF list = <<>> THEN Lists ELSE {<<>>}
            /\ UNCHANGED <<vars, trackerVars, webVars, subject>>

MCSpec == /\ MCInit /\ [][Evaluation \/ Tracking \/ OnTheWeb \/ Register]_mcVars
          /\ WF_mcVars(Evaluation /\ call = "running")

(* The properties of StatusTracker, WebMultiProvider, ProviderRegistration.  *)
TrackerTypeOK == Tracker!TypeOK
SdkFollowsTracker == Tracker!SdkFollowsTracker
WebAnswers == Web!WebAnswers
ContextsFollow == Web!ContextsFollow
EntriesDistinct == RegisteredApart(list)
=============================================================================
