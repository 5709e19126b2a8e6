---------------------------- MODULE OfrepProvider ----------------------------
(* The OFREP provider of the server (ofrep-provider.ts) over the HTTP client *)
(* it shares with the web provider (ofrep-core: ofrep-api.ts, errors.ts).    *)
(* The SDK uses it as a provider of its own or through the RemoteEvaluator   *)
(* of the GO Feature Flag provider.  Each evaluation is one request; a call  *)
(* is in the phase of the await it is suspended at.                          *)
EXTENDS Naturals, Sequences

CONSTANTS Calls,     \* evaluations that may run at the same time
          Types,     \* the types of a flag
          MaxPause   \* bound: the longest Retry-After, in ticks

ASSUME MaxPauseAssumption == MaxPause \in Nat

VARIABLES owner,       \* "sdk" or "goff": who calls the provider
          closed,      \* has the SDK called onClose()?
          aborted,     \* _shutdownController.signal.aborted
          notBefore,   \* <<>> (null), or <<how long it still is in the future>>
          asked,       \* how much longer the latest 429 asked to wait (not in the code)
          call

ofrepVars == <<owner, closed, aborted, notBefore, asked, call>>

ErrorStatuses == {400, 404, 500}
Statuses == {200, 304, 401, 403, 429, 503} \union ErrorStatuses

(* What the body of a response turns out to be; a disabled flag has no value.*)
Bodies == {[form |-> "unparsable", value |-> "undefined"], [form |-> "failure", value |-> "undefined"]}
            \union [form : {"success"}, value : Types \union {"undefined"}]

(* The header Retry-After, its date given as the time until then (0: past).  *)
RetryAfters == {<<"none">>, <<"garbage">>} \union ({"seconds", "date"} \X (0..MaxPause))

NoCall == [phase |-> "idle"]
Settled(default, status, body, outcome) ==
  [phase |-> "settled", default |-> default, status |-> status, body |-> body, outcome |-> outcome]
NoBody == [form |-> "unparsable", value |-> "undefined"]

OfrepInit ==
  /\ owner \in {"sdk", "goff"}
  /\ closed = FALSE /\ aborted = FALSE
  /\ notBefore = <<>> /\ asked = 0
  /\ call = [c \in Calls |-> NoCall]
-----------------------------------------------------------------------------
(* A mutant: seconds are read as a date as well, which is long past.         *)
retryAfterDateOnly(header) ==
  CASE header[1] \in {"none", "garbage"} -> <<>>
    [] header[1] = "seconds" -> <<0>>
    [] OTHER -> <<header[2]>>

(* retryAfterDate of the error; zero seconds are read as a date, long past.  *)
retryAfterDate(header) ==
  IF header[1] \in {"none", "garbage"} THEN <<>> ELSE <<header[2]>>

(* The errors of doFetchRequest for a status, "" for none.                   *)
refused(status, json) ==
  CASE status = 401 -> "unauthorized"
    [] status = 403 -> "forbidden"
    [] status = 429 -> "limited"
    [] status = 200 /\ ~json -> "unexpected"
    [] OTHER -> ""

toResolutionDetails(body, default) ==
  IF body.value \in {"undefined", default} THEN <<"value", default>>
                                           ELSE <<"error", "TYPE_MISMATCH">>

(* postEvaluateFlag after doFetchRequest, and what evaluate makes of it:     *)
(* failures the server describes become details, errors are thrown.          *)
postEvaluateFlag(status, body, default) ==
  CASE status = 200 /\ body.form = "success" -> toResolutionDetails(body, default)
    [] status \in ErrorStatuses /\ body.form = "failure" -> <<"error", "of the server">>
    [] OTHER -> <<"thrown", "unexpected">>
-----------------------------------------------------------------------------
settle(c, outcome) ==
  call' = [call EXCEPT ![c] = Settled(@.default, @.status, NoBody, outcome)]

(* evaluate up to the await of the headers; a pause that is over is          *)
(* forgotten.                                                                *)
evaluate(c, default) ==
  LET request == [phase |-> "headers", default |-> default, status |-> 0]
  IN /\ ~closed
     /\ call[c].phase \in {"idle", "settled"}
     /\ call' = [call EXCEPT ![c] =
                  IF notBefore # <<>> /\ notBefore # <<0>>
                    THEN Settled(default, 0, NoBody, <<"thrown", "paused">>) ELSE request]
     /\ notBefore' = IF notBefore = <<0>> THEN <<>> ELSE notBefore
     /\ UNCHANGED <<owner, closed, aborted, asked>>

(* A mutant: nobody looks whether the signal has been aborted already.       *)
doFetchRequestUnchecked(c) ==
  /\ call[c].phase = "headers"
  /\ call' = [call EXCEPT ![c].phase = "fetch"]
  /\ UNCHANGED <<owner, closed, aborted, notBefore, asked>>

(* doFetchRequest up to its await, once the headers are built.               *)
doFetchRequest(c) ==
  /\ call[c].phase = "headers"
  /\ IF aborted THEN settle(c, <<"thrown", "fetch">>)
                ELSE call' = [call EXCEPT ![c].phase = "fetch"]
  /\ UNCHANGED <<owner, closed, aborted, notBefore, asked>>

(* The timer of the request rejects the fetch, as an error of the network    *)
(* does.                                                                     *)
Timeout(c) ==
  /\ call[c].phase = "fetch"
  /\ settle(c, <<"thrown", "fetch">>)
  /\ UNCHANGED <<owner, closed, aborted, notBefore, asked>>

(* The status and the headers of a response.                                 *)
Responds(c, status, json, header) ==
  /\ call[c].phase = "fetch"
  /\ IF refused(status, json) = ""
       THEN call' = [call EXCEPT ![c].phase = "body", ![c].status = status]
       ELSE call' = [call EXCEPT ![c] =
                      Settled(@.default, status, NoBody, <<"thrown", refused(status, json)>>)]
  /\ IF status = 429
       THEN /\ notBefore' = retryAfterDate(header)
            /\ asked' = IF Len(header) = 2 THEN header[2] ELSE 0
       ELSE UNCHANGED <<notBefore, asked>>
  /\ UNCHANGED <<owner, closed, aborted>>

(* Its body.  Neither the timeout nor onClose() ends the wait for it.        *)
BodyRead(c, body) ==
  /\ call[c].phase = "body"
  /\ call' = [call EXCEPT ![c] =
               Settled(@.default, @.status, body, postEvaluateFlag(@.status, body, @.default))]
  /\ UNCHANGED <<owner, closed, aborted, notBefore, asked>>

(* onClose() rejects every fetch; the RemoteEvaluator does not pass it on.   *)
onCloseOfrep ==
  /\ ~closed
  /\ closed' = TRUE
  /\ aborted' = (owner = "sdk")
  /\ call' = IF owner = "goff" THEN call
             ELSE [c \in Calls |-> IF call[c].phase = "fetch"
                     THEN Settled(call[c].default, 0, NoBody, <<"thrown", "fetch">>) ELSE call[c]]
  /\ UNCHANGED <<owner, notBefore, asked>>

(* Time passes.                                                              *)
Tick ==
  /\ asked > 0 \/ notBefore \notin {<<>>, <<0>>}
  /\ asked' = IF asked = 0 THEN 0 ELSE asked - 1
  /\ notBefore' = IF notBefore \in {<<>>, <<0>>} THEN notBefore ELSE <<notBefore[1] - 1>>
  /\ UNCHANGED <<owner, closed, aborted, call>>

OfrepNext ==
  \/ \E c \in Calls :
       \/ \E default \in Types : evaluate(c, default)
       \/ doFetchRequest(c) \/ Timeout(c)
       \/ \E status \in Statuses, json \in BOOLEAN, header \in RetryAfters :
            /\ status # 200 => json
            /\ status # 429 => header = <<"none">>
            /\ Responds(c, status, json, header)
       \/ \E body \in Bodies : BodyRead(c, body)
  \/ onCloseOfrep \/ Tick

(* Header factories settle, timers fire, and a body that has begun arrives.  *)
OfrepFairness ==
  \A c \in Calls :
    /\ WF_ofrepVars(doFetchRequest(c)) /\ WF_ofrepVars(Timeout(c))
    /\ WF_ofrepVars(\E body \in Bodies : BodyRead(c, body))
-----------------------------------------------------------------------------
OfrepTypeOK ==
  /\ owner \in {"sdk", "goff"}
  /\ {closed, aborted} \subseteq BOOLEAN
  /\ asked \in 0..MaxPause
  /\ notBefore \in {<<>>} \union {<<n>> : n \in 0..MaxPause}
  /\ \A c \in Calls : call[c].phase \in {"idle", "headers", "fetch", "body", "settled"}

(* An evaluation is refused without a request exactly as long as the latest  *)
(* 429 asked to wait, whatever overlapping calls have been answered          *)
(* (ofrep-provider.ts:79-84, errors.ts:84-105).                              *)
PauseFollowsServer ==
  [][\A c \in Calls, default \in Types :
       evaluate(c, default) => (call'[c].phase = "settled" <=> asked > 0)]_ofrepVars

(* A call returns a value only if the server has sent one of the type of the *)
(* default, or none for a disabled flag; every such answer is returned       *)
(* (ofrep-api.ts:126-149, 235-264).                                          *)
AnswersAreTheServers ==
  \A c \in Calls :
    call[c].phase = "settled" =>
      ( <<"value", call[c].default>> = call[c].outcome
          <=> /\ call[c].status = 200 /\ call[c].body.form = "success"
              /\ call[c].body.value \in {"undefined", call[c].default})
      /\ (call[c].outcome[1] = "value" => call[c].outcome[2] = call[c].default)

(* A provider the SDK has closed has no request waiting for a response, even *)
(* if its headers were being built when it was closed (ofrep-api.ts:86-104). *)
ClosedSendsNothing == closed /\ owner = "sdk" => \A c \in Calls : call[c].phase # "fetch"

(* Both, with the types of the variables.                                    *)
AnsweredByServer == OfrepTypeOK /\ AnswersAreTheServers /\ ClosedSendsNothing

(* Every evaluation ends, whether the server answers or not.                 *)
EvaluationsEnd == \A c \in Calls : call[c].phase = "headers" ~> call[c].phase = "settled"
=============================================================================
