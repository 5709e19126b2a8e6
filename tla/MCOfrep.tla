------------------------------- MODULE MCOfrep -------------------------------
(* The parts of OFREP beside the web provider, for TLC: the connections of   *)
(* SseManager, the provider of the server, and the settings of this.  A      *)
(* behaviour is about one; the variables of the others rest.                 *)
EXTENDS SseManager, OfrepProvider, OfrepConfiguration

CONSTANTS EnvInputs,    \* what the environment variables may be
          OptionInputs  \* the options given with them

ASSUME InputsTyped ==
  /\ \A env \in EnvInputs : env.headers \in Seq([key : DOMAIN lower, value : STRING, equals : BOOLEAN])
  /\ \A options \in OptionInputs : options.headers \in Seq([key : DOMAIN lower, value : STRING])

VARIABLES subject,      \* "sse", "server" or "settings"
          input

MCLower == [k \in {"", "a", "A", "Content-Type"} |->
              CASE k = "A" -> "a" [] k = "Content-Type" -> "content-type" [] OTHER -> k]

MCHeaders == [key : DOMAIN MCLower, value : {"v", "w"}]
UpTo2(S) == UNION {[1 .. n -> S] : n \in 0 .. 2}
MCEntries == {[key |-> h.key, value |-> h.value, equals |-> e] : h \in MCHeaders, e \in BOOLEAN}
MCEnvInputs ==
  {[baseUrl |-> "url", timeoutMs |-> t, headers |-> h] : t \in {"", NaN, "5"}, h \in UpTo2(MCEntries)}
MCOptionInputs ==
  {[baseUrl |-> u, headers |-> h] : u \in {"undefined", "url"}, h \in UpTo2({h \in MCHeaders : h.key # ""})}
    \union {remoteOptions("url", t, a) :
              t \in {"undefined", "7"}, a \in {<<>>, <<[key |-> "a", value |-> "key"]>>}}

NoInput == [none |-> TRUE]

MCInit ==
  /\ subject \in {"sse", "server", "settings"}
  /\ input = NoInput
  /\ SseInit /\ OfrepInit
  /\ subject # "server" => owner = "sdk"
  /\ subject # "sse" => ~hidden

MCNext ==
  \/ subject = "sse" /\ SseNext /\ UNCHANGED <<ofrepVars, subject, input>>
  \/ subject = "server" /\ OfrepNext /\ UNCHANGED <<sseVars, subject, input>>
  \/ /\ subject = "settings" /\ input = NoInput
     /\ \E env \in EnvInputs, options \in OptionInputs : input' = [env |-> env, options |-> options]
     /\ UNCHANGED <<sseVars, ofrepVars, subject>>

MCSpec ==
  /\ MCInit /\ [][MCNext]_<<sseVars, ofrepVars, subject, input>>
  /\ SseFairness /\ OfrepFairness

(* A request of the provider is made with the settings as merged, and its    *)
(* answer is the one of the server (configuration.ts:59-148,                 *)
(* ofrep-provider.ts:41-112, ofrep-api.ts:90-277).                           *)
AskedAndAnswered ==
  /\ AnsweredByServer
  /\ input # NoInput => SettingsMerged(input.env, input.options)

(* What has been asked for is done some day: a notification is passed on, an *)
(* evaluation ends (sse-manager.ts:252-260, ofrep-api.ts:90-147).            *)
NothingLeftPending == Delivered /\ EvaluationsEnd
=============================================================================
