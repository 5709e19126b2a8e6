------------------------- MODULE OfrepConfiguration -------------------------
(* The settings of the OFREP provider of the server (configuration.ts) and   *)
(* the headers it sends (ofrep-provider-options.ts): options, the            *)
(* environment, and the ones the RemoteEvaluator of GO Feature Flag passes.  *)
(* A header is a record of its key and value; keys differ by case.           *)
EXTENDS Naturals, Sequences

CONSTANTS lower,        \* toLowerCase and trim, a function on the keys
          NaN           \* Number() of a text that is none

undefined == "undefined"
ASSUME NaNIsSome == NaN # undefined

unset == ""             \* a variable that is not set, or empty

(* One of the comma-separated entries of OFREP_HEADERS is skipped without an *)
(* equals sign and without a key.                                            *)
named(e) == e.equals /\ lower[e.key] # ""
parseHeaders(entries) ==
  LET headers[i \in 0 .. Len(entries)] ==
        IF i = 0 THEN <<>>
        ELSE IF named(entries[i]) THEN Append(headers[i - 1], entries[i]) ELSE headers[i - 1]
  IN headers[Len(entries)]

NoHeaders == [k \in {} |-> ""]

(* Map.set with the key in lower case, and a loop over it.                   *)
set(map, header) ==
  [k \in DOMAIN map \union {lower[header.key]} |-> IF k = lower[header.key] THEN header.value ELSE map[k]]
setAll(map, headers) ==
  LET headerMap[i \in 0 .. Len(headers)] ==
        IF i = 0 THEN map ELSE set(headerMap[i - 1], headers[i])
  IN headerMap[Len(headers)]

(* The environment first, then the options.                                  *)
mergeHeaders(env, options) == setAll(setAll(NoHeaders, env), options)

(* getEnvVarConfig: a variable that is empty or no number is no setting.     *)
envTimeout(env) == IF env.timeoutMs \in {unset, NaN} THEN undefined ELSE env.timeoutMs

(* getConfig: a key of the options counts even when its value is undefined,  *)
(* but for the URL, where undefined falls through.                           *)
getConfig(env, options) ==
  [baseUrl |-> IF options.baseUrl # undefined THEN options.baseUrl ELSE env.baseUrl,
   timeoutMs |-> IF "timeoutMs" \in DOMAIN options THEN options.timeoutMs ELSE envTimeout(env),
   headers |-> mergeHeaders(parseHeaders(env.headers), options.headers)]

(* The options of a RemoteEvaluator always have a timeout, if only undefined.*)
remoteOptions(endpoint, timeout, authorization) ==
  [baseUrl |-> endpoint, timeoutMs |-> timeout,
   headers |-> <<[key |-> "Content-Type", value |-> "json"]>> \o authorization]

(* buildHeaders: what a request sends.  Headers with several values for a    *)
(* key sends all of them.                                                    *)
buildHeaders(config) ==
  LET default == [k \in {"content-type"} |-> <<"json; charset=utf-8">>]
      given == [k \in DOMAIN config.headers |-> <<config.headers[k]>>]
  IN [k \in DOMAIN default \union DOMAIN given |->
        (IF k \in DOMAIN default THEN default[k] ELSE <<>>) \o (IF k \in DOMAIN given THEN given[k] ELSE <<>>)]
-----------------------------------------------------------------------------
(* The headers with a key, and the value of the last of some headers.        *)
Of(headers, k) == {i \in DOMAIN headers : lower[headers[i].key] = k}
Latest(headers, some) == headers[CHOOSE i \in some : \A j \in some : j <= i].value

(* Each header that is configured is sent once, with the last value of the   *)
(* options, in whatever case, and else with the last one of the environment; *)
(* the content type is sent beside the default.  The timeout is a number or  *)
(* none unless an option says otherwise (configuration.ts:59-148,            *)
(* ofrep-provider-options.ts:42-49).                                         *)
SettingsMerged(env, options) ==
  LET config == getConfig(env, options)
      sent == buildHeaders(config)
      fromEnv(k) == {i \in Of(env.headers, k) : env.headers[i].equals}
      fromOptions(k) == Of(options.headers, k)
      configured(k) == fromEnv(k) # {} \/ fromOptions(k) # {}
      value(k) == IF fromOptions(k) # {} THEN Latest(options.headers, fromOptions(k))
                                         ELSE Latest(env.headers, fromEnv(k))
      keys == {lower[k] : k \in DOMAIN lower} \ {""}
  IN /\ \A k \in keys \ {"content-type"} :
          IF configured(k) THEN k \in DOMAIN sent /\ sent[k] = <<value(k)>> ELSE k \notin DOMAIN sent
     /\ Len(sent["content-type"]) = (IF configured("content-type") THEN 2 ELSE 1)
     /\ config.timeoutMs \in {NaN, unset} => "timeoutMs" \in DOMAIN options
=============================================================================
