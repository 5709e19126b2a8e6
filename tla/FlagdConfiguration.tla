-------------------------- MODULE FlagdConfiguration --------------------------
(* The settings of the flagd provider (flagd/src/lib/configuration.ts).  The *)
(* text of an environment variable is one of a few strings; a setting that   *)
(* is not given is "unset", and one that an option names without a value is  *)
(* "undefined".                                                              *)
EXTENDS Naturals

(* Config: the names of the settings, by the way the environment gives them. *)
TextSettings == {"host", "socketPath", "certPath", "selector", "offlineFlagSourcePath", "defaultAuthority"}
NumberSettings == {"port", "deadlineMs", "streamDeadlineMs", "retryBackoffMs", "retryBackoffMaxMs", "keepAliveTime"}
CountSettings == {"maxCacheSize", "retryGracePeriod"}
Settings == TextSettings \union NumberSettings \union CountSettings
              \union {"tls", "cache", "resolverType", "fatalStatusCodes"}
Variables == Settings \union {"syncPort"}      \* FLAGD_SYNC_PORT

(* What the texts are as numbers; the others are NaN.                        *)
EnvTexts == {"unset", "", "0", "7", "9", "rpc", "RPC", "in-process", "IN-PROCESS", "lru", "disabled", "true", " A,,B "}
Number(text) == IF text \in {"0", "7", "9"} THEN text ELSE IF text = "" THEN "0" ELSE "NaN"
toLowerCase(text) == IF text = "RPC" THEN "rpc" ELSE IF text = "IN-PROCESS" THEN "in-process" ELSE text
Truthy(value) == value \notin {"unset", "", "0", "NaN"}
TruthyText(text) == text \notin {"unset", ""}

(* DEFAULT_RPC_CONFIG and DEFAULT_IN_PROCESS_CONFIG                          *)
DefaultConfig(resolverType) ==
  [s \in Settings |->
    CASE s = "resolverType" -> resolverType
      [] s = "port" -> IF resolverType = "rpc" THEN "8013" ELSE "8015"
      [] s \in {"deadlineMs", "streamDeadlineMs", "retryBackoffMs", "retryBackoffMaxMs", "keepAliveTime",
                "maxCacheSize", "retryGracePeriod", "host", "tls", "selector", "cache"} -> "default"
      [] OTHER -> "unset"]

(* Mutant: every setting is taken as it is written.                          *)
getEnvVarConfigUnchecked(env) == [s \in Settings |-> env[s]]

(* getEnvVarConfig: "unset" for what it leaves out.                          *)
getEnvVarConfig(env) ==
  [s \in Settings |->
    CASE s \in NumberSettings ->
           IF s = "port" /\ Truthy(Number(env["syncPort"])) THEN env["syncPort"]
           ELSE IF Truthy(Number(env[s])) THEN Number(env[s]) ELSE "unset"
      [] s \in CountSettings -> IF TruthyText(env[s]) THEN Number(env[s]) ELSE "unset"
      [] s \in TextSettings -> IF TruthyText(env[s]) THEN env[s] ELSE "unset"
      [] s = "tls" -> IF TruthyText(env[s]) THEN IF env[s] = "true" THEN "true" ELSE "false" ELSE "unset"
      [] s = "cache" -> IF env[s] \in {"lru", "disabled"} THEN env[s] ELSE "unset"
      [] s = "resolverType" -> IF toLowerCase(env[s]) \in {"rpc", "in-process"} THEN toLowerCase(env[s]) ELSE "unset"
      [] s = "fatalStatusCodes" -> IF env[s] = " A,,B " THEN "A,B" ELSE IF env[s] = "" THEN "unset" ELSE env[s]]

(* { ...low, ...high } *)
Spread(low, high) == [s \in Settings |-> IF high[s] # "unset" THEN high[s] ELSE low[s]]
NullIsh(value) == value \in {"unset", "undefined"}

(* getConfig *)
getConfig(env, options) ==
  LET fromEnv == getEnvVarConfig(env)
      default == DefaultConfig(IF "in-process" \in {options.resolverType, fromEnv.resolverType}
                                 THEN "in-process" ELSE "rpc")
      merged == Spread(Spread(default, fromEnv), options)
  IN IF NullIsh(options.streamDeadlineMs)
       THEN [merged EXCEPT !.streamDeadlineMs = Spread(default, fromEnv).streamDeadlineMs]
       ELSE merged

-----------------------------------------------------------------------------
(* What the environment says never leaves a setting without its default: a   *)
(* number that is not one, or zero, counts as not given, a cache or resolver *)
(* nobody knows too, and of two ports the one for the sync service wins.     *)
(* Only maxCacheSize and retryGracePeriod become NaN for a text that is not  *)
(* a number.  An option without a value hides a setting, the deadline of the *)
(* stream excepted (configuration.ts:200-286).                               *)
SettingsUsable(env, options) ==
  LET config == getConfig(env, options)
      Given(s) == options[s] # "unset"
  IN /\ \A s \in NumberSettings : config[s] = "undefined" => Given(s) /\ s # "streamDeadlineMs"
     /\ \A s \in NumberSettings : ~Given(s) => config[s] \in {"default", "8013", "8015", "7", "9"}
     /\ \A s \in CountSettings : ~Given(s) /\ config[s] = "NaN" => env[s] \notin {"unset", "", "0", "7", "9"}
     /\ ~Given("port") /\ env["syncPort"] \in {"7", "9"} => config.port = env["syncPort"]
     /\ ~Given("cache") => config.cache \in {"default", "lru", "disabled"}
     /\ ~Given("resolverType") => config.resolverType \in {"rpc", "in-process"}
=============================================================================
