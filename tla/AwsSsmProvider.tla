--------------------------- MODULE AwsSsmProvider ---------------------------
(* The AWS SSM provider (aws-ssm-provider.ts, ssm-service.ts, cache.ts):     *)
(* flags are parameters read over the network through a cache of some size   *)
(* and age.  The parameter store and the LRU cache are external.             *)
EXTENDS Naturals, Sequences, SequencesExt

CONSTANTS Names,        \* parameters
          Asks,         \* the types the application asks each of them for
          Requests,     \* evaluations that can be on their way at once
          Ttl, Size,    \* options.cacheOpts: a time to live of 0 would be none
          MaxClock, MaxWrites \* bounds

ASSUME AsksTyped == Asks \in [Names -> SUBSET {"boolean", "string", "number", "object"}]
ASSUME SsmBounds == Ttl \in Nat \ {0} /\ Size \in Nat \ {0} /\ MaxClock \in Nat /\ MaxWrites \in Nat

(* What a text is when it is parsed as JSON; "none" cannot be parsed.        *)
Texts == {"boolean", "number", "object", "none"}

VARIABLES clock,
          enabled, enableDecryption, \* options
          parameter,    \* the text of each parameter, and how often it was written
          since,        \* when each of its texts was written (not in the code)
          lru,          \* the entries, the one used last at the end
          request,
          answer        \* what the last evaluation to settle returned, if any

ssmVars == <<clock, enabled, enableDecryption, parameter, since, lru, request, answer>>
NoRequest == [phase |-> "idle"]

SsmInit ==
  /\ clock = 0 /\ enabled \in BOOLEAN /\ enableDecryption \in BOOLEAN
  /\ parameter \in [Names -> [text : Texts, version : {1}]]
  /\ since = [n \in Names |-> <<0>>]
  /\ lru = <<>>
  /\ request = [r \in Requests |-> NoRequest]
  /\ answer = {}

Write ==
  /\ \E n \in Names, t \in Texts :
       /\ parameter[n].version <= MaxWrites
       /\ parameter' = [parameter EXCEPT ![n] = [text |-> t, version |-> @.version + 1]]
       /\ since' = [since EXCEPT ![n] = Append(@, clock)]
  /\ answer' = {}
  /\ UNCHANGED <<clock, enabled, enableDecryption, lru, request>>

Pass ==
  /\ clock < MaxClock /\ clock' = clock + 1
  /\ answer' = {}
  /\ UNCHANGED <<enabled, enableDecryption, parameter, since, lru, request>>

-----------------------------------------------------------------------------
(* The LRU cache: an entry that is too old is none; the one used longest ago *)
(* goes when there are too many.                                             *)
entry(n) == {e \in Range(lru) : enabled /\ e.name = n /\ clock <= e.start + e.ttl}
others(n) == LET places == {i \in DOMAIN lru : lru[i].name = n}
             IN IF places = {} THEN lru ELSE RemoveAt(lru, CHOOSE i \in places : TRUE)
fitting(list) == IF Len(list) > Size THEN Tail(list) ELSE list

(* A mutant: an entry is stored without its time to live.                    *)
storeForever(n, got, asked) ==
  lru' = fitting(Append(others(n), [name |-> n, start |-> clock, ttl |-> 2 * MaxClock, got |-> got, asked |-> asked]))

(* Cache.set with the time to live of the options.                           *)
store(n, got, asked) ==
  lru' = fitting(Append(others(n), [name |-> n, start |-> clock, ttl |-> Ttl, got |-> got, asked |-> asked]))

(* getBooleanValue, getStringValue, getNumberValue and getObjectValue: the   *)
(* type of the value, or "" for an error.  Any JSON is an object.            *)
converted(asked, text) ==
  CASE asked = "string" -> "string"
    [] asked \in {"boolean", "number"} -> IF text = asked THEN asked ELSE ""
    [] OTHER -> IF text = "none" THEN "" ELSE text

Answered(n, asked, reason, got, type) ==
  answer' = {[name |-> n, asked |-> asked, reason |-> reason, got |-> got, type |-> type]}

(* An evaluation that finds an entry for its key, whoever has stored it.     *)
Cached(n, asked) ==
  /\ \E e \in entry(n) :
       /\ lru' = Append(others(n), e)
       /\ Answered(n, asked, "CACHED", e.got, e.got.type)
  /\ UNCHANGED <<clock, enabled, enableDecryption, parameter, since, request>>

(* One that does not asks the store, with decryption for the type first.     *)
Ask(r, n, asked) ==
  /\ request[r] = NoRequest
  /\ entry(n) = {}
  /\ lru' = others(n)
  /\ request' = [request EXCEPT ![r] =
       [phase |-> IF enableDecryption THEN "describing" ELSE "getting", name |-> n, asked |-> asked, sent |-> clock]]
  /\ answer' = {}
  /\ UNCHANGED <<clock, enabled, enableDecryption, parameter, since>>

Described(r) ==
  /\ request[r].phase = "describing"
  /\ request' = [request EXCEPT ![r].phase = "getting"]
  /\ answer' = {}
  /\ UNCHANGED <<clock, enabled, enableDecryption, parameter, since, lru>>

(* The store reads the parameter; its response is on its way.                *)
Read(r) ==
  /\ request[r].phase = "getting"
  /\ request' = [request EXCEPT ![r] =
       [phase |-> "read", name |-> @.name, asked |-> @.asked, sent |-> @.sent, got |-> parameter[@.name]]]
  /\ answer' = {}
  /\ UNCHANGED <<clock, enabled, enableDecryption, parameter, since, lru>>

(* The response: only booleans and strings are cached.                       *)
Responds(r) ==
  /\ request[r].phase = "read"
  /\ LET q == request[r]
         type == converted(q.asked, q.got.text)
         got == [version |-> q.got.version, type |-> type, sent |-> q.sent]
     IN IF type = ""
        THEN Answered(q.name, q.asked, "ERROR", got, "default") /\ UNCHANGED lru
        ELSE /\ Answered(q.name, q.asked, "STATIC", got, type)
             /\ IF enabled /\ q.asked \in {"boolean", "string"} THEN store(q.name, got, q.asked) ELSE UNCHANGED lru
  /\ request' = [request EXCEPT ![r] = NoRequest]
  /\ UNCHANGED <<clock, enabled, enableDecryption, parameter, since>>

(* Either command is rejected, or the parameter is not there or empty.       *)
Rejects(r) ==
  /\ request[r] # NoRequest
  /\ LET q == request[r] IN
       Answered(q.name, q.asked, "ERROR", [version |-> 0, type |-> "", sent |-> q.sent], "default")
  /\ request' = [request EXCEPT ![r] = NoRequest]
  /\ UNCHANGED <<clock, enabled, enableDecryption, parameter, since, lru>>

SsmNext ==
  \/ Write \/ Pass
  \/ \E n \in Names : \E asked \in Asks[n] : Cached(n, asked) \/ \E r \in Requests : Ask(r, n, asked)
  \/ \E r \in Requests : Described(r) \/ Read(r) \/ Responds(r) \/ Rejects(r)

-----------------------------------------------------------------------------
(* Every answer that is not an error is a text the parameter had once the    *)
(* request that read it had been sent, and a cached one was stored within    *)
(* the time to live: requests that overtake each other can bring an older    *)
(* text back, but for no longer.                                             *)
AnswersRecent ==
  \A a \in answer : a.reason # "ERROR" =>
    LET v == a.got.version
    IN /\ v = Len(since[a.name]) \/ since[a.name][v + 1] >= a.got.sent
       /\ a.reason = "CACHED" => \E i \in DOMAIN lru : lru[i].name = a.name /\ clock <= lru[i].start + Ttl

(* An answer is of another type than the one asked for only when it is JSON  *)
(* asked for as an object, or was cached for an evaluation of another type:  *)
(* the cache knows the key alone.                                            *)
WrongTypeOnlyFromCache ==
  \A a \in answer : a.reason # "ERROR" /\ a.type # a.asked =>
    \/ a.asked = "object" /\ a.reason = "STATIC"
    \/ /\ a.reason = "CACHED"
       /\ \E i \in DOMAIN lru : lru[i].name = a.name /\ lru[i].asked # a.asked

(* Both, and no more entries than the size, one for a key                    *)
(* (aws-ssm-provider.ts:23-146, cache.ts:18-31).                             *)
CachedIsRecent ==
  /\ AnswersRecent /\ WrongTypeOnlyFromCache
  /\ Len(lru) <= Size /\ \A i, j \in DOMAIN lru : i # j => lru[i].name # lru[j].name
=============================================================================
