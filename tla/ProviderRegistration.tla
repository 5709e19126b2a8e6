------------------------- MODULE ProviderRegistration -------------------------
(* registerProviders of both multi-providers: the names and the order of the *)
(* entries made of the constructor's list.  A provider of the list has a     *)
(* name if the caller gave one, and the name of its metadata.                *)
EXTENDS Integers, Sequences, FiniteSets

CONSTANTS Names,        \* names that are given, or of metadata
          MaxProviders, \* bound: providers of a list
          indexed       \* a name, "-" and a number: from 1, as there are providers

(* Such a text ends in its number: it determines the name and the number.    *)
ASSUME IndexedApart ==
  /\ MaxProviders \in Nat
  /\ DOMAIN indexed = Names \X (1 .. MaxProviders)
  /\ \A p, q \in DOMAIN indexed : indexed[p] = indexed[q] => p = q

NoName == "undefined"

candidateName(entry) == IF entry.name = NoName THEN entry.type ELSE entry.name

(* Mutant: only names that were both given count as the same.                *)
throwsForGiven(list) ==
  \E i \in DOMAIN list : \E j \in 1 .. i - 1 : list[i].name # NoName /\ list[j].name = list[i].name

(* "Provider names must be unique": a name given after a provider with it.   *)
throws(list) ==
  \E i \in DOMAIN list : \E j \in 1 .. i - 1 :
    list[i].name # NoName /\ candidateName(list[j]) = list[i].name

(* providersByName[name], as positions in the list.                          *)
sameName(list, i) == {j \in DOMAIN list : candidateName(list[j]) = candidateName(list[i])}
least(S) == CHOOSE i \in S : \A j \in S : i <= j

(* The loop over Object.keys: name by name in the order of the first of each,*)
(* for names that are no array indices.                                      *)
before(list, i) ==
  {j \in DOMAIN list : \/ least(sameName(list, j)) < least(sameName(list, i))
                       \/ sameName(list, j) = sameName(list, i) /\ j < i}
position(list, k) == CHOOSE i \in DOMAIN list : Cardinality(before(list, i)) = k - 1

indexedName(list, i) ==
  IF sameName(list, i) = {i} THEN candidateName(list[i])
  ELSE indexed[candidateName(list[i]), Cardinality({j \in sameName(list, i) : j <= i})]

(* providerEntries *)
providerEntries(list) ==
  [k \in DOMAIN list |-> [provider |-> position(list, k), name |-> indexedName(list, position(list, k))]]

-----------------------------------------------------------------------------
(* The maps of the multi-provider and of its status tracker have the names   *)
(* as keys: no two entries share one, unless a name already ends like an     *)
(* indexed one; every provider has one entry; and a name that was given is   *)
(* kept unless a provider without a name that follows has it for its own     *)
(* (multi-provider.ts:64-92, multi-provider-web.ts:68-96).                   *)
RegisteredApart(list) ==
  LET entries == providerEntries(list)
      Clash(i, j) == i # j /\ candidateName(list[i]) = indexedName(list, j)
  IN ~throws(list) =>
       /\ \A i \in DOMAIN list : \E k \in DOMAIN entries : entries[k].provider = i
       /\ \A j, k \in DOMAIN entries :
            j # k /\ entries[j].name = entries[k].name =>
              \E m, n \in {j, k} : Clash(entries[m].provider, entries[n].provider)
       /\ \A k \in DOMAIN entries :
            LET i == entries[k].provider
            IN list[i].name # NoName /\ entries[k].name # list[i].name =>
                 \E j \in DOMAIN list : j > i /\ list[j].name = NoName /\ list[j].type = list[i].name
=============================================================================
