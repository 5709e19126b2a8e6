---------------------------- MODULE Ofrep_proofs -----------------------------
(* The theorems about the parts of OFREP: the provider of the server, the    *)
(* SSE manager of the web provider, and the web provider itself.  They hold  *)
(* for any calls and types, any URLs, contexts and options, and any number   *)
(* of connects, errors, versions and tasks that overlap.                     *)
EXTENDS MCOfrep, OfrepWebProvider, FiniteSetTheorems, SequenceTheorems,
        WellFoundedInduction, TLAPS

-----------------------------------------------------------------------------
(* Induction                                                                 *)

(* Every nonempty set of natural numbers has a least element.                *)
LEMMA LeastNumber ==
  ASSUME NEW T, T \subseteq Nat, T # {}
  PROVE  \E x \in T : \A y \in T : x <= y
<1>1. IsWellFoundedOn(OpToRel(<, Nat), Nat)
  BY NatLessThanWellFounded
<1>2. PICK x \in T : \A y \in T : <<y, x>> \notin OpToRel(<, Nat)
  BY <1>1, WFMin
<1>3. \A y \in T : ~(y < x)
  BY <1>2 DEF OpToRel
<1> QED BY <1>3

(* Induction over the numbers of a set, which needs no operator to stand for *)
(* what is proved.                                                           *)
LEMMA SetInduction ==
  ASSUME NEW S, 0 \in S, \A n \in Nat : n \in S => n + 1 \in S
  PROVE  Nat \subseteq S
<1> SUFFICES ASSUME Nat \ S # {} PROVE FALSE
  OBVIOUS
<1>1. PICK x \in Nat \ S : \A y \in Nat \ S : x <= y
  BY LeastNumber
<1>2. x - 1 \in Nat /\ x - 1 \in S
  BY <1>1
<1> QED BY <1>1, <1>2

(* What is computed step by step, from the value before and the number of    *)
(* the step, defines a function.                                             *)
Iterates(f, n, base, step) == f[0] = base /\ \A i \in 1 .. n : f[i] = step[i][f[i - 1]]

LEMMA Recursion ==
  ASSUME NEW n \in Nat, NEW S, NEW base \in S, NEW step \in [1 .. n -> [S -> S]]
  PROVE  \E f \in [0 .. n -> S] : Iterates(f, n, base, step)
<1> USE DEF Iterates
<1> DEFINE Up(k) == \E f \in [0 .. k -> S] : Iterates(f, k, base, step)
           Good == {k \in Nat : k <= n => Up(k)}
<1>1. Up(0)
  <2> DEFINE g == [i \in 0 .. 0 |-> base]
  <2>1. g \in [0 .. 0 -> S] /\ g[0] = base /\ 1 .. 0 = {}
    OBVIOUS
  <2> QED BY <2>1
<1>2. ASSUME NEW k \in Nat, k \in Good, k + 1 <= n PROVE Up(k + 1)
  <2>1. k <= n
    BY <1>2
  <2>2. PICK f \in [0 .. k -> S] : f[0] = base /\ \A i \in 1 .. k : f[i] = step[i][f[i - 1]]
    BY <1>2, <2>1
  <2> DEFINE g == [i \in 0 .. (k + 1) |-> IF i <= k THEN f[i] ELSE step[k + 1][f[k]]]
  <2>3. step[k + 1][f[k]] \in S
    BY <1>2
  <2>4. g \in [0 .. (k + 1) -> S]
    BY <2>3
  <2>5. g[0] = base /\ \A i \in 1 .. (k + 1) : g[i] = step[i][g[i - 1]]
    <3>1. ASSUME NEW i \in 1 .. (k + 1) PROVE g[i] = step[i][g[i - 1]]
      <4>1. CASE i = k + 1
        BY <4>1
      <4>2. CASE i # k + 1
        BY <2>2, <4>2
      <4> QED BY <4>1, <4>2
    <3>2. g[0] = base
      BY <2>2
    <3> HIDE DEF g
    <3> QED BY <3>1, <3>2
  <2> QED BY <2>4, <2>5
<1> HIDE DEF Up
<1>3. 0 \in Good
  BY <1>1
<1>4. \A k \in Nat : k \in Good => k + 1 \in Good
  BY <1>2
<1> HIDE DEF Good
<1>5. n \in Good
  BY <1>3, <1>4, SetInduction
<1>6. Up(n)
  BY <1>5 DEF Good
<1> QED BY <1>6 DEF Up

-----------------------------------------------------------------------------
(* The settings of the provider of the server: headers                       *)

(* The places of a key up to m, and those parseHeaders does not skip.        *)
Places(headers, k, m) == {i \in 1 .. m : lower[headers[i].key] = k}
Keyed(e, k) == lower[e.key] = k /\ e.equals
Kept(entries, k, m) == {i \in 1 .. m : Keyed(entries[i], k)}

LEMMA NextPlace ==
  ASSUME NEW s, NEW k, NEW m \in Nat
  PROVE  /\ Places(s, k, m + 1) = IF lower[s[m + 1].key] = k THEN Places(s, k, m) \union {m + 1} ELSE Places(s, k, m)
         /\ Kept(s, k, m + 1) = IF Keyed(s[m + 1], k) THEN Kept(s, k, m) \union {m + 1} ELSE Kept(s, k, m)
         /\ \A j \in Places(s, k, m) \union Kept(s, k, m) : j \in Nat /\ j <= m
BY DEF Places, Kept

(* What set, one header after the other, leaves.                             *)
Reached(map, headers, f, m) ==
  \A k : LET P == Places(headers, k, m)
         IN IF P = {} THEN /\ k \in DOMAIN f <=> k \in DOMAIN map
                           /\ k \in DOMAIN map => f[k] = map[k]
            ELSE k \in DOMAIN f /\ \E i \in P : f[k] = headers[i].value /\ \A j \in P : j <= i

LEMMA SetReaches ==
  ASSUME NEW map, NEW headers, NEW f, NEW m \in Nat, Reached(map, headers, f, m)
  PROVE  Reached(map, headers, set(f, headers[m + 1]), m + 1)
<1> DEFINE h == headers[m + 1]
           g == set(f, h)
<1>1. /\ DOMAIN g = DOMAIN f \union {lower[h.key]}
      /\ \A k \in DOMAIN g : g[k] = IF k = lower[h.key] THEN h.value ELSE f[k]
  BY DEF set
<1> HIDE DEF g
<1> SUFFICES ASSUME NEW k
             PROVE LET P == Places(headers, k, m + 1)
                   IN IF P = {} THEN /\ k \in DOMAIN g <=> k \in DOMAIN map
                                     /\ k \in DOMAIN map => g[k] = map[k]
                      ELSE k \in DOMAIN g /\ \E i \in P : g[k] = headers[i].value /\ \A j \in P : j <= i
  BY Zenon DEF Reached, g
<1> DEFINE P == Places(headers, k, m)
           Q == Places(headers, k, m + 1)
<1>2. IF P = {} THEN /\ k \in DOMAIN f <=> k \in DOMAIN map
                     /\ k \in DOMAIN map => f[k] = map[k]
      ELSE k \in DOMAIN f /\ \E i \in P : f[k] = headers[i].value /\ \A j \in P : j <= i
  BY Zenon DEF Reached
<1>3. /\ Q = IF lower[h.key] = k THEN P \union {m + 1} ELSE P
      /\ \A j \in P : j \in Nat /\ j <= m
  BY NextPlace
<1> HIDE DEF P, Q
<1>4. CASE lower[h.key] = k
  <2>1. m + 1 \in Q /\ \A j \in Q : j <= m + 1
    BY <1>3, <1>4
  <2>2. k \in DOMAIN g /\ g[k] = headers[m + 1].value
    BY <1>1, <1>4
  <2> QED BY <2>1, <2>2 DEF Q
<1>5. CASE lower[h.key] # k
  <2>1. Q = P
    BY <1>3, <1>5
  <2>2. (k \in DOMAIN g <=> k \in DOMAIN f) /\ (k \in DOMAIN f => g[k] = f[k])
    BY <1>1, <1>5
  <2>3. CASE P = {}
    BY <1>2, <2>1, <2>2, <2>3 DEF Q
  <2>4. CASE P # {}
    BY <1>2, <2>1, <2>2, <2>4 DEF Q
  <2> QED BY <2>3, <2>4
<1> QED BY <1>4, <1>5

LEMMA HeadersSet ==
  ASSUME NEW map, map \in [DOMAIN map -> STRING], NEW T, NEW headers \in Seq(T), \A t \in T : t.value \in STRING
  PROVE  /\ Reached(map, headers, setAll(map, headers), Len(headers))
         /\ setAll(map, headers) \in [DOMAIN setAll(map, headers) -> STRING]
<1> DEFINE n == Len(headers)
           K == DOMAIN map \union {lower[headers[i].key] : i \in 1 .. n}
           S == UNION {[D -> STRING] : D \in SUBSET K}
           step == [i \in 1 .. n |-> [f \in S |-> set(f, headers[i])]]
<1>1. n \in Nat /\ \A i \in 1 .. n : headers[i] \in T /\ lower[headers[i].key] \in K
  OBVIOUS
<1>2. map \in S
  OBVIOUS
<1>3. ASSUME NEW i \in 1 .. n, NEW f \in S PROVE set(f, headers[i]) \in S
  <2>1. headers[i].value \in STRING
    BY <1>1
  <2>2. PICK D \in SUBSET K : f \in [D -> STRING]
    OBVIOUS
  <2> HIDE DEF K, n
  <2>3. D \union {lower[headers[i].key]} \in SUBSET K
    BY <1>1
  <2>4. set(f, headers[i]) \in [D \union {lower[headers[i].key]} -> STRING]
    BY <2>1, <2>2 DEF set
  <2> QED BY <2>3, <2>4
<1>4. step \in [1 .. n -> [S -> S]]
  BY <1>3
<1> DEFINE g == CHOOSE f : f = [i \in 0 .. n |-> IF i = 0 THEN map ELSE set(f[i - 1], headers[i])]
<1>5. g \in [0 .. n -> S] /\ g[0] = map /\ \A i \in 1 .. n : g[i] = set(g[i - 1], headers[i])
  <2>1. PICK f \in [0 .. n -> S] : Iterates(f, n, map, step)
    <3> HIDE DEF n, K, S, step
    <3> QED BY <1>1, <1>2, <1>4, Recursion
  <2> HIDE DEF n, S
  <2>2. f[0] = map /\ \A i \in 1 .. n : f[i - 1] \in S /\ f[i] = set(f[i - 1], headers[i])
    <3>1. \A i \in 1 .. n : i - 1 \in 0 .. n
      BY <1>1
    <3>2. \A i \in 1 .. n : \A x \in S : step[i][x] = set(x, headers[i])
      OBVIOUS
    <3> HIDE DEF step
    <3> QED BY <2>1, <3>1, <3>2 DEF Iterates
  <2>3. f = [i \in 0 .. n |-> IF i = 0 THEN map ELSE set(f[i - 1], headers[i])]
    BY <1>1, <2>2
  <2>4. g = [i \in 0 .. n |-> IF i = 0 THEN map ELSE set(g[i - 1], headers[i])]
    BY <2>3
  <2> HIDE DEF g
  <2>5. g[0] = map /\ \A i \in 1 .. n : g[i] = set(g[i - 1], headers[i])
    BY <1>1, <2>4
  <2> DEFINE Good == {k \in Nat : k <= n => g[k] \in S}
  <2>6. 0 \in Good
    BY <1>2, <2>5
  <2>7. ASSUME NEW k \in Nat, k \in Good, k + 1 <= n PROVE g[k + 1] \in S
    <3>1. k + 1 \in 1 .. n /\ g[k] \in S /\ (k + 1) - 1 = k
      BY <1>1, <2>7
    <3>2. set(g[k], headers[k + 1]) \in S
      BY <1>3, <3>1
    <3> QED BY <2>5, <3>1, <3>2
  <2>8. \A k \in Nat : k \in Good => k + 1 \in Good
    BY <2>7
  <2> HIDE DEF Good
  <2>9. Nat \subseteq Good
    BY <2>6, <2>8, SetInduction
  <2>10. \A k \in 0 .. n : g[k] \in S
    BY <1>1, <2>9 DEF Good
  <2> QED BY <2>4, <2>5, <2>10
<1>6. setAll(map, headers) = g[n]
  BY Zenon DEF setAll
<1> HIDE DEF g, n
<1> DEFINE Good == {k \in Nat : k <= n => Reached(map, headers, g[k], k)}
<1>7. 0 \in Good
  <2>1. Reached(map, headers, map, 0)
    <3>1. 1 .. 0 = {}
      OBVIOUS
    <3> QED BY <3>1 DEF Reached, Places
  <2> QED BY <1>5, <2>1
<1>8. ASSUME NEW k \in Nat, k \in Good, k + 1 <= n PROVE Reached(map, headers, g[k + 1], k + 1)
  <2>1. k + 1 \in 1 .. n /\ Reached(map, headers, g[k], k) /\ (k + 1) - 1 = k
    BY <1>1, <1>8
  <2>2. g[k + 1] = set(g[k], headers[k + 1])
    BY <1>5, <2>1
  <2> QED BY <2>1, <2>2, SetReaches
<1>9. \A k \in Nat : k \in Good => k + 1 \in Good
  BY <1>8
<1> HIDE DEF Good
<1>10. n \in Good
  BY <1>1, <1>7, <1>9, SetInduction
<1>11. Reached(map, headers, g[n], n)
  BY <1>1, <1>10 DEF Good
<1>12. g[n] \in [DOMAIN g[n] -> STRING]
  <2>1. g[n] \in S
    BY <1>1, <1>5
  <2> QED BY <2>1
<1> QED BY <1>6, <1>11, <1>12 DEF n

(* What parseHeaders keeps of the first m entries, by key.                   *)
MatchesKey(entries, k, m, p, n) ==
  IF Kept(entries, k, m) = {} THEN Places(p, k, n) = {}
  ELSE \E i \in Kept(entries, k, m), q \in Places(p, k, n) :
         p[q] = entries[i] /\ (\A j \in Kept(entries, k, m) : j <= i) /\ (\A j \in Places(p, k, n) : j <= q)
Matches(entries, p, m) == \A k : k # "" => MatchesKey(entries, k, m, p, Len(p))

LEMMA KeyMatches ==
  ASSUME NEW entries, NEW m \in Nat, NEW p, NEW n \in Nat, NEW r, \A i \in 1 .. n : r[i] = p[i],
         r[n + 1] = entries[m + 1], NEW k, lower[entries[m + 1].key] = k <=> Keyed(entries[m + 1], k),
         MatchesKey(entries, k, m, p, n)
  PROVE  MatchesKey(entries, k, m + 1, r, n + 1)
<1> DEFINE P0 == Kept(entries, k, m)
           Q0 == Places(p, k, n)
           P == Kept(entries, k, m + 1)
           Q == Places(r, k, n + 1)
<1>1. Places(r, k, n) = Q0
  BY DEF Places
<1>2. /\ P = IF Keyed(entries[m + 1], k) THEN P0 \union {m + 1} ELSE P0
      /\ Q = IF Keyed(entries[m + 1], k) THEN Q0 \union {n + 1} ELSE Q0
  <2>1. P = IF Keyed(entries[m + 1], k) THEN P0 \union {m + 1} ELSE P0
    BY Zenon, NextPlace
  <2>2. Q = IF lower[r[n + 1].key] = k THEN Places(r, k, n) \union {n + 1} ELSE Places(r, k, n)
    BY Zenon, NextPlace
  <2> HIDE DEF P, Q, P0, Q0
  <2> QED BY Zenon, <1>1, <2>1, <2>2
<1>3. (\A j \in P0 : j \in Nat /\ j <= m) /\ (\A j \in Q0 : j \in 1 .. n)
  BY DEF Places, Kept
<1>4. IF P0 = {} THEN Q0 = {}
      ELSE \E i \in P0, q \in Q0 : p[q] = entries[i] /\ (\A j \in P0 : j <= i) /\ (\A j \in Q0 : j <= q)
  BY DEF MatchesKey
<1> SUFFICES IF P = {} THEN Q = {}
             ELSE \E i \in P, q \in Q : r[q] = entries[i] /\ (\A j \in P : j <= i) /\ (\A j \in Q : j <= q)
  BY DEF MatchesKey
<1> HIDE DEF P, Q, P0, Q0
<1>5. CASE Keyed(entries[m + 1], k)
  <2>1. \A j \in P : j <= m + 1
    BY <1>2, <1>3, <1>5
  <2>2. \A j \in Q : j <= n + 1
    BY <1>2, <1>3, <1>5
  <2>3. m + 1 \in P /\ n + 1 \in Q
    BY <1>2, <1>5
  <2> QED BY <2>1, <2>2, <2>3
<1>6. CASE ~Keyed(entries[m + 1], k)
  <2>1. P = P0 /\ Q = Q0 /\ \A q \in Q0 : r[q] = p[q]
    BY <1>2, <1>3, <1>6
  <2> QED BY <1>4, <2>1
<1> QED BY <1>5, <1>6

LEMMA ParseMatches ==
  ASSUME NEW T, NEW entries, NEW m \in Nat, entries[m + 1] \in T, NEW p \in Seq(T), Matches(entries, p, m)
  PROVE  Matches(entries, IF named(entries[m + 1]) THEN Append(p, entries[m + 1]) ELSE p, m + 1)
<1> DEFINE e == entries[m + 1]
           r == IF named(e) THEN Append(p, e) ELSE p
           n == Len(p)
<1>1. CASE named(e)
  <2>1. /\ n \in Nat /\ Len(r) = n + 1 /\ r[n + 1] = e /\ \A i \in 1 .. n : r[i] = p[i]
    BY <1>1
  <2>2. \A k : lower[e.key] = k <=> Keyed(e, k)
    BY Zenon, <1>1 DEF named, Keyed
  <2>3. \A k : k # "" => MatchesKey(entries, k, m, p, n)
    BY DEF Matches
  <2> HIDE DEF r, n
  <2>4. \A k : k # "" => MatchesKey(entries, k, m + 1, r, n + 1)
    BY <2>1, <2>2, <2>3, KeyMatches
  <2>5. Matches(entries, r, m + 1)
    BY <2>1, <2>4 DEF Matches
  <2> QED BY <2>5 DEF r
<1>2. CASE ~named(e)
  <2>1. \A k : k # "" => ~Keyed(e, k)
    BY Zenon, <1>2 DEF named, Keyed
  <2>2. r = p
    BY <1>2
  <2>3. \A k : k # "" => Kept(entries, k, m + 1) = Kept(entries, k, m)
    BY <2>1, NextPlace
  <2> HIDE DEF r, e
  <2>4. Matches(entries, r, m + 1)
    BY <2>2, <2>3 DEF Matches, MatchesKey
  <2> QED BY <2>4 DEF r, e
<1> QED BY <1>1, <1>2

LEMMA HeadersParsed ==
  ASSUME NEW T, NEW entries \in Seq(T)
  PROVE  parseHeaders(entries) \in Seq(T) /\ Matches(entries, parseHeaders(entries), Len(entries))
<1> DEFINE n == Len(entries)
           S == Seq(T)
           next(i, p) == IF named(entries[i]) THEN Append(p, entries[i]) ELSE p
           step == [i \in 1 .. n |-> [p \in S |-> next(i, p)]]
           g == CHOOSE f : f = [i \in 0 .. n |-> IF i = 0 THEN <<>> ELSE next(i, f[i - 1])]
<1>1. n \in Nat /\ (\A i \in 1 .. n : entries[i] \in T) /\ <<>> \in S
  OBVIOUS
<1>2. ASSUME NEW i \in 1 .. n, NEW p \in S PROVE next(i, p) \in S
  BY <1>1
<1>3. parseHeaders(entries) = g[n]
  BY Zenon DEF parseHeaders
<1> HIDE DEF n, S, next
<1>4. step \in [1 .. n -> [S -> S]]
  BY <1>2
<1>5. \E f : f = [i \in 0 .. n |-> IF i = 0 THEN <<>> ELSE next(i, f[i - 1])]
  <2>1. PICK f \in [0 .. n -> S] : Iterates(f, n, <<>>, step)
    <3> HIDE DEF step
    <3> QED BY <1>1, <1>4, Recursion
  <2>2. f[0] = <<>> /\ \A i \in 1 .. n : f[i] = next(i, f[i - 1])
    <3>1. \A i \in 1 .. n : i - 1 \in 0 .. n
      BY <1>1
    <3>2. \A i \in 1 .. n : \A p \in S : step[i][p] = next(i, p)
      OBVIOUS
    <3> HIDE DEF step
    <3> QED BY <2>1, <3>1, <3>2 DEF Iterates
  <2>3. f = [i \in 0 .. n |-> IF i = 0 THEN <<>> ELSE next(i, f[i - 1])]
    BY <1>1, <2>2
  <2> QED BY <2>3
<1>6. g = [i \in 0 .. n |-> IF i = 0 THEN <<>> ELSE next(i, g[i - 1])]
  BY <1>5
<1> HIDE DEF g
<1>7. g[0] = <<>> /\ \A i \in 1 .. n : g[i] = next(i, g[i - 1])
  BY <1>1, <1>6
<1> DEFINE Good == {k \in Nat : k <= n => g[k] \in S /\ Matches(entries, g[k], k)}
<1>8. 0 \in Good
  <2>1. 1 .. 0 = {} /\ Len(<<>>) = 0
    OBVIOUS
  <2>2. Matches(entries, <<>>, 0)
    BY <2>1 DEF Matches, MatchesKey, Places, Kept
  <2> QED BY <1>1, <1>7, <2>2
<1>9. ASSUME NEW k \in Nat, k \in Good, k + 1 <= n
      PROVE  g[k + 1] \in S /\ Matches(entries, g[k + 1], k + 1)
  <2>1. k + 1 \in 1 .. n /\ g[k] \in S /\ Matches(entries, g[k], k) /\ (k + 1) - 1 = k
    BY <1>1, <1>9
  <2>2. g[k + 1] = next(k + 1, g[k]) /\ entries[k + 1] \in T
    BY <1>1, <1>7, <2>1
  <2>3. g[k + 1] \in S
    BY <1>2, <2>1, <2>2
  <2>4. Matches(entries, next(k + 1, g[k]), k + 1)
    BY <2>1, <2>2, ParseMatches DEF S, next
  <2> QED BY <2>2, <2>3, <2>4
<1>10. \A k \in Nat : k \in Good => k + 1 \in Good
  BY <1>9
<1> HIDE DEF Good
<1>11. n \in Good
  BY <1>1, <1>8, <1>10, SetInduction
<1>12. g[n] \in S /\ Matches(entries, g[n], n)
  BY <1>1, <1>11 DEF Good
<1> QED BY <1>3, <1>12 DEF n, S

LEMMA LatestIs ==
  ASSUME NEW headers, NEW P, P \subseteq Nat, NEW i \in P, \A j \in P : j <= i
  PROVE  Latest(headers, P) = headers[i].value
<1> DEFINE l == CHOOSE n \in P : \A j \in P : j <= n
<1>1. l \in P /\ \A j \in P : j <= l
  OBVIOUS
<1> HIDE DEF l
<1>2. l \in Nat /\ i \in Nat /\ l <= i /\ i <= l
  BY <1>1
<1>3. l = i
  BY <1>2
<1> QED BY <1>3 DEF Latest, l

LEMMA Upto == \A n \in Nat : 1 .. n \subseteq Nat
OBVIOUS

LEMMA EmptyFirst == \A x : <<>> \o <<x>> = <<x>>
<1> SUFFICES ASSUME NEW x PROVE <<>> \o <<x>> = <<x>>
  OBVIOUS
<1>1. <<x>> \in Seq({x})
  OBVIOUS
<1> QED BY <1>1, ConcatEmptySeq

LEMMA GreatestIs ==
  ASSUME NEW P, P \subseteq Nat, NEW q \in P, \A j \in P : j <= q, NEW r \in P, \A j \in P : j <= r
  PROVE  q = r
<1>1. q \in Nat /\ r \in Nat /\ q <= r /\ r <= q
  OBVIOUS
<1> QED BY <1>1

(* What mergeHeaders makes of the entries of the environment and of the      *)
(* headers of the options.                                                   *)
MergedAt(E, O, k) ==
  LET H == mergeHeaders(parseHeaders(E), O)
      fe == {i \in Of(E, k) : E[i].equals}
      fo == Of(O, k)
  IN /\ k \in DOMAIN H <=> fe # {} \/ fo # {}
     /\ k \in DOMAIN H => H[k] = IF fo # {} THEN Latest(O, fo) ELSE Latest(E, fe)

LEMMA Merged ==
  ASSUME NEW T, NEW U, \A t \in T \union U : t.value \in STRING, NEW E \in Seq(T), NEW O \in Seq(U),
         NEW k, k # ""
  PROVE  MergedAt(E, O, k)
<1> DEFINE p == parseHeaders(E)
           H1 == setAll(NoHeaders, p)
           H == setAll(H1, O)
           fe == Kept(E, k, Len(E))
           fp == Places(p, k, Len(p))
           fo == Places(O, k, Len(O))
<1>1. p \in Seq(T) /\ MatchesKey(E, k, Len(E), p, Len(p))
  BY HeadersParsed DEF Matches
<1>2. NoHeaders \in [DOMAIN NoHeaders -> STRING] /\ DOMAIN NoHeaders = {}
  BY DEF NoHeaders
<1>3. Reached(NoHeaders, p, H1, Len(p)) /\ H1 \in [DOMAIN H1 -> STRING]
  BY <1>1, <1>2, HeadersSet
<1>4. Reached(H1, O, H, Len(O))
  <2> HIDE DEF H1
  <2> QED BY <1>3, HeadersSet
<1>5. fe \subseteq Nat /\ fp \subseteq Nat /\ fo \subseteq Nat
  <2>1. Len(E) \in Nat /\ Len(O) \in Nat /\ Len(p) \in Nat
    BY <1>1, LenProperties
  <2>2. fe \subseteq 1 .. Len(E) /\ fp \subseteq 1 .. Len(p) /\ fo \subseteq 1 .. Len(O)
    BY Zenon DEF Kept, Places
  <2> QED BY Zenon, <2>1, <2>2, Upto
<1>6. {i \in Of(E, k) : E[i].equals} = fe /\ Of(O, k) = fo
  <2>1. DOMAIN E = 1 .. Len(E) /\ DOMAIN O = 1 .. Len(O)
    BY Zenon, LenProperties
  <2> QED BY Zenon, <2>1 DEF Of, Kept, Keyed, Places
<1>7. mergeHeaders(parseHeaders(E), O) = H
  BY DEF mergeHeaders
<1>8. IF fo = {} THEN (k \in DOMAIN H <=> k \in DOMAIN H1) /\ (k \in DOMAIN H1 => H[k] = H1[k])
      ELSE k \in DOMAIN H /\ \E i \in fo : H[k] = O[i].value /\ \A j \in fo : j <= i
  BY Zenon, <1>4 DEF Reached
<1>9. IF fp = {} THEN k \notin DOMAIN H1
      ELSE k \in DOMAIN H1 /\ \E i \in fp : H1[k] = p[i].value /\ \A j \in fp : j <= i
  BY Zenon, <1>2, <1>3 DEF Reached
<1>10. IF fe = {} THEN fp = {}
       ELSE \E i \in fe, q \in fp : p[q] = E[i] /\ (\A j \in fe : j <= i) /\ (\A j \in fp : j <= q)
  BY Zenon, <1>1 DEF MatchesKey
<1> HIDE DEF H, H1, fe, fo, fp, p
<1>11. CASE fo # {}
  <2>1. PICK i \in fo : H[k] = O[i].value /\ \A j \in fo : j <= i
    BY <1>8, <1>11
  <2>2. H[k] = Latest(O, fo)
    BY <1>5, <2>1, LatestIs
  <2> QED BY <1>6, <1>7, <1>8, <1>11, <2>2 DEF MergedAt
<1>12. CASE fo = {} /\ fe = {}
  BY <1>6, <1>7, <1>8, <1>9, <1>10, <1>12 DEF MergedAt
<1>13. CASE fo = {} /\ fe # {}
  <2>1. PICK i \in fe, q \in fp : p[q] = E[i] /\ (\A j \in fe : j <= i) /\ (\A j \in fp : j <= q)
    BY <1>10, <1>13
  <2>2. k \in DOMAIN H1 /\ \E r \in fp : H1[k] = p[r].value /\ \A j \in fp : j <= r
    BY <1>9, <2>1
  <2>3. PICK r \in fp : H1[k] = p[r].value /\ \A j \in fp : j <= r
    BY <2>2
  <2>4. q = r
    BY <1>5, <2>1, <2>3, GreatestIs
  <2>5. Latest(E, fe) = E[i].value
    BY <1>5, <2>1, LatestIs
  <2> QED BY <1>6, <1>7, <1>8, <1>13, <2>1, <2>2, <2>3, <2>4, <2>5 DEF MergedAt
<1> QED BY <1>11, <1>12, <1>13

(* For any environment and options, any keys and values: each header is sent *)
(* once, with the value that was configured last (configuration.ts:59-148,   *)
(* ofrep-provider-options.ts:42-49).                                         *)
THEOREM SettingsAreMerged ==
  ASSUME NEW env, env.headers \in Seq([key : DOMAIN lower, value : STRING, equals : BOOLEAN]),
         NEW given, given.headers \in Seq([key : DOMAIN lower, value : STRING])
  PROVE  SettingsMerged(env, given)
<1> DEFINE config == getConfig(env, given)
           H == mergeHeaders(parseHeaders(env.headers), given.headers)
           sent == buildHeaders(config)
           fromEnv(k) == {i \in Of(env.headers, k) : env.headers[i].equals}
           fromOptions(k) == Of(given.headers, k)
           configured(k) == fromEnv(k) # {} \/ fromOptions(k) # {}
           value(k) == IF fromOptions(k) # {} THEN Latest(given.headers, fromOptions(k))
                                              ELSE Latest(env.headers, fromEnv(k))
           keys == {lower[k] : k \in DOMAIN lower} \ {""}
<1>1. ASSUME NEW k, k # "" PROVE (k \in DOMAIN H <=> configured(k)) /\ (k \in DOMAIN H => H[k] = value(k))
  <2> DEFINE T == [key : DOMAIN lower, value : STRING, equals : BOOLEAN]
             U == [key : DOMAIN lower, value : STRING]
  <2>1. \A t \in T \union U : t.value \in STRING
    OBVIOUS
  <2>2. env.headers \in Seq(T) /\ given.headers \in Seq(U)
    OBVIOUS
  <2> HIDE DEF T, U
  <2>3. /\ k \in DOMAIN H <=> fromEnv(k) # {} \/ fromOptions(k) # {}
        /\ k \in DOMAIN H => H[k] = value(k)
    <3>1. MergedAt(env.headers, given.headers, k)
      BY <1>1, <2>1, <2>2, Merged
    <3> QED BY Zenon, <3>1 DEF MergedAt
  <2> QED BY <2>3
<1>2. /\ DOMAIN sent = {"content-type"} \union DOMAIN H
      /\ \A k \in DOMAIN sent : sent[k] = (IF k \in {"content-type"} THEN <<"json; charset=utf-8">> ELSE <<>>)
                                         \o (IF k \in DOMAIN H THEN <<H[k]>> ELSE <<>>)
  <2>1. config.headers = H
    BY DEF getConfig
  <2> HIDE DEF config, H
  <2> QED BY <2>1 DEF buildHeaders
<1>3. config.timeoutMs \in {NaN, unset} => "timeoutMs" \in DOMAIN given
  BY NaNIsSome DEF getConfig, envTimeout, undefined, unset
<1> HIDE DEF H, sent, config, configured, value
<1>4. ASSUME NEW k \in keys \ {"content-type"}
      PROVE IF configured(k) THEN k \in DOMAIN sent /\ sent[k] = <<value(k)>> ELSE k \notin DOMAIN sent
  <2>1. (k \in DOMAIN H <=> configured(k)) /\ (k \in DOMAIN H => H[k] = value(k))
    BY <1>1, <1>4
  <2> QED BY <1>2, <1>4, <2>1, EmptyFirst
<1>5. Len(sent["content-type"]) = (IF configured("content-type") THEN 2 ELSE 1)
  <2> DEFINE c == "content-type"
  <2>1. c \in DOMAIN H <=> configured(c)
    BY <1>1
  <2>2. \A x, y : Len(<<x>> \o <<y>>) = 2 /\ Len(<<x>> \o <<>>) = 1
    OBVIOUS
  <2>3. sent[c] = <<"json; charset=utf-8">> \o (IF c \in DOMAIN H THEN <<H[c]>> ELSE <<>>)
    BY <1>2
  <2> QED BY <2>1, <2>2, <2>3
<1> USE DEF sent, config, configured, value
<1> QED BY Zenon, <1>3, <1>4, <1>5 DEF SettingsMerged

-----------------------------------------------------------------------------
(* The OFREP provider of the server                                          *)

(* A call that waits, and what it has been told once it is settled.          *)
Waiting == [phase : {"headers", "fetch", "body"}, default : Types, status : Nat]
Given(k) ==
  /\ k = Settled(k.default, k.status, k.body, k.outcome)
  /\ << "value", k.default >> = k.outcome
       <=> /\ k.status = 200 /\ k.body.form = "success"
           /\ k.body.value \in {"undefined", k.default}
  /\ k.outcome[1] = "value" => k.outcome[2] = k.default

CallsInv ==
  /\ DOMAIN call = Calls
  /\ \A c \in Calls : call[c] = NoCall \/ call[c] \in Waiting \/ Given(call[c])

(* The date the provider remembers is the one the server asked for; it is    *)
(* forgotten only once it is past.                                           *)
PauseIsAsked ==
  /\ asked \in 0..MaxPause
  /\ notBefore = << asked >> \/ (notBefore = <<>> /\ asked = 0)

ClosingInv ==
  /\ owner \in {"sdk", "goff"} /\ closed \in BOOLEAN
  /\ aborted = (closed /\ owner = "sdk")

OfrepInv == CallsInv /\ PauseIsAsked /\ ClosingInv /\ ClosedSendsNothing

LEMMA PhaseOf ==
  ASSUME NEW k
  PROVE  /\ k = NoCall => k.phase = "idle"
         /\ k \in Waiting => k.phase \in {"headers", "fetch", "body"}
         /\ Given(k) => k.phase = "settled"
<1>1. ASSUME Given(k) PROVE k.phase = "settled"
  <2>1. Settled(k.default, k.status, k.body, k.outcome).phase = "settled"
    BY DEF Settled
  <2>2. k = Settled(k.default, k.status, k.body, k.outcome)
    BY <1>1, Zenon DEF Given
  <2> QED BY <2>1, <2>2, Zenon
<1>2. Given(k) => k.phase = "settled"
  BY <1>1
<1> QED BY <1>2 DEF NoCall, Waiting

LEMMA OfrepInvImplies == OfrepInv => AnsweredByServer
<1> SUFFICES ASSUME OfrepInv PROVE AnsweredByServer OBVIOUS
<1> USE MaxPauseAssumption
<1>1. \A c \in Calls : call[c].phase \in {"idle", "headers", "fetch", "body", "settled"}
  BY PhaseOf DEF OfrepInv, CallsInv
<1>2. notBefore \in {<<>>} \union {<<n>> : n \in 0..MaxPause}
  BY DEF OfrepInv, PauseIsAsked
<1>3. {closed, aborted} \subseteq BOOLEAN
  BY Zenon DEF OfrepInv, ClosingInv
<1>4. OfrepTypeOK
  BY <1>1, <1>2, <1>3 DEF OfrepInv, PauseIsAsked, ClosingInv, OfrepTypeOK
<1>5. ASSUME NEW c \in Calls, call[c].phase = "settled" PROVE Given(call[c])
  BY <1>5 DEF OfrepInv, CallsInv, NoCall, Waiting
<1>6. AnswersAreTheServers
  BY <1>5 DEF AnswersAreTheServers, Given
<1> QED BY <1>4, <1>6 DEF AnsweredByServer, OfrepInv

LEMMA OfrepInitInv == OfrepInit => OfrepInv
<1> SUFFICES ASSUME OfrepInit PROVE OfrepInv OBVIOUS
<1>1. CallsInv
  BY DEF OfrepInit, CallsInv
<1>2. PauseIsAsked
  BY MaxPauseAssumption DEF OfrepInit, PauseIsAsked
<1>3. ClosingInv /\ ClosedSendsNothing
  BY Zenon DEF OfrepInit, ClosingInv, ClosedSendsNothing
<1> QED BY <1>1, <1>2, <1>3 DEF OfrepInv

(* An error that is thrown, and one in the details, is no answer.            *)
LEMMA ThrownIsGiven ==
  ASSUME NEW d, NEW s, NEW why PROVE Given(Settled(d, s, NoBody, << "thrown", why >>))
BY DEF Given, Settled, NoBody

LEMMA AnswerIsGiven ==
  ASSUME NEW d, NEW s, NEW body \in Bodies
  PROVE  Given(Settled(d, s, body, postEvaluateFlag(s, body, d)))
<1>1. CASE s = 200 /\ body.form = "success"
  BY <1>1 DEF Given, Settled, postEvaluateFlag, toResolutionDetails
<1>2. CASE ~(s = 200 /\ body.form = "success") /\ s \in ErrorStatuses /\ body.form = "failure"
  BY <1>2 DEF Given, Settled, postEvaluateFlag
<1>3. CASE ~(s = 200 /\ body.form = "success") /\ ~(s \in ErrorStatuses /\ body.form = "failure")
  BY <1>3 DEF Given, Settled, postEvaluateFlag
<1> QED BY <1>1, <1>2, <1>3

(* What the steps of one call have to show.                                  *)
LEMMA OneCallKeeps ==
  ASSUME OfrepInv, NEW c \in Calls, UNCHANGED << owner, closed, aborted >>,
         DOMAIN call' = Calls, \A d \in Calls \ {c} : call'[d] = call[d],
         call'[c] = NoCall \/ call'[c] \in Waiting \/ Given(call'[c]),
         call'[c].phase = "fetch" => ~aborted
  PROVE  CallsInv' /\ ClosingInv' /\ ClosedSendsNothing'
<1>1. CallsInv'
  BY DEF OfrepInv, CallsInv
<1>2. ClosingInv'
  BY DEF OfrepInv, ClosingInv
<1>3. ClosedSendsNothing'
  BY DEF OfrepInv, ClosingInv, ClosedSendsNothing
<1> QED BY <1>1, <1>2, <1>3

LEMMA OfrepKeeps == OfrepInv /\ [OfrepNext]_ofrepVars => OfrepInv'
<1> SUFFICES ASSUME OfrepInv, [OfrepNext]_ofrepVars PROVE OfrepInv' OBVIOUS
<1> USE MaxPauseAssumption
<1>1. ASSUME NEW c \in Calls, NEW default \in Types, evaluate(c, default) PROVE OfrepInv'
  <2>1. PauseIsAsked'
    BY <1>1 DEF evaluate, OfrepInv, PauseIsAsked
  <2>2. UNCHANGED << owner, closed, aborted >> /\ DOMAIN call' = Calls
        /\ \A d \in Calls \ {c} : call'[d] = call[d]
    BY <1>1 DEF evaluate, OfrepInv, CallsInv
  <2>3. call'[c] = Settled(default, 0, NoBody, << "thrown", "paused" >>)
        \/ call'[c] = [phase |-> "headers", default |-> default, status |-> 0]
    BY <1>1 DEF evaluate, OfrepInv, CallsInv
  <2>4. CASE call'[c] = Settled(default, 0, NoBody, << "thrown", "paused" >>)
    <3>1. Given(call'[c]) /\ call'[c].phase = "settled"
      BY <2>4, ThrownIsGiven DEF Settled
    <3> QED BY <3>1, <2>1, <2>2, OneCallKeeps DEF OfrepInv
  <2>5. CASE call'[c] = [phase |-> "headers", default |-> default, status |-> 0]
    <3>1. call'[c] \in Waiting /\ call'[c].phase = "headers"
      BY <2>5 DEF Waiting
    <3> QED BY <3>1, <2>1, <2>2, OneCallKeeps DEF OfrepInv
  <2> QED BY <2>3, <2>4, <2>5
<1>2. ASSUME NEW c \in Calls, doFetchRequest(c) PROVE OfrepInv'
  <2>1. PauseIsAsked' /\ UNCHANGED << owner, closed, aborted >> /\ DOMAIN call' = Calls
        /\ \A d \in Calls \ {c} : call'[d] = call[d]
    BY <1>2 DEF doFetchRequest, settle, OfrepInv, PauseIsAsked, CallsInv
  <2>2. CASE aborted
    <3>1. Given(call'[c]) /\ call'[c].phase = "settled"
      BY <1>2, <2>2, ThrownIsGiven DEF doFetchRequest, settle, Settled, OfrepInv, CallsInv
    <3> QED BY <3>1, <2>1, OneCallKeeps DEF OfrepInv
  <2>3. CASE ~aborted
    <3>1. call[c] \in Waiting
      BY <1>2, PhaseOf DEF doFetchRequest, OfrepInv, CallsInv
    <3>2. call'[c] = [phase |-> "fetch", default |-> call[c].default, status |-> call[c].status]
      BY <1>2, <2>3, <3>1 DEF doFetchRequest, OfrepInv, CallsInv, Waiting
    <3>3. call'[c] \in Waiting
      BY <3>1, <3>2 DEF Waiting
    <3> QED BY <3>3, <2>3, <2>1, OneCallKeeps DEF OfrepInv
  <2> QED BY <2>2, <2>3
<1>3. ASSUME NEW c \in Calls, Timeout(c) PROVE OfrepInv'
  <2>1. PauseIsAsked' /\ UNCHANGED << owner, closed, aborted >> /\ DOMAIN call' = Calls
        /\ \A d \in Calls \ {c} : call'[d] = call[d]
    BY <1>3 DEF Timeout, settle, OfrepInv, PauseIsAsked, CallsInv
  <2>2. Given(call'[c]) /\ call'[c].phase = "settled"
    BY <1>3, ThrownIsGiven DEF Timeout, settle, Settled, OfrepInv, CallsInv
  <2> QED BY <2>1, <2>2, OneCallKeeps DEF OfrepInv
<1>4. ASSUME NEW c \in Calls, NEW status \in Statuses, NEW json \in BOOLEAN,
             NEW header \in RetryAfters, Responds(c, status, json, header)
      PROVE OfrepInv'
  <2>1. PauseIsAsked'
    <3>1. CASE status = 429
      <4>1. CASE header \in {<< "none" >>, << "garbage" >>}
        <5>1. header[1] \in {"none", "garbage"} /\ Len(header) # 2
          BY <4>1
        <5>2. notBefore' = <<>> /\ asked' = 0
          BY <1>4, <3>1, <5>1 DEF Responds, retryAfterDate
        <5> QED BY <5>2 DEF PauseIsAsked
      <4>2. CASE header \in {"seconds", "date"} \X (0..MaxPause)
        <5>1. header[1] \notin {"none", "garbage"} /\ Len(header) = 2 /\ header[2] \in 0..MaxPause
          BY <4>2
        <5> QED BY <1>4, <3>1, <5>1 DEF Responds, OfrepInv, PauseIsAsked, retryAfterDate
      <4> QED BY <4>1, <4>2 DEF RetryAfters
    <3>2. CASE status # 429
      BY <1>4, <3>2 DEF Responds, OfrepInv, PauseIsAsked
    <3> QED BY <3>1, <3>2
  <2>2. UNCHANGED << owner, closed, aborted >> /\ DOMAIN call' = Calls
        /\ \A d \in Calls \ {c} : call'[d] = call[d]
    BY <1>4 DEF Responds, OfrepInv, CallsInv
  <2>3. CASE refused(status, json) = ""
    <3>1. call[c] \in Waiting
      BY <1>4, PhaseOf DEF Responds, OfrepInv, CallsInv
    <3>2. call'[c] = [phase |-> "body", default |-> call[c].default, status |-> status]
      BY <1>4, <2>3, <3>1 DEF Responds, OfrepInv, CallsInv, Waiting
    <3>3. call'[c] \in Waiting /\ call'[c].phase = "body"
      BY <3>1, <3>2 DEF Waiting, Statuses, ErrorStatuses
    <3> QED BY <3>3, <2>1, <2>2, OneCallKeeps DEF OfrepInv
  <2>4. CASE refused(status, json) # ""
    <3>1. call'[c] = Settled(call[c].default, status, NoBody, << "thrown", refused(status, json) >>)
      BY <1>4, <2>4 DEF Responds, OfrepInv, CallsInv
    <3>2. Given(call'[c]) /\ call'[c].phase = "settled"
      BY <3>1, ThrownIsGiven DEF Settled
    <3> QED BY <3>2, <2>1, <2>2, OneCallKeeps DEF OfrepInv
  <2> QED BY <2>3, <2>4
<1>5. ASSUME NEW c \in Calls, NEW body \in Bodies, BodyRead(c, body) PROVE OfrepInv'
  <2>1. PauseIsAsked' /\ UNCHANGED << owner, closed, aborted >> /\ DOMAIN call' = Calls
        /\ \A d \in Calls \ {c} : call'[d] = call[d]
    BY <1>5 DEF BodyRead, OfrepInv, PauseIsAsked, CallsInv
  <2>2. call'[c] = Settled(call[c].default, call[c].status, body,
                           postEvaluateFlag(call[c].status, body, call[c].default))
    BY <1>5 DEF BodyRead, OfrepInv, CallsInv
  <2>3. Given(call'[c]) /\ call'[c].phase = "settled"
    BY <2>2, AnswerIsGiven DEF Settled
  <2> QED BY <2>1, <2>3, OneCallKeeps DEF OfrepInv
<1>6. ASSUME onCloseOfrep PROVE OfrepInv'
  <2>1. PauseIsAsked' /\ ClosingInv'
    BY <1>6 DEF onCloseOfrep, OfrepInv, PauseIsAsked, ClosingInv
  <2>2. CASE owner = "goff"
    BY <1>6, <2>1, <2>2 DEF onCloseOfrep, OfrepInv, CallsInv, ClosedSendsNothing
  <2>3. CASE owner # "goff"
    <3>1. DOMAIN call' = Calls
          /\ \A d \in Calls : call'[d] = IF call[d].phase = "fetch"
               THEN Settled(call[d].default, 0, NoBody, << "thrown", "fetch" >>) ELSE call[d]
      BY <1>6, <2>3 DEF onCloseOfrep
    <3>2. CallsInv'
      BY <3>1, ThrownIsGiven DEF OfrepInv, CallsInv
    <3>3. ClosedSendsNothing'
      BY <3>1 DEF ClosedSendsNothing, Settled
    <3> QED BY <2>1, <3>2, <3>3 DEF OfrepInv
  <2> QED BY <2>2, <2>3
<1>7. ASSUME Tick PROVE OfrepInv'
  <2>1. PauseIsAsked'
    BY <1>7 DEF Tick, OfrepInv, PauseIsAsked
  <2> QED BY <1>7, <2>1 DEF Tick, OfrepInv, CallsInv, ClosingInv, ClosedSendsNothing
<1>8. CASE UNCHANGED ofrepVars
  BY <1>8 DEF ofrepVars, OfrepInv, CallsInv, PauseIsAsked, ClosingInv, ClosedSendsNothing
<1> QED BY <1>1, <1>2, <1>3, <1>4, <1>5, <1>6, <1>7, <1>8 DEF OfrepNext

(* A call to the provider of the server returns what the server has sent,    *)
(* and a provider the SDK has closed waits for no response                   *)
(* (ofrep-api.ts:86-104, 126-149, 235-264).                                  *)
THEOREM AnswersAreSent == OfrepInit /\ [][OfrepNext]_ofrepVars => []AnsweredByServer
BY OfrepInitInv, OfrepKeeps, OfrepInvImplies, PTL

(* In the system with its settings: what is sent is what was configured, and *)
(* what is answered is what the server has sent (configuration.ts:59-148,    *)
(* ofrep-provider.ts:41-112, ofrep-api.ts:90-277).                           *)
THEOREM RequestsAreAskedAndAnswered == MCSpec => []AskedAndAnswered
<1> DEFINE Tried == input = NoInput \/ \E env \in EnvInputs, given \in OptionInputs :
                                         input = [env |-> env, options |-> given]
<1>1. MCInit => Tried
  BY DEF MCInit
<1>2. Tried /\ [MCNext]_<<sseVars, ofrepVars, subject, input>> => Tried'
  BY DEF MCNext
<1>3. Tried => (input # NoInput => SettingsMerged(input.env, input.options))
  <2> SUFFICES ASSUME Tried, input # NoInput PROVE SettingsMerged(input.env, input.options)
    OBVIOUS
  <2>1. PICK env \in EnvInputs, given \in OptionInputs : input = [env |-> env, options |-> given]
    OBVIOUS
  <2>2. SettingsMerged(env, given)
    BY Zenon, InputsTyped, SettingsAreMerged
  <2>3. input.env = env /\ input.options = given
    BY <2>1
  <2> QED BY <2>2, <2>3
<1>4. MCInit => OfrepInit
  BY DEF MCInit
<1>5. [MCNext]_<<sseVars, ofrepVars, subject, input>> => [OfrepNext]_ofrepVars
  BY DEF MCNext
<1> HIDE DEF Tried
<1>6. AnsweredByServer /\ Tried => AskedAndAnswered
  BY <1>3 DEF AskedAndAnswered
<1> QED BY <1>1, <1>2, <1>4, <1>5, <1>6, AnswersAreSent, PTL DEF MCSpec

(* It refuses evaluations exactly as long as the latest 429 asked it to,     *)
(* however many calls overlap (ofrep-provider.ts:79-84, errors.ts:84-105).   *)
THEOREM PauseIsTheServers == OfrepInit /\ [][OfrepNext]_ofrepVars => PauseFollowsServer
<1> DEFINE Refuses ==
      \A c \in Calls, default \in Types :
        evaluate(c, default) => (call'[c].phase = "settled" <=> asked > 0)
<1>1. OfrepInv => Refuses
  <2> SUFFICES ASSUME OfrepInv, NEW c \in Calls, NEW default \in Types, evaluate(c, default)
               PROVE  call'[c].phase = "settled" <=> asked > 0
    BY DEF Refuses
  <2>1. (notBefore # <<>> /\ notBefore # << 0 >>) <=> asked > 0
    BY MaxPauseAssumption DEF OfrepInv, PauseIsAsked
  <2> QED BY <2>1 DEF evaluate, OfrepInv, CallsInv, Settled
<1>2. OfrepInv /\ [OfrepNext]_ofrepVars => [Refuses]_ofrepVars
  BY <1>1
<1> QED BY <1>2, OfrepInitInv, OfrepKeeps, PTL DEF PauseFollowsServer

-----------------------------------------------------------------------------
(* The SSE manager of the web provider: the invariant                        *)

connected == {url(s) : s \in connections}

(* The pause: its timer runs or has fired only while the page is hidden.     *)
PauseInv == inactivity # "unset" => hidden /\ listening

(* The manager is connected to all URLs it was given, or it pauses.          *)
ConnectedOrPaused ==
  ~disposed => connected = urls \/ (connections = {} /\ inactivity = "fired")

DisposedInv == disposed => connections = {} /\ urls = {} /\ ~listening

SseInv == /\ SseTypeOK /\ StaleIsTimed /\ TrackedUnlessLost /\ NeverSilentlyDark
          /\ PauseInv /\ ConnectedOrPaused /\ DisposedInv

LEMMA InvImplies == SseInv => ConnectedOnce
<1> SUFFICES ASSUME SseInv PROVE VisibleIsConnected
  BY DEF SseInv, ConnectedOnce
<1> QED BY DEF SseInv, PauseInv, ConnectedOrPaused, VisibleIsConnected, connected

-----------------------------------------------------------------------------
(* EventSources                                                              *)

(* There is exactly one fresh EventSource of each URL.                       *)
LEMMA FreshOnes ==
  ASSUME NEW existing, NEW U \in SUBSET Urls, canOpen(existing, U)
  PROVE  /\ fresh(existing, U) \subseteq Sources
         /\ \A s, r \in fresh(existing, U) : url(s) = url(r) => s = r
         /\ {url(s) : s \in fresh(existing, U)} = U
         /\ \A s \in fresh(existing, U) : existing[s] = "none"
<1> DEFINE F == fresh(existing, U)
<1>1. ASSUME NEW u \in U PROVE \E s \in F : url(s) = u
  <2> DEFINE T == {n \in 1..Generations : existing[<<u, n>>] = "none"}
  <2>1. PICK s \in Sources : url(s) = u /\ existing[s] = "none"
    BY DEF canOpen, free
  <2>2. s = <<u, s[2]>> /\ s[2] \in T
    BY <2>1 DEF Sources, url
  <2>3. T \in SUBSET Nat /\ T # {}
    BY <2>2, SseBounds
  <2> HIDE DEF T
  <2>4. PICK n \in T : \A m \in T : n <= m
    BY <2>3, LeastNumber
  <2>5. n \in 1..Generations /\ existing[<<u, n>>] = "none"
    BY <2>4 DEF T
  <2>6. <<u, n>> \in free(existing, u)
    BY <2>5 DEF free, Sources, url
  <2>7. ASSUME NEW r \in free(existing, u) PROVE n <= r[2]
    <3>1. r = <<u, r[2]>> /\ r[2] \in 1..Generations /\ existing[r] = "none"
      BY DEF free, Sources, url
    <3>2. r[2] \in T
      BY <3>1 DEF T
    <3> QED BY <3>2, <2>4
  <2>8. <<u, n>> \in Sources /\ url(<<u, n>>) = u /\ <<u, n>>[2] = n
    BY <2>5 DEF Sources, url
  <2>9. <<u, n>> \in F
    BY <2>6, <2>7, <2>8 DEF fresh
  <2> QED BY <2>8, <2>9
<1>2. ASSUME NEW s \in F, NEW r \in F, url(s) = url(r) PROVE s = r
  <2>1. /\ s \in Sources /\ r \in Sources
        /\ s[2] <= r[2] /\ r[2] <= s[2]
    BY <1>2 DEF fresh
  <2>2. s[2] \in Nat /\ r[2] \in Nat /\ s = <<s[1], s[2]>> /\ r = <<r[1], r[2]>>
    BY <2>1, SseBounds DEF Sources
  <2> QED BY <1>2, <2>1, <2>2 DEF url
<1>3. \A s \in F : s \in Sources /\ url(s) \in U /\ existing[s] = "none"
  BY DEF fresh, free
<1> HIDE DEF F
<1>4. {url(s) : s \in F} = U
  BY <1>1, <1>3
<1> QED BY <1>2, <1>3, <1>4 DEF F

LEMMA Closed ==
  ASSUME SseTypeOK, NEW S \in SUBSET Sources
  PROVE  /\ closing(S) \in [Sources -> {"none", "connecting", "open"}]
         /\ {s \in Sources : closing(S)[s] # "none"} = Live \ S
BY DEF SseTypeOK, closing, Live

LEMMA Opened ==
  ASSUME NEW existing \in [Sources -> {"none", "connecting", "open"}], NEW S \in SUBSET Sources
  PROVE  /\ opening(existing, S) \in [Sources -> {"none", "connecting", "open"}]
         /\ {s \in Sources : opening(existing, S)[s] # "none"}
              = {s \in Sources : existing[s] # "none"} \union S
BY DEF opening

LEMMA GraceCleared ==
  ASSUME SseTypeOK, StaleIsTimed, clearGracePeriod
  PROVE  grace' = [handle |-> FALSE, running |-> 0]
<1>1. grace = [handle |-> stale, running |-> IF stale THEN 1 ELSE 0] /\ stale \in BOOLEAN
  BY DEF StaleIsTimed, SseTypeOK
<1>2. CASE stale
  BY <1>1, <1>2 DEF clearGracePeriod
<1>3. CASE ~stale
  BY <1>1, <1>3 DEF clearGracePeriod
<1> QED BY <1>1, <1>2, <1>3

(* An event of an EventSource that the manager has lost cannot be told from  *)
(* one of its own; as long as none is lost, it has URLs.                     *)
LEMMA SpokenToHasUrls ==
  ASSUME SseInv, NEW s \in Sources, source[s] # "none", ~lost, ~disposed
  PROVE  urls # {}
<1>1. s \in connections
  BY DEF SseInv, TrackedUnlessLost, Live
<1>2. connected = urls /\ url(s) \in connected
  BY <1>1 DEF SseInv, ConnectedOrPaused, connected
<1> QED BY <1>2

(* What disconnect() leaves.                                                 *)
LEMMA Disconnected ==
  ASSUME SseInv, disconnect
  PROVE  /\ debounce' = FALSE /\ inactivity' = "unset" /\ stale' = FALSE /\ listening' = FALSE
         /\ grace' = [handle |-> FALSE, running |-> 0]
         /\ source' \in [Sources -> {"none", "connecting", "open"}]
         /\ Live' = Live \ connections
         /\ connections' = {} /\ urls' = {}
<1>1. connections \in SUBSET Sources
  BY DEF SseInv, SseTypeOK
<1>2. Live' = {s \in Sources : source'[s] # "none"}
  BY DEF Live
<1> QED BY <1>1, <1>2, Closed, GraceCleared DEF SseInv, disconnect

-----------------------------------------------------------------------------
(* The steps of the SSE manager                                              *)

(* Every variable that a step leaves alone keeps its part of the invariant;  *)
(* each lemma below goes through the conjuncts its step disturbs.            *)

LEMMA SseInitInv == SseInit => SseInv
<1> SUFFICES ASSUME SseInit PROVE SseInv
  OBVIOUS
<1>1. SseTypeOK
  <2>1. 0 \in 0..MaxConnects /\ 0 \in 0..MaxErrors
    BY SseBounds
  <2>2. [handle |-> FALSE, running |-> 0] \in [handle: BOOLEAN, running: Nat]
    OBVIOUS
  <2> QED BY <2>1, <2>2 DEF SseInit, SseTypeOK
<1>2. Live = {}
  BY DEF SseInit, Live
<1> QED BY <1>1, <1>2 DEF SseInit, SseInv, StaleIsTimed, TrackedUnlessLost, NeverSilentlyDark, PauseInv,
        ConnectedOrPaused, DisposedInv, connected

LEMMA SseConnectKeeps ==
  ASSUME SseInv, NEW U \in SUBSET Urls, connect(U)
  PROVE  SseInv'
<1>1. /\ ~disposed /\ connects' \in 0..MaxConnects
      /\ UNCHANGED <<disposed, hidden, lost, errors>>
  <2>1. connects \in 0..MaxConnects /\ MaxConnects \in Nat
    BY SseBounds DEF SseInv, SseTypeOK
  <2> QED BY <2>1 DEF connect
<1>2. CASE disconnect /\ told' = "off" /\ owed' = FALSE
  <2>1. /\ debounce' = FALSE /\ inactivity' = "unset" /\ stale' = FALSE /\ listening' = FALSE
        /\ grace' = [handle |-> FALSE, running |-> 0]
        /\ source' \in [Sources -> {"none", "connecting", "open"}]
        /\ Live' = Live \ connections
        /\ connections' = {} /\ urls' = {}
    BY <1>2, Disconnected
  <2>2. SseTypeOK'
    BY <1>1, <1>2, <2>1 DEF SseInv, SseTypeOK
  <2> QED BY <1>1, <1>2, <2>1, <2>2 DEF SseInv, StaleIsTimed, TrackedUnlessLost, NeverSilentlyDark,
          PauseInv, ConnectedOrPaused, DisposedInv, connected
<1>3. CASE UNCHANGED <<source, connections, urls, stale, timerVars, listening, told, owed>>
  BY <1>1, <1>3 DEF SseInv, SseTypeOK, StaleIsTimed, TrackedUnlessLost, NeverSilentlyDark, PauseInv,
     ConnectedOrPaused, DisposedInv, connected, timerVars, Live
<1>4. CASE /\ U # {} /\ canOpen(closing(connections), U)
           /\ source' = opening(closing(connections), fresh(closing(connections), U))
           /\ connections' = fresh(closing(connections), U)
           /\ urls' = U /\ debounce' = FALSE /\ inactivity' = "unset"
           /\ clearGracePeriod /\ stale' = FALSE /\ listening' = TRUE
           /\ told' = "ok" /\ owed' = FALSE
  <2> DEFINE left == closing(connections)
             new == fresh(left, U)
  <2>1. /\ left \in [Sources -> {"none", "connecting", "open"}]
        /\ {s \in Sources : left[s] # "none"} = Live \ connections
    BY Closed DEF SseInv, SseTypeOK
  <2>2. /\ new \subseteq Sources
        /\ \A s, r \in new : url(s) = url(r) => s = r
        /\ {url(s) : s \in new} = U
    BY <1>4, FreshOnes
  <2>3. source' = opening(left, new) /\ connections' = new
    BY <1>4
  <2> HIDE DEF left, new
  <2>4. /\ source' \in [Sources -> {"none", "connecting", "open"}]
        /\ {s \in Sources : source'[s] # "none"} = (Live \ connections) \union new
    BY <2>1, <2>2, <2>3, Opened
  <2>5. grace' = [handle |-> FALSE, running |-> 0]
    BY <1>4, GraceCleared DEF SseInv
  <2>6. SseTypeOK'
    BY <1>1, <1>4, <2>2, <2>3, <2>4, <2>5 DEF SseInv, SseTypeOK
  <2>7. TrackedUnlessLost'
    BY <1>1, <2>2, <2>3, <2>4 DEF SseInv, TrackedUnlessLost, Live
  <2>8. connected' = urls'
    BY <1>4, <2>2, <2>3 DEF connected
  <2> QED BY <1>1, <1>4, <2>5, <2>6, <2>7, <2>8 DEF SseInv, StaleIsTimed, NeverSilentlyDark, PauseInv,
          ConnectedOrPaused, DisposedInv
<1> QED BY <1>2, <1>3, <1>4 DEF connect

LEMMA DisposeKeeps ==
  ASSUME SseInv, dispose
  PROVE  SseInv'
<1>1. /\ disposed' = TRUE /\ disconnect /\ told' = "off" /\ owed' = FALSE
      /\ UNCHANGED <<hidden, lost, connects, errors>>
  BY DEF dispose
<1>2. /\ debounce' = FALSE /\ inactivity' = "unset" /\ stale' = FALSE /\ listening' = FALSE
      /\ grace' = [handle |-> FALSE, running |-> 0]
      /\ source' \in [Sources -> {"none", "connecting", "open"}]
      /\ Live' = Live \ connections
      /\ connections' = {} /\ urls' = {}
  BY <1>1, Disconnected
<1>3. SseTypeOK'
  BY <1>1, <1>2 DEF SseInv, SseTypeOK
<1> QED BY <1>1, <1>2, <1>3 DEF SseInv, StaleIsTimed, TrackedUnlessLost, NeverSilentlyDark, PauseInv,
        ConnectedOrPaused, DisposedInv

(* An EventSource says that it is open, or brings an event.                  *)
LEMMA RecoveredKeeps ==
  ASSUME SseInv, NEW s \in Sources, source[s] # "none", recovered,
         source' \in [Sources -> {"none", "connecting", "open"}], Live' = Live,
         debounce' \in BOOLEAN, owed' \in BOOLEAN,
         UNCHANGED <<connections, urls, disposed, inactivity, listening, hidden, lost, connects, errors>>
  PROVE  SseInv'
<1>1. /\ stale' = FALSE /\ told' \in {"off", "ok", "stale", "error"}
      /\ told' = told \/ told' = "ok"
  BY DEF recovered, SseInv, SseTypeOK
<1>2. grace' = [handle |-> FALSE, running |-> 0]
  <2>1. CASE stale
    BY <2>1, GraceCleared DEF recovered, SseInv
  <2>2. CASE ~stale
    BY <2>2 DEF recovered, SseInv, StaleIsTimed, SseTypeOK
  <2> QED BY <2>1, <2>2
<1>3. SseTypeOK'
  BY <1>1, <1>2 DEF SseInv, SseTypeOK
<1>4. NeverSilentlyDark'
  BY <1>1, SpokenToHasUrls DEF NeverSilentlyDark
<1> QED BY <1>1, <1>2, <1>3, <1>4 DEF SseInv, StaleIsTimed, TrackedUnlessLost, PauseInv,
        ConnectedOrPaused, DisposedInv, connected

LEMMA OpenKeeps ==
  ASSUME SseInv, NEW s \in Sources, handleOpen(s)
  PROVE  SseInv'
<1>1. /\ source[s] = "connecting" /\ source' = [source EXCEPT ![s] = "open"] /\ recovered
      /\ UNCHANGED <<connections, urls, disposed, inactivity, debounce, listening, hidden, owed, lost,
                     connects, errors>>
  BY DEF handleOpen
<1>2. source' \in [Sources -> {"none", "connecting", "open"}] /\ Live' = Live
  BY <1>1 DEF SseInv, SseTypeOK, Live
<1>3. debounce' \in BOOLEAN /\ owed' \in BOOLEAN /\ source[s] # "none"
  BY <1>1 DEF SseInv, SseTypeOK
<1> QED BY <1>1, <1>2, <1>3, RecoveredKeeps

LEMMA MessageKeeps ==
  ASSUME SseInv, NEW s \in Sources, handleMessage(s)
  PROVE  SseInv'
<1>1. /\ source[s] = "open" /\ recovered /\ debounce' = TRUE /\ owed' = TRUE
      /\ UNCHANGED <<source, connections, urls, disposed, inactivity, listening, hidden, lost, connects,
                     errors>>
  BY DEF handleMessage
<1>2. source' \in [Sources -> {"none", "connecting", "open"}] /\ Live' = Live
  BY <1>1 DEF SseInv, SseTypeOK, Live
<1> QED BY <1>1, <1>2, RecoveredKeeps

LEMMA FaultsCounted ==
  ASSUME SseTypeOK, errors < MaxErrors, errors' = errors + 1
  PROVE  errors' \in 0..MaxErrors
BY SseBounds DEF SseTypeOK

LEMMA TransientErrorKeeps ==
  ASSUME SseInv, NEW s \in Sources, handleTransientError(s)
  PROVE  SseInv'
<1>1. /\ source[s] # "none" /\ errors' \in 0..MaxErrors
      /\ source' = [source EXCEPT ![s] = "connecting"]
      /\ stale' = TRUE
      /\ grace' = IF stale THEN grace ELSE [handle |-> TRUE, running |-> grace.running + 1]
      /\ told' = IF stale THEN told ELSE "stale"
      /\ UNCHANGED <<connections, urls, disposed, inactivity, debounce, listening, hidden, owed, lost, connects>>
  BY FaultsCounted DEF SseInv, handleTransientError
<1>2. source' \in [Sources -> {"none", "connecting", "open"}] /\ Live' = Live
  BY <1>1 DEF SseInv, SseTypeOK, Live
<1>3. grace' = [handle |-> TRUE, running |-> 1]
  <2>1. grace = [handle |-> stale, running |-> IF stale THEN 1 ELSE 0] /\ stale \in BOOLEAN
    BY DEF SseInv, StaleIsTimed, SseTypeOK
  <2>2. CASE stale
    BY <1>1, <2>1, <2>2
  <2>3. CASE ~stale
    BY <1>1, <2>1, <2>3
  <2> QED BY <2>1, <2>2, <2>3
<1>4. SseTypeOK'
  BY <1>1, <1>2, <1>3 DEF SseInv, SseTypeOK
<1>5. NeverSilentlyDark'
  BY <1>1, SpokenToHasUrls DEF NeverSilentlyDark
<1> QED BY <1>1, <1>2, <1>3, <1>4, <1>5 DEF SseInv, StaleIsTimed, TrackedUnlessLost, PauseInv,
        ConnectedOrPaused, DisposedInv, connected

(* The owner is told of an error and keeps or disposes of the manager.       *)
LEMMA ErrorKeeps ==
  ASSUME SseInv, onError, stale' = FALSE, grace' = [handle |-> FALSE, running |-> 0],
         source' \in [Sources -> {"none", "connecting", "open"}],
         lost' \in BOOLEAN, lost => lost', ~lost' => Live' = {},
         connections' = {}, urls' = {}, errors' \in 0..MaxErrors,
         UNCHANGED <<hidden, connects>>
  PROVE  SseInv'
<1>1. \/ /\ told' = (IF disposed THEN told ELSE "error")
         /\ UNCHANGED <<disposed, inactivity, debounce, listening, owed>>
      \/ /\ disposed' = TRUE /\ inactivity' = "unset" /\ debounce' = FALSE /\ listening' = FALSE
         /\ told' = "off" /\ owed' = FALSE
  BY DEF onError
<1>2. SseTypeOK'
  BY <1>1 DEF SseInv, SseTypeOK
<1>3. PauseInv' /\ DisposedInv' /\ NeverSilentlyDark'
  BY <1>1 DEF SseInv, PauseInv, DisposedInv, NeverSilentlyDark
<1> QED BY <1>2, <1>3 DEF SseInv, StaleIsTimed, TrackedUnlessLost, ConnectedOrPaused, connected

LEMMA FatalErrorKeeps ==
  ASSUME SseInv, NEW s \in Sources, handleFatalError(s)
  PROVE  SseInv'
<1>1. /\ source[s] # "none" /\ errors' \in 0..MaxErrors
      /\ source' = closing({s}) /\ lost' = (lost \/ connections \ {s} # {})
      /\ connections' = {} /\ urls' = {} /\ stale' = FALSE
      /\ clearGracePeriod /\ onError /\ UNCHANGED <<hidden, connects>>
  BY FaultsCounted DEF SseInv, handleFatalError
<1>2. /\ source' \in [Sources -> {"none", "connecting", "open"}]
      /\ Live' = Live \ {s}
  <2>1. Live' = {r \in Sources : source'[r] # "none"}
    BY DEF Live
  <2> QED BY <1>1, <2>1, Closed DEF SseInv
<1>3. ~lost' => Live' = {}
  BY <1>1, <1>2 DEF SseInv, TrackedUnlessLost
<1>4. grace' = [handle |-> FALSE, running |-> 0]
  BY <1>1, GraceCleared DEF SseInv
<1>5. lost' \in BOOLEAN /\ (lost => lost')
  BY <1>1 DEF SseInv, SseTypeOK
<1> QED BY <1>1, <1>2, <1>3, <1>4, <1>5, ErrorKeeps

LEMMA GraceTimerKeeps ==
  ASSUME SseInv, GraceTimer
  PROVE  SseInv'
<1>1. /\ grace.running > 0
      /\ grace' = [handle |-> FALSE, running |-> grace.running - 1]
      /\ stale' = FALSE /\ source' = closing(connections)
      /\ connections' = {} /\ urls' = {} /\ onError
      /\ UNCHANGED <<hidden, lost, connects, errors>>
  BY DEF GraceTimer
<1>2. grace' = [handle |-> FALSE, running |-> 0]
  <2>1. grace = [handle |-> stale, running |-> IF stale THEN 1 ELSE 0] /\ stale \in BOOLEAN
    BY DEF SseInv, StaleIsTimed, SseTypeOK
  <2>2. CASE stale
    BY <1>1, <2>1, <2>2
  <2>3. CASE ~stale
    BY <1>1, <2>1, <2>3
  <2> QED BY <2>1, <2>2, <2>3
<1>3. /\ source' \in [Sources -> {"none", "connecting", "open"}]
      /\ Live' = Live \ connections
  <2>1. Live' = {r \in Sources : source'[r] # "none"}
    BY DEF Live
  <2> QED BY <1>1, <2>1, Closed DEF SseInv, SseTypeOK
<1>4. ~lost' => Live' = {}
  BY <1>1, <1>3 DEF SseInv, TrackedUnlessLost
<1>5. lost' \in BOOLEAN /\ errors' \in 0..MaxErrors
  BY <1>1 DEF SseInv, SseTypeOK
<1> QED BY <1>1, <1>2, <1>3, <1>4, <1>5, ErrorKeeps

LEMMA DebounceTimerKeeps ==
  ASSUME SseInv, DebounceTimer
  PROVE  SseInv'
BY DEF DebounceTimer, SseInv, SseTypeOK, StaleIsTimed, TrackedUnlessLost, NeverSilentlyDark, PauseInv,
   ConnectedOrPaused, DisposedInv, connected, Live

LEMMA InactivityTimerKeeps ==
  ASSUME SseInv, InactivityTimer
  PROVE  SseInv'
<1>1. /\ inactivity = "pending" /\ inactivity' = "fired"
      /\ source' = closing(connections) /\ connections' = {}
      /\ UNCHANGED <<urls, disposed, stale, grace, debounce, listening, hidden, told, owed, lost,
                     connects, errors>>
  BY DEF InactivityTimer
<1>2. /\ source' \in [Sources -> {"none", "connecting", "open"}]
      /\ Live' = Live \ connections
  <2>1. Live' = {r \in Sources : source'[r] # "none"}
    BY DEF Live
  <2> QED BY <1>1, <2>1, Closed DEF SseInv, SseTypeOK
<1>3. SseTypeOK'
  BY <1>1, <1>2 DEF SseInv, SseTypeOK
<1> QED BY <1>1, <1>2, <1>3 DEF SseInv, StaleIsTimed, TrackedUnlessLost, NeverSilentlyDark, PauseInv,
        ConnectedOrPaused, DisposedInv

LEMMA HideKeeps ==
  ASSUME SseInv, Hide
  PROVE  SseInv'
BY DEF Hide, SseInv, SseTypeOK, StaleIsTimed, TrackedUnlessLost, NeverSilentlyDark, PauseInv,
   ConnectedOrPaused, DisposedInv, connected, Live

LEMMA ShowKeeps ==
  ASSUME SseInv, Show
  PROVE  SseInv'
<1>1. /\ hidden /\ hidden' = FALSE
      /\ inactivity' = IF listening THEN "unset" ELSE inactivity
      /\ UNCHANGED <<urls, disposed, stale, grace, debounce, listening, told, lost, connects, errors>>
  BY DEF Show
<1>2. inactivity' = "unset"
  BY <1>1 DEF SseInv, PauseInv, SseTypeOK
<1>3. CASE resumes
  <2> DEFINE new == fresh(source, urls)
  <2>1. connections = {} /\ urls # {} /\ listening /\ ~disposed
    BY <1>3 DEF resumes, SseInv, DisposedInv
  <2>2. /\ canOpen(source, urls) /\ source' = opening(source, new) /\ connections' = new
        /\ owed' = FALSE
    BY <1>3, <2>1 DEF Show
  <2>3. urls \in SUBSET Urls /\ source \in [Sources -> {"none", "connecting", "open"}]
    BY DEF SseInv, SseTypeOK
  <2>4. /\ new \subseteq Sources
        /\ \A s, r \in new : url(s) = url(r) => s = r
        /\ {url(s) : s \in new} = urls
    BY <2>2, <2>3, FreshOnes
  <2> HIDE DEF new
  <2>5. /\ source' \in [Sources -> {"none", "connecting", "open"}]
        /\ {s \in Sources : source'[s] # "none"} = Live \union new
    BY <2>2, <2>3, <2>4, Opened DEF Live
  <2>6. SseTypeOK'
    BY <1>1, <1>2, <2>2, <2>4, <2>5 DEF SseInv, SseTypeOK
  <2>7. TrackedUnlessLost'
    BY <1>1, <2>1, <2>2, <2>4, <2>5 DEF SseInv, TrackedUnlessLost, Live
  <2>8. connected' = urls'
    BY <1>1, <2>2, <2>4 DEF connected
  <2> QED BY <1>1, <1>2, <2>1, <2>6, <2>7, <2>8 DEF SseInv, StaleIsTimed, NeverSilentlyDark, PauseInv,
          ConnectedOrPaused, DisposedInv
<1>4. CASE ~resumes
  <2>1. UNCHANGED <<source, connections, owed>>
    BY <1>4 DEF Show
  <2>2. SseTypeOK' /\ TrackedUnlessLost' /\ connected' = connected
    BY <1>1, <1>2, <2>1 DEF SseInv, SseTypeOK, TrackedUnlessLost, connected, Live
  <2>3. ConnectedOrPaused'
    <3>1. CASE connections = {} /\ inactivity = "fired" /\ urls # {}
      BY <1>4, <3>1 DEF resumes, SseInv, PauseInv
    <3>2. CASE connections = {} /\ urls = {}
      BY <1>1, <2>1, <2>2, <3>2 DEF ConnectedOrPaused, connected
    <3>3. CASE disposed \/ connected = urls
      BY <1>1, <2>2, <3>3 DEF ConnectedOrPaused
    <3> QED BY <3>1, <3>2, <3>3 DEF SseInv, ConnectedOrPaused
  <2> QED BY <1>1, <1>2, <2>1, <2>2, <2>3 DEF SseInv, StaleIsTimed, NeverSilentlyDark, PauseInv, DisposedInv
<1> QED BY <1>3, <1>4

LEMMA SseStepKeeps == SseInv /\ [SseNext]_sseVars => SseInv'
<1> SUFFICES ASSUME SseInv, [SseNext]_sseVars PROVE SseInv'
  OBVIOUS
<1>1. CASE UNCHANGED sseVars
  BY <1>1 DEF sseVars, timerVars, SseInv, SseTypeOK, StaleIsTimed, TrackedUnlessLost, NeverSilentlyDark,
     PauseInv, ConnectedOrPaused, DisposedInv, connected, Live
<1>2. CASE \E U \in SUBSET Urls : connect(U)
  BY <1>2, SseConnectKeeps
<1>3. CASE \E s \in Sources :
             handleOpen(s) \/ handleMessage(s) \/ handleTransientError(s) \/ handleFatalError(s)
  BY <1>3, OpenKeeps, MessageKeeps, TransientErrorKeeps, FatalErrorKeeps
<1>4. CASE dispose \/ GraceTimer \/ DebounceTimer \/ InactivityTimer \/ Hide \/ Show
  BY <1>4, DisposeKeeps, GraceTimerKeeps, DebounceTimerKeeps, InactivityTimerKeeps, HideKeeps, ShowKeeps
<1> QED BY <1>1, <1>2, <1>3, <1>4 DEF SseNext

(* What the properties of the manager rest on holds in every state, however  *)
(* connects, errors, pauses and timers alternate (sse-manager.ts:96-315).    *)
THEOREM SseInvariance == SseSpec => []SseInv
BY SseInitInv, SseStepKeeps, PTL DEF SseSpec

-----------------------------------------------------------------------------
(* However connects, pauses, errors and timers alternate, there is one       *)
(* EventSource of each URL that is wanted and no other (unless one was       *)
(* dropped by the permanent error of another), the grace period runs exactly *)
(* while the manager is stale, and the owner knows when there is none        *)
(* (sse-manager.ts:96-315).                                                  *)
THEOREM ConnectsOnce == SseSpec => []ConnectedOnce
BY SseInvariance, InvImplies, PTL

-----------------------------------------------------------------------------
(* The web provider: the inductive invariant                                 *)

Untouched == polling = NoTimer /\ sse = "none" /\ sseRetry = NoTimer /\ ~stray
RunsAs(t, kind) == task[t] # Idle /\ task[t].kind = kind
PollKnown == polling.running = Known

(* The timers and the connection, with their types: a handle stands for a    *)
(* timer that is pending.                                                    *)
StreamsInv ==
  /\ polling \in [handle: BOOLEAN, running: Nat]
  /\ sse \in {"none", "live", "down", "idle"}
  /\ sseRetry \in [handle: BOOLEAN, running: Nat]
  /\ NotBoth /\ OnePoll
  /\ sseRetry.handle => sseRetry.running >= 1
  /\ sseRetry.running > 0 \/ sse = "down" => ~options.polls

(* Until initialize() has its first flags, after a close too, nothing else   *)
(* runs but what a context change meanwhile has started; and nothing has     *)
(* lost track of polling yet, which initialize() does not look at.           *)
InitializeInv ==
  /\ life # "new" => context \in Contexts
  /\ life = "new" => Untouched /\ ~raced /\ ~listener /\ \A t \in Tasks : task[t] = Idle
  /\ \A t \in Tasks : RunsAs(t, "initialize") =>
       /\ life \in {"initializing", "closed"} /\ ~listener /\ PollKnown
       /\ \A u \in Tasks \ {t} : ~RunsAs(u, "initialize")
       /\ raced \/ (Untouched /\ \A u \in Tasks \ {t} : task[u] = Idle)

(* GuardMatchesRefresh without the cardinality.                              *)
RefreshInv ==
  /\ \A t, u \in Tasks : RunsAs(t, "refresh") /\ RunsAs(u, "refresh") => t = u
  /\ isFetching <=> \E t \in Tasks : RunsAs(t, "refresh")

(* What a request knows of the context it is for: without the await of the   *)
(* persisted cache its generation tells whether it is the current one.       *)
RequestSound(t) ==
  /\ task[t].generation <= revision
  /\ task[t].phase \in {"ok", "store"} =>
       task[t].answer \in Answer /\ task[t].answer.context = task[t].context
  /\ task[t].phase = "load" =>
       task[t].kind = "initialize" \/ (task[t].kind = "contextChange" /\ options.cacheMode = "local-cache-first")
  /\ options.cacheMode # "local-cache-first" /\ task[t].phase # "load" /\ task[t].generation = revision
       => task[t].context = context
RequestInv == \A t \in Tasks : task[t] # Idle => RequestSound(t)

(* Only a provider that does not poll retries SSE by a timer, and only one   *)
(* with a persisted cache refreshes in the background.                       *)
WatchInv ==
  /\ WatchesUncached
  /\ \A t \in Tasks : RunsAs(t, "sseRetry") => ~options.polls
  /\ \A t \in Tasks : RunsAs(t, "background") => options.cacheMode = "local-cache-first"

IInv == TypeOK /\ StreamsInv /\ InitializeInv /\ RefreshInv /\ RequestInv /\ WatchInv

-----------------------------------------------------------------------------
(* The operators of the web provider                                         *)

LEMMA RequestTyped ==
  ASSUME NEW kind \in Kinds, NEW c \in Contexts, NEW gen \in Nat, NEW tag \in Answer \union {None}
  PROVE  /\ request(kind, c, gen, tag) \in Task /\ request(kind, c, gen, tag) # Idle
         /\ request(kind, c, gen, tag).phase = "sent" /\ request(kind, c, gen, tag).kind = kind
         /\ request(kind, c, gen, tag).context = c /\ request(kind, c, gen, tag).generation = gen
BY DEF request, Task, Idle

LEMMA LoadTyped ==
  ASSUME NEW kind \in Kinds, NEW c \in Contexts
  PROVE  /\ load(kind, c) \in Task /\ load(kind, c) # Idle
         /\ load(kind, c).phase = "load" /\ load(kind, c).kind = kind
         /\ load(kind, c).context = c /\ load(kind, c).generation = 0
BY DEF load, Task, Idle

(* A task that runs is one with the fields of a task, and moves on as one.   *)
LEMMA Running ==
  ASSUME task \in [Tasks -> Task \union {Idle}], NEW t \in Tasks, task[t] # Idle
  PROVE  /\ task[t] \in Task /\ task[t].phase # "idle" /\ task[t].kind \in Kinds /\ task[t].context \in Contexts
         /\ task[t].generation \in Nat /\ task[t].etag \in Answer \union {None}
         /\ task[t].answer \in Answer \union {None}
BY DEF Task, Idle

LEMMA Suspended ==
  ASSUME task \in [Tasks -> Task \union {Idle}], NEW t \in Tasks, task[t].phase # "idle"
  PROVE  task[t] # Idle
BY DEF Idle

LEMMA TimersStop ==
  ASSUME NEW timer \in [handle: BOOLEAN, running: Nat], timer.handle => timer.running >= 1
  PROVE  /\ cleared(timer) \in [handle: BOOLEAN, running: Nat] /\ ~cleared(timer).handle
         /\ cleared(timer).running = IF timer.handle THEN timer.running - 1 ELSE timer.running
         /\ started(timer) \in [handle: BOOLEAN, running: Nat] /\ started(timer).handle
         /\ started(timer).running = timer.running + 1
<1>1. CASE timer.handle
  <2>1. timer.running - 1 \in Nat
    BY <1>1
  <2> QED BY <1>1, <2>1 DEF cleared, started
<1>2. CASE ~timer.handle
  BY <1>2 DEF cleared, started
<1> QED BY <1>1, <1>2

(* The timers and the connection in another state keep their invariant, and  *)
(* have lost track of no interval that was known.                            *)
Keeps == StreamsInv' /\ (PollKnown => PollKnown')

LEMMA StreamsAlone ==
  ASSUME StreamsInv, UNCHANGED <<streamVars, options, raced>>
  PROVE  Keeps
BY DEF Keeps, PollKnown, Known, StreamsInv, NotBoth, OnePoll, streamVars

(* A connection of SSE ends polling.                                         *)
LEMMA ConnectKeeps ==
  ASSUME StreamsInv, NEW streams, connectSseIfAvailable(streams), UNCHANGED <<options, raced>>
  PROVE  Keeps /\ sse' # "down" /\ (connectsTo(streams) => sse' \in {"live", "idle"})
<1>0. polling.handle => polling.running >= 1
  BY DEF StreamsInv, OnePoll, Known
<1>1. CASE connectsTo(streams)
  <2>1. polling' = cleared(polling) /\ sseRetry' = cleared(sseRetry) /\ sse' \in {"live", "idle"}
    BY <1>1 DEF connectSseIfAvailable
  <2>2. /\ cleared(polling) \in [handle: BOOLEAN, running: Nat] /\ ~cleared(polling).handle
        /\ cleared(polling).running = IF polling.handle THEN polling.running - 1 ELSE polling.running
    BY <1>0, TimersStop DEF StreamsInv
  <2>3. /\ cleared(sseRetry) \in [handle: BOOLEAN, running: Nat] /\ ~cleared(sseRetry).handle
        /\ cleared(sseRetry).running = IF sseRetry.handle THEN sseRetry.running - 1 ELSE sseRetry.running
    BY TimersStop DEF StreamsInv
  <2>4. NotBoth' /\ OnePoll' /\ (PollKnown => PollKnown')
    BY <2>1, <2>2 DEF StreamsInv, NotBoth, OnePoll, PollKnown, Known
  <2>5. sseRetry'.running > 0 => ~options.polls
    BY <2>1, <2>3 DEF StreamsInv
  <2> QED BY <2>1, <2>2, <2>3, <2>4, <2>5 DEF Keeps, StreamsInv
<1>2. CASE ~connectsTo(streams)
  BY <1>2 DEF connectSseIfAvailable, Keeps, PollKnown, Known, StreamsInv, NotBoth, OnePoll
<1> QED BY <1>1, <1>2

(* connectSseOrPoll leaves one of the two, and watches if it should.  Only   *)
(* initialize() may start a second interval, if one runs already.            *)
LEMMA ConnectOrPollKeeps ==
  ASSUME StreamsInv, NEW kind, NEW hasResult \in BOOLEAN, NEW streams,
         connectSseOrPoll(kind, hasResult, streams), UNCHANGED <<options, raced>>,
         options \in Options,
         kind = "initialize" => PollKnown /\ (raced \/ Untouched)
  PROVE  /\ StreamsInv'
         /\ kind # "initialize" => Keeps
         /\ shouldPoll => polling'.handle \/ sse' \in {"live", "idle"}
<1>0. /\ polling.handle => polling.running >= 1
      /\ polling \in [handle: BOOLEAN, running: Nat]
  BY DEF StreamsInv, OnePoll, Known
<1>1. CASE connectsTo(streams)
  <2>1. connectSseIfAvailable(streams)
    BY <1>1 DEF connectSseOrPoll
  <2> QED BY <1>1, <2>1, ConnectKeeps DEF Keeps
<1>2. CASE ~connectsTo(streams)
  <2>1. /\ sse' \in {"none", sse} /\ UNCHANGED sseRetry
        /\ polling' = IF sse' = "none" /\ shouldPoll /\ (kind = "initialize" \/ ~polling.handle)
                      THEN started(polling) ELSE polling
    BY <1>2 DEF connectSseOrPoll
  <2>2. CASE sse' = "none" /\ shouldPoll /\ (kind = "initialize" \/ ~polling.handle)
    <3>1. polling' = started(polling)
      BY <2>1, <2>2
    <3>2. /\ polling' \in [handle: BOOLEAN, running: Nat] /\ polling'.handle
          /\ polling'.running = polling.running + 1
      BY <1>0, <3>1, TimersStop
    <3>3. polling.handle => kind = "initialize" /\ PollKnown /\ raced
      BY <2>2 DEF Untouched, NoTimer
    <3>4. OnePoll' /\ (kind # "initialize" /\ PollKnown => PollKnown')
      <4>1. CASE polling.handle
        BY <1>0, <3>2, <3>3, <4>1 DEF OnePoll, PollKnown, Known
      <4>2. CASE ~polling.handle
        BY <1>0, <3>2, <4>2 DEF StreamsInv, OnePoll, PollKnown, Known
      <4> QED BY <4>1, <4>2
    <3>5. NotBoth'
      BY <2>2 DEF NotBoth
    <3> QED BY <2>1, <2>2, <3>2, <3>4, <3>5 DEF StreamsInv, Keeps
  <2>3. CASE ~(sse' = "none" /\ shouldPoll /\ (kind = "initialize" \/ ~polling.handle))
    <3>1. UNCHANGED polling
      BY <2>1, <2>3
    <3>2. StreamsInv' /\ (PollKnown => PollKnown')
      BY <2>1, <3>1 DEF StreamsInv, NotBoth, OnePoll, PollKnown, Known
    <3>3. shouldPoll => polling.handle \/ sse' \in {"live", "idle"}
      BY <2>1, <2>3 DEF StreamsInv, shouldPoll
    <3> QED BY <3>1, <3>2, <3>3 DEF Keeps
  <2> QED BY <2>2, <2>3
<1> QED BY <1>1, <1>2

(* An error of SSE starts polling or a retry, never both.                    *)
LEMMA SseErrorHandled ==
  ASSUME StreamsInv, NEW manager \in {"none", "live", "down", "idle"}, handleSseError(manager),
         UNCHANGED <<options, raced>>, options \in Options,
         manager = sse \/ (manager = "down" /\ sse = "live")
  PROVE  Keeps /\ (options.polls /\ (polling.handle \/ sse # "none") => polling'.handle \/ sse' # "none")
<1>0. /\ polling.handle => polling.running >= 1
      /\ polling \in [handle: BOOLEAN, running: Nat]
  BY DEF StreamsInv, OnePoll, Known
<1> USE DEF Keeps, StreamsInv, NotBoth, OnePoll, PollKnown, Known
<1>1. CASE manager = "none" /\ UNCHANGED streamVars
  BY <1>1 DEF streamVars
<1>2. CASE manager # "none" /\ options.polls /\ UNCHANGED sseRetry
           /\ polling.handle /\ sse' = manager /\ UNCHANGED polling
  BY <1>2
<1>3. CASE manager # "none" /\ options.polls /\ UNCHANGED sseRetry
           /\ ~polling.handle /\ sse' = "none" /\ polling' = started(polling)
  BY <1>0, <1>3, TimersStop
<1>4. CASE manager # "none" /\ ~options.polls /\ sse' = manager /\ UNCHANGED polling
           /\ sseRetry' = IF options.detection # "none" THEN started(sseRetry) ELSE sseRetry
  BY <1>4, TimersStop
<1> QED BY <1>1, <1>2, <1>3, <1>4 DEF handleSseError

(* How each caller of _fetchFlags goes on.                                   *)
LEMMA ContinueFacts ==
  ASSUME StreamsInv, options \in Options, UNCHANGED options, isFetching \in BOOLEAN,
         NEW kind \in Kinds, NEW changes, NEW streams, continueWith(kind, changes, streams),
         kind = "initialize" => PollKnown /\ (raced \/ Untouched)
  PROVE  /\ StreamsInv' /\ UNCHANGED raced
         /\ kind # "initialize" => Keeps /\ UNCHANGED <<life, listener>>
         /\ kind = "initialize" => /\ life' = IF life = "initializing" THEN "initialized" ELSE life
                                   /\ listener' = TRUE
         /\ isFetching' = (isFetching /\ kind # "refresh")
         /\ kind \in {"initialize", "contextChange"} =>
              (shouldPoll => polling'.handle \/ sse' \in {"live", "idle"})
         /\ kind \in {"refresh", "sseRefetch"} => UNCHANGED streamVars
<1> USE DEF lifeVars, initialized
<1>1. CASE kind = "initialize"
  <2>1. /\ connectSseOrPoll(kind, TRUE, streams) /\ UNCHANGED isFetching
        /\ initialized("initialized")
    BY <1>1 DEF continueWith
  <2> QED BY <1>1, <2>1, ConnectOrPollKeeps
<1>2. CASE kind = "contextChange"
  <2>1. connectSseOrPoll(kind, TRUE, streams) /\ UNCHANGED <<lifeVars, isFetching>>
    BY <1>2 DEF continueWith
  <2> QED BY <1>2, <2>1, ConnectOrPollKeeps
<1>3. CASE kind = "background"
  <2>1. /\ UNCHANGED <<lifeVars, isFetching>>
        /\ UNCHANGED streamVars \/ connectSseIfAvailable(streams)
    BY <1>3 DEF continueWith
  <2> QED BY <1>3, <2>1, ConnectKeeps, StreamsAlone DEF Keeps
<1>4. CASE kind \in {"refresh", "sseRefetch"}
  <2>1. UNCHANGED <<lifeVars, streamVars>> /\ isFetching' = (isFetching /\ kind # "refresh")
    BY <1>4 DEF continueWith
  <2> QED BY <1>4, <2>1, StreamsAlone DEF Keeps
<1>5. CASE kind = "sseRetry"
  <2>1. connectSseIfAvailable(streams) /\ UNCHANGED <<lifeVars, isFetching>>
    BY <1>5 DEF continueWith
  <2> QED BY <1>5, <2>1, ConnectKeeps DEF Keeps
<1> QED BY <1>1, <1>2, <1>3, <1>4, <1>5 DEF Kinds

-----------------------------------------------------------------------------
(* The steps of the web provider                                             *)

LifeTyped ==
  /\ life \in {"new", "initializing", "initialized", "failed", "closed"}
  /\ raced \in BOOLEAN /\ listener \in BOOLEAN

TasksInv == StreamsInv /\ InitializeInv /\ RefreshInv /\ RequestInv /\ WatchInv

(* A step of another task leaves initialize() where it is.                   *)
LEMMA BesideInitialize ==
  ASSUME InitializeInv, NEW t \in Tasks, task[t] # Idle, task[t].kind # "initialize",
         UNCHANGED <<life, listener, raced, context>>, PollKnown => PollKnown',
         \A u \in Tasks \ {t} : task'[u] = task[u], ~RunsAs(t, "initialize")'
  PROVE  InitializeInv'
<1>1. ASSUME NEW u \in Tasks, RunsAs(u, "initialize")'
      PROVE  u # t /\ RunsAs(u, "initialize") /\ raced
  BY <1>1 DEF InitializeInv, RunsAs
<1>2. ASSUME NEW u \in Tasks, RunsAs(u, "initialize")', NEW v \in Tasks \ {u}
      PROVE  ~RunsAs(v, "initialize")'
  BY <1>1, <1>2 DEF InitializeInv
<1>3. life # "new"
  BY DEF InitializeInv
<1> QED BY <1>1, <1>2, <1>3 DEF InitializeInv

(* With initialize() at its end nothing of it is left.                       *)
LEMMA InitializeOver ==
  ASSUME InitializeInv, NEW t \in Tasks, RunsAs(t, "initialize"), UNCHANGED context,
         life' # "new", \A u \in Tasks \ {t} : task'[u] = task[u], ~RunsAs(t, "initialize")'
  PROVE  InitializeInv'
<1>1. ASSUME NEW u \in Tasks, RunsAs(u, "initialize")' PROVE FALSE
  BY <1>1 DEF InitializeInv, RunsAs
<1>2. life # "new"
  BY DEF InitializeInv
<1> QED BY <1>1, <1>2 DEF InitializeInv

(* Nor does a step that changes no task's kind and no timer.                 *)
LEMMA SameTasks ==
  ASSUME InitializeInv, NEW t \in Tasks, task[t] # Idle,
         UNCHANGED <<life, listener, raced, context, streamVars, stray>>,
         \A u \in Tasks \ {t} : task'[u] = task[u],
         task'[t] # Idle /\ task'[t].kind = task[t].kind
  PROVE  InitializeInv'
<1>1. \A u \in Tasks : RunsAs(u, "initialize")' <=> RunsAs(u, "initialize")
  BY DEF RunsAs
<1>2. (Untouched <=> Untouched') /\ (PollKnown <=> PollKnown')
  BY DEF Untouched, PollKnown, Known, streamVars
<1>3. life # "new"
  BY DEF InitializeInv
<1> QED BY <1>1, <1>2, <1>3 DEF InitializeInv

(* The end of a task that got a response.                                    *)
LEMMA FinishKeeps ==
  ASSUME IInv, NEW t \in Tasks, task[t] # Idle, NEW changes, NEW streams,
         continueWith(task[t].kind, changes, streams), Finish(t),
         UNCHANGED <<options, context, revision, stray>>
  PROVE  /\ TasksInv'
         /\ task' \in [Tasks -> Task \union {Idle}] /\ isFetching' \in BOOLEAN
         /\ LifeTyped'
<1> USE DEF IInv
<1>1. /\ task \in [Tasks -> Task \union {Idle}] /\ isFetching \in BOOLEAN /\ options \in Options
      /\ LifeTyped
      /\ task' = [task EXCEPT ![t] = Idle]
  BY DEF TypeOK, Finish, LifeTyped
<1>2. task[t].kind \in Kinds
  BY <1>1, Running
<1>3. task[t].kind = "initialize" => PollKnown /\ (raced \/ Untouched)
  BY DEF InitializeInv, RunsAs
<1>4. /\ StreamsInv' /\ UNCHANGED raced
      /\ task[t].kind # "initialize" => Keeps /\ UNCHANGED <<life, listener>>
      /\ task[t].kind = "initialize" => /\ life' = IF life = "initializing" THEN "initialized" ELSE life
                                        /\ listener' = TRUE
      /\ isFetching' = (isFetching /\ task[t].kind # "refresh")
      /\ task[t].kind \in {"initialize", "contextChange"} =>
           (shouldPoll => polling'.handle \/ sse' \in {"live", "idle"})
      /\ task[t].kind \in {"refresh", "sseRefetch"} => UNCHANGED streamVars
  BY <1>1, <1>2, <1>3, ContinueFacts
<1>5. \A u \in Tasks : task'[u] = IF u = t THEN Idle ELSE task[u]
  BY <1>1
<1>6. InitializeInv'
  <2>1. ~RunsAs(t, "initialize")'
    BY <1>5 DEF RunsAs
  <2>2. CASE task[t].kind = "initialize"
    <3>1. life' # "new"
      BY <1>4, <2>2 DEF InitializeInv, RunsAs
    <3> QED BY <1>5, <2>1, <2>2, <3>1, InitializeOver DEF RunsAs
  <2>3. CASE task[t].kind # "initialize"
    BY <1>4, <1>5, <2>1, <2>3, BesideInitialize DEF Keeps
  <2> QED BY <2>2, <2>3
<1>7. RefreshInv'
  BY <1>4, <1>5 DEF RefreshInv, RunsAs
<1>8. RequestInv'
  BY <1>5 DEF RequestInv, RequestSound
<1>9. WatchInv'
  <2>1. WatchesUncached'
    <3> SUFFICES ASSUME options.cacheMode # "local-cache-first", life' = "initialized", shouldPoll
                 PROVE  polling'.handle \/ sse' \in {"live", "idle"}
      BY DEF WatchesUncached, Watches, shouldPoll
    <3>1. CASE task[t].kind \in {"initialize", "contextChange"}
      BY <3>1, <1>4
    <3>2. CASE task[t].kind \in {"refresh", "sseRefetch"}
      BY <3>2, <1>4 DEF WatchInv, WatchesUncached, Watches, shouldPoll, streamVars
    <3> QED BY <3>1, <3>2, <1>2 DEF WatchInv, RunsAs, shouldPoll, Kinds
  <2> QED BY <2>1, <1>5 DEF WatchInv, RunsAs
<1>10. LifeTyped'
  BY <1>1, <1>4 DEF LifeTyped
<1> QED BY <1>1, <1>4, <1>6, <1>7, <1>8, <1>9, <1>10 DEF TasksInv

LEMMA NotModifiedKeeps ==
  ASSUME IInv, NEW t \in Tasks, NotModified(t)
  PROVE  IInv'
<1>1. task[t] # Idle
  BY DEF NotModified, Idle
<1>2. /\ TasksInv' /\ task' \in [Tasks -> Task \union {Idle}] /\ isFetching' \in BOOLEAN
      /\ LifeTyped'
  BY <1>1, FinishKeeps DEF NotModified
<1>3. TypeOK'
  BY <1>2 DEF IInv, TypeOK, NotModified, TasksInv, StreamsInv, flagVars, LifeTyped
<1> QED BY <1>2, <1>3 DEF IInv, TasksInv

LEMMA SupersededKeeps ==
  ASSUME IInv, NEW t \in Tasks, Superseded(t)
  PROVE  IInv'
<1>1. task[t] # Idle
  BY DEF Superseded, Idle
<1>2. /\ TasksInv' /\ task' \in [Tasks -> Task \union {Idle}] /\ isFetching' \in BOOLEAN
      /\ LifeTyped'
  BY <1>1, FinishKeeps DEF Superseded
<1>3. TypeOK'
  BY <1>2 DEF IInv, TypeOK, Superseded, TasksInv, StreamsInv, flagVars, LifeTyped
<1> QED BY <1>2, <1>3 DEF IInv, TasksInv

LEMMA StoredKeeps ==
  ASSUME IInv, NEW t \in Tasks, Stored(t)
  PROVE  IInv'
<1>1. task[t] # Idle /\ task[t].answer \in Answer
  BY DEF Stored, Idle, IInv, RequestInv, RequestSound
<1>2. /\ TasksInv' /\ task' \in [Tasks -> Task \union {Idle}] /\ isFetching' \in BOOLEAN
      /\ LifeTyped'
  BY <1>1, FinishKeeps DEF Stored
<1>3. TypeOK'
  BY <1>1, <1>2 DEF IInv, TypeOK, Stored, TasksInv, StreamsInv, LifeTyped
<1> QED BY <1>2, <1>3 DEF IInv, TasksInv

LEMMA InitializeKeeps ==
  ASSUME IInv, NEW t \in Tasks, NEW c \in Contexts, initialize(t, c)
  PROVE  IInv'
<1> USE DEF IInv
<1> DEFINE w == task'[t]
<1>1. /\ life = "new" /\ life' = "initializing" /\ context' = c
      /\ UNCHANGED <<options, raced, listener, revision, flagVars, limited, isFetching, streamVars, stray,
                     stored, clearing, server, faults>>
      /\ task' = [task EXCEPT ![t] = w]
      /\ w \in {load("initialize", c), request("initialize", c, revision, etag)}
  BY DEF initialize, TypeOK
<1>2. /\ w \in Task /\ w # Idle /\ w.kind = "initialize" /\ w.phase \in {"load", "sent"} /\ w.context = c
      /\ w.generation <= revision
  BY <1>1, RequestTyped, LoadTyped DEF TypeOK, Kinds
<1>3. \A u \in Tasks : task[u] = Idle /\ task'[u] = IF u = t THEN w ELSE Idle
  BY <1>1 DEF InitializeInv, TypeOK
<1> HIDE DEF w
<1>4. StreamsInv'
  BY <1>1, StreamsAlone DEF Keeps
<1>5. TypeOK'
  BY <1>1, <1>2, <1>4 DEF TypeOK, StreamsInv, flagVars
<1>6. InitializeInv'
  BY <1>1, <1>2, <1>3 DEF InitializeInv, RunsAs, Untouched, PollKnown, Known, NoTimer, streamVars
<1>7. RefreshInv'
  BY <1>1, <1>2, <1>3 DEF RefreshInv, RunsAs
<1>8. RequestInv'
  BY <1>1, <1>2, <1>3 DEF RequestInv, RequestSound
<1>9. WatchInv'
  BY <1>1, <1>2, <1>3 DEF WatchInv, WatchesUncached, Watches, RunsAs
<1> QED BY <1>4, <1>5, <1>6, <1>7, <1>8, <1>9

LEMMA OnContextChangeKeeps ==
  ASSUME IInv, NEW t \in Tasks, NEW c \in Contexts, onContextChange(t, c)
  PROVE  IInv'
<1> USE DEF IInv
<1> DEFINE w == task'[t]
<1>1. /\ life \notin {"new", "closed"} /\ context' = c /\ revision' = revision + 1 /\ task[t] = Idle
      /\ UNCHANGED <<options, life, listener, flags, usingCache, eventStreams, limited, isFetching,
                     streamVars, stray, stored, server, faults>>
      /\ raced' = (raced \/ life = "initializing") /\ raced' \in BOOLEAN
      /\ etag' \in {etag, None} /\ clearing' \in {clearing, clearing \union {targetingKey(context)}}
  BY DEF onContextChange, TypeOK
<1>2. task' = [task EXCEPT ![t] = IF limited THEN Idle
                                  ELSE IF options.cacheMode = "local-cache-first"
                                  THEN load("contextChange", c)
                                  ELSE request("contextChange", c, revision', etag')]
  BY DEF onContextChange
<1>3. /\ task' = [task EXCEPT ![t] = w]
      /\ w \in {Idle, request("contextChange", c, revision', etag')}
           \/ (w = load("contextChange", c) /\ options.cacheMode = "local-cache-first")
  BY <1>2 DEF TypeOK
<1>4. revision \in Nat /\ etag' \in Answer \union {None} /\ context \in Contexts
  BY <1>1 DEF TypeOK, InitializeInv
<1>5. w = Idle \/ /\ w \in Task /\ w # Idle /\ w.kind = "contextChange" /\ w.phase \in {"load", "sent"}
                  /\ w.context = c /\ w.generation <= revision'
                  /\ w.phase = "load" => options.cacheMode = "local-cache-first"
  BY <1>1, <1>3, <1>4, RequestTyped, LoadTyped DEF Kinds
<1>6. \A u \in Tasks : task'[u] = IF u = t THEN w ELSE task[u]
  BY <1>3 DEF TypeOK
<1> HIDE DEF w
<1>7. StreamsInv' /\ (PollKnown => PollKnown')
  BY <1>1 DEF StreamsInv, NotBoth, OnePoll, PollKnown, Known, streamVars
<1>8. TypeOK'
  <2>1. clearing' \subseteq Keys
    BY <1>1, <1>4 DEF TypeOK, Keys
  <2>2. task' \in [Tasks -> Task \union {Idle}] /\ revision' \in Nat
    BY <1>1, <1>3, <1>4, <1>5 DEF TypeOK
  <2> QED BY <1>1, <1>4, <1>7, <2>1, <2>2 DEF TypeOK, StreamsInv
<1>9. InitializeInv'
  <2>1. life' # "new" /\ context' \in Contexts
    BY <1>1
  <2>2. ASSUME NEW u \in Tasks, RunsAs(u, "initialize")'
        PROVE  /\ u # t /\ RunsAs(u, "initialize") /\ raced' /\ PollKnown'
               /\ life' \in {"initializing", "closed"} /\ ~listener'
    <3>1. u # t /\ RunsAs(u, "initialize")
      BY <2>2, <1>5, <1>6 DEF RunsAs
    <3> QED BY <3>1, <1>1, <1>7 DEF InitializeInv
  <2>3. ASSUME NEW u \in Tasks, RunsAs(u, "initialize")', NEW v \in Tasks \ {u}
        PROVE  ~RunsAs(v, "initialize")'
    BY <2>2, <2>3, <1>5, <1>6 DEF InitializeInv, RunsAs
  <2> QED BY <2>1, <2>2, <2>3 DEF InitializeInv
<1>10. RefreshInv'
  BY <1>1, <1>5, <1>6 DEF RefreshInv, RunsAs
<1>11. RequestInv'
  <2> SUFFICES ASSUME NEW u \in Tasks, task'[u] # Idle PROVE RequestSound(u)'
    BY DEF RequestInv
  <2>1. CASE u = t
    BY <1>1, <1>5, <1>6, <2>1 DEF RequestSound
  <2>2. CASE u # t
    <3>1. task'[u] = task[u] /\ task[u] # Idle
      BY <1>6, <2>2
    <3>2. task[u].generation \in Nat
      BY <3>1, Running DEF TypeOK
    <3> QED BY <1>1, <1>4, <3>1, <3>2 DEF RequestInv, RequestSound
  <2> QED BY <2>1, <2>2
<1>12. WatchInv'
  BY <1>1, <1>5, <1>6 DEF WatchInv, WatchesUncached, Watches, RunsAs, streamVars, shouldPoll
<1> QED BY <1>7, <1>8, <1>9, <1>10, <1>11, <1>12

LEMMA ClearKeeps ==
  ASSUME IInv, NEW k \in Keys, clear(k)
  PROVE  IInv'
<1> USE DEF IInv, clear, lifeVars
<1>1. StreamsInv'
  BY StreamsAlone DEF Keeps
<1>2. TypeOK'
  BY <1>1 DEF TypeOK, StreamsInv, flagVars
<1>3. InitializeInv' /\ RefreshInv' /\ RequestInv' /\ WatchInv'
  BY DEF InitializeInv, RunsAs, Untouched, PollKnown, Known, streamVars, RefreshInv, RequestInv, RequestSound, WatchInv,
         WatchesUncached, Watches, shouldPoll
<1> QED BY <1>1, <1>2, <1>3

(* A hit: the persisted streams are connected to, and the task goes on in    *)
(* the background.                                                           *)
LEMMA CacheHitKeeps ==
  ASSUME IInv, NEW t \in Tasks, CacheHit(t)
  PROVE  IInv'
<1> USE DEF IInv
<1> DEFINE w == task'[t]
           entry == stored[targetingKey(task[t].context)]
<1>1. /\ options.cacheMode = "local-cache-first" /\ task[t].phase = "load"
      /\ entry # None /\ loadFlags(entry)
      /\ UNCHANGED <<options, context, revision, limited, isFetching, stray, stored, clearing, server, faults>>
  BY DEF CacheHit
<1>2. task[t] # Idle /\ task[t].kind \in Kinds /\ task[t].context \in Contexts
  BY <1>1, Running, Suspended DEF TypeOK
<1>3. entry \in Answer
  BY <1>1, <1>2 DEF TypeOK, Keys
<1>4. \/ /\ task[t].kind = "initialize" /\ connectSseOrPoll("initialize", FALSE, entry.streams)
         /\ life' = (IF life = "initializing" THEN "initialized" ELSE life)
         /\ listener' \in BOOLEAN /\ UNCHANGED raced
      \/ /\ task[t].kind # "initialize" /\ UNCHANGED <<life, listener, raced>>
         /\ connectSseIfAvailable(entry.streams) \/ UNCHANGED streamVars
  BY DEF CacheHit, initialized, lifeVars, TypeOK
<1>5. task' = [task EXCEPT ![t] = IF limited THEN Idle ELSE request("background", context, revision, etag')]
  BY DEF CacheHit
<1>6. /\ task' = [task EXCEPT ![t] = w]
      /\ w \in {Idle, request("background", context, revision, entry)}
  BY <1>1, <1>5 DEF TypeOK, loadFlags
<1>7. context \in Contexts /\ revision \in Nat
  BY <1>2 DEF InitializeInv, TypeOK
<1>8. w = Idle \/ /\ w \in Task /\ w # Idle /\ w.kind = "background" /\ w.phase = "sent"
                  /\ w.generation <= revision
  BY <1>3, <1>6, <1>7, RequestTyped DEF Kinds
<1>9. \A u \in Tasks : task'[u] = IF u = t THEN w ELSE task[u]
  BY <1>6 DEF TypeOK
<1>10. entry.streams \in Streams
  BY <1>3 DEF Answer
<1> HIDE DEF w, entry
<1>11. StreamsInv' /\ (task[t].kind # "initialize" => Keeps)
  <2>1. task[t].kind = "initialize" => PollKnown /\ (raced \/ Untouched)
    BY <1>2 DEF InitializeInv, RunsAs
  <2>2. CASE task[t].kind = "initialize"
    BY <1>1, <1>4, <2>1, <2>2, ConnectOrPollKeeps DEF TypeOK
  <2>3. CASE task[t].kind # "initialize"
    BY <1>1, <1>4, <2>3, ConnectKeeps, StreamsAlone DEF Keeps
  <2> QED BY <2>2, <2>3
<1>12. TypeOK'
  <2>1. task' \in [Tasks -> Task \union {Idle}]
    BY <1>6, <1>8 DEF TypeOK
  <2> QED BY <1>1, <1>3, <1>4, <1>10, <1>11, <2>1 DEF TypeOK, StreamsInv, loadFlags
<1>13. InitializeInv'
  <2>1. ~RunsAs(t, "initialize")'
    BY <1>8, <1>9 DEF RunsAs
  <2>2. CASE task[t].kind = "initialize"
    <3>1. life' # "new"
      BY <1>2, <1>4, <2>2 DEF InitializeInv, RunsAs
    <3> QED BY <1>1, <1>2, <1>9, <2>1, <2>2, <3>1, InitializeOver DEF RunsAs
  <2>3. CASE task[t].kind # "initialize"
    BY <1>1, <1>2, <1>4, <1>9, <1>11, <2>1, <2>3, BesideInitialize DEF Keeps
  <2> QED BY <2>2, <2>3
<1>14. RefreshInv'
  <2>1. task[t].kind # "refresh"
    BY <1>1, <1>2 DEF RequestInv, RequestSound
  <2> QED BY <1>1, <1>8, <1>9, <2>1 DEF RefreshInv, RunsAs
<1>15. RequestInv'
  BY <1>1, <1>8, <1>9 DEF RequestInv, RequestSound
<1>16. WatchInv'
  BY <1>1, <1>8, <1>9 DEF WatchInv, WatchesUncached, RunsAs
<1> QED BY <1>11, <1>12, <1>13, <1>14, <1>15, <1>16

LEMMA CacheMissKeeps ==
  ASSUME IInv, NEW t \in Tasks, CacheMiss(t)
  PROVE  IInv'
<1> USE DEF IInv
<1> DEFINE w == request(task[t].kind, task[t].context, revision, etag)
<1>1. /\ options.cacheMode = "local-cache-first" /\ task[t].phase = "load"
      /\ stored' = [stored EXCEPT ![targetingKey(task[t].context)] = None]
      /\ task' = [task EXCEPT ![t] = w]
      /\ UNCHANGED <<options, life, raced, listener, context, revision, flagVars, limited, isFetching,
                     streamVars, stray, clearing, server, faults>>
  BY DEF CacheMiss, lifeVars
<1>2. task[t] # Idle /\ task[t].kind \in Kinds /\ task[t].context \in Contexts
  BY <1>1, Running, Suspended DEF TypeOK
<1>3. /\ w \in Task /\ w # Idle /\ w.kind = task[t].kind /\ w.phase = "sent" /\ w.generation = revision
  BY <1>2, RequestTyped DEF TypeOK
<1>4. \A u \in Tasks : task'[u] = IF u = t THEN w ELSE task[u]
  BY <1>1 DEF TypeOK
<1> HIDE DEF w
<1>5. StreamsInv'
  BY <1>1, StreamsAlone DEF Keeps
<1>6. TypeOK'
  <2>1. task' \in [Tasks -> Task \union {Idle}]
    BY <1>1, <1>3 DEF TypeOK
  <2>2. stored' \in [Keys -> Answer \union {None}]
    BY <1>1 DEF TypeOK
  <2> QED BY <1>1, <1>5, <2>1, <2>2 DEF TypeOK, StreamsInv, flagVars
<1>7. InitializeInv'
  BY <1>1, <1>2, <1>3, <1>4, SameTasks DEF RunsAs
<1>8. RefreshInv'
  BY <1>1, <1>2, <1>3, <1>4 DEF RefreshInv, RunsAs
<1>9. RequestInv'
  BY <1>1, <1>3, <1>4 DEF RequestInv, RequestSound, TypeOK
<1>10. WatchInv'
  BY <1>1, <1>2, <1>3, <1>4 DEF WatchInv, WatchesUncached, RunsAs, RequestInv, RequestSound
<1> QED BY <1>5, <1>6, <1>7, <1>8, <1>9, <1>10

LEMMA FallbackKeeps ==
  ASSUME IInv, NEW t \in Tasks, Fallback(t)
  PROVE  IInv'
<1> USE DEF IInv
<1> DEFINE entry == stored[targetingKey(task[t].context)]
<1>1. /\ options.cacheMode = "network-first" /\ task[t].phase = "load" /\ task' = [task EXCEPT ![t] = Idle]
      /\ UNCHANGED <<options, context, revision, limited, isFetching, stray, clearing, server, faults>>
  BY DEF Fallback, Finish
<1>2. /\ UNCHANGED raced /\ listener' \in BOOLEAN
      /\ \/ /\ entry # None /\ loadFlags(entry) /\ connectSseOrPoll("initialize", FALSE, entry.streams)
            /\ life' = IF life = "initializing" THEN "initialized" ELSE life
            /\ UNCHANGED stored
         \/ /\ stored' = [stored EXCEPT ![targetingKey(task[t].context)] = None]
            /\ life' = IF life = "initializing" THEN "failed" ELSE life
            /\ UNCHANGED <<flagVars, streamVars>>
  BY DEF Fallback, initialized, TypeOK
<1>3. task[t] # Idle /\ task[t].kind = "initialize" /\ task[t].context \in Contexts
  BY <1>1, Running, Suspended DEF TypeOK, RequestInv, RequestSound
<1>4. \A u \in Tasks : task'[u] = IF u = t THEN Idle ELSE task[u]
  BY <1>1 DEF TypeOK
<1>5. entry # None => entry \in Answer /\ entry.streams \in Streams
  BY <1>3 DEF TypeOK, Keys, Answer
<1> HIDE DEF entry
<1>6. StreamsInv' /\ (life' = "initialized" /\ shouldPoll => polling'.handle \/ sse' \in {"live", "idle"})
  <2>1. life # "initialized" /\ PollKnown /\ (raced \/ Untouched)
    BY <1>3 DEF InitializeInv, RunsAs
  <2> QED BY <1>1, <1>2, <2>1, ConnectOrPollKeeps, StreamsAlone DEF Keeps, TypeOK
<1>7. TypeOK'
  BY <1>1, <1>2, <1>5, <1>6 DEF TypeOK, StreamsInv, flagVars, loadFlags
<1>8. life' # "new"
  BY <1>2, <1>3 DEF InitializeInv, RunsAs
<1>9. InitializeInv'
  BY <1>1, <1>3, <1>4, <1>8, InitializeOver DEF RunsAs
<1>10. RequestInv' /\ WatchInv'
  BY <1>1, <1>4, <1>6 DEF RequestInv, RequestSound, RunsAs, WatchInv, WatchesUncached, Watches, shouldPoll
<1>11. RefreshInv'
  BY <1>1, <1>3, <1>4 DEF RefreshInv, RunsAs
<1> QED BY <1>6, <1>7, <1>9, <1>10, <1>11

LEMMA ServerAnswersKeeps ==
  ASSUME IInv, NEW t \in Tasks, ServerAnswers(t)
  PROVE  IInv'
<1> USE DEF IInv
<1> DEFINE w == task'[t]
           answer == currentAnswer(task[t].context)
<1>1. /\ task[t].phase = "sent"
      /\ task' = [task EXCEPT ![t] = [task[t] EXCEPT !.answer = answer,
                                        !.phase = IF task[t].etag = answer THEN "notModified" ELSE "ok"]]
      /\ UNCHANGED <<options, life, raced, listener, stray, context, revision, flagVars, limited, isFetching, streamVars, stored,
                     clearing, server, faults>>
  BY DEF ServerAnswers, lifeVars
<1>2. task[t] # Idle /\ task[t] \in Task /\ task[t].context \in Contexts
  BY <1>1, Running, Suspended DEF TypeOK
<1>3. answer \in Answer /\ answer.context = task[t].context
  BY <1>2 DEF TypeOK, currentAnswer, Answer
<1>4. w = [task[t] EXCEPT !.answer = answer, !.phase = IF task[t].etag = answer THEN "notModified" ELSE "ok"]
  BY <1>1 DEF TypeOK
<1> HIDE DEF answer
<1>5. /\ w \in Task /\ w # Idle /\ w.phase \in {"notModified", "ok"} /\ w.answer = answer
      /\ w.kind = task[t].kind /\ w.context = task[t].context /\ w.generation = task[t].generation
  BY <1>2, <1>3, <1>4 DEF Task, Idle
<1>6. task' = [task EXCEPT ![t] = w] /\ \A u \in Tasks : task'[u] = IF u = t THEN w ELSE task[u]
  BY <1>1 DEF TypeOK
<1> HIDE DEF w
<1>7. StreamsInv'
  BY <1>1, StreamsAlone DEF Keeps
<1>8. TypeOK'
  BY <1>1, <1>5, <1>6, <1>7 DEF TypeOK, StreamsInv, flagVars
<1>9. InitializeInv'
  BY <1>1, <1>2, <1>5, <1>6, SameTasks DEF RunsAs
<1>10. RefreshInv'
  BY <1>1, <1>2, <1>5, <1>6 DEF RefreshInv, RunsAs
<1>11. RequestInv'
  BY <1>1, <1>2, <1>3, <1>5, <1>6 DEF RequestInv, RequestSound
<1>12. WatchInv'
  BY <1>1, <1>2, <1>5, <1>6 DEF WatchInv, WatchesUncached, Watches, RunsAs, streamVars, shouldPoll
<1> QED BY <1>7, <1>8, <1>9, <1>10, <1>11, <1>12

LEMMA ApplyKeeps ==
  ASSUME IInv, NEW t \in Tasks, Apply(t)
  PROVE  IInv'
<1> USE DEF IInv
<1> DEFINE w == [task[t] EXCEPT !.phase = "store"]
<1>1. /\ task[t].phase = "ok" /\ flags' = task[t].answer /\ eventStreams' = task[t].answer.streams
      /\ task' = [task EXCEPT ![t] = w]
      /\ UNCHANGED <<options, life, raced, listener, stray, context, revision, etag, usingCache, limited, isFetching, streamVars,
                     stored, clearing, server, faults>>
  BY DEF Apply, lifeVars
<1>2. task[t] # Idle /\ task[t] \in Task
  BY <1>1, Running, Suspended DEF TypeOK
<1>3. task[t].answer \in Answer /\ task[t].answer.context = task[t].context
  BY <1>1, <1>2 DEF RequestInv, RequestSound
<1>4. /\ w \in Task /\ w # Idle /\ w.phase = "store" /\ w.answer = task[t].answer
      /\ w.kind = task[t].kind /\ w.context = task[t].context /\ w.generation = task[t].generation
  BY <1>2 DEF Task, Idle
<1>5. \A u \in Tasks : task'[u] = IF u = t THEN w ELSE task[u]
  BY <1>1 DEF TypeOK
<1> HIDE DEF w
<1>6. StreamsInv'
  BY <1>1, StreamsAlone DEF Keeps
<1>7. TypeOK'
  BY <1>1, <1>3, <1>4, <1>6 DEF TypeOK, StreamsInv, Answer
<1>8. InitializeInv'
  BY <1>1, <1>2, <1>4, <1>5, SameTasks DEF RunsAs
<1>9. RefreshInv'
  BY <1>1, <1>2, <1>4, <1>5 DEF RefreshInv, RunsAs
<1>10. RequestInv'
  BY <1>1, <1>2, <1>3, <1>4, <1>5 DEF RequestInv, RequestSound
<1>11. WatchInv'
  BY <1>1, <1>2, <1>4, <1>5 DEF WatchInv, WatchesUncached, Watches, RunsAs, streamVars, shouldPoll
<1> QED BY <1>6, <1>7, <1>8, <1>9, <1>10, <1>11

LEMMA RequestFailsKeeps ==
  ASSUME IInv, NEW t \in Tasks, NEW why \in {"denied", "limited", "transient"}, RequestFails(t, why)
  PROVE  IInv'
<1> USE DEF IInv
<1> DEFINE w == IF task[t].kind = "initialize" /\ options.cacheMode = "network-first" /\ why # "denied"
                  THEN load("initialize", task[t].context) ELSE Idle
<1>1. /\ task[t].phase \in {"sent", "ok", "notModified"}
      /\ limited' = (limited \/ why = "limited")
      /\ UNCHANGED raced
      /\ IF task[t].kind = "initialize" /\ task'[t] = Idle
           THEN life' = (IF life = "initializing" THEN "failed" ELSE life) /\ listener' \in BOOLEAN
           ELSE UNCHANGED <<life, listener>>
      /\ isFetching' = (isFetching /\ task[t].kind # "refresh")
      /\ IF task[t].kind = "sseRetry" THEN handleSseError(sse) ELSE UNCHANGED streamVars
      /\ UNCHANGED <<options, context, revision, flagVars, stray, stored, clearing, server>>
  BY DEF RequestFails, initialized, lifeVars, TypeOK
<1>2. task' = [task EXCEPT ![t] = w]
  BY DEF RequestFails, Finish
<1>3. faults' \in 0..MaxFaults
  BY BoundsNat DEF RequestFails, TypeOK
<1>4. task[t] # Idle /\ task[t].kind \in Kinds /\ task[t].context \in Contexts
  BY <1>1, Running, Suspended DEF TypeOK
<1>5. w = Idle \/ /\ w \in Task /\ w # Idle /\ w.phase = "load" /\ w.kind = "initialize" /\ w.generation = 0
                  /\ w.context = task[t].context /\ task[t].kind = "initialize"
  BY <1>4, LoadTyped DEF Kinds
<1>6. \A u \in Tasks : task'[u] = IF u = t THEN w ELSE task[u]
  BY <1>2 DEF TypeOK
<1> HIDE DEF w
<1>7. /\ Keeps
      /\ options.polls /\ (polling.handle \/ sse # "none") => polling'.handle \/ sse' # "none"
      /\ task[t].kind = "initialize" => UNCHANGED streamVars
  <2>1. CASE task[t].kind = "sseRetry"
    BY <1>1, <2>1, SseErrorHandled DEF TypeOK, StreamsInv
  <2>2. CASE task[t].kind # "sseRetry"
    BY <1>1, <2>2, StreamsAlone DEF streamVars
  <2> QED BY <2>1, <2>2
<1>8. TypeOK'
  <2>1. task' \in [Tasks -> Task \union {Idle}]
    BY <1>2, <1>5 DEF TypeOK
  <2> QED BY <1>1, <1>3, <1>7, <2>1 DEF TypeOK, Keeps, StreamsInv, flagVars
<1>9. InitializeInv'
  <2>1. CASE task[t].kind # "initialize"
    <3>1. ~RunsAs(t, "initialize")' /\ UNCHANGED <<life, listener>>
      BY <1>1, <1>5, <1>6, <2>1 DEF RunsAs
    <3> QED BY <1>1, <1>4, <1>6, <1>7, <2>1, <3>1, BesideInitialize DEF Keeps
  <2>2. CASE task[t].kind = "initialize" /\ w = Idle
    <3>1. life' # "new" /\ ~RunsAs(t, "initialize")'
      BY <1>1, <1>4, <1>6, <2>2 DEF InitializeInv, RunsAs
    <3> QED BY <1>1, <1>4, <1>6, <2>2, <3>1, InitializeOver DEF RunsAs
  <2>3. CASE task[t].kind = "initialize" /\ w # Idle
    BY <1>1, <1>4, <1>5, <1>6, <1>7, <2>3, SameTasks
  <2> QED BY <2>1, <2>2, <2>3
<1>10. RefreshInv'
  BY <1>1, <1>4, <1>5, <1>6 DEF RefreshInv, RunsAs
<1>11. RequestInv'
  BY <1>1, <1>5, <1>6 DEF RequestInv, RequestSound, TypeOK
<1>12. StreamsInv'
  BY <1>7 DEF Keeps
<1>13. WatchInv'
  <2>1. WatchesUncached'
    <3> SUFFICES ASSUME options.cacheMode # "local-cache-first", life' = "initialized", shouldPoll
                 PROVE  polling'.handle \/ sse' \in {"live", "idle"}
      BY <1>1 DEF WatchesUncached, Watches, shouldPoll
    <3>1. life = "initialized"
      BY <1>1
    <3>2. polling.handle \/ sse # "none"
      BY <3>1 DEF WatchInv, WatchesUncached, Watches
    <3>3. polling'.handle \/ (sse' # "none" /\ sse' # "down")
      BY <1>1, <1>7, <1>12, <3>2 DEF StreamsInv, shouldPoll
    <3> QED BY <1>12, <3>3 DEF StreamsInv
  <2> QED BY <1>1, <1>5, <1>6, <2>1 DEF WatchInv, RunsAs
<1> QED BY <1>8, <1>9, <1>10, <1>11, <1>12, <1>13

(* A task that starts beside initialize() does so after a context change.    *)
LEMMA BesideRaced ==
  ASSUME InitializeInv, NEW t \in Tasks, task[t] = Idle, life # "new",
         \A u \in Tasks : RunsAs(u, "initialize") => raced,
         UNCHANGED <<life, listener, raced, context>>, PollKnown => PollKnown',
         \A u \in Tasks \ {t} : task'[u] = task[u],
         task'[t] # Idle, task'[t].kind # "initialize"
  PROVE  InitializeInv'
<1>1. \A u \in Tasks : RunsAs(u, "initialize")' <=> RunsAs(u, "initialize")
  BY DEF RunsAs
<1>2. context' \in Contexts
  BY DEF InitializeInv
<1> QED BY <1>1, <1>2 DEF InitializeInv

(* The interval and the listener of the visibility call _refreshFlags.       *)
LEMMA RefreshKeeps ==
  ASSUME IInv, NEW t \in Tasks, refreshFlags(t), life # "new",
         \A u \in Tasks : RunsAs(u, "initialize") => raced
  PROVE  IInv'
<1> USE DEF IInv
<1> DEFINE w == request("refresh", context, revision, etag)
<1>1. /\ ~isFetching /\ isFetching' = TRUE /\ task[t] = Idle
      /\ task' = [task EXCEPT ![t] = w]
      /\ UNCHANGED <<options, life, raced, listener, stray, context, revision, limited, stored, clearing, server,
                     streamVars, flagVars, faults>>
  BY DEF refreshFlags, baseVars, lifeVars
<1>2. /\ w \in Task /\ w # Idle /\ w.phase = "sent" /\ w.kind = "refresh"
      /\ w.context = context /\ w.generation = revision
  BY RequestTyped DEF TypeOK, InitializeInv, Kinds
<1>3. \A u \in Tasks : task'[u] = IF u = t THEN w ELSE task[u]
  BY <1>1 DEF TypeOK
<1> HIDE DEF w
<1>4. Keeps
  BY <1>1, StreamsAlone
<1>5. TypeOK'
  BY <1>1, <1>2, <1>4 DEF TypeOK, Keeps, StreamsInv, flagVars
<1>6. InitializeInv'
  BY <1>1, <1>2, <1>3, <1>4, BesideRaced DEF Keeps
<1>7. RefreshInv'
  BY <1>1, <1>2, <1>3 DEF RefreshInv, RunsAs
<1>8. RequestInv'
  BY <1>1, <1>2, <1>3 DEF RequestInv, RequestSound, TypeOK
<1>9. WatchInv'
  BY <1>1, <1>2, <1>3 DEF WatchInv, WatchesUncached, Watches, RunsAs, streamVars, shouldPoll
<1> QED BY <1>4, <1>5, <1>6, <1>7, <1>8, <1>9 DEF Keeps

LEMMA PollTickKeeps ==
  ASSUME IInv, NEW t \in Tasks, PollTick(t)
  PROVE  IInv'
<1>1. ~Untouched
  BY DEF PollTick, Untouched, NoTimer
<1>2. life # "new" /\ \A u \in Tasks : RunsAs(u, "initialize") => raced
  BY <1>1 DEF IInv, InitializeInv
<1> QED BY <1>2, RefreshKeeps DEF PollTick

LEMMA BecomesVisibleKeeps ==
  ASSUME IInv, NEW t \in Tasks, BecomesVisible(t)
  PROVE  IInv'
<1>1. life # "new" /\ \A u \in Tasks : ~RunsAs(u, "initialize")
  BY DEF BecomesVisible, IInv, InitializeInv
<1> QED BY <1>1, RefreshKeeps DEF BecomesVisible

LEMMA SseRefetchKeeps ==
  ASSUME IInv, NEW t \in Tasks, SseRefetch(t)
  PROVE  IInv'
<1> USE DEF IInv
<1>1. PICK tag \in {etag, None} : task' = [task EXCEPT ![t] = request("sseRefetch", context, revision, tag)]
  BY DEF SseRefetch
<1> DEFINE w == request("sseRefetch", context, revision, tag)
<1>2. /\ sse = "live" \/ stray
      /\ task[t] = Idle /\ task' = [task EXCEPT ![t] = w]
      /\ UNCHANGED <<options, life, raced, listener, stray, context, revision, limited, stored, clearing, server,
                     streamVars, flagVars, isFetching, faults>>
  BY <1>1 DEF SseRefetch, baseVars, lifeVars
<1>3. life # "new" /\ \A u \in Tasks : RunsAs(u, "initialize") => raced
  BY <1>2 DEF Untouched, InitializeInv
<1>4. /\ w \in Task /\ w # Idle /\ w.phase = "sent" /\ w.kind = "sseRefetch"
      /\ w.context = context /\ w.generation = revision
  BY <1>3, RequestTyped DEF TypeOK, InitializeInv, Kinds
<1>5. \A u \in Tasks : task'[u] = IF u = t THEN w ELSE task[u]
  BY <1>2 DEF TypeOK
<1> HIDE DEF w
<1>6. Keeps
  BY <1>2, StreamsAlone
<1>7. TypeOK'
  BY <1>2, <1>4, <1>6 DEF TypeOK, Keeps, StreamsInv, flagVars
<1>8. InitializeInv'
  BY <1>2, <1>3, <1>4, <1>5, <1>6, BesideRaced DEF Keeps
<1>9. RefreshInv'
  BY <1>2, <1>4, <1>5 DEF RefreshInv, RunsAs
<1>10. RequestInv'
  BY <1>2, <1>4, <1>5 DEF RequestInv, RequestSound, TypeOK
<1>11. WatchInv'
  BY <1>2, <1>4, <1>5 DEF WatchInv, WatchesUncached, Watches, RunsAs, streamVars, shouldPoll
<1> QED BY <1>6, <1>7, <1>8, <1>9, <1>10, <1>11 DEF Keeps

LEMMA SseRetryTimerKeeps ==
  ASSUME IInv, NEW t \in Tasks, SseRetryTimer(t)
  PROVE  IInv'
<1> USE DEF IInv
<1> DEFINE w == request("sseRetry", context, revision, etag)
<1>1. /\ sseRetry.running > 0 /\ task[t] = Idle /\ task' = [task EXCEPT ![t] = w]
      /\ sseRetry' = [handle |-> FALSE, running |-> sseRetry.running - 1]
      /\ UNCHANGED <<options, life, raced, listener, stray, context, revision, limited, stored, clearing, server,
                     polling, sse, flagVars, isFetching, faults>>
  BY DEF SseRetryTimer, baseVars, lifeVars
<1>2. life # "new" /\ ~options.polls /\ \A u \in Tasks : RunsAs(u, "initialize") => raced
  <2>1. ~Untouched
    BY <1>1 DEF Untouched, NoTimer
  <2> QED BY <1>1, <2>1 DEF StreamsInv, InitializeInv
<1>3. /\ w \in Task /\ w # Idle /\ w.phase = "sent" /\ w.kind = "sseRetry"
      /\ w.context = context /\ w.generation = revision
  BY <1>2, RequestTyped DEF TypeOK, InitializeInv, Kinds
<1>4. \A u \in Tasks : task'[u] = IF u = t THEN w ELSE task[u]
  BY <1>1 DEF TypeOK
<1> HIDE DEF w
<1>5. StreamsInv' /\ (PollKnown => PollKnown')
  <2>1. sseRetry.running - 1 \in Nat
    BY <1>1 DEF StreamsInv
  <2> QED BY <1>1, <1>2, <2>1 DEF StreamsInv, NotBoth, OnePoll, PollKnown, Known
<1>6. TypeOK'
  BY <1>1, <1>3, <1>5 DEF TypeOK, StreamsInv, flagVars
<1>7. InitializeInv'
  BY <1>1, <1>2, <1>3, <1>4, <1>5, BesideRaced
<1>8. RefreshInv'
  BY <1>1, <1>3, <1>4 DEF RefreshInv, RunsAs
<1>9. RequestInv'
  BY <1>1, <1>3, <1>4 DEF RequestInv, RequestSound, TypeOK
<1>10. WatchInv'
  BY <1>1, <1>2, <1>3, <1>4 DEF WatchInv, WatchesUncached, Watches, RunsAs, shouldPoll
<1> QED BY <1>5, <1>6, <1>7, <1>8, <1>9, <1>10

LEMMA SseErrorKeeps ==
  ASSUME IInv, SseError
  PROVE  IInv'
<1> USE DEF IInv
<1>1. /\ UNCHANGED <<options, life, raced, listener, context, revision, limited, stored, clearing, server,
                     flagVars, isFetching, task>>
      /\ stray' \in BOOLEAN /\ (sse = "live" \/ stray)
      /\ \/ sse = "live" /\ handleSseError("down")
         \/ handleSseError(sse)
  BY DEF SseError, baseVars, lifeVars, TypeOK
<1>2. faults' \in 0..MaxFaults
  BY BoundsNat DEF SseError, TypeOK
<1>3. /\ Keeps
      /\ options.polls /\ (polling.handle \/ sse # "none") => polling'.handle \/ sse' # "none"
  BY <1>1, SseErrorHandled DEF TypeOK
<1>4. TypeOK'
  BY <1>1, <1>2, <1>3 DEF TypeOK, Keeps, StreamsInv, flagVars
<1>5. InitializeInv'
  <2>1. ~Untouched /\ life # "new"
    BY <1>1 DEF InitializeInv, Untouched
  <2>2. \A u \in Tasks : RunsAs(u, "initialize")' <=> RunsAs(u, "initialize")
    BY <1>1 DEF RunsAs
  <2> QED BY <1>1, <1>3, <2>1, <2>2 DEF InitializeInv, Keeps
<1>6. RefreshInv' /\ RequestInv'
  BY <1>1 DEF RefreshInv, RequestInv, RequestSound, RunsAs
<1>7. WatchInv'
  <2>1. WatchesUncached'
    <3> SUFFICES ASSUME options.cacheMode # "local-cache-first", life = "initialized", shouldPoll
                 PROVE  polling'.handle \/ sse' \in {"live", "idle"}
      BY <1>1 DEF WatchesUncached, Watches, shouldPoll
    <3>1. polling.handle \/ sse # "none"
      BY DEF WatchInv, WatchesUncached, Watches
    <3> QED BY <1>1, <1>3, <3>1 DEF Keeps, StreamsInv, shouldPoll
  <2> QED BY <1>1, <2>1 DEF WatchInv, RunsAs
<1> QED BY <1>3, <1>4, <1>5, <1>6, <1>7 DEF Keeps

LEMMA OnCloseKeeps ==
  ASSUME IInv, onClose
  PROVE  IInv'
<1> USE DEF IInv
<1>1. /\ life # "new" /\ life' = "closed"
      /\ polling' = cleared(polling) /\ sseRetry' = cleared(sseRetry) /\ sse' = "none"
      /\ listener' = FALSE
      /\ UNCHANGED <<options, raced, stray, context, revision, limited, stored, clearing, server, flagVars,
                     isFetching, task, faults>>
  BY DEF onClose, baseVars
<1>2. /\ cleared(polling) \in [handle: BOOLEAN, running: Nat] /\ ~cleared(polling).handle
      /\ cleared(polling).running = IF polling.handle THEN polling.running - 1 ELSE polling.running
  <2>1. polling \in [handle: BOOLEAN, running: Nat] /\ (polling.handle => polling.running >= 1)
    BY DEF StreamsInv, OnePoll, Known
  <2> QED BY <2>1, TimersStop
<1>3. /\ cleared(sseRetry) \in [handle: BOOLEAN, running: Nat] /\ ~cleared(sseRetry).handle
      /\ cleared(sseRetry).running = IF sseRetry.handle THEN sseRetry.running - 1 ELSE sseRetry.running
  BY TimersStop DEF StreamsInv
<1>4. StreamsInv' /\ (PollKnown => PollKnown')
  BY <1>1, <1>2, <1>3 DEF StreamsInv, NotBoth, OnePoll, PollKnown, Known
<1>5. TypeOK'
  BY <1>1, <1>4 DEF TypeOK, StreamsInv, flagVars
<1>6. InitializeInv'
  <2>1. Untouched => Untouched'
    BY <1>1 DEF Untouched, NoTimer, cleared
  <2>2. \A u \in Tasks : RunsAs(u, "initialize")' <=> RunsAs(u, "initialize")
    BY <1>1 DEF RunsAs
  <2> QED BY <1>1, <1>4, <2>1, <2>2 DEF InitializeInv
<1>7. RefreshInv' /\ RequestInv' /\ WatchInv'
  BY <1>1 DEF RefreshInv, RequestInv, RequestSound, RunsAs, WatchInv, WatchesUncached, Watches
<1> QED BY <1>4, <1>5, <1>6, <1>7

LEMMA EnvironmentKeeps ==
  ASSUME IInv, RetryAfterOver \/ ServerChanges \/ UNCHANGED vars
  PROVE  IInv'
<1> USE DEF IInv
<1>1. /\ UNCHANGED <<options, life, raced, listener, stray, context, revision, flagVars, isFetching, streamVars,
                     stored, clearing, task, faults>>
      /\ limited' \in BOOLEAN
  BY DEF RetryAfterOver, ServerChanges, vars, baseVars, lifeVars, TypeOK
<1>2. server' \in [version: 0..MaxVersion, streams: Streams]
  <2>1. CASE RetryAfterOver \/ UNCHANGED vars
    BY <2>1 DEF RetryAfterOver, vars, baseVars, TypeOK
  <2>2. CASE ServerChanges
    <3>1. server.version + 1 \in 0..MaxVersion
      BY <2>2, BoundsNat DEF ServerChanges, TypeOK
    <3> QED BY <2>2, <3>1 DEF ServerChanges
  <2> QED BY <2>1, <2>2
<1>3. StreamsInv'
  BY <1>1, StreamsAlone DEF Keeps
<1>4. TypeOK'
  BY <1>1, <1>2, <1>3 DEF TypeOK, StreamsInv, flagVars
<1>5. InitializeInv' /\ RefreshInv' /\ RequestInv' /\ WatchInv'
  BY <1>1 DEF InitializeInv, RunsAs, Untouched, PollKnown, Known, streamVars, RefreshInv, RequestInv,
              RequestSound, WatchInv, WatchesUncached, Watches, shouldPoll
<1> QED BY <1>3, <1>4, <1>5

-----------------------------------------------------------------------------
(* The theorems about the web provider                                       *)

LEMMA InitIInv == Init => IInv
<1> SUFFICES ASSUME Init PROVE IInv
  OBVIOUS
<1>1. stored \in [Keys -> Answer \union {None}]
  <2>1. PICK left \in SUBSET Contexts, streams \in Streams :
          stored = [k \in Keys |->
            IF \E c \in left : targetingKey(c) = k
              THEN [context |-> CHOOSE c \in left : targetingKey(c) = k,
                    version |-> 0, streams |-> streams]
              ELSE None]
    BY DEF Init
  <2>2. ASSUME NEW k \in Keys, \E c \in left : targetingKey(c) = k
        PROVE  (CHOOSE c \in left : targetingKey(c) = k) \in Contexts
    BY <2>2
  <2> QED BY <2>1, <2>2, BoundsNat DEF Answer
<1>2. TypeOK
  <2>1. server \in [version: 0..MaxVersion, streams: Streams] /\ faults \in 0..MaxFaults
    BY BoundsNat DEF Init
  <2>2. polling \in [handle: BOOLEAN, running: Nat] /\ sseRetry \in [handle: BOOLEAN, running: Nat]
    BY DEF Init, NoTimer
  <2>3. task \in [Tasks -> Task \union {Idle}] /\ clearing \subseteq Keys
    BY DEF Init
  <2> QED BY <1>1, <2>1, <2>2, <2>3 DEF Init, TypeOK, Streams
<1> QED BY <1>2 DEF Init, IInv, StreamsInv, NotBoth, OnePoll, Known, NoTimer, InitializeInv, Untouched, RunsAs,
                RefreshInv, RequestInv, WatchInv, WatchesUncached, Watches

LEMMA StepKeeps == IInv /\ [Next]_vars => IInv'
<1> SUFFICES ASSUME IInv, [Next]_vars PROVE IInv'
  OBVIOUS
<1>1. CASE \E t \in Tasks, c \in Contexts : initialize(t, c) \/ onContextChange(t, c)
  BY <1>1, InitializeKeeps, OnContextChangeKeeps
<1>2. CASE \E k \in Keys : clear(k)
  BY <1>2, ClearKeeps
<1>3. CASE \E t \in Tasks : CacheHit(t) \/ CacheMiss(t) \/ Fallback(t)
  BY <1>3, CacheHitKeeps, CacheMissKeeps, FallbackKeeps
<1>4. CASE \E t \in Tasks : ServerAnswers(t) \/ NotModified(t) \/ Superseded(t) \/ Apply(t) \/ Stored(t)
  BY <1>4, ServerAnswersKeeps, NotModifiedKeeps, SupersededKeeps, ApplyKeeps, StoredKeeps
<1>5. CASE \E t \in Tasks, why \in {"denied", "limited", "transient"} : RequestFails(t, why)
  BY <1>5, RequestFailsKeeps
<1>6. CASE \E t \in Tasks : PollTick(t) \/ BecomesVisible(t) \/ SseRefetch(t) \/ SseRetryTimer(t)
  BY <1>6, PollTickKeeps, BecomesVisibleKeeps, SseRefetchKeeps, SseRetryTimerKeeps
<1>7. CASE SseError
  BY <1>7, SseErrorKeeps
<1>8. CASE onClose
  BY <1>8, OnCloseKeeps
<1>9. CASE RetryAfterOver \/ ServerChanges \/ UNCHANGED vars
  BY <1>9, EnvironmentKeeps
<1> QED BY <1>1, <1>2, <1>3, <1>4, <1>5, <1>6, <1>7, <1>8, <1>9 DEF Next

(* A refresh at most: as a number.                                           *)
LEMMA GuardCounted == IInv => GuardMatchesRefresh
<1> SUFFICES ASSUME IInv PROVE GuardMatchesRefresh
  OBVIOUS
<1> DEFINE refreshes == {t \in Tasks : task[t] # Idle /\ task[t].kind = "refresh"}
<1>1. CASE isFetching
  <2>1. PICK t \in Tasks : RunsAs(t, "refresh")
    BY <1>1 DEF IInv, RefreshInv
  <2>2. refreshes = {t}
    BY <2>1 DEF IInv, RefreshInv, RunsAs
  <2> QED BY <1>1, <2>2, FS_Singleton DEF GuardMatchesRefresh
<1>2. CASE ~isFetching
  <2>1. refreshes = {}
    BY <1>2 DEF IInv, RefreshInv, RunsAs
  <2> QED BY <1>2, <2>1, FS_EmptySet DEF GuardMatchesRefresh
<1> QED BY <1>1, <1>2

(* Polling does not die, and doubles only where a context change overtakes   *)
(* initialize(), whatever fetches, errors of SSE, changes of context and     *)
(* closes overlap (ofrep-web-provider.ts:121-124, 438-588).                  *)
THEOREM PollingIsTracked == Spec => []PollingTracked
<1>1. IInv => PollingTracked
  BY GuardCounted DEF IInv, StreamsInv, PollingTracked
<1> QED BY <1>1, InitIInv, StepKeeps, PTL DEF Spec

(* A provider without the await of the persisted cache that should watch for *)
(* changes has polling or the manager of some streams (:475-506, :539-588).  *)
THEOREM UncachedWatches == Spec => []WatchesUncached
<1>1. IInv => WatchesUncached
  BY DEF IInv, WatchInv
<1> QED BY <1>1, InitIInv, StepKeeps, PTL DEF Spec

(* Without that await the flags only ever change to those of the context in  *)
(* force, or to persisted ones marked as such: an answer whose generation is *)
(* the revision was asked for the current context (:333-358).                *)
THEOREM UncachedFlagsFollow == Spec => FlagsFollowContextUncached
<1>1. IInv /\ [Next]_vars =>
        [options.cacheMode # "local-cache-first" /\ flags' # flags
           => usingCache' \/ flags'.context = context']_vars
  <2> SUFFICES ASSUME IInv, [Next]_vars, options.cacheMode # "local-cache-first", flags' # flags
               PROVE  usingCache' \/ flags'.context = context'
    OBVIOUS
  <2>1. ASSUME NEW t \in Tasks, Apply(t)
        PROVE  flags'.context = context'
    <3>1. /\ task[t].phase = "ok" /\ task[t].generation = revision /\ task[t] # Idle
          /\ flags' = task[t].answer /\ context' = context
      BY <2>1 DEF Apply, isCurrent, Idle
    <3> QED BY <3>1 DEF IInv, RequestInv, RequestSound
  <2>2. ASSUME NEW t \in Tasks, CacheHit(t) \/ Fallback(t)
        PROVE  usingCache'
    BY <2>2 DEF CacheHit, Fallback, loadFlags, flagVars
  <2> QED BY <2>1, <2>2 DEF Next, vars, baseVars, lifeVars, flagVars, initialize, onContextChange, clear, CacheMiss,
            ServerAnswers, NotModified, Superseded, Stored, RequestFails, PollTick, BecomesVisible,
            refreshFlags, SseRefetch, SseRetryTimer, RetryAfterOver, SseError, onClose, ServerChanges
<1> QED BY <1>1, InitIInv, StepKeeps, PTL DEF Spec, FlagsFollowContextUncached

(* Closed while nothing is under way the provider is quiet, and a quiet one  *)
(* stays so: no timer, listener, EventSource or async function is left that  *)
(* could start anything (:231-241, :438-473).                                *)
THEOREM StaysQuiet == Spec => QuietAfterClose
<1>1. ASSUME IInv, Next, ClosesQuietly
      PROVE  Quiet'
  <2>1. \A t \in Tasks : task[t].phase = "idle"
    BY <1>1 DEF ClosesQuietly, Idle
  <2>2. CASE onClose
    <3>1. /\ life' = "closed" /\ ~listener' /\ sse' = "none" /\ UNCHANGED <<stray, task>>
          /\ polling' = cleared(polling) /\ sseRetry' = cleared(sseRetry)
      BY <2>2 DEF onClose
    <3>2. polling'.running = 0
      <4>1. polling \in [handle: BOOLEAN, running: Nat] /\ polling.running = Known
        BY <1>1 DEF IInv, StreamsInv, OnePoll, ClosesQuietly
      <4> QED BY <3>1, <4>1, TimersStop DEF Known
    <3>3. sseRetry'.running = 0
      BY <1>1, <3>1, TimersStop DEF IInv, StreamsInv, ClosesQuietly
    <3> QED BY <1>1, <3>1, <3>2, <3>3 DEF Quiet, ClosesQuietly
  <2>3. CASE ~onClose
    <3>1. UNCHANGED life
      <4>1. \A t \in Tasks, c \in Contexts : ~initialize(t, c)
        BY <1>1 DEF initialize, ClosesQuietly
      <4>2. \A t \in Tasks : ~CacheHit(t) /\ ~CacheMiss(t) /\ ~Fallback(t) /\ ~ServerAnswers(t) /\ ~NotModified(t)
                               /\ ~Superseded(t) /\ ~Apply(t) /\ ~Stored(t)
        BY <2>1 DEF CacheHit, CacheMiss, Fallback, ServerAnswers, NotModified, Superseded, Apply, Stored
      <4>3. \A t \in Tasks, why \in {"denied", "limited", "transient"} : ~RequestFails(t, why)
        BY <2>1 DEF RequestFails
      <4> QED BY <1>1, <2>3, <4>1, <4>2, <4>3 DEF Next, onContextChange, clear, PollTick, BecomesVisible,
                refreshFlags, SseRefetch, SseRetryTimer, RetryAfterOver, SseError, ServerChanges, lifeVars
    <3> QED BY <1>1, <3>1 DEF ClosesQuietly
  <2> QED BY <2>2, <2>3
<1>2. ASSUME IInv, [Next]_vars, Quiet
      PROVE  Quiet'
  <2>1. \A t \in Tasks : task[t].phase = "idle"
    BY <1>2 DEF Quiet, Idle
  <2>2. \A t \in Tasks : ~CacheHit(t) /\ ~CacheMiss(t) /\ ~Fallback(t) /\ ~ServerAnswers(t) /\ ~NotModified(t)
                           /\ ~Superseded(t) /\ ~Apply(t) /\ ~Stored(t)
    BY <2>1 DEF CacheHit, CacheMiss, Fallback, ServerAnswers, NotModified, Superseded, Apply, Stored
  <2>3. \A t \in Tasks, why \in {"denied", "limited", "transient"} : ~RequestFails(t, why)
    BY <2>1 DEF RequestFails
  <2>4. /\ \A t \in Tasks : ~PollTick(t) /\ ~BecomesVisible(t) /\ ~SseRefetch(t) /\ ~SseRetryTimer(t)
        /\ \A t \in Tasks, c \in Contexts : ~initialize(t, c) /\ ~onContextChange(t, c)
        /\ ~SseError /\ ~onClose
    BY <1>2 DEF Quiet, PollTick, BecomesVisible, SseRefetch, SseRetryTimer, initialize, onContextChange,
                SseError, onClose
  <2>5. (\E k \in Keys : clear(k)) \/ RetryAfterOver \/ ServerChanges \/ UNCHANGED vars
    BY <1>2, <2>2, <2>3, <2>4 DEF Next
  <2>6. UNCHANGED <<lifeVars, streamVars, stray, task>>
    BY <2>5 DEF clear, RetryAfterOver, ServerChanges, vars
  <2> QED BY <1>2, <2>6 DEF Quiet, lifeVars, streamVars
<1>3. IInv /\ [Next]_vars => [ClosesQuietly \/ Quiet => Quiet']_vars
  BY <1>1, <1>2
<1> QED BY <1>3, InitIInv, StepKeeps, PTL DEF Spec, QuietAfterClose
=============================================================================
