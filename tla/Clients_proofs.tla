--------------------------- MODULE Clients_proofs ---------------------------
(* Proofs about clients: the evaluation of flagd and the settings of its     *)
(* provider, its provider for browsers, the debounce hook and its cache, and *)
(* the AWS SSM provider and its cache.                                       *)
EXTENDS MCFlagd, DebounceHook, AwsSsmProvider, FiniteSetTheorems, FunctionTheorems,
        SequenceTheorems, WellFoundedInduction, TLAPS

-----------------------------------------------------------------------------
(* Induction and arithmetic                                                  *)

(* Every nonempty set of natural numbers has a least element.                *)
LEMMA LeastNumber ==
  ASSUME NEW T, T \subseteq Nat, T # {}
  PROVE  \E x \in T : \A y \in T : x <= y
<1>1. IsWellFoundedOn(OpToRel(<, Nat), Nat)
  BY NatLessThanWellFounded
<1>2. PICK x \in T : \A y \in T : <<y, x>> \notin OpToRel(<, Nat)
  BY <1>1, WFMin
<1>3. \A y \in T : ~(y < x)
  BY <1>2 DEF OpToRel
<1> QED BY <1>3

(* Induction over the numbers of a set, which needs no operator to stand for *)
(* what is proved.                                                           *)
LEMMA SetInduction ==
  ASSUME NEW S, 0 \in S, \A n \in Nat : n \in S => n + 1 \in S
  PROVE  Nat \subseteq S
<1> SUFFICES ASSUME Nat \ S # {} PROVE FALSE
  OBVIOUS
<1>1. PICK x \in Nat \ S : \A y \in Nat \ S : x <= y
  BY LeastNumber
<1>2. x - 1 \in Nat /\ x - 1 \in S
  BY <1>1
<1> QED BY <1>1, <1>2

(* What is computed step by step, from the value before and the number of    *)
(* the step, defines a function.                                             *)
Iterates(f, n, base, step) == f[0] = base /\ \A i \in 1 .. n : f[i] = step[i][f[i - 1]]

LEMMA Recursion ==
  ASSUME NEW n \in Nat, NEW S, NEW base \in S, NEW step \in [1 .. n -> [S -> S]]
  PROVE  \E f \in [0 .. n -> S] : Iterates(f, n, base, step)
<1> USE DEF Iterates
<1> DEFINE Up(k) == \E f \in [0 .. k -> S] : Iterates(f, k, base, step)
           Good == {k \in Nat : k <= n => Up(k)}
<1>1. Up(0)
  <2> DEFINE g == [i \in 0 .. 0 |-> base]
  <2>1. g \in [0 .. 0 -> S] /\ g[0] = base /\ 1 .. 0 = {}
    OBVIOUS
  <2> QED BY <2>1
<1>2. ASSUME NEW k \in Nat, k \in Good, k + 1 <= n PROVE Up(k + 1)
  <2>1. k <= n
    BY <1>2
  <2>2. PICK f \in [0 .. k -> S] : f[0] = base /\ \A i \in 1 .. k : f[i] = step[i][f[i - 1]]
    BY <1>2, <2>1
  <2> DEFINE g == [i \in 0 .. (k + 1) |-> IF i <= k THEN f[i] ELSE step[k + 1][f[k]]]
  <2>3. step[k + 1][f[k]] \in S
    BY <1>2
  <2>4. g \in [0 .. (k + 1) -> S]
    BY <2>3
  <2>5. g[0] = base /\ \A i \in 1 .. (k + 1) : g[i] = step[i][g[i - 1]]
    <3>1. ASSUME NEW i \in 1 .. (k + 1) PROVE g[i] = step[i][g[i - 1]]
      <4>1. CASE i = k + 1
        BY <4>1
      <4>2. CASE i # k + 1
        BY <2>2, <4>2
      <4> QED BY <4>1, <4>2
    <3>2. g[0] = base
      BY <2>2
    <3> HIDE DEF g
    <3> QED BY <3>1, <3>2
  <2> QED BY <2>4, <2>5
<1> HIDE DEF Up
<1>3. 0 \in Good
  BY <1>1
<1>4. \A k \in Nat : k \in Good => k + 1 \in Good
  BY <1>2
<1> HIDE DEF Good
<1>5. n \in Good
  BY <1>3, <1>4, SetInduction
<1>6. Up(n)
  BY <1>5 DEF Good
<1> QED BY <1>6 DEF Up

LEMMA Times ==
  ASSUME NEW a \in Int, NEW b \in Int, NEW n \in Nat \ {0}
  PROVE  /\ a * n \in Int /\ (a < b <=> a * n < b * n) /\ (a <= b <=> a * n <= b * n)
         /\ (a + 1) * n = a * n + n /\ (a - b) * n = a * n - b * n
BY SMT

LEMMA Division ==
  ASSUME NEW x \in Nat, NEW n \in Nat \ {0}
  PROVE  x \div n \in Nat /\ (x \div n) * n <= x /\ x < (x \div n + 1) * n
BY SMT

(* A quotient is below a number if what is divided is below its multiple.    *)
LEMMA Quotient ==
  ASSUME NEW x \in Nat, NEW n \in Nat \ {0}, NEW s \in Nat
  PROVE  x \div n < s <=> x < s * n
<1> DEFINE q == x \div n
<1>1. q \in Nat /\ q * n <= x /\ x < (q + 1) * n
  BY Division
<1> HIDE DEF q
<1>2. s * n \in Int /\ q * n \in Int /\ (q + 1) * n \in Int
  BY <1>1, Times
<1>3. ASSUME q < s PROVE x < s * n
  <2>1. q + 1 <= s
    BY <1>1, <1>3
  <2>2. (q + 1) * n <= s * n
    BY <1>1, <2>1, Times
  <2> QED BY <1>1, <1>2, <2>2
<1>4. ASSUME s <= q PROVE s * n <= x
  <2>1. s * n <= q * n
    BY <1>1, <1>4, Times
  <2> QED BY <1>1, <1>2, <2>1
<1> QED BY <1>1, <1>2, <1>3, <1>4 DEF q

(* As many multiples of n as fit between a and b, to within one.             *)
LEMMA Multiples ==
  ASSUME NEW a \in Nat, NEW b \in Nat, a <= b, NEW n \in Nat \ {0}
  PROVE  LET fit == {h \in Nat : a <= h * n /\ h * n < b}
         IN /\ IsFiniteSet(fit)
            /\ a = b => Cardinality(fit) = 0
            /\ Cardinality(fit) \in Nat
            /\ Cardinality(fit) * n <= b - a + n /\ Cardinality(fit) * n >= b - a - n
<1> DEFINE fit == {h \in Nat : a <= h * n /\ h * n < b}
           low == (a + n - 1) \div n
           high == (b + n - 1) \div n
<1>1. /\ low \in Nat /\ low * n <= a + n - 1 /\ a + n - 1 < (low + 1) * n
      /\ high \in Nat /\ high * n <= b + n - 1 /\ b + n - 1 < (high + 1) * n
  BY Division
<1>2. low <= high
  <2>1. high < low <=> b + n - 1 < low * n
    BY <1>1, Quotient
  <2>2. low * n \in Int
    BY <1>1, Times
  <2> QED BY <1>1, <2>1, <2>2
<1>3. \A h \in Nat : /\ low <= h <=> a <= h * n
                     /\ h < high <=> h * n < b
  <2> TAKE h \in Nat
  <2>1. /\ low < h + 1 <=> a + n - 1 < (h + 1) * n
        /\ high < h + 1 <=> b + n - 1 < (h + 1) * n
    BY Quotient
  <2>2. (h + 1) * n = h * n + n /\ h * n \in Int
    BY Times
  <2> HIDE DEF low, high
  <2> QED BY <1>1, <2>1, <2>2
<1>4. fit = low .. (high - 1)
  <2> HIDE DEF low, high
  <2>1. \A h \in Nat : h \in fit <=> low <= h /\ h < high
    BY <1>3
  <2> QED BY <1>1, <2>1
<1>5. /\ (low + 1) * n = low * n + n /\ (high + 1) * n = high * n + n
      /\ (high - low) * n = high * n - low * n /\ low * n \in Int /\ high * n \in Int
  BY <1>1, Times
<1> HIDE DEF low, high, fit
<1>6. IsFiniteSet(fit) /\ Cardinality(fit) = high - low
  <2>1. IsFiniteSet(low .. (high - 1))
        /\ Cardinality(low .. (high - 1)) = IF low > high - 1 THEN 0 ELSE high - 1 - low + 1
    BY <1>1, FS_Interval
  <2> QED BY <1>1, <1>2, <1>4, <2>1
<1>7. a = b => low = high
  BY DEF low, high
<1> QED BY <1>1, <1>2, <1>5, <1>6, <1>7 DEF fit

-----------------------------------------------------------------------------
(* The sums of weights                                                       *)

LEMMA WeightsNatural ==
  ASSUME NEW listed \in EntryType
  PROVE  weightOf(listed) \in Nat
<1>1. CASE listed.weight = NoWeight
  BY <1>1 DEF weightOf
<1>2. CASE listed.weight # NoWeight
  <2>1. listed.weight[1] \in Int
    BY <1>2 DEF EntryType
  <2> QED BY <1>2, <2>1 DEF weightOf
<1> QED BY <1>1, <1>2

LEMMA SumsDefined ==
  ASSUME NEW entries \in Seq(EntryType)
  PROVE  /\ sums(entries) \in [0 .. Len(entries) -> Nat]
         /\ sums(entries)[0] = 0
         /\ \A i \in 1 .. Len(entries) : sums(entries)[i] = sums(entries)[i - 1] + weightOf(entries[i])
<1> DEFINE n == Len(entries)
           w == [i \in 1 .. n |-> weightOf(entries[i])]
<1>1. n \in Nat /\ \A i \in 1 .. n : entries[i] \in EntryType
  OBVIOUS
<1>2. w \in [1 .. n -> Nat]
  BY <1>1, WeightsNatural
<1> DEFINE step == [i \in 1 .. n |-> [x \in Nat |-> x + w[i]]]
<1>3. PICK f \in [0 .. n -> Nat] : f[0] = 0 /\ \A i \in 1 .. n : f[i] = step[i][f[i - 1]]
  <2>1. n \in Nat /\ 0 \in Nat /\ step \in [1 .. n -> [Nat -> Nat]]
    BY <1>1, <1>2
  <2> HIDE DEF n, w, step
  <2>2. \E f \in [0 .. n -> Nat] : Iterates(f, n, 0, step)
    BY <2>1, Recursion
  <2> QED BY <2>2 DEF Iterates
<1>4. f = [i \in 0 .. n |-> IF i = 0 THEN 0 ELSE f[i - 1] + weightOf(entries[i])]
  <2>1. \A i \in 1 .. n : f[i - 1] \in Nat /\ w[i] = weightOf(entries[i])
    BY <1>1
  <2>2. \A i \in 1 .. n : f[i] = f[i - 1] + weightOf(entries[i])
    BY <1>3, <2>1
  <2> QED BY <1>1, <1>3, <2>2
<1> DEFINE s == sums(entries)
<1>5. s = [i \in 0 .. n |-> IF i = 0 THEN 0 ELSE s[i - 1] + weightOf(entries[i])]
  BY <1>4 DEF sums
<1> HIDE DEF s
<1>6. s[0] = 0 /\ \A i \in 1 .. n : s[i] = s[i - 1] + weightOf(entries[i])
  BY <1>1, <1>5
<1>7. ASSUME NEW i \in 0 .. n PROVE s[i] \in Nat
  <2> DEFINE Good == {k \in Nat : k <= n => s[k] \in Nat}
  <2>1. 0 \in Good
    BY <1>6
  <2>2. ASSUME NEW k \in Nat, k \in Good, k + 1 <= n PROVE s[k + 1] \in Nat
    <3>1. s[k] \in Nat /\ k + 1 \in 1 .. n
      BY <1>1, <2>2
    <3>2. s[k + 1] = s[k] + weightOf(entries[k + 1])
      BY <1>6, <3>1
    <3> QED BY <1>1, <3>1, <3>2, WeightsNatural
  <2>3. \A k \in Nat : k \in Good => k + 1 \in Good
    BY <2>2
  <2> HIDE DEF Good
  <2>4. i \in Good
    BY <1>1, <2>1, <2>3, SetInduction
  <2> QED BY <1>1, <2>4 DEF Good
<1> QED BY <1>5, <1>6, <1>7 DEF s

LEMMA SumsGrow ==
  ASSUME NEW entries \in Seq(EntryType), NEW i \in 0 .. Len(entries), NEW j \in i .. Len(entries)
  PROVE  sums(entries)[i] <= sums(entries)[j]
<1> DEFINE n == Len(entries)
           s == sums(entries)
           Good == {k \in Nat : i + k <= n => s[i] <= s[i + k]}
<1>1. /\ n \in Nat /\ s \in [0 .. n -> Nat]
      /\ \A k \in 1 .. n : entries[k] \in EntryType /\ s[k] = s[k - 1] + weightOf(entries[k])
  BY SumsDefined
<1> HIDE DEF s, n
<1>2. 0 \in Good
  BY <1>1 DEF n
<1>3. ASSUME NEW k \in Nat, k \in Good, i + k + 1 <= n PROVE s[i] <= s[i + k + 1]
  <2>1. /\ i + k + 1 \in 1 .. n /\ i + k \in 0 .. n /\ i \in 0 .. n
        /\ (i + k + 1) - 1 = i + k
    BY <1>1, <1>3 DEF n
  <2>2. s[i] <= s[i + k]
    BY <1>3, <2>1
  <2>3. s[i + k + 1] = s[i + k] + weightOf(entries[i + k + 1]) /\ weightOf(entries[i + k + 1]) \in Nat
    BY <1>1, <2>1, WeightsNatural
  <2> QED BY <1>1, <2>1, <2>2, <2>3
<1>4. \A k \in Nat : k \in Good => k + 1 \in Good
  BY <1>3
<1> HIDE DEF Good
<1>5. j - i \in Nat /\ i + (j - i) = j /\ j <= n
  BY <1>1 DEF n
<1>6. j - i \in Good
  BY <1>2, <1>4, <1>5, SetInduction
<1> QED BY <1>5, <1>6 DEF Good, s, n

-----------------------------------------------------------------------------
(* Buckets                                                                   *)

(* The hashes whose bucket is the one of an entry.                           *)
Bucket(entries, i, h) ==
  /\ sums(entries)[i - 1] * HashRange <= h * totalWeight(entries)
  /\ h * totalWeight(entries) < sums(entries)[i] * HashRange

LEMMA BucketsAreChosen ==
  ASSUME NEW entries \in Seq(EntryType), NEW h \in Nat
  PROVE  /\ chosen(entries, h) = {i \in 1 .. Len(entries) : h * totalWeight(entries) < sums(entries)[i] * HashRange}
         /\ totalWeight(entries) \in Nat
<1> DEFINE total == totalWeight(entries)
<1>1. total \in Nat /\ \A i \in 1 .. Len(entries) : sums(entries)[i] \in Nat
  BY SumsDefined DEF totalWeight
<1>2. h * total \in Nat
  BY <1>1
<1> HIDE DEF total
<1>3. \A i \in 1 .. Len(entries) :
        sums(entries)[i] > (h * total) \div HashRange <=> h * total < sums(entries)[i] * HashRange
  <2> TAKE i \in 1 .. Len(entries)
  <2>1. sums(entries)[i] \in Nat /\ (h * total) \div HashRange \in Nat
    BY <1>1, <1>2, RangesNat, Division
  <2>2. (h * total) \div HashRange < sums(entries)[i] <=> h * total < sums(entries)[i] * HashRange
    BY <1>2, <2>1, RangesNat, Quotient
  <2> QED BY <2>1, <2>2
<1> QED BY <1>1, <1>3 DEF chosen, bucketOf, total

(* An entry is chosen for the hashes of its bucket, every hash has one.      *)
LEMMA FractionalChooses ==
  ASSUME NEW entries \in Seq(EntryType), validBuckets(entries),
         totalWeight(entries) \in 1 .. MaxWeight, NEW h \in 0 .. HashRange - 1
  PROVE  \E i \in 1 .. Len(entries) :
           /\ Bucket(entries, i, h)
           /\ \A j \in 1 .. Len(entries) : Bucket(entries, j, h) => j = i
           /\ fractional(entries, "key", h) = entries[i].variant
<1> DEFINE n == Len(entries)
           s == sums(entries)
           total == totalWeight(entries)
           C == chosen(entries, h)
<1>1. /\ n \in Nat /\ h \in Nat /\ total \in Nat \ {0} /\ total = s[n] /\ s[0] = 0
      /\ \A i \in 0 .. n : s[i] \in Nat
      /\ HashRange \in Nat \ {0} /\ h < HashRange
  BY RangesNat, SumsDefined DEF totalWeight
<1>2. C = {i \in 1 .. n : h * total < s[i] * HashRange}
  BY <1>1, BucketsAreChosen
<1>3. \A i \in 0 .. n : \A j \in i .. n : s[i] <= s[j]
  BY SumsGrow
<1>4. n \in C
  <2>1. n # 0
    BY <1>1
  <2> HIDE DEF total
  <2>2. h * total < HashRange * total
    BY <1>1, Times
  <2>3. HashRange * total = s[n] * HashRange
    BY <1>1
  <2> QED BY <1>1, <1>2, <2>1, <2>2, <2>3
<1>5. entries # <<>> /\ totalWeight(entries) <= MaxWeight /\ ~(totalWeight(entries) > MaxWeight)
  BY <1>1, <1>4, RangesNat
<1> DEFINE i == CHOOSE k \in C : \A j \in C : k <= j
<1> HIDE DEF C
<1>6. i \in C /\ \A j \in C : i <= j
  <2>1. C \subseteq Nat /\ C # {}
    BY <1>1, <1>2, <1>4
  <2>2. \E k \in C : \A j \in C : k <= j
    BY <2>1, LeastNumber
  <2> QED BY <2>2
<1>7. fractional(entries, "key", h) = entries[i].variant
  BY <1>4, <1>5 DEF fractional, C, Null
<1> HIDE DEF i, s, n, total
<1>8. i \in 1 .. n /\ i - 1 \in 0 .. n
  BY <1>1, <1>2, <1>6
<1>9. s[i - 1] * HashRange <= h * total
  <2>1. CASE i = 1
    <3>1. s[i - 1] * HashRange = 0 /\ h * total \in Nat
      BY <1>1, <2>1
    <3> QED BY <3>1
  <2>2. CASE i # 1
    <3>1. i - 1 \in 1 .. n /\ i - 1 \notin C
      BY <1>1, <1>6, <1>8, <2>2
    <3>2. s[i - 1] * HashRange \in Int /\ h * total \in Int
      BY <1>1, <1>8
    <3> QED BY <1>2, <3>1, <3>2
  <2> QED BY <2>1, <2>2
<1>10. ASSUME NEW j \in 1 .. n, s[j - 1] * HashRange <= h * total, h * total < s[j] * HashRange
       PROVE  j = i
  <2>1. j \in C /\ i <= j
    BY <1>2, <1>6, <1>10
  <2>2. ASSUME i < j PROVE FALSE
    <3>1. i \in 0 .. n /\ j - 1 \in i .. n /\ j - 1 \in 0 .. n
      BY <1>1, <1>8, <2>2
    <3>2. s[i] <= s[j - 1]
      BY <1>3, <3>1
    <3>3. s[i] * HashRange <= s[j - 1] * HashRange
      BY <1>1, <3>1, <3>2, Times
    <3>4. h * total < s[i] * HashRange
      BY <1>2, <1>6
    <3>5. s[i] * HashRange \in Int /\ s[j - 1] * HashRange \in Int /\ h * total \in Int
      BY <1>1, <3>1
    <3> QED BY <1>10, <3>3, <3>4, <3>5
  <2> QED BY <1>1, <1>8, <2>1, <2>2
<1>11. h * total < s[i] * HashRange
  BY <1>2, <1>6
<1> QED BY <1>7, <1>8, <1>9, <1>10, <1>11 DEF Bucket, s, n, total

LEMMA SharesAreBuckets ==
  ASSUME NEW entries \in Seq(EntryType), validBuckets(entries), Distinct(entries),
         totalWeight(entries) \in 1 .. MaxWeight, NEW i \in 1 .. Len(entries)
  PROVE  Chosen(entries, i) = {h \in Nat : Bucket(entries, i, h)}
<1>1. ASSUME NEW h \in 0 .. HashRange - 1
      PROVE  fractional(entries, "key", h) = entries[i].variant <=> Bucket(entries, i, h)
  <2>1. PICK k \in 1 .. Len(entries) : /\ Bucket(entries, k, h)
                                       /\ \A j \in 1 .. Len(entries) : Bucket(entries, j, h) => j = k
                                       /\ fractional(entries, "key", h) = entries[k].variant
    BY FractionalChooses
  <2> QED BY <2>1 DEF Distinct
<1>2. ASSUME NEW h \in Nat, Bucket(entries, i, h) PROVE h \in 0 .. HashRange - 1
  <2> DEFINE total == totalWeight(entries)
             s == sums(entries)
  <2>1. /\ total \in Nat \ {0} /\ total = s[Len(entries)] /\ s[i] \in Nat /\ s[i] <= total
        /\ HashRange \in Nat \ {0}
    <3>1. i \in 0 .. Len(entries) /\ Len(entries) \in i .. Len(entries)
      OBVIOUS
    <3> QED BY <3>1, RangesNat, SumsDefined, SumsGrow DEF totalWeight
  <2>2. h * total < s[i] * HashRange
    BY <1>2 DEF Bucket
  <2> HIDE DEF s, total
  <2>3. s[i] * HashRange <= total * HashRange
    BY <2>1, Times
  <2>4. h * total \in Int /\ s[i] * HashRange \in Int /\ total * HashRange = HashRange * total
        /\ HashRange * total \in Int
    BY <2>1
  <2>5. h * total < HashRange * total
    BY <2>2, <2>3, <2>4
  <2>6. h < HashRange
    BY <2>1, <2>5, Times
  <2> QED BY <2>1, <2>6
<1>3. 0 .. HashRange - 1 \subseteq Nat
  BY RangesNat
<1> QED BY <1>1, <1>2, <1>3 DEF Chosen

(* For any range of the hash and any entries: the shares of a rollout are    *)
(* its weights, and every hash has a variant (fractional.ts:61-121).         *)
THEOREM SharesAreProportional ==
  ASSUME NEW entries \in Seq(EntryType)
  PROVE  Proportional(entries)
<1> DEFINE n == Len(entries)
           s == sums(entries)
           total == totalWeight(entries)
<1> SUFFICES ASSUME validBuckets(entries), Distinct(entries), total \in 1 .. MaxWeight
             PROVE  /\ \A h \in 0 .. HashRange - 1 : fractional(entries, "key", h) # Null
                    /\ \A i \in DOMAIN entries :
                         LET share == Cardinality(Chosen(entries, i))
                         IN /\ weightOf(entries[i]) = 0 => share = 0
                            /\ share * total <= weightOf(entries[i]) * HashRange + total
                            /\ share * total >= weightOf(entries[i]) * HashRange - total
  BY DEF Proportional
<1>1. ASSUME NEW h \in 0 .. HashRange - 1 PROVE fractional(entries, "key", h) # Null
  BY FractionalChooses DEF Distinct
<1>2. ASSUME NEW i \in DOMAIN entries
      PROVE  LET share == Cardinality(Chosen(entries, i))
             IN /\ weightOf(entries[i]) = 0 => share = 0
                /\ share * total <= weightOf(entries[i]) * HashRange + total
                /\ share * total >= weightOf(entries[i]) * HashRange - total
  <2> DEFINE a == s[i - 1] * HashRange
             b == s[i] * HashRange
             fit == {h \in Nat : a <= h * total /\ h * total < b}
  <2>1. /\ i \in 1 .. n /\ i - 1 \in 0 .. n /\ i \in 0 .. n /\ total \in Nat \ {0}
        /\ HashRange \in Nat \ {0} /\ entries[i] \in EntryType
    BY RangesNat
  <2>2. /\ s[i] = s[i - 1] + weightOf(entries[i]) /\ s[i - 1] \in Nat /\ s[i] \in Nat
        /\ weightOf(entries[i]) \in Nat
    BY <2>1, SumsDefined, WeightsNatural
  <2>3. Chosen(entries, i) = fit
    BY <2>1, SharesAreBuckets DEF Bucket
  <2>4. weightOf(entries[i]) = s[i] - s[i - 1] /\ s[i - 1] <= s[i]
    BY <2>2
  <2> HIDE DEF s, total, n
  <2>5. a \in Nat /\ b \in Nat /\ a <= b /\ b - a = weightOf(entries[i]) * HashRange
    <3>1. a \in Nat /\ b \in Nat
      BY <2>1, <2>2
    <3>2. s[i - 1] * HashRange <= s[i] * HashRange
      BY <2>1, <2>2, <2>4, Times
    <3>3. (s[i] - s[i - 1]) * HashRange = s[i] * HashRange - s[i - 1] * HashRange
      BY <2>1, <2>2, Times
    <3> QED BY <2>4, <3>1, <3>2, <3>3
  <2>6. weightOf(entries[i]) = 0 => a = b
    BY <2>2
  <2> HIDE DEF a, b
  <2>7. /\ a = b => Cardinality(fit) = 0
        /\ Cardinality(fit) * total <= b - a + total /\ Cardinality(fit) * total >= b - a - total
    BY <2>1, <2>5, Multiples
  <2> QED BY <2>3, <2>5, <2>6, <2>7
<1> QED BY <1>1, <1>2

(* A rollout that takes weight from later entries moves nobody to a later    *)
(* one, for any number of entries (fractional.ts:64-73).                     *)
THEOREM RolloutsAreMonotone ==
  ASSUME NEW before \in Seq(EntryType), NEW after \in Seq(EntryType)
  PROVE  Monotone(before, after)
<1> SUFFICES ASSUME Len(before) = Len(after), totalWeight(before) = totalWeight(after),
                    \A i \in DOMAIN before : sums(before)[i] <= sums(after)[i],
                    NEW h \in 0 .. HashRange - 1, NEW i \in DOMAIN before, i \in chosen(before, h)
             PROVE  i \in chosen(after, h)
  BY DEF Monotone
<1> DEFINE t == h * totalWeight(before)
<1>1. i \in 1 .. Len(before) /\ h \in Nat /\ HashRange \in Nat \ {0}
  BY RangesNat
<1>2. sums(before)[i] \in Nat /\ sums(after)[i] \in Nat /\ t \in Nat
  BY <1>1, SumsDefined, BucketsAreChosen
<1>3. t < sums(before)[i] * HashRange
  BY <1>1, BucketsAreChosen
<1>4. sums(before)[i] * HashRange <= sums(after)[i] * HashRange
  BY <1>1, <1>2, Times
<1>5. sums(before)[i] * HashRange \in Int /\ sums(after)[i] * HashRange \in Int
  BY <1>1, <1>2
<1> HIDE DEF t
<1>6. t < sums(after)[i] * HashRange
  BY <1>2, <1>3, <1>4, <1>5
<1> QED BY <1>1, <1>6, BucketsAreChosen DEF t

-----------------------------------------------------------------------------
(* Versions                                                                  *)

(* Versions as they may be written, and the order of their parts.            *)
Normal == [form : {"full"}, major : Int, minor : Int, patch : Int, pre : Int]

Earlier(v, w) ==
  \/ v.major < w.major
  \/ v.major = w.major /\ v.minor < w.minor
  \/ v.major = w.major /\ v.minor = w.minor /\ v.patch < w.patch
  \/ v.major = w.major /\ v.minor = w.minor /\ v.patch = w.patch /\ v.pre < w.pre
Level(v, w) == v.major = w.major /\ v.minor = w.minor /\ v.patch = w.patch /\ v.pre = w.pre

LEMMA NormalVersions ==
  ASSUME NEW raw \in VersionType
  PROVE  normalizeVersion(raw) = NoVersion \/ normalizeVersion(raw) \in Normal
BY DEF normalizeVersion, VersionType, Normal, Written, NoVersion

LEMMA CompareIsOrder ==
  ASSUME NEW v \in Normal, NEW w \in Normal
  PROVE  compare(v, w) = IF Level(v, w) THEN 0 ELSE IF Earlier(v, w) THEN -1 ELSE 1
<1> DEFINE differ(n) == /\ parts(v)[n] # parts(w)[n]
                        /\ \A m \in 1 .. n - 1 : parts(v)[m] = parts(w)[m]
           i == CHOOSE n \in 1 .. 4 : differ(n)
<1>1. \A u \in Normal : /\ parts(u)[1] = u.major /\ parts(u)[2] = u.minor
                        /\ parts(u)[3] = u.patch /\ parts(u)[4] = u.pre
                        /\ u.major \in Int /\ u.minor \in Int /\ u.patch \in Int /\ u.pre \in Int
  BY DEF parts, Normal
<1>2. parts(v) = parts(w) <=> Level(v, w)
  BY DEF parts, Level, Normal
<1>3. 1 .. 4 = {1, 2, 3, 4} /\ 1 .. 0 = {} /\ 1 .. 1 = {1} /\ 1 .. 2 = {1, 2} /\ 1 .. 3 = {1, 2, 3}
  OBVIOUS
<1>4. /\ differ(1) <=> v.major # w.major
      /\ differ(2) <=> v.major = w.major /\ v.minor # w.minor
      /\ differ(3) <=> v.major = w.major /\ v.minor = w.minor /\ v.patch # w.patch
      /\ differ(4) <=> v.major = w.major /\ v.minor = w.minor /\ v.patch = w.patch /\ v.pre # w.pre
  BY <1>1, <1>3
<1> HIDE DEF differ
<1>5. CASE Level(v, w)
  BY <1>2, <1>5 DEF compare
<1>6. CASE ~Level(v, w)
  <2>1. \E n \in 1 .. 4 : differ(n)
    BY <1>4, <1>6 DEF Level
  <2>2. i \in 1 .. 4 /\ differ(i)
    BY <2>1
  <2>3. compare(v, w) = IF parts(v)[i] < parts(w)[i] THEN -1 ELSE 1
    BY <1>2, <1>6 DEF compare, differ
  <2> HIDE DEF i
  <2>4. i = 1 \/ i = 2 \/ i = 3 \/ i = 4
    BY <2>2
  <2>5. parts(v)[i] < parts(w)[i] <=> Earlier(v, w)
    BY <1>1, <1>4, <2>2, <2>4 DEF Earlier
  <2> QED BY <1>6, <2>3, <2>5
<1> QED BY <1>5, <1>6

(* What an operator says of two versions, in terms of their order.           *)
LEMMA SemVerIsOrder ==
  ASSUME NEW x \in VersionType, NEW y \in VersionType,
         normalizeVersion(x) # NoVersion, normalizeVersion(y) # NoVersion
  PROVE  LET v == normalizeVersion(x)
             w == normalizeVersion(y)
         IN /\ semVer(x, "<", y) = "true" <=> Earlier(v, w)
            /\ semVer(x, "<=", y) = "true" <=> Earlier(v, w) \/ Level(v, w)
            /\ semVer(x, ">", y) = "true" <=> Earlier(w, v)
            /\ semVer(x, "!=", y) = "true" <=> ~Level(v, w)
            /\ semVer(x, "~", y) = "true" <=> v.major = w.major /\ v.minor = w.minor
            /\ semVer(x, "^", y) = "true" <=> v.major = w.major
<1> DEFINE v == normalizeVersion(x)
           w == normalizeVersion(y)
<1>1. v \in Normal /\ w \in Normal /\ NoVersion \notin {v, w}
  BY NormalVersions
<1>2. \A o \in Operators : semVer(x, o, y) = IF holds(v, o, w) THEN "true" ELSE "false"
  BY <1>1 DEF semVer
<1> HIDE DEF v, w
<1>3. Earlier(w, v) <=> ~Earlier(v, w) /\ ~Level(v, w)
  BY <1>1 DEF Earlier, Level, Normal
<1>4. Earlier(v, w) => ~Level(v, w)
  BY <1>1 DEF Earlier, Level, Normal
<1>5. /\ holds(v, "<", w) <=> Earlier(v, w)
      /\ holds(v, "<=", w) <=> Earlier(v, w) \/ Level(v, w)
      /\ holds(v, ">", w) <=> Earlier(w, v)
      /\ holds(v, "!=", w) <=> ~Level(v, w)
      /\ holds(v, "~", w) <=> v.major = w.major /\ v.minor = w.minor
      /\ holds(v, "^", w) <=> v.major = w.major
  BY <1>1, <1>3, <1>4, CompareIsOrder DEF holds, matchesMinor
<1> QED BY <1>2, <1>5 DEF Operators, v, w

(* For any three versions, whatever their numbers, the operators of sem_ver  *)
(* agree with each other (sem-ver.ts:45-77).                                 *)
THEOREM ComparisonsAgree ==
  ASSUME NEW a \in VersionType, NEW b \in VersionType, NEW c \in VersionType
  PROVE  OperatorsAgree(a, b, c)
<1> DEFINE Is(x, operator, y) == semVer(x, operator, y) = "true"
<1> SUFFICES ASSUME NEW x \in {a, b, c}, NEW y \in {a, b, c},
                    NoVersion \notin {normalizeVersion(x), normalizeVersion(y), normalizeVersion(c)}
             PROVE  /\ Is(x, "<", y) = Is(y, ">", x) /\ Is(x, "<=", y) # Is(x, ">", y)
                    /\ Is(x, "!=", y) = (Is(x, "<", y) \/ Is(x, ">", y))
                    /\ (Is(x, "~", y) => Is(x, "^", y))
                    /\ (Is(x, "<=", y) /\ Is(y, "<=", c)) =>
                         /\ Is(x, "<=", c)
                         /\ (Is(x, "~", c) => Is(x, "~", y))
                         /\ (Is(x, "^", c) => Is(y, "^", c))
  BY DEF OperatorsAgree
<1> DEFINE u == normalizeVersion(x)
           v == normalizeVersion(y)
           w == normalizeVersion(c)
<1>1. u \in Normal /\ v \in Normal /\ w \in Normal
  BY NormalVersions
<1>2. /\ Is(x, "<", y) <=> Earlier(u, v)
      /\ Is(x, "<=", y) <=> Earlier(u, v) \/ Level(u, v)
      /\ Is(x, ">", y) <=> Earlier(v, u)
      /\ Is(y, ">", x) <=> Earlier(u, v)
      /\ Is(x, "!=", y) <=> ~Level(u, v)
      /\ Is(x, "~", y) <=> u.major = v.major /\ u.minor = v.minor
      /\ Is(x, "^", y) <=> u.major = v.major
  BY SemVerIsOrder
<1>3. /\ Is(y, "<=", c) <=> Earlier(v, w) \/ Level(v, w)
      /\ Is(y, "^", c) <=> v.major = w.major
      /\ Is(x, "<=", c) <=> Earlier(u, w) \/ Level(u, w)
      /\ Is(x, "~", c) <=> u.major = w.major /\ u.minor = w.minor
      /\ Is(x, "^", c) <=> u.major = w.major
  BY SemVerIsOrder
<1> HIDE DEF Is, u, v, w
<1>4. /\ Earlier(v, u) <=> ~Earlier(u, v) /\ ~Level(u, v)
      /\ Earlier(u, v) => ~Level(u, v)
  BY <1>1 DEF Earlier, Level, Normal
<1>5. (Earlier(u, v) \/ Level(u, v)) /\ (Earlier(v, w) \/ Level(v, w)) =>
        /\ Earlier(u, w) \/ Level(u, w)
        /\ u.major = w.major => v.major = w.major
        /\ u.major = w.major /\ u.minor = w.minor => u.major = v.major /\ u.minor = v.minor
  BY <1>1 DEF Earlier, Level, Normal
<1>6. /\ Is(x, "<", y) \in BOOLEAN /\ Is(y, ">", x) \in BOOLEAN /\ Is(x, "<=", y) \in BOOLEAN
      /\ Is(x, ">", y) \in BOOLEAN /\ Is(x, "!=", y) \in BOOLEAN
  BY DEF Is
<1> QED BY <1>2, <1>3, <1>4, <1>5, <1>6

-----------------------------------------------------------------------------
(* Settings                                                                  *)

(* The environment settles a number, or leaves it to the default.            *)
LEMMA EnvironmentNumbers ==
  ASSUME NEW env \in [Variables -> EnvTexts], NEW s \in NumberSettings
  PROVE  /\ getEnvVarConfig(env)[s] \in {"unset", "7", "9"}
         /\ s = "port" /\ env["syncPort"] \in {"7", "9"} => getEnvVarConfig(env)[s] = env["syncPort"]
<1>1. s \in Settings /\ env[s] \in EnvTexts /\ env["syncPort"] \in EnvTexts
  BY DEF Settings, Variables
<1>2. \A t \in EnvTexts : Truthy(Number(t)) <=> t \in {"7", "9"}
  BY DEF EnvTexts, Truthy, Number
<1>3. \A t \in EnvTexts : t \in {"7", "9"} => Number(t) = t
  BY DEF Number
<1>4. getEnvVarConfig(env)[s] = IF s = "port" /\ Truthy(Number(env["syncPort"])) THEN env["syncPort"]
                                ELSE IF Truthy(Number(env[s])) THEN Number(env[s]) ELSE "unset"
  BY <1>1 DEF getEnvVarConfig, NumberSettings, CountSettings, TextSettings
<1>5. CASE s = "port" /\ env["syncPort"] \in {"7", "9"}
  BY <1>1, <1>2, <1>4, <1>5
<1>6. CASE ~(s = "port" /\ env["syncPort"] \in {"7", "9"})
  <2>1. getEnvVarConfig(env)[s] = IF Truthy(Number(env[s])) THEN Number(env[s]) ELSE "unset"
    BY <1>1, <1>2, <1>4, <1>6
  <2>2. CASE env[s] \in {"7", "9"}
    BY <1>1, <1>2, <1>3, <1>6, <2>1, <2>2
  <2>3. CASE env[s] \notin {"7", "9"}
    BY <1>1, <1>2, <1>6, <2>1, <2>3
  <2> QED BY <2>2, <2>3
<1> QED BY <1>5, <1>6

LEMMA EnvironmentCounts ==
  ASSUME NEW env \in [Variables -> EnvTexts], NEW s \in CountSettings
  PROVE  getEnvVarConfig(env)[s] = "NaN" => env[s] \notin {"unset", "", "0", "7", "9"}
<1>1. s \in Settings /\ env[s] \in EnvTexts
  BY DEF Settings, Variables
<1>2. getEnvVarConfig(env)[s] = IF TruthyText(env[s]) THEN Number(env[s]) ELSE "unset"
  BY <1>1 DEF getEnvVarConfig, NumberSettings, CountSettings, TextSettings
<1>3. CASE env[s] \in {"unset", ""}
  <2>1. getEnvVarConfig(env)[s] = "unset"
    BY <1>2, <1>3 DEF TruthyText
  <2> QED BY <2>1
<1>4. CASE env[s] \in {"0", "7", "9"}
  <2>1. getEnvVarConfig(env)[s] = env[s]
    BY <1>2, <1>4 DEF TruthyText, Number
  <2> QED BY <1>4, <2>1
<1> QED BY <1>3, <1>4

LEMMA EnvironmentNames ==
  ASSUME NEW env \in [Variables -> EnvTexts]
  PROVE  /\ getEnvVarConfig(env)["cache"] \in {"unset", "lru", "disabled"}
         /\ getEnvVarConfig(env)["resolverType"] \in {"unset", "rpc", "in-process"}
<1>1. "cache" \in Settings /\ "resolverType" \in Settings
  BY DEF Settings
<1>2. getEnvVarConfig(env)["cache"] = IF env["cache"] \in {"lru", "disabled"} THEN env["cache"] ELSE "unset"
  BY <1>1 DEF getEnvVarConfig, NumberSettings, CountSettings, TextSettings
<1>3. getEnvVarConfig(env)["resolverType"] =
        IF toLowerCase(env["resolverType"]) \in {"rpc", "in-process"} THEN toLowerCase(env["resolverType"]) ELSE "unset"
  BY <1>1 DEF getEnvVarConfig, NumberSettings, CountSettings, TextSettings
<1> HIDE DEF getEnvVarConfig
<1> QED BY <1>2, <1>3

LEMMA Defaults ==
  ASSUME NEW resolverType \in {"rpc", "in-process"}
  PROVE  LET default == DefaultConfig(resolverType)
         IN /\ \A s \in NumberSettings : default[s] \in {"default", "8013", "8015"}
            /\ \A s \in CountSettings : default[s] = "default"
            /\ default["cache"] = "default" /\ default["resolverType"] = resolverType
<1>1. NumberSettings \subseteq Settings /\ CountSettings \subseteq Settings
      /\ "cache" \in Settings /\ "resolverType" \in Settings
  BY DEF Settings
<1> DEFINE default == DefaultConfig(resolverType)
<1>2. ASSUME NEW s \in NumberSettings PROVE default[s] \in {"default", "8013", "8015"}
  <2>1. CASE s = "port"
    BY <1>1, <2>1 DEF DefaultConfig
  <2>2. CASE s # "port"
    BY <1>1, <2>2 DEF DefaultConfig, NumberSettings
  <2> QED BY <2>1, <2>2
<1>3. ASSUME NEW s \in CountSettings PROVE default[s] = "default"
  BY <1>1 DEF DefaultConfig, CountSettings
<1>4. default["cache"] = "default" /\ default["resolverType"] = resolverType
  BY <1>1 DEF DefaultConfig
<1> QED BY <1>2, <1>3, <1>4

(* Whatever is in the environment and in the options, a setting is usable  *)
(* (configuration.ts:200-286).                                               *)
THEOREM SettingsAreUsable ==
  ASSUME NEW env \in [Variables -> EnvTexts], NEW given
  PROVE  SettingsUsable(env, given)
<1> DEFINE fromEnv == getEnvVarConfig(env)
           type == IF "in-process" \in {given.resolverType, fromEnv.resolverType} THEN "in-process" ELSE "rpc"
           low == Spread(DefaultConfig(type), fromEnv)
           merged == Spread(low, given)
           config == getConfig(env, given)
           Given(s) == given[s] # "unset"
<1>1. type \in {"rpc", "in-process"}
  OBVIOUS
<1>2. NumberSettings \subseteq Settings /\ CountSettings \subseteq Settings
      /\ "cache" \in Settings /\ "resolverType" \in Settings
      /\ "port" \in NumberSettings /\ "streamDeadlineMs" \in NumberSettings
      /\ "streamDeadlineMs" \notin CountSettings \union {"cache", "resolverType"}
  BY DEF Settings, NumberSettings, CountSettings
<1>3. config = IF NullIsh(given.streamDeadlineMs)
                 THEN [merged EXCEPT !.streamDeadlineMs = low.streamDeadlineMs] ELSE merged
  BY DEF getConfig
<1> HIDE DEF type, config
<1>4. \A s \in Settings : /\ low[s] = IF fromEnv[s] # "unset" THEN fromEnv[s] ELSE DefaultConfig(type)[s]
                          /\ merged[s] = IF Given(s) THEN given[s] ELSE low[s]
  BY DEF Spread
<1>5. \A s \in Settings : config[s] = IF s = "streamDeadlineMs" /\ NullIsh(given.streamDeadlineMs)
                                        THEN low[s] ELSE IF Given(s) THEN given[s] ELSE low[s]
  <2>1. DOMAIN merged = Settings
    BY DEF Spread
  <2> HIDE DEF low, merged
  <2> QED BY <1>3, <1>4, <2>1
<1> HIDE DEF low, merged, fromEnv
<1>6. ASSUME NEW s \in NumberSettings PROVE low[s] \in {"default", "8013", "8015", "7", "9"}
  <2>1. fromEnv[s] \in {"unset", "7", "9"}
    BY EnvironmentNumbers DEF fromEnv
  <2>2. DefaultConfig(type)[s] \in {"default", "8013", "8015"}
    BY <1>1, Defaults
  <2> QED BY <1>2, <1>4, <2>1, <2>2
<1>7. ASSUME NEW s \in NumberSettings
      PROVE  /\ config[s] = "undefined" => Given(s) /\ s # "streamDeadlineMs"
             /\ ~Given(s) => config[s] \in {"default", "8013", "8015", "7", "9"}
  <2>1. low[s] # "undefined"
    BY <1>6
  <2>2. s = "streamDeadlineMs" => given[s] = given.streamDeadlineMs
    OBVIOUS
  <2>3. CASE s = "streamDeadlineMs" /\ NullIsh(given.streamDeadlineMs)
    BY <1>2, <1>5, <1>6, <2>1, <2>3
  <2>4. CASE s = "streamDeadlineMs" /\ ~NullIsh(given.streamDeadlineMs)
    BY <1>2, <1>5, <1>6, <2>1, <2>2, <2>4 DEF NullIsh
  <2>5. CASE s # "streamDeadlineMs"
    BY <1>2, <1>5, <1>6, <2>1, <2>5
  <2> QED BY <2>3, <2>4, <2>5
<1>8. ASSUME NEW s \in CountSettings, ~Given(s), config[s] = "NaN"
      PROVE  env[s] \notin {"unset", "", "0", "7", "9"}
  <2>1. config[s] = low[s]
    BY <1>2, <1>5, <1>8
  <2>2. DefaultConfig(type)[s] = "default"
    BY <1>1, Defaults
  <2>3. fromEnv[s] = "NaN"
    BY <1>2, <1>4, <1>8, <2>1, <2>2
  <2> QED BY <2>3, EnvironmentCounts DEF fromEnv
<1>9. ASSUME ~Given("port"), env["syncPort"] \in {"7", "9"} PROVE config.port = env["syncPort"]
  <2>1. fromEnv["port"] = env["syncPort"]
    BY <1>2, <1>9, EnvironmentNumbers DEF fromEnv
  <2> QED BY <1>2, <1>4, <1>5, <1>9, <2>1
<1>10. ASSUME ~Given("cache") PROVE config.cache \in {"default", "lru", "disabled"}
  <2>1. fromEnv["cache"] \in {"unset", "lru", "disabled"} /\ DefaultConfig(type)["cache"] = "default"
    BY <1>1, EnvironmentNames, Defaults DEF fromEnv
  <2> QED BY <1>2, <1>4, <1>5, <1>10, <2>1
<1>11. ASSUME ~Given("resolverType") PROVE config.resolverType \in {"rpc", "in-process"}
  <2>1. /\ fromEnv["resolverType"] \in {"unset", "rpc", "in-process"}
        /\ DefaultConfig(type)["resolverType"] \in {"rpc", "in-process"}
    BY <1>1, EnvironmentNames, Defaults DEF fromEnv
  <2> QED BY <1>2, <1>4, <1>5, <1>11, <2>1
<1> QED BY <1>7, <1>8, <1>9, <1>10, <1>11 DEF SettingsUsable, config

-----------------------------------------------------------------------------
(* References                                                                *)

LEMMA EvaluatorsTyped ==
  ASSUME NEW config \in Configurations
  PROVE  /\ Len(config.evaluators) \in Nat /\ DOMAIN config.evaluators = 1 .. Len(config.evaluators)
         /\ \A i \in 1 .. Len(config.evaluators) : config.evaluators[i].rule \in RulesOf(config)
<1> DEFINE e == config.evaluators
           R == RulesOf(config)
           E == [key : STRING, rule : R]
<1>1. e \in Seq(E)
  BY Zenon, ConfigurationsTyped
<1> HIDE DEF e, R, E
<1>2. Len(e) \in Nat /\ DOMAIN e = 1 .. Len(e)
  BY <1>1
<1>3. \A i \in 1 .. Len(e) : e[i] \in E
  BY <1>1
<1>4. \A i \in 1 .. Len(e) : e[i].rule \in R
  BY <1>3 DEF E
<1> QED BY <1>2, <1>4 DEF e, R

Rulebook(config) == [DOMAIN config.flags -> RulesOf(config)]
Written0(config) == [k \in DOMAIN config.flags |-> config.flags[k].targeting]

LEMMA TransformSteps ==
  ASSUME NEW config \in Configurations
  PROVE  \E f \in [0 .. Len(config.evaluators) -> Rulebook(config)] :
           /\ f[0] = Written0(config)
           /\ \A i \in 1 .. Len(config.evaluators) : f[i] = replaceAll(f[i - 1], config.evaluators[i])
           /\ transform(Written0(config), config.evaluators) = f[Len(config.evaluators)]
<1> DEFINE n == Len(config.evaluators)
           e == config.evaluators
           base == Written0(config)
           S == Rulebook(config)
           step == [i \in 1 .. n |-> [r \in S |-> replaceAll(r, e[i])]]
<1>1. n \in Nat /\ \A i \in 1 .. n : e[i].rule \in RulesOf(config)
  BY EvaluatorsTyped
<1>2. base \in S
  BY DEF Written0, Rulebook, RulesOf
<1>3. \A i \in 1 .. n : \A r \in S : replaceAll(r, e[i]) \in S
  BY <1>1 DEF replaceAll, Rulebook
<1> HIDE DEF S, base
<1>4. step \in [1 .. n -> [S -> S]]
  BY <1>3
<1>5. PICK f \in [0 .. n -> S] : Iterates(f, n, base, step)
  <2> HIDE DEF step, n
  <2> QED BY <1>1, <1>2, <1>4, Recursion
<1>6. f[0] = base /\ \A i \in 1 .. n : f[i] = replaceAll(f[i - 1], e[i])
  <2>1. \A i \in 1 .. n : f[i - 1] \in S
    BY <1>1
  <2> QED BY <1>5, <2>1 DEF Iterates
<1> HIDE DEF n, e, step
<1>7. f = [i \in 0 .. n |-> IF i = 0 THEN base ELSE replaceAll(f[i - 1], e[i])]
  BY <1>1, <1>6
<1> DEFINE g == CHOOSE h : h = [i \in 0 .. n |-> IF i = 0 THEN base ELSE replaceAll(h[i - 1], e[i])]
<1>8. g = [i \in 0 .. n |-> IF i = 0 THEN base ELSE replaceAll(g[i - 1], e[i])]
  BY <1>7
<1>9. transform(base, e) = g[n]
  BY Zenon DEF transform, n, e
<1> HIDE DEF g
<1>10. g[0] = base /\ \A i \in 1 .. n : g[i] = replaceAll(g[i - 1], e[i])
  BY <1>1, <1>8
<1>11. g \in [0 .. n -> S]
  <2> DEFINE Good == {k \in Nat : k <= n => g[k] \in S}
  <2>1. 0 \in Good
    BY <1>2, <1>10
  <2>2. ASSUME NEW k \in Nat, k \in Good, k + 1 <= n PROVE g[k + 1] \in S
    <3>1. k + 1 \in 1 .. n /\ g[k] \in S /\ (k + 1) - 1 = k
      BY <1>1, <2>2
    <3> QED BY <1>3, <1>10, <3>1 DEF n, e
  <2>3. \A k \in Nat : k \in Good => k + 1 \in Good
    BY <2>2
  <2> HIDE DEF Good
  <2>4. \A k \in 0 .. n : k \in Good
    BY <1>1, <2>1, <2>3, SetInduction
  <2>5. \A k \in 0 .. n : g[k] \in S
    BY <1>1, <2>4 DEF Good
  <2> QED BY <1>8, <2>5
<1> QED BY <1>9, <1>10, <1>11 DEF n, e, base, S

(* Evaluators in an order in which every reference among them points forward.*)
Mentions(config, rule, i) == rule.op = "$ref" /\ rule.key = config.evaluators[i].key
InOrder(config) ==
  \A i \in DOMAIN config.evaluators :
    IF config.evaluators[i].rule.op = "$ref"
      THEN \E j \in i + 1 .. Len(config.evaluators) : Mentions(config, config.evaluators[i].rule, j)
      ELSE targeting(config.evaluators[i].rule) # Failed

(* After i evaluators a reference that could be resolved is so, or mentions  *)
(* a later one.                                                              *)
OnItsWay(config, rule, i) ==
  IF rule.op = "$ref" THEN \E j \in i + 1 .. Len(config.evaluators) : Mentions(config, rule, j)
                      ELSE targeting(rule) # Failed

LEMMA ReplacedOnce ==
  ASSUME NEW config \in Configurations, InOrder(config), NEW i \in 1 .. Len(config.evaluators),
         NEW rules, NEW k \in DOMAIN rules, OnItsWay(config, rules[k], i - 1)
  PROVE  OnItsWay(config, replaceAll(rules, config.evaluators[i])[k], i)
<1> DEFINE e == config.evaluators[i]
           n == Len(config.evaluators)
<1>1. n \in Nat /\ i \in DOMAIN config.evaluators /\ (i - 1) + 1 = i
  BY EvaluatorsTyped
<1>2. replaceAll(rules, e)[k] = IF Mentions(config, rules[k], i) THEN e.rule ELSE rules[k]
  BY DEF replaceAll, Mentions
<1>3. OnItsWay(config, e.rule, i)
  BY <1>1 DEF InOrder, OnItsWay
<1>4. CASE Mentions(config, rules[k], i)
  BY <1>2, <1>3, <1>4
<1>5. CASE ~Mentions(config, rules[k], i)
  <2>1. CASE rules[k].op = "$ref"
    <3>1. PICK j \in i .. n : Mentions(config, rules[k], j)
      BY <1>1, <2>1 DEF OnItsWay
    <3>2. j \in i + 1 .. n
      BY <1>1, <1>5, <3>1
    <3> QED BY <1>2, <1>5, <2>1, <3>1, <3>2 DEF OnItsWay
  <2>2. CASE rules[k].op # "$ref"
    BY <1>2, <1>5, <2>2 DEF OnItsWay
  <2> QED BY <2>1, <2>2
<1> QED BY <1>4, <1>5

LEMMA ReferencesResolve ==
  ASSUME NEW config \in Configurations, InOrder(config), NEW k \in DOMAIN config.flags,
         NEW i \in DOMAIN config.evaluators, Mentions(config, config.flags[k].targeting, i)
  PROVE  targeting(transform(Written0(config), config.evaluators)[k]) # Failed
<1> DEFINE n == Len(config.evaluators)
<1>1. n \in Nat /\ i \in 1 .. n
  BY EvaluatorsTyped
<1>2. PICK f \in [0 .. n -> Rulebook(config)] :
           /\ f[0] = Written0(config)
           /\ \A m \in 1 .. n : f[m] = replaceAll(f[m - 1], config.evaluators[m])
           /\ transform(Written0(config), config.evaluators) = f[n]
  BY TransformSteps
<1> DEFINE Good == {m \in Nat : m <= n => OnItsWay(config, f[m][k], m)}
<1>3. 0 \in Good
  <2>1. f[0][k] = config.flags[k].targeting
    BY <1>2 DEF Written0
  <2>2. i \in 0 + 1 .. n
    BY <1>1
  <2> QED BY <2>1, <2>2 DEF OnItsWay, Mentions
<1>4. ASSUME NEW m \in Nat, m \in Good, m + 1 <= n PROVE OnItsWay(config, f[m + 1][k], m + 1)
  <2>1. m + 1 \in 1 .. n /\ (m + 1) - 1 = m /\ m <= n /\ m \in 0 .. n
    BY <1>1, <1>4
  <2>2. OnItsWay(config, f[m][k], m) /\ k \in DOMAIN f[m]
    BY <1>4, <2>1 DEF Rulebook
  <2>3. f[m + 1] = replaceAll(f[m], config.evaluators[m + 1])
    BY <1>2, <2>1
  <2> HIDE DEF n, Good
  <2>4. OnItsWay(config, replaceAll(f[m], config.evaluators[m + 1])[k], m + 1)
    BY <2>1, <2>2, ReplacedOnce DEF n
  <2> QED BY <2>3, <2>4
<1>5. \A m \in Nat : m \in Good => m + 1 \in Good
  BY <1>4
<1> HIDE DEF Good
<1>6. n \in Good
  BY <1>1, <1>3, <1>5, SetInduction
<1>7. OnItsWay(config, f[n][k], n)
  BY <1>1, <1>6 DEF Good
<1>8. n + 1 .. n = {}
  BY <1>1
<1>9. targeting(f[n][k]) # Failed
  BY <1>7, <1>8 DEF OnItsWay
<1> QED BY <1>2, <1>9

-----------------------------------------------------------------------------
(* Answers                                                                   *)

(* What the storage holds: nothing yet, or what the last text that parses    *)
(* was parsed to.                                                            *)
Holds(config, strict) ==
  /\ parses(config, strict)
  /\ storage = parse(config)
  /\ accepted = [set |-> TRUE, config |-> config, strict |-> strict]
Parsed ==
  \/ storage = [k \in {} |-> k] /\ accepted = [set |-> FALSE]
  \/ \E config \in Configurations, strict \in BOOLEAN : Holds(config, strict)

(* A stored flag as the evaluation needs it.                                 *)
Usable(flag) ==
  /\ flag.variants \in [DOMAIN flag.variants -> Types]
  /\ flag.defaultVariant # NoVariant => flag.defaultVariant \in DOMAIN flag.variants

LEMMA FlagsParsed ==
  ASSUME NEW config \in Configurations, NEW strict, parses(config, strict), NEW k \in DOMAIN config.flags
  PROVE  /\ DOMAIN parse(config) = DOMAIN config.flags
         /\ Usable(parse(config)[k])
         /\ parse(config)[k].targeting = targeting(transform(Written0(config), config.evaluators)[k])
<1> DEFINE F == config.flags
           T == [state : STRING, defaultVariant : STRING, variants : VariantsOf(config), targeting : RulesOf(config)]
           t == targeting(transform(Written0(config), config.evaluators)[k])
<1>1. F \in [DOMAIN F -> T]
  BY Zenon, ConfigurationsTyped
<1>2. F[k] \in T
  BY <1>1
<1>3. parse(config) = [n \in DOMAIN F |->
                         [F[n] EXCEPT !.targeting = targeting(transform(Written0(config), config.evaluators)[n])]]
  BY Zenon DEF parse, Written0
<1>4. parse(config)[k] = [F[k] EXCEPT !.targeting = t]
  BY <1>3
<1> HIDE DEF t
<1>5. /\ parse(config)[k].variants = F[k].variants /\ parse(config)[k].targeting = t
      /\ parse(config)[k].defaultVariant = F[k].defaultVariant
  BY <1>2, <1>4
<1>6. F[k].variants \in [DOMAIN F[k].variants -> Types]
  <2>1. F[k].variants \in VariantsOf(config)
    BY DEF VariantsOf
  <2> QED BY <2>1, ConfigurationsTyped
<1>7. F[k].defaultVariant # NoVariant => F[k].defaultVariant \in DOMAIN F[k].variants
  BY DEF parses, validateStructure
<1> HIDE DEF F
<1>8. Usable(parse(config)[k])
  BY <1>5, <1>6, <1>7 DEF Usable
<1> QED BY <1>3, <1>5, <1>8 DEF F, t

LEMMA StoredFlags ==
  ASSUME Parsed, NEW k \in DOMAIN storage
  PROVE  Usable(storage[k])
<1>1. CASE storage = [n \in {} |-> n]
  BY <1>1
<1>2. CASE \E config \in Configurations, strict \in BOOLEAN : Holds(config, strict)
  <2>1. PICK config \in Configurations, strict \in BOOLEAN : Holds(config, strict)
    BY <1>2
  <2>2. parses(config, strict) /\ storage = parse(config)
    BY <2>1 DEF Holds
  <2>3. k \in DOMAIN config.flags
    BY <2>2 DEF parse
  <2> QED BY <2>2, <2>3, FlagsParsed
<1> QED BY <1>1, <1>2 DEF Parsed

(* The ways of an answer.                                                    *)
LEMMA Variants ==
  ASSUME NEW flag, Usable(flag), NEW variant, NEW reason
  PROVE  \/ variantOf(flag, variant, reason) = Error("GENERAL")
         \/ /\ variant \in DOMAIN flag.variants
            /\ variantOf(flag, variant, reason) = Answer(reason, flag.variants[variant])
            /\ flag.variants[variant] \in Types
BY DEF variantOf, Usable

LEMMA Default ==
  ASSUME NEW flag, Usable(flag), NEW reason
  PROVE  \/ flag.defaultVariant = NoVariant /\ defaultOf(flag, reason) = Answer("DEFAULT", "undefined")
         \/ /\ flag.defaultVariant # NoVariant
            /\ defaultOf(flag, reason) = Answer(reason, flag.variants[flag.defaultVariant])
            /\ flag.variants[flag.defaultVariant] \in Types
BY DEF defaultOf, variantOf, Usable

LEMMA Evaluations ==
  ASSUME NEW flag, NEW ctx
  PROVE  \/ evaluate(flag, ctx) = Error("PARSE_ERROR") /\ flag.targeting # NoTargeting
         \/ evaluate(flag, ctx) = defaultOf(flag, "STATIC")
         \/ evaluate(flag, ctx) = Error("GENERAL") /\ flag.targeting # NoTargeting
         \/ evaluate(flag, ctx) = defaultOf(flag, "DEFAULT")
         \/ /\ flag.targeting # NoTargeting
            /\ \E found : evaluate(flag, ctx) = variantOf(flag, found, "TARGETING_MATCH")
<1> DEFINE t == flag.targeting
<1>0. Failed.op = "parse error" /\ NoTargeting.op = "none"
  BY DEF Failed, NoTargeting
<1>1. CASE t = Failed
  <2>1. t.op # "none" /\ t.op # "throws"
    BY <1>0, <1>1
  <2>2. evaluate(flag, ctx) = Error("PARSE_ERROR")
    BY Zenon, <1>1, <2>1 DEF evaluate
  <2> QED BY <1>0, <2>1, <2>2
<1>2. CASE t # Failed /\ t.op = "none"
  <2>1. t.op # "throws"
    BY <1>2
  <2>2. evaluate(flag, ctx) = defaultOf(flag, "STATIC")
    BY Zenon, <1>2, <2>1 DEF evaluate
  <2> QED BY <2>2
<1>3. CASE t # Failed /\ t.op = "throws"
  <2>1. t.op # "none"
    BY <1>3
  <2>2. evaluate(flag, ctx) = Error("GENERAL")
    BY Zenon, <1>3, <2>1 DEF evaluate
  <2> QED BY <1>0, <2>1, <2>2
<1>4. CASE t # Failed /\ t.op # "none" /\ t.op # "throws"
  <2> DEFINE found == evaluateRule(t, ctx)
  <2>1. evaluate(flag, ctx) = IF found = Null THEN defaultOf(flag, "DEFAULT")
                                               ELSE variantOf(flag, found, "TARGETING_MATCH")
    BY Zenon, <1>4 DEF evaluate
  <2> HIDE DEF found
  <2> QED BY <1>0, <1>4, <2>1
<1> QED BY <1>1, <1>2, <1>3, <1>4

LEMMA AnswersFit ==
  ASSUME NEW flag, Usable(flag), NEW ctx
  PROVE  /\ evaluate(flag, ctx).value \in Types \union {"undefined"}
         /\ evaluate(flag, ctx).reason = "ERROR" => flag.targeting # NoTargeting
         /\ evaluate(flag, ctx).reason \in {"STATIC", "DEFAULT"} =>
              evaluate(flag, ctx).value = IF flag.defaultVariant = NoVariant THEN "undefined"
                                          ELSE flag.variants[flag.defaultVariant]
         /\ \E reason, value, error : evaluate(flag, ctx) = [reason |-> reason, value |-> value, error |-> error]
<1> DEFINE R == evaluate(flag, ctx)
<1>1. \A reason, value : /\ Answer(reason, value).reason = reason /\ Answer(reason, value).value = value
                         /\ Answer(reason, value) = [reason |-> reason, value |-> value, error |-> "none"]
  BY DEF Answer
<1>2. \A code : /\ Error(code).reason = "ERROR" /\ Error(code).value = "undefined"
                /\ Error(code) = [reason |-> "ERROR", value |-> "undefined", error |-> code]
  BY DEF Error
<1> HIDE DEF R
<1> SUFFICES /\ R.value \in Types \union {"undefined"}
             /\ R.reason = "ERROR" => flag.targeting # NoTargeting
             /\ R.reason \in {"STATIC", "DEFAULT"} =>
                  R.value = IF flag.defaultVariant = NoVariant THEN "undefined"
                            ELSE flag.variants[flag.defaultVariant]
             /\ \E reason, value, error : R = [reason |-> reason, value |-> value, error |-> error]
  BY DEF R
<1>3. CASE R = Error("PARSE_ERROR") /\ flag.targeting # NoTargeting
  BY <1>2, <1>3
<1>4. CASE R = Error("GENERAL") /\ flag.targeting # NoTargeting
  BY <1>2, <1>4
<1>5. ASSUME NEW reason \in {"STATIC", "DEFAULT"}, R = defaultOf(flag, reason)
      PROVE  /\ R.value \in Types \union {"undefined"} /\ R.reason \in {"STATIC", "DEFAULT"}
             /\ R.value = IF flag.defaultVariant = NoVariant THEN "undefined"
                          ELSE flag.variants[flag.defaultVariant]
             /\ \E why, value, error : R = [reason |-> why, value |-> value, error |-> error]
  BY <1>1, <1>5, Default
<1>6. CASE flag.targeting # NoTargeting /\ \E found : R = variantOf(flag, found, "TARGETING_MATCH")
  <2>1. PICK found : R = variantOf(flag, found, "TARGETING_MATCH")
    BY <1>6
  <2>2. CASE R = Error("GENERAL")
    BY <1>2, <1>6, <2>2
  <2>3. CASE R = Answer("TARGETING_MATCH", flag.variants[found]) /\ flag.variants[found] \in Types
    BY <1>1, <2>3
  <2> QED BY <2>1, <2>2, <2>3, Variants
<1> QED BY <1>3, <1>4, <1>5, <1>6, Evaluations DEF R

LEMMA StoredAnswer ==
  ASSUME Parsed
  PROVE  AcceptedFlagsAnswer
BY StoredFlags, AnswersFit DEF AcceptedFlagsAnswer

(* resolve for a flag that is on.                                            *)
LEMMA ListAgrees ==
  ASSUME Parsed
  PROVE  ResolveAllAgrees
<1> SUFFICES ASSUME NEW k \in FlagKeys, NEW ctx \in EvalContexts
             PROVE  {all[2] : all \in {a \in resolveAll(ctx) : a[1] = k}}
                      = {one \in {resolve(t, k, ctx) : t \in Types} : one.value # "default"}
  BY DEF ResolveAllAgrees
<1> DEFINE R == evaluate(storage[k], ctx)
           listed == {all[2] : all \in {a \in resolveAll(ctx) : a[1] = k}}
           single == {one \in {resolve(t, k, ctx) : t \in Types} : one.value # "default"}
           on == k \in DOMAIN storage /\ storage[k].state # "DISABLED" /\ R.value # "undefined"
<1>1. listed = IF on THEN {R} ELSE {}
  <2>1. \A a : a \in resolveAll(ctx) /\ a[1] = k <=> on /\ a = <<k, R>>
    BY DEF resolveAll
  <2> HIDE DEF on, R
  <2>2. \A x : x \in listed <=> \E a : /\ a \in resolveAll(ctx) /\ a[1] = k
                                       /\ x = a[2]
    OBVIOUS
  <2> HIDE DEF listed
  <2>3. \A x : x \in listed <=> on /\ x = R
    <3>1. <<k, R>>[2] = R
      OBVIOUS
    <3>2. ASSUME NEW x PROVE x \in listed => on /\ x = R
      <4> SUFFICES ASSUME x \in listed PROVE on /\ x = R
        OBVIOUS
      <4>1. PICK a : a \in resolveAll(ctx) /\ a[1] = k /\ x = a[2]
        BY <2>2
      <4> QED BY <2>1, <3>1, <4>1
    <3>3. ASSUME NEW x, on, x = R PROVE x \in listed
      <4>1. <<k, R>> \in resolveAll(ctx) /\ <<k, R>>[1] = k
        BY <2>1, <3>3
      <4> QED BY <2>2, <3>1, <3>3, <4>1
    <3> QED BY <3>2, <3>3
  <2> QED BY <2>3
<1>2. CASE k \notin DOMAIN storage
  <2>1. \A t : resolve(t, k, ctx).value = "default"
    BY <1>2 DEF resolve, Error
  <2> QED BY <1>1, <1>2, <2>1
<1>3. CASE k \in DOMAIN storage /\ storage[k].state = "DISABLED"
  <2>1. \A t : resolve(t, k, ctx).value = "default"
    BY <1>3 DEF resolve, Answer
  <2> QED BY <1>1, <1>3, <2>1
<1>4. CASE k \in DOMAIN storage /\ storage[k].state # "DISABLED"
  <2>1. /\ R.value \in Types \union {"undefined"}
        /\ \E reason, value, error : R = [reason |-> reason, value |-> value, error |-> error]
    BY <1>4, StoredFlags, AnswersFit
  <2>2. \A t : resolve(t, k, ctx) = IF R.value = "undefined" THEN [R EXCEPT !.value = "default"]
                                    ELSE IF R.value # t THEN [Error("TYPE_MISMATCH") EXCEPT !.value = "default"]
                                    ELSE R
    BY Zenon, <1>4 DEF resolve
  <2>3. [Error("TYPE_MISMATCH") EXCEPT !.value = "default"].value = "default"
    BY DEF Error
  <2> HIDE DEF R
  <2>4. [R EXCEPT !.value = "default"].value = "default"
    BY <2>1
  <2>5. CASE R.value = "undefined"
    BY <1>1, <2>2, <2>4, <2>5
  <2>6. CASE R.value # "undefined"
    <3>1. R.value \in Types /\ R.value # "default"
      BY <2>1, <2>6 DEF Types
    <3>2. \A t : IF R.value = t THEN resolve(t, k, ctx) = R ELSE resolve(t, k, ctx).value = "default"
      BY <2>2, <2>3, <2>6
    <3>3. single = {R}
      BY <3>1, <3>2
    <3> QED BY <1>1, <1>4, <2>6, <3>3
  <2> QED BY <2>5, <2>6
<1> QED BY <1>2, <1>3, <1>4

LEMMA StoredReferences ==
  ASSUME Parsed
  PROVE  RefsResolved
<1> SUFFICES ASSUME accepted.set PROVE RefsResolved
  BY DEF RefsResolved
<1>1. PICK config \in Configurations, strict \in BOOLEAN : Holds(config, strict)
  <2>1. [set |-> FALSE].set = FALSE
    OBVIOUS
  <2> QED BY <2>1 DEF Parsed
<1>2. parses(config, strict) /\ storage = parse(config) /\ accepted.config = config
  BY <1>1 DEF Holds
<1>3. ASSUME InOrder(config), NEW k \in DOMAIN storage, NEW i \in DOMAIN config.evaluators,
             Mentions(config, config.flags[k].targeting, i)
      PROVE  storage[k].targeting # Failed
  <2>1. k \in DOMAIN config.flags
    BY <1>2, <1>3 DEF parse
  <2>2. storage[k].targeting = targeting(transform(Written0(config), config.evaluators)[k])
    BY <1>2, <2>1, FlagsParsed
  <2> QED BY <1>3, <2>1, <2>2, ReferencesResolve
<1> QED BY <1>2, <1>3 DEF RefsResolved, InOrder, Mentions

LEMMA StorageParsed == MCSpec => []Parsed
<1>1. MCInit => Parsed
  BY DEF MCInit, CoreInit, Parsed
<1>2. Parsed /\ [Configure \/ Choose \/ Forget \/ Browse]_<<coreVars, subject, input, webVars>> => Parsed'
  <2> SUFFICES ASSUME Parsed, [Configure \/ Choose \/ Forget \/ Browse]_<<coreVars, subject, input, webVars>>
               PROVE  Parsed'
    OBVIOUS
  <2>1. CASE UNCHANGED coreVars
    BY <2>1 DEF coreVars, Parsed, Holds
  <2>2. ASSUME NEW config \in Configurations, NEW strict \in BOOLEAN, SetConfigurations(config, strict)
        PROVE  Parsed'
    <3>1. CASE parses(config, strict)
      BY <2>2, <3>1 DEF SetConfigurations, Parsed, Holds
    <3>2. CASE ~parses(config, strict)
      BY <2>1, <2>2, <3>2 DEF SetConfigurations
    <3> QED BY <3>1, <3>2
  <2> QED BY <2>1, <2>2 DEF Configure, Choose, Forget, Browse, CoreNext
<1> QED BY <1>1, <1>2, PTL DEF MCSpec

(* Whatever texts are set: every flag that was accepted answers, the bulk    *)
(* answers are the single ones, references resolve (parser.ts:56-107,        *)
(* flagd-core.ts:116-211).                                                   *)
THEOREM FlagsAlwaysAnswer == MCSpec => []FlagsAnswer
<1>1. Parsed => FlagsAnswer
  BY StoredAnswer, ListAgrees, StoredReferences DEF FlagsAnswer
<1> QED BY <1>1, StorageParsed, PTL

-----------------------------------------------------------------------------
(* Inputs                                                                    *)

Tried == input = NoInput \/ input \in Inputs

LEMMA InputsTried == MCSpec => []Tried
<1>1. MCInit => Tried
  BY DEF MCInit, Tried
<1>2. Tried /\ [Configure \/ Choose \/ Forget \/ Browse]_<<coreVars, subject, input, webVars>> => Tried'
  BY DEF Tried, Inputs, Configure, Choose, Forget, Browse
<1> QED BY <1>1, <1>2, PTL DEF MCSpec

(* The operators hold for any rollouts and versions, any range of the hash   *)
(* and any limit of the weights (fractional.ts:64-121, sem-ver.ts:53-77).    *)
THEOREM OperatorsAlwaysHold == MCSpec => []OperatorsHold
<1>1. Tried => OperatorsHold
  <2> SUFFICES ASSUME Tried PROVE OperatorsHold
    OBVIOUS
  <2>1. ASSUME On("rollout") PROVE Proportional(input.before) /\ Monotone(input.before, input.after)
    <3>1. input \in Rollouts
      BY <2>1 DEF On, Tried, Inputs
    <3>2. input.before \in Seq(EntryType) /\ input.after \in Seq(EntryType)
      BY <3>1, InputsTyped
    <3> QED BY <3>2, SharesAreProportional, RolloutsAreMonotone
  <2>2. ASSUME On("versions") PROVE OperatorsAgree(input.a, input.b, input.c)
    <3>1. input \in [a : VersionTexts, b : VersionTexts, c : VersionTexts]
      BY <2>2 DEF On, Tried, Inputs
    <3>2. input.a \in VersionType /\ input.b \in VersionType /\ input.c \in VersionType
      BY <3>1, InputsTyped
    <3> QED BY <3>2, ComparisonsAgree
  <2> QED BY <2>1, <2>2 DEF OperatorsHold
<1> QED BY <1>1, InputsTried, PTL

(* Whatever the environment and the options say, the settings are usable     *)
(* (configuration.ts:200-286).                                               *)
THEOREM SettingsAlwaysHold == MCSpec => []SettingsHold
<1>1. Tried => SettingsHold
  <2> SUFFICES ASSUME Tried, On("settings") PROVE SettingsUsable(input.env, input.options)
    BY DEF SettingsHold
  <2>1. input \in [env : Environments, options : Options]
    BY DEF On, Tried, Inputs
  <2>2. input.env \in [Variables -> EnvTexts]
    BY <2>1, InputsTyped
  <2> QED BY <2>2, SettingsAreUsable
<1> QED BY <1>1, InputsTried, PTL

-----------------------------------------------------------------------------
(* The provider for browsers of flagd                                        *)

(* Evaluations overlap only in doubt.                                        *)
AloneUnlessInDoubt == ~doubt => \A f, g \in InFlight : f = g

(* Without a doubt and a message under way, an evaluation in flight is for   *)
(* the context of the SDK, and its answer the one of the server; if there is *)
(* none, the flags are already.                                              *)
Current == [context |-> context, version |-> version]
InFlightIsCurrent ==
  serving /\ inbox = <<>> /\ ~doubt =>
    /\ InFlight = {} => flags = Current
    /\ \A f \in InFlight : fetch[f].context = context /\ fetch[f].answer \in {NoFlags, Current}

NotBeforeInit == init = "idle" => streams = 0 /\ retryTimers = 0

(* The types, those of the truth values apart.                               *)
Booleans == {first, serving, connected, doubt, gaveUp, closed} \subseteq BOOLEAN

WebInv == WebTypeOK /\ OneStream /\ NotBeforeInit /\ AloneUnlessInDoubt /\ InFlightIsCurrent

LEMMA WebInvImplies == WebInv => KeepsUp
BY DEF WebInv, KeepsUp, FlagsFollow, InFlightIsCurrent, Current

LEMMA WebInitInv == WebInit => WebInv
<1> SUFFICES ASSUME WebInit PROVE WebInv OBVIOUS
<1> USE WebBounds
<1>1. InFlight = {}
  BY DEF WebInit, InFlight
<1>2. Booleans
  BY Zenon DEF WebInit, Booleans
<1>3. WebTypeOK
  BY <1>2 DEF Booleans, WebInit, WebTypeOK, InitialDelay
<1> QED BY <1>1, <1>3 DEF WebInit, WebInv, OneStream, NotBeforeInit, AloneUnlessInDoubt, InFlightIsCurrent

Messages == {"provider_ready", "configuration_change"}

(* retryConnect: a stream more, and a delay that is still one.               *)
LEMMA Reconnected ==
  ASSUME WebInv, NEW isFirst \in BOOLEAN, retryConnect(isFirst)
  PROVE  /\ delay' \in InitialDelay .. MaxDelay /\ streams' = streams + 1
         /\ first' \in BOOLEAN /\ serving' = FALSE /\ inbox' = <<>>
BY WebBounds DEF WebInv, WebTypeOK, retryConnect, InitialDelay

(* fetchAll: one more evaluation, unanswered; it is alone or in doubt.       *)
LEMMA Fetched ==
  ASSUME WebInv, NEW purpose \in {"ready", "change", "context"}, NEW ctx \in Contexts,
         fetchAll(purpose, ctx)
  PROVE  /\ fetch' \in [Fetches -> {Idle} \union Sent] /\ doubt' \in BOOLEAN /\ flags' = flags
         /\ ~doubt' => \E f \in Fetches : /\ InFlight' = {f}
                                          /\ fetch'[f].context = ctx /\ fetch'[f].answer = NoFlags
<1>1. PICK f \in Fetches \ InFlight :
        fetch' = [fetch EXCEPT ![f] = [purpose |-> purpose, first |-> first, context |-> ctx,
                                       answer |-> NoFlags]]
  BY DEF fetchAll
<1>2. [purpose |-> purpose, first |-> first, context |-> ctx, answer |-> NoFlags] \in Sent
  BY DEF Sent, WebInv, WebTypeOK
<1>3. fetch' \in [Fetches -> {Idle} \union Sent]
  BY <1>1, <1>2 DEF WebInv, WebTypeOK
<1>4. doubt' = (InFlight # {}) /\ flags' = flags
  BY DEF fetchAll
<1>5. /\ fetch'[f].context = ctx /\ fetch'[f].answer = NoFlags /\ fetch'[f] # Idle
      /\ \A g \in Fetches : g # f => fetch'[g] = fetch[g]
  BY <1>1 DEF WebInv, WebTypeOK, Idle
<1>6. InFlight = {} => InFlight' = {f}
  BY <1>1, <1>5 DEF InFlight
<1> QED BY <1>3, <1>4, <1>5, <1>6

(* The status, the counters and the stream leave the evaluations alone.      *)
LEMMA FetchesAlone ==
  ASSUME WebInv, UNCHANGED << flagVars, context, version >>,
         serving' /\ inbox' = <<>> => serving /\ inbox = <<>>
  PROVE  AloneUnlessInDoubt' /\ InFlightIsCurrent'
<1>1. InFlight' = InFlight /\ Current' = Current
  BY DEF flagVars, InFlight, Current
<1>2. AloneUnlessInDoubt'
  BY <1>1 DEF WebInv, AloneUnlessInDoubt, flagVars
<1>3. InFlightIsCurrent'
  BY <1>1 DEF WebInv, InFlightIsCurrent, flagVars
<1> QED BY <1>2, <1>3

LEMMA WebKeeps == WebInv /\ [WebNext]_webVars => WebInv'
<1> SUFFICES ASSUME WebInv, [WebNext]_webVars PROVE WebInv' OBVIOUS
<1> USE WebBounds
<1>1. CASE Initialize
  <2>1. /\ delay' \in InitialDelay .. MaxDelay /\ streams' = streams + 1
        /\ first' \in BOOLEAN /\ serving' = FALSE /\ inbox' = <<>>
    BY <1>1, Reconnected DEF Initialize
  <2>2. WebTypeOK'
    <3>1. Booleans'
      BY <1>1, <2>1 DEF Initialize, flagVars, WebInv, WebTypeOK, Booleans
    <3> QED BY <1>1, <2>1, <3>1 DEF Initialize, flagVars, WebInv, WebTypeOK, Booleans
  <2>3. AloneUnlessInDoubt' /\ InFlightIsCurrent'
    BY <1>1, <2>1, FetchesAlone DEF Initialize
  <2>4. OneStream' /\ NotBeforeInit'
    BY <1>1, <2>1 DEF Initialize, WebInv, NotBeforeInit, OneStream
  <2> QED BY <2>2, <2>3, <2>4 DEF WebInv
<1>2. CASE Message
  <2>1. /\ inbox \in Seq(Messages) /\ inbox # <<>> /\ inbox' \in Seq(Messages)
    BY <1>2, HeadTailProperties DEF Message, WebInv, WebTypeOK, Messages
  <2>2. PICK purpose \in {"ready", "change", "context"} : fetchAll(purpose, context)
    BY <1>2 DEF Message
  <2>3. context \in Contexts
    BY DEF WebInv, WebTypeOK
  <2>4. /\ fetch' \in [Fetches -> {Idle} \union Sent] /\ doubt' \in BOOLEAN /\ flags' = flags
        /\ ~doubt' => \E f \in Fetches : /\ InFlight' = {f}
                                         /\ fetch'[f].context = context /\ fetch'[f].answer = NoFlags
    BY <2>2, <2>3, Fetched
  <2>5. WebTypeOK'
    BY <1>2, <2>1, <2>4 DEF Message, WebInv, WebTypeOK, Messages
  <2>6. OneStream' /\ NotBeforeInit'
    BY <1>2 DEF Message, WebInv, OneStream, NotBeforeInit
  <2>7. AloneUnlessInDoubt'
    BY <2>4 DEF AloneUnlessInDoubt
  <2>8. InFlightIsCurrent'
    BY <1>2, <2>4 DEF Message, InFlightIsCurrent
  <2> QED BY <2>5, <2>6, <2>7, <2>8 DEF WebInv
<1>3. CASE StreamError
  <2>1. AloneUnlessInDoubt' /\ InFlightIsCurrent'
    BY <1>3, FetchesAlone DEF StreamError
  <2>2. WebTypeOK'
    <3>1. Booleans'
      BY <1>3 DEF StreamError, flagVars, WebInv, WebTypeOK, Booleans
    <3> QED BY <1>3, <3>1 DEF StreamError, flagVars, WebInv, WebTypeOK, Booleans
  <2>3. OneStream' /\ NotBeforeInit'
    BY <1>3 DEF StreamError, WebInv, WebTypeOK, OneStream, NotBeforeInit
  <2> QED BY <2>1, <2>2, <2>3 DEF WebInv
<1>4. CASE RetryTimer
  <2>1. /\ delay' \in InitialDelay .. MaxDelay /\ streams' = streams + 1
        /\ first' \in BOOLEAN /\ serving' = FALSE /\ inbox' = <<>>
    BY <1>4, Reconnected DEF RetryTimer
  <2>2. AloneUnlessInDoubt' /\ InFlightIsCurrent'
    BY <1>4, <2>1, FetchesAlone DEF RetryTimer
  <2>3. WebTypeOK'
    <3>1. Booleans'
      BY <1>4, <2>1 DEF RetryTimer, flagVars, WebInv, WebTypeOK, Booleans
    <3> QED BY <1>4, <2>1, <3>1 DEF RetryTimer, flagVars, WebInv, WebTypeOK, Booleans
  <2>4. OneStream' /\ NotBeforeInit'
    BY <1>4, <2>1 DEF RetryTimer, WebInv, WebTypeOK, OneStream, NotBeforeInit
  <2> QED BY <2>2, <2>3, <2>4 DEF WebInv
<1>5. CASE ContextChange
  <2>1. context' \in Contexts /\ fetchAll("context", context')
    BY <1>5 DEF ContextChange
  <2>2. /\ fetch' \in [Fetches -> {Idle} \union Sent] /\ doubt' \in BOOLEAN /\ flags' = flags
        /\ ~doubt' => \E f \in Fetches : /\ InFlight' = {f}
                                         /\ fetch'[f].context = context' /\ fetch'[f].answer = NoFlags
    BY <2>1, Fetched
  <2>3. WebTypeOK'
    BY <1>5, <2>1, <2>2 DEF ContextChange, streamVars, WebInv, WebTypeOK
  <2>4. OneStream' /\ NotBeforeInit'
    BY <1>5 DEF ContextChange, streamVars, WebInv, OneStream, NotBeforeInit
  <2>5. AloneUnlessInDoubt'
    BY <2>2 DEF AloneUnlessInDoubt
  <2>6. InFlightIsCurrent'
    BY <2>2 DEF InFlightIsCurrent
  <2> QED BY <2>3, <2>4, <2>5, <2>6 DEF WebInv
<1>6. CASE OnClose
  <2>1. AloneUnlessInDoubt' /\ InFlightIsCurrent'
    BY <1>6, FetchesAlone DEF OnClose
  <2>2. WebTypeOK'
    <3>1. Booleans'
      BY <1>6 DEF OnClose, flagVars, WebInv, WebTypeOK, Booleans
    <3> QED BY <1>6, <3>1 DEF OnClose, flagVars, WebInv, WebTypeOK, Booleans
  <2>3. OneStream' /\ NotBeforeInit'
    BY <1>6 DEF OnClose, OneStream, NotBeforeInit
  <2> QED BY <2>1, <2>2, <2>3 DEF WebInv
<1>7. ASSUME NEW f \in Fetches, Resolved(f) PROVE WebInv'
  <2>1. /\ fetch[f] \in Sent /\ fetch[f].answer \in Results /\ fetch[f].answer # NoFlags
        /\ fetch' = [fetch EXCEPT ![f] = Idle] /\ flags' = fetch[f].answer
    BY <1>7 DEF Resolved, InFlight, WebInv, WebTypeOK, Sent
  <2>2. InFlight' = InFlight \ {f} /\ \A g \in InFlight' : fetch'[g] = fetch[g]
    BY <2>1 DEF InFlight, WebInv, WebTypeOK
  <2>3. retry' \in 0 .. MaxRetries /\ delay' \in InitialDelay .. MaxDelay
    BY <1>7 DEF Resolved, resetConnectionState, WebInv, WebTypeOK, InitialDelay
  <2>4. Booleans'
    BY <1>7 DEF Resolved, resetConnectionState, WebInv, WebTypeOK, Booleans
  <2>5. init' \in {"idle", "pending", "done"} /\ status' \in {"NOT_READY", "READY", "ERROR"}
    BY <1>7 DEF Resolved, WebInv, WebTypeOK
  <2>6. fetch' \in [Fetches -> {Idle} \union Sent] /\ flags' \in {NoFlags} \union Results
    BY <2>1 DEF WebInv, WebTypeOK
  <2>7. WebTypeOK'
    BY <1>7, <2>3, <2>4, <2>5, <2>6 DEF Resolved, WebInv, WebTypeOK, Booleans
  <2>8. OneStream' /\ NotBeforeInit'
    BY <1>7 DEF Resolved, WebInv, OneStream, NotBeforeInit
  <2>9. AloneUnlessInDoubt'
    BY <1>7, <2>2 DEF Resolved, WebInv, AloneUnlessInDoubt
  <2>10. InFlightIsCurrent'
    <3> SUFFICES ASSUME serving, inbox = <<>>, ~doubt
                 PROVE  /\ InFlight' = {} => flags' = Current'
                        /\ \A g \in InFlight' :
                             fetch'[g].context = context' /\ fetch'[g].answer \in {NoFlags, Current}'
      BY <1>7 DEF Resolved, InFlightIsCurrent
    <3>1. fetch[f].answer = Current /\ f \in InFlight
      BY <1>7, <2>1 DEF Resolved, WebInv, InFlightIsCurrent
    <3>2. InFlight' = {}
      BY <2>2, <3>1 DEF WebInv, AloneUnlessInDoubt
    <3> QED BY <1>7, <2>1, <3>1, <3>2 DEF Resolved, Current
  <2> QED BY <2>7, <2>8, <2>9, <2>10 DEF WebInv
<1>8. ASSUME NEW f \in Fetches, Rejected(f) PROVE WebInv'
  <2>1. WebTypeOK'
    BY <1>8 DEF Rejected, streamVars, WebInv, WebTypeOK
  <2>2. OneStream' /\ NotBeforeInit'
    BY <1>8 DEF Rejected, streamVars, WebInv, OneStream, NotBeforeInit
  <2>3. AloneUnlessInDoubt' /\ InFlightIsCurrent'
    BY <1>8 DEF Rejected, AloneUnlessInDoubt, InFlightIsCurrent
  <2> QED BY <2>1, <2>2, <2>3 DEF WebInv
<1>9. ASSUME NEW f \in Fetches, ServerResolves(f) PROVE WebInv'
  <2> DEFINE result == [context |-> fetch[f].context, version |-> version]
  <2>1. fetch[f] \in Sent /\ result \in Results /\ fetch' = [fetch EXCEPT ![f].answer = result]
    BY <1>9 DEF ServerResolves, InFlight, WebInv, WebTypeOK, Sent, Results
  <2>2. fetch'[f] = [purpose |-> fetch[f].purpose, first |-> fetch[f].first,
                     context |-> fetch[f].context, answer |-> result]
    BY <2>1 DEF Sent, WebInv, WebTypeOK
  <2>3. fetch' \in [Fetches -> {Idle} \union Sent]
    <3>1. fetch'[f] \in Sent
      BY <2>1, <2>2 DEF Sent
    <3> QED BY <2>1, <3>1 DEF WebInv, WebTypeOK
  <2>4. InFlight' = InFlight
    <3>1. fetch'[f] # Idle /\ fetch[f] # Idle
      BY <2>1, <2>2 DEF Idle, Sent
    <3> QED BY <2>1, <3>1 DEF InFlight, WebInv, WebTypeOK
  <2>5. WebTypeOK'
    BY <1>9, <2>3 DEF ServerResolves, streamVars, WebInv, WebTypeOK
  <2>6. OneStream' /\ NotBeforeInit'
    BY <1>9 DEF ServerResolves, streamVars, WebInv, OneStream, NotBeforeInit
  <2>7. AloneUnlessInDoubt'
    BY <1>9, <2>4 DEF ServerResolves, WebInv, AloneUnlessInDoubt
  <2>8. InFlightIsCurrent'
    <3> SUFFICES ASSUME serving, inbox = <<>>, ~doubt
                 PROVE  /\ InFlight = {} => flags = Current
                        /\ \A g \in InFlight :
                             fetch'[g].context = context /\ fetch'[g].answer \in {NoFlags, Current}
      BY <1>9, <2>4 DEF ServerResolves, streamVars, InFlightIsCurrent, Current
    <3>1. \A g \in InFlight : g = f
      BY <1>9 DEF ServerResolves, WebInv, AloneUnlessInDoubt
    <3>2. fetch[f].context = context
      BY <1>9 DEF ServerResolves, WebInv, InFlightIsCurrent
    <3>3. InFlight # {}
      BY <1>9 DEF ServerResolves
    <3> QED BY <2>2, <3>1, <3>2, <3>3 DEF Current
  <2> QED BY <2>5, <2>6, <2>7, <2>8 DEF WebInv
<1>10. CASE ServerAccepts
  <2>1. inbox' \in Seq(Messages) /\ inbox' # <<>>
    BY <1>10 DEF ServerAccepts, Messages
  <2>2. AloneUnlessInDoubt' /\ InFlightIsCurrent'
    BY <1>10, <2>1, FetchesAlone DEF ServerAccepts
  <2>3. WebTypeOK'
    BY <1>10, <2>1 DEF ServerAccepts, flagVars, WebInv, WebTypeOK, Messages
  <2>4. OneStream' /\ NotBeforeInit'
    BY <1>10 DEF ServerAccepts, WebInv, OneStream, NotBeforeInit
  <2> QED BY <2>2, <2>3, <2>4 DEF WebInv
<1>11. CASE ServerChanges
  <2>1. /\ inbox' \in Seq(Messages) /\ (serving => inbox' # <<>>)
        /\ version' \in 0 .. MaxVersion
    <3>1. inbox \in Seq(Messages) /\ "configuration_change" \in Messages /\ version' = version + 1
          /\ inbox' = IF serving THEN Append(inbox, "configuration_change") ELSE inbox
      BY <1>11 DEF ServerChanges, WebInv, WebTypeOK, Messages
    <3>2. version' \in 0 .. MaxVersion
      BY <1>11, <3>1 DEF ServerChanges, WebInv, WebTypeOK
    <3> QED BY <3>1, <3>2, AppendProperties
  <2>2. InFlight' = InFlight
    BY <1>11 DEF ServerChanges, flagVars, InFlight
  <2>3. AloneUnlessInDoubt' /\ InFlightIsCurrent'
    BY <1>11, <2>1, <2>2 DEF ServerChanges, flagVars, WebInv, AloneUnlessInDoubt, InFlightIsCurrent
  <2>4. flags \in {NoFlags} \union Results /\ fetch \in [Fetches -> {Idle} \union Sent]
    BY DEF WebInv, WebTypeOK
  <2>5. WebTypeOK'
    BY <1>11, <2>1, <2>4 DEF ServerChanges, flagVars, WebInv, WebTypeOK, Messages
  <2>6. OneStream' /\ NotBeforeInit'
    BY <1>11 DEF ServerChanges, WebInv, OneStream, NotBeforeInit
  <2> QED BY <2>3, <2>5, <2>6 DEF WebInv
<1>12. CASE UNCHANGED webVars
  <2>1. AloneUnlessInDoubt' /\ InFlightIsCurrent'
    BY <1>12, FetchesAlone DEF webVars, streamVars, flagVars
  <2>2. WebTypeOK' /\ OneStream' /\ NotBeforeInit'
    BY <1>12 DEF webVars, streamVars, flagVars, WebInv, WebTypeOK, OneStream, NotBeforeInit
  <2> QED BY <2>1, <2>2 DEF WebInv
<1> QED BY <1>1, <1>2, <1>3, <1>4, <1>5, <1>6, <1>7, <1>8, <1>9, <1>10, <1>11, <1>12 DEF WebNext

(* However streams end, timers fire, contexts and flags change, there is one *)
(* stream or one timeout that opens it until the retries are used up, and    *)
(* evaluations that do not overlap leave the flags of the context in the SDK *)
(* and of the server's version (flagd-web-provider.ts:129-177).              *)
THEOREM FlagdWebKeepsUp == WebInit /\ [][WebNext]_webVars => []KeepsUp
BY WebInitInv, WebKeeps, WebInvImplies, PTL

-----------------------------------------------------------------------------
(* Lists: what is an element of them, and what is left of one without its    *)
(* i-th element.                                                             *)

In(e, s) == \E i \in DOMAIN s : s[i] = e
after(i, j) == IF j < i THEN j ELSE j + 1

LEMMA RemoveAtProperties ==
  ASSUME NEW S, NEW s \in Seq(S), NEW i \in DOMAIN s
  PROVE  /\ RemoveAt(s, i) \in Seq(S)
         /\ Len(RemoveAt(s, i)) = Len(s) - 1
         /\ \A j \in 1..(Len(s) - 1) : RemoveAt(s, i)[j] = s[after(i, j)]
<1>1. Len(s) \in Nat /\ i \in 1..Len(s) /\ \A j \in 1..Len(s) : s[j] \in S
  BY LenProperties, ElementOfSeq
<1> DEFINE n == Len(s)
           a == SubSeq(s, 1, i - 1)
           b == SubSeq(s, i + 1, n)
<1>2. a \in Seq(S) /\ b \in Seq(S)
  BY <1>1
<1>3. Len(a) = i - 1 /\ Len(b) = n - i
  BY <1>1
<1>4. /\ \A j \in 1..(i - 1) : a[j] = s[j]
      /\ \A j \in 1..(n - i) : b[j] = s[i + j]
  BY <1>1
<1>5. n \in Nat /\ i \in 1..n
  BY <1>1
<1>6. RemoveAt(s, i) = a \o b
  BY DEF RemoveAt
<1> HIDE DEF a, b, n
<1>7. /\ a \o b \in Seq(S) /\ Len(a \o b) = n - 1
      /\ \A j \in 1..(n - 1) : (a \o b)[j] = IF j <= i - 1 THEN a[j] ELSE b[j - (i - 1)]
  <2>1. /\ a \o b \in Seq(S) /\ Len(a \o b) = Len(a) + Len(b)
        /\ \A j \in 1..(Len(a) + Len(b)) : (a \o b)[j] = IF j <= Len(a) THEN a[j] ELSE b[j - Len(a)]
    BY <1>2, ConcatProperties
  <2>2. Len(a) + Len(b) = n - 1
    BY <1>3, <1>5
  <2> QED BY <2>1, <2>2, <1>3
<1>8. ASSUME NEW j \in 1..(n - 1) PROVE (a \o b)[j] = s[after(i, j)]
  <2>1. CASE j < i
    <3>1. j \in 1..(i - 1) /\ j <= i - 1
      BY <2>1, <1>5
    <3>2. a[j] = s[j]
      BY <3>1, <1>4
    <3> QED BY <2>1, <3>1, <3>2, <1>7 DEF after
  <2>2. CASE ~(j < i)
    <3>1. j - (i - 1) \in 1..(n - i) /\ i + (j - (i - 1)) = j + 1
      BY <2>2, <1>5
    <3>2. b[j - (i - 1)] = s[j + 1]
      BY <3>1, <1>4
    <3> QED BY <2>2, <3>2, <1>5, <1>7 DEF after
  <2> QED BY <2>1, <2>2
<1> QED BY <1>6, <1>7, <1>8 DEF n

(* Nothing but the i-th element goes.                                        *)
LEMMA Removed ==
  ASSUME NEW S, NEW s \in Seq(S), NEW i \in DOMAIN s, NEW r, r = RemoveAt(s, i)
  PROVE  /\ r \in Seq(S) /\ Len(r) = Len(s) - 1
         /\ \A j \in DOMAIN r : after(i, j) \in DOMAIN s \ {i} /\ r[j] = s[after(i, j)]
         /\ \A j, k \in DOMAIN r : after(i, j) = after(i, k) => j = k
         /\ \A e : In(e, r) <=> \E k \in DOMAIN s \ {i} : s[k] = e
<1>1. Len(s) \in Nat /\ DOMAIN s = 1..Len(s) /\ i \in 1..Len(s)
  BY LenProperties
<1>2. /\ r \in Seq(S) /\ Len(r) = Len(s) - 1 /\ DOMAIN r = 1..(Len(s) - 1)
      /\ \A j \in DOMAIN r : r[j] = s[after(i, j)]
  <2>1. /\ r \in Seq(S) /\ Len(r) = Len(s) - 1
        /\ \A j \in 1..(Len(s) - 1) : r[j] = s[after(i, j)]
    BY RemoveAtProperties
  <2>2. DOMAIN r = 1..(Len(s) - 1)
    BY <2>1, LenProperties
  <2> QED BY <2>1, <2>2
<1>3. ASSUME NEW j \in DOMAIN r PROVE after(i, j) \in DOMAIN s \ {i}
  <2>1. j \in 1..(Len(s) - 1)
    BY <1>2
  <2>2. after(i, j) \in 1..Len(s) /\ after(i, j) # i
    BY <2>1, <1>1 DEF after
  <2> QED BY <2>2, <1>1
<1>4. ASSUME NEW j \in DOMAIN r, NEW k \in DOMAIN r, after(i, j) = after(i, k) PROVE j = k
  <2>1. j \in Int /\ k \in Int /\ i \in Int
    BY <1>1, <1>2
  <2> QED BY <2>1, <1>4 DEF after
<1>5. ASSUME NEW k \in DOMAIN s \ {i} PROVE \E j \in DOMAIN r : after(i, j) = k
  <2>1. CASE k < i
    <3>1. k \in DOMAIN r /\ after(i, k) = k
      BY <2>1, <1>1, <1>2 DEF after
    <3> QED BY <3>1
  <2>2. CASE ~(k < i)
    <3>1. k - 1 \in DOMAIN r /\ after(i, k - 1) = k
      BY <2>2, <1>1, <1>2 DEF after
    <3> QED BY <3>1
  <2> QED BY <2>1, <2>2
<1>6. \A e : In(e, r) <=> \E k \in DOMAIN s \ {i} : s[k] = e
  BY <1>2, <1>3, <1>5 DEF In
<1> QED BY <1>2, <1>3, <1>4, <1>6

-----------------------------------------------------------------------------
(* The cache of the debounce hook                                            *)

Entry == [key : Keys, value : [Stages -> Outcome], expiry : Nat]
Unique(entries) == \A i, j \in DOMAIN entries : entries[i].key = entries[j].key => i = j

LEMMA ElementsTyped ==
  ASSUME NEW S, NEW s \in Seq(S)
  PROVE  (\A i \in DOMAIN s : s[i] \in S) /\ (\A e : In(e, s) => e \in S)
<1>1. DOMAIN s = 1..Len(s)
  BY LenProperties
<1>2. \A i \in DOMAIN s : s[i] \in S
  BY <1>1, ElementOfSeq
<1> QED BY <1>2 DEF In

LEMMA EntriesTyped ==
  ASSUME NEW entries \in Seq(Entry)
  PROVE  /\ keys(entries) \subseteq Keys
         /\ \A e : In(e, entries) => e.key \in Keys /\ e.expiry \in Nat /\ e.value \in [Stages -> Outcome]
<1>1. (\A i \in DOMAIN entries : entries[i] \in Entry) /\ (\A e : In(e, entries) => e \in Entry)
  BY ElementsTyped, Zenon
<1>2. \A e \in Entry : e.key \in Keys /\ e.expiry \in Nat /\ e.value \in [Stages -> Outcome]
  BY DEF Entry
<1> QED BY <1>1, <1>2, Zenon DEF keys

(* An entry is found by its key, and removed by it.                          *)
LEMMA Found ==
  ASSUME NEW entries \in Seq(Entry), Unique(entries), NEW k \in keys(entries)
  PROVE  /\ place(entries, k) \in DOMAIN entries
         /\ In(find(entries, k), entries) /\ find(entries, k).key = k
         /\ \A e : In(e, entries) /\ e.key = k => e = find(entries, k)
<1>1. \E i \in DOMAIN entries : entries[i].key = k
  BY DEF keys
<1>2. place(entries, k) \in DOMAIN entries /\ entries[place(entries, k)].key = k
  BY <1>1 DEF place
<1>3. ASSUME NEW e, In(e, entries), e.key = k PROVE e = find(entries, k)
  BY <1>2, <1>3 DEF In, find, Unique
<1> QED BY <1>2, <1>3 DEF In, find

LEMMA Without ==
  ASSUME NEW entries \in Seq(Entry), Unique(entries), NEW k, NEW w, w = without(entries, k)
  PROVE  /\ w \in Seq(Entry) /\ Unique(w)
         /\ Len(w) = IF k \in keys(entries) THEN Len(entries) - 1 ELSE Len(entries)
         /\ \A e : In(e, w) <=> In(e, entries) /\ e.key # k
<1>1. CASE k \in keys(entries)
  <2> DEFINE i == place(entries, k)
  <2>1. i \in DOMAIN entries /\ w = RemoveAt(entries, i) /\ entries[i].key = k
    BY <1>1, Found DEF without, find
  <2> HIDE DEF i
  <2>2. /\ w \in Seq(Entry) /\ Len(w) = Len(entries) - 1
        /\ \A j \in DOMAIN w : after(i, j) \in DOMAIN entries \ {i} /\ w[j] = entries[after(i, j)]
        /\ \A j, m \in DOMAIN w : after(i, j) = after(i, m) => j = m
        /\ \A e : In(e, w) <=> \E m \in DOMAIN entries \ {i} : entries[m] = e
    BY <2>1, Removed
  <2>3. Unique(w)
    BY <2>2 DEF Unique
  <2>4. \A e : In(e, w) <=> In(e, entries) /\ e.key # k
    BY <2>1, <2>2 DEF In, Unique
  <2> QED BY <1>1, <2>2, <2>3, <2>4
<1>2. CASE k \notin keys(entries)
  BY <1>2 DEF without, keys, In
<1> QED BY <1>1, <1>2

LEMMA Appended ==
  ASSUME NEW entries \in Seq(Entry), Unique(entries), NEW e \in Entry, e.key \notin keys(entries),
         NEW r, r = Append(entries, e)
  PROVE  /\ r \in Seq(Entry) /\ Unique(r) /\ Len(r) = Len(entries) + 1
         /\ \A d : In(d, r) <=> In(d, entries) \/ d = e
<1>1. /\ r \in Seq(Entry) /\ Len(r) = Len(entries) + 1 /\ Len(entries) \in Nat
      /\ DOMAIN r = 1..(Len(entries) + 1) /\ DOMAIN entries = 1..Len(entries)
      /\ \A i \in DOMAIN entries : r[i] = entries[i]
      /\ r[Len(entries) + 1] = e
  BY AppendProperties, LenProperties
<1>2. \A i \in DOMAIN r : i \in DOMAIN entries \/ i = Len(entries) + 1
  BY <1>1
<1>3. \A i \in DOMAIN entries : entries[i].key # e.key
  BY DEF keys
<1>4. Unique(r)
  BY <1>1, <1>2, <1>3 DEF Unique
<1>5. \A d : In(d, r) <=> In(d, entries) \/ d = e
  BY <1>1, <1>2 DEF In
<1> QED BY <1>1, <1>4, <1>5

LEMMA Behind ==
  ASSUME NEW entries \in Seq(Entry), Unique(entries), entries # <<>>, NEW r, r = Tail(entries)
  PROVE  /\ r \in Seq(Entry) /\ Unique(r) /\ Len(r) = Len(entries) - 1
         /\ \A d : In(d, r) => In(d, entries)
<1>1. /\ r \in Seq(Entry) /\ Len(r) = Len(entries) - 1
      /\ \A i \in 1..Len(r) : r[i] = entries[i + 1]
  BY HeadTailProperties
<1>2. Len(entries) \in Nat /\ DOMAIN entries = 1..Len(entries) /\ DOMAIN r = 1..Len(r)
  BY <1>1, LenProperties
<1>3. \A i \in DOMAIN r : i + 1 \in DOMAIN entries /\ r[i] = entries[i + 1]
  BY <1>1, <1>2
<1>4. Unique(r)
  <2> SUFFICES ASSUME NEW i \in DOMAIN r, NEW j \in DOMAIN r, r[i].key = r[j].key PROVE i = j
    BY DEF Unique
  <2>1. i + 1 = j + 1
    BY <1>3 DEF Unique
  <2> QED BY <2>1, <1>1, <1>2
<1>5. \A d : In(d, r) => In(d, entries)
  BY <1>3 DEF In
<1> QED BY <1>1, <1>4, <1>5

(* What get() leaves: everything but an expired entry of the key.            *)
LEMMA AfterGet ==
  ASSUME cache \in Seq(Entry), Unique(cache), NEW k
  PROVE  /\ afterGet(k) \in Seq(Entry) /\ Unique(afterGet(k))
         /\ Len(afterGet(k)) <= Len(cache)
         /\ \A e : In(e, afterGet(k)) <=> In(e, cache) /\ (e.key = k => isLive(e))
<1>0. Len(cache) \in Nat
  BY LenProperties
<1>1. CASE k \in keys(cache) /\ ~isLive(find(cache, k))
  <2> DEFINE w == without(cache, k)
  <2>1. /\ w \in Seq(Entry) /\ Unique(w) /\ Len(w) = Len(cache) - 1
        /\ \A e : In(e, w) <=> In(e, cache) /\ e.key # k
    BY <1>1, Without
  <2>2. afterGet(k) = w
    BY <1>1 DEF afterGet
  <2>3. \A e : In(e, cache) /\ e.key = k => ~isLive(e)
    BY <1>1, Found, Zenon
  <2> HIDE DEF w
  <2>4. \A e : In(e, w) <=> In(e, cache) /\ (e.key = k => isLive(e))
    BY <2>1, <2>3, Zenon
  <2> QED BY <1>0, <2>1, <2>2, <2>4
<1>2. CASE ~(k \in keys(cache) /\ ~isLive(find(cache, k)))
  <2>1. afterGet(k) = cache
    BY <1>2 DEF afterGet
  <2>2. ASSUME NEW e, In(e, cache), e.key = k PROVE isLive(e)
    <3>1. k \in keys(cache)
      BY <2>2 DEF In, keys
    <3> QED BY <1>2, <2>2, <3>1, Found, Zenon
  <2> QED BY <1>0, <2>1, <2>2
<1> QED BY <1>1, <1>2

(* What get() returns: the value of the live entry of the key, if any.       *)
LEMMA Got ==
  ASSUME cache \in Seq(Entry), Unique(cache), NEW k
  PROVE  /\ got(k) \in [Stages -> Outcome]
         /\ \A e : In(e, cache) /\ e.key = k /\ isLive(e) => got(k) = e.value
         /\ got(k) = Nothing \/ \E e : In(e, cache) /\ e.key = k /\ isLive(e) /\ got(k) = e.value
<1>1. None \in Outcome /\ Nothing \in [Stages -> Outcome]
  BY TimesNat DEF None, Nothing, Outcome
<1>2. \A e : In(e, cache) => e \in Entry
  BY ElementOfSeq, LenProperties DEF In
<1>3. CASE k \in keys(cache) /\ isLive(find(cache, k))
  <2>1. got(k) = find(cache, k).value
    BY <1>3 DEF got
  <2>2. /\ In(find(cache, k), cache) /\ find(cache, k).key = k
        /\ \A e : In(e, cache) /\ e.key = k => e = find(cache, k)
    BY <1>3, Found
  <2>3. find(cache, k).value \in [Stages -> Outcome]
    BY <1>2, <2>2 DEF Entry
  <2> QED BY <1>3, <2>1, <2>2, <2>3
<1>4. CASE ~(k \in keys(cache) /\ isLive(find(cache, k)))
  <2>1. got(k) = Nothing
    BY <1>4 DEF got
  <2>2. ASSUME NEW e, In(e, cache), e.key = k PROVE ~isLive(e)
    <3>1. k \in keys(cache)
      BY <2>2 DEF In, keys
    <3> QED BY <1>4, <2>2, <3>1, Found, Zenon
  <2> QED BY <1>1, <2>1, <2>2
<1> QED BY <1>3, <1>4

(* What set() leaves: the new entry, and of the others all whose keys are    *)
(* there still.                                                              *)
LEMMA SetKeeps ==
  ASSUME NEW entries \in Seq(Entry), Unique(entries), Len(entries) <= maxItems, maxItems \in Nat \ {0},
         now \in Nat, NEW k \in Keys, NEW value \in [Stages -> Outcome],
         NEW new, new = [key |-> k, value |-> value, expiry |-> now + DebounceTime],
         NEW r, r = set(entries, k, value)
  PROVE  /\ r \in Seq(Entry) /\ Unique(r) /\ Len(r) <= maxItems
         /\ In(new, r)
         /\ \A e : In(e, r) => e = new \/ (In(e, entries) /\ e.key # k)
         /\ \A e : In(e, entries) /\ e.key # k /\ e.key \in keys(r) => In(e, r)
<1> DEFINE full == k \notin keys(entries) /\ Len(entries) >= maxItems
           room == IF full THEN Tail(entries) ELSE entries
           w == without(room, k)
<1>0. Len(entries) \in Nat /\ (entries = <<>> => Len(entries) = 0)
  BY LenProperties, EmptySeq
<1>1. /\ room \in Seq(Entry) /\ Unique(room)
      /\ Len(room) = IF full THEN Len(entries) - 1 ELSE Len(entries)
      /\ \A e : In(e, room) => In(e, entries)
  <2>1. CASE full
    <3>1. entries # <<>>
      BY <1>0, <2>1
    <3> QED BY <2>1, <3>1, Behind
  <2>2. CASE ~full
    BY <2>2
  <2> QED BY <2>1, <2>2
<1>2. k \in keys(entries) => k \in keys(room)
  OBVIOUS
<1> HIDE DEF room
<1>3. /\ w \in Seq(Entry) /\ Unique(w)
      /\ Len(w) = IF k \in keys(room) THEN Len(room) - 1 ELSE Len(room)
      /\ \A e : In(e, w) <=> In(e, room) /\ e.key # k
  BY <1>1, Without
<1> HIDE DEF w
<1>4. new \in Entry /\ new.key = k
  BY TimesNat DEF Entry
<1>5. new.key \notin keys(w)
  BY <1>3, <1>4 DEF In, keys
<1>6. r = Append(w, new)
  BY DEF set, room, w
<1>7. /\ r \in Seq(Entry) /\ Unique(r) /\ Len(r) = Len(w) + 1
      /\ \A d : In(d, r) <=> In(d, w) \/ d = new
  <2>1. w \in Seq(Entry) /\ Unique(w)
    BY <1>3
  <2>2. new \in Entry
    BY <1>4
  <2>3. \A e \in Entry : e.key \notin keys(w) =>
          \A t : t = Append(w, e) =>
            /\ t \in Seq(Entry) /\ Unique(t) /\ Len(t) = Len(w) + 1
            /\ \A d : In(d, t) <=> In(d, w) \/ d = e
    BY <2>1, Appended
  <2> QED BY <2>2, <2>3, <1>5, <1>6, Zenon
<1>8. Len(r) <= maxItems
  <2>1. CASE k \in keys(entries)
    BY <1>0, <1>1, <1>2, <1>3, <1>7, <2>1
  <2>2. CASE full
    <3>1. Len(room) = Len(entries) - 1 /\ Len(w) <= Len(room)
      BY <1>0, <1>1, <1>3, <2>2
    <3> QED BY <1>0, <1>7, <3>1
  <2>3. CASE k \notin keys(entries) /\ ~full
    <3>1. Len(room) = Len(entries) /\ Len(w) <= Len(room)
      BY <1>0, <1>1, <1>3, <2>3
    <3> QED BY <1>0, <1>7, <2>3, <3>1
  <2> QED BY <2>1, <2>2, <2>3
<1>9. ASSUME NEW e, In(e, entries), e.key # k, e.key \in keys(r) PROVE In(e, r)
  <2>1. PICK d : In(d, r) /\ d.key = e.key
    BY <1>9 DEF keys, In
  <2>2. In(d, entries)
    BY <1>1, <1>3, <1>4, <1>7, <1>9, <2>1
  <2>3. d = e
    BY <1>9, <2>1, <2>2 DEF In, Unique
  <2> QED BY <2>1, <2>3
<1> QED BY <1>1, <1>3, <1>4, <1>7, <1>8, <1>9

-----------------------------------------------------------------------------
(* The invariant of the debounce hook                                        *)

CacheInv == cache \in Seq(Entry) /\ Unique(cache) /\ Len(cache) <= maxItems

TypesInv ==
  /\ now \in 0..MaxTime
  /\ async \in BOOLEAN /\ cacheErrors \in BOOLEAN
  /\ maxItems \in 1..Cardinality(Keys)
  /\ running \in Seq([key : Keys, stage : Stages, got : [Stages -> Outcome]])
  /\ last \in [Keys -> [Stages -> Outcome]]
  /\ evicted \subseteq Keys \X Stages

(* What an entry keeps of a stage is how its last run ended, or nothing.     *)
EntriesRepeat ==
  \A e : In(e, cache) =>
    \A s \in Stages : /\ e.value[s] = None \/ e.value[s] = last[e.key][s]
                      /\ e.value[s].threw => cacheErrors

(* A run that succeeded is kept until the debounce time is over.             *)
RunsAreKept ==
  \A k \in Keys, s \in Stages :
    LET run == last[k][s]
    IN run # None /\ ~run.threw /\ <<k, s>> \notin evicted =>
         \/ now >= run.at + DebounceTime
         \/ \E e : /\ In(e, cache) /\ e.key = k /\ e.value[s] = run
                  /\ e.expiry >= run.at + DebounceTime

RunsArePast == \A k \in Keys, s \in Stages : last[k][s].at <= now

DebounceInv ==
  /\ TypesInv /\ CacheInv /\ RunsArePast
  /\ ~async => EntriesRepeat /\ RunsAreKept /\ SkipRepeatsLastRun /\ running = <<>>

LEMMA KeysCounted ==
  ASSUME NEW entries \in Seq(Entry), Unique(entries)
  PROVE  Cardinality(keys(entries)) = Len(entries)
<1> DEFINE n == Len(entries)
           f == [i \in 1..n |-> entries[i].key]
<1>1. n \in Nat /\ DOMAIN entries = 1..n
  BY LenProperties
<1>2. f \in Bijection(1..n, keys(entries))
  <2>1. f \in [1..n -> keys(entries)]
    BY <1>1 DEF keys
  <2>2. \A i, j \in 1..n : f[i] = f[j] => i = j
    BY <1>1 DEF Unique
  <2>3. \A k \in keys(entries) : \E i \in 1..n : f[i] = k
    BY <1>1 DEF keys
  <2> QED BY <2>1, <2>2, <2>3, Fun_IsBij
<1>3. ExistsBijection(1..n, keys(entries))
  BY <1>2 DEF ExistsBijection
<1> QED BY <1>1, <1>3, FS_CountingElements

LEMMA DebounceInvImplies == DebounceInv => TypeOK /\ SkipRepeatsLastRun
<1> SUFFICES ASSUME DebounceInv PROVE TypeOK /\ SkipRepeatsLastRun OBVIOUS
<1>1. Cardinality(keys(cache)) = Len(cache)
  BY KeysCounted DEF DebounceInv, CacheInv
<1>2. TypeOK
  BY <1>1 DEF DebounceInv, TypesInv, CacheInv, TypeOK, Entry
<1>3. SkipRepeatsLastRun
  BY DEF DebounceInv, SkipRepeatsLastRun
<1> QED BY <1>2, <1>3

LEMMA DebounceInitInv == Init => DebounceInv
<1> SUFFICES ASSUME Init PROVE DebounceInv OBVIOUS
<1>1. None \in Outcome /\ Nothing \in [Stages -> Outcome]
  BY TimesNat DEF None, Nothing, Outcome
<1>2. cache \in Seq(Entry) /\ Len(cache) = 0 /\ DOMAIN cache = {}
  BY DEF Init
<1>3. Cardinality(Keys) \in Nat
  BY KeysFinite, FS_CardinalityType
<1>4. TypesInv
  BY <1>1, <1>3, TimesNat DEF Init, TypesInv
<1>5. CacheInv
  BY <1>2, <1>3 DEF Init, CacheInv, Unique
<1>6. \A k \in Keys, s \in Stages : last[k][s] = None
  BY DEF Init, Nothing
<1>7. RunsArePast /\ RunsAreKept
  BY <1>6 DEF Init, RunsArePast, RunsAreKept, None
<1>8. EntriesRepeat /\ SkipRepeatsLastRun
  BY <1>2 DEF Init, EntriesRepeat, In, SkipRepeatsLastRun
<1>9. running = <<>>
  BY DEF Init
<1> QED BY <1>4, <1>5, <1>7, <1>8, <1>9 DEF DebounceInv

(* A skipped stage repeats what the live entry of its key kept.              *)
LEMMA SkipKeeps ==
  ASSUME DebounceInv, NEW k \in Keys, NEW s \in Stages, Skip(k, s) PROVE DebounceInv'
<1>1. UNCHANGED << now, options, cache, running, last, evicted >> /\ skipped' = << k, s, got(k)[s] >>
  BY DEF Skip, cachedStage
<1>2. TypesInv' /\ CacheInv' /\ RunsArePast' /\ async' = async
  BY <1>1 DEF DebounceInv, TypesInv, CacheInv, RunsArePast, options
<1>3. ~async => EntriesRepeat' /\ RunsAreKept' /\ running' = <<>>
  BY <1>1 DEF DebounceInv, EntriesRepeat, RunsAreKept, options
<1>4. ASSUME ~async PROVE SkipRepeatsLastRun'
  <2>1. got(k)[s] # None
    BY DEF Skip, cachedStage
  <2>2. PICK e : In(e, cache) /\ e.key = k /\ got(k) = e.value
    BY <2>1, Got DEF DebounceInv, CacheInv, Nothing
  <2>3. got(k)[s] = last[k][s] /\ (got(k)[s].threw => cacheErrors)
    BY <1>4, <2>1, <2>2 DEF DebounceInv, EntriesRepeat
  <2> QED BY <1>1, <2>3 DEF SkipRepeatsLastRun, options
<1> QED BY <1>2, <1>3, <1>4 DEF DebounceInv

(* What cacheSuccess and cacheError leave of a list of entries.              *)
entryOf(k, s, cached, threw) ==
  [key |-> k, value |-> [cached EXCEPT ![s] = [at |-> now, threw |-> threw]],
   expiry |-> now + DebounceTime]

LEMMA CachedRunTyped ==
  ASSUME TypesInv, NEW entries \in Seq(Entry), Unique(entries), Len(entries) <= maxItems,
         NEW k \in Keys, NEW s \in Stages, NEW cached \in [Stages -> Outcome], NEW threw \in BOOLEAN,
         NEW r, r = cachedRun(entries, k, s, cached, threw)
  PROVE  /\ r \in Seq(Entry) /\ Unique(r) /\ Len(r) <= maxItems
         /\ threw /\ ~cacheErrors => r = entries
         /\ ~(threw /\ ~cacheErrors) =>
              /\ In(entryOf(k, s, cached, threw), r)
              /\ \A e : In(e, r) => e = entryOf(k, s, cached, threw) \/ (In(e, entries) /\ e.key # k)
         /\ \A e : In(e, entries) /\ e.key # k /\ e.key \in keys(r) => In(e, r)
<1>1. CASE threw /\ ~cacheErrors
  BY <1>1 DEF cachedRun
<1>2. CASE ~(threw /\ ~cacheErrors)
  <2> DEFINE value == [cached EXCEPT ![s] = [at |-> now, threw |-> threw]]
             new == [key |-> k, value |-> value, expiry |-> now + DebounceTime]
  <2>1. r = set(entries, k, value)
    BY <1>2 DEF cachedRun
  <2>2. now \in Nat /\ maxItems \in Nat \ {0} /\ [at |-> now, threw |-> threw] \in Outcome
    BY KeysFinite, FS_CardinalityType, TimesNat DEF TypesInv, Outcome
  <2>3. value \in [Stages -> Outcome]
    BY <2>2
  <2> HIDE DEF value
  <2>4. /\ r \in Seq(Entry) /\ Unique(r) /\ Len(r) <= maxItems
        /\ In(new, r)
        /\ \A e : In(e, r) => e = new \/ (In(e, entries) /\ e.key # k)
        /\ \A e : In(e, entries) /\ e.key # k /\ e.key \in keys(r) => In(e, r)
    BY <2>1, <2>2, <2>3, SetKeeps
  <2>5. new = entryOf(k, s, cached, threw)
    BY DEF entryOf, value
  <2> HIDE DEF new
  <2> QED BY <1>2, <2>4, <2>5
<1> QED BY <1>1, <1>2

LEMMA RunSyncKeeps ==
  ASSUME DebounceInv, NEW k \in Keys, NEW s \in Stages, RunSync(k, s) PROVE DebounceInv'
<1>1. PICK threw \in BOOLEAN : /\ cache' = cachedRun(afterGet(k), k, s, got(k), threw)
                              /\ ended(k, s, threw)
  BY DEF RunSync
<1>2. UNCHANGED << now, options, running >> /\ skipped' = NoSkip /\ ~async /\ got(k)[s] = None
  BY DEF RunSync, cachedStage
<1>3. TypesInv /\ CacheInv /\ cache \in Seq(Entry) /\ Unique(cache) /\ Len(cache) \in Nat
      /\ Len(cache) <= maxItems /\ maxItems \in Nat /\ now \in Nat
  BY LenProperties, KeysFinite, FS_CardinalityType DEF DebounceInv, CacheInv, TypesInv
<1> DEFINE kept == afterGet(k)
           run == [at |-> now, threw |-> threw]
           new == entryOf(k, s, got(k), threw)
<1>4. /\ kept \in Seq(Entry) /\ Unique(kept) /\ Len(kept) <= Len(cache)
      /\ \A e : In(e, kept) <=> In(e, cache) /\ (e.key = k => isLive(e))
  BY <1>3, AfterGet
<1>5. /\ got(k) \in [Stages -> Outcome]
      /\ \A e : In(e, cache) /\ e.key = k /\ isLive(e) => got(k) = e.value
      /\ got(k) = Nothing \/ \E e : In(e, cache) /\ e.key = k /\ isLive(e) /\ got(k) = e.value
  BY <1>3, Got
<1>6. cache' = cachedRun(kept, k, s, got(k), threw)
  BY <1>1
<1>7. Len(kept) \in Nat /\ Len(kept) <= maxItems
  BY <1>3, <1>4, LenProperties
<1> HIDE DEF kept
<1>8. /\ cache' \in Seq(Entry) /\ Unique(cache') /\ Len(cache') <= maxItems
      /\ threw /\ ~cacheErrors => cache' = kept
      /\ ~(threw /\ ~cacheErrors) =>
           /\ In(new, cache')
           /\ \A e : In(e, cache') => e = new \/ (In(e, kept) /\ e.key # k)
      /\ \A e : In(e, kept) /\ e.key # k /\ e.key \in keys(cache') => In(e, cache')
  <2>1. TypesInv /\ kept \in Seq(Entry) /\ Unique(kept) /\ Len(kept) <= maxItems
    BY <1>3, <1>4, <1>7
  <2>2. got(k) \in [Stages -> Outcome]
    BY <1>5
  <2> QED BY <2>1, <2>2, <1>6, CachedRunTyped
<1> HIDE DEF new
<1>10. /\ last' = [last EXCEPT ![k][s] = run] /\ run \in Outcome
      /\ last'[k][s] = run
      /\ \A l \in Keys, t \in Stages : <<l, t>> # <<k, s>> => last'[l][t] = last[l][t]
  <2>1. last' = [last EXCEPT ![k][s] = run]
    BY <1>1 DEF ended
  <2> QED BY <2>1, <1>3, TimesNat DEF TypesInv, Outcome
<1>9. new = [key |-> k, value |-> [got(k) EXCEPT ![s] = run], expiry |-> now + DebounceTime]
  BY DEF new, entryOf
<1>11. /\ evicted' \subseteq Keys \X Stages
       /\ \A l \in Keys, t \in Stages : <<l, t>> \notin evicted' =>
            /\ <<l, t>> # <<k, s>> => <<l, t>> \notin evicted
            /\ l # k /\ l \in keys(cache) => l \in keys(cache')
  <2>1. evicted' = (evicted \ {<<k, s>>}) \union (((keys(cache) \ {k}) \ keys(cache')) \X Stages)
    BY DEF RunSync, tracked
  <2>2. keys(cache) \subseteq Keys
    BY <1>3, EntriesTyped
  <2> QED BY <2>1, <2>2, <1>3 DEF TypesInv
<1>12. TypesInv'
  BY <1>2, <1>3, <1>10, <1>11 DEF TypesInv, options
<1>13. CacheInv'
  BY <1>2, <1>8 DEF CacheInv, options
<1>14. RunsArePast'
  <2> SUFFICES ASSUME NEW l \in Keys, NEW t \in Stages PROVE last'[l][t].at <= now
    BY <1>2 DEF RunsArePast
  <2>1. CASE <<l, t>> = <<k, s>>
    BY <1>3, <1>10, <2>1
  <2>2. CASE <<l, t>> # <<k, s>>
    BY <1>10, <2>2 DEF DebounceInv, RunsArePast
  <2> QED BY <2>1, <2>2
<1>15. EntriesRepeat'
  <2> SUFFICES ASSUME NEW e, In(e, cache'), NEW t \in Stages
               PROVE  /\ e.value[t] = None \/ e.value[t] = last'[e.key][t]
                      /\ e.value[t].threw => cacheErrors
    BY <1>2 DEF EntriesRepeat, options
  <2>1. EntriesRepeat
    BY <1>2 DEF DebounceInv
  <2>2. None.threw = FALSE
    BY DEF None
  <2>3. CASE In(e, kept) /\ e.key # k
    <3>1. In(e, cache) /\ e.key \in Keys
      BY <1>3, <1>4, <2>3, EntriesTyped
    <3>2. last'[e.key][t] = last[e.key][t]
      BY <1>10, <2>3, <3>1
    <3> QED BY <2>1, <3>1, <3>2 DEF EntriesRepeat
  <2>4. CASE In(e, kept) /\ e.key = k
    <3>1. In(e, cache) /\ got(k) = e.value
      BY <1>4, <1>5, <2>4
    <3>2. t # s => last'[k][t] = last[k][t]
      BY <1>10
    <3> QED BY <1>2, <2>1, <2>2, <2>4, <3>1, <3>2 DEF EntriesRepeat
  <2>5. CASE ~In(e, kept)
    <3>1. ~(threw /\ ~cacheErrors)
      BY <1>8, <2>5
    <3>2. e = [key |-> k, value |-> [got(k) EXCEPT ![s] = run], expiry |-> now + DebounceTime]
      BY <1>9, <1>8, <2>5, <3>1
    <3>3. e.key = k /\ e.value = [got(k) EXCEPT ![s] = run]
      BY <3>2
    <3>4. CASE t = s
      <4>1. e.value[t] = run
        BY <1>5, <3>3, <3>4
      <4> QED BY <1>10, <3>1, <3>3, <3>4, <4>1
    <3>5. CASE t # s
      <4>1. e.value[t] = got(k)[t] /\ last'[k][t] = last[k][t]
        BY <1>5, <1>10, <3>3, <3>5
      <4>2. got(k)[t] = None \/ \E d : In(d, cache) /\ d.key = k /\ got(k) = d.value
        BY <1>5 DEF Nothing
      <4> QED BY <2>1, <2>2, <3>3, <4>1, <4>2 DEF EntriesRepeat
    <3> QED BY <3>4, <3>5
  <2> QED BY <2>3, <2>4, <2>5
<1>16. RunsAreKept'
  <2> SUFFICES ASSUME NEW l \in Keys, NEW t \in Stages, last'[l][t] # None, ~last'[l][t].threw,
                      <<l, t>> \notin evicted'
               PROVE  \/ now >= last'[l][t].at + DebounceTime
                      \/ \E e : /\ In(e, cache') /\ e.key = l /\ e.value[t] = last'[l][t]
                               /\ e.expiry >= last'[l][t].at + DebounceTime
    BY <1>2 DEF RunsAreKept
  <2>1. CASE <<l, t>> = <<k, s>>
    <3>1. last'[l][t] = run /\ ~threw
      BY <1>10, <2>1
    <3>2. In(new, cache')
      BY <1>8, <3>1
    <3>3. new.key = l /\ new.value[t] = run /\ new.expiry = now + DebounceTime
      BY <1>9, <1>5, <2>1
    <3>4. last'[l][t].at = now /\ new.expiry >= last'[l][t].at + DebounceTime
      BY <1>3, <3>1, <3>3, TimesNat
    <3> QED BY <3>1, <3>2, <3>3, <3>4
  <2>2. CASE <<l, t>> # <<k, s>>
    <3>1. last'[l][t] = last[l][t] /\ <<l, t>> \notin evicted
      BY <1>10, <1>11, <2>2
    <3>2. \/ now >= last[l][t].at + DebounceTime
          \/ \E e : /\ In(e, cache) /\ e.key = l /\ e.value[t] = last[l][t]
                   /\ e.expiry >= last[l][t].at + DebounceTime
      BY <1>2, <3>1 DEF DebounceInv, RunsAreKept
    <3>3. last[l][t].at \in Int /\ last[l][t].at <= now
      BY <1>3 DEF DebounceInv, TypesInv, Outcome, RunsArePast
    <3>4. ASSUME NEW e, In(e, cache), e.key = l, e.value[t] = last[l][t],
                 e.expiry >= last[l][t].at + DebounceTime
          PROVE  \/ now >= last[l][t].at + DebounceTime
                 \/ \E d : /\ In(d, cache') /\ d.key = l /\ d.value[t] = last[l][t]
                          /\ d.expiry >= last[l][t].at + DebounceTime
      <4>1. e.expiry \in Nat
        BY <1>3, <3>4, EntriesTyped
      <4>2. CASE l # k
        <5>1. In(e, kept) /\ e.key \in keys(cache')
          BY <1>4, <1>11, <3>4, <4>2 DEF In, keys
        <5> QED BY <1>8, <3>4, <4>2, <5>1
      <4>3. CASE l = k /\ ~isLive(e)
        BY <1>3, <3>3, <3>4, <4>1, <4>3, TimesNat DEF isLive
      <4>4. CASE l = k /\ isLive(e) /\ threw /\ ~cacheErrors
        BY <1>4, <1>8, <3>4, <4>4
      <4>5. CASE l = k /\ isLive(e) /\ ~(threw /\ ~cacheErrors)
        <5>1. In(new, cache')
          BY <1>8, <4>5
        <5>2. got(k) = e.value /\ t # s
          BY <1>5, <2>2, <3>4, <4>5
        <5>3. new.key = l /\ new.value[t] = last[l][t] /\ new.expiry = now + DebounceTime
          BY <1>9, <1>5, <3>4, <4>5, <5>2
        <5>4. new.expiry >= last[l][t].at + DebounceTime
          BY <1>3, <3>3, <5>3, TimesNat
        <5> QED BY <5>1, <5>3, <5>4
      <4> QED BY <4>2, <4>3, <4>4, <4>5
    <3> QED BY <3>1, <3>2, <3>4
  <2> QED BY <2>1, <2>2
<1>17. SkipRepeatsLastRun'
  BY <1>2 DEF SkipRepeatsLastRun
<1> QED BY <1>2, <1>12, <1>13, <1>14, <1>15, <1>16, <1>17 DEF DebounceInv

(* A hook that returns promises moves only the cache and the list of runs.   *)
LEMMA AsyncKeeps ==
  ASSUME DebounceInv, async, UNCHANGED << now, options, last, evicted >>,
         running' \in Seq([key : Keys, stage : Stages, got : [Stages -> Outcome]]), CacheInv'
  PROVE  DebounceInv'
<1>1. async' /\ TypesInv'
  BY DEF DebounceInv, TypesInv, options
<1>2. RunsArePast'
  BY DEF DebounceInv, RunsArePast
<1> QED BY <1>1, <1>2 DEF DebounceInv

LEMMA RunAsyncKeeps ==
  ASSUME DebounceInv, NEW k \in Keys, NEW s \in Stages, RunAsync(k, s) PROVE DebounceInv'
<1>1. cache \in Seq(Entry) /\ Unique(cache) /\ Len(cache) \in Nat /\ Len(cache) <= maxItems /\ maxItems \in Nat
  BY LenProperties, KeysFinite, FS_CardinalityType DEF DebounceInv, CacheInv, TypesInv
<1>2. got(k) \in [Stages -> Outcome]
  BY <1>1, Got
<1>3. running' \in Seq([key : Keys, stage : Stages, got : [Stages -> Outcome]])
  BY <1>2 DEF RunAsync, DebounceInv, TypesInv
<1>4. afterGet(k) \in Seq(Entry) /\ Unique(afterGet(k)) /\ Len(afterGet(k)) <= Len(cache) /\ Len(afterGet(k)) \in Nat
  BY <1>1, AfterGet, LenProperties
<1>5. cache' = afterGet(k) /\ maxItems' = maxItems
  BY DEF RunAsync, options
<1>6. CacheInv'
  BY <1>1, <1>4, <1>5 DEF CacheInv
<1> QED BY <1>3, <1>6, AsyncKeeps DEF RunAsync

LEMMA SettlesKeeps == ASSUME DebounceInv, Settles PROVE DebounceInv'
<1> DEFINE Run == [key : Keys, stage : Stages, got : [Stages -> Outcome]]
<1>1. PICK i \in DOMAIN running, threw \in BOOLEAN :
        /\ running' = RemoveAt(running, i)
        /\ cache' = cachedRun(cache, running[i].key, running[i].stage, running[i].got, threw)
  BY DEF Settles
<1>2. running \in Seq(Run)
  BY DEF DebounceInv, TypesInv
<1>3. running[i] \in Run
  BY <1>2, ElementsTyped, Zenon
<1>4. RemoveAt(running, i) \in Seq(Run)
  BY <1>2, RemoveAtProperties, Zenon
<1>5. /\ running[i].key \in Keys /\ running[i].stage \in Stages
      /\ running[i].got \in [Stages -> Outcome]
  BY <1>3
<1>6. TypesInv /\ cache \in Seq(Entry) /\ Unique(cache) /\ Len(cache) <= maxItems
  BY DEF DebounceInv, CacheInv
<1>7. cache' \in Seq(Entry) /\ Unique(cache') /\ Len(cache') <= maxItems
  BY <1>1, <1>5, <1>6, CachedRunTyped
<1>8. CacheInv'
  BY <1>7 DEF CacheInv, Settles, options
<1>9. async
  BY <1>1 DEF DebounceInv
<1> QED BY <1>1, <1>4, <1>8, <1>9, AsyncKeeps DEF Settles

LEMMA TickKeeps == ASSUME DebounceInv, Tick PROVE DebounceInv'
<1>1. /\ now \in Int /\ now' = now + 1 /\ now' \in 0..MaxTime /\ skipped' = NoSkip
      /\ UNCHANGED << options, cache, running, last, evicted >>
  BY TimesNat DEF Tick, DebounceInv, TypesInv
<1>2. \A k \in Keys, s \in Stages : last[k][s].at \in Int
  BY DEF DebounceInv, TypesInv, Outcome
<1>3. TypesInv' /\ CacheInv'
  BY <1>1 DEF DebounceInv, TypesInv, CacheInv, options
<1>4. RunsArePast'
  BY <1>1, <1>2 DEF DebounceInv, RunsArePast
<1>5. ~async => EntriesRepeat' /\ SkipRepeatsLastRun' /\ running' = <<>>
  BY <1>1 DEF DebounceInv, EntriesRepeat, SkipRepeatsLastRun, options
<1>6. ASSUME ~async PROVE RunsAreKept'
  <2>1. \A k \in Keys, s \in Stages :
          now >= last[k][s].at + DebounceTime => now' >= last[k][s].at + DebounceTime
    BY <1>1, <1>2, TimesNat
  <2> QED BY <1>1, <1>6, <2>1 DEF DebounceInv, RunsAreKept
<1> QED BY <1>1, <1>3, <1>4, <1>5, <1>6 DEF DebounceInv, options

LEMMA DebounceKeeps == DebounceInv /\ [Next]_vars => DebounceInv'
<1> SUFFICES ASSUME DebounceInv, [Next]_vars PROVE DebounceInv' OBVIOUS
<1>1. ASSUME NEW k \in Keys, NEW s \in Stages, Skip(k, s) \/ RunSync(k, s) \/ RunAsync(k, s)
      PROVE  DebounceInv'
  BY <1>1, SkipKeeps, RunSyncKeeps, RunAsyncKeeps
<1>2. CASE Settles \/ Tick
  BY <1>2, SettlesKeeps, TickKeeps
<1>3. CASE UNCHANGED vars
  BY <1>3 DEF vars, options, DebounceInv, TypesInv, CacheInv, RunsArePast, EntriesRepeat, RunsAreKept,
              SkipRepeatsLastRun
<1> QED BY <1>1, <1>2, <1>3 DEF Next

(* A stage that succeeded runs again only when no live entry has its result. *)
LEMMA RunsAgainInTime ==
  ASSUME DebounceInv, Next, ~async, NEW k \in Keys, NEW s \in Stages,
         last'[k][s] # last[k][s], last[k][s] # None, ~last[k][s].threw, <<k, s>> \notin evicted
  PROVE  now >= last[k][s].at + DebounceTime
<1>1. RunSync(k, s)
  <2>1. PICK l \in Keys, t \in Stages : RunSync(l, t)
    BY DEF Next, Skip, RunAsync, Settles, Tick
  <2>2. last' = [last EXCEPT ![l][t] = last'[l][t]]
    BY <2>1 DEF RunSync, ended, DebounceInv, TypesInv
  <2>3. l = k /\ t = s
    BY <2>2 DEF DebounceInv, TypesInv
  <2> QED BY <2>1, <2>3
<1>2. got(k)[s] = None
  BY <1>1 DEF RunSync, cachedStage
<1>3. /\ last[k][s].at \in Int /\ now \in Int /\ last[k][s] # None
      /\ cache \in Seq(Entry) /\ Unique(cache)
  BY DEF DebounceInv, TypesInv, CacheInv, Outcome
<1>4. CASE now >= last[k][s].at + DebounceTime
  BY <1>4
<1>5. ASSUME NEW e, In(e, cache), e.key = k, e.value[s] = last[k][s],
             e.expiry >= last[k][s].at + DebounceTime
      PROVE  now >= last[k][s].at + DebounceTime
  <2>1. ~isLive(e)
    BY <1>2, <1>3, <1>5, Got
  <2>2. e.expiry \in Nat
    BY <1>3, <1>5, EntriesTyped
  <2> QED BY <1>3, <1>5, <2>1, <2>2, TimesNat DEF isLive
<1> QED BY <1>4, <1>5 DEF DebounceInv, RunsAreKept

(* With a synchronous hook a stage that is skipped repeats how its last run  *)
(* for the key ended, and one that succeeded does not run again within the   *)
(* debounce time, whatever other stages and keys do to the one entry and its *)
(* place; the cache keeps to its size (debounce-hook.ts:155-224,             *)
(* fixed-size-expiring-cache.ts:48-106).                                     *)
THEOREM StagesAreDebounced == Init /\ [][Next]_vars => StagesDebounced
<1> DEFINE Once == ~async => \A k \in Keys, s \in Stages :
             LET run == last[k][s]
             IN last'[k][s] # run /\ run # None /\ ~run.threw /\ <<k, s>> \notin evicted
                  => now >= run.at + DebounceTime
<1>1. DebounceInv /\ [Next]_vars => [Once]_vars
  BY RunsAgainInTime
<1> QED BY <1>1, DebounceInitInv, DebounceKeeps, DebounceInvImplies, PTL DEF StagesDebounced, OncePerPeriod

-----------------------------------------------------------------------------
(* The AWS SSM provider                                                      *)

Cacheable == {"boolean", "string"}
Kept == [name : Names, start : Nat, ttl : {Ttl}, asked : Cacheable,
         got : [version : Nat, type : Cacheable, sent : Nat]]
AskTypes == {"boolean", "string", "number", "object"}
Waiting == [phase : {"describing", "getting"}, name : Names, asked : AskTypes, sent : Nat]
Back == [phase : {"read"}, name : Names, asked : AskTypes, sent : Nat,
         got : [text : Texts, version : Nat]]

Alone(list) == \A i, j \in DOMAIN list : list[i].name = list[j].name => i = j

(* A text the parameter n had at some time from `sent' on.                   *)
Recent(n, v, sent) ==
  /\ v \in 1..Len(since[n]) /\ sent <= clock
  /\ v = Len(since[n]) \/ since[n][v + 1] >= sent

TextsInv ==
  /\ clock \in Nat
  /\ since \in [Names -> Seq(Nat)]
  /\ parameter \in [Names -> [text : Texts, version : Nat \ {0}]]
  /\ \A n \in Names : parameter[n].version = Len(since[n])

RequestsInv ==
  /\ request \in [Requests -> {NoRequest} \union Waiting \union Back]
  /\ \A r \in Requests :
       /\ request[r] # NoRequest => request[r].sent <= clock
       /\ request[r] \in Back => Recent(request[r].name, request[r].got.version, request[r].sent)

LruInv ==
  /\ lru \in Seq(Kept) /\ Alone(lru) /\ Len(lru) <= Size
  /\ \A e : In(e, lru) => e.got.type = e.asked /\ Recent(e.name, e.got.version, e.got.sent)

SsmInv == TextsInv /\ RequestsInv /\ LruInv /\ AnswersRecent /\ WrongTypeOnlyFromCache

LEMMA SsmInvImplies == SsmInv => CachedIsRecent
BY DEF SsmInv, LruInv, Alone, CachedIsRecent

LEMMA SsmInitInv == SsmInit => SsmInv
<1> SUFFICES ASSUME SsmInit PROVE SsmInv OBVIOUS
<1>1. TextsInv
  BY DEF SsmInit, TextsInv
<1>2. RequestsInv
  BY DEF SsmInit, RequestsInv, NoRequest, Back
<1>3. lru \in Seq(Kept) /\ Len(lru) = 0 /\ DOMAIN lru = {}
  BY DEF SsmInit
<1>4. LruInv
  BY <1>3, SsmBounds DEF LruInv, Alone, In
<1>5. AnswersRecent /\ WrongTypeOnlyFromCache
  BY DEF SsmInit, AnswersRecent, WrongTypeOnlyFromCache
<1> QED BY <1>1, <1>2, <1>4, <1>5 DEF SsmInv

LEMMA KeptTyped ==
  ASSUME NEW list \in Seq(Kept)
  PROVE  /\ Len(list) \in Nat /\ DOMAIN list = 1..Len(list)
         /\ \A e : In(e, list) => /\ e.name \in Names /\ e.start \in Nat /\ e.ttl = Ttl
                                  /\ e.asked \in Cacheable /\ e.got.sent \in Nat /\ e \in Kept
<1>1. \A e : In(e, list) => e \in Kept
  BY ElementsTyped, Zenon
<1>2. \A e \in Kept : /\ e.name \in Names /\ e.start \in Nat /\ e.ttl = Ttl
                      /\ e.asked \in Cacheable /\ e.got.sent \in Nat
  BY DEF Kept
<1> QED BY <1>1, <1>2, LenProperties

(* The lists the cache becomes: without the entry of a parameter, ...        *)
LEMMA Others ==
  ASSUME lru \in Seq(Kept), Alone(lru), NEW n, NEW o, o = others(n)
  PROVE  /\ o \in Seq(Kept) /\ Alone(o) /\ Len(o) <= Len(lru)
         /\ (\E e : In(e, lru) /\ e.name = n) => Len(o) = Len(lru) - 1
         /\ \A e : In(e, o) => In(e, lru) /\ e.name # n
<1> DEFINE places == {i \in DOMAIN lru : lru[i].name = n}
<1>1. Len(lru) \in Nat /\ DOMAIN lru = 1..Len(lru)
  BY KeptTyped
<1>2. CASE places = {}
  <2>1. o = lru
    BY <1>2 DEF others
  <2>2. \A e : In(e, lru) => e.name # n
    BY <1>2 DEF In
  <2>3. /\ Len(o) <= Len(lru)
        /\ \A e : In(e, o) => In(e, lru) /\ e.name # n
    BY <1>1, <2>1, <2>2
  <2> QED BY <2>1, <2>2, <2>3
<1>3. CASE places # {}
  <2>1. PICK i \in DOMAIN lru : o = RemoveAt(lru, i) /\ lru[i].name = n
    BY <1>3 DEF others
  <2>2. /\ o \in Seq(Kept) /\ Len(o) = Len(lru) - 1
        /\ \A j \in DOMAIN o : after(i, j) \in DOMAIN lru \ {i} /\ o[j] = lru[after(i, j)]
        /\ \A j, m \in DOMAIN o : after(i, j) = after(i, m) => j = m
    BY <2>1, Removed
  <2>3. Alone(o)
    BY <2>2 DEF Alone
  <2>4. \A e : In(e, o) => In(e, lru) /\ e.name # n
    BY <2>1, <2>2 DEF In, Alone
  <2> QED BY <1>1, <2>2, <2>3, <2>4
<1> QED BY <1>2, <1>3

(* ... with an entry at its end, ...                                         *)
LEMMA AtEnd ==
  ASSUME NEW list \in Seq(Kept), Alone(list), NEW e \in Kept,
         \A d : In(d, list) => d.name # e.name, NEW r, r = Append(list, e)
  PROVE  /\ r \in Seq(Kept) /\ Alone(r) /\ Len(r) = Len(list) + 1
         /\ r[Len(r)] = e /\ Len(r) \in DOMAIN r
         /\ \A d : In(d, r) => In(d, list) \/ d = e
<1>1. /\ r \in Seq(Kept) /\ Len(r) = Len(list) + 1 /\ Len(list) \in Nat
      /\ DOMAIN r = 1..(Len(list) + 1) /\ DOMAIN list = 1..Len(list)
      /\ \A i \in DOMAIN list : r[i] = list[i]
      /\ r[Len(list) + 1] = e
  BY AppendProperties, LenProperties
<1>2. \A i \in DOMAIN r : i \in DOMAIN list \/ i = Len(list) + 1
  BY <1>1
<1>3. \A i \in DOMAIN list : list[i].name # e.name
  BY DEF In
<1>4. Alone(r)
  BY <1>1, <1>2, <1>3 DEF Alone
<1>5. \A d : In(d, r) => In(d, list) \/ d = e
  BY <1>1, <1>2 DEF In
<1> QED BY <1>1, <1>4, <1>5

(* ... and without the entry used longest ago, when there are too many.      *)
LEMMA Fits ==
  ASSUME NEW list \in Seq(Kept), Alone(list), Len(list) <= Size + 1, NEW r, r = fitting(list)
  PROVE  /\ r \in Seq(Kept) /\ Alone(r) /\ Len(r) <= Size
         /\ \A d : In(d, r) => In(d, list)
<1>1. Len(list) \in Nat /\ DOMAIN list = 1..Len(list) /\ Size \in Nat
  BY KeptTyped, SsmBounds
<1>2. CASE Len(list) > Size
  <2>1. list # <<>> /\ r = Tail(list)
    BY <1>1, <1>2, EmptySeq DEF fitting
  <2>2. /\ r \in Seq(Kept) /\ Len(r) = Len(list) - 1
        /\ \A i \in 1..Len(r) : r[i] = list[i + 1]
    BY <2>1, HeadTailProperties
  <2>3. DOMAIN r = 1..Len(r)
    BY <2>2, LenProperties
  <2>4. \A i \in DOMAIN r : i + 1 \in DOMAIN list /\ r[i] = list[i + 1]
    BY <1>1, <2>2, <2>3
  <2>5. ASSUME NEW i \in DOMAIN r, NEW j \in DOMAIN r, r[i].name = r[j].name PROVE i = j
    <3>1. i + 1 = j + 1
      BY <2>4, <2>5 DEF Alone
    <3> QED BY <3>1, <1>1, <2>2, <2>3
  <2>6. \A d : In(d, r) => In(d, list)
    BY <2>4 DEF In
  <2> QED BY <1>1, <1>2, <2>2, <2>5, <2>6 DEF Alone
<1>3. CASE ~(Len(list) > Size)
  BY <1>1, <1>3 DEF fitting
<1> QED BY <1>2, <1>3

-----------------------------------------------------------------------------
(* What was recent stays so: a text that is overwritten was the parameter's  *)
(* until now.                                                                *)
LEMMA RecentStays ==
  ASSUME TextsInv, TextsInv', clock' >= clock,
         \A n \in Names : since'[n] = since[n] \/ since'[n] = Append(since[n], clock),
         NEW n \in Names, NEW v, NEW sent \in Nat, Recent(n, v, sent)
  PROVE  Recent(n, v, sent)'
<1>1. since[n] \in Seq(Nat) /\ since'[n] \in Seq(Nat) /\ clock \in Nat /\ clock' \in Nat
  BY DEF TextsInv
<1>2. Len(since[n]) \in Nat
  BY <1>1, LenProperties
<1>3. v \in 1..Len(since[n]) /\ sent <= clock
  BY DEF Recent
<1>4. CASE since'[n] = since[n]
  BY <1>1, <1>2, <1>3, <1>4 DEF Recent
<1>5. CASE since'[n] = Append(since[n], clock)
  <2>1. /\ Len(since'[n]) = Len(since[n]) + 1
        /\ \A i \in 1..Len(since[n]) : since'[n][i] = since[n][i]
        /\ since'[n][Len(since[n]) + 1] = clock
    BY <1>1, <1>5, AppendProperties
  <2>2. v \in 1..Len(since'[n]) /\ sent <= clock'
    BY <1>1, <1>2, <1>3, <2>1
  <2>3. since'[n][v + 1] >= sent
    <3>1. CASE v = Len(since[n])
      BY <1>3, <2>1, <3>1
    <3>2. CASE v # Len(since[n])
      <4>1. v + 1 \in 1..Len(since[n])
        BY <1>2, <1>3, <3>2
      <4> QED BY <2>1, <3>2, <4>1 DEF Recent
    <3> QED BY <3>1, <3>2
  <2> QED BY <2>2, <2>3 DEF Recent
<1> QED BY <1>1, <1>4, <1>5

(* Time passes or the parameter is written.                                  *)
LEMMA OutsideKeeps == ASSUME SsmInv, Write \/ Pass PROVE SsmInv'
<1>1. UNCHANGED <<lru, request>> /\ answer' = {}
  BY DEF Write, Pass
<1>2. /\ TextsInv' /\ clock' >= clock
      /\ \A n \in Names : since'[n] = since[n] \/ since'[n] = Append(since[n], clock)
  <2>1. CASE Pass
    BY <2>1 DEF Pass, SsmInv, TextsInv
  <2>2. CASE Write
    <3>1. PICK n \in Names, t \in Texts :
            /\ parameter' = [parameter EXCEPT ![n] = [text |-> t, version |-> @.version + 1]]
            /\ since' = [since EXCEPT ![n] = Append(@, clock)]
            /\ clock' = clock
      BY <2>2 DEF Write
    <3>2. since[n] \in Seq(Nat) /\ clock \in Nat /\ parameter[n].version \in Nat
      BY DEF SsmInv, TextsInv
    <3>3. Append(since[n], clock) \in Seq(Nat) /\ Len(Append(since[n], clock)) = Len(since[n]) + 1
      BY <3>2, AppendProperties
    <3>4. since' \in [Names -> Seq(Nat)] /\ parameter' \in [Names -> [text : Texts, version : Nat \ {0}]]
      BY <3>1, <3>2, <3>3 DEF SsmInv, TextsInv
    <3>5. ASSUME NEW m \in Names PROVE parameter'[m].version = Len(since'[m])
      BY <3>1, <3>3 DEF SsmInv, TextsInv
    <3> QED BY <3>1, <3>2, <3>4, <3>5 DEF SsmInv, TextsInv
  <2> QED BY <2>1, <2>2
<1>3. ASSUME NEW n \in Names, NEW v, NEW sent \in Nat, Recent(n, v, sent)
      PROVE  Recent(n, v, sent)'
  BY <1>2, <1>3, RecentStays DEF SsmInv
<1>4. RequestsInv'
  <2> SUFFICES ASSUME NEW r \in Requests
               PROVE  /\ request[r] # NoRequest => request[r].sent <= clock'
                      /\ request[r] \in Back =>
                           Recent(request[r].name, request[r].got.version, request[r].sent)'
    BY <1>1 DEF RequestsInv, SsmInv
  <2>1. request[r] # NoRequest => request[r].sent \in Nat
    BY DEF SsmInv, RequestsInv, Waiting, Back
  <2>2. request[r] \in Back => request[r].name \in Names /\ request[r].sent \in Nat
    BY DEF Back
  <2>3. ASSUME request[r] # NoRequest PROVE request[r].sent <= clock'
    <3>1. request[r].sent <= clock /\ clock \in Nat /\ clock' \in Nat
      BY <1>2, <2>3 DEF SsmInv, TextsInv, RequestsInv
    <3> QED BY <3>1, <1>2, <2>1, <2>3
  <2>4. ASSUME request[r] \in Back
        PROVE  Recent(request[r].name, request[r].got.version, request[r].sent)'
    <3>1. Recent(request[r].name, request[r].got.version, request[r].sent)
      BY <2>4 DEF SsmInv, RequestsInv
    <3>2. ASSUME NEW n, NEW v, NEW sent, n \in Names, sent \in Nat, Recent(n, v, sent)
          PROVE  Recent(n, v, sent)'
      BY <1>3, <3>2
    <3> QED BY <3>1, <3>2, <2>2, <2>4, <1>1
  <2> QED BY <2>3, <2>4
<1>5. LruInv'
  <2>1. ASSUME NEW e, In(e, lru) PROVE e.got.type = e.asked /\ Recent(e.name, e.got.version, e.got.sent)'
    <3>1. e.name \in Names /\ e.got.sent \in Nat
      BY <2>1, KeptTyped DEF SsmInv, LruInv
    <3> QED BY <1>3, <2>1, <3>1 DEF SsmInv, LruInv
  <2> QED BY <1>1, <2>1 DEF SsmInv, LruInv
<1>6. AnswersRecent' /\ WrongTypeOnlyFromCache'
  BY <1>1 DEF AnswersRecent, WrongTypeOnlyFromCache
<1> QED BY <1>2, <1>4, <1>5, <1>6 DEF SsmInv

(* The steps of evaluations leave the texts as they are, so what is recent   *)
(* stays so.                                                                 *)
Still == UNCHANGED <<clock, parameter, since>>

LEMMA StillKeeps ==
  ASSUME SsmInv, Still
  PROVE  /\ TextsInv'
         /\ \A n, v, sent : Recent(n, v, sent)' <=> Recent(n, v, sent)
BY DEF SsmInv, Still, TextsInv, Recent

(* A cache of entries that were there or are right is right.                 *)
LEMMA LruKeeps ==
  ASSUME SsmInv, Still, lru' \in Seq(Kept), Alone(lru'), Len(lru') <= Size,
         \A e : In(e, lru') =>
           \/ In(e, lru)
           \/ e.got.type = e.asked /\ Recent(e.name, e.got.version, e.got.sent)
  PROVE  LruInv'
BY StillKeeps DEF SsmInv, LruInv

LEMMA RequestsKeep ==
  ASSUME SsmInv, Still, NEW r \in Requests, NEW q \in {NoRequest} \union Waiting \union Back,
         request' = [request EXCEPT ![r] = q],
         q # NoRequest => q.sent <= clock,
         q \in Back => Recent(q.name, q.got.version, q.sent)
  PROVE  RequestsInv'
<1>1. request' \in [Requests -> {NoRequest} \union Waiting \union Back]
  BY DEF SsmInv, RequestsInv
<1>2. ASSUME NEW p \in Requests
      PROVE  /\ request'[p] # NoRequest => request'[p].sent <= clock
             /\ request'[p] \in Back => Recent(request'[p].name, request'[p].got.version, request'[p].sent)
  BY DEF SsmInv, RequestsInv
<1> QED BY <1>1, <1>2, StillKeeps DEF RequestsInv, Still

LEMMA CachedKeeps ==
  ASSUME SsmInv, NEW n \in Names, NEW asked \in Asks[n], Cached(n, asked) PROVE SsmInv'
<1>1. PICK e \in entry(n) :
        /\ lru' = Append(others(n), e)
        /\ Answered(n, asked, "CACHED", e.got, e.got.type)
  BY DEF Cached
<1>2. In(e, lru) /\ e.name = n /\ clock <= e.start + e.ttl
  BY DEF entry, Range, In
<1>3. lru \in Seq(Kept) /\ Alone(lru) /\ Len(lru) \in Nat /\ Len(lru) <= Size /\ Size \in Nat
  BY KeptTyped, SsmBounds DEF SsmInv, LruInv
<1> DEFINE o == others(n)
<1>4. /\ o \in Seq(Kept) /\ Alone(o) /\ Len(o) = Len(lru) - 1
      /\ \A d : In(d, o) => In(d, lru) /\ d.name # n
  BY <1>2, <1>3, Others
<1>5. e \in Kept /\ e.ttl = Ttl
  BY <1>2, <1>3, KeptTyped
<1>6. lru' = Append(o, e)
  BY <1>1
<1> HIDE DEF o
<1>7. /\ lru' \in Seq(Kept) /\ Alone(lru') /\ Len(lru') = Len(o) + 1
      /\ lru'[Len(lru')] = e /\ Len(lru') \in DOMAIN lru'
      /\ \A d : In(d, lru') => In(d, o) \/ d = e
  BY <1>2, <1>4, <1>5, <1>6, AtEnd
<1>8. Still /\ request' = request
  BY DEF Cached, Still
<1>9. LruInv'
  <2>1. Len(lru') <= Size
    BY <1>3, <1>4, <1>7
  <2>2. \A d : In(d, lru') => In(d, lru)
    BY <1>2, <1>4, <1>7
  <2> QED BY <1>7, <1>8, <2>1, <2>2, LruKeeps
<1>10. TextsInv' /\ RequestsInv'
  BY <1>8, StillKeeps DEF SsmInv, RequestsInv, Still
<1> DEFINE a == [name |-> n, asked |-> asked, reason |-> "CACHED", got |-> e.got, type |-> e.got.type]
<1>11. answer' = {a}
  BY <1>1 DEF Answered
<1>12. e.got.type = e.asked /\ Recent(n, e.got.version, e.got.sent)
  BY <1>2 DEF SsmInv, LruInv
<1>13. AnswersRecent'
  BY <1>2, <1>5, <1>7, <1>8, <1>11, <1>12 DEF AnswersRecent, Recent, Still
<1>14. WrongTypeOnlyFromCache'
  BY <1>2, <1>7, <1>11, <1>12 DEF WrongTypeOnlyFromCache
<1> QED BY <1>9, <1>10, <1>13, <1>14 DEF SsmInv

(* An evaluation in flight goes on; nothing is answered.                     *)
LEMMA AskKeeps ==
  ASSUME SsmInv, NEW n \in Names, NEW asked \in Asks[n], NEW r \in Requests, Ask(r, n, asked)
  PROVE  SsmInv'
<1>1. Still /\ answer' = {} /\ lru' = others(n)
  BY DEF Ask, Still
<1>2. lru \in Seq(Kept) /\ Alone(lru) /\ Len(lru) \in Nat /\ Len(lru) <= Size /\ Size \in Nat
  BY KeptTyped, SsmBounds DEF SsmInv, LruInv
<1>3. /\ lru' \in Seq(Kept) /\ Alone(lru') /\ Len(lru') <= Len(lru)
      /\ \A e : In(e, lru') => In(e, lru)
  BY <1>1, <1>2, Others
<1>4. Len(lru') \in Nat
  BY <1>3, LenProperties
<1>5. LruInv'
  BY <1>1, <1>2, <1>3, <1>4, LruKeeps
<1> DEFINE q == [phase |-> IF enableDecryption THEN "describing" ELSE "getting",
                 name |-> n, asked |-> asked, sent |-> clock]
<1>6. q \in Waiting /\ q.sent <= clock /\ q \notin Back
  BY AsksTyped DEF SsmInv, TextsInv, Waiting, Back, AskTypes
<1>7. request' = [request EXCEPT ![r] = q]
  BY DEF Ask
<1> HIDE DEF q
<1>8. RequestsInv'
  BY <1>1, <1>6, <1>7, RequestsKeep
<1> QED BY <1>1, <1>5, <1>8, StillKeeps DEF SsmInv, AnswersRecent, WrongTypeOnlyFromCache

LEMMA OnTheWayKeeps == ASSUME SsmInv, NEW r \in Requests, Described(r) \/ Read(r) PROVE SsmInv'
<1>1. Still /\ answer' = {} /\ lru' = lru
  BY DEF Described, Read, Still
<1>2. LruInv'
  BY <1>1, LruKeeps DEF SsmInv, LruInv
<1>3. /\ request[r] \in Waiting /\ request[r].sent <= clock /\ clock \in Nat
  BY DEF SsmInv, TextsInv, RequestsInv, Described, Read, NoRequest, Back
<1>4. RequestsInv'
  <2>1. CASE Described(r)
    <3> DEFINE q == [request[r] EXCEPT !.phase = "getting"]
    <3>1. q \in Waiting /\ q \notin Back /\ q.sent <= clock
      BY <1>3 DEF Waiting, Back
    <3>2. request' = [request EXCEPT ![r] = q]
      BY <2>1 DEF Described
    <3> HIDE DEF q
    <3> QED BY <1>1, <3>1, <3>2, RequestsKeep
  <2>2. CASE Read(r)
    <3> DEFINE q == [phase |-> "read", name |-> request[r].name, asked |-> request[r].asked,
                     sent |-> request[r].sent, got |-> parameter[request[r].name]]
    <3>1. /\ q.name = request[r].name /\ q.sent = request[r].sent /\ q.got = parameter[q.name]
          /\ q.name \in Names /\ q.sent \in Nat
      BY <1>3 DEF Waiting
    <3>2. /\ parameter[q.name] \in [text : Texts, version : Nat \ {0}]
          /\ parameter[q.name].version = Len(since[q.name])
      BY <3>1 DEF SsmInv, TextsInv
    <3>3. q \in Back
      BY <1>3, <3>1, <3>2 DEF Waiting, Back
    <3>4. request' = [request EXCEPT ![r] = q]
      BY <2>2 DEF Read
    <3> HIDE DEF q
    <3>5. Recent(q.name, q.got.version, q.sent)
      BY <1>3, <3>1, <3>2 DEF Recent
    <3> QED BY <1>1, <1>3, <3>1, <3>3, <3>4, <3>5, RequestsKeep
  <2> QED BY <2>1, <2>2
<1> QED BY <1>1, <1>2, <1>4, StillKeeps DEF SsmInv, AnswersRecent, WrongTypeOnlyFromCache

(* The answer to a request that was rejected is an error.                    *)
LEMMA RejectsKeeps == ASSUME SsmInv, NEW r \in Requests, Rejects(r) PROVE SsmInv'
<1>1. Still /\ lru' = lru /\ request' = [request EXCEPT ![r] = NoRequest]
  BY DEF Rejects, Still
<1>2. LruInv'
  BY <1>1, LruKeeps DEF SsmInv, LruInv
<1>3. NoRequest \notin Back
  BY DEF NoRequest, Back
<1>4. RequestsInv'
  BY <1>1, <1>3, RequestsKeep
<1>5. \A a \in answer' : a.reason = "ERROR"
  <2>1. PICK got0 : answer' = {[name |-> request[r].name, asked |-> request[r].asked, reason |-> "ERROR",
                                got |-> got0, type |-> "default"]}
    BY Zenon DEF Rejects, Answered
  <2> QED BY <2>1
<1> QED BY <1>1, <1>2, <1>4, <1>5, StillKeeps DEF SsmInv, AnswersRecent, WrongTypeOnlyFromCache

LEMMA RespondsKeeps == ASSUME SsmInv, NEW r \in Requests, Responds(r) PROVE SsmInv'
<1> DEFINE q == request[r]
           type == converted(q.asked, q.got.text)
           got0 == [version |-> q.got.version, type |-> type, sent |-> q.sent]
<1>1. Still /\ request' = [request EXCEPT ![r] = NoRequest]
  BY DEF Responds, Still
<1>2. q \in Back
  <2>1. q.phase = "read" /\ q \in {NoRequest} \union Waiting \union Back
    BY DEF Responds, SsmInv, RequestsInv
  <2> HIDE DEF q
  <2> QED BY <2>1 DEF NoRequest, Waiting
<1>3. Recent(q.name, q.got.version, q.sent)
  BY <1>2 DEF SsmInv, RequestsInv
<1>4. q.name \in Names /\ q.asked \in AskTypes /\ q.sent \in Nat /\ q.got.text \in Texts /\ q.got.version \in Nat
  BY <1>2 DEF Back
<1>5. RequestsInv' /\ TextsInv'
  <2>1. NoRequest \notin Back
    BY DEF NoRequest, Back
  <2> QED BY <1>1, <2>1, RequestsKeep, StillKeeps
<1>6. type # "" /\ q.asked # "object" => type = q.asked
  BY <1>4 DEF converted, AskTypes
<1>7. CASE type = ""
  <2>1. lru' = lru /\ Answered(q.name, q.asked, "ERROR", got0, "default")
    BY <1>7, Zenon DEF Responds
  <2>2. \A a \in answer' : a.reason = "ERROR"
    <3>1. PICK name, asked, got1 : answer' = {[name |-> name, asked |-> asked, reason |-> "ERROR",
                                               got |-> got1, type |-> "default"]}
      BY <2>1, Zenon DEF Answered
    <3> QED BY <3>1
  <2>3. LruInv'
    BY <1>1, <2>1, LruKeeps DEF SsmInv, LruInv
  <2> QED BY <1>5, <2>2, <2>3 DEF SsmInv, AnswersRecent, WrongTypeOnlyFromCache
<1>8. CASE type # ""
  <2> DEFINE a == [name |-> q.name, asked |-> q.asked, reason |-> "STATIC", got |-> got0, type |-> type]
  <2>1. /\ answer' = {a}
        /\ IF enabled /\ q.asked \in Cacheable THEN store(q.name, got0, q.asked) ELSE lru' = lru
    BY <1>8 DEF Responds, Answered, Cacheable
  <2>2. AnswersRecent' /\ WrongTypeOnlyFromCache'
    <3>1. /\ a.name = q.name /\ a.asked = q.asked /\ a.reason = "STATIC" /\ a.type = type
          /\ a.got.version = q.got.version /\ a.got.sent = q.sent
      OBVIOUS
    <3>2. since' = since
      BY <1>1 DEF Still
    <3> HIDE DEF a, q, type, got0
    <3>3. \A b \in answer' : b = a
      BY <2>1
    <3>4. AnswersRecent'
      BY <1>3, <3>1, <3>2, <3>3 DEF AnswersRecent, Recent
    <3>5. WrongTypeOnlyFromCache'
      BY <1>6, <1>8, <3>1, <3>3 DEF WrongTypeOnlyFromCache
    <3> QED BY <3>4, <3>5
  <2>3. LruInv'
    <3>1. CASE ~(enabled /\ q.asked \in Cacheable)
      BY <1>1, <2>1, <3>1, LruKeeps DEF SsmInv, LruInv
    <3>2. CASE enabled /\ q.asked \in Cacheable
      <4> DEFINE e == [name |-> q.name, start |-> clock, ttl |-> Ttl, got |-> got0, asked |-> q.asked]
                 o == others(q.name)
                 list == Append(o, e)
      <4>1. lru' = fitting(list)
        BY <2>1, <3>2 DEF store
      <4>2. type = q.asked
        BY <1>6, <1>8, <3>2 DEF Cacheable
      <4>3. e \in Kept /\ e.name = q.name /\ e.got.type = e.asked
        BY <1>4, <3>2, <4>2 DEF Kept, SsmInv, TextsInv
      <4>4. Recent(e.name, e.got.version, e.got.sent)
        BY <1>3
      <4>5. lru \in Seq(Kept) /\ Alone(lru) /\ Len(lru) \in Nat /\ Len(lru) <= Size /\ Size \in Nat
        BY KeptTyped, SsmBounds DEF SsmInv, LruInv
      <4>6. /\ o \in Seq(Kept) /\ Alone(o) /\ Len(o) <= Len(lru) /\ Len(o) \in Nat
            /\ \A d : In(d, o) => In(d, lru) /\ d.name # q.name
        BY <4>5, Others, LenProperties
      <4> HIDE DEF o, e
      <4>7. /\ list \in Seq(Kept) /\ Alone(list) /\ Len(list) = Len(o) + 1
            /\ \A d : In(d, list) => In(d, o) \/ d = e
        <5>1. \A d : In(d, o) => d.name # e.name
          BY <4>3, <4>6
        <5> QED BY <4>3, <4>6, <5>1, AtEnd
      <4>8. Len(list) <= Size + 1
        BY <4>5, <4>6, <4>7
      <4> HIDE DEF list
      <4>9. /\ lru' \in Seq(Kept) /\ Alone(lru') /\ Len(lru') <= Size
            /\ \A d : In(d, lru') => In(d, list)
        BY <4>1, <4>7, <4>8, Fits
      <4>10. \A d : In(d, lru') => In(d, lru) \/ d = e
        BY <4>6, <4>7, <4>9
      <4> QED BY <1>1, <4>3, <4>4, <4>9, <4>10, LruKeeps
    <3> QED BY <3>1, <3>2
  <2> QED BY <1>5, <2>2, <2>3 DEF SsmInv
<1> QED BY <1>7, <1>8

LEMMA SsmKeeps == SsmInv /\ [SsmNext]_ssmVars => SsmInv'
<1> SUFFICES ASSUME SsmInv, [SsmNext]_ssmVars PROVE SsmInv' OBVIOUS
<1>1. CASE Write \/ Pass
  BY <1>1, OutsideKeeps
<1>2. ASSUME NEW n \in Names, NEW asked \in Asks[n], Cached(n, asked) \/ \E r \in Requests : Ask(r, n, asked)
      PROVE  SsmInv'
  BY <1>2, CachedKeeps, AskKeeps
<1>3. ASSUME NEW r \in Requests, Described(r) \/ Read(r) \/ Responds(r) \/ Rejects(r)
      PROVE  SsmInv'
  BY <1>3, OnTheWayKeeps, RespondsKeeps, RejectsKeeps
<1>4. CASE UNCHANGED ssmVars
  <2>1. Still /\ request' = request /\ lru' = lru /\ answer' = answer
    BY <1>4 DEF ssmVars, Still
  <2> QED BY <2>1, StillKeeps
          DEF Still, SsmInv, RequestsInv, LruInv, AnswersRecent, WrongTypeOnlyFromCache
<1> QED BY <1>1, <1>2, <1>3, <1>4 DEF SsmNext

(* Every answer of the provider that is not an error is a text the parameter *)
(* had once its request was sent, a cached one for no longer than the time   *)
(* to live, whichever requests overtake each other; the wrong type comes     *)
(* from the cache alone, which keeps to its size with one entry for a key    *)
(* (aws-ssm-provider.ts:23-146, cache.ts:18-31).                             *)
THEOREM ParametersAreRecent == SsmInit /\ [][SsmNext]_ssmVars => []CachedIsRecent
BY SsmInitInv, SsmKeeps, SsmInvImplies, PTL
=============================================================================
