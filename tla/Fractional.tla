------------------------------ MODULE Fractional ------------------------------
(* The "fractional" rule of flagd's targeting                                *)
(* (libs/shared/flagd-core/src/lib/targeting/fractional.ts): a bucket is     *)
(* chosen by a hash, with the weights as shares of the range of the hash.    *)
(* A rule has entries [variant, weight, usable]: the weight is <<>> or <<w>>,*)
(* and an entry is not usable whose variant is an object or whose weight is  *)
(* no integer.                                                               *)
(* External: MurmurHash3, here any function into 0 .. HashRange - 1.         *)
EXTENDS Integers, Sequences, FiniteSets

CONSTANTS
  HashRange,      \* 2^32 in the code
  MaxWeight       \* 2147483647 in the code

ASSUME RangesNat == HashRange \in Nat \ {0} /\ MaxWeight \in Nat

Null == "null"            \* no answer: null
NoWeight == <<>>          \* an entry of length 1

EntryType == [variant : STRING, weight : {NoWeight} \union [{1} -> Int], usable : BOOLEAN]

(* One entry of toBucketingList; a negative weight is clamped.               *)
weightOf(entry) ==
  IF entry.weight = NoWeight THEN 1 ELSE IF entry.weight[1] < 0 THEN 0 ELSE entry.weight[1]

(* Where toBucketingList throws.                                             *)
validBuckets(entries) == \A i \in DOMAIN entries : entries[i].usable

(* The sums the loop of fractional goes through; the last one is totalWeight.*)
sums(entries) ==
  LET s[i \in 0 .. Len(entries)] == IF i = 0 THEN 0 ELSE s[i - 1] + weightOf(entries[i])
  IN s
totalWeight(entries) == sums(entries)[Len(entries)]

(* hashUint32 * totalWeight >> 32                                            *)
bucketOf(hash, total) == (hash * total) \div HashRange

(* Mutant: the first sum that reaches the bucket.                            *)
chosenReached(entries, hash) ==
  {i \in DOMAIN entries : sums(entries)[i] >= bucketOf(hash, totalWeight(entries))}

(* The entries whose sum exceeds the bucket: the loop returns the first.     *)
chosen(entries, hash) ==
  {i \in DOMAIN entries : sums(entries)[i] > bucketOf(hash, totalWeight(entries))}

(* fractional: by is the first argument if that is a string, else the        *)
(* targeting key of the context together with the key of the flag.           *)
fractional(entries, bucketBy, hash) ==
  IF \/ entries = <<>> \/ bucketBy = Null
     \/ ~validBuckets(entries)
     \/ totalWeight(entries) > MaxWeight
     \/ chosen(entries, hash) = {}
    THEN Null
    ELSE entries[CHOOSE i \in chosen(entries, hash) : \A j \in chosen(entries, hash) : i <= j].variant

-----------------------------------------------------------------------------
(* The variants of a rollout tell its entries apart.                         *)
Distinct(entries) ==
  /\ \A i \in DOMAIN entries : entries[i].variant # Null
  /\ \A i, j \in DOMAIN entries : entries[i].variant = entries[j].variant => i = j

(* The hashes for which entry i is chosen.                                   *)
Chosen(entries, i) == {h \in 0 .. HashRange - 1 : fractional(entries, "key", h) = entries[i].variant}

(* Every hash gets a variant as long as one weight is positive, an entry of  *)
(* weight 0 gets none, and the share of an entry is its weight to within one *)
(* hash at each end (fractional.ts:61-75, 112-117).                          *)
Proportional(entries) ==
  LET total == totalWeight(entries)
  IN validBuckets(entries) /\ Distinct(entries) /\ total \in 1 .. MaxWeight =>
       /\ \A h \in 0 .. HashRange - 1 : fractional(entries, "key", h) # Null
       /\ \A i \in DOMAIN entries :
            LET share == Cardinality(Chosen(entries, i))
            IN /\ weightOf(entries[i]) = 0 => share = 0
               /\ share * total <= weightOf(entries[i]) * HashRange + total
               /\ share * total >= weightOf(entries[i]) * HashRange - total

(* A rollout that takes weight from later entries and gives it to earlier    *)
(* ones moves nobody to a later entry (fractional.ts:64-73).                 *)
Monotone(before, after) ==
  (/\ Len(before) = Len(after)
   /\ validBuckets(before) /\ validBuckets(after)
   /\ totalWeight(before) = totalWeight(after)
   /\ \A i \in DOMAIN before : sums(before)[i] <= sums(after)[i])
  => \A h \in 0 .. HashRange - 1 : \A i \in DOMAIN before :
       i \in chosen(before, h) => i \in chosen(after, h)
=============================================================================
