-------------------- MODULE GoFeatureFlagProvider_proofs --------------------
(* Proofs about the server provider of GO Feature Flag, for any events, any  *)
(* number of evaluations, versions and failures.                             *)
EXTENDS GoFeatureFlagProvider, SequenceTheorems, TLAPS

-----------------------------------------------------------------------------
(* The event publisher: each of its steps keeps the types, keeps every event *)
(* in one place, and keeps its runner alive.                                 *)

Batch == [by : {"runner", "addEvent", "stop"}, list : Seq(Events)]

-----------------------------------------------------------------------------
(* Lists and batches                                                         *)

LEMMA PartBefore ==
  ASSUME NEW S, NEW n \in Nat, NEW i \in 1..n, NEW s, \A j \in 1..n : s[j] \in S
  PROVE  /\ SubSeq(s, 1, i - 1) \in Seq(S)
         /\ Len(SubSeq(s, 1, i - 1)) = i - 1
         /\ \A j \in 1..(i - 1) : SubSeq(s, 1, i - 1)[j] = s[j]
<1>1. /\ 1 \in Int /\ i - 1 \in Int
      /\ \A j \in 1..(i - 1) : s[j] \in S
  OBVIOUS
<1>2. /\ SubSeq(s, 1, i - 1) \in Seq(S)
      /\ Len(SubSeq(s, 1, i - 1)) = IF 1 <= i - 1 THEN (i - 1) - 1 + 1 ELSE 0
      /\ \A j \in 1..((i - 1) - 1 + 1) : SubSeq(s, 1, i - 1)[j] = s[1 + j - 1]
  BY <1>1, SubSeqProperties
<1> DEFINE a == SubSeq(s, 1, i - 1)
<1>3. /\ a \in Seq(S) /\ Len(a) = IF 1 <= i - 1 THEN (i - 1) - 1 + 1 ELSE 0
      /\ \A j \in 1..((i - 1) - 1 + 1) : a[j] = s[1 + j - 1]
  BY <1>2
<1> HIDE DEF a
<1>4. /\ a \in Seq(S) /\ Len(a) = i - 1
      /\ \A j \in 1..(i - 1) : a[j] = s[j]
  BY <1>3
<1> QED BY <1>4 DEF a

LEMMA PartAfter ==
  ASSUME NEW S, NEW n \in Nat, NEW i \in 1..n, NEW s, \A j \in 1..n : s[j] \in S
  PROVE  /\ SubSeq(s, i + 1, n) \in Seq(S)
         /\ Len(SubSeq(s, i + 1, n)) = n - i
         /\ \A j \in 1..(n - i) : SubSeq(s, i + 1, n)[j] = s[i + j]
<1>1. /\ i + 1 \in Int /\ n \in Int
      /\ \A j \in (i + 1)..n : s[j] \in S
  OBVIOUS
<1> DEFINE b == SubSeq(s, i + 1, n)
<1>2. /\ b \in Seq(S) /\ Len(b) = IF i + 1 <= n THEN n - (i + 1) + 1 ELSE 0
      /\ \A j \in 1..(n - (i + 1) + 1) : b[j] = s[(i + 1) + j - 1]
  BY <1>1, SubSeqProperties
<1> HIDE DEF b
<1>3. Len(b) = n - i
  BY <1>2
<1>4. ASSUME NEW j \in 1..(n - i) PROVE b[j] = s[i + j]
  <2>1. j \in 1..(n - (i + 1) + 1) /\ (i + 1) + j - 1 = i + j
    OBVIOUS
  <2> QED BY <1>2, <2>1
<1>5. b \in Seq(S) /\ Len(b) = n - i /\ \A j \in 1..(n - i) : b[j] = s[i + j]
  BY <1>2, <1>3, <1>4
<1> QED BY <1>5 DEF b

(* What is left of a sequence without its i-th element.                      *)
LEMMA RemoveAtProperties ==
  ASSUME NEW S, NEW s \in Seq(S), NEW i \in DOMAIN s
  PROVE  /\ RemoveAt(s, i) \in Seq(S)
         /\ Len(RemoveAt(s, i)) = Len(s) - 1
         /\ \A j \in 1..(Len(s) - 1) : RemoveAt(s, i)[j] = s[IF j < i THEN j ELSE j + 1]
<1>1. Len(s) \in Nat /\ i \in 1..Len(s) /\ \A j \in 1..Len(s) : s[j] \in S
  BY LenProperties, ElementOfSeq
<1> DEFINE n == Len(s)
           a == SubSeq(s, 1, i - 1)
           b == SubSeq(s, i + 1, n)
           r == RemoveAt(s, i)
<1>2. a \in Seq(S) /\ Len(a) = i - 1 /\ \A j \in 1..(i - 1) : a[j] = s[j]
  BY <1>1, PartBefore
<1>3. b \in Seq(S) /\ Len(b) = n - i /\ \A j \in 1..(n - i) : b[j] = s[i + j]
  BY <1>1, PartAfter
<1>4. r = a \o b
  BY DEF RemoveAt
<1>5. n \in Nat /\ i \in 1..n
  BY <1>1
<1> HIDE DEF a, b, n, r
<1>6. /\ r \in Seq(S) /\ Len(r) = Len(a) + Len(b)
      /\ \A j \in 1..(Len(a) + Len(b)) : r[j] = IF j <= Len(a) THEN a[j] ELSE b[j - Len(a)]
  BY <1>2, <1>3, <1>4, ConcatProperties
<1>7. Len(a) + Len(b) = n - 1
  BY <1>2, <1>3, <1>5
<1>8. ASSUME NEW j \in 1..(n - 1)
      PROVE  r[j] = s[IF j < i THEN j ELSE j + 1]
  <2>1. r[j] = IF j <= i - 1 THEN a[j] ELSE b[j - (i - 1)]
    BY <1>2, <1>6, <1>7
  <2>2. CASE j < i
    <3>1. j \in 1..(i - 1)
      BY <2>2, <1>5
    <3> QED BY <2>1, <2>2, <3>1, <1>2
  <2>3. CASE ~(j < i)
    <3>1. j - (i - 1) \in 1..(n - i) /\ i + (j - (i - 1)) = j + 1
      BY <2>3, <1>5
    <3>2. b[j - (i - 1)] = s[i + (j - (i - 1))]
      BY <3>1, <1>3
    <3>3. r[j] = b[j - (i - 1)]
      BY <2>1, <2>3, <1>5
    <3> QED BY <2>3, <3>1, <3>2, <3>3
  <2> QED BY <2>2, <2>3
<1> QED BY <1>6, <1>7, <1>8 DEF n, r

(* The place an element had before the i-th one was removed.                 *)
placeBefore(i, j) == IF j < i THEN j ELSE j + 1

(* Nothing but the i-th element goes: the others are all there, each once.   *)
LEMMA OthersKept ==
  ASSUME NEW S, NEW s \in Seq(S), NEW i \in DOMAIN s, NEW r, r = RemoveAt(s, i)
  PROVE  /\ r \in Seq(S)
         /\ \A j \in DOMAIN r : placeBefore(i, j) \in DOMAIN s \ {i} /\ r[j] = s[placeBefore(i, j)]
         /\ \A j, k \in DOMAIN r : placeBefore(i, j) = placeBefore(i, k) => j = k
         /\ \A k \in DOMAIN s \ {i} : \E j \in DOMAIN r : placeBefore(i, j) = k
<1>1. Len(s) \in Nat /\ DOMAIN s = 1..Len(s) /\ i \in 1..Len(s)
  BY LenProperties
<1>2. /\ r \in Seq(S) /\ DOMAIN r = 1..(Len(s) - 1)
      /\ \A j \in DOMAIN r : r[j] = s[IF j < i THEN j ELSE j + 1]
  BY <1>1, RemoveAtProperties, LenProperties
<1>3. ASSUME NEW j \in DOMAIN r
      PROVE  placeBefore(i, j) \in DOMAIN s \ {i} /\ r[j] = s[placeBefore(i, j)]
  BY <1>1, <1>2 DEF placeBefore
<1>4. ASSUME NEW j \in DOMAIN r, NEW k \in DOMAIN r, placeBefore(i, j) = placeBefore(i, k)
      PROVE  j = k
  BY <1>1, <1>2, <1>4 DEF placeBefore
<1>5. ASSUME NEW k \in DOMAIN s \ {i} PROVE \E j \in DOMAIN r : placeBefore(i, j) = k
  <2>1. CASE k < i
    <3>1. k \in DOMAIN r /\ placeBefore(i, k) = k
      BY <2>1, <1>1, <1>2 DEF placeBefore
    <3> QED BY <3>1
  <2>2. CASE ~(k < i)
    <3>1. k - 1 \in DOMAIN r /\ placeBefore(i, k - 1) = k
      BY <2>2, <1>1, <1>2 DEF placeBefore
    <3> QED BY <3>1
  <2> QED BY <2>1, <2>2
<1> QED BY <1>2, <1>3, <1>4, <1>5

LEMMA EmptyList == Contents(<<>>) = {} /\ Distinct(<<>>)
BY DEF Contents, Distinct

LEMMA AppendedList ==
  ASSUME NEW S, NEW list \in Seq(S), NEW e \in S
  PROVE  /\ Append(list, e) \in Seq(S)
         /\ Contents(Append(list, e)) = Contents(list) \union {e}
         /\ Distinct(list) /\ e \notin Contents(list) => Distinct(Append(list, e))
<1> DEFINE n == Len(list)
           r == Append(list, e)
<1>1. /\ n \in Nat /\ DOMAIN list = 1..n
      /\ r \in Seq(S) /\ DOMAIN r = 1..(n + 1)
      /\ \A j \in 1..n : r[j] = list[j]
      /\ r[n + 1] = e
  BY AppendProperties, LenProperties
<1> HIDE DEF n, r
<1>2. DOMAIN r = DOMAIN list \union {n + 1} /\ n + 1 \notin DOMAIN list
  BY <1>1
<1>3. Contents(r) = Contents(list) \union {e}
  BY <1>1, <1>2 DEF Contents
<1>4. ASSUME Distinct(list), e \notin Contents(list) PROVE Distinct(r)
  BY <1>1, <1>2, <1>4 DEF Contents, Distinct
<1> QED BY <1>1, <1>3, <1>4 DEF r

LEMMA JoinedList ==
  ASSUME NEW S, NEW l \in Seq(S), NEW m \in Seq(S)
  PROVE  /\ l \o m \in Seq(S)
         /\ Contents(l \o m) = Contents(l) \union Contents(m)
         /\ Distinct(l) /\ Distinct(m) /\ Contents(l) \intersect Contents(m) = {} => Distinct(l \o m)
<1> DEFINE r == l \o m
           a == Len(l)
           b == Len(m)
<1>1. /\ a \in Nat /\ b \in Nat /\ DOMAIN l = 1..a /\ DOMAIN m = 1..b
      /\ r \in Seq(S) /\ DOMAIN r = 1..(a + b)
      /\ \A j \in 1..(a + b) : r[j] = IF j <= a THEN l[j] ELSE m[j - a]
  BY ConcatProperties, LenProperties
<1> HIDE DEF r, a, b
<1>2. ASSUME NEW j \in DOMAIN r PROVE \/ j \in DOMAIN l /\ r[j] = l[j]
                                      \/ j > a /\ j - a \in DOMAIN m /\ r[j] = m[j - a]
  BY <1>1
<1>3. ASSUME NEW j \in DOMAIN l PROVE j \in DOMAIN r /\ r[j] = l[j]
  BY <1>1
<1>4. ASSUME NEW j \in DOMAIN m PROVE j + a \in DOMAIN r /\ r[j + a] = m[j]
  <2>1. j + a \in 1..(a + b) /\ ~(j + a <= a) /\ (j + a) - a = j
    BY <1>1
  <2> QED BY <2>1, <1>1
<1>5. Contents(r) = Contents(l) \union Contents(m)
  <2>1. Contents(r) \subseteq Contents(l) \union Contents(m)
    BY <1>2 DEF Contents
  <2>2. Contents(l) \subseteq Contents(r)
    BY <1>3 DEF Contents
  <2>3. Contents(m) \subseteq Contents(r)
    BY <1>4 DEF Contents
  <2> QED BY <2>1, <2>2, <2>3
<1>6. ASSUME Distinct(l), Distinct(m), Contents(l) \intersect Contents(m) = {}
      PROVE  Distinct(r)
  <2> SUFFICES ASSUME NEW j \in DOMAIN r, NEW k \in DOMAIN r, r[j] = r[k] PROVE j = k
    BY DEF Distinct
  <2>1. CASE j \in DOMAIN l /\ k \in DOMAIN l
    BY <2>1, <1>3, <1>6 DEF Distinct
  <2>2. CASE j > a /\ k > a
    <3>1. j - a \in DOMAIN m /\ k - a \in DOMAIN m /\ m[j - a] = m[k - a]
      BY <2>2, <1>1, <1>2
    <3>2. j - a = k - a
      BY <3>1, <1>6 DEF Distinct
    <3> QED BY <3>2, <1>1
  <2>3. ASSUME NEW p \in DOMAIN r, NEW q \in DOMAIN r, p \in DOMAIN l, q > a, r[p] = r[q]
        PROVE  FALSE
    <3>1. r[p] \in Contents(l)
      BY <2>3, <1>3 DEF Contents
    <3>2. r[q] \in Contents(m)
      <4>1. q \notin DOMAIN l
        BY <2>3, <1>1
      <4>2. q - a \in DOMAIN m /\ r[q] = m[q - a]
        BY <2>3, <4>1, <1>2
      <4> QED BY <4>2 DEF Contents
    <3> QED BY <2>3, <3>1, <3>2, <1>6
  <2> QED BY <2>1, <2>2, <2>3, <1>2
<1> QED BY <1>1, <1>5, <1>6 DEF r

-----------------------------------------------------------------------------
(* Every event in one place                                                  *)

(* A new event is put at the end of the list.                                *)
LEMMA PlacedWhenAdded ==
  ASSUME NEW list \in Seq(Events), NEW batches \in Seq(Batch), NEW owed,
         Placed(list, batches, owed), NEW e \in Events, e \notin owed
  PROVE  Placed(Append(list, e), batches, owed \union {e})
<1> DEFINE r == Append(list, e)
           B(i) == Contents(batches[i].list)
<1>1. /\ e \notin Contents(list)
      /\ \A i \in DOMAIN batches : e \notin B(i)
  BY DEF Placed
<1>2. Distinct(r) /\ Contents(r) = Contents(list) \union {e}
  BY <1>1, AppendedList DEF Placed
<1> HIDE DEF r
<1> QED BY <1>1, <1>2 DEF Placed, r

(* A batch takes the whole list.                                             *)
LEMMA PlacedWhenTaken ==
  ASSUME NEW list \in Seq(Events), NEW batches \in Seq(Batch), NEW owed,
         Placed(list, batches, owed), NEW b \in Batch, b.list = list
  PROVE  Placed(<<>>, Append(batches, b), owed)
<1> DEFINE r == Append(batches, b)
           n == Len(batches)
<1>1. /\ n \in Nat /\ DOMAIN batches = 1..n /\ DOMAIN r = 1..(n + 1)
      /\ \A j \in 1..n : r[j] = batches[j]
      /\ r[n + 1] = b
  BY AppendProperties, LenProperties
<1> HIDE DEF r, n
<1>2. DOMAIN r = DOMAIN batches \union {n + 1} /\ n + 1 \notin DOMAIN batches
  BY <1>1
<1>3. ASSUME NEW i \in DOMAIN r PROVE \/ i \in DOMAIN batches /\ r[i] = batches[i]
                                      \/ i = n + 1 /\ r[i].list = list
  BY <1>1, <1>2
<1>4. \A i \in DOMAIN r : Distinct(r[i].list)
  BY <1>3 DEF Placed
<1>5. ASSUME NEW i \in DOMAIN r, NEW k \in DOMAIN r, k # i
      PROVE  Contents(r[i].list) \intersect Contents(r[k].list) = {}
  <2>1. /\ \A j \in DOMAIN batches : Contents(batches[j].list) \intersect Contents(list) = {}
        /\ \A j, p \in DOMAIN batches :
             p # j => Contents(batches[j].list) \intersect Contents(batches[p].list) = {}
    BY DEF Placed
  <2>2. CASE i = n + 1
    BY <2>1, <2>2, <1>2, <1>3, <1>5
  <2>3. CASE k = n + 1
    BY <2>1, <2>3, <1>2, <1>3, <1>5
  <2>4. CASE i # n + 1 /\ k # n + 1
    BY <2>1, <2>4, <1>3, <1>5
  <2> QED BY <2>2, <2>3, <2>4
<1>6. owed = UNION {Contents(r[i].list) : i \in DOMAIN r}
  <2>1. owed = Contents(list) \union UNION {Contents(batches[i].list) : i \in DOMAIN batches}
    BY DEF Placed
  <2>2. Contents(list) = Contents(r[n + 1].list)
    BY <1>1
  <2>3. \A i \in DOMAIN batches : i \in DOMAIN r /\ Contents(r[i].list) = Contents(batches[i].list)
    BY <1>1, <1>2
  <2>4. n + 1 \in DOMAIN r
    BY <1>2
  <2> QED BY <2>1, <2>2, <2>3, <2>4, <1>2
<1>7. Placed(<<>>, r, owed)
  BY <1>4, <1>5, <1>6, EmptyList DEF Placed
<1> QED BY <1>7 DEF r

(* A batch that is confirmed is owed no longer.                              *)
LEMMA PlacedWhenConfirmed ==
  ASSUME NEW list \in Seq(Events), NEW batches \in Seq(Batch), NEW owed,
         Placed(list, batches, owed), NEW i \in DOMAIN batches
  PROVE  Placed(list, RemoveAt(batches, i), owed \ Contents(batches[i].list))
<1> DEFINE r == RemoveAt(batches, i)
           got == Contents(batches[i].list)
<1>1. /\ \A j \in DOMAIN r : /\ placeBefore(i, j) \in DOMAIN batches \ {i}
                             /\ r[j] = batches[placeBefore(i, j)]
      /\ \A j, k \in DOMAIN r : placeBefore(i, j) = placeBefore(i, k) => j = k
      /\ \A k \in DOMAIN batches \ {i} : \E j \in DOMAIN r : placeBefore(i, j) = k
  BY OthersKept
<1> HIDE DEF r
<1>2. \A j \in DOMAIN r : /\ Distinct(r[j].list)
                          /\ Contents(r[j].list) \intersect Contents(list) = {}
                          /\ Contents(r[j].list) \intersect got = {}
  BY <1>1 DEF Placed
<1>3. ASSUME NEW j \in DOMAIN r, NEW k \in DOMAIN r, k # j
      PROVE  Contents(r[j].list) \intersect Contents(r[k].list) = {}
  <2> DEFINE p == placeBefore(i, j)
             q == placeBefore(i, k)
  <2>1. p \in DOMAIN batches /\ q \in DOMAIN batches /\ q # p /\ r[j] = batches[p] /\ r[k] = batches[q]
    BY <1>1, <1>3
  <2> HIDE DEF p, q
  <2>2. Contents(batches[p].list) \intersect Contents(batches[q].list) = {}
    BY <2>1 DEF Placed
  <2> QED BY <2>1, <2>2
<1>4. owed \ got = Contents(list) \union UNION {Contents(r[j].list) : j \in DOMAIN r}
  <2>1. owed = Contents(list) \union UNION {Contents(batches[k].list) : k \in DOMAIN batches}
    BY DEF Placed
  <2>2. ASSUME NEW e \in owed \ got
        PROVE  e \in Contents(list) \union UNION {Contents(r[j].list) : j \in DOMAIN r}
    <3>1. CASE e \in Contents(list)
      BY <3>1
    <3>2. CASE \E k \in DOMAIN batches : e \in Contents(batches[k].list)
      <4>1. PICK k \in DOMAIN batches : e \in Contents(batches[k].list)
        BY <3>2
      <4>2. k \in DOMAIN batches \ {i}
        BY <4>1, <2>2
      <4>3. PICK j \in DOMAIN r : placeBefore(i, j) = k
        BY <4>2, <1>1
      <4>4. e \in Contents(r[j].list)
        BY <4>1, <4>3, <1>1
      <4> QED BY <4>4
    <3> QED BY <2>1, <2>2, <3>1, <3>2
  <2>3. ASSUME NEW e, e \in Contents(list) \union UNION {Contents(r[j].list) : j \in DOMAIN r}
        PROVE  e \in owed \ got
    <3>1. CASE e \in Contents(list)
      <4>1. Contents(list) \intersect got = {}
        BY DEF Placed
      <4> QED BY <3>1, <4>1, <2>1
    <3>2. CASE \E j \in DOMAIN r : e \in Contents(r[j].list)
      <4>1. PICK j \in DOMAIN r : e \in Contents(r[j].list)
        BY <3>2
      <4>2. e \in Contents(batches[placeBefore(i, j)].list) /\ placeBefore(i, j) \in DOMAIN batches
        BY <4>1, <1>1
      <4>3. e \notin got
        BY <4>1, <1>2
      <4> HIDE DEF got
      <4> QED BY <4>2, <4>3, <2>1
    <3> QED BY <2>3, <3>1, <3>2
  <2> HIDE DEF got
  <2> QED BY <2>2, <2>3
<1>5. Distinct(list)
  BY DEF Placed
<1> HIDE DEF got
<1>6. Placed(list, r, owed \ got)
  BY <1>2, <1>3, <1>4, <1>5 DEF Placed
<1> QED BY <1>6 DEF r, got

(* A batch that failed is put back.                                          *)
LEMMA PlacedWhenPutBack ==
  ASSUME NEW list \in Seq(Events), NEW batches \in Seq(Batch), NEW owed,
         Placed(list, batches, owed), NEW i \in DOMAIN batches
  PROVE  Placed(list \o batches[i].list, RemoveAt(batches, i), owed)
<1> DEFINE r == RemoveAt(batches, i)
           back == batches[i].list
           l == list \o back
           got == Contents(back)
<1>1. back \in Seq(Events) /\ Distinct(back) /\ Contents(list) \intersect got = {} /\ got \subseteq owed
      /\ Distinct(list)
  <2>1. batches[i] \in Batch
    BY ElementOfSeq, LenProperties
  <2>2. back \in Seq(Events)
    BY <2>1 DEF Batch
  <2> QED BY <2>2 DEF Placed
<1>2. Distinct(l) /\ Contents(l) = Contents(list) \union got
  BY <1>1, JoinedList
<1>3. Placed(list, r, owed \ got)
  BY PlacedWhenConfirmed
<1>4. \A j \in DOMAIN r : Contents(r[j].list) \intersect got = {}
  <2>1. \A j \in DOMAIN r : Contents(r[j].list) \subseteq owed \ got
    <3> HIDE DEF got, r
    <3> QED BY <1>3 DEF Placed
  <2> QED BY <2>1
<1> HIDE DEF r, l, got
<1>5. \A j \in DOMAIN r : /\ Distinct(r[j].list)
                          /\ Contents(r[j].list) \intersect Contents(l) = {}
                          /\ \A k \in DOMAIN r : k # j => Contents(r[j].list) \intersect Contents(r[k].list) = {}
  BY <1>2, <1>3, <1>4 DEF Placed
<1>6. owed = Contents(l) \union UNION {Contents(r[j].list) : j \in DOMAIN r}
  <2>1. owed \ got = Contents(list) \union UNION {Contents(r[j].list) : j \in DOMAIN r}
    BY <1>3 DEF Placed
  <2> QED BY <2>1, <1>1, <1>2
<1>7. Placed(l, r, owed)
  BY <1>2, <1>5, <1>6 DEF Placed
<1> QED BY <1>7 DEF l, r

-----------------------------------------------------------------------------
(* The calls of the runner                                                   *)

LEMMA CallsAfterSend ==
  ASSUME inflight \in Seq(Batch), NEW b \in Batch, inflight' = Append(inflight, b)
  PROVE  /\ inflight' \in Seq(Batch)
         /\ b.by # "runner" => runnerCalls' = runnerCalls
         /\ b.by = "runner" => runnerCalls' = runnerCalls \union {Len(inflight) + 1}
         /\ Len(inflight) + 1 \in DOMAIN inflight'
         /\ DOMAIN inflight \subseteq DOMAIN inflight'
<1> DEFINE n == Len(inflight)
           r == Append(inflight, b)
<1>1. /\ n \in Nat /\ DOMAIN inflight = 1..n
      /\ r \in Seq(Batch) /\ DOMAIN r = 1..(n + 1)
      /\ \A j \in 1..n : r[j] = inflight[j]
      /\ r[n + 1] = b
  BY AppendProperties, LenProperties
<1>2. inflight' = r
  OBVIOUS
<1> HIDE DEF n, r
<1>3. /\ DOMAIN inflight' = DOMAIN inflight \union {n + 1} /\ n + 1 \notin DOMAIN inflight
      /\ \A j \in DOMAIN inflight : inflight'[j] = inflight[j]
      /\ inflight'[n + 1] = b
  BY <1>1, <1>2
<1>4. runnerCalls' = {j \in DOMAIN inflight' : inflight'[j].by = "runner"}
  BY DEF runnerCalls
<1>5. CASE b.by = "runner"
  BY <1>1, <1>2, <1>3, <1>4, <1>5 DEF runnerCalls, n
<1>6. CASE b.by # "runner"
  BY <1>1, <1>2, <1>3, <1>4, <1>6 DEF runnerCalls, n
<1> QED BY <1>5, <1>6

LEMMA CallsAfterReturn ==
  ASSUME inflight \in Seq(Batch), NEW i \in DOMAIN inflight, inflight' = RemoveAt(inflight, i)
  PROVE  /\ inflight' \in Seq(Batch)
         /\ runnerCalls \subseteq {i} => runnerCalls' = {}
         /\ \A k \in DOMAIN inflight \ {i} :
              runnerCalls = {k} => \E j \in DOMAIN inflight' : runnerCalls' = {j}
<1> DEFINE r == RemoveAt(inflight, i)
<1>1. r = RemoveAt(inflight, i)
  OBVIOUS
<1>2. r \in Seq(Batch)
  BY OthersKept
<1>3. \A j \in DOMAIN r : /\ placeBefore(i, j) \in DOMAIN inflight \ {i}
                          /\ r[j] = inflight[placeBefore(i, j)]
  BY OthersKept
<1>4. \A j, k \in DOMAIN r : placeBefore(i, j) = placeBefore(i, k) => j = k
  BY OthersKept
<1>5. \A k \in DOMAIN inflight \ {i} : \E j \in DOMAIN r : placeBefore(i, j) = k
  BY OthersKept
<1>6. inflight' = r
  OBVIOUS
<1> HIDE DEF r
<1>7. runnerCalls' = {j \in DOMAIN r : r[j].by = "runner"}
  BY <1>6 DEF runnerCalls
<1>8. \A j \in runnerCalls' : j \in DOMAIN r /\ placeBefore(i, j) \in runnerCalls \ {i}
  BY <1>3, <1>7 DEF runnerCalls
<1>9. ASSUME NEW k \in DOMAIN inflight \ {i}, runnerCalls = {k}
      PROVE  \E j \in DOMAIN inflight' : runnerCalls' = {j}
  <2>1. PICK j \in DOMAIN r : placeBefore(i, j) = k
    BY <1>5
  <2>2. j \in runnerCalls'
    BY <2>1, <1>3, <1>7, <1>9 DEF runnerCalls
  <2>3. \A l \in runnerCalls' : l = j
    BY <2>1, <1>4, <1>8, <1>9
  <2> QED BY <2>2, <2>3, <2>1, <1>6
<1>10. ASSUME runnerCalls \subseteq {i} PROVE runnerCalls' = {}
  BY <1>8, <1>10
<1> QED BY <1>2, <1>6, <1>9, <1>10

-----------------------------------------------------------------------------
(* The steps of the publisher                                                *)

(* What the collector has confirmed it has got.                              *)
PublisherInv == PublisherTypeOK /\ OnePlace /\ OneRunner /\ acknowledged \subseteq received

(* publishEvents, called with the list as it is.                             *)
LEMMA SendingKeeps ==
  ASSUME PublisherInv, NEW by \in {"runner", "addEvent", "stop"},
         NEW list \in Seq(Events), publishEvents(by, list)
  PROVE  /\ events' \in Seq(Events) /\ Contents(events)' = {}
         /\ inflight' \in Seq(Batch)
         /\ by # "runner" => runnerCalls' = runnerCalls
         /\ by = "runner" => runnerCalls' = runnerCalls \union {Len(inflight) + 1}
         /\ Len(inflight) + 1 \in DOMAIN inflight'
         /\ DOMAIN inflight \subseteq DOMAIN inflight'
         /\ \A owed : Placed(list, inflight, owed) => Placed(events', inflight', owed)
<1> DEFINE b == [by |-> by, list |-> list]
<1>1. b \in Batch /\ b.by = by /\ b.list = list
  BY DEF Batch
<1>2. inflight' = Append(inflight, b) /\ events' = <<>>
  BY DEF publishEvents
<1>3. inflight \in Seq(Batch)
  BY DEF PublisherInv, PublisherTypeOK, Batch
<1> HIDE DEF b
<1>4. /\ inflight' \in Seq(Batch)
      /\ by # "runner" => runnerCalls' = runnerCalls
      /\ by = "runner" => runnerCalls' = runnerCalls \union {Len(inflight) + 1}
      /\ Len(inflight) + 1 \in DOMAIN inflight'
      /\ DOMAIN inflight \subseteq DOMAIN inflight'
  BY <1>1, <1>2, <1>3, CallsAfterSend
<1>5. ASSUME NEW owed, Placed(list, inflight, owed) PROVE Placed(events', inflight', owed)
  BY <1>1, <1>2, <1>3, <1>5, PlacedWhenTaken
<1>6. events' \in Seq(Events) /\ Contents(events)' = {}
  BY <1>2, EmptyList DEF Contents
<1> QED BY <1>4, <1>5, <1>6

LEMMA StartKeeps ==
  ASSUME PublisherInv, ~isRunning, runnerCalls = {}, start
  PROVE  PublisherInv'
<1>1. /\ isRunning' = TRUE /\ publishEvents("runner", events)
      /\ UNCHANGED <<added, intervalId, acknowledged, received, faults>>
  BY DEF start
<1>2. events \in Seq(Events)
  BY DEF PublisherInv, PublisherTypeOK
<1>3. /\ events' \in Seq(Events) /\ inflight' \in Seq(Batch)
      /\ runnerCalls' = {Len(inflight) + 1} /\ Len(inflight) + 1 \in DOMAIN inflight'
      /\ \A owed : Placed(events, inflight, owed) => Placed(events', inflight', owed)
  BY <1>1, <1>2, SendingKeeps
<1>4. PublisherTypeOK'
  BY <1>1, <1>3 DEF PublisherInv, PublisherTypeOK, Batch
<1>5. OnePlace'
  BY <1>1, <1>3 DEF PublisherInv, OnePlace
<1>6. OneRunner'
  BY <1>1, <1>3 DEF PublisherInv, OneRunner
<1> QED BY <1>1, <1>4, <1>5, <1>6 DEF PublisherInv

LEMMA StopKeeps ==
  ASSUME PublisherInv, stop
  PROVE  PublisherInv' /\ (isRunning => Contents(events)' = {})
<1>1. CASE ~isRunning
  <2>1. UNCHANGED publisherVars
    BY <1>1 DEF stop
  <2> QED BY <1>1, <2>1 DEF PublisherInv, PublisherTypeOK, OnePlace, OneRunner, runnerCalls, publisherVars
<1>2. CASE isRunning
  <2>1. /\ isRunning' = FALSE /\ intervalId' = "none" /\ publishEvents("stop", events)
        /\ UNCHANGED <<added, acknowledged, received, faults>>
    BY <1>2 DEF stop
  <2>2. events \in Seq(Events)
    BY DEF PublisherInv, PublisherTypeOK
  <2>3. /\ events' \in Seq(Events) /\ Contents(events)' = {} /\ inflight' \in Seq(Batch)
        /\ \A owed : Placed(events, inflight, owed) => Placed(events', inflight', owed)
    BY <2>1, <2>2, SendingKeeps
  <2>4. PublisherTypeOK'
    BY <2>1, <2>3 DEF PublisherInv, PublisherTypeOK, Batch
  <2>5. OnePlace'
    BY <2>1, <2>3 DEF PublisherInv, OnePlace
  <2>6. OneRunner'
    BY <2>1 DEF OneRunner
  <2> QED BY <2>1, <2>3, <2>4, <2>5, <2>6 DEF PublisherInv
<1> QED BY <1>1, <1>2

LEMMA AddKeeps ==
  ASSUME PublisherInv, NEW e \in Events, addEvent(e)
  PROVE  /\ PublisherInv' /\ UNCHANGED <<isRunning, faults>>
         /\ Contents(events)' \subseteq Contents(events) \union {e}
         /\ runnerCalls' = runnerCalls
<1> DEFINE list == Append(events, e)
<1>1. events \in Seq(Events) /\ list \in Seq(Events) /\ Contents(list) = Contents(events) \union {e}
  BY AppendedList DEF PublisherInv, PublisherTypeOK
<1>2. /\ e \notin added /\ added' = added \union {e}
      /\ UNCHANGED <<isRunning, intervalId, acknowledged, received, faults>>
  BY DEF addEvent
<1>3. \/ publishEvents("addEvent", list)
      \/ events' = list /\ inflight' = inflight
  BY DEF addEvent
<1>4. Placed(list, inflight, (added \ acknowledged) \union {e})
  <2>1. inflight \in Seq(Batch) /\ Placed(events, inflight, added \ acknowledged)
    BY DEF PublisherInv, PublisherTypeOK, OnePlace, Batch
  <2>2. e \notin added \ acknowledged
    BY <1>2
  <2> QED BY <1>1, <2>1, <2>2, PlacedWhenAdded
<1>5. (added \ acknowledged) \union {e} = (added \ acknowledged)'
  BY <1>2 DEF PublisherInv, OnePlace
<1> HIDE DEF list
<1>6. /\ events' \in Seq(Events) /\ inflight' \in Seq(Batch)
      /\ Contents(events)' \subseteq Contents(events) \union {e}
      /\ runnerCalls' = runnerCalls /\ DOMAIN inflight \subseteq DOMAIN inflight'
      /\ Placed(events', inflight', (added \ acknowledged) \union {e})
  <2>1. CASE publishEvents("addEvent", list)
    BY <1>1, <1>4, <2>1, SendingKeeps
  <2>2. CASE events' = list /\ inflight' = inflight
    BY <1>1, <1>4, <2>2 DEF PublisherInv, PublisherTypeOK, Batch, runnerCalls, Contents
  <2> QED BY <1>3, <2>1, <2>2
<1>7. PublisherTypeOK'
  BY <1>2, <1>6 DEF PublisherInv, PublisherTypeOK, Batch
<1>8. OnePlace'
  BY <1>2, <1>5, <1>6 DEF PublisherInv, OnePlace
<1>9. OneRunner'
  BY <1>2, <1>6 DEF PublisherInv, OneRunner
<1> QED BY <1>2, <1>6, <1>7, <1>8, <1>9 DEF PublisherInv

LEMMA TimerKeeps ==
  ASSUME PublisherInv, RunnerTimer
  PROVE  /\ PublisherInv' /\ isRunning
         /\ UNCHANGED <<isRunning, added, faults>> /\ Contents(events)' = {}
<1>1. /\ intervalId = "armed" /\ intervalId' = "fired" /\ publishEvents("runner", events)
      /\ UNCHANGED <<added, isRunning, acknowledged, received, faults>>
  BY DEF RunnerTimer
<1>2. isRunning /\ runnerCalls = {}
  BY <1>1 DEF PublisherInv, OneRunner
<1>3. events \in Seq(Events)
  BY DEF PublisherInv, PublisherTypeOK
<1>4. /\ events' \in Seq(Events) /\ Contents(events)' = {} /\ inflight' \in Seq(Batch)
      /\ runnerCalls' = {Len(inflight) + 1} /\ Len(inflight) + 1 \in DOMAIN inflight'
      /\ \A owed : Placed(events, inflight, owed) => Placed(events', inflight', owed)
  BY <1>1, <1>2, <1>3, SendingKeeps
<1>5. PublisherTypeOK'
  BY <1>1, <1>4 DEF PublisherInv, PublisherTypeOK, Batch
<1>6. OnePlace'
  BY <1>1, <1>4 DEF PublisherInv, OnePlace
<1>7. OneRunner'
  BY <1>1, <1>2, <1>4 DEF OneRunner
<1> QED BY <1>1, <1>2, <1>4, <1>5, <1>6, <1>7 DEF PublisherInv

(* The return of a call of publishEvents, whichever it is.                   *)
LEMMA ReturnKeepsRunner ==
  ASSUME PublisherInv, NEW i \in DOMAIN inflight, inflight' = RemoveAt(inflight, i),
         continues(inflight[i].by), UNCHANGED isRunning
  PROVE  OneRunner' /\ (runnerCalls = {} => runnerCalls' = {} /\ UNCHANGED intervalId)
<1>1. inflight \in Seq(Batch)
  BY DEF PublisherInv, PublisherTypeOK, Batch
<1>2. /\ runnerCalls \subseteq {i} => runnerCalls' = {}
      /\ \A k \in DOMAIN inflight \ {i} :
           runnerCalls = {k} => \E j \in DOMAIN inflight' : runnerCalls' = {j}
  BY <1>1, CallsAfterReturn
<1>3. i \in runnerCalls <=> inflight[i].by = "runner"
  BY DEF runnerCalls
<1>4. intervalId' = IF inflight[i].by = "runner" /\ isRunning THEN "armed" ELSE intervalId
  BY DEF continues
<1>5. CASE isRunning /\ intervalId = "armed"
  <2>1. runnerCalls = {}
    BY <1>5 DEF PublisherInv, OneRunner
  <2> QED BY <1>2, <1>3, <1>4, <1>5, <2>1 DEF OneRunner
<1>6. CASE isRunning /\ intervalId # "armed"
  <2>1. PICK k \in DOMAIN inflight : runnerCalls = {k}
    BY <1>6 DEF PublisherInv, OneRunner
  <2>2. CASE k = i
    BY <1>2, <1>3, <1>4, <1>6, <2>1, <2>2 DEF OneRunner
  <2>3. CASE k # i
    BY <1>2, <1>3, <1>4, <1>6, <2>1, <2>3 DEF OneRunner
  <2> QED BY <2>2, <2>3
<1>7. CASE ~isRunning
  BY <1>2, <1>3, <1>4, <1>7 DEF PublisherInv, OneRunner
<1> QED BY <1>5, <1>6, <1>7

LEMMA PublishedKeeps ==
  ASSUME PublisherInv, Published
  PROVE  /\ PublisherInv' /\ UNCHANGED <<added, events, isRunning, faults>>
         /\ runnerCalls = {} => runnerCalls' = {} /\ UNCHANGED intervalId
<1>1. PICK i \in DOMAIN inflight :
        /\ inflight' = RemoveAt(inflight, i)
        /\ acknowledged' = acknowledged \union Contents(inflight[i].list)
        /\ received' = received \union Contents(inflight[i].list)
        /\ continues(inflight[i].by)
        /\ UNCHANGED <<added, events, isRunning, faults>>
  BY DEF Published
<1> DEFINE got == Contents(inflight[i].list)
<1>2. inflight \in Seq(Batch) /\ events \in Seq(Events) /\ inflight' \in Seq(Batch)
  BY <1>1, CallsAfterReturn DEF PublisherInv, PublisherTypeOK, Batch
<1>3. Placed(events, inflight', (added \ acknowledged) \ got)
  BY <1>1, <1>2, PlacedWhenConfirmed DEF PublisherInv, OnePlace
<1>4. got \subseteq added
  BY DEF PublisherInv, OnePlace, Placed
<1>5. OneRunner' /\ (runnerCalls = {} => runnerCalls' = {} /\ UNCHANGED intervalId)
  BY <1>1, ReturnKeepsRunner
<1> HIDE DEF got
<1>6. /\ acknowledged' = acknowledged \union got /\ received' = received \union got
      /\ UNCHANGED <<added, events, isRunning, faults>>
  BY <1>1 DEF got
<1>7. (added \ acknowledged)' = (added \ acknowledged) \ got
  BY <1>6
<1>8. OnePlace'
  BY <1>3, <1>4, <1>6, <1>7 DEF PublisherInv, OnePlace
<1>9. intervalId' \in {"none", "armed", "fired"}
  BY <1>1 DEF continues, PublisherInv, PublisherTypeOK
<1>10. PublisherTypeOK'
  BY <1>2, <1>4, <1>6, <1>9 DEF PublisherInv, PublisherTypeOK, Batch
<1> QED BY <1>5, <1>6, <1>8, <1>10 DEF PublisherInv

LEMMA FailureKeeps ==
  ASSUME PublisherInv, PublishFails
  PROVE  /\ PublisherInv' /\ UNCHANGED <<added, isRunning>> /\ faults' # 0
         /\ runnerCalls = {} => runnerCalls' = {} /\ UNCHANGED intervalId
<1>1. PICK i \in DOMAIN inflight :
        /\ faults < MaxFaults /\ faults' = faults + 1
        /\ inflight' = RemoveAt(inflight, i)
        /\ events' = events \o inflight[i].list
        /\ \/ received' = received \union Contents(inflight[i].list)
           \/ UNCHANGED received
        /\ continues(inflight[i].by)
        /\ UNCHANGED <<added, isRunning, acknowledged>>
  BY DEF PublishFails
<1> DEFINE got == Contents(inflight[i].list)
<1>2. inflight \in Seq(Batch) /\ events \in Seq(Events) /\ inflight' \in Seq(Batch)
  BY <1>1, CallsAfterReturn DEF PublisherInv, PublisherTypeOK, Batch
<1>3. inflight[i] \in Batch
  BY <1>2, ElementOfSeq, LenProperties
<1>4. events' \in Seq(Events)
  BY <1>1, <1>2, <1>3, ConcatProperties DEF Batch
<1>5. Placed(events', inflight', added \ acknowledged)
  BY <1>1, <1>2, PlacedWhenPutBack DEF PublisherInv, OnePlace
<1>6. got \subseteq added
  BY DEF PublisherInv, OnePlace, Placed
<1>7. OneRunner' /\ (runnerCalls = {} => runnerCalls' = {} /\ UNCHANGED intervalId)
  BY <1>1, ReturnKeepsRunner
<1>8. OnePlace'
  BY <1>1, <1>5 DEF PublisherInv, OnePlace
<1>9. intervalId' \in {"none", "armed", "fired"}
  BY <1>1 DEF continues, PublisherInv, PublisherTypeOK
<1>10. faults' \in 0..MaxFaults /\ faults' # 0
  BY <1>1, MaxFaultsAssumption DEF PublisherInv, PublisherTypeOK
<1>11. received' \subseteq Events /\ acknowledged' \subseteq received'
  BY <1>1, <1>6 DEF PublisherInv, PublisherTypeOK
<1>12. PublisherTypeOK'
  BY <1>1, <1>2, <1>4, <1>9, <1>10, <1>11 DEF PublisherInv, PublisherTypeOK, Batch
<1> QED BY <1>1, <1>7, <1>8, <1>10, <1>11, <1>12 DEF PublisherInv
-----------------------------------------------------------------------------
(* The invariant                                                             *)

(* The flags and the enrichment are of one version, also in what an          *)
(* evaluation on its way has read; a dated configuration has its own date.   *)
ConfigurationInv ==
  /\ flags = evaluationContextEnrichment
  /\ dated => lastUpdate = etag
  /\ \A c \in Calls : call[c].phase # "none"
       => call[c].input.flag = call[c].input.evaluationContextEnrichment

(* How far initialize() and onClose() are, and what may run then.            *)
StageInv ==
  /\ init \in {"idle", "wasm"} => load = "none"
  /\ load = "first" => init = "loading"
  /\ init \in {"idle", "wasm", "loading"} => periodicRunner = "none" /\ load # "poll"
  /\ init # "ready" => ~isRunning /\ runnerCalls = {} /\ intervalId = "none"
  /\ init = "ready" /\ close \in {"open", "disposed"} => isRunning
  /\ close # "open" /\ clean => periodicRunner = "none" /\ init \in {"ready", "failed"}
  /\ close \in {"stopping", "closed"} /\ clean => ~isRunning

(* Once the publisher was stopped its list holds late events only.           *)
HandedOver ==
  close \in {"stopping", "closed"} /\ clean /\ init = "ready" /\ faults = 0
    => Contents(events) \subseteq late

(* The parts of the evaluator and its evaluations.                           *)
EvaluatorInv ==
  EvaluatorTypeOK /\ EvaluationTypeOK /\ ConfigurationInv /\ AnswersTyped /\ OneConfiguration

ProviderTypeOK ==
  /\ init \in {"idle", "wasm", "loading", "loaded", "ready", "failed"}
  /\ close \in {"open", "disposed", "stopping", "closed"}
  /\ clean \in BOOLEAN
  /\ late \subseteq Events

IInv == PublisherInv /\ EvaluatorInv /\ ProviderTypeOK /\ StageInv /\ HandedOver

-----------------------------------------------------------------------------
(* The evaluator and the engine                                              *)

LEMMA LoadedKeeps ==
  ASSUME EvaluatorTypeOK, flags = evaluationContextEnrichment, dated => lastUpdate = etag, Loaded
  PROVE  /\ EvaluatorTypeOK' /\ UNCHANGED dated
         /\ flags' = evaluationContextEnrichment'
         /\ dated => lastUpdate' = etag' /\ (etag' # etag => etag' > etag)
<1>1. PICK version \in 1..server, parsed \in BOOLEAN :
        LET date == IF dated THEN version ELSE None
        IN /\ parsed \/ (loadFaults < MaxLoadFaults /\ version # etag)
           /\ loadFaults' = IF parsed THEN loadFaults ELSE loadFaults + 1
           /\ IF etag = version \/ isOlder(date) THEN UNCHANGED configuration
              ELSE accepted(version, date, parsed)
  BY DEF Loaded
<1>2. finished(TRUE) /\ UNCHANGED <<server, dated>>
  BY DEF Loaded
<1>3. /\ load' = "none" /\ periodicRunner' \in {"none", "armed", "fired"}
      /\ configurationState' \in {"not_initialized", "initialized", "error"}
  BY <1>2 DEF finished, EvaluatorTypeOK
<1>4. loadFaults' \in 0..MaxLoadFaults
  BY <1>1, MaxLoadFaultsAssumption DEF EvaluatorTypeOK
<1>5. version \in 0..MaxVersion /\ None \in 0..MaxVersion
  BY MaxVersionAssumption DEF EvaluatorTypeOK, None
<1>6. CASE UNCHANGED configuration
  BY <1>2, <1>3, <1>4, <1>6 DEF configuration, EvaluatorTypeOK
<1>7. CASE /\ etag # version
           /\ ~isOlder(IF dated THEN version ELSE None)
           /\ accepted(version, IF dated THEN version ELSE None, parsed)
  <2>1. /\ etag' = version /\ lastUpdate' = IF dated THEN version ELSE None
        /\ flags' \in {version, None} /\ evaluationContextEnrichment' = flags'
        /\ unreadable' \in BOOLEAN
    BY <1>7 DEF accepted
  <2>2. EvaluatorTypeOK'
    BY <1>2, <1>3, <1>4, <1>5, <2>1 DEF EvaluatorTypeOK
  <2>3. ASSUME dated PROVE etag' > etag
    <3>1. lastUpdate = etag /\ etag \in Nat /\ version \in Nat /\ version # None
      BY <2>3 DEF EvaluatorTypeOK, None
    <3>2. ~(etag # None /\ version < etag)
      BY <1>7, <2>3, <3>1 DEF isOlder
    <3> QED BY <1>7, <2>1, <3>1, <3>2 DEF None
  <2> QED BY <1>2, <2>1, <2>2, <2>3
<1> QED BY <1>1, <1>6, <1>7

LEMMA EvaluatorKeeps ==
  ASSUME EvaluatorTypeOK, flags = evaluationContextEnrichment, dated => lastUpdate = etag,
         EvaluatorSteps
  PROVE  /\ EvaluatorTypeOK' /\ UNCHANGED dated
         /\ flags' = evaluationContextEnrichment'
         /\ dated => lastUpdate' = etag' /\ (etag' # etag => etag' > etag)
<1>1. CASE ServerChanges
  BY <1>1, MaxVersionAssumption DEF ServerChanges, EvaluatorTypeOK, configuration
<1>2. CASE Loaded
  BY <1>2, LoadedKeeps
<1>3. CASE LoadFails
  BY <1>3, MaxLoadFaultsAssumption DEF LoadFails, finished, EvaluatorTypeOK, configuration
<1>4. CASE PollTimer
  BY <1>4 DEF PollTimer, loadConfiguration, EvaluatorTypeOK, configuration
<1> QED BY <1>1, <1>2, <1>3, <1>4 DEF EvaluatorSteps

(* What the timers do in a step of the evaluator.                            *)
LEMMA EvaluatorTimers ==
  ASSUME EvaluatorTypeOK, EvaluatorSteps
  PROVE  /\ load # "first" => load' # "first"
         /\ load # "first" /\ periodicRunner = "none" => periodicRunner' = "none"
         /\ load = "none" /\ periodicRunner = "none" => load' = "none"
         /\ load = "first" /\ periodicRunner = "none" =>
              \/ load' = "first" /\ periodicRunner' = "none"
              \/ load' = "none"
<1>1. CASE ServerChanges
  BY <1>1 DEF ServerChanges, EvaluatorTypeOK
<1>2. CASE Loaded
  BY <1>2 DEF Loaded, finished, EvaluatorTypeOK
<1>3. CASE LoadFails
  BY <1>3 DEF LoadFails, finished, EvaluatorTypeOK
<1>4. CASE PollTimer
  BY <1>4 DEF PollTimer, loadConfiguration, EvaluatorTypeOK
<1> QED BY <1>1, <1>2, <1>3, <1>4 DEF EvaluatorSteps

(* A response is handed on as it is, or nothing usable is.                   *)
LEMMA HandedOnOrNothing ==
  ASSUME NEW r \in evaluateNow
  PROVE  /\ r[1] = NoResponse \/ r[1] \in [errorCode : ErrorCodes, value : ValueTypes]
         /\ r[2] \in {r[1], NoResponse}
<1>1. CASE r = <<NoResponse, NoResponse>>
  BY <1>1
<1>2. CASE \E s \in [errorCode : ErrorCodes, value : ValueTypes], a \in 1..(Width - 1) :
             r = <<s, readBack(a, s)>>
  <2>1. PICK s \in [errorCode : ErrorCodes, value : ValueTypes], a \in 1..(Width - 1) :
          r = <<s, readBack(a, s)>>
    BY <1>2
  <2>2. readBack(a, s) \in {s, NoResponse}
    BY DEF readBack
  <2> QED BY <2>1, <2>2
<1> QED BY <1>1, <1>2 DEF evaluateNow

(* What is settled from a response that was handed on or lost.               *)
LEMMA SettledSoundly ==
  ASSUME NEW c \in Calls, NEW input, NEW response, NEW got, Settled(c, input, response, got),
         \/ response = NoResponse
         \/ response.errorCode \in CodesWithErrors \union {"GENERAL"}
         \/ response \in [errorCode : ErrorCodes, value : ValueTypes],
         got \in {response, NoResponse},
         input.flag = input.evaluationContextEnrichment
  PROVE  AnswersTyped' /\ OneConfiguration' /\ call' = [call EXCEPT ![c] = NoCall]
<1> DEFINE answer == evaluateAs(Asked[c], got)
           s == [asked |-> Asked[c], input |-> input, response |-> response, answer |-> answer]
<1>1. settled' = {s} /\ call' = [call EXCEPT ![c] = NoCall]
  BY DEF Settled
<1>2. \A code : Throws(code).error # NoError
  BY DEF Throws, CodesWithErrors, NoError
<1>3. ASSUME answer.error = NoError
      PROVE  /\ response = [errorCode |-> NoError, value |-> answer.value]
             /\ answer.value \in {Asked[c]} \union (IF Asked[c] = "object" THEN {"array"} ELSE {})
  <2>1. /\ got.errorCode = NoError /\ hasType(got.value, Asked[c])
        /\ answer = Yields(got.value)
    BY <1>2, <1>3 DEF evaluateAs
  <2>2. got # NoResponse /\ got.errorCode \notin CodesWithErrors \union {"GENERAL"}
    BY <2>1 DEF NoResponse, NoError, CodesWithErrors
  <2>3. got = response /\ response \in [errorCode : ErrorCodes, value : ValueTypes]
    BY <2>2
  <2>4. answer.value = response.value /\ response.errorCode = NoError
    BY <2>1, <2>3 DEF Yields
  <2>5. answer.value \in {Asked[c]} \union (IF Asked[c] = "object" THEN {"array"} ELSE {})
    BY <2>1, <2>3, <2>4 DEF hasType
  <2> HIDE DEF answer
  <2> QED BY <2>3, <2>4, <2>5
<1> HIDE DEF answer
<1>4. AnswersTyped'
  BY <1>1, <1>3 DEF AnswersTyped
<1>5. OneConfiguration'
  BY <1>1 DEF OneConfiguration
<1> QED BY <1>1, <1>4, <1>5

LEMMA EvaluationsKeep ==
  ASSUME EvaluationTypeOK, EvaluatorTypeOK, ConfigurationInv, AnswersTyped, OneConfiguration,
         EvaluationSteps
  PROVE  /\ EvaluationTypeOK' /\ AnswersTyped' /\ OneConfiguration'
         /\ \A c \in Calls : call'[c].phase # "none"
              => call'[c].input.flag = call'[c].input.evaluationContextEnrichment
         /\ UNCHANGED evaluatorVars
<1>1. PICK c \in Calls : evaluate(c) \/ EngineLoadedFor(c) \/ EngineThrowsFor(c) \/ EvaluationGoesOn(c)
  BY DEF EvaluationSteps
<1> DEFINE CallInv(k) == k.phase # "none" => k.input.flag = k.input.evaluationContextEnrichment
           CallType == {NoCall} \union [phase : {"loading", "loaded"}, input : Inputs]
<1>2. call \in [Calls -> CallType] /\ \A d \in Calls : CallInv(call[d])
  BY DEF EvaluationTypeOK, ConfigurationInv
<1>3. NoCall \in CallType /\ CallInv(NoCall)
  BY DEF NoCall
<1>4. UNCHANGED evaluatorVars
  BY <1>1 DEF evaluate, EngineLoadedFor, EngineThrowsFor, EvaluationGoesOn
<1>5. WasmTypeOK'
  <2>1. UNCHANGED wasmVars \/ (UNCHANGED wasmFiles /\ wasmExports' \in {"whole", "partial"})
    BY <1>1 DEF evaluate, EngineLoadedFor, EngineThrowsFor, EvaluationGoesOn, engineLoads, engineThrows, loadEngine
  <2> QED BY <2>1 DEF EvaluationTypeOK, WasmTypeOK, wasmVars
<1>6. inputNow \in Inputs /\ inputNow.flag = inputNow.evaluationContextEnrichment
  BY DEF inputNow, Inputs, Versions, EvaluatorTypeOK, ConfigurationInv
<1>7. ASSUME NEW k \in CallType, CallInv(k), call' = [call EXCEPT ![c] = k]
      PROVE  /\ EvaluationTypeOK'
             /\ \A d \in Calls : CallInv(call'[d])
  <2>1. call' \in [Calls -> CallType] /\ \A d \in Calls : call'[d] \in {call[d], k}
    <3> HIDE DEF CallType
    <3> QED BY <1>2, <1>7
  <2>2. \A d \in Calls : CallInv(call'[d])
    <3> HIDE DEF CallInv
    <3> QED BY <1>2, <1>7, <2>1
  <2> QED BY <1>5, <2>1, <2>2 DEF EvaluationTypeOK
<1>8. ASSUME NEW input, NEW response, NEW got, Settled(c, input, response, got),
             \/ response = NoResponse
             \/ response.errorCode \in CodesWithErrors \union {"GENERAL"}
             \/ response \in [errorCode : ErrorCodes, value : ValueTypes],
             got \in {response, NoResponse},
             input.flag = input.evaluationContextEnrichment
      PROVE  /\ EvaluationTypeOK' /\ AnswersTyped' /\ OneConfiguration'
             /\ \A d \in Calls : CallInv(call'[d])
  <2>1. AnswersTyped' /\ OneConfiguration' /\ call' = [call EXCEPT ![c] = NoCall]
    BY <1>8, SettledSoundly
  <2> QED BY <1>3, <1>7, <2>1
<1>9. ASSUME NEW input, input.flag = input.evaluationContextEnrichment,
             \E r \in evaluateNow : Settled(c, input, r[1], r[2])
      PROVE  /\ EvaluationTypeOK' /\ AnswersTyped' /\ OneConfiguration'
             /\ \A d \in Calls : CallInv(call'[d])
  <2>1. PICK r \in evaluateNow : Settled(c, input, r[1], r[2])
    BY <1>9
  <2>2. /\ r[1] = NoResponse \/ r[1] \in [errorCode : ErrorCodes, value : ValueTypes]
        /\ r[2] \in {r[1], NoResponse}
    BY HandedOnOrNothing
  <2> QED BY <1>8, <1>9, <2>1, <2>2
<1>10. ASSUME UNCHANGED settled PROVE AnswersTyped' /\ OneConfiguration'
  BY <1>10 DEF AnswersTyped, OneConfiguration
<1>11. ASSUME call[c].phase \in {"loading", "loaded"}
       PROVE  /\ call[c].input \in Inputs
              /\ call[c].input.flag = call[c].input.evaluationContextEnrichment
  <2>1. call[c] # NoCall /\ call[c].phase # "none"
    BY <1>11 DEF NoCall
  <2> QED BY <1>2, <2>1
<1>12. CASE evaluate(c)
  <2>1. CASE Settled(c, NoInput, refusal, refusal)
    <3>1. refusal.errorCode \in CodesWithErrors \union {"GENERAL"}
      BY DEF refusal, CodesWithErrors
    <3>2. NoInput.flag = NoInput.evaluationContextEnrichment
      BY DEF NoInput
    <3> QED BY <1>4, <1>8, <2>1, <3>1, <3>2
  <2>2. CASE \E r \in evaluateNow : Settled(c, inputNow, r[1], r[2])
    BY <1>4, <1>6, <1>9, <2>2
  <2>3. CASE /\ call' = [call EXCEPT ![c] = [phase |-> "loading", input |-> inputNow]]
             /\ UNCHANGED settled
    <3> DEFINE k == [phase |-> "loading", input |-> inputNow]
    <3>1. k \in CallType /\ CallInv(k)
      BY <1>6
    <3> HIDE DEF k, CallInv, CallType
    <3>2. call' = [call EXCEPT ![c] = k]
      BY <2>3 DEF k
    <3> QED BY <1>4, <1>7, <1>10, <2>3, <3>1, <3>2 DEF CallInv
  <2> QED BY <1>12, <2>1, <2>2, <2>3 DEF evaluate
<1>13. CASE EngineLoadedFor(c)
  <2> DEFINE k == [phase |-> "loaded", input |-> call[c].input]
  <2>1. k \in CallType /\ CallInv(k)
    BY <1>11, <1>13 DEF EngineLoadedFor
  <2> HIDE DEF k, CallInv, CallType
  <2>2. call' = [call EXCEPT ![c] = k] /\ UNCHANGED settled
    BY <1>13 DEF EngineLoadedFor, k
  <2> QED BY <1>4, <1>7, <1>10, <2>1, <2>2 DEF CallInv
<1>14. CASE EngineThrowsFor(c)
  <2>1. Settled(c, call[c].input, NoResponse, NoResponse) /\ call[c].phase = "loading"
    BY <1>14 DEF EngineThrowsFor
  <2> QED BY <1>4, <1>8, <1>11, <2>1
<1>15. CASE EvaluationGoesOn(c)
  <2>1. /\ call[c].phase = "loaded"
        /\ \E r \in evaluateNow : Settled(c, call[c].input, r[1], r[2])
    BY <1>15 DEF EvaluationGoesOn
  <2> QED BY <1>4, <1>9, <1>11, <2>1
<1> QED BY <1>1, <1>12, <1>13, <1>14, <1>15

-----------------------------------------------------------------------------
(* The provider                                                              *)

(* Only the provider's own variables and the engine change.                  *)
LEMMA EvaluatorLeftAlone ==
  ASSUME EvaluatorInv, EvaluatorTypeOK', WasmTypeOK',
         UNCHANGED <<dated, configuration, call, settled>>
  PROVE  EvaluatorInv'
BY DEF EvaluatorInv, EvaluationTypeOK, ConfigurationInv, AnswersTyped, OneConfiguration, configuration,
       Inputs, Versions

LEMMA PublisherLeftAlone ==
  ASSUME PublisherInv, UNCHANGED publisherVars
  PROVE  PublisherInv' /\ runnerCalls' = runnerCalls /\ Contents(events)' = Contents(events)
BY DEF PublisherInv, PublisherTypeOK, OnePlace, OneRunner, runnerCalls, publisherVars, Contents

LEMMA EngineKeeps ==
  ASSUME WasmTypeOK, engineLoads \/ engineThrows \/ disposeEngine
  PROVE  WasmTypeOK'
BY DEF WasmTypeOK, engineLoads, engineThrows, disposeEngine, loadEngine, wasmVars

LEMMA InitIInv == Init => IInv
<1> SUFFICES ASSUME Init PROVE IInv
  OBVIOUS
<1>1. PublisherInv
  <2>1. /\ added = {} /\ events = <<>> /\ isRunning = FALSE /\ intervalId = "none"
        /\ inflight = <<>> /\ acknowledged = {} /\ received = {} /\ faults = 0
    BY DEF Init, PublisherInit
  <2>2. PublisherTypeOK
    <3>1. events \in Seq(Events) /\ inflight \in Seq([by : {"runner", "addEvent", "stop"}, list : Seq(Events)])
      BY <2>1, EmptySeq
    <3>2. faults \in 0..MaxFaults
      BY <2>1, MaxFaultsAssumption
    <3> QED BY <2>1, <3>1, <3>2 DEF PublisherTypeOK
  <2>3. Placed(events, inflight, added \ acknowledged)
    BY <2>1, EmptyList DEF Placed
  <2> QED BY <2>1, <2>2, <2>3 DEF PublisherInv, OnePlace, OneRunner
<1>2. EvaluatorInv
  <2>1. EvaluatorTypeOK
    <3>1. EvaluatorInit
      BY DEF Init
    <3>2. server \in 1..MaxVersion /\ None \in 0..MaxVersion /\ loadFaults \in 0..MaxLoadFaults
      BY <3>1, MaxVersionAssumption, MaxLoadFaultsAssumption DEF EvaluatorInit, None
    <3>3. {etag, lastUpdate, flags, evaluationContextEnrichment} \subseteq 0..MaxVersion
      BY <3>1, <3>2 DEF EvaluatorInit
    <3> QED BY <3>1, <3>2, <3>3 DEF EvaluatorInit, EvaluatorTypeOK
  <2>2. WasmTypeOK
    BY ResponsesAssumption DEF Init, EvaluationInit, WasmInit, WasmTypeOK
  <2>3. call \in [Calls -> {NoCall}] /\ settled = {}
    BY DEF Init, EvaluationInit
  <2>4. EvaluationTypeOK /\ AnswersTyped /\ OneConfiguration
    BY <2>2, <2>3 DEF EvaluationTypeOK, AnswersTyped, OneConfiguration
  <2>5. ConfigurationInv
    BY <2>3 DEF Init, EvaluatorInit, ConfigurationInv, NoCall
  <2> QED BY <2>1, <2>4, <2>5 DEF EvaluatorInv
<1>3. ProviderTypeOK /\ HandedOver
  BY DEF Init, ProviderTypeOK, HandedOver
<1>4. StageInv
  BY DEF Init, PublisherInit, EvaluatorInit, StageInv, runnerCalls
<1> QED BY <1>1, <1>2, <1>3, <1>4 DEF IInv

(* A step keeps the invariant, and no dated configuration is replaced by an  *)
(* earlier one.                                                              *)
Forwards == dated /\ etag' # etag => etag' > etag

LEMMA EvaluatorStepKeeps ==
  ASSUME IInv, EvaluatorStep
  PROVE  IInv' /\ Forwards
<1>1. /\ EvaluatorSteps
      /\ init' = IF load = "first" /\ load' = "none"
                 THEN IF configurationState' = "initialized" THEN "loaded" ELSE "failed"
                 ELSE init
      /\ UNCHANGED evaluationVars /\ UNCHANGED publisherVars /\ UNCHANGED <<close, clean, late>>
  BY DEF EvaluatorStep, evaluatorOnly
<1>2. /\ EvaluatorTypeOK' /\ UNCHANGED dated /\ flags' = evaluationContextEnrichment'
      /\ dated => lastUpdate' = etag' /\ (etag' # etag => etag' > etag)
  BY <1>1, EvaluatorKeeps DEF IInv, EvaluatorInv, ConfigurationInv
<1>3. EvaluatorInv'
  BY <1>1, <1>2 DEF IInv, EvaluatorInv, EvaluationTypeOK, WasmTypeOK, ConfigurationInv, AnswersTyped,
     OneConfiguration, evaluationVars, wasmVars, Inputs, Versions
<1>4. /\ load # "first" => load' # "first"
      /\ load # "first" /\ periodicRunner = "none" => periodicRunner' = "none"
      /\ load = "none" /\ periodicRunner = "none" => load' = "none"
      /\ load = "first" /\ periodicRunner = "none" =>
           \/ load' = "first" /\ periodicRunner' = "none"
           \/ load' = "none"
  BY <1>1, EvaluatorTimers DEF IInv, EvaluatorInv
<1>5. PublisherInv' /\ runnerCalls' = runnerCalls /\ Contents(events)' = Contents(events)
  BY <1>1, PublisherLeftAlone DEF IInv
<1>6. ProviderTypeOK'
  BY <1>1 DEF IInv, ProviderTypeOK
<1>7. load \in {"none", "first", "poll"} /\ load' \in {"none", "first", "poll"}
  BY <1>2 DEF IInv, EvaluatorInv, EvaluatorTypeOK
<1>8. StageInv'
  <2>1. CASE load = "first"
    BY <2>1, <1>1, <1>4, <1>5, <1>7 DEF IInv, StageInv, ProviderTypeOK, publisherVars
  <2>2. CASE load # "first"
    BY <2>2, <1>1, <1>4, <1>5, <1>7 DEF IInv, StageInv, ProviderTypeOK, publisherVars
  <2> QED BY <2>1, <2>2
<1>9. HandedOver'
  BY <1>1, <1>5 DEF IInv, StageInv, HandedOver, publisherVars
<1> QED BY <1>2, <1>3, <1>5, <1>6, <1>8, <1>9 DEF IInv, Forwards

LEMMA PublisherStepKeeps ==
  ASSUME IInv, PublisherStep
  PROVE  IInv' /\ Forwards
<1>1. /\ PublisherSteps
      /\ close' \in {close, "closed"} /\ (close' # close => close = "stopping")
      /\ UNCHANGED <<evaluatorVars, evaluationVars>> /\ UNCHANGED <<init, clean, late>>
  BY DEF PublisherStep, publisherOnly
<1>2. /\ PublisherInv' /\ UNCHANGED isRunning
      /\ init # "ready" => runnerCalls' = {} /\ intervalId' = "none"
      /\ faults' = 0 => faults = 0 /\ Contents(events)' \subseteq Contents(events)
  <2>1. init # "ready" => ~isRunning /\ runnerCalls = {} /\ intervalId = "none"
    BY DEF IInv, StageInv
  <2>2. CASE RunnerTimer
    BY <2>1, <2>2, TimerKeeps DEF IInv
  <2>3. CASE Published
    BY <2>1, <2>3, PublishedKeeps DEF IInv, Contents
  <2>4. CASE PublishFails
    BY <2>1, <2>4, FailureKeeps DEF IInv
  <2> QED BY <1>1, <2>2, <2>3, <2>4 DEF PublisherSteps
<1>3. EvaluatorInv' /\ Forwards
  BY <1>1 DEF IInv, EvaluatorInv, EvaluatorTypeOK, EvaluationTypeOK, WasmTypeOK, ConfigurationInv,
     AnswersTyped, OneConfiguration, evaluatorVars, evaluationVars, wasmVars, configuration, Inputs,
     Versions, Forwards
<1>4. ProviderTypeOK'
  BY <1>1 DEF IInv, ProviderTypeOK
<1>5. StageInv'
  BY <1>1, <1>2 DEF IInv, StageInv, ProviderTypeOK, evaluatorVars
<1>6. HandedOver'
  BY <1>1, <1>2 DEF IInv, HandedOver
<1> QED BY <1>2, <1>3, <1>4, <1>5, <1>6 DEF IInv

LEMMA ClosingKeeps ==
  ASSUME IInv, onClose \/ StopPublisher
  PROVE  IInv' /\ Forwards
<1>1. CASE onClose
  <2>1. /\ close = "open" /\ close' = "disposed" /\ clean' = (init \in {"ready", "failed"})
        /\ periodicRunner' = "none" /\ UNCHANGED <<dated, configuration, call, settled>>
        /\ UNCHANGED <<server, configurationState, load, loadFaults>>
        /\ disposeEngine /\ UNCHANGED publisherVars /\ UNCHANGED <<init, late>>
    BY <1>1 DEF onClose, disposeEvaluator, evaluatorOnly
  <2>2. EvaluatorInv'
    <3>1. EvaluatorTypeOK'
      BY <2>1 DEF IInv, EvaluatorInv, EvaluatorTypeOK, configuration
    <3>2. WasmTypeOK'
      BY <2>1, EngineKeeps DEF IInv, EvaluatorInv, EvaluationTypeOK
    <3> QED BY <2>1, <3>1, <3>2, EvaluatorLeftAlone DEF IInv
  <2>3. PublisherInv' /\ runnerCalls' = runnerCalls
    BY <2>1, PublisherLeftAlone DEF IInv
  <2>4. ProviderTypeOK' /\ HandedOver' /\ Forwards
    BY <2>1 DEF IInv, ProviderTypeOK, HandedOver, Forwards, configuration
  <2>5. StageInv'
    BY <2>1, <2>3 DEF IInv, StageInv, publisherVars
  <2> QED BY <2>2, <2>3, <2>4, <2>5 DEF IInv
<1>2. CASE StopPublisher
  <2>1. /\ close = "disposed" /\ close' = (IF isRunning THEN "stopping" ELSE "closed")
        /\ stop /\ UNCHANGED <<evaluatorVars, evaluationVars>> /\ UNCHANGED <<init, clean, late>>
    BY <1>2 DEF StopPublisher, publisherOnly
  <2>2. PublisherInv' /\ (isRunning => Contents(events)' = {})
    BY <2>1, StopKeeps DEF IInv
  <2>3. /\ ~isRunning'
        /\ ~isRunning => UNCHANGED publisherVars
    BY <2>1 DEF stop, publisherVars
  <2>4. init # "ready" => runnerCalls' = {} /\ intervalId' = "none"
    BY <2>1, <2>3, PublisherLeftAlone DEF IInv, StageInv, publisherVars
  <2>5. EvaluatorInv' /\ Forwards
    BY <2>1 DEF IInv, EvaluatorInv, EvaluatorTypeOK, EvaluationTypeOK, WasmTypeOK, ConfigurationInv,
       AnswersTyped, OneConfiguration, evaluatorVars, evaluationVars, wasmVars, configuration, Inputs,
       Versions, Forwards
  <2>6. ProviderTypeOK'
    BY <2>1 DEF IInv, ProviderTypeOK
  <2>7. StageInv'
    BY <2>1, <2>3, <2>4 DEF IInv, StageInv, ProviderTypeOK, evaluatorVars
  <2>8. HandedOver'
    BY <2>1, <2>2 DEF IInv, StageInv, HandedOver
  <2> QED BY <2>2, <2>5, <2>6, <2>7, <2>8 DEF IInv
<1> QED BY <1>1, <1>2

LEMMA InitializingKeeps ==
  ASSUME IInv, initialize \/ WasmLoaded \/ WasmNotLoaded
  PROVE  IInv' /\ Forwards
<1>1. /\ UNCHANGED publisherVars /\ UNCHANGED <<close, clean, late, call, settled>>
      /\ UNCHANGED <<server, dated, configuration, configurationState, periodicRunner, loadFaults>>
      /\ UNCHANGED wasmVars \/ engineLoads \/ engineThrows
      /\ \/ init = "idle" /\ init' = "wasm" /\ UNCHANGED load
         \/ init = "wasm" /\ init' = "loading" /\ load' = "first"
         \/ init = "wasm" /\ init' = "failed" /\ UNCHANGED load
  BY DEF initialize, WasmLoaded, WasmNotLoaded, initializeEvaluator, loadConfiguration, evaluatorOnly,
     evaluatorVars, evaluationVars, configuration
<1>2. EvaluatorInv'
  <2>1. EvaluatorTypeOK'
    BY <1>1 DEF IInv, EvaluatorInv, EvaluatorTypeOK, configuration
  <2>2. WasmTypeOK'
    BY <1>1, EngineKeeps DEF IInv, EvaluatorInv, EvaluationTypeOK, WasmTypeOK, wasmVars
  <2> QED BY <1>1, <2>1, <2>2, EvaluatorLeftAlone DEF IInv
<1>3. PublisherInv' /\ runnerCalls' = runnerCalls
  BY <1>1, PublisherLeftAlone DEF IInv
<1>4. ProviderTypeOK' /\ Forwards
  BY <1>1 DEF IInv, ProviderTypeOK, Forwards, configuration
<1>5. StageInv'
  BY <1>1, <1>3 DEF IInv, StageInv, publisherVars
<1>6. HandedOver'
  BY <1>1 DEF IInv, HandedOver
<1> QED BY <1>2, <1>3, <1>4, <1>5, <1>6 DEF IInv

LEMMA StartPublisherKeeps ==
  ASSUME IInv, StartPublisher
  PROVE  IInv' /\ Forwards
<1>1. /\ init = "loaded" /\ init' = "ready" /\ start
      /\ UNCHANGED <<evaluatorVars, evaluationVars>> /\ UNCHANGED <<close, clean, late>>
  BY DEF StartPublisher, publisherOnly
<1>2. ~isRunning /\ runnerCalls = {}
  BY <1>1 DEF IInv, StageInv
<1>3. PublisherInv' /\ isRunning'
  BY <1>1, <1>2, StartKeeps DEF IInv, start
<1>4. EvaluatorInv' /\ Forwards
  BY <1>1 DEF IInv, EvaluatorInv, EvaluatorTypeOK, EvaluationTypeOK, WasmTypeOK, ConfigurationInv,
     AnswersTyped, OneConfiguration, evaluatorVars, evaluationVars, wasmVars, configuration, Inputs,
     Versions, Forwards
<1>5. close # "open" => ~clean
  BY <1>1 DEF IInv, StageInv
<1>6. ProviderTypeOK' /\ HandedOver'
  BY <1>1, <1>5 DEF IInv, ProviderTypeOK, HandedOver
<1>7. StageInv'
  BY <1>1, <1>3, <1>5 DEF IInv, StageInv, ProviderTypeOK, evaluatorVars
<1> QED BY <1>3, <1>4, <1>6, <1>7 DEF IInv

LEMMA CollectKeeps ==
  ASSUME IInv, collect
  PROVE  IInv' /\ Forwards
<1>1. PICK e \in Events :
        /\ addEvent(e)
        /\ late' = IF close \in {"stopping", "closed"} THEN late \union {e} ELSE late
  BY DEF collect
<1>2. UNCHANGED <<evaluatorVars, evaluationVars>> /\ UNCHANGED <<init, close, clean>>
  BY DEF collect, publisherOnly
<1>3. /\ PublisherInv' /\ UNCHANGED <<isRunning, faults>>
      /\ Contents(events)' \subseteq Contents(events) \union {e}
      /\ runnerCalls' = runnerCalls
  BY <1>1, AddKeeps DEF IInv
<1>4. UNCHANGED intervalId
  BY <1>1 DEF addEvent
<1>5. EvaluatorInv' /\ Forwards
  BY <1>2 DEF IInv, EvaluatorInv, EvaluatorTypeOK, EvaluationTypeOK, WasmTypeOK, ConfigurationInv,
     AnswersTyped, OneConfiguration, evaluatorVars, evaluationVars, wasmVars, configuration, Inputs,
     Versions, Forwards
<1>6. ProviderTypeOK' /\ HandedOver'
  BY <1>1, <1>2, <1>3 DEF IInv, ProviderTypeOK, HandedOver
<1>7. StageInv'
  BY <1>2, <1>3, <1>4 DEF IInv, StageInv, evaluatorVars
<1> QED BY <1>3, <1>5, <1>6, <1>7 DEF IInv

LEMMA EvaluationStepKeeps ==
  ASSUME IInv, EvaluationStep
  PROVE  IInv' /\ Forwards
<1>1. EvaluationSteps /\ UNCHANGED publisherVars /\ UNCHANGED <<init, close, clean, late>>
  BY DEF EvaluationStep, providerVars
<1>2. /\ EvaluationTypeOK' /\ AnswersTyped' /\ OneConfiguration'
      /\ \A c \in Calls : call'[c].phase # "none"
           => call'[c].input.flag = call'[c].input.evaluationContextEnrichment
      /\ UNCHANGED evaluatorVars
  BY <1>1, EvaluationsKeep DEF IInv, EvaluatorInv
<1>3. EvaluatorInv' /\ Forwards
  BY <1>2 DEF IInv, EvaluatorInv, EvaluatorTypeOK, ConfigurationInv, evaluatorVars, configuration, Forwards
<1>4. PublisherInv' /\ runnerCalls' = runnerCalls /\ Contents(events)' = Contents(events)
  BY <1>1, PublisherLeftAlone DEF IInv
<1>5. ProviderTypeOK' /\ HandedOver'
  BY <1>1, <1>4 DEF IInv, ProviderTypeOK, HandedOver, publisherVars
<1>6. StageInv'
  BY <1>1, <1>2, <1>4 DEF IInv, StageInv, publisherVars, evaluatorVars
<1> QED BY <1>3, <1>4, <1>5, <1>6 DEF IInv

LEMMA StutterKeeps ==
  ASSUME IInv, UNCHANGED vars
  PROVE  IInv' /\ Forwards
<1>1. UNCHANGED publisherVars /\ UNCHANGED <<evaluatorVars, evaluationVars>> /\ UNCHANGED providerVars
  BY DEF vars
<1>2. PublisherInv' /\ runnerCalls' = runnerCalls /\ Contents(events)' = Contents(events)
  BY <1>1, PublisherLeftAlone DEF IInv
<1>3. EvaluatorInv' /\ Forwards
  BY <1>1 DEF IInv, EvaluatorInv, EvaluatorTypeOK, EvaluationTypeOK, WasmTypeOK, ConfigurationInv,
     AnswersTyped, OneConfiguration, evaluatorVars, evaluationVars, wasmVars, configuration, Inputs,
     Versions, Forwards
<1>4. ProviderTypeOK' /\ HandedOver' /\ StageInv'
  BY <1>1, <1>2 DEF IInv, ProviderTypeOK, HandedOver, StageInv, providerVars, publisherVars, evaluatorVars
<1> QED BY <1>2, <1>3, <1>4 DEF IInv

LEMMA StepKeeps == IInv /\ [Next]_vars => IInv' /\ Forwards
BY EvaluatorStepKeeps, PublisherStepKeeps, ClosingKeeps, InitializingKeeps, StartPublisherKeeps,
   CollectKeeps, EvaluationStepKeeps, StutterKeeps DEF Next

(* What the properties of the provider rest on holds in every state, however *)
(* initialize(), polls, evaluations, batches and onClose() overlap           *)
(* (go-feature-flag-provider.ts, inprocess-evaluator.ts, event-publisher.ts).*)
THEOREM Invariance == Spec => []IInv
BY InitIInv, StepKeeps, PTL DEF Spec

-----------------------------------------------------------------------------
(* What it implies                                                           *)

(* However batches of events overlap, fail and are put back                  *)
(* (event-publisher.ts:44-127), every event is in one place until it is      *)
(* confirmed, and the chain of the runner neither breaks nor doubles.        *)
THEOREM NoEventLost == Spec => []EventsConserved
<1>1. IInv => EventsConserved
  BY DEF IInv, EvaluatorInv, ProviderTypeOK, PublisherInv, EventsConserved, TypeOK
<1> QED BY <1>1, Invariance, PTL

(* A provider that was closed once initialize() had settled has no timer and *)
(* arms none, and without failures every event collected before the          *)
(* publisher was stopped is with the collector or on its way to it           *)
(* (go-feature-flag-provider.ts:121-124).                                    *)
THEOREM ClosesCleanly == Spec => []ClosedCleanly
<1>1. ASSUME IInv PROVE TimersStop
  <2>1. close # "open" /\ clean /\ close # "disposed" => ~isRunning
    BY <1>1 DEF IInv, StageInv, ProviderTypeOK
  <2>2. ~isRunning => intervalId # "armed"
    BY <1>1 DEF IInv, PublisherInv, OneRunner
  <2> QED BY <1>1, <2>1, <2>2 DEF IInv, StageInv, TimersStop
<1>2. ASSUME IInv PROVE FlushedUnlessFailed
  <2> SUFFICES ASSUME close = "closed", init = "ready", clean, faults = 0,
                      NEW e \in added \ late
               PROVE  e \in received \/ isSending(e)
    BY DEF FlushedUnlessFailed
  <2>1. e \notin Contents(events)
    BY <1>2 DEF IInv, HandedOver
  <2>2. /\ added \ acknowledged
             = Contents(events) \union UNION {Contents(inflight[i].list) : i \in DOMAIN inflight}
        /\ acknowledged \subseteq received
    BY <1>2 DEF IInv, PublisherInv, OnePlace, Placed
  <2> QED BY <2>1, <2>2 DEF isSending
<1>3. IInv => ClosedCleanly
  BY <1>1, <1>2 DEF ClosedCleanly
<1> QED BY <1>3, Invariance, PTL

(* A flag is evaluated with the enrichment of its own configuration, and a   *)
(* caller gets a value of the type it asked for (inprocess-evaluator.ts:     *)
(* 110-263), for any engine, any number of calls and any address width.      *)
THEOREM SoundEvaluations == Spec => []EvaluationsSound
<1>1. IInv => EvaluationsSound
  BY DEF IInv, EvaluatorInv, EvaluationsSound
<1> QED BY <1>1, Invariance, PTL

(* Dated configurations are never replaced by earlier ones                   *)
(* (inprocess-evaluator.ts:283-291), whichever proxy of a cluster answers.   *)
THEOREM OnlyForwards == Spec => NeverBackwards
<1>1. IInv /\ [Next]_vars => [Forwards]_evaluatorVars
  BY StepKeeps
<1>2. IInv /\ [Next]_vars => [dated /\ etag' # etag => etag' > etag]_evaluatorVars
  BY <1>1 DEF Forwards
<1> QED BY <1>2, Invariance, PTL DEF Spec, NeverBackwards
=============================================================================
