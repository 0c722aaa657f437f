--------------------------- MODULE TimeoutDictLemmas ---------------------------
(***************************************************************************)
(* What the operations of a TimeoutDict leave in it, for every set K of    *)
(* keys and V of values: lemmas for the proofs about the dictionary in use *)
(* and about the cache that is made of two.                                *)
(*                                                                         *)
(* Each operation is described by what it leaves in the dictionary, as a   *)
(* set of entries: the order matters only for RemoveExpired, which may     *)
(* stop early because of it.                                               *)
(***************************************************************************)
EXTENDS TimeoutDictOps, SequenceTheorems, FiniteSetTheorems, TLAPS

Entries(K, V) == [key : K, ts : Nat, value : V]

\* A dictionary has one entry for a key, and its entries in the order they were made.
Ordered(d, K, V) ==
  /\ d \in Seq(Entries(K, V))
  /\ \A i, j \in DOMAIN d : i < j => d[i].ts <= d[j].ts /\ d[i].key # d[j].key

-------------------------------------------------------------------------------
(* What the operations leave behind.                                       *)

\* A set of natural numbers that is not empty has a least member, which Min finds.
LEMMA Minimum ==
  ASSUME NEW I \in SUBSET Nat, I # {}
  PROVE  Min(I) \in I /\ \A j \in I : Min(I) <= j
<1> DEFINE Less == {ss \in Nat \X Nat : ss[1] < ss[2]}
<1>1. IsWellFoundedOn(Less, Nat)
  BY NatLessThanWellFounded DEF OpToRel
<1>2. PICK m \in I : \A j \in I : ~ (<<j, m>> \in Less)
  <2> HIDE DEF Less
  <2> QED
    BY <1>1, WFMin
<1>3. ASSUME NEW j \in I PROVE m <= j
  <2>1. j \in Nat /\ m \in Nat /\ ~ (<<j, m>> \in Less)
    BY <1>2
  <2>2. j < m => <<j, m>> \in Less
    BY <2>1
  <2> QED
    BY <2>1, <2>2
<1> QED
  BY <1>3 DEF Min

\* A dictionary that is made of entries of another, in the same order, is one.
LEMMA Thinned ==
  ASSUME NEW K, NEW V, NEW d, Ordered(d, K, V), NEW s \in Seq(Entries(K, V)),
         NEW f \in [DOMAIN s -> DOMAIN d],
         \A i \in DOMAIN s : s[i] = d[f[i]],
         \A i, j \in DOMAIN s : i < j => f[i] < f[j]
  PROVE  Ordered(s, K, V)
BY DEF Ordered

\* _remove_expired stops at the first entry that has not expired, and has then removed
\* all that have.
LEMMA Cleaned ==
  ASSUME NEW K, NEW V, NEW d, Ordered(d, K, V), NEW t \in Nat
  PROVE  /\ Ordered(RemoveExpired(d, t), K, V)
         /\ ToSet(RemoveExpired(d, t)) = FreshAt(d, t)
<1> DEFINE I == {i \in 1 .. Len(d) : ~Expired(d[i], t)}
<1>1. /\ Len(d) \in Nat /\ DOMAIN d = 1 .. Len(d)
      /\ \A i \in 1 .. Len(d) : d[i] \in Entries(K, V)
  BY LenProperties, ElementOfSeq DEF Ordered
<1>2. RemoveExpired(d, t) = IF I = {} THEN << >> ELSE SubSeq(d, Min(I), Len(d))
  <2>1. I # {} => Min(I) # 0
    <3>1. I \in SUBSET Nat /\ 0 \notin I
      BY <1>1
    <3> HIDE DEF I
    <3> QED
      BY <3>1, Minimum
  <2> QED
    BY <2>1 DEF RemoveExpired, SelectInSeq
<1>3. CASE I = {}
  <2>1. RemoveExpired(d, t) = << >>
    BY <1>2, <1>3
  <2>2. FreshAt(d, t) = {}
    BY <1>1, <1>3 DEF FreshAt, ToSet
  <2> QED
    BY <2>1, <2>2 DEF Ordered, ToSet
<1>4. CASE I # {}
  <2> DEFINE n == Min(I)
             s == SubSeq(d, n, Len(d))
  <2>1. n \in 1 .. Len(d) /\ ~Expired(d[n], t) /\ \A i \in I : n <= i
    <3>1. I \in SUBSET Nat
      BY <1>1
    <3>2. n \in I /\ \A i \in I : n <= i
      <4> HIDE DEF I
      <4> QED
        BY <1>4, <3>1, Minimum
    <3> QED
      BY <3>2
  <2> HIDE DEF n
  <2>2. /\ s \in Seq(Entries(K, V)) /\ Len(s) = Len(d) - n + 1
        /\ \A i \in 1 .. Len(d) - n + 1 : s[i] = d[n + i - 1]
    BY <1>1, <2>1, SubSeqProperties
  <2>3. DOMAIN s = 1 .. Len(d) - n + 1
    BY <2>2, LenProperties
  <2> HIDE DEF s
  <2>4. Ordered(s, K, V)
    <3> DEFINE f == [i \in DOMAIN s |-> n + i - 1]
    <3>1. f \in [DOMAIN s -> DOMAIN d]
      BY <1>1, <2>1, <2>3
    <3>2. \A i, j \in DOMAIN s : i < j => f[i] < f[j]
      BY <2>1, <2>3
    <3>3. \A i \in DOMAIN s : s[i] = d[f[i]]
      BY <2>2, <2>3
    <3> HIDE DEF f
    <3> QED
      BY <2>2, <3>1, <3>2, <3>3, Thinned
  <2>5. ToSet(s) = FreshAt(d, t)
    <3>1. \A i \in n .. Len(d) : ~Expired(d[i], t)
      <4> SUFFICES ASSUME NEW i \in n .. Len(d) PROVE ~Expired(d[i], t)
        OBVIOUS
      <4>1. /\ n \in DOMAIN d /\ i \in DOMAIN d /\ n <= i
            /\ d[n].ts \in Nat /\ d[i].ts \in Nat
        BY <1>1, <2>1 DEF Entries
      <4>2. n < i => d[n].ts <= d[i].ts
        BY <4>1 DEF Ordered
      <4>3. CASE n = i
        BY <2>1, <4>3
      <4>4. CASE n < i
        BY <2>1, <4>1, <4>2, <4>4, TimeoutAssumption DEF Expired
      <4> QED
        BY <1>1, <2>1, <4>1, <4>3, <4>4
    <3>2. ToSet(s) = {d[i] : i \in n .. Len(d)}
      <4>1. \A i \in DOMAIN s : n + i - 1 \in n .. Len(d) /\ s[i] = d[n + i - 1]
        <5>1. ASSUME NEW i \in DOMAIN s PROVE n + i - 1 \in n .. Len(d)
          BY <1>1, <2>1, <2>3
        <5> QED
          BY <2>2, <2>3, <5>1
      <4>2. \A i \in n .. Len(d) : i - n + 1 \in DOMAIN s /\ s[i - n + 1] = d[i]
        BY <1>1, <2>1, <2>2, <2>3
      <4> QED
        BY <4>1, <4>2 DEF ToSet
    <3>3. FreshAt(d, t) = {d[i] : i \in I}
      BY <1>1 DEF FreshAt, ToSet
    <3>4. I = n .. Len(d)
      BY <1>1, <2>1, <3>1
    <3> QED
      BY <3>2, <3>3, <3>4
  <2> QED
    BY <1>2, <1>4, <2>4, <2>5 DEF s, n
<1> QED
  BY <1>3, <1>4

\* A dictionary that is as long as before it was cleaned has lost nothing.
LEMMA Untouched ==
  ASSUME NEW K, NEW V, NEW d, Ordered(d, K, V), NEW t \in Nat,
         Len(RemoveExpired(d, t)) = Len(d)
  PROVE  RemoveExpired(d, t) = d
<1> DEFINE I == {i \in 1 .. Len(d) : ~Expired(d[i], t)}
           n == Min(I)
<1>1. d \in Seq(Entries(K, V)) /\ Len(d) \in Nat
  BY LenProperties DEF Ordered
<1>2. I \in SUBSET Nat /\ 0 \notin I /\ I \subseteq 1 .. Len(d)
  BY <1>1
<1>3. I # {} => n \in 1 .. Len(d) /\ n # 0
  <2> HIDE DEF I
  <2> QED
    BY <1>2, Minimum
<1>4. RemoveExpired(d, t) = IF I = {} THEN << >> ELSE SubSeq(d, n, Len(d))
  BY <1>3 DEF RemoveExpired, SelectInSeq
<1> HIDE DEF I, n
<1>5. CASE I = {}
  <2>1. Len(d) = 0
    BY <1>4, <1>5
  <2> QED
    BY <1>1, <1>4, <1>5, <2>1, EmptySeq
<1>6. CASE I # {}
  <2>1. RemoveExpired(d, t) = SubSeq(d, n, Len(d)) /\ n \in 1 .. Len(d)
    BY <1>3, <1>4, <1>6
  <2>2. Len(SubSeq(d, n, Len(d))) = Len(d) - n + 1
    BY <1>1, <2>1, SubSeqProperties, ElementOfSeq
  <2>3. n = 1
    BY <1>1, <2>1, <2>2
  <2> QED
    BY <1>1, <2>1, <2>3, SubSeqFull
<1> QED
  BY <1>5, <1>6

\* Popping a key removes the one entry it has.
LEMMA Popped ==
  ASSUME NEW K, NEW V, NEW d, Ordered(d, K, V), NEW k \in K
  PROVE  /\ Ordered(PopKey(d, k), K, V)
         /\ ToSet(PopKey(d, k)) = {e \in ToSet(d) : e.key # k}
<1> DEFINE I == {i \in 1 .. Len(d) : d[i].key = k}
<1>1. /\ Len(d) \in Nat /\ DOMAIN d = 1 .. Len(d)
      /\ \A i \in 1 .. Len(d) : d[i] \in Entries(K, V)
  BY LenProperties, ElementOfSeq DEF Ordered
<1>2. PopKey(d, k) = IF I = {} THEN d ELSE RemoveAt(d, Min(I))
  BY DEF PopKey, RemoveFirstMatch, SelectInSeq
<1>3. CASE I = {}
  BY <1>1, <1>2, <1>3 DEF ToSet
<1>4. CASE I # {}
  <2> DEFINE n == Min(I)
             a == SubSeq(d, 1, n - 1)
             b == SubSeq(d, n + 1, Len(d))
             s == a \o b
  <2>1. n \in 1 .. Len(d) /\ d[n].key = k
    <3>1. I \in SUBSET Nat
      BY <1>1
    <3>2. n \in I
      <4> HIDE DEF I
      <4> QED
        BY <1>4, <3>1, Minimum
    <3> QED
      BY <3>2
  <2> HIDE DEF n
  <2>2. /\ a \in Seq(Entries(K, V)) /\ Len(a) = n - 1
        /\ \A i \in 1 .. n - 1 : a[i] = d[i]
    BY <1>1, <2>1, SubSeqProperties
  <2>3. /\ b \in Seq(Entries(K, V)) /\ Len(b) = Len(d) - n
        /\ \A i \in 1 .. Len(d) - n : b[i] = d[n + i]
    <3>1. /\ n + 1 \in Int /\ Len(d) \in Int
          /\ \A i \in n + 1 .. Len(d) : d[i] \in Entries(K, V)
      BY <1>1, <2>1
    <3>2. /\ b \in Seq(Entries(K, V))
          /\ Len(b) = IF n + 1 <= Len(d) THEN Len(d) - (n + 1) + 1 ELSE 0
          /\ \A i \in 1 .. Len(d) - (n + 1) + 1 : b[i] = d[n + 1 + i - 1]
      BY <3>1, SubSeqProperties
    <3> HIDE DEF b
    <3>3. Len(b) = Len(d) - n
      <4>1. n \in Int /\ Len(d) \in Int /\ n <= Len(d)
        BY <1>1, <2>1
      <4>2. CASE n + 1 <= Len(d)
        BY <3>2, <4>1, <4>2
      <4>3. CASE ~(n + 1 <= Len(d))
        BY <3>2, <4>1, <4>3
      <4> QED
        BY <4>2, <4>3
    <3>4. ASSUME NEW i \in 1 .. Len(d) - n PROVE b[i] = d[n + i]
      <4>1. i \in 1 .. Len(d) - (n + 1) + 1 /\ n + 1 + i - 1 = n + i
        BY <1>1, <2>1
      <4> QED
        BY <3>2, <4>1
    <3> QED
      BY <3>2, <3>3, <3>4
  <2> HIDE DEF a, b
  <2>4. /\ s \in Seq(Entries(K, V)) /\ Len(s) = Len(d) - 1 /\ DOMAIN s = 1 .. Len(d) - 1
        /\ \A i \in 1 .. Len(d) - 1 : s[i] = d[IF i < n THEN i ELSE i + 1]
    <3>1. s \in Seq(Entries(K, V)) /\ Len(s) = Len(d) - 1
      <4>1. s \in Seq(Entries(K, V)) /\ Len(s) = Len(a) + Len(b)
        BY <2>2, <2>3, ConcatProperties
      <4> QED
        BY <1>1, <2>1, <2>2, <2>3, <4>1
    <3>2. DOMAIN s = 1 .. Len(d) - 1
      BY <3>1, LenProperties
    <3>3. ASSUME NEW i \in 1 .. Len(d) - 1
          PROVE  s[i] = d[IF i < n THEN i ELSE i + 1]
      <4>1. s[i] = IF i <= n - 1 THEN a[i] ELSE b[i - (n - 1)]
        BY <1>1, <2>1, <2>2, <2>3, ConcatProperties
      <4>2. CASE i < n
        BY <1>1, <2>1, <2>2, <4>1, <4>2
      <4>3. CASE ~(i < n)
        <5>1. i - (n - 1) \in 1 .. Len(d) - n /\ n + (i - (n - 1)) = i + 1
          BY <1>1, <2>1, <4>3
        <5>2. b[i - (n - 1)] = d[i + 1]
          BY <2>3, <5>1
        <5> QED
          BY <1>1, <2>1, <4>1, <4>3, <5>2
      <4> QED
        BY <4>2, <4>3
    <3> QED
      BY <3>1, <3>2, <3>3
  <2> HIDE DEF s
  <2>5. Ordered(s, K, V)
    <3> DEFINE f == [i \in DOMAIN s |-> IF i < n THEN i ELSE i + 1]
    <3>1. f \in [DOMAIN s -> DOMAIN d]
      BY <1>1, <2>1, <2>4
    <3>2. \A i, j \in DOMAIN s : i < j => f[i] < f[j]
      BY <1>1, <2>1, <2>4
    <3>3. \A i \in DOMAIN s : s[i] = d[f[i]]
      BY <2>4
    <3> HIDE DEF f
    <3> QED
      BY <2>4, <3>1, <3>2, <3>3, Thinned
  <2>6. ToSet(s) = {e \in ToSet(d) : e.key # k}
    <3>1. ASSUME NEW i \in DOMAIN s
          PROVE  s[i] \in ToSet(d) /\ s[i].key # k
      <4> DEFINE j == IF i < n THEN i ELSE i + 1
      <4>1. j \in DOMAIN d /\ j # n /\ s[i] = d[j]
        BY <1>1, <2>1, <2>4
      <4> HIDE DEF j
      <4>2. d[j].key # d[n].key
        BY <1>1, <2>1, <4>1 DEF Ordered
      <4> QED
        BY <2>1, <4>1, <4>2 DEF ToSet
    <3>2. ASSUME NEW j \in DOMAIN d, d[j].key # k
          PROVE  d[j] \in ToSet(s)
      <4> DEFINE i == IF j < n THEN j ELSE j - 1
      <4>1. i \in DOMAIN s /\ (IF i < n THEN i ELSE i + 1) = j
        BY <1>1, <2>1, <2>4, <3>2
      <4> HIDE DEF i
      <4> QED
        BY <2>4, <4>1 DEF ToSet
    <3> QED
      BY <3>1, <3>2 DEF ToSet
  <2> QED
    BY <1>2, <1>4, <2>5, <2>6 DEF RemoveAt, s, a, b, n
<1> QED
  BY <1>3, <1>4

\* A new entry is the youngest, and its key was popped.
LEMMA Appended ==
  ASSUME NEW K, NEW V, NEW d, Ordered(d, K, V), NEW e \in Entries(K, V),
         \A x \in ToSet(d) : x.ts <= e.ts /\ x.key # e.key
  PROVE  /\ Ordered(Append(d, e), K, V)
         /\ ToSet(Append(d, e)) = ToSet(d) \cup {e}
<1>1. /\ Len(d) \in Nat /\ DOMAIN d = 1 .. Len(d)
      /\ \A i \in 1 .. Len(d) : d[i] \in ToSet(d)
  BY LenProperties DEF Ordered, ToSet
<1> DEFINE s == Append(d, e)
<1>2. /\ s \in Seq(Entries(K, V)) /\ Len(s) = Len(d) + 1
      /\ \A i \in 1 .. Len(d) : s[i] = d[i]
      /\ s[Len(d) + 1] = e
  BY AppendProperties DEF Ordered
<1>3. DOMAIN s = 1 .. Len(d) + 1
  BY <1>2, LenProperties
<1> HIDE DEF s
<1>4. ASSUME NEW i \in DOMAIN s, NEW j \in DOMAIN s, i < j
      PROVE  s[i].ts <= s[j].ts /\ s[i].key # s[j].key
  <2>1. i \in 1 .. Len(d) /\ s[i] = d[i] /\ d[i] \in ToSet(d)
    BY <1>1, <1>2, <1>3, <1>4
  <2>2. CASE j = Len(d) + 1
    BY <1>2, <2>1, <2>2
  <2>3. CASE j # Len(d) + 1
    <3>1. j \in 1 .. Len(d) /\ s[j] = d[j]
      BY <1>1, <1>2, <1>3, <2>3
    <3> QED
      BY <1>1, <1>4, <2>1, <3>1 DEF Ordered
  <2> QED
    BY <2>2, <2>3
<1>5. ToSet(s) = ToSet(d) \cup {e}
  <2>1. \A i \in DOMAIN s : i \in DOMAIN d \/ i = Len(d) + 1
    BY <1>1, <1>3
  <2>2. DOMAIN d \subseteq DOMAIN s /\ Len(d) + 1 \in DOMAIN s
    BY <1>1, <1>3
  <2> QED
    BY <1>1, <1>2, <2>1, <2>2 DEF ToSet
<1> QED
  BY <1>2, <1>4, <1>5 DEF Ordered, s

\* A lookup finds the entry there is.
LEMMA Found ==
  ASSUME NEW K, NEW V, NEW d, Ordered(d, K, V), NEW k \in K
  PROVE  /\ \A e \in ToSet(d) : e.key = k => Lookup(d, k) = e.value
         /\ (\A e \in ToSet(d) : e.key # k) => Lookup(d, k) = None
<1> DEFINE I == {i \in 1 .. Len(d) : d[i].key = k}
<1>1. Len(d) \in Nat /\ DOMAIN d = 1 .. Len(d)
  BY LenProperties DEF Ordered
<1>2. I # {} => Min(I) \in I /\ Min(I) # 0
  <2>1. I \in SUBSET Nat /\ 0 \notin I
    BY <1>1
  <2> HIDE DEF I
  <2> QED
    BY <2>1, Minimum
<1>3. Lookup(d, k) = IF I = {} THEN None ELSE d[Min(I)].value
  BY <1>2 DEF Lookup, SelectInSeq
<1>4. ASSUME NEW i \in DOMAIN d, d[i].key = k
      PROVE  Lookup(d, k) = d[i].value
  <2>1. i \in I
    BY <1>1, <1>4
  <2>2. Min(I) \in DOMAIN d /\ d[Min(I)].key = k
    BY <1>1, <1>2, <2>1
  <2> HIDE DEF I
  <2>3. Min(I) = i
    BY <1>1, <1>4, <2>2 DEF Ordered
  <2> QED
    BY <1>3, <2>1, <2>3
<1>5. (\A e \in ToSet(d) : e.key # k) => I = {}
  BY <1>1 DEF ToSet
<1> QED
  BY <1>3, <1>4, <1>5 DEF ToSet

\* The length of a dictionary is the number of its keys.
LEMMA Counted ==
  ASSUME NEW K, NEW V, NEW d, Ordered(d, K, V)
  PROVE  Len(d) = Cardinality({e.key : e \in ToSet(d)})
<1> DEFINE KK == {e.key : e \in ToSet(d)}
           f == [i \in 1 .. Len(d) |-> d[i].key]
<1>1. Len(d) \in Nat /\ DOMAIN d = 1 .. Len(d)
  BY LenProperties DEF Ordered
<1>2. f \in Injection(1 .. Len(d), KK)
  <2>1. f \in [1 .. Len(d) -> KK]
    BY <1>1 DEF ToSet
  <2>2. ASSUME NEW i \in 1 .. Len(d), NEW j \in 1 .. Len(d), f[i] = f[j]
        PROVE  i = j
    BY <1>1, <2>2 DEF Ordered
  <2> QED
    BY <2>1, <2>2 DEF Injection, IsInjective
<1>3. f \in Surjection(1 .. Len(d), KK)
  BY <1>1 DEF Surjection, ToSet
<1>4. ExistsBijection(1 .. Len(d), KK)
  BY <1>2, <1>3 DEF ExistsBijection, Bijection
<1> HIDE DEF KK
<1>5. Cardinality(KK) = Len(d)
  BY <1>1, <1>4, FS_CountingElements
<1> QED
  BY <1>5 DEF KK

-------------------------------------------------------------------------------
(* The methods, on a dictionary whose entries are of the past.             *)

\* What is stored is there, with what was fresh under the other keys.
LEMMA Stored ==
  ASSUME NEW K, NEW V, NEW d, Ordered(d, K, V), NEW k \in K, NEW v \in V,
         NEW t \in Nat, NEW u \in Nat, t <= u, \A e \in ToSet(d) : e.ts <= t
  PROVE  /\ Ordered(SetItem(d, k, v, t, u), K, V)
         /\ ToSet(SetItem(d, k, v, t, u)) =
              {e \in FreshAt(d, t) : e.key # k} \cup {Entry(k, u, v)}
<1> DEFINE p == PopKey(d, k)
           c == RemoveExpired(p, t)
<1>1. Ordered(p, K, V) /\ ToSet(p) = {e \in ToSet(d) : e.key # k}
  BY Popped
<1>2. Ordered(c, K, V) /\ ToSet(c) = FreshAt(p, t)
  BY <1>1, Cleaned
<1>3. ToSet(c) = {e \in FreshAt(d, t) : e.key # k}
  BY <1>1, <1>2 DEF FreshAt
<1>4. ToSet(d) \subseteq Entries(K, V)
  BY ElementOfSeq, LenProperties DEF Ordered, ToSet
<1>5. \A x \in ToSet(c) : x.ts <= u /\ x.key # k
  BY <1>3, <1>4 DEF FreshAt, Entries
<1>6. Entry(k, u, v) \in Entries(K, V) /\ Entry(k, u, v).ts = u /\ Entry(k, u, v).key = k
  BY DEF Entry, Entries
<1> HIDE DEF c
<1>7. /\ Ordered(Append(c, Entry(k, u, v)), K, V)
      /\ ToSet(Append(c, Entry(k, u, v))) = ToSet(c) \cup {Entry(k, u, v)}
  BY <1>2, <1>5, <1>6, Appended
<1> QED
  BY <1>3, <1>7 DEF SetItem, c

\* What is deleted is gone, and what had expired with it.
LEMMA Deleted ==
  ASSUME NEW K, NEW V, NEW d, Ordered(d, K, V), NEW k \in K, NEW t \in Nat
  PROVE  /\ Ordered(DelItem(d, k, t), K, V)
         /\ ToSet(DelItem(d, k, t)) = {e \in FreshAt(d, t) : e.key # k}
<1>1. Ordered(PopKey(d, k), K, V) /\ ToSet(PopKey(d, k)) = {e \in ToSet(d) : e.key # k}
  BY Popped
<1>2. /\ Ordered(DelItem(d, k, t), K, V)
      /\ ToSet(DelItem(d, k, t)) = FreshAt(PopKey(d, k), t)
  BY <1>1, Cleaned DEF DelItem
<1> QED
  BY <1>1, <1>2 DEF FreshAt

\* pop reads the clock twice: what expires in between goes too.
LEMMA PoppedAgain ==
  ASSUME NEW K, NEW V, NEW d, Ordered(d, K, V), NEW k \in K, NEW t \in Nat, NEW u \in Nat
  PROVE  /\ Ordered(PopItem(d, k, t, u), K, V)
         /\ ToSet(PopItem(d, k, t, u)) =
              {e \in FreshAt(d, t) : e.key # k /\ ~Expired(e, u)}
<1>1. Ordered(RemoveExpired(d, t), K, V) /\ ToSet(RemoveExpired(d, t)) = FreshAt(d, t)
  BY Cleaned
<1>2. /\ Ordered(PopItem(d, k, t, u), K, V)
      /\ ToSet(PopItem(d, k, t, u)) = {e \in FreshAt(RemoveExpired(d, t), u) : e.key # k}
  BY <1>1, Deleted DEF PopItem
<1> QED
  BY <1>1, <1>2 DEF FreshAt
================================================================================
