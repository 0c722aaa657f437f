---------------------------- MODULE SmppInboundProofs ----------------------------
(***************************************************************************)
(* Proofs about SmppInbound, for any texts, codecs, ways to send, lengths, *)
(* reads and restarts.                                                     *)
(*                                                                         *)
(* First what FlattenSeq, FoldLeft and SubSeq do; then what extract_pdu    *)
(* cuts off a buffer, what _split_message cuts a text into and what        *)
(* _extract_multipart finds in a PDU; and the invariants: SendInv of the   *)
(* senders, StreamInv of the stream and CacheOK of the parts stored.       *)
(*                                                                         *)
(* Then the texts: that what a codec writes it reads again, if it reads    *)
(* the characters back, in one piece or in parts that were cut between     *)
(* characters, and what becomes of it: SentTextInv of what is sent and     *)
(* TextsInv of what is in the cache and handed on.                         *)
(***************************************************************************)
EXTENDS SmppInbound, SequenceTheorems, FiniteSetTheorems, TLAPS

-------------------------------------------------------------------------------
(* Sequences.                                                              *)

\* \o, where the provers are not to look into it.
Cat(s, t) == s \o t

\* Concatenation is associative.
LEMMA CatAssociative ==
  \A S : \A x, y, z \in Seq(S) : Cat(Cat(x, y), z) = Cat(x, Cat(y, z))
BY ConcatAssociative DEF Cat

\* Induction on the numbers up to n, for the set G of those a fact holds of.
LEMMA Upwards ==
  ASSUME NEW n \in Nat, NEW G, n > 0 => 1 \in G,
         \A i \in 1 .. n : i > 1 /\ i - 1 \in G => i \in G
  PROVE  1 .. n \subseteq G
<1> DEFINE Less == {ss \in Nat \X Nat : ss[1] < ss[2]}
           Bad == (1 .. n) \ G
<1>1. IsWellFoundedOn(Less, Nat)
  BY NatLessThanWellFounded DEF OpToRel
<1> SUFFICES ASSUME Bad # {} PROVE FALSE
  OBVIOUS
<1>2. PICK m \in Bad : \A j \in Bad : ~ (<<j, m>> \in Less)
  <2>1. Bad \subseteq Nat
    OBVIOUS
  <2> HIDE DEF Less, Bad
  <2> QED
    BY <1>1, <2>1, WFMin
<1>3. m \in 1 .. n /\ m \notin G /\ m # 1
  BY <1>2
<1>4. m - 1 \in 1 .. n /\ <<m - 1, m>> \in Less
  BY <1>3
<1>5. m - 1 \in G
  BY <1>2, <1>4
<1> QED
  BY <1>3, <1>5

-------------------------------------------------------------------------------
(* FlattenSeq, whose definition is a recursive function on the places.     *)

Flat(s) == CHOOSE f : f = [i \in 1 .. Len(s) |-> IF i = 1 THEN s[i] ELSE f[i - 1] \o s[i]]

\* What FlattenSeq is of a sequence that is not empty.
LEMMA FlattenDef ==
  ASSUME NEW s, Len(s) # 0
  PROVE  FlattenSeq(s) = Flat(s)[Len(s)]
BY DEF FlattenSeq, Flat

\* FlattenSeq of the empty sequence.
LEMMA FlattenEmpty == FlattenSeq(<< >>) = << >>
BY EmptySeq DEF FlattenSeq

\* There is such a function: each is one place more than the one before.
LEMMA FlatExists ==
  ASSUME NEW s, NEW n \in Nat
  PROVE  \E f : f = [i \in 1 .. n |-> IF i = 1 THEN s[i] ELSE f[i - 1] \o s[i]]
<1> DEFINE P(m) == \E f : f = [i \in 1 .. m |-> IF i = 1 THEN s[i] ELSE f[i - 1] \o s[i]]
           G == {m \in 1 .. n : P(m)}
<1> SUFFICES P(n)
  OBVIOUS
<1>1. P(1)
  <2> DEFINE f == [i \in 1 .. 1 |-> s[i]]
  <2>1. f = [i \in 1 .. 1 |-> IF i = 1 THEN s[i] ELSE f[i - 1] \o s[i]]
    OBVIOUS
  <2> QED
    BY <2>1
<1>2. ASSUME NEW m \in 1 .. n, m > 1, P(m - 1) PROVE P(m)
  <2>1. PICK f : f = [i \in 1 .. m - 1 |-> IF i = 1 THEN s[i] ELSE f[i - 1] \o s[i]]
    BY <1>2
  <2> DEFINE g == [i \in 1 .. m |-> IF i < m THEN f[i] ELSE f[m - 1] \o s[m]]
  <2>2. ASSUME NEW i \in 1 .. m
        PROVE  g[i] = IF i = 1 THEN s[i] ELSE g[i - 1] \o s[i]
    <3>1. CASE i = m
      <4>1. m - 1 \in 1 .. m /\ m - 1 < m /\ m # 1
        BY <1>2
      <4>2. g[m - 1] = f[m - 1]
        BY <4>1
      <4>3. g[m] = f[m - 1] \o s[m]
        <5>1. m \in 1 .. m /\ ~(m < m)
          BY <1>2
        <5> QED
          BY <5>1
      <4> QED
        BY <3>1, <4>1, <4>2, <4>3
    <3>2. CASE i # m
      <4>1. i \in 1 .. m - 1 /\ i < m /\ (i # 1 => i - 1 \in 1 .. m /\ i - 1 < m)
        BY <1>2, <3>2
      <4>2. g[i] = f[i]
        BY <4>1
      <4>3. i # 1 => g[i - 1] = f[i - 1]
        BY <4>1
      <4>4. f[i] = IF i = 1 THEN s[i] ELSE f[i - 1] \o s[i]
        BY <2>1, <4>1
      <4> HIDE DEF g
      <4> QED
        BY <4>2, <4>3, <4>4
    <3> QED
      BY <3>1, <3>2
  <2>3. g = [i \in 1 .. m |-> g[i]]
    OBVIOUS
  <2> HIDE DEF g
  <2>4. g = [i \in 1 .. m |-> IF i = 1 THEN s[i] ELSE g[i - 1] \o s[i]]
    BY <2>2, <2>3
  <2> QED
    BY <2>4
<1> HIDE DEF P
<1>3. 1 .. n \subseteq G
  <2>1. n > 0 => 1 \in G
    BY <1>1
  <2>2. ASSUME NEW m \in 1 .. n, m > 1, m - 1 \in G PROVE m \in G
    BY <1>2, <2>2
  <2> HIDE DEF G
  <2> QED
    BY <2>1, <2>2, Upwards
<1>4. CASE n = 0
  <2> DEFINE f == [i \in 1 .. 0 |-> 0]
  <2>1. f = [i \in 1 .. 0 |-> IF i = 1 THEN s[i] ELSE f[i - 1] \o s[i]]
    OBVIOUS
  <2> QED
    BY <1>4, <2>1 DEF P
<1>5. CASE n # 0
  <2>1. n \in 1 .. n
    BY <1>5
  <2> QED
    BY <1>3, <2>1
<1> QED
  BY <1>4, <1>5

\* That function, step by step.
LEMMA FlatSteps ==
  ASSUME NEW S, NEW s \in Seq(Seq(S))
  PROVE  \A i \in 1 .. Len(s) :
           /\ Flat(s)[i] = IF i = 1 THEN s[i] ELSE Flat(s)[i - 1] \o s[i]
           /\ Flat(s)[i] \in Seq(S)
<1>1. Len(s) \in Nat /\ \A i \in 1 .. Len(s) : s[i] \in Seq(S)
  BY LenProperties, ElementOfSeq
<1> DEFINE f == Flat(s)
<1>2. f = [i \in 1 .. Len(s) |-> IF i = 1 THEN s[i] ELSE f[i - 1] \o s[i]]
  BY <1>1, FlatExists DEF Flat
<1> HIDE DEF f
<1>3. \A i \in 1 .. Len(s) : f[i] = IF i = 1 THEN s[i] ELSE f[i - 1] \o s[i]
  BY <1>2
<1> DEFINE G == {i \in 1 .. Len(s) : f[i] \in Seq(S)}
<1>4. Len(s) > 0 => 1 \in G
  BY <1>1, <1>3
<1>5. ASSUME NEW i \in 1 .. Len(s), i > 1, i - 1 \in G PROVE i \in G
  <2>1. f[i] = f[i - 1] \o s[i]
    <3>1. i # 1
      BY <1>1, <1>5
    <3> QED
      BY <1>3, <3>1
  <2>2. f[i - 1] \in Seq(S) /\ s[i] \in Seq(S)
    BY <1>1, <1>5
  <2> QED
    BY <2>1, <2>2, ConcatProperties
<1>6. 1 .. Len(s) \subseteq G
  <2> HIDE DEF G
  <2> QED
    BY <1>1, <1>4, <1>5, Upwards
<1> QED
  BY <1>3, <1>6 DEF f

\* FlattenSeq gives a sequence over the same set.
LEMMA FlattenType ==
  ASSUME NEW S, NEW s \in Seq(Seq(S))
  PROVE  FlattenSeq(s) \in Seq(S)
<1>1. CASE s = << >>
  BY <1>1, FlattenEmpty, EmptySeq
<1>2. CASE s # << >>
  <2>1. Len(s) \in 1 .. Len(s) /\ Len(s) # 0
    BY <1>2, EmptySeq
  <2>2. FlattenSeq(s) = Flat(s)[Len(s)]
    BY <2>1, FlattenDef
  <2>3. Flat(s)[Len(s)] \in Seq(S)
    BY <2>1, FlatSteps
  <2> QED
    BY <2>2, <2>3
<1> QED
  BY <1>1, <1>2

\* The first places of a longer sequence are flattened as before.
LEMMA FlatPrefix ==
  ASSUME NEW S, NEW s \in Seq(Seq(S)), NEW t \in Seq(Seq(S)), Len(s) <= Len(t),
         \A i \in 1 .. Len(s) : s[i] = t[i]
  PROVE  \A i \in 1 .. Len(s) : Flat(s)[i] = Flat(t)[i]
<1>1. Len(s) \in Nat /\ Len(t) \in Nat
  BY LenProperties
<1> DEFINE G == {i \in 1 .. Len(s) : Flat(s)[i] = Flat(t)[i]}
<1>2. /\ \A i \in 1 .. Len(s) : Flat(s)[i] = IF i = 1 THEN s[i] ELSE Flat(s)[i - 1] \o s[i]
      /\ \A i \in 1 .. Len(t) : Flat(t)[i] = IF i = 1 THEN t[i] ELSE Flat(t)[i - 1] \o t[i]
  BY FlatSteps
<1>3. ASSUME Len(s) > 0 PROVE 1 \in G
  <2>1. 1 \in 1 .. Len(s) /\ 1 \in 1 .. Len(t)
    BY <1>1, <1>3
  <2>2. Flat(s)[1] = s[1] /\ Flat(t)[1] = t[1]
    BY <1>2, <2>1
  <2> QED
    BY <2>1, <2>2
<1>4. ASSUME NEW i \in 1 .. Len(s), i > 1, i - 1 \in G PROVE i \in G
  <2>1. i # 1 /\ i \in 1 .. Len(t)
    BY <1>1, <1>4
  <2>2. Flat(s)[i] = Flat(s)[i - 1] \o s[i] /\ Flat(t)[i] = Flat(t)[i - 1] \o t[i]
    BY <1>2, <2>1
  <2>3. Flat(s)[i - 1] = Flat(t)[i - 1] /\ s[i] = t[i]
    BY <1>4
  <2> QED
    BY <2>2, <2>3
<1>5. 1 .. Len(s) \subseteq G
  <2> HIDE DEF G
  <2> QED
    BY <1>1, <1>3, <1>4, Upwards
<1> QED
  BY <1>5

\* One more at the end is one more put behind what there is.
LEMMA FlattenAppend ==
  ASSUME NEW S, NEW s \in Seq(Seq(S)), NEW x \in Seq(S)
  PROVE  FlattenSeq(Append(s, x)) = FlattenSeq(s) \o x
<1> DEFINE t == Append(s, x)
           n == Len(s)
<1>1. /\ t \in Seq(Seq(S)) /\ Len(t) = n + 1 /\ t[n + 1] = x
      /\ \A i \in 1 .. n : t[i] = s[i]
      /\ n \in Nat
  BY AppendProperties, LenProperties
<1> HIDE DEF t
<1>2. FlattenSeq(t) = Flat(t)[n + 1]
  BY <1>1, FlattenDef
<1>3. Flat(t)[n + 1] = IF n + 1 = 1 THEN x ELSE Flat(t)[n] \o x
  <2>1. n + 1 \in 1 .. Len(t) /\ (n + 1) - 1 = n
    BY <1>1
  <2> QED
    BY <1>1, <2>1, FlatSteps
<1>4. CASE n = 0
  <2>1. s = << >>
    BY <1>4, EmptySeq
  <2> QED
    BY <1>2, <1>3, <1>4, <2>1, FlattenEmpty, ConcatEmptySeq DEF t
<1>5. CASE n # 0
  <2>1. n \in 1 .. n /\ n <= Len(t)
    BY <1>1, <1>5
  <2>2. Flat(s)[n] = Flat(t)[n]
    BY <1>1, <2>1, FlatPrefix
  <2>3. FlattenSeq(s) = Flat(s)[n]
    BY <1>5, FlattenDef
  <2> QED
    BY <1>1, <1>2, <1>3, <1>5, <2>2, <2>3 DEF t
<1> QED
  BY <1>4, <1>5

\* The first, and behind it the others.
LEMMA FlattenHead ==
  ASSUME NEW S, NEW s \in Seq(Seq(S)), s # << >>
  PROVE  FlattenSeq(s) = s[1] \o FlattenSeq(Tail(s))
<1> DEFINE t == Tail(s)
           n == Len(t)
<1>1. /\ t \in Seq(Seq(S)) /\ n = Len(s) - 1 /\ n \in Nat /\ Len(s) = n + 1
      /\ \A i \in 1 .. n : t[i] = s[i + 1]
  BY HeadTailProperties, LenProperties, EmptySeq
<1>2. s[1] \in Seq(S) /\ \A i \in 1 .. n : t[i] \in Seq(S)
  BY <1>1, ElementOfSeq
<1> HIDE DEF t
<1>3. \A y, z \in Seq(S) : (s[1] \o y) \o z = s[1] \o (y \o z)
  <2>1. PICK x \in Seq(S) : x = s[1]
    BY <1>2
  <2>2. \A y, z \in Seq(S) : Cat(Cat(x, y), z) = Cat(x, Cat(y, z))
    BY <2>1, CatAssociative
  <2> QED
    BY <2>1, <2>2 DEF Cat
<1>4. FlattenSeq(s) = Flat(s)[n + 1]
  BY <1>1, FlattenDef
<1>5. /\ \A i \in 1 .. n + 1 : Flat(s)[i] = IF i = 1 THEN s[i] ELSE Flat(s)[i - 1] \o s[i]
      /\ \A i \in 1 .. n : /\ Flat(t)[i] = IF i = 1 THEN t[i] ELSE Flat(t)[i - 1] \o t[i]
                           /\ Flat(t)[i] \in Seq(S)
  <2>1. \A i \in 1 .. Len(s) : Flat(s)[i] = IF i = 1 THEN s[i] ELSE Flat(s)[i - 1] \o s[i]
    BY FlatSteps
  <2>2. \A i \in 1 .. n : /\ Flat(t)[i] = IF i = 1 THEN t[i] ELSE Flat(t)[i - 1] \o t[i]
                          /\ Flat(t)[i] \in Seq(S)
    BY <1>1, FlatSteps
  <2> QED
    BY <1>1, <2>1, <2>2
<1>6. CASE n = 0
  <2>1. t = << >>
    BY <1>1, <1>6, EmptySeq
  <2>2. Flat(s)[1] = s[1]
    BY <1>5, <1>6
  <2>3. FlattenSeq(s) = s[1]
    BY <1>4, <1>6, <2>2
  <2>4. FlattenSeq(t) = << >>
    BY <2>1, FlattenEmpty
  <2>5. s[1] \o << >> = s[1]
    BY <1>2, ConcatEmptySeq
  <2> QED
    BY <2>3, <2>4, <2>5 DEF t
<1>7. CASE n # 0
  <2> DEFINE G == {i \in 1 .. n : Flat(s)[i + 1] = s[1] \o Flat(t)[i]}
  <2>1. 1 \in G
    <3>1. Flat(s)[1] = s[1] /\ Flat(s)[2] = Flat(s)[1] \o s[2] /\ Flat(t)[1] = t[1] /\ t[1] = s[2]
      <4>1. 1 \in 1 .. n /\ 1 \in 1 .. n + 1 /\ 2 \in 1 .. n + 1 /\ 1 + 1 = 2 /\ 2 - 1 = 1
        BY <1>1, <1>7
      <4>2. t[1] = s[2]
        BY <1>1, <4>1
      <4>3. Flat(s)[1] = s[1] /\ Flat(t)[1] = t[1]
        BY <1>5, <4>1
      <4>4. Flat(s)[2] = Flat(s)[2 - 1] \o s[2]
        <5>1. 2 \in 1 .. n + 1 /\ 2 # 1
          BY <4>1
        <5> HIDE DEF G
        <5> QED
          BY <1>5, <5>1
      <4> QED
        BY <4>1, <4>2, <4>3, <4>4
    <3>2. 1 \in 1 .. n /\ Flat(s)[1 + 1] = Flat(s)[2]
      BY <1>1, <1>7
    <3>3. Flat(s)[1 + 1] = s[1] \o Flat(t)[1]
      BY <3>1, <3>2
    <3> QED
      BY <3>2, <3>3
  <2>2. ASSUME NEW i \in 1 .. n, i > 1, i - 1 \in G PROVE i \in G
    <3>1. i - 1 \in 1 .. n /\ (i - 1) + 1 = i /\ i + 1 \in 1 .. n + 1 /\ (i + 1) - 1 = i /\ i + 1 # 1
      BY <1>1, <2>2
    <3> PICK j \in 1 .. n : j = i - 1
      BY <3>1
    <3>2. Flat(s)[i] = s[1] \o Flat(t)[j]
      BY <2>2, <3>1
    <3>3. Flat(s)[i + 1] = Flat(s)[i] \o t[i]
      BY <1>1, <1>5, <3>1
    <3>4. Flat(t)[i] = Flat(t)[j] \o t[i] /\ Flat(t)[j] \in Seq(S) /\ t[i] \in Seq(S)
      <4>1. i # 1
        BY <1>1, <2>2
      <4> QED
        BY <1>2, <1>5, <3>1, <4>1
    <3>5. (s[1] \o Flat(t)[j]) \o t[i] = s[1] \o (Flat(t)[j] \o t[i])
      <4>1. PICK x, y, z : x = s[1] /\ y = Flat(t)[j] /\ z = t[i]
        OBVIOUS
      <4>2. x \in Seq(S) /\ y \in Seq(S) /\ z \in Seq(S)
        BY <1>2, <3>4, <4>1
      <4>3. (x \o y) \o z = x \o (y \o z)
        BY <4>1, <4>2, <1>3
      <4> QED
        BY <4>1, <4>3
    <3> QED
      BY <3>2, <3>3, <3>4, <3>5
  <2>3. 1 .. n \subseteq G
    <3> HIDE DEF G
    <3> QED
      BY <1>1, <2>1, <2>2, Upwards
  <2>4. Flat(s)[n + 1] = s[1] \o Flat(t)[n]
    <3>1. n \in 1 .. n
      BY <1>1, <1>7
    <3> QED
      BY <2>3, <3>1
  <2>5. FlattenSeq(t) = Flat(t)[n]
    BY <1>7, FlattenDef
  <2> QED
    BY <1>4, <2>4, <2>5 DEF t
<1> QED
  BY <1>6, <1>7
-------------------------------------------------------------------------------
(* FoldLeft, whose definition is a recursive function on sets of places.   *)

\* f, for a fold of a sequence of n places that takes d to g[k][d] at place k.
IsFold(f, n, g, base) ==
  f = [s \in SUBSET (1 .. n) |-> IF s = {} THEN base ELSE g[Max(s)][f[s \ {Max(s)}]]]

\* The greatest number up to m that is in a set with m.
LEMMA MaxOfUpTo ==
  ASSUME NEW m \in Nat, NEW s \in SUBSET (1 .. m), m \in s
  PROVE  Max(s) = m
<1>1. m \in s /\ \A y \in s : m >= y
  OBVIOUS
<1>2. \A x \in s : (\A y \in s : x >= y) => x = m
  OBVIOUS
<1> QED
  BY <1>1, <1>2 DEF Max

\* A set of numbers up to n that is not empty has a greatest.
LEMMA MaxIsIn ==
  ASSUME NEW n \in Nat, NEW s \in SUBSET (1 .. n), s # {}
  PROVE  Max(s) \in s
<1> DEFINE G == {m \in 1 .. n : \A t \in SUBSET (1 .. m) : t # {} => Max(t) \in t}
<1>1. ASSUME NEW m \in 1 .. n, \A t \in SUBSET (1 .. m - 1) : t # {} => Max(t) \in t
      PROVE  m \in G
  <2> SUFFICES ASSUME NEW t \in SUBSET (1 .. m), t # {} PROVE Max(t) \in t
    OBVIOUS
  <2>1. CASE m \in t
    BY <2>1, MaxOfUpTo
  <2>2. CASE m \notin t
    <3>1. t \in SUBSET (1 .. m - 1)
      BY <2>2
    <3> QED
      BY <1>1, <3>1
  <2> QED
    BY <2>1, <2>2
<1>2. 1 .. n \subseteq G
  <2>1. n > 0 => 1 \in G
    <3> SUFFICES ASSUME n > 0 PROVE 1 \in G
      OBVIOUS
    <3>1. 1 \in 1 .. n /\ 1 .. 1 - 1 = {}
      OBVIOUS
    <3>2. \A t \in SUBSET (1 .. 1 - 1) : t # {} => Max(t) \in t
      BY <3>1
    <3> HIDE DEF G
    <3> QED
      BY <1>1, <3>1, <3>2
  <2>2. ASSUME NEW m \in 1 .. n, m > 1, m - 1 \in G PROVE m \in G
    <3>1. \A t \in SUBSET (1 .. m - 1) : t # {} => Max(t) \in t
      BY <2>2
    <3> HIDE DEF G
    <3> QED
      BY <1>1, <3>1
  <2> HIDE DEF G
  <2> QED
    BY <2>1, <2>2, Upwards
<1>3. n \in 1 .. n
  <2> PICK x \in s : TRUE
    OBVIOUS
  <2> QED
    OBVIOUS
<1> QED
  BY <1>2, <1>3

\* There is such a function, and its values are in D if the steps stay in D.
LEMMA FoldExists ==
  ASSUME NEW D, NEW n \in Nat, NEW g, \A k \in 1 .. n : g[k] \in [D -> D], NEW base \in D
  PROVE  \E f : IsFold(f, n, g, base) /\ \A s \in SUBSET (1 .. n) : f[s] \in D
<1> DEFINE P(m) == \E f : IsFold(f, m, g, base) /\ \A s \in SUBSET (1 .. m) : f[s] \in D
           G == {m \in 1 .. n : P(m)}
<1>1. P(0)
  <2> DEFINE f == [s \in SUBSET (1 .. 0) |-> base]
  <2>1. 1 .. 0 = {}
    OBVIOUS
  <2>2. \A s \in SUBSET (1 .. 0) : s = {}
    BY <2>1
  <2>3. f = [s \in SUBSET (1 .. 0) |-> IF s = {} THEN base ELSE g[Max(s)][f[s \ {Max(s)}]]]
    BY <2>2
  <2>4. \A s \in SUBSET (1 .. 0) : f[s] \in D
    OBVIOUS
  <2> HIDE DEF f
  <2> QED
    BY <2>3, <2>4 DEF IsFold
<1>2. ASSUME NEW m \in 1 .. n, P(m - 1) PROVE P(m)
  <2>1. PICK f : IsFold(f, m - 1, g, base) /\ \A s \in SUBSET (1 .. m - 1) : f[s] \in D
    BY <1>2
  <2> DEFINE h == [s \in SUBSET (1 .. m) |-> IF m \in s THEN g[m][f[s \ {m}]] ELSE f[s]]
  <2>2. \A s \in SUBSET (1 .. m) : s \ {m} \in SUBSET (1 .. m - 1)
    OBVIOUS
  <2>3. \A s \in SUBSET (1 .. m - 1) : h[s] = f[s]
    <3>1. \A s \in SUBSET (1 .. m - 1) : s \in SUBSET (1 .. m) /\ m \notin s
      OBVIOUS
    <3> QED
      BY <3>1
  <2>4. \A s \in SUBSET (1 .. m - 1) :
          f[s] = IF s = {} THEN base ELSE g[Max(s)][f[s \ {Max(s)}]]
    BY <2>1 DEF IsFold
  <2>5. ASSUME NEW s \in SUBSET (1 .. m)
        PROVE  h[s] = (IF s = {} THEN base ELSE g[Max(s)][h[s \ {Max(s)}]]) /\ h[s] \in D
    <3>1. CASE m \in s
      <4>1. Max(s) = m /\ s # {} /\ s \ {m} \in SUBSET (1 .. m - 1)
        BY <2>2, <3>1, MaxOfUpTo
      <4>2. h[s] = g[m][f[s \ {m}]]
        BY <3>1
      <4>3. h[s \ {m}] = f[s \ {m}]
        BY <2>3, <4>1
      <4>4. f[s \ {m}] \in D /\ g[m] \in [D -> D]
        BY <2>1, <4>1
      <4> HIDE DEF h
      <4> QED
        BY <4>1, <4>2, <4>3, <4>4
    <3>2. CASE m \notin s
      <4>1. s \in SUBSET (1 .. m - 1) /\ s \ {Max(s)} \in SUBSET (1 .. m - 1)
        BY <2>2, <3>2
      <4>2. h[s] = f[s] /\ h[s \ {Max(s)}] = f[s \ {Max(s)}]
        BY <2>3, <4>1
      <4> HIDE DEF h
      <4> QED
        BY <2>1, <2>4, <4>1, <4>2
    <3> QED
      BY <3>1, <3>2
  <2>6. h = [s \in SUBSET (1 .. m) |-> h[s]]
    OBVIOUS
  <2> HIDE DEF h
  <2>7. h = [s \in SUBSET (1 .. m) |-> IF s = {} THEN base ELSE g[Max(s)][h[s \ {Max(s)}]]]
    BY <2>5, <2>6
  <2> QED
    BY <2>5, <2>7 DEF IsFold
<1> SUFFICES P(n)
  OBVIOUS
<1> HIDE DEF P
<1>3. 1 .. n \subseteq G
  <2>1. n > 0 => 1 \in G
    <3> SUFFICES ASSUME n > 0 PROVE 1 \in G
      OBVIOUS
    <3>1. 1 \in 1 .. n /\ 1 - 1 = 0
      OBVIOUS
    <3> QED
      BY <1>1, <1>2, <3>1
  <2>2. ASSUME NEW m \in 1 .. n, m > 1, m - 1 \in G PROVE m \in G
    BY <1>2, <2>2
  <2> HIDE DEF G
  <2> QED
    BY <2>1, <2>2, Upwards
<1> QED
  <2>1. CASE n = 0
    BY <1>1, <2>1
  <2>2. CASE n # 0
    <3>1. n \in 1 .. n
      BY <2>2
    <3> QED
      BY <1>3, <3>1
  <2> QED
    BY <2>1, <2>2

\* int.from_bytes of the reference of a part, in one octet or two.
Bytes(octets, n) ==
  CHOOSE f : f = [s \in SUBSET (1 .. n) |->
                    IF s = {} THEN 0 ELSE 256 * f[s \ {Max(s)}] + octets[Max(s)]]

\* FromBytes takes the octets one by one, from the first.
LEMMA BytesSteps ==
  ASSUME NEW octets \in Seq(Nat)
  PROVE  /\ FromBytes(octets) = Bytes(octets, Len(octets))[1 .. Len(octets)]
         /\ Bytes(octets, Len(octets))[{}] = 0
         /\ \A k \in 1 .. Len(octets) :
              Bytes(octets, Len(octets))[1 .. k]
                = 256 * Bytes(octets, Len(octets))[1 .. k - 1] + octets[k]
<1> DEFINE n == Len(octets)
           f == Bytes(octets, n)
           g == [k \in 1 .. n |-> [d \in Nat |-> 256 * d + octets[k]]]
<1>1. n \in Nat /\ DOMAIN octets = 1 .. n /\ \A k \in 1 .. n : octets[k] \in Nat
  BY LenProperties, ElementOfSeq
<1>2. FromBytes(octets) = f[1 .. n]
  BY <1>1 DEF FromBytes, FoldLeft, MapThenFoldSet, Bytes
<1>3. f = [s \in SUBSET (1 .. n) |-> IF s = {} THEN 0 ELSE 256 * f[s \ {Max(s)}] + octets[Max(s)]]
  <2>1. \A k \in 1 .. n : g[k] \in [Nat -> Nat]
    BY <1>1
  <2>2. PICK h : IsFold(h, n, g, 0) /\ \A s \in SUBSET (1 .. n) : h[s] \in Nat
    <3> HIDE DEF g
    <3> QED
      BY <1>1, <2>1, FoldExists
  <2>3. \A s \in SUBSET (1 .. n) : h[s] = IF s = {} THEN 0 ELSE g[Max(s)][h[s \ {Max(s)}]]
    BY <2>2 DEF IsFold
  <2>4. ASSUME NEW s \in SUBSET (1 .. n)
        PROVE  h[s] = IF s = {} THEN 0 ELSE 256 * h[s \ {Max(s)}] + octets[Max(s)]
    <3>1. CASE s = {}
      BY <2>3, <3>1
    <3>2. CASE s # {}
      <4>1. Max(s) \in 1 .. n /\ s \ {Max(s)} \in SUBSET (1 .. n)
        BY <1>1, <3>2, MaxIsIn
      <4>2. h[s] = g[Max(s)][h[s \ {Max(s)}]]
        BY <2>3, <3>2
      <4>3. h[s \ {Max(s)}] \in Nat
        BY <2>2, <4>1
      <4>4. g[Max(s)][h[s \ {Max(s)}]] = 256 * h[s \ {Max(s)}] + octets[Max(s)]
        BY <4>1, <4>3
      <4> QED
        BY <3>2, <4>2, <4>4
    <3> QED
      BY <3>1, <3>2
  <2>5. h = [s \in SUBSET (1 .. n) |-> h[s]]
    BY <2>2 DEF IsFold
  <2>6. h = [s \in SUBSET (1 .. n) |-> IF s = {} THEN 0 ELSE 256 * h[s \ {Max(s)}] + octets[Max(s)]]
    BY <2>4, <2>5
  <2> QED
    BY ZenonT(40), <2>6 DEF Bytes
<1> HIDE DEF f
<1>4. f[{}] = 0
  BY <1>3
<1>5. ASSUME NEW k \in 1 .. n PROVE f[1 .. k] = 256 * f[1 .. k - 1] + octets[k]
  <2>1. 1 .. k \in SUBSET (1 .. n) /\ k \in 1 .. k /\ 1 .. k # {} /\ (1 .. k) \ {k} = 1 .. k - 1
    BY <1>1
  <2>2. Max(1 .. k) = k
    BY <2>1, MaxOfUpTo
  <2>3. f[1 .. k] = IF 1 .. k = {} THEN 0 ELSE 256 * f[(1 .. k) \ {Max(1 .. k)}] + octets[Max(1 .. k)]
    BY <1>3, <2>1
  <2> QED
    BY <2>1, <2>2, <2>3
<1> QED
  BY <1>2, <1>4, <1>5 DEF f
-------------------------------------------------------------------------------
(* The stream: what is in the buffer is cut where the PDUs end.            *)

\* The octets of a PDU, one by one.
LEMMA OctetsOfPdu ==
  ASSUME NEW P, NEW p \in P, NEW n \in Nat
  PROVE  /\ OctetsOf(p, n) \in Seq(P \X Nat \X Nat)
         /\ Len(OctetsOf(p, n)) = n
         /\ \A k \in 1 .. n : OctetsOf(p, n)[k] = <<p, k, n>>
<1>1. \A k \in 1 .. n : <<p, k, n>> \in P \X Nat \X Nat
  OBVIOUS
<1> QED
  BY <1>1 DEF OctetsOf

\* What is left of a sequence once as many octets as its first part has are taken.
LEMMA RestOfCat ==
  ASSUME NEW S, NEW a \in Seq(S), NEW b \in Seq(S), NEW c \in Seq(S), NEW d \in Seq(S),
         Cat(a, b) = Cat(c, d), Len(a) >= Len(c)
  PROVE  Rest(a, Len(c)) \in Seq(S) /\ Cat(Rest(a, Len(c)), b) = d
<1>1. a \o b = c \o d
  BY DEF Cat
<1> DEFINE m == Len(c)
           r == SubSeq(a, m + 1, Len(a))
<1>2. m \in Nat /\ Len(a) \in Nat /\ Len(b) \in Nat /\ Len(d) \in Nat /\ m <= Len(a)
  BY LenProperties
<1>3. /\ r \in Seq(S) /\ Len(r) = Len(a) - m
      /\ \A i \in 1 .. Len(r) : r[i] = a[m + i]
  <2>1. \A i \in m + 1 .. Len(a) : a[i] \in S
    BY <1>2, ElementOfSeq
  <2>2. m + 1 \in Int /\ Len(a) \in Int
    BY <1>2
  <2>3. /\ r \in Seq(S)
        /\ Len(r) = IF m + 1 <= Len(a) THEN Len(a) - (m + 1) + 1 ELSE 0
        /\ \A i \in 1 .. Len(a) - (m + 1) + 1 : r[i] = a[(m + 1) + i - 1]
    BY <2>1, <2>2, SubSeqProperties
  <2> HIDE DEF r
  <2> QED
    BY <1>2, <2>3
<1> HIDE DEF r
<1>4. Len(a) + Len(b) = m + Len(d)
  <2>1. Len(a \o b) = Len(a) + Len(b) /\ Len(c \o d) = m + Len(d)
    BY ConcatProperties
  <2> QED
    BY <1>1, <2>1
<1>5. r \o b \in Seq(S) /\ Len(r \o b) = Len(d)
  <2>1. r \o b \in Seq(S) /\ Len(r \o b) = Len(r) + Len(b)
    BY <1>3, ConcatProperties
  <2> QED
    BY <1>2, <1>3, <1>4, <2>1
<1>6. ASSUME NEW i \in 1 .. Len(d) PROVE (r \o b)[i] = d[i]
  <2>1. (r \o b)[i] = IF i <= Len(r) THEN r[i] ELSE b[i - Len(r)]
    BY <1>2, <1>3, <1>4, ConcatProperties
  <2>2. m + i \in 1 .. Len(a) + Len(b) /\ m + i \in 1 .. Len(c) + Len(d)
    BY <1>2, <1>4
  <2>3. (a \o b)[m + i] = IF m + i <= Len(a) THEN a[m + i] ELSE b[m + i - Len(a)]
    BY <2>2, ConcatProperties
  <2>4. (c \o d)[m + i] = IF m + i <= Len(c) THEN c[m + i] ELSE d[m + i - Len(c)]
    BY <2>2, ConcatProperties
  <2>5. (c \o d)[m + i] = d[i]
    <3>1. ~(m + i <= Len(c)) /\ m + i - Len(c) = i
      BY <1>2
    <3> QED
      BY <2>4, <3>1
  <2>6. CASE i <= Len(r)
    <3>1. m + i <= Len(a) /\ i \in 1 .. Len(r)
      BY <1>2, <1>3, <2>6
    <3> QED
      BY <1>1, <1>3, <2>1, <2>3, <2>5, <2>6, <3>1
  <2>7. CASE ~(i <= Len(r))
    <3>1. ~(m + i <= Len(a)) /\ m + i - Len(a) = i - Len(r)
      BY <1>2, <1>3, <2>7
    <3> QED
      BY <1>1, <2>1, <2>3, <2>5, <2>7, <3>1
  <2> QED
    BY <2>6, <2>7
<1>7. r \o b = d
  BY <1>5, <1>6, SeqEqual
<1> QED
  BY <1>3, <1>7 DEF r, Rest, Cat

\* With less than the next PDU in the buffer nothing is cut off; with as much or
\* more it is that PDU, and what comes after it stays.
LEMMA CutsWhole ==
  ASSUME NEW P, NEW p \in P, NEW n \in Nat, n >= HeaderLength,
         NEW a \in Seq(P \X Nat \X Nat), NEW b \in Seq(P \X Nat \X Nat),
         NEW d \in Seq(P \X Nat \X Nat),
         Cat(a, b) = Cat(OctetsOf(p, n), d)
  PROVE  /\ Len(a) < n => PduLength(a) = 0
         /\ Len(a) >= n => /\ PduLength(a) = n /\ a[1][1] = p
                           /\ Rest(a, n) \in Seq(P \X Nat \X Nat)
                           /\ Cat(Rest(a, n), b) = d
<1>1. a \o b = OctetsOf(p, n) \o d
  BY DEF Cat
<1> DEFINE c == OctetsOf(p, n)
<1>2. c \in Seq(P \X Nat \X Nat) /\ Len(c) = n /\ \A k \in 1 .. n : c[k] = <<p, k, n>>
  BY OctetsOfPdu
<1>3. HeaderLength \in Nat /\ HeaderLength > 0
  BY FramingAssumption
<1>4. Len(a) \in Nat /\ Len(b) \in Nat /\ Len(d) \in Nat
  BY LenProperties
<1> HIDE DEF c
<1>5. ASSUME Len(a) >= HeaderLength PROVE a[1] = <<p, 1, n>>
  <2>1. 1 \in 1 .. Len(a) + Len(b) /\ 1 \in 1 .. Len(c) + Len(d) /\ 1 \in 1 .. n
    BY SMTT(30), <1>2, <1>3, <1>4, <1>5
  <2>2. (a \o b)[1] = IF 1 <= Len(a) THEN a[1] ELSE b[1 - Len(a)]
    BY <2>1, ConcatProperties
  <2>3. (c \o d)[1] = IF 1 <= Len(c) THEN c[1] ELSE d[1 - Len(c)]
    BY <1>2, <2>1, ConcatProperties
  <2>4. 1 <= Len(a) /\ 1 <= Len(c)
    BY <1>2, <1>3, <1>4, <1>5
  <2> QED
    BY <1>1, <1>2, <2>1, <2>2, <2>3, <2>4 DEF c
<1>6. ASSUME Len(a) >= HeaderLength PROVE CommandLength(a) = n /\ a[1][1] = p
  BY <1>5, <1>6 DEF CommandLength
<1>7. ASSUME Len(a) < n PROVE PduLength(a) = 0
  BY <1>3, <1>4, <1>6, <1>7 DEF PduLength
<1>8. ASSUME Len(a) >= n PROVE PduLength(a) = n /\ a[1][1] = p
  <2>1. Len(a) >= HeaderLength
    BY <1>3, <1>4, <1>8
  <2> QED
    BY SMTT(30), <1>3, <1>4, <1>6, <1>8, <2>1 DEF PduLength
<1>9. ASSUME Len(a) >= n
      PROVE  Rest(a, n) \in Seq(P \X Nat \X Nat) /\ Cat(Rest(a, n), b) = d
  <2>1. Cat(a, b) = Cat(c, d)
    BY DEF c, Cat
  <2>2. Len(a) >= Len(c)
    BY <1>2, <1>9
  <2> DEFINE S == P \X Nat \X Nat
  <2>3. a \in Seq(S) /\ b \in Seq(S) /\ c \in Seq(S) /\ d \in Seq(S)
    BY <1>2
  <2> HIDE DEF S
  <2>4. Rest(a, Len(c)) \in Seq(S) /\ Cat(Rest(a, Len(c)), b) = d
    BY <2>3, <2>1, <2>2, RestOfCat
  <2> QED
    BY <1>2, <2>4 DEF S
<1> QED
  BY <1>7, <1>8, <1>9

\* Nothing is cut off an empty buffer.
LEMMA CutsNothing ==
  ASSUME NEW S, NEW a \in Seq(S), NEW b \in Seq(S), Cat(a, b) = << >>
  PROVE  a = << >> /\ Len(a) = 0 /\ PduLength(a) = 0
<1>1. a = << >> /\ Len(a) = 0
  BY ConcatEqualIffEmpty, EmptySeq DEF Cat
<1> QED
  BY <1>1, FramingAssumption DEF PduLength

\* A read moves octets from the wire to the buffer.
LEMMA ReadMoves ==
  ASSUME NEW S, NEW a \in Seq(S), NEW b \in Seq(S), NEW n \in 1 .. Len(b)
  PROVE  /\ Cat(a, SubSeq(b, 1, n)) \in Seq(S) /\ Rest(b, n) \in Seq(S)
         /\ Cat(Cat(a, SubSeq(b, 1, n)), Rest(b, n)) = Cat(a, b)
<1>1. Len(b) \in Nat /\ n \in Nat
  BY LenProperties
<1> DEFINE x == SubSeq(b, 1, n)
           y == SubSeq(b, n + 1, Len(b))
<1>2. x \in Seq(S) /\ y \in Seq(S)
  <2>1. \A i \in 1 .. Len(b) : b[i] \in S
    BY ElementOfSeq
  <2>2. \A i \in 1 .. n : b[i] \in S
    BY <1>1, <2>1
  <2>3. \A i \in n + 1 .. Len(b) : b[i] \in S
    BY <1>1, <2>1
  <2> QED
    BY <1>1, <2>2, <2>3, SubSeqProperties
<1>3. x \o y = b
  <2>1. 1 \in 1 .. Len(b) + 1 /\ n \in 1 - 1 .. Len(b) /\ Len(b) \in n .. Len(b)
    BY <1>1
  <2>2. SubSeq(b, 1, n) \o SubSeq(b, n + 1, Len(b)) = SubSeq(b, 1, Len(b))
    BY <2>1, ConcatAdjacentSubSeq
  <2> QED
    BY <2>2, SubSeqFull
<1> HIDE DEF x, y
<1>4. (a \o x) \o y = a \o b
  <2>1. Cat(Cat(a, x), y) = Cat(a, Cat(x, y))
    BY <1>2, CatAssociative
  <2> QED
    BY <1>3, <2>1 DEF Cat
<1>5. a \o x \in Seq(S)
  BY <1>2, ConcatProperties
<1> QED
  BY <1>2, <1>3, <1>4, <1>5 DEF x, y, Rest, Cat
-------------------------------------------------------------------------------
(* What a text is sent as.                                                 *)

\* What \div rounds to.
LEMMA Divided ==
  ASSUME NEW a \in Nat, NEW b \in Nat \ {0}
  PROVE  a \div b \in Nat /\ (a \div b) * b <= a /\ a < (a \div b) * b + b
OBVIOUS

\* Where the i-th of n pieces of one size begins and ends.
LEMMA Multiples ==
  ASSUME NEW n \in Nat, NEW i \in 1 .. n, NEW size \in Nat \ {0}
  PROVE  /\ (i - 1) * size \in Nat /\ i * size \in Nat /\ n * size \in Nat
         /\ i * size = (i - 1) * size + size /\ i * size <= n * size
OBVIOUS

\* Min of two numbers.
LEMMA MinOfTwo ==
  ASSUME NEW a \in Int, NEW b \in Int
  PROVE  Min({a, b}) = IF a <= b THEN a ELSE b
<1> DEFINE m == IF a <= b THEN a ELSE b
<1>1. m \in {a, b} /\ \A y \in {a, b} : m <= y
  OBVIOUS
<1>2. \A x \in {a, b} : (\A y \in {a, b} : x <= y) => x = m
  OBVIOUS
<1> HIDE DEF m
<1>3. Min({a, b}) = m
  BY <1>1, <1>2 DEF Min
<1> QED
  BY <1>3 DEF m

\* Where the i-th part begins, less one, and where it ends.
PartEnd(octets, size, i) == IF i * size <= Len(octets) THEN i * size ELSE Len(octets)

\* The parts of a text are as long as they may be, but for the last, and each
\* begins where the one before it ends.
LEMMA SplitParts ==
  ASSUME NEW S, NEW octets \in Seq(S), NEW size \in Nat \ {0}
  PROVE  LET s == Split(octets, size)
             L == Len(octets)
         IN  /\ s \in Seq(Seq(S)) /\ Len(s) \in Nat
             /\ L <= Len(s) * size
             /\ \A i \in 1 .. Len(s) :
                  LET b == (i - 1) * size
                      e == PartEnd(octets, size, i)
                  IN  /\ b \in 0 .. L - 1 /\ e \in b + 1 .. L /\ e <= b + size
                      /\ s[i] = SubSeq(octets, b + 1, e)
                      /\ s[i] \in Seq(S) /\ Len(s[i]) = e - b
<1> DEFINE L == Len(octets)
           n == (L + size - 1) \div size
           s == Split(octets, size)
<1>1. L \in Nat
  BY LenProperties
<1>2. n \in Nat /\ n * size <= L + size - 1 /\ L + size - 1 < n * size + size
  <2>1. L + size - 1 \in Nat
    BY <1>1
  <2> QED
    BY <2>1, Divided
<1>3. n * size \in Nat
  BY <1>2
<1>4. L <= n * size
  BY <1>1, <1>2, <1>3
<1>5. ASSUME NEW i \in 1 .. n
      PROVE  LET b == (i - 1) * size
                 e == PartEnd(octets, size, i)
             IN  /\ b \in 0 .. L - 1 /\ e \in b + 1 .. L /\ e <= b + size
                 /\ Min({i * size, L}) = e
                 /\ SubSeq(octets, b + 1, e) \in Seq(S)
                 /\ Len(SubSeq(octets, b + 1, e)) = e - b
  <2> DEFINE b == (i - 1) * size
             c == i * size
             e == PartEnd(octets, size, i)
             N == n * size
  <2>1. b \in Nat /\ c \in Nat /\ c = b + size /\ c <= N /\ N \in Nat
    BY <1>2, Multiples
  <2>2. N <= L + size - 1
    BY <1>2
  <2>3. e = IF c <= L THEN c ELSE L
    BY DEF PartEnd
  <2>4. Min({c, L}) = IF c <= L THEN c ELSE L
    <3> HIDE DEF c
    <3> QED
      BY <1>1, <2>1, MinOfTwo
  <2> HIDE DEF b, c, e, n, N
  <2>5. b \in 0 .. L - 1 /\ e \in b + 1 .. L /\ e <= b + size
    BY <1>1, <2>1, <2>2, <2>3
  <2>6. \A j \in b + 1 .. e : octets[j] \in S
    <3>1. \A j \in 1 .. L : octets[j] \in S
      BY ElementOfSeq
    <3> QED
      BY <1>1, <2>5, <3>1
  <2>7. b + 1 \in Int /\ e \in Int
    BY <1>1, <2>5
  <2>8. /\ SubSeq(octets, b + 1, e) \in Seq(S)
        /\ Len(SubSeq(octets, b + 1, e)) = IF b + 1 <= e THEN e - (b + 1) + 1 ELSE 0
    BY <2>6, <2>7, SubSeqProperties
  <2>9. Len(SubSeq(octets, b + 1, e)) = e - b
    BY <1>1, <2>5, <2>8
  <2>10. Min({c, L}) = e
    BY <2>3, <2>4
  <2> QED
    BY <2>5, <2>8, <2>9, <2>10 DEF b, c, e
<1>6. s = [i \in 1 .. n |-> SubSeq(octets, (i - 1) * size + 1, Min({i * size, L}))]
  BY DEF Split
<1> HIDE DEF n, s
<1>7. \A i \in 1 .. n : s[i] = SubSeq(octets, (i - 1) * size + 1, PartEnd(octets, size, i))
  BY <1>5, <1>6
<1>8. s = [i \in 1 .. n |-> s[i]]
  BY <1>6
<1>9. \A i \in 1 .. n : s[i] \in Seq(S)
  BY <1>5, <1>7
<1>10. s \in Seq(Seq(S)) /\ Len(s) = n
  <2> DEFINE T == Seq(S)
  <2>1. \A i \in 1 .. n : s[i] \in T
    BY <1>9
  <2> HIDE DEF T
  <2>2. s \in [1 .. n -> T]
    BY <1>8, <2>1
  <2>3. n \in Nat
    BY <1>2
  <2>4. s \in Seq(T) /\ Len(s) = n
    <3>1. s \in Seq(T)
      BY <2>2, <2>3
    <3>2. DOMAIN s = 1 .. n
      BY <2>2
    <3>3. Len(s) \in Nat /\ DOMAIN s = 1 .. Len(s)
      BY <3>1, LenProperties
    <3>4. Len(s) = n
      BY <2>3, <3>2, <3>3
    <3> QED
      BY <3>1, <3>4
  <2> QED
    BY <2>4 DEF T
<1> QED
  BY <1>2, <1>4, <1>5, <1>7, <1>10 DEF s

\* No part is empty, and none is longer than it may be.
LEMMA PartLengths ==
  ASSUME NEW S, NEW octets \in Seq(S), NEW size \in Nat \ {0}, NEW s, s = Split(octets, size)
  PROVE  \A i \in 1 .. Len(s) : s[i] \in Seq(S) /\ Len(s[i]) \in 1 .. size
<1> TAKE i \in 1 .. Len(s)
<1> DEFINE L == Len(octets)
           b == (i - 1) * size
           e == PartEnd(octets, size, i)
<1>1. /\ b \in 0 .. L - 1 /\ e \in b + 1 .. L /\ e <= b + size
      /\ s[i] \in Seq(S) /\ Len(s[i]) = e - b
  BY SMTT(30), SplitParts
<1>2. L \in Nat
  BY LenProperties
<1> HIDE DEF b, e, L
<1>3. Len(s[i]) \in 1 .. size
  BY <1>1, <1>2
<1> QED
  BY <1>1, <1>3

\* Put together, they are the text.
LEMMA SplitWhole ==
  ASSUME NEW S, NEW octets \in Seq(S), NEW size \in Nat \ {0}
  PROVE  FlattenSeq(Split(octets, size)) = octets
<1> DEFINE L == Len(octets)
           s == Split(octets, size)
           n == Len(s)
           E(i) == PartEnd(octets, size, i)
<1>1. L \in Nat
  BY LenProperties
<1>2. /\ s \in Seq(Seq(S)) /\ n \in Nat /\ L <= n * size
      /\ \A i \in 1 .. n : /\ (i - 1) * size \in 0 .. L - 1 /\ E(i) \in (i - 1) * size + 1 .. L
                           /\ s[i] = SubSeq(octets, (i - 1) * size + 1, E(i))
  BY SplitParts
<1> HIDE DEF s
<1>3. \A i \in 1 .. n : Flat(s)[i] = IF i = 1 THEN s[i] ELSE Flat(s)[i - 1] \o s[i]
  BY <1>2, FlatSteps
<1> DEFINE G == {i \in 1 .. n : Flat(s)[i] = SubSeq(octets, 1, E(i))}
<1>4. n > 0 => 1 \in G
  <2> SUFFICES ASSUME n > 0 PROVE 1 \in G
    OBVIOUS
  <2>1. 1 \in 1 .. n /\ (1 - 1) * size + 1 = 1
    BY <1>2
  <2>2. s[1] = SubSeq(octets, 1, E(1))
    BY <1>2, <2>1
  <2>3. Flat(s)[1] = s[1]
    BY <1>3, <2>1
  <2> QED
    BY <2>1, <2>2, <2>3
<1>5. ASSUME NEW i \in 1 .. n, i > 1, i - 1 \in G PROVE i \in G
  <2> DEFINE b == (i - 1) * size
             e == E(i)
  <2>1. i # 1 /\ i - 1 \in 1 .. n
    BY <1>2, <1>5
  <2>2. Flat(s)[i] = Flat(s)[i - 1] \o s[i]
    BY <1>3, <2>1
  <2>3. b \in 0 .. L - 1 /\ e \in b + 1 .. L /\ s[i] = SubSeq(octets, b + 1, e)
    BY <1>2
  <2>4. E(i - 1) = b
    BY <1>1, <2>3 DEF PartEnd
  <2>5. Flat(s)[i - 1] = SubSeq(octets, 1, b)
    BY <1>5, <2>4
  <2> HIDE DEF b, e, E
  <2>6. 1 \in 1 .. L + 1 /\ b \in 1 - 1 .. L /\ e \in b .. L
    BY <1>1, <2>3
  <2>7. SubSeq(octets, 1, b) \o SubSeq(octets, b + 1, e) = SubSeq(octets, 1, e)
    BY <2>6, ConcatAdjacentSubSeq
  <2> QED
    BY <2>2, <2>3, <2>5, <2>7 DEF e
<1>6. 1 .. n \subseteq G
  <2> HIDE DEF G
  <2> QED
    BY <1>2, <1>4, <1>5, Upwards
<1>7. CASE n = 0
  <2>1. L = 0
    BY <1>1, <1>2, <1>7
  <2>2. octets = << >> /\ s = << >>
    BY <1>2, <1>7, <2>1, EmptySeq
  <2> QED
    BY <2>2, FlattenEmpty DEF s
<1>8. CASE n # 0
  <2>1. n \in 1 .. n
    BY <1>2, <1>8
  <2>2. E(n) = L
    <3> DEFINE c == n * size
    <3>1. c \in Nat /\ L <= c
      BY <1>2
    <3>2. E(n) = IF c <= L THEN c ELSE L
      BY DEF PartEnd
    <3> HIDE DEF c, E
    <3> QED
      BY <1>1, <3>1, <3>2
  <2>3. Flat(s)[n] = SubSeq(octets, 1, L)
    BY <1>6, <2>1, <2>2
  <2>4. FlattenSeq(s) = Flat(s)[n]
    BY <1>8, FlattenDef
  <2> QED
    BY <2>3, <2>4, SubSeqFull DEF s
<1> QED
  BY <1>7, <1>8
\* A reference is a number.
LEMMA FromBytesType ==
  ASSUME NEW octets \in Seq(Nat)
  PROVE  FromBytes(octets) \in Nat
<1> DEFINE n == Len(octets)
           f == Bytes(octets, n)
           G == {k \in 1 .. n : f[1 .. k] \in Nat}
<1>1. n \in Nat /\ \A k \in 1 .. n : octets[k] \in Nat
  BY LenProperties, ElementOfSeq
<1>2. /\ FromBytes(octets) = f[1 .. n] /\ f[{}] = 0
      /\ \A k \in 1 .. n : f[1 .. k] = 256 * f[1 .. k - 1] + octets[k]
  BY BytesSteps
<1> HIDE DEF f
<1>3. n > 0 => 1 \in G
  <2> SUFFICES ASSUME n > 0 PROVE 1 \in G
    OBVIOUS
  <2>1. 1 \in 1 .. n /\ 1 .. 1 - 1 = {}
    BY <1>1
  <2>2. f[1 .. 1] = 256 * f[1 .. 1 - 1] + octets[1]
    BY ZenonT(40), <1>2, <2>1
  <2>3. f[1 .. 1 - 1] = 0
    BY <1>2, <2>1
  <2> QED
    BY <1>1, <2>1, <2>2, <2>3
<1>4. ASSUME NEW k \in 1 .. n, k > 1, k - 1 \in G PROVE k \in G
  <2>1. f[1 .. k - 1] \in Nat
    BY <1>4
  <2>2. f[1 .. k] = 256 * f[1 .. k - 1] + octets[k]
    BY <1>2
  <2> QED
    BY <1>1, <2>1, <2>2
<1>5. 1 .. n \subseteq G
  <2> HIDE DEF G
  <2> QED
    BY <1>1, <1>3, <1>4, Upwards
<1>6. CASE n = 0
  <2>1. 1 .. n = {}
    BY <1>6
  <2> QED
    BY <1>2, <2>1
<1>7. CASE n # 0
  <2>1. n \in 1 .. n
    BY <1>1, <1>7
  <2> QED
    BY <1>2, <1>5, <2>1
<1> QED
  BY <1>6, <1>7

\* A short message with a header of six or seven octets: each is where it was put,
\* and the content follows.
LEMMA AfterTheHeader ==
  ASSUME NEW h \in Seq(Nat), NEW content \in Seq(Nat)
  PROVE  LET short == h \o content
         IN  /\ short \in Seq(Nat) /\ Len(short) = Len(h) + Len(content)
             /\ \A k \in 1 .. Len(h) : short[k] = h[k]
             /\ SubSeq(short, Len(h) + 1, Len(short)) = content
<1> DEFINE short == h \o content
<1>1. /\ short \in Seq(Nat) /\ Len(short) = Len(h) + Len(content)
      /\ \A k \in 1 .. Len(h) + Len(content) :
           short[k] = IF k <= Len(h) THEN h[k] ELSE content[k - Len(h)]
  BY ConcatProperties
<1>2. Len(h) \in Nat /\ Len(content) \in Nat
  BY LenProperties
<1>3. \A k \in 1 .. Len(h) : short[k] = h[k]
  BY <1>1, <1>2
<1>4. SubSeq(short, Len(h) + 1, Len(short)) = content
  <2>1. short \o << >> = h \o content /\ << >> \in Seq(Nat)
    BY <1>1, ConcatEmptySeq
  <2>2. Cat(short, << >>) = Cat(h, content)
    BY <2>1 DEF Cat
  <2>3. Len(short) >= Len(h)
    BY <1>1, <1>2
  <2>4. short \in Seq(Nat)
    BY <1>1
  <2> HIDE DEF short
  <2>5. Rest(short, Len(h)) \in Seq(Nat) /\ Cat(Rest(short, Len(h)), << >>) = content
    BY ZenonT(40), <2>1, <2>2, <2>3, <2>4, RestOfCat
  <2>6. Cat(Rest(short, Len(h)), << >>) = Rest(short, Len(h))
    BY <2>5, ConcatEmptySeq DEF Cat
  <2> QED
    BY <2>5, <2>6 DEF Rest
<1> QED
  BY <1>1, <1>3, <1>4

\* One octet of a sequence, or two, taken out.
LEMMA TakenOut ==
  ASSUME NEW s \in Seq(Nat), NEW m \in Nat, NEW n \in Nat, 1 <= m, n <= Len(s), m <= n
  PROVE  /\ SubSeq(s, m, n) \in Seq(Nat) /\ Len(SubSeq(s, m, n)) = n - m + 1
         /\ \A i \in 1 .. n - m + 1 : SubSeq(s, m, n)[i] = s[m + i - 1]
<1>1. Len(s) \in Nat
  BY LenProperties
<1>2. \A i \in m .. n : s[i] \in Nat
  <2>1. \A i \in 1 .. Len(s) : s[i] \in Nat
    BY ElementOfSeq
  <2> QED
    BY <1>1, <2>1
<1>3. m \in Int /\ n \in Int
  OBVIOUS
<1>4. /\ SubSeq(s, m, n) \in Seq(Nat)
      /\ Len(SubSeq(s, m, n)) = IF m <= n THEN n - m + 1 ELSE 0
      /\ \A i \in 1 .. n - m + 1 : SubSeq(s, m, n)[i] = s[m + i - 1]
  BY <1>2, <1>3, SubSeqProperties
<1> QED
  BY <1>4

\* How a short message begins.
LEMMA Begins ==
  ASSUME NEW s \in Seq(Nat), Len(s) >= 3, NEW a \in Nat, NEW b \in Nat, NEW c \in Nat
  PROVE  IsPrefix(<< a, b, c >>, s) <=> s[1] = a /\ s[2] = b /\ s[3] = c
<1> DEFINE t == << a, b, c >>
<1>1. t \in Seq(Nat) /\ Len(t) = 3 /\ t[1] = a /\ t[2] = b /\ t[3] = c
  OBVIOUS
<1>2. Len(s) \in Nat
  BY LenProperties
<1> DEFINE u == SubSeq(t, 1, 3)
           v == SubSeq(s, 1, 3)
<1>3. /\ u \in Seq(Nat) /\ Len(u) = 3 /\ \A i \in 1 .. 3 : u[i] = t[i]
      /\ v \in Seq(Nat) /\ Len(v) = 3 /\ \A i \in 1 .. 3 : v[i] = s[i]
  <2> HIDE DEF t
  <2>1. 1 \in Nat /\ 3 \in Nat /\ 1 <= 1 /\ 1 <= 3 /\ 3 <= Len(t) /\ 3 <= Len(s)
    BY <1>1, <1>2
  <2>2. /\ u \in Seq(Nat) /\ Len(u) = 3 - 1 + 1
        /\ \A i \in 1 .. 3 - 1 + 1 : u[i] = t[1 + i - 1]
    BY <1>1, <2>1, TakenOut
  <2>3. /\ v \in Seq(Nat) /\ Len(v) = 3 - 1 + 1
        /\ \A i \in 1 .. 3 - 1 + 1 : v[i] = s[1 + i - 1]
    BY <2>1, TakenOut
  <2> HIDE DEF u, v
  <2> QED
    BY <2>2, <2>3
<1>4. IsPrefix(t, s) <=> u = v
  BY <1>1, <1>2 DEF IsPrefix
<1> HIDE DEF t, u, v
<1>5. u = v <=> \A i \in 1 .. 3 : u[i] = v[i]
  <2>1. (\A i \in 1 .. 3 : u[i] = v[i]) => u = v
    BY <1>3, SeqEqual
  <2> QED
    BY <2>1
<1>6. (\A i \in 1 .. 3 : u[i] = v[i]) <=> u[1] = v[1] /\ u[2] = v[2] /\ u[3] = v[3]
  <2>1. \A i \in 1 .. 3 : i = 1 \/ i = 2 \/ i = 3
    OBVIOUS
  <2>2. 1 \in 1 .. 3 /\ 2 \in 1 .. 3 /\ 3 \in 1 .. 3
    OBVIOUS
  <2> QED
    BY <2>1, <2>2
<1>7. /\ u[1] = a /\ u[2] = b /\ u[3] = c
      /\ v[1] = s[1] /\ v[2] = s[2] /\ v[3] = s[3]
  <2>1. 1 \in 1 .. 3 /\ 2 \in 1 .. 3 /\ 3 \in 1 .. 3
    OBVIOUS
  <2> QED
    BY <1>1, <1>3, <2>1
<1> QED
  BY <1>4, <1>5, <1>6, <1>7 DEF t

\* No short message has both headers.
LEMMA BothHeaders ==
  ASSUME NEW s \in Seq(Nat)
  PROVE  ~(HasHeader(s, CSM) /\ HasHeader(s, CSM16))
<1> SUFFICES ASSUME HasHeader(s, CSM), HasHeader(s, CSM16) PROVE FALSE
  OBVIOUS
<1>1. IsPrefix(<< 5, 0, 3 >>, s) /\ IsPrefix(<< 6, 8, 4 >>, s) /\ Len(s) >= 3
  <2>1. CSM.begin = << 5, 0, 3 >> /\ CSM.refSize = 1 /\ CSM16.begin = << 6, 8, 4 >>
    BY DEF CSM, CSM16
  <2>2. Len(s) \in Nat
    BY LenProperties
  <2> QED
    BY <2>1, <2>2 DEF HasHeader
<1>2. 5 \in Nat /\ 0 \in Nat /\ 3 \in Nat /\ 6 \in Nat /\ 8 \in Nat /\ 4 \in Nat
  OBVIOUS
<1>3. s[1] = 5
  BY <1>1, <1>2, Begins
<1>4. s[1] = 6
  BY <1>1, <1>2, Begins
<1> QED
  BY <1>3, <1>4
-------------------------------------------------------------------------------
(* The PDUs.                                                               *)

\* What of a PDU's shape the receiving half depends on.
IsPdu(pdu) ==
  /\ pdu.short \in Seq(Nat)
  /\ pdu.payload # None => pdu.payload \in Seq(Nat)
  /\ pdu.sar # None => pdu.sar \in Nat \X Nat \X Nat /\ pdu.sar[3] \in 1 .. pdu.sar[2]

IsPart(part) ==
  /\ part \in [ref : Nat, total : Nat, number : Nat, content : Seq(Nat)]
  /\ part.number \in 1 .. part.total

\* A PDU with one of the two headers is read by that header.
LEMMA ByHeader ==
  ASSUME NEW pdu, pdu.sar = None, pdu.short \in Seq(Nat)
  PROVE  /\ HasHeader(pdu.short, CSM) => ExtractMultipart(pdu) = AfterHeader(pdu.short, CSM)
         /\ HasHeader(pdu.short, CSM16) => ExtractMultipart(pdu) = AfterHeader(pdu.short, CSM16)
<1>1. ~(HasHeader(pdu.short, CSM) /\ HasHeader(pdu.short, CSM16))
  BY BothHeaders
<1> QED
  BY <1>1 DEF ExtractMultipart

\* What is found to be a part has a number that fits.
LEMMA FoundPart ==
  ASSUME NEW pdu, IsPdu(pdu), ExtractMultipart(pdu) # None
  PROVE  IsPart(ExtractMultipart(pdu))
<1> DEFINE part == ExtractMultipart(pdu)
<1>1. ASSUME NEW h \in {CSM, CSM16}, HasHeader(pdu.short, h)
      PROVE  IsPart(AfterHeader(pdu.short, h))
  <2> DEFINE short == pdu.short
             n == 3 + h.refSize
             ref == SubSeq(short, 4, n)
             rest == SubSeq(short, n + 3, Len(short))
  <2>1. short \in Seq(Nat) /\ Len(short) \in Nat
    BY LenProperties DEF IsPdu
  <2>2. n \in {4, 5} /\ Len(short) >= n + 2
    BY <1>1 DEF HasHeader, CSM, CSM16
  <2>3. \A i \in 1 .. Len(short) : short[i] \in Nat
    BY <2>1, ElementOfSeq
  <2>4. ref \in Seq(Nat)
    <3>1. 4 \in Nat /\ n \in Nat /\ 1 <= 4 /\ n <= Len(short) /\ 4 <= n
      BY SMTT(30), <2>1, <2>2
    <3> HIDE DEF short, n
    <3> QED
      BY <2>1, <3>1, TakenOut
  <2>5. rest \in Seq(Nat)
    <3>1. \A i \in n + 3 .. Len(short) : short[i] \in Nat
      BY <2>1, <2>2, <2>3
    <3>2. n + 3 \in Int /\ Len(short) \in Int
      BY <2>1, <2>2
    <3> HIDE DEF short, n
    <3> QED
      BY <3>1, <3>2, SubSeqProperties
  <2>6. short[n + 1] \in Nat /\ short[n + 2] \in Nat
    <3> HIDE DEF n, short
    <3>1. n + 1 \in 1 .. Len(short) /\ n + 2 \in 1 .. Len(short)
      BY <2>1, <2>2
    <3> QED
      BY <2>3, <3>1
  <2>7. FromBytes(ref) \in Nat
    <3> HIDE DEF ref
    <3> QED
      BY <2>4, FromBytesType
  <2>8. short[n + 2] \in 1 .. short[n + 1]
    BY <1>1 DEF HasHeader, AfterHeader, Part
  <2>9. AfterHeader(short, h) = [ref |-> FromBytes(ref), total |-> short[n + 1],
                                 number |-> short[n + 2], content |-> rest]
    BY DEF AfterHeader, Part
  <2> HIDE DEF ref, rest, n, short
  <2>10. IsPart(AfterHeader(short, h))
    BY <2>5, <2>6, <2>7, <2>8, <2>9 DEF IsPart
  <2> QED
    BY <2>10 DEF short
<1>2. CASE pdu.sar # None
  <2>1. part = Part(pdu.sar[1], pdu.sar[2], pdu.sar[3], pdu.short)
    BY <1>2 DEF ExtractMultipart
  <2>2. /\ pdu.sar[1] \in Nat /\ pdu.sar[2] \in Nat /\ pdu.sar[3] \in Nat
        /\ pdu.sar[3] \in 1 .. pdu.sar[2] /\ pdu.short \in Seq(Nat)
    BY <1>2 DEF IsPdu
  <2> HIDE DEF part
  <2>3. IsPart(part)
    BY <2>1, <2>2 DEF Part, IsPart
  <2> QED
    BY <2>3 DEF part
<1>3. CASE pdu.sar = None /\ HasHeader(pdu.short, CSM)
  <2>1. ExtractMultipart(pdu) = AfterHeader(pdu.short, CSM)
    BY <1>3, ByHeader DEF IsPdu
  <2> QED
    BY <1>1, <1>3, <2>1
<1>4. CASE pdu.sar = None /\ ~HasHeader(pdu.short, CSM) /\ HasHeader(pdu.short, CSM16)
  <2>1. ExtractMultipart(pdu) = AfterHeader(pdu.short, CSM16)
    BY <1>4, ByHeader DEF IsPdu
  <2> QED
    BY <1>1, <1>4, <2>1
<1>5. CASE pdu.sar = None /\ ~HasHeader(pdu.short, CSM) /\ ~HasHeader(pdu.short, CSM16)
  BY <1>5 DEF ExtractMultipart
<1> QED
  BY <1>2, <1>3, <1>4, <1>5

\* The parts the sending half makes, and those with the longer header.
LEMMA UdhPart ==
  ASSUME NEW coding, NEW r \in Nat, NEW n \in Nat, NEW i \in 1 .. n, NEW content \in Seq(Nat)
  PROVE  LET pdu == PduOf(coding, << 5, 0, 3, r, n, i >> \o content)
         IN  /\ IsPdu(pdu)
             /\ ExtractMultipart(pdu) = Part(FromBytes(<< r >>), n, i, content)
<1> DEFINE h == << 5, 0, 3, r, n, i >>
           short == h \o content
           pdu == PduOf(coding, short)
<1>1. /\ h \in Seq(Nat) /\ Len(h) = 6 /\ h[1] = 5 /\ h[2] = 0 /\ h[3] = 3
      /\ h[4] = r /\ h[5] = n /\ h[6] = i
  OBVIOUS
<1> HIDE DEF h
<1>2. /\ short \in Seq(Nat) /\ Len(short) = 6 + Len(content)
      /\ \A k \in 1 .. 6 : short[k] = h[k]
      /\ SubSeq(short, 7, Len(short)) = content
  <2>1. /\ short \in Seq(Nat) /\ Len(short) = Len(h) + Len(content)
        /\ \A k \in 1 .. Len(h) : short[k] = h[k]
        /\ SubSeq(short, Len(h) + 1, Len(short)) = content
    BY <1>1, AfterTheHeader
  <2>2. Len(h) + 1 = 7
    BY <1>1
  <2> HIDE DEF short
  <2> QED
    BY <1>1, <2>1, <2>2
<1>3. Len(content) \in Nat
  BY LenProperties
<1> HIDE DEF short
<1>4. /\ short[1] = 5 /\ short[2] = 0 /\ short[3] = 3
      /\ short[4] = r /\ short[5] = n /\ short[6] = i
  BY <1>1, <1>2
<1>5. pdu.short = short /\ pdu.payload = None /\ pdu.sar = None
  BY DEF PduOf
<1>6. SubSeq(short, 4, 4) = << r >>
  <2>1. /\ SubSeq(short, 4, 4) \in Seq(Nat) /\ Len(SubSeq(short, 4, 4)) = 4 - 4 + 1
        /\ \A k \in 1 .. 4 - 4 + 1 : SubSeq(short, 4, 4)[k] = short[4 + k - 1]
    <3>1. 4 \in Nat /\ 1 <= 4 /\ 4 <= Len(short)
      BY <1>2, <1>3
    <3> QED
      BY <1>2, <3>1, TakenOut
  <2> DEFINE t == SubSeq(short, 4, 4)
             u == << r >>
  <2>2. t \in Seq(Nat) /\ Len(t) = 1 /\ t[1] = r
    BY <1>4, <2>1
  <2>3. u \in Seq(Nat) /\ Len(u) = 1 /\ u[1] = r
    OBVIOUS
  <2> HIDE DEF t, u
  <2>4. \A k \in 1 .. 1 : t[k] = u[k]
    BY <2>2, <2>3
  <2>5. t = u
    BY <2>2, <2>3, <2>4, SeqEqual
  <2> QED
    BY <2>5 DEF t, u
<1>7. HasHeader(short, CSM) /\ AfterHeader(short, CSM) = Part(FromBytes(<< r >>), n, i, content)
  <2>1. CSM.begin = << 5, 0, 3 >> /\ CSM.refSize = 1 /\ 3 + CSM.refSize = 4
    BY DEF CSM
  <2>2. IsPrefix(<< 5, 0, 3 >>, short)
    <3>1. Len(short) >= 3 /\ 5 \in Nat /\ 0 \in Nat /\ 3 \in Nat
      BY <1>2, <1>3
    <3> QED
      BY <1>2, <1>4, <3>1, Begins
  <2>3. AfterHeader(short, CSM) = Part(FromBytes(<< r >>), n, i, content)
    <3>1. 3 + CSM.refSize = 4 /\ 4 + 1 = 5 /\ 4 + 2 = 6 /\ 4 + 3 = 7
      BY <2>1
    <3>2. AfterHeader(short, CSM)
            = Part(FromBytes(SubSeq(short, 4, 4)), short[5], short[6],
                   SubSeq(short, 7, Len(short)))
      BY <3>1 DEF AfterHeader
    <3> QED
      BY <1>2, <1>4, <1>6, <3>2
  <2>4. Part(FromBytes(<< r >>), n, i, content).total = n
        /\ Part(FromBytes(<< r >>), n, i, content).number = i
    BY DEF Part
  <2>5. Len(short) >= 5 + CSM.refSize /\ n >= 1 /\ i \in 1 .. n
    BY <1>2, <1>3, <2>1
  <2> QED
    BY <2>1, <2>2, <2>3, <2>4, <2>5 DEF HasHeader
<1>8. ExtractMultipart(pdu) = AfterHeader(short, CSM)
  BY <1>2, <1>5, <1>7, ByHeader
<1>9. IsPdu(pdu)
  BY <1>2, <1>5 DEF IsPdu
<1> QED
  BY <1>7, <1>8, <1>9 DEF short, h

\* The part in a PDU with the header of the longer form.
LEMMA Csm16Part ==
  ASSUME NEW coding, NEW q \in Nat, NEW n \in Nat, NEW i \in 1 .. n, NEW content \in Seq(Nat)
  PROVE  LET pdu == PduOf(coding, << 6, 8, 4, 1, q, n, i >> \o content)
         IN  /\ IsPdu(pdu)
             /\ ExtractMultipart(pdu) = Part(FromBytes(<< 1, q >>), n, i, content)
<1> DEFINE h == << 6, 8, 4, 1, q, n, i >>
           short == h \o content
           pdu == PduOf(coding, short)
<1>1. /\ h \in Seq(Nat) /\ Len(h) = 7 /\ h[1] = 6 /\ h[2] = 8 /\ h[3] = 4
      /\ h[4] = 1 /\ h[5] = q /\ h[6] = n /\ h[7] = i
  OBVIOUS
<1> HIDE DEF h
<1>2. /\ short \in Seq(Nat) /\ Len(short) = 7 + Len(content)
      /\ \A k \in 1 .. 7 : short[k] = h[k]
      /\ SubSeq(short, 8, Len(short)) = content
  <2>1. /\ short \in Seq(Nat) /\ Len(short) = Len(h) + Len(content)
        /\ \A k \in 1 .. Len(h) : short[k] = h[k]
        /\ SubSeq(short, Len(h) + 1, Len(short)) = content
    BY <1>1, AfterTheHeader
  <2>2. Len(h) + 1 = 8
    BY <1>1
  <2> HIDE DEF short
  <2> QED
    BY <1>1, <2>1, <2>2
<1>3. Len(content) \in Nat
  BY LenProperties
<1> HIDE DEF short
<1>4. /\ short[1] = 6 /\ short[2] = 8 /\ short[3] = 4
      /\ short[4] = 1 /\ short[5] = q /\ short[6] = n /\ short[7] = i
  BY <1>1, <1>2
<1>5. pdu.short = short /\ pdu.payload = None /\ pdu.sar = None
  BY DEF PduOf
<1>6. SubSeq(short, 4, 5) = << 1, q >>
  <2>1. /\ SubSeq(short, 4, 5) \in Seq(Nat) /\ Len(SubSeq(short, 4, 5)) = 5 - 4 + 1
        /\ \A k \in 1 .. 5 - 4 + 1 : SubSeq(short, 4, 5)[k] = short[4 + k - 1]
    <3>1. 4 \in Nat /\ 5 \in Nat /\ 1 <= 4 /\ 4 <= 5 /\ 5 <= Len(short)
      BY <1>2, <1>3
    <3> QED
      BY <1>2, <3>1, TakenOut
  <2> DEFINE t == SubSeq(short, 4, 5)
             u == << 1, q >>
  <2>2. t \in Seq(Nat) /\ Len(t) = 2 /\ t[1] = 1 /\ t[2] = q
    BY <1>4, <2>1
  <2>3. u \in Seq(Nat) /\ Len(u) = 2 /\ u[1] = 1 /\ u[2] = q
    OBVIOUS
  <2> HIDE DEF t, u
  <2>4. \A k \in 1 .. 2 : t[k] = u[k]
    BY <2>2, <2>3
  <2>5. t = u
    BY <2>2, <2>3, <2>4, SeqEqual
  <2> QED
    BY <2>5 DEF t, u
<1>7. HasHeader(short, CSM16) /\ AfterHeader(short, CSM16) = Part(FromBytes(<< 1, q >>), n, i, content)
  <2>1. CSM16.begin = << 6, 8, 4 >> /\ CSM16.refSize = 2 /\ 3 + CSM16.refSize = 5
    BY DEF CSM16
  <2>2. IsPrefix(<< 6, 8, 4 >>, short)
    <3>1. Len(short) >= 3 /\ 6 \in Nat /\ 8 \in Nat /\ 4 \in Nat
      BY <1>2, <1>3
    <3> QED
      BY <1>2, <1>4, <3>1, Begins
  <2>3. AfterHeader(short, CSM16) = Part(FromBytes(<< 1, q >>), n, i, content)
    <3>1. 3 + CSM16.refSize = 5 /\ 5 + 1 = 6 /\ 5 + 2 = 7 /\ 5 + 3 = 8
      BY <2>1
    <3>2. AfterHeader(short, CSM16)
            = Part(FromBytes(SubSeq(short, 4, 5)), short[6], short[7],
                   SubSeq(short, 8, Len(short)))
      BY <3>1 DEF AfterHeader
    <3> QED
      BY <1>2, <1>4, <1>6, <3>2
  <2>4. Part(FromBytes(<< 1, q >>), n, i, content).total = n
        /\ Part(FromBytes(<< 1, q >>), n, i, content).number = i
    BY DEF Part
  <2>5. Len(short) >= 5 + CSM16.refSize /\ n >= 1 /\ i \in 1 .. n
    BY <1>2, <1>3, <2>1
  <2> QED
    BY <2>1, <2>2, <2>3, <2>4, <2>5 DEF HasHeader
<1>8. ExtractMultipart(pdu) = AfterHeader(short, CSM16)
  BY <1>2, <1>5, <1>7, ByHeader
<1>9. IsPdu(pdu)
  BY <1>2, <1>5 DEF IsPdu
<1> QED
  BY <1>7, <1>8, <1>9 DEF short, h

WithSar(coding, content, r, n, i) ==
  [PduOf(coding, content) EXCEPT !.sar = << r, n, i >>]

\* The part in a PDU with sar_ parameters.
LEMMA SarPart ==
  ASSUME NEW coding, NEW r \in Nat, NEW n \in Nat, NEW i \in 1 .. n, NEW content \in Seq(Nat)
  PROVE  LET pdu == WithSar(coding, content, r, n, i)
         IN  IsPdu(pdu) /\ ExtractMultipart(pdu) = Part(r, n, i, content)
<1> DEFINE pdu == WithSar(coding, content, r, n, i)
           sar == << r, n, i >>
<1>1. pdu.short = content /\ pdu.payload = None /\ pdu.sar = sar
  BY DEF PduOf, WithSar
<1>2. sar \in Nat \X Nat \X Nat /\ sar[1] = r /\ sar[2] = n /\ sar[3] = i
  OBVIOUS
<1> HIDE DEF sar, pdu
<1>3. sar # None
  BY <1>2, ShortMessagesAssumption
<1>4. IsPdu(pdu)
  BY <1>1, <1>2 DEF IsPdu
<1>5. ExtractMultipart(pdu) = Part(r, n, i, content)
  BY <1>1, <1>2, <1>3 DEF ExtractMultipart
<1> QED
  BY <1>4, <1>5 DEF pdu

\* A part that was found is not None.
LEMMA PartIsSome ==
  ASSUME NEW r \in Nat, NEW n \in Nat, NEW i \in Nat, NEW content \in Seq(Nat)
  PROVE  Part(r, n, i, content) # None
<1>1. Part(r, n, i, content) \in [ref : Nat, total : Nat, number : Nat, content : Seq(Nat)]
  BY DEF Part
<1> QED
  BY <1>1, ShortMessagesAssumption

-------------------------------------------------------------------------------
(* Codecs, and what they write.                                            *)

IsText(text, codec) == text \in Seq(Chars(codec))

\* What is written for a character, with what shifts to its mode.
Piece(text, i, codec) ==
  Shift(ModeAfter(text, i - 1, codec), ModeAfter(text, i, codec), codec) \o codec.word[text[i]]

Pieces(text, codec) == [i \in DOMAIN text |-> Piece(text, i, codec)]

\* Octets are numbers.
LEMMA OctetsAreNumbers == Seq(Octet) \subseteq Seq(Nat)
<1>1. Octet \subseteq Nat
  BY DEF Octet
<1> QED
  BY <1>1, SeqMonotonic

\* What shifts is octets.
LEMMA ShiftType ==
  ASSUME NEW codec, IsCodec(codec), NEW m \in Modes(codec), NEW n \in Modes(codec)
  PROVE  Shift(m, n, codec) \in Seq(Octet)
<1>1. m # n => codec.shift[n] \in Seq(Octet)
  BY DEF IsCodec
<1>2. << >> \in Seq(Octet)
  BY EmptySeq
<1> QED
  BY <1>1, <1>2 DEF Shift

\* The modes that a text passes through.
LEMMA TextModes ==
  ASSUME NEW codec, IsCodec(codec), NEW text, IsText(text, codec)
  PROVE  /\ Len(text) \in Nat /\ DOMAIN text = 1 .. Len(text)
         /\ \A i \in 1 .. Len(text) : text[i] \in Chars(codec)
         /\ \A i \in 0 .. Len(text) : ModeAfter(text, i, codec) \in Modes(codec)
<1>1. /\ Len(text) \in Nat /\ DOMAIN text = 1 .. Len(text)
      /\ \A i \in 1 .. Len(text) : text[i] \in Chars(codec)
  BY LenProperties, ElementOfSeq DEF IsText
<1>2. codec.start \in Modes(codec) /\ \A c \in Chars(codec) : codec.mode[c] \in Modes(codec)
  BY DEF IsCodec, Modes, Range
<1>3. \A i \in 0 .. Len(text) : i = 0 \/ i \in 1 .. Len(text)
  BY <1>1
<1>4. \A i \in 0 .. Len(text) : ModeAfter(text, i, codec) \in Modes(codec)
  BY <1>1, <1>2, <1>3 DEF ModeAfter
<1> QED
  BY <1>1, <1>4

\* Two sequences of octets put together are one.
LEMMA CatOctets ==
  \A x, y \in Seq(Octet) : x \o y \in Seq(Octet)
BY ConcatProperties

\* A text is written as the pieces of its characters.
LEMMA WrittenIs ==
  ASSUME NEW codec, IsCodec(codec), NEW text, IsText(text, codec)
  PROVE  /\ Written(text, codec) = FlattenSeq(Pieces(text, codec))
         /\ Len(Pieces(text, codec)) = Len(text)
         /\ Pieces(text, codec) \in Seq(Seq(Octet)) /\ Pieces(text, codec) \in Seq(Seq(Nat))
<1> DEFINE n == Len(text)
           p == Pieces(text, codec)
           T == Seq(Octet)
<1>1. n \in Nat /\ DOMAIN text = 1 .. n /\ \A i \in 1 .. n : text[i] \in Chars(codec)
  BY TextModes
<1>2. ASSUME NEW i \in 1 .. n PROVE p[i] \in T
  <2>1. i - 1 \in 0 .. n /\ i \in 0 .. n
    BY <1>1
  <2>2. PICK x, y : /\ x = Shift(ModeAfter(text, i - 1, codec), ModeAfter(text, i, codec), codec)
                    /\ y = codec.word[text[i]]
    OBVIOUS
  <2>3. x \in Seq(Octet)
    BY <2>1, <2>2, TextModes, ShiftType
  <2>4. y \in Seq(Octet)
    BY <1>1, <2>2 DEF IsCodec
  <2>5. p[i] = x \o y
    BY <1>1, <2>2 DEF Pieces, Piece
  <2> QED
    BY <2>3, <2>4, <2>5, CatOctets
<1>3. p = [i \in 1 .. n |-> p[i]]
  BY <1>1 DEF Pieces
<1> HIDE DEF p, T
<1>4. p \in [1 .. n -> T]
  BY <1>2, <1>3
<1>5. p \in Seq(T) /\ DOMAIN p = 1 .. n
  BY <1>1, <1>4
<1>6. Len(p) = n
  BY <1>1, <1>5, LenProperties
<1>7. T \subseteq Seq(Nat)
  BY OctetsAreNumbers DEF T
<1> DEFINE U == Seq(Nat)
<1>8. p \in Seq(U)
  <2>1. T \subseteq U
    BY <1>7
  <2> HIDE DEF U
  <2> QED
    BY <1>5, <2>1, SeqMonotonic
<1>9. Written(text, codec) = FlattenSeq(p)
  BY DEF Written, p, Pieces, Piece
<1> QED
  BY <1>5, <1>6, <1>8, <1>9 DEF p, T

\* A text is encoded to octets: what is written, and what shifts back.
LEMMA EncodeType ==
  ASSUME NEW codec, IsCodec(codec), NEW text, IsText(text, codec)
  PROVE  /\ Written(text, codec) \in Seq(Octet) /\ Encode(text, codec) \in Seq(Octet)
         /\ Shift(ModeAfter(text, Len(text), codec), codec.start, codec) \in Seq(Octet)
<1>1. PICK p : p = Pieces(text, codec)
  OBVIOUS
<1>2. p \in Seq(Seq(Octet)) /\ Written(text, codec) = FlattenSeq(p)
  BY <1>1, WrittenIs
<1>3. Written(text, codec) \in Seq(Octet)
  BY <1>2, FlattenType
<1>4. Len(text) \in 0 .. Len(text) /\ codec.start \in Modes(codec)
  <2>1. Len(text) \in Nat
    BY TextModes
  <2> QED
    BY <2>1 DEF Modes
<1>5. Shift(ModeAfter(text, Len(text), codec), codec.start, codec) \in Seq(Octet)
  BY <1>4, TextModes, ShiftType
<1>6. PICK x, y : /\ x = Written(text, codec)
                  /\ y = Shift(ModeAfter(text, Len(text), codec), codec.start, codec)
  OBVIOUS
<1>7. Encode(text, codec) = x \o y
  BY <1>6 DEF Encode
<1> QED
  BY <1>3, <1>5, <1>6, <1>7, CatOctets

\* The codec of a text that can be encoded, of whose characters it is.
LEMMA EncodableText ==
  ASSUME NEW o \in Originals, Encodable(Text[o], WritingCodec(o))
  PROVE  /\ IsCodec(WritingCodec(o)) /\ IsText(Text[o], WritingCodec(o))
         /\ Coding[o] \in Codings
<1>1. PICK text, codec : text = Text[o] /\ codec = WritingCodec(o)
  OBVIOUS
<1>2. text \in Seq(ToSet(text)) /\ Coding[o] \in Codings
  BY <1>1, SmppInboundAssumption
<1>3. codec # None /\ ToSet(text) \subseteq Chars(codec)
  BY <1>1 DEF Encodable
<1>4. codec \in Codecs
  <2>1. CASE Handling[o] = "csm16"
    <3>1. codec = ForeignCodecs[Coding[o]]
      BY <1>1, <2>1 DEF WritingCodec
    <3> QED
      BY <1>2, <3>1, ShortMessagesAssumption
  <2>2. CASE Handling[o] # "csm16"
    <3>1. codec = DataCodingCodecs[Coding[o]]
      BY <1>1, <2>2 DEF WritingCodec
    <3> QED
      BY <1>2, <1>3, <3>1 DEF Codecs, Codings, Range
  <2> QED
    BY <2>1, <2>2
<1>5. IsCodec(codec)
  BY <1>4, ShortMessagesAssumption
<1>6. text \in Seq(Chars(codec))
  BY <1>2, <1>3, SeqMonotonic
<1> QED
  BY <1>1, <1>2, <1>5, <1>6 DEF IsText

\* The octets of a text that can be encoded.
LEMMA Encoded ==
  ASSUME NEW o \in Originals, Encodable(Text[o], WritingCodec(o))
  PROVE  /\ TextOctets[o] \in Seq(Octet) /\ TextOctets[o] \in Seq(Nat)
         /\ TextOctets[o] = Encode(Text[o], WritingCodec(o))
         /\ PartLength[Coding[o]] \in Nat \ {0}
<1>1. PICK text, codec : text = Text[o] /\ codec = WritingCodec(o)
  OBVIOUS
<1>2. IsCodec(codec) /\ IsText(text, codec) /\ Coding[o] \in Codings
  BY <1>1, EncodableText
<1>3. TextOctets[o] = Encode(text, codec)
  BY <1>1 DEF TextOctets
<1>4. TextOctets[o] \in Seq(Octet)
  BY <1>2, <1>3, EncodeType
<1>5. TextOctets[o] \in Seq(Nat)
  BY <1>4, OctetsAreNumbers
<1>6. PartLength[Coding[o]] \in Nat \ {0}
  BY <1>2, ShortMessagesAssumption
<1> QED
  BY <1>1, <1>3, <1>4, <1>5, <1>6

-------------------------------------------------------------------------------
(* What a text that can be encoded is sent as.                             *)

\* What o is sent as, from the sequence number seq.
Sent(o, seq) ==
  IF Handling[o] = "csm16" THEN SubmitCsm16(TextOctets[o], Coding[o], seq)
  ELSE HandleOutbound(TextOctets[o], Coding[o], Handling[o], seq)

PartsOf(o) == Split(TextOctets[o], PartLength[Coding[o]])

ArePdus(s) ==
  /\ Len(s) \in Nat /\ DOMAIN s = 1 .. Len(s) /\ (Len(s) = 0 => s = << >>)
  /\ \A i \in 1 .. Len(s) : IsPdu(s[i])

\* o is not sent in one piece.
InParts(o) ==
  \/ Handling[o] = "csm16"
  \/ /\ Handling[o] \in {"multipart_sar", "multipart_udh"}
     /\ ~FitsInOneMessage(TextOctets[o], Coding[o])

\* One PDU for each part of o, under one reference.
ArePartsOf(s, o) ==
  /\ Len(s) = Len(PartsOf(o))
  /\ \E r \in Nat : \A i \in 1 .. Len(s) :
       ExtractMultipart(s[i]) = Part(r, Len(PartsOf(o)), i, PartsOf(o)[i])

\* One PDU is a sequence of PDUs.
LEMMA OnePdu ==
  ASSUME NEW pdu, IsPdu(pdu)
  PROVE  ArePdus(<< pdu >>) /\ Len(<< pdu >>) = 1
<1> DEFINE s == << pdu >>
<1>1. Len(s) = 1 /\ DOMAIN s = 1 .. 1 /\ s[1] = pdu
  OBVIOUS
<1> HIDE DEF s
<1>2. \A i \in 1 .. 1 : s[i] = pdu
  BY <1>1
<1>3. ArePdus(s)
  BY <1>1, <1>2 DEF ArePdus
<1> QED
  BY <1>1, <1>3 DEF s

\* PDUs that hold the parts of o are PDUs and parts of o.
LEMMA PartPdus ==
  ASSUME NEW o \in Originals, Encodable(Text[o], WritingCodec(o)), NEW r \in Nat, NEW s,
         s = [i \in DOMAIN PartsOf(o) |-> s[i]],
         \A i \in 1 .. Len(PartsOf(o)) :
           IsPdu(s[i]) /\ ExtractMultipart(s[i]) = Part(r, Len(PartsOf(o)), i, PartsOf(o)[i])
  PROVE  ArePdus(s) /\ ArePartsOf(s, o)
<1> DEFINE parts == PartsOf(o)
           n == Len(parts)
<1>1. parts \in Seq(Seq(Nat)) /\ n \in Nat
  BY Encoded, SplitParts DEF PartsOf
<1>2. DOMAIN parts = 1 .. n
  BY <1>1, LenProperties
<1>3. DOMAIN s = 1 .. n
  BY <1>2
<1>4. Len(s) = n
  BY <1>1, <1>3
<1>5. n = 0 => s = << >>
  BY <1>2
<1> QED
  BY <1>1, <1>3, <1>4, <1>5 DEF ArePdus, ArePartsOf

\* A text is sent as PDUs, and as a PDU a part when there are more than one.
LEMMA SentPdus ==
  ASSUME NEW o \in Originals, Encodable(Text[o], WritingCodec(o)), NEW seq \in Nat
  PROVE  /\ ArePdus(Sent(o, seq))
         /\ IF InParts(o) THEN ArePartsOf(Sent(o, seq), o) ELSE Len(Sent(o, seq)) = 1
<1> DEFINE octets == TextOctets[o]
           coding == Coding[o]
           parts == PartsOf(o)
           n == Len(parts)
           s == Sent(o, seq)
<1>1. /\ octets \in Seq(Nat) /\ PartLength[coding] \in Nat \ {0}
      /\ Handling[o] \in Handlings \cup {"csm16"}
  BY Encoded, SmppInboundAssumption
<1>2. n \in Nat /\ \A i \in 1 .. n : parts[i] \in Seq(Nat)
  BY <1>1, SplitParts DEF PartsOf
<1>3. parts \in Seq(Seq(Nat)) /\ DOMAIN parts = 1 .. n
  <2>1. parts \in Seq(Seq(Nat))
    BY <1>1, SplitParts DEF PartsOf
  <2> QED
    BY <2>1, LenProperties
<1> HIDE DEF parts
<1>4. CASE Handling[o] = "csm16"
  <2>1. InParts(o)
    BY <1>4 DEF InParts
  <2>2. s = [i \in DOMAIN parts |-> PduOf(coding, << 6, 8, 4, 1, seq, n, i >> \o parts[i])]
    BY <1>4 DEF Sent, SubmitCsm16, PartsOf, parts
  <2>3. FromBytes(<< 1, seq >>) \in Nat
    <3>1. << 1, seq >> \in Seq(Nat)
      OBVIOUS
    <3> QED
      BY <3>1, FromBytesType
  <2>4. ASSUME NEW i \in 1 .. n
        PROVE  IsPdu(s[i]) /\ ExtractMultipart(s[i]) = Part(FromBytes(<< 1, seq >>), n, i, parts[i])
    <3>1. s[i] = PduOf(coding, << 6, 8, 4, 1, seq, n, i >> \o parts[i])
      BY <1>3, <2>2
    <3>2. PICK c \in Seq(Nat) : c = parts[i]
      BY <1>2
    <3> DEFINE pdu == PduOf(coding, << 6, 8, 4, 1, seq, n, i >> \o c)
    <3>3. IsPdu(pdu) /\ ExtractMultipart(pdu) = Part(FromBytes(<< 1, seq >>), n, i, c)
      BY <1>2, Csm16Part
    <3>4. s[i] = pdu
      BY <3>1, <3>2
    <3> HIDE DEF pdu, s
    <3> QED
      BY <3>2, <3>3, <3>4
  <2>5. s = [i \in DOMAIN parts |-> s[i]]
    BY <2>2
  <2> HIDE DEF s
  <2> QED
    BY <2>3, <2>4, <2>5, <2>1, PartPdus DEF s, parts
<1>5. CASE Handling[o] # "csm16" /\ (Handling[o] = "short_message" \/ FitsInOneMessage(octets, coding))
  <2>1. ~InParts(o)
    BY <1>5 DEF InParts
  <2> DEFINE pdu == PduOf(coding, octets)
  <2>2. s = << pdu >>
    BY <1>5 DEF Sent, HandleOutbound, SubmitShort
  <2>3. pdu.short = octets /\ pdu.payload = None /\ pdu.sar = None
    BY DEF PduOf
  <2>4. IsPdu(pdu)
    BY <1>1, <2>3 DEF IsPdu
  <2> HIDE DEF pdu
  <2> QED
    BY <2>2, <2>4, <2>1, OnePdu
<1>6. CASE Handling[o] = "message_payload" /\ ~FitsInOneMessage(octets, coding)
  <2>1. ~InParts(o)
    BY <1>6 DEF InParts
  <2> DEFINE pdu == [PduOf(coding, << >>) EXCEPT !.payload = octets]
  <2>2. s = << pdu >>
    BY <1>6 DEF Sent, HandleOutbound, SubmitLong
  <2>3. pdu.short = << >> /\ pdu.payload = octets /\ pdu.sar = None
    BY DEF PduOf
  <2>4. << >> \in Seq(Nat)
    OBVIOUS
  <2> HIDE DEF pdu, octets
  <2>5. IsPdu(pdu)
    BY <1>1, <2>3, <2>4 DEF IsPdu
  <2> QED
    BY <2>2, <2>5, <2>1, OnePdu
<1>7. CASE Handling[o] = "multipart_sar" /\ ~FitsInOneMessage(octets, coding)
  <2>1. InParts(o)
    BY <1>7 DEF InParts
  <2> DEFINE r == seq % SarRollover
  <2>2. s = [i \in DOMAIN parts |-> [PduOf(coding, parts[i]) EXCEPT !.sar = << r, n, i >>]]
    BY <1>7 DEF Sent, HandleOutbound, SubmitSar, PartsOf, parts
  <2>3. r \in Nat
    <3>1. SarRollover \in Nat \ {0}
      BY ShortMessagesAssumption
    <3> QED
      BY <3>1
  <2> HIDE DEF r
  <2>4. ASSUME NEW i \in 1 .. n
        PROVE  IsPdu(s[i]) /\ ExtractMultipart(s[i]) = Part(r, n, i, parts[i])
    <3>1. s[i] = [PduOf(coding, parts[i]) EXCEPT !.sar = << r, n, i >>]
      BY <1>3, <2>2
    <3>2. PICK c \in Seq(Nat) : c = parts[i]
      BY <1>2
    <3> DEFINE pdu == WithSar(coding, c, r, n, i)
    <3>3. IsPdu(pdu) /\ ExtractMultipart(pdu) = Part(r, n, i, c)
      BY <1>2, <2>3, SarPart
    <3>4. s[i] = pdu
      BY <3>1, <3>2 DEF WithSar
    <3> HIDE DEF pdu, s
    <3> QED
      BY <3>2, <3>3, <3>4
  <2>5. s = [i \in DOMAIN parts |-> s[i]]
    BY <2>2
  <2> HIDE DEF s
  <2> QED
    BY <2>3, <2>4, <2>5, <2>1, PartPdus DEF s, parts
<1>8. CASE Handling[o] = "multipart_udh" /\ ~FitsInOneMessage(octets, coding)
  <2>1. InParts(o)
    BY <1>8 DEF InParts
  <2> DEFINE r == seq % 255
  <2>2. s = [i \in DOMAIN parts |-> PduOf(coding, << 5, 0, 3, r, n, i >> \o parts[i])]
    BY <1>8 DEF Sent, HandleOutbound, SubmitUdh, PartsOf, parts
  <2>3. r \in Nat
    OBVIOUS
  <2> HIDE DEF r
  <2>4. FromBytes(<< r >>) \in Nat
    <3>1. << r >> \in Seq(Nat)
      BY <2>3
    <3> QED
      BY <3>1, FromBytesType
  <2>5. ASSUME NEW i \in 1 .. n
        PROVE  IsPdu(s[i]) /\ ExtractMultipart(s[i]) = Part(FromBytes(<< r >>), n, i, parts[i])
    <3>1. s[i] = PduOf(coding, << 5, 0, 3, r, n, i >> \o parts[i])
      BY <1>3, <2>2
    <3>2. PICK c \in Seq(Nat) : c = parts[i]
      BY <1>2
    <3> DEFINE pdu == PduOf(coding, << 5, 0, 3, r, n, i >> \o c)
    <3>3. IsPdu(pdu) /\ ExtractMultipart(pdu) = Part(FromBytes(<< r >>), n, i, c)
      BY <1>2, <2>3, UdhPart
    <3>4. s[i] = pdu
      BY <3>1, <3>2
    <3> HIDE DEF pdu, s
    <3> QED
      BY <3>2, <3>3, <3>4
  <2>6. s = [i \in DOMAIN parts |-> s[i]]
    BY <2>2
  <2> HIDE DEF s
  <2> QED
    BY <2>4, <2>5, <2>6, <2>1, PartPdus DEF s, parts
<1> QED
  BY <1>1, <1>4, <1>5, <1>6, <1>7, <1>8 DEF Handlings

\* The parts of a text, as the receiving half finds them, make the text.
LEMMA PartsMakeIt ==
  ASSUME NEW o \in Originals, Encodable(Text[o], WritingCodec(o)), NEW s, ArePdus(s), ArePartsOf(s, o)
  PROVE  MakeTheText([i \in DOMAIN s |-> ExtractMultipart(s[i])], o)
<1> DEFINE found == [i \in DOMAIN s |-> ExtractMultipart(s[i])]
           parts == PartsOf(o)
           n == Len(parts)
           octets == TextOctets[o]
<1>1. octets \in Seq(Nat) /\ PartLength[Coding[o]] \in Nat \ {0}
  BY Encoded
<1>2. n \in Nat /\ parts \in Seq(Seq(Nat))
  BY <1>1, SplitParts DEF PartsOf
<1>3. \A i \in 1 .. n : parts[i] \in Seq(Nat) /\ Len(parts[i]) \in 1 .. PartLength[Coding[o]]
  <2>1. PICK t, z, p : t = octets /\ z = PartLength[Coding[o]] /\ p = parts
    OBVIOUS
  <2>2. t \in Seq(Nat) /\ z \in Nat \ {0} /\ p = Split(t, z)
    BY <1>1, <2>1 DEF PartsOf
  <2>3. \A i \in 1 .. Len(p) : p[i] \in Seq(Nat) /\ Len(p[i]) \in 1 .. z
    BY <2>2, PartLengths
  <2> QED
    BY <2>1, <2>3
<1>4. FlattenSeq(parts) = octets
  BY <1>1, SplitWhole DEF PartsOf
<1>5. PICK r \in Nat : \A i \in 1 .. Len(s) : ExtractMultipart(s[i]) = Part(r, n, i, parts[i])
  BY DEF ArePartsOf
<1>6. Len(s) = n /\ DOMAIN s = 1 .. n
  BY DEF ArePartsOf, ArePdus
<1> HIDE DEF parts
<1>7. DOMAIN found = 1 .. n /\ Len(found) = n
  BY <1>2, <1>6
<1>8. \A i \in 1 .. n : found[i] = Part(r, n, i, parts[i])
  BY <1>5, <1>6
<1>9. ASSUME NEW i \in 1 .. n
      PROVE  /\ found[i] # None
             /\ found[i].number = i /\ found[i].total = Len(found)
             /\ found[i].ref = r
             /\ found[i].content = parts[i]
  <2>1. found[i] = Part(r, n, i, parts[i])
    BY <1>8
  <2>2. parts[i] \in Seq(Nat)
    BY <1>3
  <2>3. Part(r, n, i, parts[i]) # None
    BY <1>2, <2>2, PartIsSome
  <2> HIDE DEF found
  <2> QED
    BY <1>7, <2>1, <2>3 DEF Part
<1>10. \A i \in 1 .. n : found[i].ref = found[1].ref
  <2> TAKE i \in 1 .. n
  <2>1. 1 \in 1 .. n
    BY <1>2
  <2> HIDE DEF found
  <2> QED
    BY <1>9, <2>1
<1> HIDE DEF found
<1>11. [i \in DOMAIN found |-> found[i].content] = parts
  <2>1. parts = [i \in 1 .. n |-> parts[i]]
    BY <1>2
  <2> QED
    BY <1>7, <1>9, <2>1
<1> QED
  BY <1>3, <1>4, <1>7, <1>9, <1>10, <1>11 DEF MakeTheText, found

-------------------------------------------------------------------------------
(* What is due: the PDUs d, where z[p] is the size of p.                    *)

OctetsDue(d, z) == [k \in DOMAIN d |-> OctetsOf(d[k], z[d[k]])]

Sized(p, z) == z[p] \in Nat /\ z[p] >= HeaderLength

AllSized(P, d, z) == d \in Seq(P) /\ \A k \in 1 .. Len(d) : Sized(d[k], z)

DueFacts(P, d, z) ==
  /\ OctetsDue(d, z) \in Seq(Seq(P \X Nat \X Nat))
  /\ Len(OctetsDue(d, z)) = Len(d)
  /\ \A k \in 1 .. Len(d) : OctetsDue(d, z)[k] = OctetsOf(d[k], z[d[k]])
  /\ FlattenSeq(OctetsDue(d, z)) \in Seq(P \X Nat \X Nat)

\* What is due is octets.
LEMMA DueType ==
  ASSUME NEW P, NEW d, NEW z, AllSized(P, d, z)
  PROVE  DueFacts(P, d, z)
<1> DEFINE S == P \X Nat \X Nat
           T == Seq(S)
           f == OctetsDue(d, z)
           n == Len(d)
<1>1. n \in Nat /\ DOMAIN d = 1 .. n /\ \A k \in 1 .. n : d[k] \in P
  BY LenProperties, ElementOfSeq DEF AllSized
<1>2. ASSUME NEW k \in 1 .. n PROVE f[k] = OctetsOf(d[k], z[d[k]]) /\ f[k] \in T
  <2>1. f[k] = OctetsOf(d[k], z[d[k]])
    BY <1>1 DEF OctetsDue
  <2>2. PICK p, m : p = d[k] /\ m = z[d[k]]
    OBVIOUS
  <2>3. p \in P /\ m \in Nat
    BY <1>1, <2>2 DEF Sized, AllSized
  <2>4. OctetsOf(p, m) \in Seq(P \X Nat \X Nat)
    BY <2>3, OctetsOfPdu
  <2> QED
    BY <2>1, <2>2, <2>4
<1>3. f = [k \in 1 .. n |-> f[k]]
  BY <1>1 DEF OctetsDue
<1> HIDE DEF f, T
<1>4. f \in [1 .. n -> T]
  BY <1>2, <1>3
<1>5. f \in Seq(T) /\ Len(f) = n
  <2>1. f \in Seq(T)
    BY <1>1, <1>4
  <2>2. DOMAIN f = 1 .. n
    BY <1>4
  <2> QED
    BY <1>1, <2>1, <2>2, LenProperties
<1>6. f \in Seq(Seq(S))
  BY <1>5 DEF T
<1> HIDE DEF S
<1>7. FlattenSeq(f) \in Seq(S)
  BY <1>6, FlattenType
<1> QED
  BY <1>2, <1>5, <1>6, <1>7 DEF f, S, DueFacts

\* The octets depend on the sizes of what is due.
LEMMA DueSame ==
  ASSUME NEW d, NEW z, NEW y, \A k \in DOMAIN d : z[d[k]] = y[d[k]]
  PROVE  OctetsDue(d, z) = OctetsDue(d, y)
BY DEF OctetsDue

\* One more that is due comes behind the others.
LEMMA DueAppend ==
  ASSUME NEW P, NEW d \in Seq(P), NEW z, AllSized(P, d, z), NEW p \in P, Sized(p, z)
  PROVE  FlattenSeq(OctetsDue(Append(d, p), z)) = FlattenSeq(OctetsDue(d, z)) \o OctetsOf(p, z[p])
<1> DEFINE S == P \X Nat \X Nat
           n == Len(d)
           e == Append(d, p)
           f == OctetsDue(d, z)
           x == OctetsOf(p, z[p])
           g == OctetsDue(e, z)
           h == Append(f, x)
<1>1. /\ n \in Nat /\ e \in Seq(P) /\ Len(e) = n + 1 /\ e[n + 1] = p
      /\ \A k \in 1 .. n : e[k] = d[k]
  BY AppendProperties, LenProperties
<1>2. \A k \in 1 .. Len(e) : Sized(e[k], z)
  <2> TAKE k \in 1 .. Len(e)
  <2>1. CASE k = n + 1
    BY <1>1, <2>1
  <2>2. CASE k # n + 1
    <3>1. k \in 1 .. n
      BY <1>1, <2>2
    <3> QED
      BY <1>1, <3>1 DEF AllSized
  <2> QED
    BY <2>1, <2>2
<1>3. x \in Seq(S)
  BY OctetsOfPdu DEF Sized
<1>4. /\ f \in Seq(Seq(S)) /\ Len(f) = n
      /\ \A k \in 1 .. n : f[k] = OctetsOf(d[k], z[d[k]])
  <2>1. DueFacts(P, d, z)
    BY DueType
  <2> QED
    BY <2>1 DEF DueFacts
<1> HIDE DEF e
<1>5. /\ g \in Seq(Seq(S)) /\ Len(g) = n + 1
      /\ \A k \in 1 .. n + 1 : g[k] = OctetsOf(e[k], z[e[k]])
  <2>1. /\ g \in Seq(Seq(S)) /\ Len(g) = Len(e)
        /\ \A k \in 1 .. Len(e) : g[k] = OctetsOf(e[k], z[e[k]])
    <3>1. AllSized(P, e, z)
      BY <1>1, <1>2 DEF AllSized
    <3>2. DueFacts(P, e, z)
      BY <3>1, DueType
    <3> QED
      BY <3>2 DEF DueFacts
  <2> HIDE DEF g, S
  <2> QED
    BY <1>1, <2>1
<1> HIDE DEF S, f, g, x
<1>6. /\ h \in Seq(Seq(S)) /\ Len(h) = n + 1 /\ h[n + 1] = x
      /\ \A k \in 1 .. n : h[k] = f[k]
  BY <1>3, <1>4, AppendProperties
<1>7. ASSUME NEW k \in 1 .. n + 1 PROVE g[k] = h[k]
  <2>1. CASE k = n + 1
    BY <1>1, <1>5, <1>6, <2>1 DEF x
  <2>2. CASE k # n + 1
    <3>1. k \in 1 .. n
      BY <1>1, <2>2
    <3> QED
      BY <1>1, <1>4, <1>5, <1>6, <3>1
  <2> QED
    BY <2>1, <2>2
<1> HIDE DEF h
<1>8. g = h
  <2> DEFINE T == Seq(S)
  <2>1. g \in Seq(T) /\ h \in Seq(T)
    BY <1>5, <1>6
  <2>2. Len(g) = Len(h) /\ \A k \in 1 .. Len(g) : g[k] = h[k]
    BY <1>5, <1>6, <1>7
  <2> HIDE DEF T
  <2> QED
    BY <2>1, <2>2, SeqEqual
<1>9. FlattenSeq(Append(f, x)) = FlattenSeq(f) \o x
  BY <1>3, <1>4, FlattenAppend
<1> QED
  BY <1>8, <1>9 DEF h, g, e, f, x

\* The octets of the first that is due come before those of the others.
LEMMA DueHead ==
  ASSUME NEW P, NEW d \in Seq(P), NEW z, AllSized(P, d, z), d # << >>
  PROVE  /\ Head(d) = d[1] /\ Head(d) \in P /\ Sized(Head(d), z)
         /\ AllSized(P, Tail(d), z)
         /\ \A k \in 1 .. Len(Tail(d)) : Tail(d)[k] = d[k + 1] /\ k + 1 \in 1 .. Len(d)
         /\ FlattenSeq(OctetsDue(Tail(d), z)) \in Seq(P \X Nat \X Nat)
         /\ FlattenSeq(OctetsDue(d, z))
              = OctetsOf(Head(d), z[Head(d)]) \o FlattenSeq(OctetsDue(Tail(d), z))
<1> DEFINE S == P \X Nat \X Nat
           n == Len(d)
           t == Tail(d)
           f == OctetsDue(d, z)
           g == OctetsDue(t, z)
<1>1. n \in Nat /\ n >= 1 /\ Head(d) = d[1] /\ Head(d) \in P
  BY EmptySeq, HeadTailProperties, LenProperties
<1>2. t \in Seq(P) /\ Len(t) = n - 1 /\ \A k \in 1 .. n - 1 : t[k] = d[k + 1]
  BY HeadTailProperties
<1> HIDE DEF t
<1>3. \A k \in 1 .. Len(t) : t[k] = d[k + 1] /\ k + 1 \in 1 .. n /\ Sized(t[k], z)
  <2> TAKE k \in 1 .. Len(t)
  <2>1. k + 1 \in 1 .. n /\ k \in 1 .. n - 1
    BY <1>1, <1>2
  <2> QED
    BY <1>2, <2>1 DEF AllSized
<1>4. Sized(Head(d), z)
  <2>1. 1 \in 1 .. n
    BY <1>1
  <2> QED
    BY <1>1, <2>1 DEF AllSized
<1>5. /\ f \in Seq(Seq(S)) /\ Len(f) = n
      /\ \A k \in 1 .. n : f[k] = OctetsOf(d[k], z[d[k]])
  <2>1. DueFacts(P, d, z)
    BY DueType
  <2> QED
    BY <2>1 DEF DueFacts
<1>6. /\ g \in Seq(Seq(S)) /\ Len(g) = n - 1 /\ FlattenSeq(g) \in Seq(S)
      /\ \A k \in 1 .. n - 1 : g[k] = OctetsOf(t[k], z[t[k]])
  <2>1. /\ g \in Seq(Seq(S)) /\ Len(g) = Len(t) /\ FlattenSeq(g) \in Seq(S)
        /\ \A k \in 1 .. Len(t) : g[k] = OctetsOf(t[k], z[t[k]])
    <3>1. AllSized(P, t, z)
      BY <1>2, <1>3 DEF AllSized
    <3>2. DueFacts(P, t, z)
      BY <3>1, DueType
    <3> QED
      BY <3>2 DEF DueFacts
  <2> HIDE DEF g, S
  <2> QED
    BY <1>2, <2>1
<1> HIDE DEF S, f, g
<1> DEFINE T == Seq(S)
           r == Tail(f)
<1>7. f # << >> /\ f \in Seq(T) /\ g \in Seq(T)
  <2>1. f # << >>
    BY <1>1, <1>5, EmptySeq
  <2> QED
    BY <1>5, <1>6, <2>1
<1>8. r = g
  <2> HIDE DEF T
  <2>1. r \in Seq(T) /\ Len(r) = n - 1 /\ \A k \in 1 .. n - 1 : r[k] = f[k + 1]
    BY <1>5, <1>7, HeadTailProperties
  <2> HIDE DEF r
  <2>2. \A k \in 1 .. n - 1 : r[k] = g[k]
    <3> TAKE k \in 1 .. n - 1
    <3>1. k + 1 \in 1 .. n
      BY <1>1
    <3> QED
      BY <1>2, <1>5, <1>6, <2>1, <3>1
  <2>3. Len(r) = Len(g) /\ \A k \in 1 .. Len(r) : r[k] = g[k]
    BY <1>6, <2>1, <2>2
  <2> QED
    BY <1>7, <2>1, <2>3, SeqEqual
<1>9. FlattenSeq(f) = f[1] \o FlattenSeq(Tail(f))
  BY <1>5, <1>7, FlattenHead
<1>10. f[1] = OctetsOf(Head(d), z[Head(d)])
  <2>1. 1 \in 1 .. n
    BY <1>1
  <2> QED
    BY <1>1, <1>5, <2>1
<1>11. FlattenSeq(f) = OctetsOf(Head(d), z[Head(d)]) \o FlattenSeq(g)
  BY <1>8, <1>9, <1>10
<1> QED
  BY <1>1, <1>2, <1>3, <1>4, <1>6, <1>11 DEF f, g, t, S, AllSized

-------------------------------------------------------------------------------
(* The invariant of the senders and of the stream.                         *)

Units == Originals \X Nat
Sizes == [p \in Units |-> Size(p)]

SendInv ==
  /\ seqno \in [Senders -> Nat]
  /\ DOMAIN pdus = Originals
  /\ \A o \in Originals : ArePdus(pdus[o])

\* What is due was sent.
DueInv ==
  /\ due \in Seq(Units)
  /\ \A k \in 1 .. Len(due) : due[k][2] \in DOMAIN pdus[due[k][1]]

\* The session ends while the reader has a PDU in hand.
ReaderInv ==
  /\ wire \in Seq(Units \X Nat \X Nat) /\ buffer \in Seq(Units \X Nat \X Nat)
  /\ reader \in {"reading", "extracting"}
  /\ session # "up" => reader = "extracting"

StreamInv == DueInv /\ ReaderInv /\ FramesInStep /\ NoPduWaits

\* What is sent is PDUs.
LEMMA SendNext ==
  ASSUME SendInv, Next
  PROVE  SendInv'
<1>1. ASSUME NEW o \in Originals, Submit(o) PROVE SendInv'
  <2> DEFINE seq == seqno[Sender[o]] + 1
             s == Sent(o, seq)
             q == NumbersTaken(Len(s))
  <2>1. Sender[o] \in Senders
    BY DEF Senders
  <2>2. seq \in Nat
    BY <2>1 DEF SendInv
  <2>3. Encodable(Text[o], WritingCodec(o))
    BY <1>1 DEF Submit
  <2>4. ArePdus(s)
    BY <2>2, <2>3, SentPdus
  <2>5. pdus' = [pdus EXCEPT ![o] = s]
    BY <1>1 DEF Submit, Sent
  <2>6. pdus'[o] = s /\ seqno' = [seqno EXCEPT ![Sender[o]] = @ + NumbersTaken(Len(pdus'[o]))]
    BY <1>1, <2>5 DEF Submit, SendInv
  <2>7. q \in Nat
    BY <2>4 DEF ArePdus, NumbersTaken
  <2> HIDE DEF s, q, seq
  <2>8. seqno' \in [Senders -> Nat]
    BY <2>1, <2>6, <2>7 DEF SendInv, q
  <2>9. DOMAIN pdus' = Originals /\ \A e \in Originals : ArePdus(pdus'[e])
    BY <2>4, <2>5 DEF SendInv
  <2> QED
    BY <2>8, <2>9 DEF SendInv
<1>2. ASSUME NEW o \in Originals, SubmitRaises(o) PROVE SendInv'
  <2>1. Sender[o] \in Senders
    BY DEF Senders
  <2>2. seqno' \in [Senders -> Nat] /\ pdus' = pdus
    BY <1>2, <2>1 DEF SubmitRaises, SendInv
  <2> QED
    BY <2>2 DEF SendInv
<1>3. CASE UNCHANGED sendVars
  BY <1>3 DEF SendInv, sendVars
<1>4. ASSUME NEW o \in Originals, NEW i \in DOMAIN pdus[o], Deliver(o, i) \/ Handle(o, i)
      PROVE  UNCHANGED sendVars
  BY <1>4 DEF Deliver, Handle, HandleReport, HandlePart, HandleWhole, HandleRaises, Extracts
<1>5. ASSUME NEW n \in ReadSizes, Reads(n) PROVE UNCHANGED sendVars
  BY <1>5 DEF Reads
<1>6. ASSUME StopsExtracting \/ Restart PROVE UNCHANGED sendVars
  BY <1>6 DEF StopsExtracting, Restart
<1> QED
  BY <1>1, <1>2, <1>3, <1>4, <1>5, <1>6 DEF Next

\* A PDU that was sent has a size.
LEMMA SentSize ==
  ASSUME SendInv, NEW p \in Units, p[2] \in DOMAIN pdus[p[1]]
  PROVE  Sized(p, Sizes) /\ Sizes[p] = Size(p)
<1> DEFINE pdu == pdus[p[1]][p[2]]
<1>1. p[1] \in Originals
  BY DEF Units
<1>2. IsPdu(pdu)
  BY <1>1 DEF SendInv, ArePdus
<1>3. Len(pdu.short) \in Nat /\ (pdu.payload # None => Len(pdu.payload) \in Nat)
  BY <1>2, LenProperties DEF IsPdu
<1>4. HeaderLength \in Nat
  BY FramingAssumption
<1>5. Sizes[p] = Size(p)
  BY DEF Sizes
<1>6. Size(p) \in Nat /\ Size(p) >= HeaderLength
  <2> DEFINE a == Len(pdu.short)
             b == IF pdu.payload = None THEN 0 ELSE Len(pdu.payload)
  <2>1. Size(p) = HeaderLength + a + b
    BY DEF Size
  <2>2. a \in Nat /\ b \in Nat
    BY <1>3
  <2> HIDE DEF a, b
  <2> QED
    BY <1>4, <2>1, <2>2
<1> QED
  BY <1>5, <1>6 DEF Sized

\* Everything that is due has a size.
LEMMA DueSized ==
  ASSUME SendInv, DueInv
  PROVE  AllSized(Units, due, Sizes)
<1>1. \A k \in 1 .. Len(due) : due[k] \in Units
  BY ElementOfSeq DEF DueInv
<1>2. \A k \in 1 .. Len(due) : Sized(due[k], Sizes)
  BY <1>1, SentSize DEF DueInv
<1> QED
  BY <1>2 DEF AllSized, DueInv

\* FramesInStep, with the sizes as they are.
InStep(d, b, w, up) == up => b \o w = FlattenSeq(OctetsDue(d, Sizes))

\* FramesInStep in terms of InStep, before a step that leaves the PDUs alone
LEMMA FramesNow ==
  ASSUME due \in Seq(Units)
  PROVE  FramesInStep <=> InStep(due, buffer, wire, session = "up")
<1>1. DOMAIN due = 1 .. Len(due) /\ \A k \in 1 .. Len(due) : due[k] \in Units
  BY LenProperties, ElementOfSeq
<1>2. \A k \in DOMAIN due : Size(due[k]) = Sizes[due[k]]
  BY <1>1 DEF Sizes
<1>3. [k \in DOMAIN due |-> OctetsOf(due[k], Size(due[k]))] = OctetsDue(due, Sizes)
  BY <1>2 DEF OctetsDue
<1> QED
  BY <1>3 DEF FramesInStep, InStep

\* and after it.
LEMMA FramesThen ==
  ASSUME due' \in Seq(Units), pdus' = pdus
  PROVE  FramesInStep' <=> InStep(due', buffer', wire', session' = "up")
<1>1. DOMAIN due' = 1 .. Len(due') /\ \A k \in 1 .. Len(due') : due'[k] \in Units
  BY LenProperties, ElementOfSeq
<1>2. \A p \in Units : Size(p)' = Sizes[p]
  BY DEF Size, Sizes
<1>3. \A k \in DOMAIN due' : Size(due[k])' = Sizes[due'[k]]
  BY <1>1 DEF Size, Sizes
<1>4. [k \in DOMAIN due' |-> OctetsOf(due'[k], Size(due[k])')] = OctetsDue(due', Sizes)
  BY <1>3 DEF OctetsDue
<1> QED
  BY <1>4 DEF FramesInStep, InStep

\* What is due was sent before and is not sent again.
LEMMA StreamSends ==
  ASSUME SendInv, StreamInv, NEW o \in Originals, Submit(o) \/ SubmitRaises(o)
  PROVE  StreamInv'
<1>1. UNCHANGED <<due, wire, buffer, reader, session>>
  BY DEF Submit, SubmitRaises, streamVars
<1>2. \A e \in Originals : e # o => pdus'[e] = pdus[e]
  BY DEF Submit, SubmitRaises, SendInv
<1>3. pdus' = pdus \/ pdus[o] = << >>
  BY DEF Submit, SubmitRaises, NextToSend, Unsent
<1>4. \A k \in 1 .. Len(due) : due[k] \in Units /\ due[k][1] \in Originals
  <2>1. \A k \in 1 .. Len(due) : due[k] \in Units
    BY ElementOfSeq DEF StreamInv, DueInv
  <2> QED
    BY <2>1 DEF Units
<1>5. ASSUME NEW k \in 1 .. Len(due) PROVE pdus'[due[k][1]] = pdus[due[k][1]]
  <2>1. due[k][2] \in DOMAIN pdus[due[k][1]]
    BY DEF StreamInv, DueInv
  <2>2. DOMAIN << >> = {}
    OBVIOUS
  <2>3. due[k][1] = o => pdus' = pdus
    BY <1>3, <2>1, <2>2
  <2> QED
    BY <1>2, <1>4, <2>3
<1>6. DueInv'
  BY <1>1, <1>5 DEF StreamInv, DueInv
<1>7. ReaderInv'
  BY <1>1 DEF StreamInv, ReaderInv
<1>8. DOMAIN due = 1 .. Len(due) /\ (due # << >> => Head(due) = due[1] /\ 1 \in 1 .. Len(due))
  BY LenProperties, EmptySeq DEF StreamInv, DueInv
<1>9. \A k \in DOMAIN due : Size(due[k])' = Size(due[k])
  BY <1>1, <1>5, <1>8 DEF Size
<1>10. FramesInStep'
  <2>1. [k \in DOMAIN due |-> OctetsOf(due[k], Size(due[k]))]'
          = [k \in DOMAIN due |-> OctetsOf(due[k], Size(due[k]))]
    BY <1>1, <1>9 DEF OctetsOf
  <2> QED
    BY <1>1, <2>1 DEF StreamInv, FramesInStep
<1>11. NoPduWaits'
  <2>1. due # << >> => Size(Head(due))' = Size(Head(due))
    BY <1>1, <1>5, <1>8 DEF Size
  <2> QED
    BY <1>1, <2>1 DEF StreamInv, NoPduWaits
<1> QED
  BY <1>6, <1>7, <1>10, <1>11 DEF StreamInv

\* A read moves octets from the wire to the end of the buffer.
LEMMA StreamReads ==
  ASSUME SendInv, StreamInv, NEW n \in ReadSizes, Reads(n)
  PROVE  StreamInv'
<1> DEFINE S == Units \X Nat \X Nat
           m == Min({n, Len(wire)})
<1>1. /\ session = "up" /\ UNCHANGED <<pdus, due, session>>
      /\ m \in 1 .. Len(wire)
      /\ buffer' = buffer \o SubSeq(wire, 1, m)
      /\ wire' = Rest(wire, m)
      /\ reader' = "extracting"
  BY DEF Reads, Read, sendVars
<1>2. buffer \in Seq(S) /\ wire \in Seq(S) /\ due \in Seq(Units)
  BY DEF StreamInv, ReaderInv, DueInv
<1> HIDE DEF m, S
<1>3. /\ buffer' \in Seq(S) /\ wire' \in Seq(S) /\ buffer' \o wire' = buffer \o wire
  <2>1. PICK a, b : a = buffer /\ b = wire
    OBVIOUS
  <2>2. /\ Cat(a, SubSeq(b, 1, m)) \in Seq(S) /\ Rest(b, m) \in Seq(S)
        /\ Cat(Cat(a, SubSeq(b, 1, m)), Rest(b, m)) = Cat(a, b)
    BY <1>1, <1>2, <2>1, ReadMoves
  <2> QED
    BY <1>1, <2>1, <2>2 DEF Cat
<1>4. DueInv'
  BY <1>1 DEF StreamInv, DueInv
<1>5. ReaderInv'
  BY <1>1, <1>3 DEF ReaderInv, S
<1>6. FramesInStep'
  <2>1. InStep(due, buffer, wire, session = "up")
    BY <1>2, FramesNow DEF StreamInv
  <2>2. InStep(due', buffer', wire', session' = "up")
    BY <1>1, <1>3, <2>1 DEF InStep
  <2>3. due' \in Seq(Units) /\ pdus' = pdus
    BY <1>1, <1>2
  <2> QED
    BY <2>2, <2>3, FramesThen
<1>7. NoPduWaits'
  BY <1>1 DEF NoPduWaits
<1> QED
  BY <1>4, <1>5, <1>6, <1>7 DEF StreamInv

\* Where the stream is when something is due.
LEMMA NextDue ==
  ASSUME SendInv, StreamInv, session = "up", due # << >>
  PROVE  LET p == Head(due)
             d == FlattenSeq(OctetsDue(Tail(due), Sizes))
         IN  /\ p \in Units /\ Sized(p, Sizes) /\ Sizes[p] = Size(p)
             /\ d \in Seq(Units \X Nat \X Nat)
             /\ buffer \o wire = OctetsOf(p, Size(p)) \o d
             /\ Tail(due) \in Seq(Units)
             /\ \A k \in 1 .. Len(Tail(due)) : k + 1 \in 1 .. Len(due) /\ Tail(due)[k] = due[k + 1]
             /\ p[2] \in DOMAIN pdus[p[1]]
<1>1. AllSized(Units, due, Sizes) /\ due \in Seq(Units)
  BY DueSized DEF StreamInv, DueInv
<1>2. InStep(due, buffer, wire, session = "up")
  BY <1>1, FramesNow DEF StreamInv
<1>3. /\ Head(due) = due[1] /\ Head(due) \in Units /\ Sized(Head(due), Sizes)
      /\ AllSized(Units, Tail(due), Sizes)
      /\ \A k \in 1 .. Len(Tail(due)) : Tail(due)[k] = due[k + 1] /\ k + 1 \in 1 .. Len(due)
      /\ FlattenSeq(OctetsDue(Tail(due), Sizes)) \in Seq(Units \X Nat \X Nat)
      /\ FlattenSeq(OctetsDue(due, Sizes))
           = OctetsOf(Head(due), Sizes[Head(due)]) \o FlattenSeq(OctetsDue(Tail(due), Sizes))
  BY <1>1, DueHead
<1>4. Sizes[Head(due)] = Size(Head(due))
  BY <1>3 DEF Sizes
<1>5. 1 \in 1 .. Len(due)
  BY <1>1, EmptySeq
<1>6. due[1][2] \in DOMAIN pdus[due[1][1]]
  BY <1>5 DEF StreamInv, DueInv
<1>7. buffer \o wire = OctetsOf(Head(due), Size(Head(due))) \o FlattenSeq(OctetsDue(Tail(due), Sizes))
  BY <1>2, <1>3, <1>4 DEF InStep
<1> QED
  BY <1>3, <1>4, <1>6, <1>7 DEF AllSized

\* No more of it is cut off when the buffer has less than the next PDU.
LEMMA StreamStops ==
  ASSUME SendInv, StreamInv, StopsExtracting
  PROVE  StreamInv'
<1>1. /\ session = "up" /\ UNCHANGED <<pdus, due, session, wire, buffer>>
      /\ PduLength(buffer) = 0 /\ reader' = "reading"
  BY DEF StopsExtracting, ExtractNone, sendVars
<1>2. DueInv'
  BY <1>1 DEF StreamInv, DueInv
<1>3. ReaderInv'
  BY <1>1 DEF StreamInv, ReaderInv
<1>4. FramesInStep'
  <2>1. due \in Seq(Units)
    BY DEF StreamInv, DueInv
  <2>2. InStep(due, buffer, wire, session = "up")
    BY <2>1, FramesNow DEF StreamInv
  <2>3. InStep(due', buffer', wire', session' = "up")
    BY <1>1, <2>2 DEF InStep
  <2>4. due' \in Seq(Units) /\ pdus' = pdus
    BY <1>1, <2>1
  <2> QED
    BY <2>3, <2>4, FramesThen
<1>5. NoPduWaits'
  <2> SUFFICES ASSUME due # << >> PROVE Len(buffer) < Size(Head(due))
    BY <1>1 DEF NoPduWaits, Size
  <2>1. PICK p, n, d, a, b :
          /\ p = Head(due) /\ n = Size(p) /\ a = buffer /\ b = wire
          /\ d = FlattenSeq(OctetsDue(Tail(due), Sizes))
    OBVIOUS
  <2>2. /\ p \in Units /\ n \in Nat /\ n >= HeaderLength
        /\ d \in Seq(Units \X Nat \X Nat)
        /\ Cat(a, b) = Cat(OctetsOf(p, n), d)
    BY <1>1, <2>1, NextDue DEF Sized, Cat
  <2>3. a \in Seq(Units \X Nat \X Nat) /\ b \in Seq(Units \X Nat \X Nat)
    BY <2>1 DEF StreamInv, ReaderInv
  <2>4. Len(a) >= n => PduLength(a) = n
    BY <2>2, <2>3, CutsWhole
  <2>5. Len(a) \in Nat
    BY <2>3, LenProperties
  <2>6. n > 0
    BY <2>2, FramingAssumption
  <2> QED
    BY <1>1, <2>1, <2>2, <2>4, <2>5, <2>6
<1> QED
  BY <1>2, <1>3, <1>4, <1>5 DEF StreamInv

\* What is cut out of the buffer is the next PDU that is due.
LEMMA ExtractsNext ==
  ASSUME SendInv, StreamInv, session = "up", NEW p, Extracts(p)
  PROVE  /\ due # << >> /\ p = Head(due)
         /\ buffer' \in Seq(Units \X Nat \X Nat)
         /\ InStep(due', buffer', wire', TRUE)
         /\ UNCHANGED <<pdus, wire, reader>>
         /\ due' = Tail(due) /\ reader = "extracting"
<1>1. /\ PduLength(buffer) > 0 /\ p = buffer[1][1]
      /\ buffer' = Rest(buffer, PduLength(buffer))
      /\ UNCHANGED <<pdus, wire, reader>>
      /\ due' = Tail(due) /\ reader = "extracting"
  BY DEF Extracts, ExtractPdu, sendVars
<1>2. buffer \in Seq(Units \X Nat \X Nat) /\ wire \in Seq(Units \X Nat \X Nat)
  BY DEF StreamInv, ReaderInv
<1>3. due # << >>
  <2> SUFFICES ASSUME due = << >> PROVE FALSE
    OBVIOUS
  <2>1. due \in Seq(Units)
    BY DEF StreamInv, DueInv
  <2>2. InStep(due, buffer, wire, session = "up")
    BY <2>1, FramesNow DEF StreamInv
  <2>3. OctetsDue(<< >>, Sizes) = << >>
    BY DEF OctetsDue
  <2>4. Cat(buffer, wire) = << >>
    BY <2>2, <2>3, FlattenEmpty DEF InStep, Cat
  <2>5. PICK a, b : a = buffer /\ b = wire
    OBVIOUS
  <2>6. PduLength(a) = 0
    BY <1>2, <2>4, <2>5, CutsNothing
  <2> QED
    BY <1>1, <2>5, <2>6
<1>4. PICK h, n, d, a, b :
        /\ h = Head(due) /\ n = Size(h) /\ a = buffer /\ b = wire
        /\ d = FlattenSeq(OctetsDue(Tail(due), Sizes))
  OBVIOUS
<1>5. /\ h \in Units /\ n \in Nat /\ n >= HeaderLength
      /\ d \in Seq(Units \X Nat \X Nat)
      /\ Cat(a, b) = Cat(OctetsOf(h, n), d)
  BY <1>3, <1>4, NextDue DEF Sized, Cat
<1>6. a \in Seq(Units \X Nat \X Nat) /\ b \in Seq(Units \X Nat \X Nat)
  BY <1>2, <1>4
<1>7. /\ Len(a) < n => PduLength(a) = 0
      /\ Len(a) >= n => /\ PduLength(a) = n /\ a[1][1] = h
                        /\ Rest(a, n) \in Seq(Units \X Nat \X Nat)
                        /\ Cat(Rest(a, n), b) = d
  BY <1>5, <1>6, CutsWhole
<1>8. Len(a) \in Nat
  BY <1>6, LenProperties
<1>9. Len(a) >= n
  BY <1>1, <1>4, <1>5, <1>7, <1>8
<1>10. /\ p = Head(due) /\ buffer' \in Seq(Units \X Nat \X Nat)
       /\ Cat(buffer', wire') = d
  BY <1>1, <1>4, <1>7, <1>9
<1>11. InStep(due', buffer', wire', TRUE)
  BY <1>1, <1>4, <1>10 DEF InStep, Cat
<1> QED
  BY <1>1, <1>3, <1>10, <1>11

\* The PDU that is handled is the next one due.
LEMMA StreamHandles ==
  ASSUME SendInv, StreamInv, NEW o \in Originals, NEW i \in DOMAIN pdus[o], Handle(o, i)
  PROVE  StreamInv' /\ session = "up" /\ due # << >> /\ <<o, i>> = Head(due)
<1>1. session = "up" /\ Extracts(<<o, i>>)
  BY DEF Handle, HandleReport, HandlePart, HandleWhole, HandleRaises, Extracts
<1>2. /\ due # << >> /\ <<o, i>> = Head(due)
      /\ buffer' \in Seq(Units \X Nat \X Nat)
      /\ InStep(due', buffer', wire', TRUE)
      /\ UNCHANGED <<pdus, wire, reader>>
      /\ due' = Tail(due) /\ reader = "extracting"
  BY <1>1, ExtractsNext
<1>3. DueInv'
  <2>1. Tail(due) \in Seq(Units)
        /\ \A k \in 1 .. Len(Tail(due)) : k + 1 \in 1 .. Len(due) /\ Tail(due)[k] = due[k + 1]
    BY <1>1, <1>2, NextDue
  <2>2. ASSUME NEW k \in 1 .. Len(Tail(due))
        PROVE  Tail(due)[k][2] \in DOMAIN pdus[Tail(due)[k][1]]
    <3>1. k + 1 \in 1 .. Len(due) /\ Tail(due)[k] = due[k + 1]
      BY <2>1
    <3>2. due[k + 1][2] \in DOMAIN pdus[due[k + 1][1]]
      BY <3>1 DEF StreamInv, DueInv
    <3> QED
      BY <3>1, <3>2
  <2> QED
    BY <1>2, <2>1, <2>2 DEF DueInv
<1>4. ReaderInv'
  BY <1>2 DEF StreamInv, ReaderInv
<1>5. FramesInStep'
  <2>1. InStep(due', buffer', wire', session' = "up")
    BY <1>2 DEF InStep
  <2>2. due' \in Seq(Units) /\ pdus' = pdus
    BY <1>2, <1>3 DEF DueInv
  <2> QED
    BY <2>1, <2>2, FramesThen
<1>6. NoPduWaits'
  BY <1>2 DEF NoPduWaits
<1> QED
  BY <1>1, <1>2, <1>3, <1>4, <1>5, <1>6 DEF StreamInv

\* A PDU that the SMSC writes comes after those that are due.
LEMMA StreamDelivers ==
  ASSUME SendInv, StreamInv, NEW o \in Originals, NEW i \in DOMAIN pdus[o], Deliver(o, i)
  PROVE  StreamInv'
<1> DEFINE q == <<o, i>>
           S == Units \X Nat \X Nat
<1>1. /\ session = "up" /\ UNCHANGED <<pdus, session, buffer, reader>>
      /\ wire' = wire \o OctetsOf(q, Size(q))
      /\ due' = Append(due, q)
  BY DEF Deliver, Write, sendVars
<1>2. PICK p : p = q
  OBVIOUS
<1>3. p \in Units /\ p[1] = o /\ p[2] = i /\ p[2] \in DOMAIN pdus[p[1]]
  <2>1. ArePdus(pdus[o])
    BY DEF SendInv
  <2>2. i \in 1 .. Len(pdus[o]) /\ Len(pdus[o]) \in Nat
    BY <2>1 DEF ArePdus
  <2>3. i \in Nat
    BY <2>2
  <2> QED
    BY <1>2, <2>3 DEF Units
<1>4. Sized(p, Sizes) /\ Sizes[p] = Size(p)
  BY <1>3, SentSize
<1> HIDE DEF q
<1>5. /\ due \in Seq(Units) /\ wire \in Seq(S) /\ buffer \in Seq(S)
      /\ AllSized(Units, due, Sizes)
  BY DueSized DEF StreamInv, DueInv, ReaderInv
<1>6. OctetsOf(p, Size(p)) \in Seq(S)
  <2>1. PICK n : n = Size(p)
    OBVIOUS
  <2>2. n \in Nat
    BY <1>4, <2>1 DEF Sized
  <2> QED
    BY <1>3, <2>1, <2>2, OctetsOfPdu
<1>7. /\ due' \in Seq(Units) /\ Len(due') = Len(due) + 1 /\ due'[Len(due) + 1] = p
      /\ \A k \in 1 .. Len(due) : due'[k] = due[k]
  BY <1>1, <1>2, <1>3, <1>5, AppendProperties
<1>8. Len(due) \in Nat
  BY <1>5, LenProperties
<1>9. DueInv'
  <2>1. ASSUME NEW k \in 1 .. Len(due') PROVE due'[k][2] \in DOMAIN pdus[due'[k][1]]
    <3>1. CASE k = Len(due) + 1
      BY <1>3, <1>7, <3>1
    <3>2. CASE k # Len(due) + 1
      <4>1. k \in 1 .. Len(due)
        BY <1>7, <1>8, <3>2
      <4> QED
        BY <1>7, <4>1 DEF StreamInv, DueInv
    <3> QED
      BY <3>1, <3>2
  <2> QED
    BY <1>1, <1>7, <2>1 DEF DueInv
<1>10. ReaderInv'
  <2>1. wire' \in Seq(S)
    BY <1>1, <1>2, <1>5, <1>6, ConcatProperties
  <2> QED
    BY <1>1, <2>1 DEF StreamInv, ReaderInv, S
<1>11. FramesInStep'
  <2>1. InStep(due, buffer, wire, session = "up")
    BY <1>5, FramesNow DEF StreamInv
  <2>2. PICK a, b, c, e : /\ a = buffer /\ b = wire /\ c = OctetsOf(p, Size(p))
                          /\ e = FlattenSeq(OctetsDue(due, Sizes))
    OBVIOUS
  <2>3. Cat(a, b) = e
    BY <1>1, <2>1, <2>2 DEF InStep, Cat
  <2>4. FlattenSeq(OctetsDue(due', Sizes)) = Cat(e, c)
    <3>1. PICK z, d : z = Sizes /\ d = due
      OBVIOUS
    <3>2. FlattenSeq(OctetsDue(Append(d, p), z)) = FlattenSeq(OctetsDue(d, z)) \o OctetsOf(p, z[p])
      BY ZenonT(40), <1>3, <1>4, <1>5, <3>1, DueAppend
    <3> QED
      BY <1>1, <1>2, <1>4, <2>2, <3>1, <3>2 DEF Cat
  <2>5. wire' = Cat(b, c) /\ buffer' = a
    BY <1>1, <1>2, <2>2 DEF Cat
  <2>6. a \in Seq(S) /\ b \in Seq(S) /\ c \in Seq(S)
    BY <1>5, <1>6, <2>2
  <2>7. Cat(Cat(a, b), c) = Cat(a, Cat(b, c))
    BY <2>6, CatAssociative
  <2>8. InStep(due', buffer', wire', session' = "up")
    BY <2>3, <2>4, <2>5, <2>7 DEF InStep, Cat
  <2>9. due' \in Seq(Units) /\ pdus' = pdus
    BY <1>1, <1>7
  <2> QED
    BY <2>8, <2>9, FramesThen
<1>12. NoPduWaits'
  <2> SUFFICES ASSUME reader = "reading" PROVE Len(buffer) < Size(Head(due'))
    BY <1>1 DEF NoPduWaits, Size
  <2>1. CASE due = << >>
    <3>1. InStep(due, buffer, wire, session = "up")
      BY <1>5, FramesNow DEF StreamInv
    <3>2. OctetsDue(<< >>, Sizes) = << >>
      BY DEF OctetsDue
    <3>3. Cat(buffer, wire) = << >>
      BY <1>1, <2>1, <3>1, <3>2, FlattenEmpty DEF InStep, Cat
    <3>4. PICK a, b : a = buffer /\ b = wire
      OBVIOUS
    <3>5. Len(a) = 0
      BY <1>5, <3>3, <3>4, CutsNothing
    <3>6. Head(due') = p
      BY <1>1, <1>2, <1>7, <2>1, EmptySeq, HeadTailProperties
    <3>7. Size(p) \in Nat /\ Size(p) > 0
      BY <1>4, FramingAssumption DEF Sized
    <3> QED
      BY <3>4, <3>5, <3>6, <3>7
  <2>2. CASE due # << >>
    <3>1. Head(due') = Head(due)
      <4>1. Len(due) # 0 /\ Len(due) >= 1
        BY <1>5, <1>8, <2>2, EmptySeq
      <4>2. due' # << >>
        BY <1>7, <1>8, EmptySeq
      <4>3. Head(due') = due'[1] /\ Head(due) = due[1]
        BY <1>5, <1>7, <2>2, <4>2, HeadTailProperties
      <4>4. 1 \in 1 .. Len(due)
        BY <1>8, <4>1
      <4> QED
        BY <1>7, <4>3, <4>4
    <3> QED
      BY <2>2, <3>1 DEF StreamInv, NoPduWaits
  <2> QED
    BY <2>1, <2>2
<1> QED
  BY <1>9, <1>10, <1>11, <1>12 DEF StreamInv

\* Nothing is due, and nothing there, when the stream begins.
LEMMA StreamBegins ==
  ASSUME due = << >>, wire = << >>, buffer = << >>, reader = "reading", session = "up"
  PROVE  StreamInv
<1>1. DueInv /\ ReaderInv
  BY EmptySeq DEF DueInv, ReaderInv
<1>2. NoPduWaits
  BY DEF NoPduWaits
<1>3. OctetsDue(<< >>, Sizes) = << >>
  BY DEF OctetsDue
<1>4. << >> \o << >> = << >>
  OBVIOUS
<1>5. InStep(due, buffer, wire, session = "up")
  BY <1>3, <1>4, FlattenEmpty DEF InStep
<1>6. FramesInStep
  BY <1>1, <1>5, FramesNow DEF DueInv
<1> QED
  BY <1>1, <1>2, <1>6 DEF StreamInv

\* The same after a restart.
LEMMA StreamBeginsAgain ==
  ASSUME due' = << >>, wire' = << >>, buffer' = << >>, reader' = "reading", session' = "up",
         pdus' = pdus
  PROVE  StreamInv'
<1>1. DueInv' /\ ReaderInv'
  BY EmptySeq DEF DueInv, ReaderInv
<1>2. NoPduWaits'
  BY DEF NoPduWaits
<1>3. OctetsDue(<< >>, Sizes) = << >>
  BY DEF OctetsDue
<1>4. << >> \o << >> = << >>
  OBVIOUS
<1>5. InStep(due', buffer', wire', session' = "up")
  BY <1>3, <1>4, FlattenEmpty DEF InStep
<1>6. due' \in Seq(Units)
  BY EmptySeq
<1>7. FramesInStep'
  BY <1>5, <1>6, FramesThen
<1> QED
  BY <1>1, <1>2, <1>7 DEF StreamInv

\* Every step keeps the stream in step.
LEMMA StreamNext ==
  ASSUME SendInv, StreamInv, Next
  PROVE  StreamInv'
<1>1. ASSUME NEW o \in Originals, Submit(o) \/ SubmitRaises(o) PROVE StreamInv'
  BY <1>1, StreamSends
<1>2. ASSUME NEW o \in Originals, NEW i \in DOMAIN pdus[o], Deliver(o, i) PROVE StreamInv'
  BY <1>2, StreamDelivers
<1>3. ASSUME NEW o \in Originals, NEW i \in DOMAIN pdus[o], Handle(o, i) PROVE StreamInv'
  BY <1>3, StreamHandles
<1>4. ASSUME NEW n \in ReadSizes, Reads(n) PROVE StreamInv'
  BY <1>4, StreamReads
<1>5. CASE StopsExtracting
  BY <1>5, StreamStops
<1>6. CASE Restart
  BY <1>6, StreamBeginsAgain DEF Restart, sendVars
<1> QED
  BY <1>1, <1>2, <1>3, <1>4, <1>5, <1>6 DEF Next

\* So does a step that changes nothing.
LEMMA NothingMoves ==
  ASSUME SendInv, StreamInv, UNCHANGED vars
  PROVE  SendInv' /\ StreamInv'
<1>1. UNCHANGED <<seqno, pdus, wire, buffer, reader, due, session>>
  BY DEF vars, sendVars, streamVars
<1>2. SendInv'
  BY <1>1 DEF SendInv
<1>3. DueInv' /\ ReaderInv'
  BY <1>1 DEF StreamInv, DueInv, ReaderInv
<1>4. FramesInStep'
  BY <1>1 DEF StreamInv, FramesInStep, OctetsOf, Size
<1>5. NoPduWaits'
  BY <1>1 DEF StreamInv, NoPduWaits, Size
<1> QED
  BY <1>2, <1>3, <1>4, <1>5 DEF StreamInv

\* Nothing was sent at first.
LEMMA SendInit ==
  ASSUME Init
  PROVE  SendInv
<1>1. seqno \in [Senders -> Nat] /\ DOMAIN pdus = Originals
  BY DEF Init
<1>2. ArePdus(<< >>)
  BY EmptySeq DEF ArePdus
<1> QED
  BY <1>1, <1>2 DEF Init, SendInv

\* What is sent is PDUs, and the stream is in step with what is due.
THEOREM StreamTheorem == Spec => [](SendInv /\ StreamInv)
<1>1. Init => SendInv /\ StreamInv
  BY SendInit, StreamBegins DEF Init, StreamInit
<1>2. SendInv /\ StreamInv /\ [Next]_vars => (SendInv /\ StreamInv)'
  BY SendNext, StreamNext, NothingMoves
<1> QED
  BY <1>1, <1>2, PTL DEF Spec

\* Whatever is read of the stream at once, the octets there and under way are the
\* PDUs not handled yet, from the beginning of the next: none is lost, cut in the
\* wrong place or read twice.
THEOREM FramesStayInStep == Spec => []FramesInStep
<1>1. SendInv /\ StreamInv => FramesInStep
  BY DEF StreamInv
<1> QED
  BY <1>1, StreamTheorem, PTL

\* extract_pdu leaves no whole PDU in the buffer when the stream is read again.
THEOREM NoneWaits == Spec => []NoPduWaits
<1>1. SendInv /\ StreamInv => NoPduWaits
  BY DEF StreamInv
<1> QED
  BY <1>1, StreamTheorem, PTL

-------------------------------------------------------------------------------
(* What a text is sent as makes the text.                                  *)

TextStep ==
  \A o \in Originals :
    pdus'[o] # pdus[o] /\ Len(pdus'[o]) > 1 => MakeTheText(PartsFound(o)', o)

\* The step that sends a text makes its parts.
LEMMA SubmitMakesText ==
  ASSUME SendInv, NEW o \in Originals, Submit(o)
  PROVE  TextStep
<1> DEFINE seq == seqno[Sender[o]] + 1
<1>1. Sender[o] \in Senders
  BY DEF Senders
<1>2. seq \in Nat
  BY <1>1 DEF SendInv
<1>3. Encodable(Text[o], WritingCodec(o))
  BY DEF Submit
<1>4. PICK s : s = Sent(o, seq)
  OBVIOUS
<1>5. pdus' = [pdus EXCEPT ![o] = s]
  BY <1>4 DEF Submit, Sent
<1>6. ArePdus(s) /\ (InParts(o) \/ Len(s) # 1 => ArePartsOf(s, o))
  BY <1>2, <1>3, <1>4, SentPdus
<1> HIDE DEF seq
<1>7. pdus'[o] = s /\ \A e \in Originals : e # o => pdus'[e] = pdus[e]
  BY <1>5 DEF SendInv
<1>8. PartsFound(o)' = [i \in DOMAIN s |-> ExtractMultipart(s[i])]
  BY <1>7 DEF PartsFound
<1>9. ASSUME Len(s) > 1 PROVE MakeTheText(PartsFound(o)', o)
  <2>1. Len(s) # 1
    BY <1>6, <1>9 DEF ArePdus
  <2>2. MakeTheText([i \in DOMAIN s |-> ExtractMultipart(s[i])], o)
    BY <1>3, <1>6, <2>1, PartsMakeIt
  <2> QED
    BY <1>8, <2>2
<1> QED
  BY <1>7, <1>9 DEF TextStep

\* The sending half and the receiving half agree, for every text, codec, handling
\* and reference: the parts that _extract_multipart finds in the PDUs of a long
\* text are numbered as they were cut and joined make its octets.
THEOREM PartsAlwaysMakeTheText == Spec => PartsMakeTheText
<1>1. SendInv /\ [Next]_vars => [TextStep]_pdus
  <2>1. ASSUME SendInv, NEW o \in Originals, Submit(o) PROVE TextStep
    BY <2>1, SubmitMakesText
  <2>2. ASSUME NEW o \in Originals, SubmitRaises(o) PROVE UNCHANGED pdus
    BY <2>2 DEF SubmitRaises
  <2>3. ASSUME NEW o \in Originals, NEW i \in DOMAIN pdus[o], Deliver(o, i) \/ Handle(o, i)
        PROVE  UNCHANGED pdus
    BY <2>3 DEF Deliver, Handle, HandleReport, HandlePart, HandleWhole, HandleRaises, Extracts, sendVars
  <2>4. ASSUME NEW n \in ReadSizes, Reads(n) PROVE UNCHANGED pdus
    BY <2>4 DEF Reads, sendVars
  <2>5. ASSUME StopsExtracting \/ Restart PROVE UNCHANGED pdus
    BY <2>5 DEF StopsExtracting, Restart, sendVars
  <2>6. UNCHANGED vars => UNCHANGED pdus
    BY DEF vars, sendVars
  <2> QED
    BY <2>1, <2>2, <2>3, <2>4, <2>5, <2>6 DEF Next
<1>2. SendInv /\ StreamInv => SendInv
  OBVIOUS
<1> QED
  BY <1>1, <1>2, StreamTheorem, PTL DEF Spec, PartsMakeTheText, TextStep

-------------------------------------------------------------------------------
(* The types: what is in the cache, and the counters.                      *)

\* The parts of c under p's key.
OfKey(c, p) == {q \in c : SameKey(p, q)}

Numbered(p) == p.total \in Nat /\ p.number \in 1 .. p.total

NumbersDiffer(c) == \A p, q \in c : SameKey(p, q) /\ p.number = q.number => p = q

\* No key of c is complete, and no number is there twice.
CacheOK(c) ==
  /\ IsFiniteSet(c)
  /\ \A p \in c : Numbered(p) /\ Cardinality(OfKey(c, p)) < p.total
  /\ NumbersDiffer(c)

\* Parts of one key with different numbers are no more than the numbers there are.
LEMMA NoMoreThanNumbers ==
  ASSUME NEW g, NEW n \in Nat, \A p \in g : p.number \in 1 .. n,
         \A p, q \in g : p.number = q.number => p = q
  PROVE  IsFiniteSet(g) /\ Cardinality(g) \in Nat /\ Cardinality(g) <= n
<1> DEFINE f == [p \in g |-> p.number]
<1>1. f \in Injection(g, 1 .. n)
  BY DEF Injection, IsInjective
<1>2. IsFiniteSet(1 .. n) /\ Cardinality(1 .. n) = n
  BY FS_Interval
<1>3. IsFiniteSet(g) /\ Cardinality(g) <= Cardinality(1 .. n)
  BY <1>1, <1>2, FS_Injection
<1>4. Cardinality(g) \in Nat
  BY <1>3, FS_CardinalityType
<1> QED
  BY <1>2, <1>3, <1>4

\* What is under one key once a part is put there.
LEMMA GatheredParts ==
  ASSUME CacheOK(cache), NEW part, Numbered(part)
  PROVE  /\ \A p \in Gathered(part) : SameKey(p, part) /\ Numbered(p)
         /\ NumbersDiffer(Gathered(part))
         /\ IsFiniteSet(Gathered(part))
         /\ Cardinality(Gathered(part)) \in Nat
         /\ Cardinality(Gathered(part)) <= part.total
<1> DEFINE g == Gathered(part)
<1>1. \A p \in g : SameKey(p, part) /\ Numbered(p)
  BY DEF Gathered, SameKey, CacheOK
<1>2. \A p \in g : p.number \in 1 .. part.total
  BY <1>1 DEF SameKey, Numbered
<1>3. \A p, q \in g : p.number = q.number => p = q
  BY DEF Gathered, SameKey, CacheOK, NumbersDiffer
<1> HIDE DEF g
<1>4. IsFiniteSet(g) /\ Cardinality(g) \in Nat /\ Cardinality(g) <= part.total
  BY <1>2, <1>3, NoMoreThanNumbers DEF Numbered
<1> QED
  BY <1>1, <1>3, <1>4 DEF g, NumbersDiffer

\* store_multipart keeps the parts of other keys, and a key's until it is complete.
LEMMA CacheStores ==
  ASSUME CacheOK(cache), NEW part, Numbered(part), StoreMultipart(part)
  PROVE  CacheOK(cache')
<1> DEFINE g == Gathered(part)
           h == Others(part)
<1>1. /\ \A p \in g : SameKey(p, part) /\ Numbered(p)
      /\ NumbersDiffer(g) /\ IsFiniteSet(g)
      /\ Cardinality(g) \in Nat /\ Cardinality(g) <= part.total
  BY GatheredParts
<1>2. h \subseteq cache /\ \A p \in h : ~SameKey(part, p)
  BY DEF Others
<1>3. IsFiniteSet(cache) /\ IsFiniteSet(h)
  BY <1>2, FS_Subset DEF CacheOK
<1>4. cache' = IF Cardinality(g) = part.total THEN h ELSE h \cup g
  BY DEF StoreMultipart, Complete
<1> HIDE DEF g, h
<1>5. cache' \subseteq h \cup g
  BY <1>4
<1>6. IsFiniteSet(cache')
  <2>1. IsFiniteSet(h \cup g)
    BY <1>1, <1>3, FS_Union
  <2> QED
    BY <1>5, <2>1, FS_Subset
<1>7. NumbersDiffer(cache')
  <2> SUFFICES ASSUME NEW p \in h \cup g, NEW q \in h \cup g, SameKey(p, q), p.number = q.number
               PROVE  p = q
    BY <1>5 DEF NumbersDiffer
  <2>1. p \in h => q \in h
    BY <1>1, <1>2 DEF SameKey
  <2>2. q \in h => p \in h
    BY <1>1, <1>2 DEF SameKey
  <2>3. p \in h /\ q \in h => p = q
    BY <1>2 DEF CacheOK, NumbersDiffer
  <2>4. p \in g /\ q \in g => p = q
    BY <1>1 DEF NumbersDiffer
  <2> QED
    BY <2>1, <2>2, <2>3, <2>4
<1>8. ASSUME NEW p \in cache' PROVE Numbered(p) /\ Cardinality(OfKey(cache', p)) < p.total
  <2>1. CASE p \in h
    <3>1. p \in cache /\ Numbered(p) /\ Cardinality(OfKey(cache, p)) < p.total
      BY <1>2, <2>1 DEF CacheOK
    <3>2. OfKey(cache', p) \subseteq OfKey(cache, p)
      BY <1>1, <1>2, <1>5, <2>1 DEF OfKey, SameKey
    <3>3. IsFiniteSet(OfKey(cache, p))
      BY <1>3, FS_Subset DEF OfKey
    <3>4. /\ Cardinality(OfKey(cache', p)) <= Cardinality(OfKey(cache, p))
          /\ IsFiniteSet(OfKey(cache', p))
      BY <3>2, <3>3, FS_Subset
    <3>5. Cardinality(OfKey(cache', p)) \in Nat /\ Cardinality(OfKey(cache, p)) \in Nat
      BY <3>3, <3>4, FS_CardinalityType
    <3>6. p.total \in Nat
      BY <3>1 DEF Numbered
    <3> QED
      BY <3>1, <3>4, <3>5, <3>6
  <2>2. CASE p \notin h
    <3>1. p \in g /\ Cardinality(g) # part.total
      BY <1>4, <2>2
    <3>2. SameKey(p, part) /\ Numbered(p)
      BY <1>1, <3>1
    <3>3. OfKey(cache', p) \subseteq g
      BY <1>2, <1>5, <3>2 DEF OfKey, SameKey
    <3>4. IsFiniteSet(OfKey(cache', p)) /\ Cardinality(OfKey(cache', p)) <= Cardinality(g)
      BY <1>1, <3>3, FS_Subset
    <3>5. Cardinality(OfKey(cache', p)) \in Nat
      BY <3>4, FS_CardinalityType
    <3>6. p.total = part.total /\ part.total \in Nat
      BY <3>2 DEF SameKey, Numbered
    <3> QED
      BY <1>1, <3>1, <3>2, <3>4, <3>5, <3>6
  <2> QED
    BY <2>1, <2>2
<1> QED
  BY <1>6, <1>7, <1>8 DEF CacheOK

\* The rest of the types: what was answered was sent, and the bounds.
CountsOK ==
  /\ \A p \in answered : p[1] \in Originals /\ p[2] \in DOMAIN pdus[p[1]]
  /\ repeats \in 0 .. MaxRepeats /\ crashes \in 0 .. MaxCrashes

\* The part of a PDU that was sent has a number that fits.
LEMMA SentNumbered ==
  ASSUME SendInv, NEW o \in Originals, NEW i \in DOMAIN pdus[o],
         ExtractMultipart(pdus[o][i]) # None, NEW text
  PROVE  Numbered([ExtractMultipart(pdus[o][i]) EXCEPT !.content = text])
<1>1. IsPdu(pdus[o][i])
  BY DEF SendInv, ArePdus
<1>2. PICK part : part = ExtractMultipart(pdus[o][i])
  OBVIOUS
<1>3. IsPart(part)
  BY <1>1, <1>2, FoundPart
<1>4. Numbered([part EXCEPT !.content = text])
  BY <1>3 DEF IsPart, Numbered
<1> QED
  BY <1>2, <1>4

\* The cache changes only when a part is stored, and at a restart.
LEMMA CacheNext ==
  ASSUME SendInv, CacheOK(cache), [Next]_vars
  PROVE  CacheOK(cache')
<1>1. ASSUME NEW o \in Originals, Submit(o) \/ SubmitRaises(o) PROVE UNCHANGED cache
  BY <1>1 DEF Submit, SubmitRaises
<1>2. ASSUME NEW o \in Originals, NEW i \in DOMAIN pdus[o],
             Deliver(o, i) \/ HandleReport(o, i) \/ HandleWhole(o, i) \/ HandleRaises(o, i)
      PROVE  UNCHANGED cache
  BY <1>2 DEF Deliver, HandleReport, HandleWhole, HandleRaises
<1>3. ASSUME NEW o \in Originals, NEW i \in DOMAIN pdus[o], HandlePart(o, i)
      PROVE  CacheOK(cache')
  <2>1. PICK text : StoreMultipart([ExtractMultipart(pdus[o][i]) EXCEPT !.content = text])
    BY <1>3 DEF HandlePart
  <2>2. PICK part : part = [ExtractMultipart(pdus[o][i]) EXCEPT !.content = text]
    OBVIOUS
  <2>3. Numbered(part)
    BY <1>3, <2>2, SentNumbered DEF HandlePart
  <2>4. StoreMultipart(part)
    BY <2>1, <2>2
  <2> QED
    BY <2>3, <2>4, CacheStores
<1>4. ASSUME NEW n \in ReadSizes, Reads(n) PROVE UNCHANGED cache
  BY <1>4 DEF Reads
<1>5. CASE StopsExtracting
  BY <1>5 DEF StopsExtracting
<1>6. CASE Restart
  <2>1. cache' = {}
    BY <1>6 DEF Restart
  <2> QED
    BY <2>1, FS_EmptySet DEF CacheOK, NumbersDiffer
<1>7. CASE UNCHANGED vars
  BY <1>7 DEF vars
<1> QED
  BY <1>1, <1>2, <1>3, <1>4, <1>5, <1>6, <1>7 DEF Next, Handle

\* The counters stay in their bounds.
LEMMA CountsNext ==
  ASSUME SendInv, CountsOK, [Next]_vars
  PROVE  CountsOK'
<1>1. ASSUME NEW o \in Originals, Submit(o) \/ SubmitRaises(o) PROVE CountsOK'
  <2>1. UNCHANGED <<answered, repeats, crashes>>
    BY <1>1 DEF Submit, SubmitRaises
  <2>2. \A e \in Originals : e # o => pdus'[e] = pdus[e]
    BY <1>1 DEF Submit, SubmitRaises, SendInv
  <2>3. pdus' = pdus \/ pdus[o] = << >>
    BY <1>1 DEF Submit, SubmitRaises, NextToSend, Unsent
  <2>4. DOMAIN << >> = {}
    OBVIOUS
  <2>5. \A p \in answered : p[1] \in Originals /\ p[2] \in DOMAIN pdus'[p[1]]
    BY <2>2, <2>3, <2>4 DEF CountsOK
  <2> QED
    BY <2>1, <2>5 DEF CountsOK
<1>2. ASSUME NEW o \in Originals, NEW i \in DOMAIN pdus[o], Deliver(o, i) PROVE CountsOK'
  <2>1. UNCHANGED <<pdus, answered, crashes>>
    BY <1>2 DEF Deliver, sendVars
  <2>2. repeats' = repeats \/ (repeats < MaxRepeats /\ repeats' = repeats + 1)
    BY <1>2 DEF Deliver
  <2>3. repeats' \in 0 .. MaxRepeats
    BY <2>2, SmppInboundAssumption DEF CountsOK
  <2> QED
    BY <2>1, <2>3 DEF CountsOK
<1>3. ASSUME NEW o \in Originals, NEW i \in DOMAIN pdus[o], Handle(o, i) PROVE CountsOK'
  <2>1. UNCHANGED <<pdus, repeats, crashes>> /\ answered' \subseteq answered \cup {<<o, i>>}
    BY <1>3 DEF Handle, HandleReport, HandlePart, HandleWhole, HandleRaises, Extracts, sendVars
  <2> QED
    BY <2>1 DEF CountsOK
<1>4. ASSUME NEW n \in ReadSizes, Reads(n) PROVE CountsOK'
  BY <1>4 DEF Reads, sendVars, CountsOK
<1>5. CASE StopsExtracting
  BY <1>5 DEF StopsExtracting, sendVars, CountsOK
<1>6. CASE Restart
  <2>1. UNCHANGED <<pdus, answered, repeats>> /\ crashes < MaxCrashes /\ crashes' = crashes + 1
    BY <1>6 DEF Restart, sendVars
  <2>2. crashes' \in 0 .. MaxCrashes
    BY <2>1, SmppInboundAssumption DEF CountsOK
  <2> QED
    BY <2>1, <2>2 DEF CountsOK
<1>7. CASE UNCHANGED vars
  BY <1>7 DEF vars, sendVars, CountsOK
<1> QED
  BY <1>1, <1>2, <1>3, <1>4, <1>5, <1>6, <1>7 DEF Next

\* No complete message stays in the cache.
THEOREM CacheTheorem == Spec => [](CacheOK(cache) /\ CountsOK)
<1>1. Init => CacheOK(cache) /\ CountsOK
  BY FS_EmptySet, SmppInboundAssumption DEF Init, CacheOK, NumbersDiffer, CountsOK
<1>2. (SendInv /\ StreamInv) /\ (CacheOK(cache) /\ CountsOK) /\ [Next]_vars
        => (CacheOK(cache) /\ CountsOK)'
  BY CacheNext, CountsNext
<1> QED
  BY <1>1, <1>2, StreamTheorem, PTL DEF Spec

\* store_multipart never keeps a complete message, a number that does not fit its
\* message, or two parts of one number; and what was answered had been sent.
THEOREM TypeCorrect == Spec => []TypeOK
<1>1. (SendInv /\ StreamInv) /\ (CacheOK(cache) /\ CountsOK) => TypeOK
  BY DEF SendInv, StreamInv, ReaderInv, CacheOK, CountsOK, OfKey, Numbered, NumbersDiffer, TypeOK
<1> QED
  BY <1>1, StreamTheorem, CacheTheorem, PTL

-------------------------------------------------------------------------------
(* Decode, octet by octet.                                                 *)

\* The codec's step: octet comes behind the octets that are left over.
Taken(codec, d, octet) ==
  LET word == Append(d.rest, octet)
      read == codec.reads[<<d.mode, word>>]
  IN  IF <<d.mode, word>> \in Words(codec)
      THEN [text |-> d.text \o read.text, rest |-> << >>, mode |-> read.mode]
      ELSE [d EXCEPT !.rest = word]

Decoding(text, rest, mode) == [text |-> text, rest |-> rest, mode |-> mode]
Decodings(codec) == [text : Seq(Alphabet(codec)), rest : Seq(Nat), mode : Modes(codec)]

Nothing(codec) == [text |-> << >>, rest |-> << >>, mode |-> codec.start]

\* t[k] is what is decoded after k octets, from d on.
IsRun(t, d, octets, codec) ==
  /\ t[0] = d
  /\ \A k \in 1 .. Len(octets) : t[k] = Taken(codec, t[k - 1], octets[k])

\* The fields of what is decoded.
LEMMA DecodingFields ==
  ASSUME NEW text, NEW rest, NEW mode
  PROVE  /\ Decoding(text, rest, mode).text = text /\ Decoding(text, rest, mode).rest = rest
         /\ Decoding(text, rest, mode).mode = mode
BY DEF Decoding

LEMMA DecodingsAre ==
  ASSUME NEW codec, NEW d \in Decodings(codec)
  PROVE  /\ d = Decoding(d.text, d.rest, d.mode)
         /\ d.text \in Seq(Alphabet(codec)) /\ d.rest \in Seq(Nat) /\ d.mode \in Modes(codec)
BY DEF Decodings, Decoding

\* An octet completes a word, or is left over with those before it.
LEMMA TakenIs ==
  ASSUME NEW codec, NEW text, NEW rest, NEW mode, NEW octet
  PROVE  Taken(codec, Decoding(text, rest, mode), octet) =
           IF <<mode, Append(rest, octet)>> \in Words(codec)
           THEN Decoding(Cat(text, codec.reads[<<mode, Append(rest, octet)>>].text), << >>,
                         codec.reads[<<mode, Append(rest, octet)>>].mode)
           ELSE Decoding(text, Append(rest, octet), mode)
<1>1. PICK word, d : word = Append(rest, octet) /\ d = Decoding(text, rest, mode)
  OBVIOUS
<1>2. d.text = text /\ d.rest = rest /\ d.mode = mode
  BY <1>1, DecodingFields
<1>3. [d EXCEPT !.rest = word] = Decoding(text, word, mode)
  <2>1. ASSUME NEW x, NEW y, NEW m, NEW w
        PROVE  [[text |-> x, rest |-> y, mode |-> m] EXCEPT !.rest = w]
                 = [text |-> x, rest |-> w, mode |-> m]
    OBVIOUS
  <2> QED
    BY <1>1, <2>1 DEF Decoding
<1>4. Taken(codec, d, octet) =
        IF <<mode, word>> \in Words(codec)
        THEN Decoding(Cat(text, codec.reads[<<mode, word>>].text), << >>,
                      codec.reads[<<mode, word>>].mode)
        ELSE [d EXCEPT !.rest = word]
  BY <1>1, <1>2 DEF Taken, Decoding, Cat
<1> QED
  BY <1>1, <1>3, <1>4

\* What a codec reads.
LEMMA ReadsWords ==
  ASSUME NEW codec, IsCodec(codec), NEW r \in Words(codec)
  PROVE  /\ r[1] \in Modes(codec) /\ r[2] \in Seq(Nat) /\ r[2] # << >> /\ r = <<r[1], r[2]>>
         /\ codec.reads[r].text \in Seq(Alphabet(codec)) /\ codec.reads[r].mode \in Modes(codec)
         /\ \A s \in Words(codec) : s[1] = r[1] /\ IsPrefix(s[2], r[2]) => s = r
<1>1. /\ r[1] \in Modes(codec) /\ r[2] \in Seq(Octet) \ {<< >>} /\ r = <<r[1], r[2]>>
      /\ codec.reads[r].text \in Seq(Alphabet(codec)) /\ codec.reads[r].mode \in Modes(codec)
      /\ \A s \in Words(codec) : s[1] = r[1] /\ IsPrefix(s[2], r[2]) => s = r
  BY DEF IsCodec
<1> QED
  BY <1>1, OctetsAreNumbers

\* Taking an octet leaves text, octets and a mode.
LEMMA TakenType ==
  ASSUME NEW codec, IsCodec(codec), NEW d \in Decodings(codec), NEW octet \in Nat
  PROVE  Taken(codec, d, octet) \in Decodings(codec)
<1>1. PICK text, rest, mode : text = d.text /\ rest = d.rest /\ mode = d.mode
  OBVIOUS
<1>2. /\ d = Decoding(text, rest, mode)
      /\ text \in Seq(Alphabet(codec)) /\ rest \in Seq(Nat) /\ mode \in Modes(codec)
  BY <1>1, DecodingsAre
<1>3. PICK word, r : word = Append(rest, octet) /\ r = <<mode, word>>
  OBVIOUS
<1>4. word \in Seq(Nat) /\ << >> \in Seq(Nat)
  BY <1>2, <1>3
<1>5. CASE r \in Words(codec)
  <2>1. PICK x, y : x = codec.reads[r].text /\ y = codec.reads[r].mode
    OBVIOUS
  <2>2. x \in Seq(Alphabet(codec)) /\ y \in Modes(codec)
    BY <1>5, <2>1, ReadsWords
  <2>3. Cat(text, x) \in Seq(Alphabet(codec))
    BY <1>2, <2>2, ConcatProperties DEF Cat
  <2>4. Taken(codec, d, octet) = Decoding(Cat(text, x), << >>, y)
    BY <1>2, <1>3, <1>5, <2>1, TakenIs
  <2> QED
    BY <1>4, <2>2, <2>3, <2>4 DEF Decodings, Decoding
<1>6. CASE r \notin Words(codec)
  <2>1. <<mode, Append(rest, octet)>> \notin Words(codec)
    BY <1>3, <1>6
  <2>2. Taken(codec, Decoding(text, rest, mode), octet) = Decoding(text, Append(rest, octet), mode)
    BY <2>1, TakenIs
  <2>3. Taken(codec, d, octet) = Decoding(text, word, mode)
    BY <1>2, <1>3, <2>2
  <2> QED
    BY <1>2, <1>4, <2>3 DEF Decodings, Decoding
<1> QED
  BY <1>5, <1>6

\* The fold in Decode.
DecodeFold(octets, codec, n) ==
  CHOOSE f : f = [s \in SUBSET (1 .. n) |->
                    IF s = {} THEN Nothing(codec)
                    ELSE Taken(codec, f[s \ {Max(s)}], octets[Max(s)])]

\* Decode takes the octets one by one.
LEMMA DecodeRuns ==
  ASSUME NEW codec, IsCodec(codec), NEW octets \in Seq(Nat)
  PROVE  \E t : /\ IsRun(t, Nothing(codec), octets, codec)
                /\ Decode(octets, codec) = t[Len(octets)]
                /\ \A k \in 0 .. Len(octets) : t[k] \in Decodings(codec)
<1> DEFINE n == Len(octets)
           D == Decodings(codec)
           none == Nothing(codec)
           f == DecodeFold(octets, codec, n)
           g == [k \in 1 .. n |-> [d \in D |-> Taken(codec, d, octets[k])]]
<1>1. n \in Nat /\ DOMAIN octets = 1 .. n /\ \A k \in 1 .. n : octets[k] \in Nat
  BY LenProperties, ElementOfSeq
<1>2. Decode(octets, codec) = f[1 .. n]
  BY <1>1 DEF Decode, FoldLeft, MapThenFoldSet, DecodeFold, Taken, Nothing
<1>3. none \in D
  <2>1. codec.start \in Modes(codec) /\ << >> \in Seq(Nat) /\ << >> \in Seq(Alphabet(codec))
    BY DEF Modes
  <2> QED
    BY <2>1 DEF Nothing, Decodings
<1>4. \A k \in 1 .. n : g[k] \in [D -> D]
  BY <1>1, TakenType
<1>5. PICK h : IsFold(h, n, g, none) /\ \A s \in SUBSET (1 .. n) : h[s] \in D
  <2> HIDE DEF g, D, none
  <2> QED
    BY <1>1, <1>3, <1>4, FoldExists
<1>6. h = [s \in SUBSET (1 .. n) |->
            IF s = {} THEN none ELSE Taken(codec, h[s \ {Max(s)}], octets[Max(s)])]
  <2> HIDE DEF none
  <2>1. \A s \in SUBSET (1 .. n) : h[s] = IF s = {} THEN none ELSE g[Max(s)][h[s \ {Max(s)}]]
    BY <1>5 DEF IsFold
  <2>2. ASSUME NEW s \in SUBSET (1 .. n)
        PROVE  h[s] = IF s = {} THEN none ELSE Taken(codec, h[s \ {Max(s)}], octets[Max(s)])
    <3>1. CASE s = {}
      BY <2>1, <3>1
    <3>2. CASE s # {}
      <4>1. Max(s) \in 1 .. n /\ s \ {Max(s)} \in SUBSET (1 .. n)
        BY <1>1, <3>2, MaxIsIn
      <4>2. h[s] = g[Max(s)][h[s \ {Max(s)}]]
        BY <2>1, <3>2
      <4>3. h[s \ {Max(s)}] \in D
        BY <1>5, <4>1
      <4>4. g[Max(s)][h[s \ {Max(s)}]] = Taken(codec, h[s \ {Max(s)}], octets[Max(s)])
        BY <4>1, <4>3
      <4> QED
        BY <3>2, <4>2, <4>4
    <3> QED
      BY <3>1, <3>2
  <2>3. h = [s \in SUBSET (1 .. n) |-> h[s]]
    BY <1>5 DEF IsFold
  <2> HIDE DEF g
  <2> QED
    BY <2>2, <2>3
<1>7. f = [s \in SUBSET (1 .. n) |->
            IF s = {} THEN none ELSE Taken(codec, f[s \ {Max(s)}], octets[Max(s)])]
  BY <1>6 DEF DecodeFold
<1> HIDE DEF f, g, none
<1> DEFINE t == [k \in 0 .. n |-> f[1 .. k]]
<1>8. t[0] = none
  <2>1. 1 .. 0 = {} /\ 0 \in 0 .. n
    BY <1>1
  <2> QED
    BY <1>7, <2>1
<1>9. ASSUME NEW k \in 1 .. n PROVE t[k] = Taken(codec, t[k - 1], octets[k])
  <2>1. 1 .. k \in SUBSET (1 .. n) /\ k \in 1 .. k /\ 1 .. k # {} /\ (1 .. k) \ {k} = 1 .. k - 1
    BY <1>1
  <2>2. Max(1 .. k) = k
    BY <2>1, MaxOfUpTo
  <2>3. f[1 .. k] = IF 1 .. k = {} THEN none
                    ELSE Taken(codec, f[(1 .. k) \ {Max(1 .. k)}], octets[Max(1 .. k)])
    BY <1>7, <2>1
  <2>4. k \in 0 .. n /\ k - 1 \in 0 .. n
    BY <1>1
  <2>5. f[1 .. k] = Taken(codec, f[1 .. k - 1], octets[k])
    BY <2>1, <2>2, <2>3
  <2> QED
    BY <2>4, <2>5
<1>10. t[n] = Decode(octets, codec)
  BY <1>1, <1>2
<1> HIDE DEF t
<1>11. \A k \in 0 .. n : t[k] \in D
  <2> DEFINE G == {k \in 1 .. n : t[k] \in D}
  <2>1. ASSUME NEW k \in 1 .. n, t[k - 1] \in D PROVE t[k] \in D
    BY <1>1, <1>9, <2>1, TakenType
  <2>2. n > 0 => 1 \in G
    <3>1. t[1 - 1] \in D
      BY <1>3, <1>8
    <3>2. n > 0 => 1 \in 1 .. n
      BY <1>1
    <3> QED
      BY <2>1, <3>1, <3>2
  <2>3. \A k \in 1 .. n : k > 1 /\ k - 1 \in G => k \in G
    BY <2>1
  <2> HIDE DEF G
  <2>4. 1 .. n \subseteq G
    BY <1>1, <2>2, <2>3, Upwards
  <2> QED
    BY <1>1, <1>3, <1>8, <2>4 DEF G
<1> QED
  BY <1>8, <1>9, <1>10, <1>11 DEF IsRun, none

\* There is one way to take them.
LEMMA OneRun ==
  ASSUME NEW codec, NEW d, NEW octets \in Seq(Nat), NEW t, NEW u,
         IsRun(t, d, octets, codec), IsRun(u, d, octets, codec)
  PROVE  \A k \in 0 .. Len(octets) : t[k] = u[k]
<1> DEFINE n == Len(octets)
           G == {k \in 1 .. n : t[k] = u[k]}
<1>1. n \in Nat
  BY LenProperties
<1>2. ASSUME NEW k \in 1 .. n, t[k - 1] = u[k - 1] PROVE t[k] = u[k]
  BY <1>2 DEF IsRun
<1>3. t[0] = u[0]
  BY DEF IsRun
<1>4. n > 0 => 1 \in G
  <2>1. n > 0 => 1 \in 1 .. n /\ 1 - 1 = 0
    BY <1>1
  <2> QED
    BY <1>2, <1>3, <2>1
<1>5. \A k \in 1 .. n : k > 1 /\ k - 1 \in G => k \in G
  BY <1>2
<1> HIDE DEF G
<1>6. 1 .. n \subseteq G
  BY <1>1, <1>4, <1>5, Upwards
<1> QED
  BY <1>1, <1>3, <1>6 DEF G

\* Whatever takes the octets so is what Decode does.
LEMMA DecodeIs ==
  ASSUME NEW codec, IsCodec(codec), NEW octets \in Seq(Nat), NEW t,
         IsRun(t, Nothing(codec), octets, codec)
  PROVE  Decode(octets, codec) = t[Len(octets)]
<1>1. PICK u : /\ IsRun(u, Nothing(codec), octets, codec)
               /\ Decode(octets, codec) = u[Len(octets)]
  BY DecodeRuns
<1>2. Len(octets) \in 0 .. Len(octets)
  BY LenProperties
<1> QED
  BY <1>1, <1>2, OneRun

\* What is decoded is text, octets left over and a mode.
LEMMA DecodeType ==
  ASSUME NEW codec, IsCodec(codec), NEW octets \in Seq(Nat)
  PROVE  Decode(octets, codec) \in Decodings(codec)
<1>1. PICK u : /\ Decode(octets, codec) = u[Len(octets)]
               /\ \A k \in 0 .. Len(octets) : u[k] \in Decodings(codec)
  BY DecodeRuns
<1>2. Len(octets) \in 0 .. Len(octets)
  BY LenProperties
<1> QED
  BY <1>1, <1>2

\* More octets are taken from where those before left off.
LEMMA RunsOn ==
  ASSUME NEW codec, IsCodec(codec), NEW a \in Seq(Nat), NEW b \in Seq(Nat), NEW u,
         IsRun(u, Decode(a, codec), b, codec)
  PROVE  Decode(Cat(a, b), codec) = u[Len(b)]
<1> DEFINE m == Len(a)
           n == Len(b)
           o == Cat(a, b)
<1>1. /\ m \in Nat /\ n \in Nat /\ o \in Seq(Nat) /\ Len(o) = m + n
      /\ \A k \in 1 .. m : o[k] = a[k]
      /\ \A k \in 1 .. n : o[m + k] = b[k]
  <2>1. m \in Nat /\ n \in Nat
    BY LenProperties
  <2>2. o \in Seq(Nat) /\ Len(o) = m + n
    BY ConcatProperties DEF Cat
  <2>3. \A k \in 1 .. m + n : o[k] = IF k <= m THEN a[k] ELSE b[k - m]
    BY ConcatProperties DEF Cat
  <2> HIDE DEF m, n, o
  <2>4. \A k \in 1 .. m : o[k] = a[k]
    BY <2>1, <2>3
  <2>5. \A k \in 1 .. n : m + k \in 1 .. m + n /\ ~(m + k <= m) /\ (m + k) - m = k
    BY <2>1
  <2>6. \A k \in 1 .. n : o[m + k] = b[k]
    BY <2>3, <2>5
  <2> QED
    BY <2>1, <2>2, <2>4, <2>6
<1>2. PICK t : IsRun(t, Nothing(codec), a, codec) /\ Decode(a, codec) = t[m]
  BY DecodeRuns
<1> HIDE DEF o, m, n
<1> DEFINE v == [k \in 0 .. m + n |-> IF k <= m THEN t[k] ELSE u[k - m]]
<1>3. \A k \in 0 .. m : v[k] = t[k]
  BY <1>1
<1>4. \A k \in 0 .. n : v[m + k] = u[k]
  <2> TAKE k \in 0 .. n
  <2>1. CASE k = 0
    <3>1. u[0] = t[m]
      BY <1>2 DEF IsRun
    <3>2. m \in 0 .. m /\ m + k = m
      BY <1>1, <2>1
    <3> QED
      BY <1>3, <2>1, <3>1, <3>2
  <2>2. CASE k # 0
    <3>1. m + k \in 0 .. m + n /\ ~(m + k <= m) /\ (m + k) - m = k
      BY <1>1, <2>2
    <3> QED
      BY <3>1
  <2> QED
    BY <2>1, <2>2
<1> HIDE DEF v
<1>5. IsRun(v, Nothing(codec), o, codec)
  <2>1. v[0] = Nothing(codec)
    <3>1. 0 \in 0 .. m
      BY <1>1
    <3> QED
      BY <1>2, <1>3, <3>1 DEF IsRun
  <2>2. ASSUME NEW k \in 1 .. m PROVE v[k] = Taken(codec, v[k - 1], o[k])
    <3>1. k \in 0 .. m /\ k - 1 \in 0 .. m
      BY <1>1
    <3>2. t[k] = Taken(codec, t[k - 1], a[k])
      BY <1>2 DEF IsRun, m
    <3> QED
      BY <1>1, <1>3, <3>1, <3>2
  <2>3. ASSUME NEW k \in 1 .. n PROVE v[m + k] = Taken(codec, v[m + (k - 1)], o[m + k])
    <3>1. k \in 0 .. n /\ k - 1 \in 0 .. n
      BY <1>1
    <3>2. u[k] = Taken(codec, u[k - 1], b[k])
      BY DEF IsRun, n
    <3> QED
      BY <1>1, <1>4, <3>1, <3>2
  <2>4. ASSUME NEW k \in 1 .. m + n PROVE v[k] = Taken(codec, v[k - 1], o[k])
    <3>1. CASE k <= m
      <4>1. k \in 1 .. m
        BY <1>1, <3>1
      <4> QED
        BY <2>2, <4>1
    <3>2. CASE ~(k <= m)
      <4>1. k - m \in 1 .. n /\ m + (k - m) = k /\ m + ((k - m) - 1) = k - 1
        BY <1>1, <3>2
      <4>2. v[m + (k - m)] = Taken(codec, v[m + ((k - m) - 1)], o[m + (k - m)])
        BY <2>3, <4>1
      <4> QED
        BY <4>1, <4>2
    <3> QED
      BY <3>1, <3>2
  <2> QED
    BY <1>1, <2>1, <2>4 DEF IsRun
<1>6. Decode(o, codec) = v[m + n]
  BY <1>1, <1>5, DecodeIs
<1>7. n \in 0 .. n
  BY <1>1
<1> QED
  BY <1>4, <1>6, <1>7 DEF o, n

\* What is decoded after text, which was decoded whole.
After(text, d) == Decoding(Cat(text, d.text), d.rest, d.mode)

\* Taking an octet does not depend on the text before.
LEMMA TakenAfter ==
  ASSUME NEW codec, IsCodec(codec), NEW text \in Seq(Alphabet(codec)), NEW d \in Decodings(codec),
         NEW octet \in Nat
  PROVE  Taken(codec, After(text, d), octet) = After(text, Taken(codec, d, octet))
<1>1. PICK x, y, m : x = d.text /\ y = d.rest /\ m = d.mode
  OBVIOUS
<1>2. d = Decoding(x, y, m) /\ x \in Seq(Alphabet(codec))
  BY <1>1, DecodingsAre
<1>3. PICK z, word : z = Cat(text, x) /\ word = Append(y, octet)
  OBVIOUS
<1>4. After(text, d) = Decoding(z, y, m)
  BY <1>1, <1>3 DEF After
<1>5. CASE <<m, word>> \in Words(codec)
  <2>1. PICK u, n : u = codec.reads[<<m, word>>].text /\ n = codec.reads[<<m, word>>].mode
    OBVIOUS
  <2>2. Taken(codec, d, octet) = Decoding(Cat(x, u), << >>, n)
    BY <1>2, <1>3, <1>5, <2>1, TakenIs
  <2>3. Taken(codec, After(text, d), octet) = Decoding(Cat(z, u), << >>, n)
    BY <1>3, <1>4, <1>5, <2>1, TakenIs
  <2>4. u \in Seq(Alphabet(codec))
    BY <1>5, <2>1, ReadsWords
  <2>5. Cat(z, u) = Cat(text, Cat(x, u))
    BY <1>2, <1>3, <2>4, CatAssociative
  <2>6. After(text, Decoding(Cat(x, u), << >>, n)) = Decoding(Cat(text, Cat(x, u)), << >>, n)
    BY DecodingFields DEF After
  <2> QED
    BY <2>2, <2>3, <2>5, <2>6
<1>6. CASE <<m, word>> \notin Words(codec)
  <2>1. Taken(codec, d, octet) = Decoding(x, word, m)
    BY <1>2, <1>3, <1>6, TakenIs
  <2>2. Taken(codec, After(text, d), octet) = Decoding(z, word, m)
    BY <1>3, <1>4, <1>6, TakenIs
  <2>3. After(text, Decoding(x, word, m)) = Decoding(z, word, m)
    BY <1>3, DecodingFields DEF After
  <2> QED
    BY <2>1, <2>2, <2>3
<1> QED
  BY <1>5, <1>6

\* Octets behind octets that are decoded whole, and leave the codec in its first
\* mode, are decoded for themselves.
LEMMA DecodeCat ==
  ASSUME NEW codec, IsCodec(codec), NEW a \in Seq(Nat), NEW b \in Seq(Nat), NEW x,
         Decode(a, codec) = Decoding(x, << >>, codec.start)
  PROVE  Decode(Cat(a, b), codec) = After(x, Decode(b, codec))
<1> DEFINE n == Len(b)
<1>1. n \in Nat
  BY LenProperties
<1>2. PICK t : /\ IsRun(t, Nothing(codec), b, codec) /\ Decode(b, codec) = t[n]
               /\ \A k \in 0 .. n : t[k] \in Decodings(codec)
  BY DecodeRuns
<1>3. x \in Seq(Alphabet(codec))
  <2>1. Decode(a, codec) \in Decodings(codec)
    BY DecodeType
  <2> QED
    BY <2>1, DecodingsAre, DecodingFields
<1> DEFINE u == [k \in 0 .. n |-> After(x, t[k])]
<1>4. \A k \in 0 .. n : u[k] = After(x, t[k])
  OBVIOUS
<1> HIDE DEF u
<1>5. u[0] = Decode(a, codec)
  <2>1. t[0] = Decoding(<< >>, << >>, codec.start)
    BY <1>2 DEF IsRun, Nothing, Decoding
  <2>2. After(x, t[0]) = Decoding(Cat(x, << >>), << >>, codec.start)
    BY <2>1, DecodingFields DEF After
  <2>3. Cat(x, << >>) = x
    BY <1>3 DEF Cat
  <2>4. 0 \in 0 .. n
    BY <1>1
  <2> QED
    BY <1>4, <2>2, <2>3, <2>4
<1>6. ASSUME NEW k \in 1 .. n PROVE u[k] = Taken(codec, u[k - 1], b[k])
  <2>1. k \in 0 .. n /\ k - 1 \in 0 .. n
    BY <1>1
  <2>2. t[k] = Taken(codec, t[k - 1], b[k])
    BY <1>2 DEF IsRun
  <2>3. b[k] \in Nat
    BY ElementOfSeq
  <2>4. Taken(codec, After(x, t[k - 1]), b[k]) = After(x, Taken(codec, t[k - 1], b[k]))
    BY <1>2, <1>3, <2>1, <2>3, TakenAfter
  <2> QED
    BY <1>4, <2>1, <2>2, <2>4
<1>7. IsRun(u, Decode(a, codec), b, codec)
  BY <1>5, <1>6 DEF IsRun
<1>8. n \in 0 .. n
  BY <1>1
<1> QED
  BY <1>2, <1>4, <1>7, <1>8, RunsOn

\* The first k of a sequence, and one more.
LEMMA FirstOf ==
  ASSUME NEW S, NEW w \in Seq(S), NEW k \in 0 .. Len(w)
  PROVE  /\ SubSeq(w, 1, k) \in Seq(S) /\ Len(SubSeq(w, 1, k)) = k
         /\ \A i \in 1 .. k : SubSeq(w, 1, k)[i] = w[i]
<1>1. Len(w) \in Nat /\ \A i \in 1 .. Len(w) : w[i] \in S
  BY LenProperties, ElementOfSeq
<1>2. k \in Nat /\ \A i \in 1 .. k : w[i] \in S
  BY <1>1
<1>3. /\ SubSeq(w, 1, k) \in Seq(S) /\ Len(SubSeq(w, 1, k)) = IF 1 <= k THEN k - 1 + 1 ELSE 0
      /\ \A i \in 1 .. k - 1 + 1 : SubSeq(w, 1, k)[i] = w[1 + i - 1]
  BY <1>2, SubSeqProperties
<1> QED
  BY <1>2, <1>3

\* The first k are one more than the first k - 1.
LEMMA OneMore ==
  ASSUME NEW S, NEW w \in Seq(S), NEW k \in 1 .. Len(w)
  PROVE  SubSeq(w, 1, k) = Append(SubSeq(w, 1, k - 1), w[k])
<1>1. Len(w) \in Nat /\ w[k] \in S
  BY LenProperties, ElementOfSeq
<1>2. 1 \in 1 .. Len(w) /\ k \in 1 .. Len(w) /\ k - 1 \in 0 .. Len(w)
  BY <1>1
<1>3. SubSeq(w, 1, k) = SubSeq(w, 1, k - 1) \o << w[k] >>
  BY <1>2, SubSeqRecursiveSecond
<1>4. SubSeq(w, 1, k - 1) \in Seq(S)
  BY <1>2, FirstOf
<1> QED
  BY <1>1, <1>3, <1>4, AppendIsConcat

\* FlattenSeq of the first k, step by step.
LEMMA FlattenFirst ==
  ASSUME NEW S, NEW s \in Seq(Seq(S))
  PROVE  /\ FlattenSeq(SubSeq(s, 1, 0)) = << >> /\ FlattenSeq(SubSeq(s, 1, Len(s))) = FlattenSeq(s)
         /\ \A k \in 0 .. Len(s) : FlattenSeq(SubSeq(s, 1, k)) \in Seq(S)
         /\ \A k \in 1 .. Len(s) :
              FlattenSeq(SubSeq(s, 1, k)) = Cat(FlattenSeq(SubSeq(s, 1, k - 1)), s[k])
<1> DEFINE T == Seq(S)
<1>1. s \in Seq(T) /\ Len(s) \in Nat
  BY LenProperties
<1> HIDE DEF T
<1>2. \A k \in 0 .. Len(s) : SubSeq(s, 1, k) \in Seq(T)
  BY <1>1, FirstOf
<1>3. \A k \in 1 .. Len(s) : SubSeq(s, 1, k) = Append(SubSeq(s, 1, k - 1), s[k]) /\ s[k] \in T
  BY <1>1, OneMore, ElementOfSeq
<1>4. SubSeq(s, 1, Len(s)) = s
  BY <1>1, SubSeqFull
<1>5. FlattenSeq(SubSeq(s, 1, 0)) = << >>
  <2>1. SubSeq(s, 1, 0) = << >>
    BY SubSeqEmpty
  <2> QED
    BY <2>1, FlattenEmpty
<1>6. \A k \in 0 .. Len(s) : FlattenSeq(SubSeq(s, 1, k)) \in Seq(S)
  <2> TAKE k \in 0 .. Len(s)
  <2>1. PICK a : a = SubSeq(s, 1, k)
    OBVIOUS
  <2>2. a \in Seq(Seq(S))
    BY <1>2, <2>1 DEF T
  <2> QED
    BY <2>1, <2>2, FlattenType
<1>7. \A k \in 1 .. Len(s) :
        FlattenSeq(SubSeq(s, 1, k)) = Cat(FlattenSeq(SubSeq(s, 1, k - 1)), s[k])
  <2> TAKE k \in 1 .. Len(s)
  <2>1. PICK a, x : a = SubSeq(s, 1, k - 1) /\ x = s[k]
    OBVIOUS
  <2>2. k - 1 \in 0 .. Len(s)
    BY <1>1
  <2>3. a \in Seq(Seq(S)) /\ x \in Seq(S)
    BY <1>2, <1>3, <2>1, <2>2 DEF T
  <2>4. FlattenSeq(Append(a, x)) = FlattenSeq(a) \o x
    BY <2>3, FlattenAppend
  <2> QED
    BY <1>3, <2>1, <2>4 DEF Cat
<1> QED
  BY <1>4, <1>5, <1>6, <1>7

\* Octets that are a word, in the mode reached, are read as that word, since no
\* shorter one is the beginning of it.
LEMMA DecodeWord ==
  ASSUME NEW codec, IsCodec(codec), NEW a \in Seq(Nat), NEW s, NEW r \in Words(codec),
         Decode(a, codec) = Decoding(s, << >>, r[1])
  PROVE  Decode(Cat(a, r[2]), codec)
           = Decoding(Cat(s, codec.reads[r].text), << >>, codec.reads[r].mode)
<1>1. PICK w, n, m, z : /\ w = r[2] /\ n = Len(w) /\ m = r[1]
                        /\ z = Decoding(Cat(s, codec.reads[r].text), << >>, codec.reads[r].mode)
  OBVIOUS
<1>2. /\ w \in Seq(Nat) /\ w # << >> /\ r = <<m, w>>
      /\ \A q \in Words(codec) : q[1] = m /\ IsPrefix(q[2], w) => q = r
  BY <1>1, ReadsWords
<1>3. n \in Nat /\ n >= 1
  BY <1>1, <1>2, EmptySeq
<1> DEFINE u == [k \in 0 .. n |-> IF k < n THEN Decoding(s, SubSeq(w, 1, k), m) ELSE z]
<1>4. u[0] = Decode(a, codec)
  <2>1. 0 \in 0 .. n /\ 0 < n
    BY <1>3
  <2>2. SubSeq(w, 1, 0) = << >>
    BY SubSeqEmpty
  <2> QED
    BY <1>1, <2>1, <2>2
<1>5. ASSUME NEW k \in 1 .. n PROVE u[k] = Taken(codec, u[k - 1], w[k])
  <2>1. k - 1 \in 0 .. n /\ k - 1 < n /\ k \in 0 .. n /\ k \in 1 .. Len(w)
    BY <1>1, <1>3
  <2>2. PICK v, x : v = SubSeq(w, 1, k) /\ x = SubSeq(w, 1, k - 1)
    OBVIOUS
  <2>3. u[k - 1] = Decoding(s, x, m)
    BY <2>1, <2>2
  <2>4. Append(x, w[k]) = v
    BY <1>2, <2>1, <2>2, OneMore
  <2>5. v \in Seq(Nat) /\ Len(v) = k
    BY <1>1, <1>2, <2>1, <2>2, FirstOf
  <2>6. Taken(codec, Decoding(s, x, m), w[k]) =
          IF <<m, v>> \in Words(codec)
          THEN Decoding(Cat(s, codec.reads[<<m, v>>].text), << >>, codec.reads[<<m, v>>].mode)
          ELSE Decoding(s, v, m)
    <3>1. Taken(codec, Decoding(s, x, m), w[k]) =
            IF <<m, Append(x, w[k])>> \in Words(codec)
            THEN Decoding(Cat(s, codec.reads[<<m, Append(x, w[k])>>].text), << >>,
                          codec.reads[<<m, Append(x, w[k])>>].mode)
            ELSE Decoding(s, Append(x, w[k]), m)
      BY TakenIs
    <3> QED
      BY <2>4, <3>1
  <2>7. CASE k = n
    <3>1. v = w
      BY <1>1, <1>2, <2>2, <2>7, SubSeqFull
    <3>2. <<m, v>> = r
      BY <1>2, <3>1
    <3>3. u[k] = z
      BY <2>1, <2>7
    <3> HIDE DEF u
    <3> QED
      BY <1>1, <2>3, <2>6, <3>2, <3>3
  <2>8. CASE k # n
    <3>1. <<m, v>> \notin Words(codec)
      <4> SUFFICES ASSUME <<m, v>> \in Words(codec) PROVE FALSE
        OBVIOUS
      <4>1. SubSeq(v, 1, Len(v)) = v
        BY <2>5, SubSeqFull
      <4>2. IsPrefix(v, w)
        BY <1>1, <2>1, <2>2, <2>5, <4>1 DEF IsPrefix
      <4>3. PICK q : q = <<m, v>>
        OBVIOUS
      <4>4. q[1] = m /\ q[2] = v
        BY <4>3
      <4>5. q = r
        BY <1>2, <4>2, <4>3, <4>4
      <4>6. v = w
        BY <1>1, <4>4, <4>5
      <4> QED
        BY <1>1, <2>5, <2>8, <4>6
    <3>2. k < n
      BY <1>3, <2>8
    <3>3. u[k] = Decoding(s, v, m)
      BY <2>1, <2>2, <3>2
    <3> HIDE DEF u
    <3> QED
      BY <2>3, <2>6, <3>1, <3>3
  <2> QED
    BY <2>7, <2>8
<1>6. n \in 0 .. n /\ u[n] = z
  BY <1>3
<1> HIDE DEF u
<1>7. IsRun(u, Decode(a, codec), w, codec)
  BY <1>1, <1>4, <1>5 DEF IsRun
<1>8. Decode(Cat(a, w), codec) = u[Len(w)]
  BY <1>2, <1>7, RunsOn
<1> QED
  BY <1>1, <1>6, <1>8

\* The octets that shift leave the text as it is.
LEMMA DecodeShift ==
  ASSUME NEW codec, IsCodec(codec), NEW a \in Seq(Nat), NEW s,
         NEW m \in Modes(codec), NEW n \in Modes(codec),
         Decode(a, codec) = Decoding(s, << >>, m)
  PROVE  /\ Decode(Cat(a, Shift(m, n, codec)), codec) = Decoding(s, << >>, n)
         /\ Cat(a, Shift(m, n, codec)) \in Seq(Nat)
<1>1. PICK x : x = Shift(m, n, codec)
  OBVIOUS
<1>2. x \in Seq(Nat)
  BY <1>1, ShiftType, OctetsAreNumbers
<1>3. Cat(a, x) \in Seq(Nat)
  BY <1>2, ConcatProperties DEF Cat
<1>4. CASE m = n
  <2>1. x = << >>
    BY <1>1, <1>4 DEF Shift
  <2>2. Cat(a, x) = a
    BY <2>1, ConcatEmptySeq DEF Cat
  <2> QED
    BY <1>1, <1>3, <1>4, <2>2
<1>5. CASE m # n
  <2>1. x = codec.shift[n]
    BY <1>1, <1>5 DEF Shift
  <2>2. PICK r : r = <<m, x>>
    OBVIOUS
  <2>3. r \in Words(codec) /\ codec.reads[r].text = << >> /\ codec.reads[r].mode = n
    BY <1>5, <2>1, <2>2 DEF IsCodec
  <2>4. r[1] = m /\ r[2] = x
    BY <2>2
  <2>5. Decode(Cat(a, x), codec) = Decoding(Cat(s, << >>), << >>, n)
    BY <2>3, <2>4, DecodeWord
  <2>6. s \in Seq(Alphabet(codec))
    <3>1. Decode(a, codec) \in Decodings(codec)
      BY DecodeType
    <3> QED
      BY <3>1, DecodingsAre, DecodingFields
  <2>7. Cat(s, << >>) = s
    BY <2>6, ConcatEmptySeq DEF Cat
  <2> QED
    BY <1>1, <1>3, <2>5, <2>7
<1> QED
  BY <1>4, <1>5

\* The beginning of a text.
FirstChars(text, k) == SubSeq(text, 1, k)

\* What is written of the first characters is what is written first.
LEMMA WrittenFirst ==
  ASSUME NEW codec, IsCodec(codec), NEW text, IsText(text, codec), NEW k \in 0 .. Len(text)
  PROVE  Written(FirstChars(text, k), codec) = FlattenSeq(SubSeq(Pieces(text, codec), 1, k))
<1>1. PICK a, p, q, n : /\ a = FirstChars(text, k) /\ p = Pieces(text, codec)
                        /\ q = Pieces(a, codec) /\ n = Len(text)
  OBVIOUS
<1>2. text \in Seq(Chars(codec)) /\ n \in Nat /\ k \in 0 .. n /\ DOMAIN text = 1 .. n
  BY <1>1, TextModes DEF IsText
<1>3. a \in Seq(Chars(codec)) /\ Len(a) = k /\ \A i \in 1 .. k : a[i] = text[i]
  BY <1>1, <1>2, FirstOf DEF FirstChars
<1>4. DOMAIN a = 1 .. k
  BY <1>2, <1>3, LenProperties
<1>5. IsText(a, codec)
  BY <1>3 DEF IsText
<1>6. Written(a, codec) = FlattenSeq(q) /\ q \in Seq(Seq(Nat)) /\ Len(q) = k
  BY <1>1, <1>3, <1>5, WrittenIs
<1>7. p \in Seq(Seq(Nat)) /\ Len(p) = n
  BY <1>1, WrittenIs
<1> DEFINE T == Seq(Nat)
<1>8. q \in Seq(T) /\ p \in Seq(T)
  BY <1>6, <1>7
<1> HIDE DEF T
<1>9. PICK b : b = SubSeq(p, 1, k)
  OBVIOUS
<1>10. b \in Seq(T) /\ Len(b) = k /\ \A i \in 1 .. k : b[i] = p[i]
  BY <1>2, <1>7, <1>8, <1>9, FirstOf
<1>11. ASSUME NEW i \in 1 .. k PROVE q[i] = p[i]
  <2>1. i \in 1 .. n /\ (i - 1 = 0 \/ i - 1 \in 1 .. k) /\ i # 0
    BY <1>2
  <2>2. ModeAfter(a, i, codec) = ModeAfter(text, i, codec)
    BY <1>3, <2>1 DEF ModeAfter
  <2>3. ModeAfter(a, i - 1, codec) = ModeAfter(text, i - 1, codec)
    BY <1>3, <2>1 DEF ModeAfter
  <2>4. Piece(a, i, codec) = Piece(text, i, codec)
    BY <1>3, <2>2, <2>3 DEF Piece
  <2>5. q[i] = Piece(a, i, codec) /\ p[i] = Piece(text, i, codec)
    BY <1>1, <1>2, <1>4, <2>1 DEF Pieces
  <2> QED
    BY <2>4, <2>5
<1>12. q = b
  BY <1>6, <1>8, <1>10, <1>11, SeqEqual
<1> QED
  BY <1>1, <1>6, <1>9, <1>12

\* Characters are written one by one.
LEMMA WriteSteps ==
  ASSUME NEW codec, IsCodec(codec), NEW text, IsText(text, codec)
  PROVE  /\ FirstChars(text, 0) = << >> /\ Written(FirstChars(text, 0), codec) = << >>
         /\ FirstChars(text, Len(text)) = text
         /\ \A k \in 0 .. Len(text) : Written(FirstChars(text, k), codec) \in Seq(Nat)
         /\ \A k \in 1 .. Len(text) :
              /\ Written(FirstChars(text, k), codec)
                   = Cat(Written(FirstChars(text, k - 1), codec), Piece(text, k, codec))
              /\ FirstChars(text, k) = Cat(FirstChars(text, k - 1), << text[k] >>)
              /\ Piece(text, k, codec) \in Seq(Nat)
<1>1. PICK p, n : p = Pieces(text, codec) /\ n = Len(text)
  OBVIOUS
<1>2. text \in Seq(Chars(codec)) /\ n \in Nat /\ DOMAIN text = 1 .. n
      /\ \A i \in 1 .. n : text[i] \in Chars(codec)
  BY <1>1, TextModes DEF IsText
<1>3. p \in Seq(Seq(Nat)) /\ Len(p) = n
  BY <1>1, WrittenIs
<1>4. \A k \in 0 .. n : Written(FirstChars(text, k), codec) = FlattenSeq(SubSeq(p, 1, k))
  BY <1>1, WrittenFirst
<1>5. /\ FlattenSeq(SubSeq(p, 1, 0)) = << >>
      /\ \A k \in 0 .. n : FlattenSeq(SubSeq(p, 1, k)) \in Seq(Nat)
      /\ \A k \in 1 .. n :
           FlattenSeq(SubSeq(p, 1, k)) = Cat(FlattenSeq(SubSeq(p, 1, k - 1)), p[k])
  BY <1>3, FlattenFirst
<1>6. FirstChars(text, 0) = << >> /\ FirstChars(text, n) = text
  BY <1>1, <1>2, SubSeqEmpty, SubSeqFull DEF FirstChars
<1>7. 0 \in 0 .. n /\ \A k \in 1 .. n : k \in 0 .. n /\ k - 1 \in 0 .. n
  BY <1>2
<1>8. \A k \in 1 .. n : p[k] = Piece(text, k, codec) /\ p[k] \in Seq(Nat)
  <2> DEFINE T == Seq(Nat)
  <2>1. p \in Seq(T)
    BY <1>3
  <2> HIDE DEF T
  <2>2. \A k \in 1 .. n : p[k] \in T
    BY <1>3, <2>1, ElementOfSeq
  <2> QED
    BY <1>1, <1>2, <2>2 DEF T, Pieces
<1>9. ASSUME NEW k \in 1 .. n
      PROVE  FirstChars(text, k) = Cat(FirstChars(text, k - 1), << text[k] >>)
  <2>1. PICK a, c : a = FirstChars(text, k - 1) /\ c = text[k]
    OBVIOUS
  <2>2. a \in Seq(Chars(codec)) /\ c \in Chars(codec)
    BY <1>1, <1>2, <1>7, <2>1, FirstOf DEF FirstChars
  <2>3. FirstChars(text, k) = Append(a, c)
    BY <1>1, <1>2, <2>1, OneMore DEF FirstChars
  <2>4. Append(a, c) = Cat(a, << c >>)
    BY <2>2, AppendIsConcat DEF Cat
  <2> QED
    BY <2>1, <2>3, <2>4
<1> QED
  BY <1>1, <1>4, <1>5, <1>6, <1>7, <1>8, <1>9

\* Nothing is decoded to nothing.
LEMMA DecodeNothing ==
  ASSUME NEW codec, IsCodec(codec)
  PROVE  Decode(<< >>, codec) = Decoding(<< >>, << >>, codec.start)
<1>1. << >> \in Seq(Nat) /\ Len(<< >>) = 0
  BY EmptySeq
<1>2. PICK t : IsRun(t, Nothing(codec), << >>, codec) /\ Decode(<< >>, codec) = t[Len(<< >>)]
  BY <1>1, DecodeRuns
<1> QED
  BY <1>1, <1>2 DEF IsRun, Nothing, Decoding

\* Decoding undoes writing, for the whole of a text that is read back and for any
\* beginning of it.
LEMMA DecodeWritten ==
  ASSUME NEW codec, IsCodec(codec), NEW text, IsText(text, codec), ReadsBack(text, codec),
         NEW k \in 0 .. Len(text)
  PROVE  Decode(Written(FirstChars(text, k), codec), codec)
           = Decoding(FirstChars(text, k), << >>, ModeAfter(text, k, codec))
<1> DEFINE n == Len(text)
           W(i) == Written(FirstChars(text, i), codec)
           P(i) == Decode(W(i), codec)
                     = Decoding(FirstChars(text, i), << >>, ModeAfter(text, i, codec))
           G == {i \in 1 .. n : P(i)}
<1>1. n \in Nat /\ DOMAIN text = 1 .. n
  BY TextModes
<1>2. P(0)
  <2>1. FirstChars(text, 0) = << >> /\ W(0) = << >>
    BY WriteSteps
  <2> QED
    BY <2>1, DecodeNothing DEF ModeAfter
<1>3. ASSUME NEW i \in 1 .. n, P(i - 1) PROVE P(i)
  <2>1. i - 1 \in 0 .. n /\ i \in 0 .. n /\ i # 0
    BY <1>1
  <2>2. PICK a, s, c, m, l, x, y :
          /\ a = W(i - 1) /\ s = FirstChars(text, i - 1) /\ c = text[i]
          /\ l = ModeAfter(text, i - 1, codec) /\ m = ModeAfter(text, i, codec)
          /\ x = Shift(l, m, codec) /\ y = codec.word[c]
    OBVIOUS
  <2>3. a \in Seq(Nat) /\ Decode(a, codec) = Decoding(s, << >>, l)
    BY <1>3, <2>1, <2>2, WriteSteps
  <2>4. W(i) = Cat(a, Piece(text, i, codec)) /\ FirstChars(text, i) = Cat(s, << c >>)
    BY <2>2, WriteSteps
  <2>5. Piece(text, i, codec) = Cat(x, y)
    BY <2>2 DEF Piece, Cat
  <2>6. l \in Modes(codec) /\ m \in Modes(codec)
    BY <2>1, <2>2, TextModes
  <2>7. Decode(Cat(a, x), codec) = Decoding(s, << >>, m) /\ Cat(a, x) \in Seq(Nat)
    BY <2>2, <2>3, <2>6, DecodeShift
  <2>8. PICK r : r = <<m, y>>
    OBVIOUS
  <2>9. r \in Words(codec) /\ codec.reads[r].text = << c >> /\ codec.reads[r].mode = m
    <3>1. c \in ToSet(text)
      BY <1>1, <2>2 DEF ToSet
    <3>2. m = codec.mode[c]
      BY <2>1, <2>2 DEF ModeAfter
    <3> QED
      BY <2>2, <2>8, <3>1, <3>2 DEF ReadsBack
  <2>10. r[1] = m /\ r[2] = y
    BY <2>8
  <2>11. Decode(Cat(Cat(a, x), y), codec) = Decoding(Cat(s, << c >>), << >>, m)
    <3>1. PICK d : d = Cat(a, x)
      OBVIOUS
    <3>2. Decode(Cat(d, r[2]), codec)
            = Decoding(Cat(s, codec.reads[r].text), << >>, codec.reads[r].mode)
      BY <2>7, <2>9, <2>10, <3>1, DecodeWord
    <3> QED
      BY <2>9, <2>10, <3>1, <3>2
  <2>12. Cat(Cat(a, x), y) = Cat(a, Cat(x, y))
    <3>1. x \in Seq(Nat)
      BY <2>2, <2>6, ShiftType, OctetsAreNumbers
    <3>2. y \in Seq(Nat)
      BY <2>2, TextModes, OctetsAreNumbers DEF IsCodec
    <3> QED
      BY <2>3, <3>1, <3>2, CatAssociative
  <2> HIDE DEF W
  <2> QED
    BY <2>2, <2>4, <2>5, <2>11, <2>12
<1> HIDE DEF P
<1>4. n > 0 => 1 \in G
  <2>1. n > 0 => 1 \in 1 .. n /\ 1 - 1 = 0
    BY <1>1
  <2> QED
    BY <1>2, <1>3, <2>1
<1>5. \A i \in 1 .. n : i > 1 /\ i - 1 \in G => i \in G
  BY <1>3
<1> HIDE DEF G
<1>6. 1 .. n \subseteq G
  BY <1>1, <1>4, <1>5, Upwards
<1>7. k = 0 \/ k \in 1 .. n
  BY <1>1
<1>8. P(k)
  BY <1>2, <1>6, <1>7 DEF G
<1> QED
  BY <1>8 DEF P

\* What is encoded of a text that is read back is decoded to it, and nothing is left
\* over.
LEMMA DecodeEncodes ==
  ASSUME NEW codec, IsCodec(codec), NEW text, IsText(text, codec), ReadsBack(text, codec)
  PROVE  Decode(Encode(text, codec), codec) = Decoding(text, << >>, codec.start)
<1>1. PICK n, m, w : /\ n = Len(text) /\ m = ModeAfter(text, n, codec)
                     /\ w = Written(text, codec)
  OBVIOUS
<1>2. n \in 0 .. n /\ m \in Modes(codec) /\ codec.start \in Modes(codec)
  <2>1. n \in Nat
    BY <1>1, TextModes
  <2>2. n \in 0 .. n
    BY <2>1
  <2> QED
    BY <1>1, <2>2, TextModes DEF Modes
<1>3. FirstChars(text, n) = text /\ w \in Seq(Nat)
  BY <1>1, <1>2, WriteSteps
<1>4. Decode(w, codec) = Decoding(text, << >>, m)
  BY <1>1, <1>2, <1>3, DecodeWritten
<1>5. Decode(Cat(w, Shift(m, codec.start, codec)), codec) = Decoding(text, << >>, codec.start)
  BY <1>2, <1>3, <1>4, DecodeShift
<1> QED
  BY <1>1, <1>5 DEF Encode, Cat

\* What is written of the beginning of a text begins what it is encoded to.
LEMMA EncodeBegins ==
  ASSUME NEW codec, IsCodec(codec), NEW text, IsText(text, codec), NEW k \in 0 .. Len(text)
  PROVE  \E r \in Seq(Nat) : Encode(text, codec) = Cat(Written(FirstChars(text, k), codec), r)
<1> DEFINE n == Len(text)
           W(i) == Written(FirstChars(text, i), codec)
           P(i) == \E r \in Seq(Nat) : W(i) = Cat(W(k), r)
           G == {i \in 1 .. n : i < k \/ P(i)}
<1>1. n \in Nat
  BY TextModes
<1>2. W(k) \in Seq(Nat)
  BY WriteSteps
<1>3. P(k)
  <2>1. PICK a : a = W(k)
    OBVIOUS
  <2>2. << >> \in Seq(Nat) /\ a = Cat(a, << >>)
    BY <1>2, <2>1, EmptySeq, ConcatEmptySeq DEF Cat
  <2> QED
    BY <2>1, <2>2
<1>4. ASSUME NEW i \in 1 .. n, P(i - 1) PROVE P(i)
  <2>1. PICK r \in Seq(Nat) : W(i - 1) = Cat(W(k), r)
    BY <1>4
  <2>2. PICK a, b : a = W(k) /\ b = Piece(text, i, codec)
    OBVIOUS
  <2>3. a \in Seq(Nat) /\ b \in Seq(Nat) /\ W(i) = Cat(Cat(a, r), b)
    BY <1>2, <2>1, <2>2, WriteSteps
  <2>4. Cat(Cat(a, r), b) = Cat(a, Cat(r, b))
    BY <2>3, CatAssociative
  <2>5. Cat(r, b) \in Seq(Nat)
    BY <2>3, ConcatProperties DEF Cat
  <2>6. W(i) = Cat(W(k), Cat(r, b))
    BY <2>2, <2>3, <2>4
  <2> QED
    BY <2>5, <2>6
<1> HIDE DEF P
<1>5. ASSUME NEW i \in 1 .. n, i - 1 < k \/ P(i - 1) PROVE i < k \/ P(i)
  <2>1. CASE i - 1 < k
    <3>1. i < k \/ i = k
      BY <1>1, <2>1
    <3> QED
      BY <1>3, <3>1
  <2>2. CASE P(i - 1)
    BY <1>4, <2>2
  <2> QED
    BY <1>5, <2>1, <2>2
<1>6. n > 0 => 1 \in G
  <2>1. n > 0 => 1 \in 1 .. n /\ 1 - 1 = 0
    BY <1>1
  <2>2. 0 < k \/ k = 0
    BY <1>1
  <2>3. 0 < k \/ P(0)
    BY <1>3, <2>2
  <2> QED
    BY <1>5, <2>1, <2>3
<1>7. \A i \in 1 .. n : i > 1 /\ i - 1 \in G => i \in G
  BY <1>5
<1> HIDE DEF G
<1>8. 1 .. n \subseteq G
  BY <1>1, <1>6, <1>7, Upwards
<1>9. P(n)
  <2>1. n = k \/ (n \in 1 .. n /\ ~(n < k))
    BY <1>1
  <2> QED
    BY <1>3, <1>8, <2>1 DEF G
<1>10. PICK r \in Seq(Nat) : Written(text, codec) = Cat(W(k), r)
  <2>1. FirstChars(text, n) = text
    BY WriteSteps
  <2> QED
    BY <1>9, <2>1 DEF P
<1>11. PICK a, x : a = W(k) /\ x = Shift(ModeAfter(text, n, codec), codec.start, codec)
  OBVIOUS
<1>12. x \in Seq(Nat) /\ a \in Seq(Nat)
  BY <1>2, <1>11, EncodeType, OctetsAreNumbers
<1>13. Encode(text, codec) = Cat(Cat(a, r), x)
  BY <1>10, <1>11 DEF Encode, Cat
<1>14. Cat(Cat(a, r), x) = Cat(a, Cat(r, x))
  BY <1>12, CatAssociative
<1>15. Cat(r, x) \in Seq(Nat)
  BY <1>12, ConcatProperties DEF Cat
<1> QED
  BY <1>11, <1>13, <1>14, <1>15

\* b is decoded for itself behind an a that is decoded whole.
LEMMA DecodeBoth ==
  ASSUME NEW codec, IsCodec(codec), NEW a \in Seq(Nat), NEW b \in Seq(Nat), NEW s,
         Decode(a, codec) = Decoding(s, << >>, codec.start)
  PROVE  /\ \A t, m : Decode(b, codec) = Decoding(t, << >>, m)
                        => Decode(Cat(a, b), codec) = Decoding(Cat(s, t), << >>, m)
         /\ Decode(Cat(a, b), codec).rest = Decode(b, codec).rest
         /\ Decode(Cat(a, b), codec).mode = Decode(b, codec).mode
<1>1. Decode(Cat(a, b), codec) = After(s, Decode(b, codec))
  BY DecodeCat
<1> QED
  BY <1>1 DEF After, Decoding

\* Parts that are decoded one by one, with nothing left over, are decoded together.
LEMMA DecodeParts ==
  ASSUME NEW codec, IsCodec(codec), NEW parts \in Seq(Seq(Nat)),
         NEW texts \in Seq(Seq(Alphabet(codec))),
         Len(texts) = Len(parts),
         \A i \in 1 .. Len(parts) : Decode(parts[i], codec) = Decoding(texts[i], << >>, codec.start)
  PROVE  Decode(FlattenSeq(parts), codec) = Decoding(FlattenSeq(texts), << >>, codec.start)
<1> DEFINE n == Len(parts)
           A(i) == FlattenSeq(SubSeq(parts, 1, i))
           B(i) == FlattenSeq(SubSeq(texts, 1, i))
           P(i) == Decode(A(i), codec) = Decoding(B(i), << >>, codec.start)
           G == {i \in 1 .. n : P(i)}
<1>1. n \in Nat /\ Len(texts) = n
  BY LenProperties
<1>2. /\ A(0) = << >> /\ A(n) = FlattenSeq(parts)
      /\ \A i \in 0 .. n : A(i) \in Seq(Nat)
      /\ \A i \in 1 .. n : A(i) = Cat(A(i - 1), parts[i])
  BY FlattenFirst
<1>3. /\ B(0) = << >> /\ B(n) = FlattenSeq(texts)
      /\ \A i \in 1 .. n : B(i) = Cat(B(i - 1), texts[i])
  BY <1>1, FlattenFirst
<1>4. \A i \in 1 .. n : parts[i] \in Seq(Nat)
  <2> DEFINE T == Seq(Nat)
  <2>1. parts \in Seq(T)
    OBVIOUS
  <2> HIDE DEF T
  <2>2. \A i \in 1 .. n : parts[i] \in T
    BY <2>1, ElementOfSeq
  <2> QED
    BY <2>2 DEF T
<1> HIDE DEF A, B
<1>5. P(0)
  BY <1>2, <1>3, DecodeNothing
<1>6. ASSUME NEW i \in 1 .. n, P(i - 1) PROVE P(i)
  <2>1. PICK a, b, s, t : a = A(i - 1) /\ b = parts[i] /\ s = B(i - 1) /\ t = texts[i]
    OBVIOUS
  <2>2. i - 1 \in 0 .. n
    BY <1>1
  <2>3. a \in Seq(Nat) /\ b \in Seq(Nat) /\ Decode(b, codec) = Decoding(t, << >>, codec.start)
    BY <1>2, <1>4, <2>1, <2>2
  <2>4. A(i) = Cat(a, b) /\ B(i) = Cat(s, t)
    BY <1>2, <1>3, <2>1
  <2>5. Decode(a, codec) = Decoding(s, << >>, codec.start)
    BY <1>6, <2>1
  <2>6. Decode(Cat(a, b), codec) = Decoding(Cat(s, t), << >>, codec.start)
    BY <2>3, <2>5, DecodeBoth
  <2> QED
    BY <2>4, <2>6
<1> HIDE DEF P
<1>7. n > 0 => 1 \in G
  <2>1. n > 0 => 1 \in 1 .. n /\ 1 - 1 = 0
    BY <1>1
  <2> QED
    BY <1>5, <1>6, <2>1
<1>8. \A i \in 1 .. n : i > 1 /\ i - 1 \in G => i \in G
  BY <1>6
<1> HIDE DEF G
<1>9. 1 .. n \subseteq G
  BY <1>1, <1>7, <1>8, Upwards
<1>10. n = 0 \/ n \in 1 .. n
  BY <1>1
<1>11. P(n)
  BY <1>5, <1>9, <1>10 DEF G
<1> QED
  BY <1>2, <1>3, <1>11 DEF P

-------------------------------------------------------------------------------
(* What was sent can be read again.                                        *)

OnePiece(s, o) ==
  Len(s) = 1 /\ ExtractMultipart(s[1]) = None /\ GetText(s[1]) = TextOctets[o]

\* s is what o may be sent as: parts, or one piece.
TextSent(s, o) ==
  /\ Encodable(Text[o], WritingCodec(o))
  /\ \A i \in 1 .. Len(s) : s[i].coding = Coding[o]
  /\ ArePartsOf(s, o) \/ OnePiece(s, o)

\* Each way to send a text makes PDUs of its coding.
LEMMA SentCoding ==
  ASSUME NEW o \in Originals, Encodable(Text[o], WritingCodec(o)), NEW seq \in Nat
  PROVE  \A i \in 1 .. Len(Sent(o, seq)) : Sent(o, seq)[i].coding = Coding[o]
<1> DEFINE octets == TextOctets[o]
           coding == Coding[o]
           parts == PartsOf(o)
           s == Sent(o, seq)
<1>1. DOMAIN s = 1 .. Len(s)
  BY SentPdus DEF ArePdus
<1>2. \A short : PduOf(coding, short).coding = coding
  BY DEF PduOf
<1>3. \A short, x : /\ [PduOf(coding, short) EXCEPT !.sar = x].coding = coding
                    /\ [PduOf(coding, short) EXCEPT !.payload = x].coding = coding
  BY DEF PduOf
<1>4. Handling[o] \in Handlings \cup {"csm16"}
  BY SmppInboundAssumption
<1>5. CASE Handling[o] = "csm16"
  <2>1. s = [i \in DOMAIN parts |-> PduOf(coding, << 6, 8, 4, 1, seq, Len(parts), i >> \o parts[i])]
    BY <1>5 DEF Sent, SubmitCsm16, PartsOf
  <2> QED
    BY <1>1, <1>2, <2>1
<1>6. CASE Handling[o] # "csm16" /\ (Handling[o] = "short_message" \/ FitsInOneMessage(octets, coding))
  <2>1. s = << PduOf(coding, octets) >>
    BY <1>6 DEF Sent, HandleOutbound, SubmitShort
  <2>2. \A i \in DOMAIN s : s[i] = PduOf(coding, octets)
    BY <2>1
  <2> QED
    BY <1>1, <1>2, <2>2
<1>7. CASE Handling[o] = "message_payload" /\ ~FitsInOneMessage(octets, coding)
  <2>1. s = << [PduOf(coding, << >>) EXCEPT !.payload = octets] >>
    BY <1>7 DEF Sent, HandleOutbound, SubmitLong
  <2>2. \A i \in DOMAIN s : s[i] = [PduOf(coding, << >>) EXCEPT !.payload = octets]
    BY <2>1
  <2>3. [PduOf(coding, << >>) EXCEPT !.payload = octets].coding = coding
    BY DEF PduOf
  <2> QED
    BY <1>1, <2>2, <2>3
<1>8. CASE Handling[o] = "multipart_sar" /\ ~FitsInOneMessage(octets, coding)
  <2>1. s = [i \in DOMAIN parts |->
               [PduOf(coding, parts[i]) EXCEPT !.sar = << seq % SarRollover, Len(parts), i >>]]
    BY <1>8 DEF Sent, HandleOutbound, SubmitSar, PartsOf
  <2> QED
    BY <1>1, <1>3, <2>1
<1>9. CASE Handling[o] = "multipart_udh" /\ ~FitsInOneMessage(octets, coding)
  <2>1. s = [i \in DOMAIN parts |-> PduOf(coding, << 5, 0, 3, seq % 255, Len(parts), i >> \o parts[i])]
    BY <1>9 DEF Sent, HandleOutbound, SubmitUdh, PartsOf
  <2> QED
    BY <1>1, <1>2, <2>1
<1> QED
  BY <1>4, <1>5, <1>6, <1>7, <1>8, <1>9 DEF Handlings

\* The codec that a text is read with, if there is one.
LEMMA ReadingIs ==
  ASSUME NEW o \in Originals, Reading(o) # None
  PROVE  IsCodec(Reading(o))
<1>1. PICK coding, codec : coding = Coding[o] /\ codec = Reading(o)
  OBVIOUS
<1>2. coding \in Codings
  BY <1>1, SmppInboundAssumption
<1>3. codec = IF coding \in DOMAIN Overrides THEN Overrides[coding] ELSE DataCodingCodecs[coding]
  BY <1>1 DEF Reading, ReadingCodec
<1>4. codec \in Range(Overrides) \cup Range(DataCodingCodecs)
  BY <1>2, <1>3 DEF Codings, Range
<1>5. codec \in Codecs
  BY <1>1, <1>4 DEF Codecs
<1> QED
  BY <1>1, <1>5, ShortMessagesAssumption

\* A text that is read with the codec it was written with.
LEMMA ReadableText ==
  ASSUME NEW o \in Originals, Readable(o)
  PROVE  /\ IsCodec(Reading(o)) /\ Reading(o) # None /\ Reading(o) = WritingCodec(o)
         /\ IsText(Text[o], Reading(o)) /\ ReadsBack(Text[o], Reading(o))
         /\ TextOctets[o] = Encode(Text[o], Reading(o)) /\ TextOctets[o] \in Seq(Nat)
<1>1. Encodable(Text[o], WritingCodec(o)) /\ Reading(o) = WritingCodec(o)
      /\ ReadsBack(Text[o], Reading(o))
  BY DEF Readable
<1>2. WritingCodec(o) # None
  BY <1>1 DEF Encodable
<1> QED
  BY <1>1, <1>2, EncodableText, Encoded

\* It is decoded to itself.
LEMMA WholeDecodes ==
  ASSUME NEW o \in Originals, Readable(o)
  PROVE  Decode(TextOctets[o], Reading(o)) = Decoding(Text[o], << >>, Reading(o).start)
<1>1. PICK text, codec : text = Text[o] /\ codec = Reading(o)
  OBVIOUS
<1>2. IsCodec(codec) /\ IsText(text, codec) /\ ReadsBack(text, codec)
      /\ TextOctets[o] = Encode(text, codec)
  BY <1>1, ReadableText
<1>3. Decode(Encode(text, codec), codec) = Decoding(text, << >>, codec.start)
  BY <1>2, DecodeEncodes
<1> QED
  BY <1>1, <1>2, <1>3

\* What is decoded of the PDUs that a text is sent as: its parts, or its octets.
LEMMA SentContent ==
  ASSUME NEW o \in Originals, NEW s, TextSent(s, o), NEW i \in 1 .. Len(s)
  PROVE  /\ Content(s[i]) \in Seq(Nat) /\ ReadingCodec(s[i].coding) = Reading(o)
         /\ \/ /\ Len(s) = Len(PartsOf(o)) /\ Content(s[i]) = PartsOf(o)[i]
               /\ ExtractMultipart(s[i]) # None /\ ArePartsOf(s, o)
            \/ /\ Len(s) = 1 /\ i = 1 /\ Content(s[i]) = TextOctets[o]
               /\ ExtractMultipart(s[i]) = None /\ GetText(s[i]) = TextOctets[o]
               /\ OnePiece(s, o)
<1>1. Encodable(Text[o], WritingCodec(o)) /\ s[i].coding = Coding[o]
  BY DEF TextSent
<1>2. ReadingCodec(s[i].coding) = Reading(o)
  BY <1>1 DEF Reading
<1>3. TextOctets[o] \in Seq(Nat) /\ PartLength[Coding[o]] \in Nat \ {0}
  BY <1>1, Encoded
<1>4. CASE ArePartsOf(s, o)
  <2>1. PICK parts : parts = PartsOf(o)
    OBVIOUS
  <2>2. Len(s) = Len(parts)
    BY <1>4, <2>1 DEF ArePartsOf
  <2>3. PICK r \in Nat : ExtractMultipart(s[i]) = Part(r, Len(parts), i, parts[i])
    BY <1>4, <2>1, <2>2 DEF ArePartsOf
  <2>4. Len(parts) \in Nat /\ parts[i] \in Seq(Nat) /\ i \in Nat
    <3>1. PICK t, z : t = TextOctets[o] /\ z = PartLength[Coding[o]]
      OBVIOUS
    <3>2. t \in Seq(Nat) /\ z \in Nat \ {0} /\ parts = Split(t, z)
      BY <1>3, <2>1, <3>1 DEF PartsOf
    <3> QED
      BY <2>2, <3>2, SplitParts
  <2>5. ExtractMultipart(s[i]) # None
    BY <2>3, <2>4, PartIsSome
  <2>6. Content(s[i]) = parts[i]
    BY <2>3, <2>5 DEF Content, Part
  <2> QED
    BY <1>2, <1>4, <2>1, <2>2, <2>4, <2>5, <2>6
<1>5. CASE OnePiece(s, o)
  <2>1. Len(s) = 1 /\ i = 1
    BY <1>5 DEF OnePiece
  <2>2. ExtractMultipart(s[i]) = None /\ GetText(s[i]) = TextOctets[o]
    BY <1>5, <2>1 DEF OnePiece
  <2>3. Content(s[i]) = TextOctets[o]
    BY <2>2 DEF Content
  <2> QED
    BY <1>2, <1>3, <1>5, <2>1, <2>2, <2>3
<1> QED
  BY <1>4, <1>5 DEF TextSent

\* Under the hypothesis above, what a text is sent as can be read.
LEMMA SentText ==
  ASSUME NEW o \in Originals, Encodable(Text[o], WritingCodec(o)), NEW seq \in Nat, NoneLooksLikeAPart
  PROVE  TextSent(Sent(o, seq), o)
<1> DEFINE octets == TextOctets[o]
           coding == Coding[o]
           s == Sent(o, seq)
<1>1. octets \in Seq(Nat)
  BY Encoded
<1>2. \A i \in 1 .. Len(s) : s[i].coding = coding
  BY SentCoding
<1>3. InParts(o) => ArePartsOf(s, o)
  BY SentPdus
<1>4. Handling[o] \in Handlings \cup {"csm16"}
  BY SmppInboundAssumption
<1>5. CASE Handling[o] # "csm16" /\ (Handling[o] = "short_message" \/ FitsInOneMessage(octets, coding))
  <2> DEFINE pdu == PduOf(coding, octets)
  <2>1. s = << pdu >>
    BY <1>5 DEF Sent, HandleOutbound, SubmitShort
  <2>2. ExtractMultipart(pdu) = None
    BY <1>5 DEF NoneLooksLikeAPart
  <2>3. pdu.short = octets /\ pdu.payload = None
    BY DEF PduOf
  <2>4. GetText(pdu) = octets
    BY <2>3 DEF GetText
  <2> HIDE DEF pdu, s
  <2>5. Len(s) = 1 /\ s[1] = pdu
    BY <2>1
  <2>6. OnePiece(s, o)
    BY <2>2, <2>4, <2>5 DEF OnePiece
  <2> QED
    BY <1>2, <2>6 DEF TextSent, s
<1>6. CASE Handling[o] = "message_payload" /\ ~FitsInOneMessage(octets, coding)
  <2> DEFINE pdu == [PduOf(coding, << >>) EXCEPT !.payload = octets]
  <2>1. s = << pdu >>
    BY <1>6 DEF Sent, HandleOutbound, SubmitLong
  <2>2. pdu.short = << >> /\ pdu.payload = octets /\ pdu.sar = None
    BY DEF PduOf
  <2>3. octets # None
    BY <1>1, ShortMessagesAssumption
  <2> HIDE DEF pdu, s, octets
  <2>4. GetText(pdu) = octets
    BY <2>2, <2>3 DEF GetText
  <2>5. ASSUME NEW h \in {CSM, CSM16} PROVE ~HasHeader(pdu.short, h)
    <3>1. h.refSize \in {1, 2} /\ Len(pdu.short) = 0
      BY <2>2 DEF CSM, CSM16
    <3>2. ~(Len(pdu.short) >= 5 + h.refSize)
      BY <3>1
    <3> QED
      BY <3>2 DEF HasHeader
  <2>6. ExtractMultipart(pdu) = None
    BY <2>2, <2>5 DEF ExtractMultipart
  <2>7. Len(s) = 1 /\ s[1] = pdu
    BY <2>1
  <2>8. OnePiece(s, o)
    BY <2>4, <2>6, <2>7 DEF OnePiece, octets
  <2> QED
    BY <1>2, <2>8 DEF TextSent, s
<1>7. CASE InParts(o)
  BY <1>2, <1>3, <1>7 DEF TextSent
<1> QED
  BY <1>4, <1>5, <1>6, <1>7 DEF Handlings, InParts

SentTextInv == \A o \in Originals : pdus[o] # << >> => TextSent(pdus[o], o)

\* The hypothesis makes what is sent readable.
LEMMA TextNext ==
  ASSUME SendInv, SentTextInv, NoneLooksLikeAPart, [Next]_vars
  PROVE  SentTextInv'
<1>1. ASSUME NEW o \in Originals, Submit(o) PROVE SentTextInv'
  <2> DEFINE seq == seqno[Sender[o]] + 1
  <2>1. Sender[o] \in Senders
    BY DEF Senders
  <2>2. seq \in Nat
    BY <2>1 DEF SendInv
  <2>3. PICK s : s = Sent(o, seq)
    OBVIOUS
  <2>4. pdus' = [pdus EXCEPT ![o] = s] /\ Encodable(Text[o], WritingCodec(o))
    BY <1>1, <2>3 DEF Submit, Sent
  <2> HIDE DEF seq
  <2>5. TextSent(s, o)
    BY <2>2, <2>3, <2>4, SentText
  <2>6. pdus'[o] = s /\ \A e \in Originals : e # o => pdus'[e] = pdus[e]
    BY <2>4 DEF SendInv
  <2> QED
    BY <2>5, <2>6 DEF SentTextInv
<1>2. CASE UNCHANGED pdus
  BY <1>2 DEF SentTextInv
<1>3. ASSUME NEW o \in Originals, SubmitRaises(o) PROVE UNCHANGED pdus
  BY <1>3 DEF SubmitRaises
<1>4. ASSUME NEW o \in Originals, NEW i \in DOMAIN pdus[o], Deliver(o, i) \/ Handle(o, i)
      PROVE  UNCHANGED pdus
  BY <1>4 DEF Deliver, Handle, HandleReport, HandlePart, HandleWhole, HandleRaises, Extracts, sendVars
<1>5. ASSUME NEW n \in ReadSizes, Reads(n) PROVE UNCHANGED pdus
  BY <1>5 DEF Reads, sendVars
<1>6. ASSUME StopsExtracting \/ Restart \/ UNCHANGED vars PROVE UNCHANGED pdus
  BY <1>6 DEF StopsExtracting, Restart, vars, sendVars
<1> QED
  BY <1>1, <1>2, <1>3, <1>4, <1>5, <1>6 DEF Next

\* Each text is sent as its parts, or in one piece that is not taken for a part.
THEOREM TextsCanBeRead ==
  ASSUME NoneLooksLikeAPart
  PROVE  Spec => []SentTextInv
<1>1. Init => SentTextInv
  BY DEF Init, SentTextInv
<1>2. SendInv /\ StreamInv /\ SentTextInv /\ [Next]_vars => SentTextInv'
  BY TextNext
<1> QED
  BY <1>1, <1>2, StreamTheorem, PTL DEF Spec

-------------------------------------------------------------------------------
(* What raises.                                                            *)

\* The first b octets of o's text are decoded whole, and leave the codec in its first
\* mode.
Ends(b, o) ==
  /\ b \in 0 .. Len(TextOctets[o])
  /\ Decode(SubSeq(TextOctets[o], 1, b), Reading(o)).rest = << >>
  /\ Decode(SubSeq(TextOctets[o], 1, b), Reading(o)).mode = Reading(o).start

\* They are where a character ends.
LEMMA BoundaryEnds ==
  ASSUME NEW o \in Originals, Readable(o), NEW b \in Boundaries(o)
  PROVE  Ends(b, o)
<1>1. PICK text, codec : text = Text[o] /\ codec = Reading(o)
  OBVIOUS
<1>2. IsCodec(codec) /\ IsText(text, codec) /\ ReadsBack(text, codec)
      /\ codec = WritingCodec(o) /\ TextOctets[o] = Encode(text, codec)
  BY <1>1, ReadableText
<1>3. PICK k \in 0 .. Len(text) : /\ b = Len(Written(FirstChars(text, k), codec))
                                 /\ ModeAfter(text, k, codec) = codec.start
  BY <1>1, <1>2 DEF Boundaries, FirstChars
<1>4. PICK x : x = Written(FirstChars(text, k), codec)
  OBVIOUS
<1>5. x \in Seq(Nat) /\ b = Len(x) /\ b \in Nat
  <2>1. x \in Seq(Nat)
    BY <1>2, <1>4, WriteSteps
  <2> QED
    BY <1>3, <1>4, <2>1, LenProperties
<1>6. PICK r \in Seq(Nat) : Encode(text, codec) = Cat(x, r)
  BY <1>2, <1>4, EncodeBegins
<1>7. TextOctets[o] = x \o r
  BY <1>2, <1>6 DEF Cat
<1>8. Len(x \o r) = b + Len(r) /\ Len(r) \in Nat
  BY <1>5, ConcatProperties, LenProperties
<1>9. SubSeq(x \o r, 1, b) = x
  <2>1. /\ x \o r \in Seq(Nat)
        /\ \A i \in 1 .. Len(x) : (x \o r)[i] = x[i]
    BY <1>5, ConcatProperties
  <2>2. b \in 0 .. Len(x \o r)
    BY <1>5, <1>8
  <2>3. PICK w : w = SubSeq(x \o r, 1, b)
    OBVIOUS
  <2>4. w \in Seq(Nat) /\ Len(w) = b /\ \A i \in 1 .. b : w[i] = (x \o r)[i]
    BY <2>1, <2>2, <2>3, FirstOf
  <2>5. \A i \in 1 .. Len(x) : w[i] = x[i]
    BY <1>5, <2>1, <2>4
  <2> QED
    BY <1>5, <2>3, <2>4, <2>5, SeqEqual
<1>10. Decode(x, codec) = Decoding(FirstChars(text, k), << >>, codec.start)
  BY <1>2, <1>3, <1>4, DecodeWritten
<1>11. Decode(x, codec).rest = << >> /\ Decode(x, codec).mode = codec.start
  BY <1>10, DecodingFields
<1>12. b \in 0 .. Len(x \o r)
  BY <1>5, <1>8
<1> QED
  BY <1>1, <1>7, <1>9, <1>11, <1>12 DEF Ends

\* So are none of them, and all.
LEMMA WholeEnds ==
  ASSUME NEW o \in Originals, Readable(o)
  PROVE  Ends(0, o) /\ Ends(Len(TextOctets[o]), o)
<1>1. PICK octets, codec : octets = TextOctets[o] /\ codec = Reading(o)
  OBVIOUS
<1>2. octets \in Seq(Nat) /\ IsCodec(codec) /\ Len(octets) \in Nat
  BY <1>1, ReadableText, LenProperties
<1>3. SubSeq(octets, 1, 0) = << >> /\ SubSeq(octets, 1, Len(octets)) = octets
  BY <1>2, SubSeqEmpty, SubSeqFull
<1>4. Decode(<< >>, codec) = Decoding(<< >>, << >>, codec.start)
  BY <1>2, DecodeNothing
<1>5. Decode(octets, codec) = Decoding(Text[o], << >>, codec.start)
  BY <1>1, WholeDecodes
<1>6. 0 \in 0 .. Len(octets) /\ Len(octets) \in 0 .. Len(octets)
  BY <1>2
<1>7. /\ Decode(<< >>, codec).rest = << >> /\ Decode(<< >>, codec).mode = codec.start
      /\ Decode(octets, codec).rest = << >> /\ Decode(octets, codec).mode = codec.start
  BY <1>4, <1>5, DecodingFields
<1>8. Ends(0, o)
  BY <1>1, <1>3, <1>6, <1>7 DEF Ends
<1>9. Ends(Len(octets), o)
  BY <1>1, <1>3, <1>6, <1>7 DEF Ends
<1> QED
  BY <1>1, <1>8, <1>9

\* What comes after something that was decoded whole is decoded as by itself.
LEMMA DecodeLast ==
  ASSUME NEW codec, IsCodec(codec), NEW a \in Seq(Nat), NEW b \in Seq(Nat),
         Decode(a, codec).rest = << >>, Decode(a, codec).mode = codec.start
  PROVE  /\ Decode(b, codec).rest = Decode(Cat(a, b), codec).rest
         /\ Decode(b, codec).mode = Decode(Cat(a, b), codec).mode
<1>1. Decode(a, codec) \in Decodings(codec)
  BY DecodeType
<1>2. PICK s : s = Decode(a, codec).text
  OBVIOUS
<1>3. Decode(a, codec) = Decoding(s, << >>, codec.start)
  BY <1>1, <1>2, DecodingsAre
<1> QED
  BY <1>3, DecodeBoth

\* Cut between characters, each part of a text is decoded whole.
LEMMA CutsDecode ==
  ASSUME NEW o \in Originals, Readable(o),
         \A i \in 1 .. Len(PartsOf(o)) - 1 : i * PartLength[Coding[o]] \in Boundaries(o)
  PROVE  \A i \in 1 .. Len(PartsOf(o)) : /\ Decode(PartsOf(o)[i], Reading(o)).rest = << >>
                                         /\ Decode(PartsOf(o)[i], Reading(o)).mode = Reading(o).start
<1> DEFINE size == PartLength[Coding[o]]
           octets == TextOctets[o]
           codec == Reading(o)
           parts == PartsOf(o)
           n == Len(parts)
           L == Len(octets)
           E(i) == PartEnd(octets, size, i)
<1>1. octets \in Seq(Nat) /\ size \in Nat \ {0} /\ L \in Nat /\ IsCodec(codec)
  <2>1. Encodable(Text[o], WritingCodec(o))
    BY DEF Readable
  <2> QED
    BY <2>1, Encoded, ReadableText, LenProperties
<1>2. /\ n \in Nat /\ L <= n * size
      /\ \A i \in 1 .. n : /\ (i - 1) * size \in 0 .. L - 1 /\ E(i) \in (i - 1) * size + 1 .. L
                           /\ parts[i] = SubSeq(octets, (i - 1) * size + 1, E(i))
                           /\ parts[i] \in Seq(Nat)
  <2>1. PICK t, z, p : t = octets /\ z = size /\ p = parts
    OBVIOUS
  <2>2. t \in Seq(Nat) /\ z \in Nat \ {0} /\ p = Split(t, z)
    BY <1>1, <2>1 DEF PartsOf
  <2>3. /\ Len(p) \in Nat /\ Len(t) <= Len(p) * z
        /\ \A i \in 1 .. Len(p) :
             /\ (i - 1) * z \in 0 .. Len(t) - 1 /\ PartEnd(t, z, i) \in (i - 1) * z + 1 .. Len(t)
             /\ p[i] = SubSeq(t, (i - 1) * z + 1, PartEnd(t, z, i))
             /\ p[i] \in Seq(Nat)
    BY <2>2, SplitParts
  <2> QED
    BY <2>1, <2>3
<1>3. Ends(L, o) /\ Ends(0, o) /\ \A b \in Boundaries(o) : Ends(b, o)
  BY WholeEnds, BoundaryEnds
<1>4. ASSUME NEW i \in 1 .. n
      PROVE  Ends((i - 1) * size, o) /\ Ends(E(i), o)
  <2>1. Ends((i - 1) * size, o)
    <3>1. CASE i = 1
      <4>1. (1 - 1) * size = 0
        BY <1>1
      <4> QED
        BY <1>3, <3>1, <4>1
    <3>2. CASE i # 1
      <4>1. i - 1 \in 1 .. n - 1
        BY <1>2, <3>2
      <4> QED
        BY <1>3, <4>1
    <3> QED
      BY <3>1, <3>2
  <2>2. CASE i = n
    <3>1. E(n) = L
      <4> DEFINE c == n * size
      <4>1. c \in Nat /\ L <= c
        BY SMTT(30), <1>1, <1>2
      <4>2. E(n) = IF c <= L THEN c ELSE L
        BY DEF PartEnd
      <4> HIDE DEF c, E
      <4> QED
        BY <1>1, <4>1, <4>2
    <3> QED
      BY <1>3, <2>1, <2>2, <3>1
  <2>3. CASE i # n
    <3>1. i \in 1 .. n - 1
      BY <1>2, <2>3
    <3>2. i * size \in Boundaries(o)
      BY <3>1
    <3>3. E(i) = i * size \/ E(i) = L
      BY DEF PartEnd
    <3> HIDE DEF E
    <3> QED
      BY <1>3, <2>1, <3>2, <3>3
  <2> QED
    BY <2>2, <2>3
<1> TAKE i \in 1 .. n
<1> DEFINE b == (i - 1) * size
           e == E(i)
<1>5. b \in 0 .. L - 1 /\ e \in b + 1 .. L /\ parts[i] = SubSeq(octets, b + 1, e)
      /\ parts[i] \in Seq(Nat)
  BY <1>2
<1>6. Ends(b, o) /\ Ends(e, o)
  BY <1>4
<1> HIDE DEF b, e, E, parts
<1>7. 1 \in 1 .. L + 1 /\ b \in 1 - 1 .. L /\ e \in b .. L
  <2>1. L \in Nat /\ b \in 0 .. L - 1 /\ e \in b + 1 .. L
    BY <1>1, <1>5
  <2> HIDE DEF L
  <2> QED
    BY <2>1
<1>8. SubSeq(octets, 1, b) \o SubSeq(octets, b + 1, e) = SubSeq(octets, 1, e)
  BY <1>1, <1>7, ConcatAdjacentSubSeq
<1>9. PICK x, p, y : x = SubSeq(octets, 1, b) /\ p = parts[i] /\ y = SubSeq(octets, 1, e)
  OBVIOUS
<1>10. y = Cat(x, p) /\ p \in Seq(Nat)
  BY <1>5, <1>8, <1>9 DEF Cat
<1>11. x \in Seq(Nat)
  <2>1. b \in 0 .. Len(octets)
    BY <1>7
  <2> QED
    BY <1>1, <1>9, <2>1, FirstOf
<1>12. /\ Decode(x, codec).rest = << >> /\ Decode(x, codec).mode = codec.start
       /\ Decode(y, codec).rest = << >> /\ Decode(y, codec).mode = codec.start
  BY <1>6, <1>9 DEF Ends
<1>13. Decode(p, codec).rest = << >> /\ Decode(p, codec).mode = codec.start
  BY <1>1, <1>10, <1>11, <1>12, DecodeLast
<1> QED
  BY <1>9, <1>13 DEF parts

\* What is decoded of a PDU of o is decoded whole, if o can be read and was cut between
\* characters.
LEMMA UncutDecodes ==
  ASSUME NEW o \in Originals, NEW s, TextSent(s, o), NEW i \in 1 .. Len(s), Readable(o),
         \A k \in 1 .. Len(s) - 1 : k * PartLength[Coding[o]] \in Boundaries(o)
  PROVE  /\ Decode(Content(s[i]), Reading(o)).rest = << >>
         /\ Decode(Content(s[i]), Reading(o)).mode = Reading(o).start
<1>1. CASE Len(s) = Len(PartsOf(o)) /\ Content(s[i]) = PartsOf(o)[i]
  BY <1>1, CutsDecode
<1>2. CASE Content(s[i]) = TextOctets[o]
  <2>1. Decode(TextOctets[o], Reading(o)) = Decoding(Text[o], << >>, Reading(o).start)
    BY WholeDecodes
  <2> QED
    BY <1>2, <2>1, DecodingFields
<1> QED
  BY <1>1, <1>2, SentContent

RaisesStep ==
  session' # session /\ session = "up" =>
    ~Readable(Head(due)[1]) \/ ~CutBetweenCharacters(Head(due)[1])

\* A session that ends does so over a text that is not read back, or over a character
\* that was cut in two, unless a text in one piece looks like a part.
THEOREM OnlyUnreadablesRaise ==
  ASSUME NoneLooksLikeAPart
  PROVE  Spec => OnlyUnreadableTextsRaise
<1>1. (SendInv /\ StreamInv) /\ SentTextInv /\ [Next]_vars => [RaisesStep]_vars
  <2>1. ASSUME SendInv, StreamInv, SentTextInv, NEW o \in Originals, NEW i \in DOMAIN pdus[o],
               HandleRaises(o, i)
        PROVE  RaisesStep
    <3>1. session = "up" /\ <<o, i>> = Head(due)
      BY <2>1, StreamHandles DEF Handle
    <3>2. Head(due)[1] = o
      BY <3>1
    <3>3. PICK s : s = pdus[o]
      OBVIOUS
    <3>4. ArePdus(s)
      BY <2>1, <3>3 DEF SendInv
    <3>5. i \in 1 .. Len(s) /\ s # << >>
      BY <2>1, <3>3, <3>4 DEF ArePdus
    <3>6. TextSent(s, o)
      BY <2>1, <3>3, <3>5 DEF SentTextInv
    <3>7. ASSUME Readable(o), CutBetweenCharacters(o) PROVE FALSE
      <4>1. \A k \in 1 .. Len(s) - 1 : k * PartLength[Coding[o]] \in Boundaries(o)
        BY <3>3, <3>7 DEF CutBetweenCharacters
      <4>2. Decode(Content(s[i]), Reading(o)).rest = << >>
        BY <3>5, <3>6, <3>7, <4>1, UncutDecodes
      <4>3. ReadingCodec(s[i].coding) = Reading(o) /\ Reading(o) # None
        BY <3>5, <3>6, <3>7, SentContent, ReadableText
      <4>4. Undecodable(s[i])
        BY <2>1, <3>3 DEF HandleRaises
      <4> QED
        BY <4>2, <4>3, <4>4 DEF Undecodable
    <3> QED
      BY <3>2, <3>7 DEF RaisesStep
  <2>2. ASSUME NEW o \in Originals, Submit(o) \/ SubmitRaises(o) PROVE UNCHANGED session
    BY <2>2 DEF Submit, SubmitRaises
  <2>3. ASSUME NEW o \in Originals, NEW i \in DOMAIN pdus[o],
               Deliver(o, i) \/ HandleReport(o, i) \/ HandlePart(o, i) \/ HandleWhole(o, i)
        PROVE  UNCHANGED session
    BY <2>3 DEF Deliver, HandleReport, HandlePart, HandleWhole
  <2>4. ASSUME NEW n \in ReadSizes, Reads(n) PROVE UNCHANGED session
    BY <2>4 DEF Reads
  <2>5. StopsExtracting => UNCHANGED session
    BY DEF StopsExtracting
  <2>6. ASSUME Restart PROVE session' = "up"
    BY <2>6 DEF Restart
  <2>7. UNCHANGED session \/ session' = "up" => RaisesStep
    BY DEF RaisesStep
  <2> QED
    BY <2>1, <2>2, <2>3, <2>4, <2>5, <2>6, <2>7 DEF Next, Handle
<1>2. Spec => []SentTextInv
  BY TextsCanBeRead
<1> QED
  BY <1>1, <1>2, StreamTheorem, PTL DEF Spec, OnlyUnreadableTextsRaise, RaisesStep

-------------------------------------------------------------------------------
(* Parts put together.                                                     *)

RisesUpTo(h, n) == \A i, j \in 1 .. n : i < j => h[i] < h[j]

\* Numbers up to n that rise n times are all of them.
LEMMA RisingNumbers ==
  ASSUME NEW n \in Nat, NEW h \in [1 .. n -> 1 .. n], RisesUpTo(h, n)
  PROVE  \A i \in 1 .. n : h[i] = i
<1> DEFINE G == {i \in 1 .. n : h[i] >= i}
           H == {i \in 1 .. n : h[n + 1 - i] <= n + 1 - i}
<1>1. \A i \in 1 .. n : h[i] \in 1 .. n
  OBVIOUS
<1>2. 1 .. n \subseteq G
  <2>1. n > 0 => 1 \in G
    BY <1>1
  <2>2. ASSUME NEW i \in 1 .. n, i > 1, i - 1 \in G PROVE i \in G
    <3>1. i - 1 \in 1 .. n /\ i - 1 < i
      BY <2>2
    <3>2. h[i - 1] < h[i] /\ h[i - 1] >= i - 1
      BY <2>2, <3>1 DEF RisesUpTo
    <3>3. h[i - 1] \in 1 .. n /\ h[i] \in 1 .. n
      BY <1>1, <3>1
    <3> QED
      BY <3>2, <3>3
  <2> HIDE DEF G
  <2> QED
    BY <2>1, <2>2, Upwards
<1>3. 1 .. n \subseteq H
  <2>1. n > 0 => 1 \in H
    <3> SUFFICES ASSUME n > 0 PROVE 1 \in H
      OBVIOUS
    <3>1. n + 1 - 1 = n /\ 1 \in 1 .. n /\ n \in 1 .. n
      OBVIOUS
    <3>2. h[n] \in 1 .. n
      BY <1>1, <3>1
    <3> QED
      BY <3>1, <3>2
  <2>2. ASSUME NEW i \in 1 .. n, i > 1, i - 1 \in H PROVE i \in H
    <3>1. PICK a, b : a = n + 1 - i /\ b = n + 1 - (i - 1)
      OBVIOUS
    <3>2. a \in 1 .. n /\ b \in 1 .. n /\ a < b /\ b = a + 1
      BY <2>2, <3>1
    <3>3. h[a] < h[b] /\ h[a] \in 1 .. n /\ h[b] \in 1 .. n
      BY <1>1, <3>2 DEF RisesUpTo
    <3>4. h[b] <= b
      BY <2>2, <3>1
    <3>5. h[a] <= a
      BY <3>2, <3>3, <3>4
    <3> QED
      BY <3>1, <3>5
  <2> HIDE DEF H
  <2> QED
    BY <2>1, <2>2, Upwards
<1> TAKE i \in 1 .. n
<1>4. h[i] >= i
  BY <1>2
<1>5. PICK k : k = n + 1 - i
  OBVIOUS
<1>6. k \in 1 .. n /\ n + 1 - k = i
  BY <1>5
<1>7. h[n + 1 - k] <= n + 1 - k
  BY <1>3, <1>6
<1>8. h[i] <= i
  BY <1>6, <1>7
<1> QED
  BY <1>1, <1>4, <1>8

\* n parts whose numbers up to n differ have each number.
LEMMA AllNumbers ==
  ASSUME NEW n \in Nat, NEW g, IsFiniteSet(g), Cardinality(g) = n,
         \A q \in g : q.number \in 1 .. n,
         \A p, q \in g : p.number = q.number => p = q
  PROVE  \A i \in 1 .. n : \E q \in g : q.number = i
<1> DEFINE num == [q \in g |-> q.number]
<1>1. num \in Injection(g, 1 .. n)
  BY DEF Injection, IsInjective
<1>2. IsFiniteSet(1 .. n) /\ Cardinality(1 .. n) = n
  BY FS_Interval
<1>3. num \in Surjection(g, 1 .. n)
  BY <1>1, <1>2, FS_Injection
<1> TAKE i \in 1 .. n
<1>4. PICK q \in g : num[q] = i
  BY <1>3 DEF Surjection
<1> QED
  BY <1>4

\* g is n parts numbered up to n, and f[i] the one with number i.
OneOfEach(n, f, g) ==
  /\ n \in Nat /\ IsFiniteSet(g) /\ Cardinality(g) = n
  /\ \A i \in 1 .. n : f[i].number = i
  /\ \A q \in g : q.number \in 1 .. n /\ q = f[q.number]

Contents(n, f) == [i \in 1 .. n |-> f[i].content]

\* n parts numbered in 1 .. n, of which f[i] is the one that is numbered i, are
\* joined in order.
LEMMA JoinsInOrder ==
  ASSUME NEW n, NEW f, NEW g, OneOfEach(n, f, g)
  PROVE  Joined(g) = FlattenSeq(Contents(n, f))
<1> DEFINE Rises(s) == \A i, j \in DOMAIN s : i < j => s[i].number < s[j].number
<1>1. /\ n \in Nat /\ IsFiniteSet(g) /\ Cardinality(g) = n
      /\ \A i \in 1 .. n : f[i].number = i
      /\ \A q \in g : q.number \in 1 .. n /\ q = f[q.number]
  BY DEF OneOfEach
<1>2. \A p, q \in g : p.number = q.number => p = q
  BY <1>1
<1>3. \A i \in 1 .. n : f[i] \in g
  <2> TAKE i \in 1 .. n
  <2>1. PICK q \in g : q.number = i
    BY <1>1, <1>2, AllNumbers
  <2> QED
    BY <1>1, <2>1
<1> DEFINE e == [i \in 1 .. n |-> f[i]]
<1>4. e \in [1 .. n -> g] /\ Rises(e)
  BY <1>1, <1>3
<1>5. PICK s : s = CHOOSE t \in [1 .. Cardinality(g) -> g] : Rises(t)
  OBVIOUS
<1>6. s \in [1 .. n -> g] /\ Rises(s)
  <2> HIDE DEF e, Rises
  <2> QED
    BY <1>1, <1>4, <1>5
<1> DEFINE h == [i \in 1 .. n |-> s[i].number]
<1>7. h \in [1 .. n -> 1 .. n]
  BY <1>1, <1>6
<1>8. \A i, j \in 1 .. n : i < j => h[i] < h[j]
  BY <1>6
<1>9. \A i \in 1 .. n : h[i] = i
  <2> HIDE DEF h
  <2>1. RisesUpTo(h, n)
    BY <1>8 DEF RisesUpTo
  <2>2. n \in Nat
    BY <1>1
  <2> QED
    BY <1>7, <2>1, <2>2, RisingNumbers
<1>10. \A i \in 1 .. n : s[i] = f[i]
  BY <1>1, <1>6, <1>9
<1>11. [i \in DOMAIN s |-> s[i].content] = Contents(n, f)
  BY <1>6, <1>10 DEF Contents
<1>12. Joined(g) = FlattenSeq([i \in DOMAIN s |-> s[i].content])
  BY <1>5 DEF Joined
<1> QED
  BY <1>11, <1>12

-------------------------------------------------------------------------------
(* The parts in the cache, and what they make.                             *)

\* What is stored of a PDU that holds a part, if its content can be decoded.
StoredPart(pdu) ==
  [ExtractMultipart(pdu) EXCEPT
     !.content = Decode(ExtractMultipart(pdu).content, ReadingCodec(pdu.coding)).text]

IsStored(p, pdu) ==
  /\ ExtractMultipart(pdu) # None /\ ReadingCodec(pdu.coding) # None
  /\ Decode(ExtractMultipart(pdu).content, ReadingCodec(pdu.coding)).rest = << >>
  /\ p = StoredPart(pdu)

\* What the parts of o are decoded to, under reference r.
TextOfPart(o, i) == Decode(PartsOf(o)[i], Reading(o)).text
StoredOf(o, r) ==
  [i \in 1 .. Len(PartsOf(o)) |-> Part(r, Len(PartsOf(o)), i, TextOfPart(o, i))]

\* The PDUs in s are of the parts of o, and that is what is stored of them.
AreStored(s, o, r) ==
  \A i \in 1 .. Len(s) : /\ ExtractMultipart(s[i]) # None
                         /\ StoredPart(s[i]) = StoredOf(o, r)[i]
                         /\ ExtractMultipart(s[i]).content = PartsOf(o)[i]
                         /\ ReadingCodec(s[i].coding) = Reading(o)

\* A text with a PDU that holds a part is sent as parts; what is stored of them.
LEMMA PartsStored ==
  ASSUME NEW o \in Originals, NEW s, TextSent(s, o), NEW k \in 1 .. Len(s),
         ExtractMultipart(s[k]) # None
  PROVE  /\ Len(s) = Len(PartsOf(o)) /\ Len(s) \in Nat
         /\ \E r \in Nat : AreStored(s, o, r)
<1>1. ArePartsOf(s, o)
  <2>1. OnePiece(s, o) => k = 1 /\ ExtractMultipart(s[1]) = None
    BY DEF OnePiece
  <2> QED
    BY <2>1 DEF TextSent
<1>2. /\ Encodable(Text[o], WritingCodec(o))
      /\ \A i \in 1 .. Len(s) : ReadingCodec(s[i].coding) = Reading(o)
  BY SentContent DEF TextSent
<1>3. PICK parts, n : parts = PartsOf(o) /\ n = Len(parts)
  OBVIOUS
<1>4. n \in Nat /\ \A i \in 1 .. n : parts[i] \in Seq(Nat)
  <2>1. TextOctets[o] \in Seq(Nat) /\ PartLength[Coding[o]] \in Nat \ {0}
    BY <1>2, Encoded
  <2> QED
    BY <1>3, <2>1, SplitParts DEF PartsOf
<1>5. Len(s) = n
  BY <1>1, <1>3 DEF ArePartsOf
<1>6. PICK r \in Nat : \A i \in 1 .. n : ExtractMultipart(s[i]) = Part(r, n, i, parts[i])
  BY <1>1, <1>3, <1>5 DEF ArePartsOf
<1>7. ASSUME NEW i \in 1 .. n
      PROVE  /\ ExtractMultipart(s[i]) # None
             /\ StoredPart(s[i]) = StoredOf(o, r)[i]
             /\ ExtractMultipart(s[i]).content = parts[i]
  <2>1. ExtractMultipart(s[i]) = Part(r, n, i, parts[i]) /\ ReadingCodec(s[i].coding) = Reading(o)
    BY <1>2, <1>5, <1>6
  <2>2. parts[i] \in Seq(Nat) /\ i \in Nat
    BY <1>4
  <2>3. ExtractMultipart(s[i]) # None
    BY <1>4, <2>1, <2>2, PartIsSome
  <2>4. ExtractMultipart(s[i]).content = parts[i]
    BY <2>1 DEF Part
  <2>5. PICK x, t : x = Part(r, n, i, parts[i]) /\ t = TextOfPart(o, i)
    OBVIOUS
  <2>6. Decode(x.content, ReadingCodec(s[i].coding)).text = t
    BY <1>3, <2>1, <2>4, <2>5 DEF TextOfPart
  <2>7. StoredPart(s[i]) = [x EXCEPT !.content = t]
    BY <2>1, <2>5, <2>6 DEF StoredPart
  <2>8. [x EXCEPT !.content = t] = Part(r, n, i, t)
    BY <2>5 DEF Part
  <2>9. StoredOf(o, r)[i] = Part(r, n, i, t)
    BY <1>3, <2>5 DEF StoredOf
  <2> QED
    BY <2>3, <2>4, <2>7, <2>8, <2>9
<1>8. AreStored(s, o, r)
  BY <1>2, <1>3, <1>5, <1>7 DEF AreStored
<1> QED
  BY <1>3, <1>4, <1>5, <1>8

\* The key and the number of what is stored of a text.
LEMMA StoredFields ==
  ASSUME NEW o \in Originals, NEW s, NEW r, AreStored(s, o, r), Len(s) = Len(PartsOf(o)),
         NEW i \in 1 .. Len(s)
  PROVE  /\ StoredPart(s[i]).ref = r
         /\ StoredPart(s[i]).total = Len(s) /\ StoredPart(s[i]).number = i
<1>1. PICK n, x : n = Len(s) /\ x = TextOfPart(o, i)
  OBVIOUS
<1>2. StoredPart(s[i]) = StoredOf(o, r)[i]
  BY DEF AreStored
<1>3. StoredOf(o, r)[i] = Part(r, n, i, x)
  BY <1>1 DEF StoredOf
<1>4. Part(r, n, i, x).ref = r /\ Part(r, n, i, x).total = n /\ Part(r, n, i, x).number = i
  BY DEF Part
<1> QED
  BY <1>1, <1>2, <1>3, <1>4

\* The PDUs of o, decoded one by one.
ContentsOf(s) == [i \in 1 .. Len(s) |-> Content(s[i])]
TextsRead(o, s) == [i \in 1 .. Len(s) |-> Decode(Content(s[i]), Reading(o)).text]

\* FlattenSeq of one sequence is that.
LEMMA FlattenOne ==
  ASSUME NEW S, NEW x \in Seq(S)
  PROVE  FlattenSeq(<< x >>) = x
<1> DEFINE T == Seq(S)
<1>1. << >> \in Seq(T) /\ x \in T
  BY EmptySeq
<1>2. << x >> = Append(<< >>, x)
  OBVIOUS
<1>3. FlattenSeq(Append(<< >>, x)) = FlattenSeq(<< >>) \o x
  BY <1>1, FlattenAppend
<1>4. << >> \o x = x
  BY ConcatEmptySeq
<1> QED
  BY <1>2, <1>3, <1>4, FlattenEmpty

\* What the PDUs of o hold, together, is what o was encoded to.
LEMMA ContentsMakeText ==
  ASSUME NEW o \in Originals, NEW s, ArePdus(s), s # << >>, TextSent(s, o)
  PROVE  ContentsOf(s) \in Seq(Seq(Nat)) /\ FlattenSeq(ContentsOf(s)) = TextOctets[o]
<1>1. Len(s) \in Nat /\ DOMAIN s = 1 .. Len(s) /\ Len(s) # 0
  BY DEF ArePdus
<1>2. TextOctets[o] \in Seq(Nat) /\ PartLength[Coding[o]] \in Nat \ {0}
  BY Encoded DEF TextSent
<1>3. CASE ArePartsOf(s, o)
  <2>1. PICK parts, t, z : parts = PartsOf(o) /\ t = TextOctets[o] /\ z = PartLength[Coding[o]]
    OBVIOUS
  <2>2. t \in Seq(Nat) /\ z \in Nat \ {0} /\ parts = Split(t, z)
    BY <1>2, <2>1 DEF PartsOf
  <2>3. Len(parts) \in Nat /\ parts \in Seq(Seq(Nat)) /\ FlattenSeq(parts) = t
    BY <2>2, SplitParts, SplitWhole
  <2>4. Len(s) = Len(parts)
    BY <1>3, <2>1 DEF ArePartsOf
  <2>5. \A i \in 1 .. Len(s) : Content(s[i]) = parts[i]
    <3> TAKE i \in 1 .. Len(s)
    <3>1. PICK r \in Nat : ExtractMultipart(s[i]) = Part(r, Len(parts), i, parts[i])
      BY <1>3, <2>1, <2>4 DEF ArePartsOf
    <3>2. Len(parts) \in Nat /\ parts[i] \in Seq(Nat) /\ i \in Nat
      BY <2>2, <2>4, SplitParts
    <3>3. ExtractMultipart(s[i]) # None
      BY <3>1, <3>2, PartIsSome
    <3> QED
      BY <3>1, <3>3 DEF Content, Part
  <2>6. parts = [i \in 1 .. Len(parts) |-> parts[i]]
    <3> DEFINE T == Seq(Nat)
    <3>1. parts \in Seq(T)
      BY <2>3
    <3> HIDE DEF T
    <3> QED
      BY <3>1
  <2>7. ContentsOf(s) = parts
    BY <2>4, <2>5, <2>6 DEF ContentsOf
  <2> QED
    BY <2>1, <2>3, <2>7
<1>4. CASE OnePiece(s, o)
  <2>1. PICK x : x = Content(s[1])
    OBVIOUS
  <2>2. Len(s) = 1 /\ x = TextOctets[o]
    BY <1>4, <2>1 DEF OnePiece, Content
  <2>3. ContentsOf(s) = << x >>
    <3>1. \A i \in 1 .. 1 : Content(s[i]) = x
      BY <2>1
    <3>2. ContentsOf(s) = [i \in 1 .. 1 |-> x]
      BY <2>2, <3>1 DEF ContentsOf
    <3> QED
      BY <3>2
  <2>4. x \in Seq(Nat)
    BY <1>2, <2>2
  <2>5. << x >> \in Seq(Seq(Nat))
    <3> DEFINE T == Seq(Nat)
    <3>1. x \in T
      BY <2>4
    <3> HIDE DEF T
    <3>2. << x >> \in Seq(T)
      BY <3>1
    <3> QED
      BY <3>2 DEF T
  <2> QED
    BY <2>2, <2>3, <2>4, <2>5, FlattenOne
<1> QED
  BY <1>3, <1>4 DEF TextSent

\* The pieces of a text are what its PDUs hold.
LEMMA PiecesAreContents ==
  ASSUME NEW o \in Originals, NEW s, s = pdus[o], ArePdus(s), s # << >>, TextSent(s, o)
  PROVE  DOMAIN CutInto(o) = 1 .. Len(s) /\ \A i \in 1 .. Len(s) : CutInto(o)[i] = Content(s[i])
<1>1. PICK n : n = Len(s)
  OBVIOUS
<1>2. n \in Nat /\ n # 0
  BY <1>1 DEF ArePdus
<1>3. TextOctets[o] \in Seq(Nat) /\ PartLength[Coding[o]] \in Nat \ {0}
  BY Encoded DEF TextSent
<1>4. CASE n > 1
  <2>1. CutInto(o) = PartsOf(o)
    BY <1>1, <1>4 DEF CutInto, PartsOf
  <2>2. PartsOf(o) \in Seq(Seq(Nat)) /\ Len(PartsOf(o)) \in Nat
    BY <1>1, <1>3, SplitParts DEF PartsOf
  <2>3. Len(PartsOf(o)) = n /\ \A i \in 1 .. n : Content(s[i]) = PartsOf(o)[i]
    <3>1. \A i \in 1 .. n : Len(s) = Len(PartsOf(o)) /\ Content(s[i]) = PartsOf(o)[i]
      BY <1>1, <1>4, SentContent
    <3> QED
      BY <1>1, <1>2, <3>1
  <2>4. DOMAIN PartsOf(o) = 1 .. n
    <3> DEFINE T == Seq(Nat)
    <3>1. PartsOf(o) \in Seq(T)
      BY <2>2
    <3> HIDE DEF T
    <3> QED
      BY <2>3, <3>1, LenProperties
  <2> QED
    BY <1>1, <2>1, <2>3, <2>4
<1>5. CASE n = 1
  <2>1. CutInto(o) = << TextOctets[o] >>
    BY <1>1, <1>5 DEF CutInto
  <2>2. ContentsOf(s) = << Content(s[1]) >>
    BY <1>1, <1>5 DEF ContentsOf
  <2>3. Content(s[1]) \in Seq(Nat)
    BY <1>1, <1>5, SentContent
  <2>4. FlattenSeq(ContentsOf(s)) = Content(s[1])
    BY <2>2, <2>3, FlattenOne
  <2>5. Content(s[1]) = TextOctets[o]
    BY <1>1, <2>4, ContentsMakeText
  <2> QED
    BY <1>1, <1>5, <2>1, <2>5
<1> QED
  BY <1>2, <1>4, <1>5

\* When each PDU of o is decoded whole, a message of o's text holds what they hold one
\* by one, also where it holds the text.
LEMMA ReadTogether ==
  ASSUME NEW o \in Originals, ArePdus(pdus[o]), pdus[o] # << >>, TextSent(pdus[o], o),
         Reading(o) # None,
         \A i \in 1 .. Len(pdus[o]) : Decode(Content(pdus[o][i]), Reading(o)).rest = << >>
  PROVE  TextRead(o) = FlattenSeq(TextsRead(o, pdus[o]))
<1>1. PICK s, codec, n : s = pdus[o] /\ codec = Reading(o) /\ n = Len(s)
  OBVIOUS
<1>2. n \in Nat /\ DOMAIN s = 1 .. n
  BY <1>1 DEF ArePdus
<1>3. ReadOneByOne(o) = FlattenSeq(TextsRead(o, s))
  <2>1. DOMAIN CutInto(o) = 1 .. n /\ \A i \in 1 .. n : CutInto(o)[i] = Content(s[i])
    BY <1>1, PiecesAreContents
  <2>2. [i \in DOMAIN CutInto(o) |-> Decode(CutInto(o)[i], Reading(o)).text] = TextsRead(o, s)
    BY <1>1, <2>1 DEF TextsRead
  <2> QED
    BY <2>2 DEF ReadOneByOne
<1>4. CASE Readable(o) /\ (Modes(codec) = {codec.start} \/ CutBetweenCharacters(o))
  <2>1. IsCodec(codec)
    BY <1>1, ReadingIs
  <2>2. PICK parts, texts : parts = ContentsOf(s) /\ texts = TextsRead(o, s)
    OBVIOUS
  <2>3. parts \in Seq(Seq(Nat)) /\ FlattenSeq(parts) = TextOctets[o]
    BY <1>1, <2>2, ContentsMakeText
  <2>4. Len(parts) = n
    <3>1. DOMAIN parts = 1 .. n
      BY <1>1, <2>2 DEF ContentsOf
    <3>2. Len(parts) \in Nat /\ DOMAIN parts = 1 .. Len(parts)
      <4> DEFINE T == Seq(Nat)
      <4>1. parts \in Seq(T)
        BY <2>3
      <4> HIDE DEF T
      <4> QED
        BY <4>1, LenProperties
    <3> QED
      BY <1>2, <3>1, <3>2
  <2> DEFINE T == Seq(Alphabet(codec))
  <2>5. ASSUME NEW i \in 1 .. n
        PROVE  texts[i] \in T /\ Decode(parts[i], codec) = Decoding(texts[i], << >>, codec.start)
    <3>1. PICK d : d = Decode(parts[i], codec)
      OBVIOUS
    <3>2. parts[i] = Content(s[i]) /\ texts[i] = d.text
      BY <1>1, <2>2, <3>1 DEF ContentsOf, TextsRead
    <3>3. Content(s[i]) \in Seq(Nat)
      BY <1>1, SentContent
    <3>4. d \in Decodings(codec)
      BY <2>1, <3>1, <3>2, <3>3, DecodeType
    <3>5. d.rest = << >>
      BY <1>1, <3>1, <3>2
    <3>6. d.mode = codec.start
      <4>1. CASE Modes(codec) = {codec.start}
        BY <3>4, <4>1, DecodingsAre
      <4>2. CASE CutBetweenCharacters(o)
        <5>1. \A k \in 1 .. Len(s) - 1 : k * PartLength[Coding[o]] \in Boundaries(o)
          BY <1>1, <4>2 DEF CutBetweenCharacters
        <5> QED
          BY <1>1, <1>4, <3>1, <3>2, <5>1, UncutDecodes
      <4> QED
        BY <1>4, <4>1, <4>2
    <3> QED
      BY <3>1, <3>2, <3>4, <3>5, <3>6, DecodingsAre
  <2>6. texts \in Seq(T) /\ Len(texts) = n
    <3>1. DOMAIN texts = 1 .. n /\ texts = [i \in 1 .. n |-> texts[i]]
      BY <1>1, <2>2 DEF TextsRead
    <3> HIDE DEF T
    <3>2. texts \in [1 .. n -> T]
      BY <2>5, <3>1
    <3>3. texts \in Seq(T)
      BY <1>2, <3>2
    <3>4. Len(texts) \in Nat /\ DOMAIN texts = 1 .. Len(texts)
      BY <3>3, LenProperties
    <3>5. Len(texts) = n
      BY <1>2, <3>1, <3>4
    <3> QED
      BY <3>3, <3>5
  <2>7. Decode(FlattenSeq(parts), codec) = Decoding(FlattenSeq(texts), << >>, codec.start)
    <3>1. texts \in Seq(Seq(Alphabet(codec))) /\ Len(texts) = Len(parts)
      BY <2>4, <2>6
    <3>2. \A i \in 1 .. Len(parts) :
            Decode(parts[i], codec) = Decoding(texts[i], << >>, codec.start)
      BY <2>4, <2>5
    <3> QED
      BY <2>1, <2>3, <3>1, <3>2, DecodeParts
  <2>8. Decode(TextOctets[o], codec) = Decoding(Text[o], << >>, codec.start)
    BY <1>1, <1>4, WholeDecodes
  <2>9. FlattenSeq(texts) = Text[o]
    BY <2>3, <2>7, <2>8, DecodingFields
  <2> QED
    BY <1>1, <1>4, <2>2, <2>9 DEF TextRead
<1>5. CASE ~(Readable(o) /\ (Modes(codec) = {codec.start} \/ CutBetweenCharacters(o)))
  BY <1>1, <1>3, <1>5 DEF TextRead
<1> QED
  BY <1>4, <1>5

\* All the parts of o that were stored, together, are what its PDUs hold one by one.
LEMMA StoredMakeText ==
  ASSUME NEW o \in Originals, Encodable(Text[o], WritingCodec(o)), NEW r \in Nat, NEW g,
         IsFiniteSet(g), Cardinality(g) = Len(PartsOf(o)),
         \A q \in g : q.number \in 1 .. Len(PartsOf(o)) /\ q = StoredOf(o, r)[q.number]
  PROVE  /\ Joined(g) = FlattenSeq([i \in 1 .. Len(PartsOf(o)) |-> TextOfPart(o, i)])
         /\ \A i \in 1 .. Len(PartsOf(o)) : \E q \in g : q.number = i
<1>1. PICK n, f : n = Len(PartsOf(o)) /\ f = StoredOf(o, r)
  OBVIOUS
<1>2. n \in Nat
  BY <1>1, Encoded, SplitParts DEF PartsOf
<1>3. \A i \in 1 .. n : f[i].number = i /\ f[i].content = TextOfPart(o, i)
  <2> TAKE i \in 1 .. n
  <2>1. PICK x, t : x = f[i] /\ t = TextOfPart(o, i)
    OBVIOUS
  <2>2. x = [ref |-> r, total |-> n, number |-> i, content |-> t]
    BY <1>1, <2>1 DEF Part, StoredOf
  <2>3. x.number = i /\ x.content = t
    BY <2>2
  <2> QED
    BY <2>1, <2>3
<1>4. \A q \in g : q.number \in 1 .. n /\ q = f[q.number]
  BY <1>1
<1>5. OneOfEach(n, f, g)
  BY <1>1, <1>2, <1>3, <1>4 DEF OneOfEach
<1>6. Contents(n, f) = [i \in 1 .. n |-> TextOfPart(o, i)]
  BY <1>3 DEF Contents
<1>7. \A p, q \in g : p.number = q.number => p = q
  BY <1>4
<1>8. \A i \in 1 .. n : \E q \in g : q.number = i
  BY <1>1, <1>2, <1>4, <1>7, AllNumbers
<1> QED
  BY <1>1, <1>5, <1>6, <1>8, JoinsInOrder

CachedInv == \A p \in cache : \E o \in Originals : \E i \in DOMAIN pdus[o] : IsStored(p, pdus[o][i])

\* What is stored keeps its key and its number.
LEMMA StoredKey ==
  ASSUME NEW pdu, IsPdu(pdu), ExtractMultipart(pdu) # None
  PROVE  /\ StoredPart(pdu).ref = ExtractMultipart(pdu).ref
         /\ StoredPart(pdu).total = ExtractMultipart(pdu).total
         /\ StoredPart(pdu).number = ExtractMultipart(pdu).number
<1>1. PICK part, t : /\ part = ExtractMultipart(pdu)
                     /\ t = Decode(ExtractMultipart(pdu).content, ReadingCodec(pdu.coding)).text
  OBVIOUS
<1>2. IsPart(part)
  BY <1>1, FoundPart
<1>3. /\ [part EXCEPT !.content = t].ref = part.ref
      /\ [part EXCEPT !.content = t].total = part.total
      /\ [part EXCEPT !.content = t].number = part.number
  BY <1>2 DEF IsPart
<1> QED
  BY <1>1, <1>3 DEF StoredPart

\* Parts under one key are of one text.
LEMMA OneText ==
  ASSUME SendInv, KeysApart, NEW o \in Originals, NEW i \in DOMAIN pdus[o],
         NEW e \in Originals, NEW j \in DOMAIN pdus[e], NEW p, NEW q,
         IsStored(p, pdus[o][i]), IsStored(q, pdus[e][j]), SameKey(p, q)
  PROVE  e = o
<1>1. PICK a, b : a = pdus[o][i] /\ b = pdus[e][j]
  OBVIOUS
<1>2. IsPdu(a) /\ IsPdu(b)
  BY <1>1 DEF SendInv, ArePdus
<1>3. /\ ExtractMultipart(a) # None /\ p = StoredPart(a)
      /\ ExtractMultipart(b) # None /\ q = StoredPart(b)
  BY <1>1 DEF IsStored
<1>4. /\ p.ref = ExtractMultipart(a).ref /\ p.total = ExtractMultipart(a).total
      /\ q.ref = ExtractMultipart(b).ref /\ q.total = ExtractMultipart(b).total
  BY <1>2, <1>3, StoredKey
<1>5. SameKey(ExtractMultipart(a), ExtractMultipart(b))
  BY <1>4 DEF SameKey
<1> QED
  BY <1>1, <1>3, <1>5 DEF KeysApart

\* What store_multipart returns when the last part comes is what the text of that part
\* is read as.
LEMMA CompletesText ==
  ASSUME SendInv, SentTextInv, CacheOK(cache), CachedInv, KeysApart,
         NEW o \in Originals, NEW i \in DOMAIN pdus[o], NEW p, IsStored(p, pdus[o][i]), Complete(p)
  PROVE  Joined(Gathered(p)) = TextRead(o)
<1>1. PICK s : s = pdus[o]
  OBVIOUS
<1>2. ArePdus(s) /\ i \in 1 .. Len(s) /\ s # << >>
  BY <1>1 DEF SendInv, ArePdus
<1>3. TextSent(s, o) /\ Encodable(Text[o], WritingCodec(o))
  BY <1>1, <1>2 DEF SentTextInv, TextSent
<1>4. ExtractMultipart(s[i]) # None /\ p = StoredPart(s[i]) /\ Reading(o) # None
  BY <1>1, <1>2, <1>3, SentContent DEF IsStored
<1>5. PICK n : n = Len(PartsOf(o))
  OBVIOUS
<1>6. Len(s) = n /\ n \in Nat
  BY <1>2, <1>3, <1>4, <1>5, PartsStored
<1>7. PICK r \in Nat : AreStored(s, o, r)
  BY <1>2, <1>3, <1>4, PartsStored
<1>8. \A k \in 1 .. n : /\ StoredPart(s[k]) = StoredOf(o, r)[k]
                        /\ ExtractMultipart(s[k]).content = PartsOf(o)[k]
                        /\ ReadingCodec(s[k].coding) = Reading(o)
  BY <1>6, <1>7 DEF AreStored
<1>9. ASSUME NEW k \in 1 .. n
      PROVE  StoredPart(s[k]).number = k /\ StoredPart(s[k]).total = n
  BY <1>5, <1>6, <1>7, StoredFields
<1>10. Numbered(p) /\ p.total = n
  BY <1>2, <1>4, <1>6, <1>9 DEF Numbered
<1>11. PICK g : g = Gathered(p)
  OBVIOUS
<1>12. IsFiniteSet(g) /\ Cardinality(g) = n
  BY <1>10, <1>11, GatheredParts DEF Complete
<1>13. ASSUME NEW q \in g PROVE \E k \in 1 .. n : IsStored(q, s[k])
  <2>1. CASE q = p
    BY <1>1, <1>2, <1>6, <2>1
  <2>2. CASE q \in cache /\ SameKey(p, q)
    <3>1. PICK e \in Originals : \E j \in DOMAIN pdus[e] : IsStored(q, pdus[e][j])
      BY <2>2 DEF CachedInv
    <3>2. PICK j \in DOMAIN pdus[e] : IsStored(q, pdus[e][j])
      BY <3>1
    <3>3. e = o
      BY <2>2, <3>2, OneText
    <3>4. j \in 1 .. n
      BY <1>1, <1>2, <1>6, <3>3 DEF ArePdus
    <3> QED
      BY <1>1, <3>2, <3>3, <3>4
  <2> QED
    BY <1>11, <2>1, <2>2 DEF Gathered
<1>14. ASSUME NEW q \in g
       PROVE  /\ q.number \in 1 .. n /\ q = StoredOf(o, r)[q.number]
              /\ Decode(PartsOf(o)[q.number], Reading(o)).rest = << >>
  <2>1. PICK k \in 1 .. n : IsStored(q, s[k])
    BY <1>13
  <2>2. q = StoredPart(s[k]) /\ q.number = k
    BY <1>9, <2>1 DEF IsStored
  <2>3. Decode(PartsOf(o)[k], Reading(o)).rest = << >>
    BY <1>8, <2>1 DEF IsStored
  <2> QED
    BY <1>8, <2>2, <2>3
<1>15. /\ Joined(g) = FlattenSeq([k \in 1 .. n |-> TextOfPart(o, k)])
       /\ \A k \in 1 .. n : \E q \in g : q.number = k
  BY <1>3, <1>5, <1>12, <1>14, StoredMakeText
<1>16. \A k \in 1 .. n : Content(s[k]) = PartsOf(o)[k]
  <2> TAKE k \in 1 .. n
  <2>1. k \in 1 .. Len(s) /\ ExtractMultipart(s[k]) # None
    BY <1>6, <1>7 DEF AreStored
  <2> QED
    BY <1>8, <2>1 DEF Content
<1>17. \A k \in 1 .. n : Decode(Content(s[k]), Reading(o)).rest = << >>
  BY <1>14, <1>15, <1>16
<1>18. TextsRead(o, s) = [k \in 1 .. n |-> TextOfPart(o, k)]
  BY <1>6, <1>16 DEF TextsRead, TextOfPart
<1>19. TextRead(o) = FlattenSeq(TextsRead(o, s))
  BY <1>1, <1>2, <1>3, <1>4, <1>6, <1>17, ReadTogether
<1> QED
  BY <1>11, <1>15, <1>18, <1>19

\* Where a part of a text is stored from.
LEMMA StoredFrom ==
  ASSUME SendInv, SentTextInv, NEW o \in Originals, NEW i \in DOMAIN pdus[o],
         ExtractMultipart(pdus[o][i]) # None
  PROVE  \E r \in Nat : /\ Len(pdus[o]) \in Nat /\ DOMAIN pdus[o] = 1 .. Len(pdus[o])
                        /\ Len(pdus[o]) = Len(PartsOf(o)) /\ AreStored(pdus[o], o, r)
<1>1. PICK s : s = pdus[o]
  OBVIOUS
<1>2. Len(s) \in Nat /\ DOMAIN s = 1 .. Len(s) /\ i \in 1 .. Len(s) /\ s # << >>
  BY <1>1 DEF SendInv, ArePdus
<1>3. TextSent(s, o)
  BY <1>1, <1>2 DEF SentTextInv
<1>4. Len(s) = Len(PartsOf(o)) /\ \E r \in Nat : AreStored(s, o, r)
  BY <1>1, <1>2, <1>3, PartsStored
<1> QED
  BY <1>1, <1>2, <1>4

\* A PDU that is no part, and is decoded whole, holds what the text is read as.
LEMMA WholeText ==
  ASSUME SendInv, SentTextInv, NEW o \in Originals, NEW i \in DOMAIN pdus[o],
         ExtractMultipart(pdus[o][i]) = None, ~Undecodable(pdus[o][i])
  PROVE  /\ Decode(GetText(pdus[o][i]), ReadingCodec(pdus[o][i].coding)).text = TextRead(o)
         /\ Reading(o) # None
<1>1. PICK s : s = pdus[o]
  OBVIOUS
<1>2. ArePdus(s) /\ i \in 1 .. Len(s) /\ s # << >>
  BY <1>1 DEF SendInv, ArePdus
<1>3. TextSent(s, o)
  BY <1>1, <1>2 DEF SentTextInv
<1>4. /\ ReadingCodec(s[i].coding) = Reading(o) /\ Content(s[i]) \in Seq(Nat)
      /\ Len(s) = 1 /\ i = 1 /\ Content(s[i]) = GetText(s[i])
  BY <1>1, <1>2, <1>3, SentContent
<1>5. Reading(o) # None /\ Decode(Content(s[i]), Reading(o)).rest = << >>
  BY <1>1, <1>4 DEF Undecodable
<1>6. TextRead(o) = FlattenSeq(TextsRead(o, s))
  <2>1. \A k \in 1 .. Len(s) : k = i
    BY <1>4
  <2>2. \A k \in 1 .. Len(s) : Decode(Content(s[k]), Reading(o)).rest = << >>
    BY <1>5, <2>1
  <2> QED
    BY <1>1, <1>2, <1>3, <1>5, <2>2, ReadTogether
<1>7. PICK x : x = Decode(Content(s[i]), Reading(o)).text
  OBVIOUS
<1>8. TextsRead(o, s) = << x >>
  BY <1>4, <1>7 DEF TextsRead
<1>9. x \in Seq(Alphabet(Reading(o)))
  <2>1. IsCodec(Reading(o))
    BY <1>5, ReadingIs
  <2>2. Decode(Content(s[i]), Reading(o)) \in Decodings(Reading(o))
    BY <1>4, <2>1, DecodeType
  <2> QED
    BY <1>7, <2>2, DecodingsAre
<1>10. FlattenSeq(<< x >>) = x
  BY <1>9, FlattenOne
<1> QED
  BY <1>1, <1>4, <1>5, <1>6, <1>7, <1>8, <1>10

SentStays == \A o \in Originals : \A i \in DOMAIN pdus[o] : pdus'[o] = pdus[o]

\* A text that was sent is not sent again.
LEMMA SentIsKept ==
  ASSUME SendInv, [Next]_vars
  PROVE  SentStays
<1>1. ASSUME NEW o \in Originals, Submit(o) PROVE SentStays
  <2>1. pdus[o] = << >> /\ DOMAIN pdus = Originals
    BY <1>1 DEF Submit, NextToSend, Unsent, SendInv
  <2>2. \A e \in Originals : e # o => pdus'[e] = pdus[e]
    BY <1>1, <2>1 DEF Submit
  <2>3. DOMAIN pdus[o] = {}
    BY <2>1
  <2> QED
    BY <2>2, <2>3 DEF SentStays
<1>2. CASE UNCHANGED pdus
  BY <1>2 DEF SentStays
<1>3. ASSUME NEW o \in Originals, SubmitRaises(o) PROVE UNCHANGED pdus
  BY <1>3 DEF SubmitRaises
<1>4. ASSUME NEW o \in Originals, NEW i \in DOMAIN pdus[o], Deliver(o, i) \/ Handle(o, i)
      PROVE  UNCHANGED pdus
  BY <1>4 DEF Deliver, Handle, HandleReport, HandlePart, HandleWhole, HandleRaises, Extracts, sendVars
<1>5. ASSUME NEW n \in ReadSizes, Reads(n) PROVE UNCHANGED pdus
  BY <1>5 DEF Reads, sendVars
<1>6. ASSUME StopsExtracting \/ Restart \/ UNCHANGED vars PROVE UNCHANGED pdus
  BY <1>6 DEF StopsExtracting, Restart, vars, sendVars
<1> QED
  BY <1>1, <1>2, <1>3, <1>4, <1>5, <1>6 DEF Next

\* What a text that was sent is read as does not change.
LEMMA WholeStays ==
  ASSUME SentStays, NEW o \in Originals, NEW i \in DOMAIN pdus[o]
  PROVE  pdus'[o] = pdus[o] /\ Whole(o)' = Whole(o)
<1>1. pdus'[o] = pdus[o]
  BY DEF SentStays
<1>2. ReadOneByOne(o)' = ReadOneByOne(o) /\ CutBetweenCharacters(o)' = CutBetweenCharacters(o)
  BY <1>1 DEF ReadOneByOne, CutInto, CutBetweenCharacters
<1> QED
  BY <1>1, <1>2 DEF Whole, Message, TextRead

\* The part that HandlePart stores.
LEMMA PartIsStored ==
  ASSUME NEW o \in Originals, NEW i \in DOMAIN pdus[o], HandlePart(o, i)
  PROVE  \E p : /\ IsStored(p, pdus[o][i]) /\ StoreMultipart(p)
                /\ emitted' = IF Complete(p) THEN emitted \cup {Message(o, Joined(Gathered(p)))}
                              ELSE emitted
<1> DEFINE p == StoredPart(pdus[o][i])
<1>1. IsStored(p, pdus[o][i])
  BY DEF IsStored, HandlePart, Undecodable, Content
<1>2. /\ StoreMultipart(p)
      /\ emitted' = IF Complete(p) THEN emitted \cup {Message(o, Joined(Gathered(p)))} ELSE emitted
  BY DEF HandlePart, StoredPart
<1> QED
  BY <1>1, <1>2

\* Whatever is in the cache is a part of a text that was sent, decoded.
LEMMA CachedNext ==
  ASSUME SendInv, CachedInv, [Next]_vars
  PROVE  CachedInv'
<1>1. SentStays
  BY SentIsKept
<1>2. ASSUME NEW p \in cache' \cap cache
      PROVE  \E o \in Originals : \E i \in DOMAIN pdus'[o] : IsStored(p, pdus'[o][i])
  <2>1. PICK o \in Originals : \E i \in DOMAIN pdus[o] : IsStored(p, pdus[o][i])
    BY <1>2 DEF CachedInv
  <2>2. PICK i \in DOMAIN pdus[o] : IsStored(p, pdus[o][i])
    BY <2>1
  <2>3. pdus'[o] = pdus[o]
    BY <1>1, <2>2 DEF SentStays
  <2> QED
    BY <2>2, <2>3
<1>3. ASSUME NEW o \in Originals, NEW i \in DOMAIN pdus[o], HandlePart(o, i) PROVE CachedInv'
  <2>1. PICK p : IsStored(p, pdus[o][i]) /\ StoreMultipart(p)
    BY <1>3, PartIsStored
  <2>2. cache' \subseteq cache \cup {p}
    BY <2>1 DEF StoreMultipart, Others, Gathered
  <2>3. pdus'[o] = pdus[o]
    BY <1>1 DEF SentStays
  <2>4. \E e \in Originals : \E j \in DOMAIN pdus'[e] : IsStored(p, pdus'[e][j])
    BY <2>1, <2>3
  <2> QED
    BY <1>2, <2>2, <2>4 DEF CachedInv
<1>4. CASE cache' \subseteq cache
  BY <1>2, <1>4 DEF CachedInv
<1>5. ASSUME NEW o \in Originals, Submit(o) \/ SubmitRaises(o) PROVE UNCHANGED cache
  BY <1>5 DEF Submit, SubmitRaises
<1>6. ASSUME NEW o \in Originals, NEW i \in DOMAIN pdus[o],
             Deliver(o, i) \/ HandleReport(o, i) \/ HandleWhole(o, i) \/ HandleRaises(o, i)
      PROVE  UNCHANGED cache
  BY <1>6 DEF Deliver, HandleReport, HandleWhole, HandleRaises
<1>7. ASSUME NEW n \in ReadSizes, Reads(n) PROVE UNCHANGED cache
  BY <1>7 DEF Reads
<1>8. ASSUME StopsExtracting \/ UNCHANGED vars PROVE UNCHANGED cache
  BY <1>8 DEF StopsExtracting, vars
<1>9. Restart => cache' = {}
  BY DEF Restart
<1> QED
  BY <1>3, <1>4, <1>5, <1>6, <1>7, <1>8, <1>9 DEF Next, Handle

\* What is stored was read with the codec of its text.
LEMMA StoredRead ==
  ASSUME SendInv, SentTextInv, NEW o \in Originals, NEW i \in DOMAIN pdus[o], NEW p,
         IsStored(p, pdus[o][i])
  PROVE  Reading(o) # None
<1>1. PICK s : s = pdus[o]
  OBVIOUS
<1>2. i \in 1 .. Len(s) /\ s # << >>
  BY <1>1 DEF SendInv, ArePdus
<1>3. TextSent(s, o)
  BY <1>1, <1>2 DEF SentTextInv
<1> QED
  BY <1>1, <1>2, <1>3, SentContent DEF IsStored

\* What is handed on when a PDU is handled.
LEMMA HandedOn ==
  ASSUME SendInv, SentTextInv, CacheOK(cache), CachedInv, KeysApart,
         NEW o \in Originals, NEW i \in DOMAIN pdus[o], Handle(o, i)
  PROVE  emitted' = emitted \/ (emitted' = emitted \cup {Whole(o)} /\ Reading(o) # None)
<1>1. CASE HandlePart(o, i)
  <2>1. PICK p : /\ IsStored(p, pdus[o][i])
                 /\ emitted' = IF Complete(p) THEN emitted \cup {Message(o, Joined(Gathered(p)))}
                               ELSE emitted
    BY <1>1, PartIsStored
  <2>2. CASE Complete(p)
    <3>1. Joined(Gathered(p)) = TextRead(o)
      BY <2>1, <2>2, CompletesText
    <3>2. Reading(o) # None
      BY <2>1, StoredRead
    <3> QED
      BY <2>1, <2>2, <3>1, <3>2 DEF Whole
  <2>3. CASE ~Complete(p)
    BY <2>1, <2>3
  <2> QED
    BY <2>2, <2>3
<1>2. CASE HandleWhole(o, i)
  <2>1. /\ Decode(GetText(pdus[o][i]), ReadingCodec(pdus[o][i].coding)).text = TextRead(o)
        /\ Reading(o) # None
    BY <1>2, WholeText DEF HandleWhole
  <2> QED
    BY <1>2, <2>1 DEF HandleWhole, Whole
<1>3. CASE HandleReport(o, i) \/ HandleRaises(o, i)
  BY <1>3 DEF HandleReport, HandleRaises
<1> QED
  BY <1>1, <1>2, <1>3 DEF Handle

\* Nothing but a PDU that is handled has something handed on.
LEMMA OtherwiseSame ==
  ASSUME [Next]_vars
  PROVE  \/ \E o \in Originals : \E i \in DOMAIN pdus[o] : Handle(o, i)
         \/ UNCHANGED <<emitted, answered>> /\ (Restart \/ UNCHANGED <<cache, crashes>>)
<1>1. ASSUME NEW o \in Originals, Submit(o) \/ SubmitRaises(o)
      PROVE  UNCHANGED <<emitted, answered, cache, crashes>>
  BY <1>1 DEF Submit, SubmitRaises
<1>2. ASSUME NEW o \in Originals, NEW i \in DOMAIN pdus[o], Deliver(o, i)
      PROVE  UNCHANGED <<emitted, answered, cache, crashes>>
  BY <1>2 DEF Deliver
<1>3. ASSUME NEW n \in ReadSizes, Reads(n) PROVE UNCHANGED <<emitted, answered, cache, crashes>>
  BY <1>3 DEF Reads
<1>4. ASSUME StopsExtracting \/ UNCHANGED vars
      PROVE  UNCHANGED <<emitted, answered, cache, crashes>>
  BY <1>4 DEF StopsExtracting, vars
<1>5. Restart => UNCHANGED <<emitted, answered>>
  BY DEF Restart
<1> QED
  BY <1>1, <1>2, <1>3, <1>4, <1>5 DEF Next

\* Whatever was handed on is of a text that was sent, and is read.
EmittedInv ==
  \A m \in emitted : \E o \in Originals : /\ DOMAIN pdus[o] # {} /\ Reading(o) # None
                                         /\ m = Whole(o)

LEMMA EmittedNext ==
  ASSUME SendInv, SentTextInv, CacheOK(cache), CachedInv, KeysApart, EmittedInv, [Next]_vars
  PROVE  EmittedInv'
<1>1. SentStays
  BY SentIsKept
<1>2. ASSUME NEW m \in emitted
      PROVE  \E o \in Originals : DOMAIN pdus'[o] # {} /\ Reading(o) # None /\ m = Whole(o)'
  <2>1. PICK o \in Originals : DOMAIN pdus[o] # {} /\ Reading(o) # None /\ m = Whole(o)
    BY DEF EmittedInv
  <2>2. PICK i : i \in DOMAIN pdus[o]
    BY <2>1
  <2>3. pdus'[o] = pdus[o] /\ Whole(o)' = Whole(o)
    BY <1>1, <2>2, WholeStays
  <2> QED
    BY <2>1, <2>3
<1>3. ASSUME NEW o \in Originals, NEW i \in DOMAIN pdus[o], Handle(o, i) PROVE EmittedInv'
  <2>1. pdus'[o] = pdus[o] /\ Whole(o)' = Whole(o)
    BY <1>1, WholeStays
  <2>2. emitted' = emitted \/ (emitted' = emitted \cup {Whole(o)} /\ Reading(o) # None)
    BY <1>3, HandedOn
  <2>3. DOMAIN pdus'[o] # {}
    BY <2>1
  <2> QED
    BY <1>2, <2>1, <2>2, <2>3 DEF EmittedInv
<1>4. CASE UNCHANGED emitted
  BY <1>2, <1>4 DEF EmittedInv
<1> QED
  BY <1>3, <1>4, OtherwiseSame

\* Of what was answered since the transport started, and not as a report, a part is in
\* the cache while its text has not been handed on.
KeptInv ==
  \A o \in Originals : \A i \in DOMAIN pdus[o] :
    crashes = 0 /\ <<o, i>> \in answered /\ ~IsReport(pdus[o][i]) /\ Whole(o) \notin emitted
      => \E p \in cache : IsStored(p, pdus[o][i])

\* The part that is handled stays, unless it completes the text, and no other is
\* dropped.
LEMMA KeptWhenHandled ==
  ASSUME SendInv, SentTextInv, CacheOK(cache), CachedInv, KeysApart, KeptInv,
         NEW o \in Originals, NEW i \in DOMAIN pdus[o], Handle(o, i),
         NEW e \in Originals, NEW j \in DOMAIN pdus[e], crashes = 0,
         <<e, j>> \in answered', ~IsReport(pdus[e][j]), Whole(e) \notin emitted'
  PROVE  \E q \in cache' : IsStored(q, pdus[e][j])
<1>1. emitted \subseteq emitted'
  BY HandedOn
<1>2. <<e, j>> \in answered => \E q \in cache : IsStored(q, pdus[e][j])
  BY <1>1 DEF KeptInv
<1>3. CASE HandlePart(o, i)
  <2>1. PICK p : /\ IsStored(p, pdus[o][i]) /\ StoreMultipart(p)
                 /\ emitted' = IF Complete(p) THEN emitted \cup {Message(o, Joined(Gathered(p)))}
                               ELSE emitted
    BY <1>3, PartIsStored
  <2>2. e = o => ~Complete(p)
    <3> SUFFICES ASSUME e = o, Complete(p) PROVE FALSE
      OBVIOUS
    <3>1. Joined(Gathered(p)) = TextRead(o)
      BY <2>1, CompletesText
    <3> QED
      BY <2>1, <3>1 DEF Whole
  <2>3. ~Complete(p) => cache' = Others(p) \cup Gathered(p)
    BY <2>1 DEF StoreMultipart
  <2>4. Others(p) \subseteq cache'
    BY <2>1 DEF StoreMultipart
  <2>5. CASE e = o /\ j = i
    <3>1. p \in cache'
      BY <2>2, <2>3, <2>5 DEF Gathered
    <3> QED
      BY <2>1, <2>5, <3>1
  <2>6. CASE ~(e = o /\ j = i)
    <3>1. <<e, j>> \in answered
      BY <1>3, <2>6 DEF HandlePart
    <3>2. PICK q \in cache : IsStored(q, pdus[e][j])
      BY <1>2, <3>1
    <3>3. CASE ~SameKey(p, q)
      <4>1. q \in cache'
        BY <2>4, <3>3 DEF Others
      <4> QED
        BY <3>2, <4>1
    <3>4. CASE SameKey(p, q)
      <4>1. e = o
        BY <2>1, <3>2, <3>4, OneText
      <4>2. j # i
        BY <2>6, <4>1
      <4>3. PICK s : s = pdus[o]
        OBVIOUS
      <4>4. ExtractMultipart(s[i]) # None /\ p = StoredPart(s[i]) /\ q = StoredPart(s[j])
        BY <2>1, <3>2, <4>1, <4>3 DEF IsStored
      <4>5. PICK r \in Nat : /\ Len(s) \in Nat /\ DOMAIN s = 1 .. Len(s)
                             /\ Len(s) = Len(PartsOf(o)) /\ AreStored(s, o, r)
        BY <4>3, <4>4, StoredFrom
      <4>6. i \in 1 .. Len(s) /\ j \in 1 .. Len(s)
        BY <4>1, <4>3, <4>5
      <4>7. p.number = i /\ q.number = j
        BY <4>4, <4>5, <4>6, StoredFields
      <4>8. q \in Gathered(p)
        BY <3>4, <4>2, <4>7 DEF Gathered
      <4>9. q \in cache'
        BY <2>2, <2>3, <4>1, <4>8
      <4> QED
        BY <3>2, <4>9
    <3> QED
      BY <3>3, <3>4
  <2> QED
    BY <2>5, <2>6
<1>4. CASE HandleWhole(o, i)
  <2>1. Decode(GetText(pdus[o][i]), ReadingCodec(pdus[o][i].coding)).text = TextRead(o)
    BY <1>4, WholeText DEF HandleWhole
  <2>2. Whole(o) \in emitted'
    BY <1>4, <2>1 DEF HandleWhole, Whole
  <2>3. e # o
    BY <2>2
  <2>4. <<e, j>> \in answered /\ cache' = cache
    BY <1>4, <2>3 DEF HandleWhole
  <2> QED
    BY <1>2, <2>4
<1>5. CASE HandleRaises(o, i)
  BY <1>2, <1>5 DEF HandleRaises
<1>6. CASE HandleReport(o, i)
  <2>1. IsReport(pdus[o][i]) /\ answered' = answered \cup {<<o, i>>} /\ cache' = cache
    BY <1>6 DEF HandleReport
  <2>2. <<e, j>> \in answered
    BY <2>1
  <2> QED
    BY <1>2, <2>1, <2>2
<1> QED
  BY <1>3, <1>4, <1>5, <1>6 DEF Handle

\* So does every other step, but a restart.
LEMMA KeptNext ==
  ASSUME SendInv, SentTextInv, CacheOK(cache), CountsOK, CachedInv, KeysApart, KeptInv, [Next]_vars
  PROVE  KeptInv'
<1> SUFFICES ASSUME NEW e \in Originals, NEW j \in DOMAIN pdus'[e], crashes' = 0,
                    <<e, j>> \in answered', ~IsReport(pdus'[e][j]), Whole(e)' \notin emitted'
             PROVE  \E q \in cache' : IsStored(q, pdus'[e][j])
  BY DEF KeptInv
<1>1. SentStays
  BY SentIsKept
<1>2. ASSUME NEW o \in Originals, NEW i \in DOMAIN pdus[o], Handle(o, i)
      PROVE  \E q \in cache' : IsStored(q, pdus'[e][j])
  <2>1. UNCHANGED <<pdus, crashes>>
    BY <1>2 DEF Handle, HandleReport, HandlePart, HandleWhole, HandleRaises, Extracts, sendVars
  <2>2. j \in DOMAIN pdus[e] /\ crashes = 0 /\ ~IsReport(pdus[e][j])
    BY <2>1
  <2>3. Whole(e) \notin emitted'
    BY <1>1, <2>2, WholeStays
  <2>4. \E q \in cache' : IsStored(q, pdus[e][j])
    BY <1>2, <2>2, <2>3, KeptWhenHandled
  <2> QED
    BY <2>1, <2>4
<1>3. CASE UNCHANGED <<emitted, answered, cache, crashes>>
  <2>1. j \in DOMAIN pdus[e]
    <3>1. <<e, j>> \in answered /\ <<e, j>>[1] = e /\ <<e, j>>[2] = j
      BY <1>3
    <3> QED
      BY <3>1 DEF CountsOK
  <2>2. pdus'[e] = pdus[e] /\ Whole(e)' = Whole(e)
    BY <1>1, <2>1, WholeStays
  <2>3. /\ Whole(e) \notin emitted /\ crashes = 0 /\ <<e, j>> \in answered
        /\ ~IsReport(pdus[e][j])
    BY <1>3, <2>2
  <2> QED
    BY <1>3, <2>1, <2>2, <2>3 DEF KeptInv
<1>4. Restart => crashes' # 0
  BY DEF Restart, CountsOK
<1> QED
  BY <1>2, <1>3, <1>4, OtherwiseSame

\* When all of a text was answered its parts would fill the cache.
LEMMA AllAnswered ==
  ASSUME SendInv, SentTextInv, CacheOK(cache), KeptInv
  PROVE  CompleteIsEmitted
<1> SUFFICES ASSUME NEW o \in Originals, crashes = 0, pdus[o] # << >>,
                    \A i \in DOMAIN pdus[o] : <<o, i>> \in answered /\ ~IsReport(pdus[o][i]),
                    Whole(o) \notin emitted
             PROVE  FALSE
  BY DEF CompleteIsEmitted
<1>1. PICK s, n : s = pdus[o] /\ n = Len(s)
  OBVIOUS
<1>2. n \in Nat /\ DOMAIN s = 1 .. n
  BY <1>1 DEF SendInv, ArePdus
<1>3. n # 0
  BY <1>1 DEF SendInv, ArePdus
<1>4. \A i \in 1 .. n : \E p \in cache : IsStored(p, s[i])
  BY <1>1, <1>2 DEF KeptInv
<1>5. \A i \in 1 .. n : ExtractMultipart(s[i]) # None /\ StoredPart(s[i]) \in cache
  BY <1>4 DEF IsStored
<1>6. 1 \in 1 .. n
  BY <1>2, <1>3
<1>7. PICK r \in Nat : n = Len(PartsOf(o)) /\ AreStored(s, o, r)
  BY <1>1, <1>2, <1>5, <1>6, StoredFrom
<1>8. \A i \in 1 .. n : /\ StoredPart(s[i]).ref = r /\ StoredPart(s[i]).total = n
                        /\ StoredPart(s[i]).number = i
  <2> TAKE i \in 1 .. n
  <2>1. i \in 1 .. Len(s) /\ Len(s) = Len(PartsOf(o)) /\ AreStored(s, o, r)
    BY <1>1, <1>7
  <2>2. /\ StoredPart(s[i]).ref = r
        /\ StoredPart(s[i]).total = Len(s) /\ StoredPart(s[i]).number = i
    BY <2>1, StoredFields
  <2> QED
    BY <1>1, <2>2
<1>9. PICK p : p = StoredPart(s[1])
  OBVIOUS
<1> DEFINE f == [i \in 1 .. n |-> StoredPart(s[i])]
           c == OfKey(cache, p)
<1>10. f \in Injection(1 .. n, c)
  <2>1. \A i \in 1 .. n : f[i] \in c
    BY <1>5, <1>6, <1>8, <1>9 DEF OfKey, SameKey
  <2>2. \A i, j \in 1 .. n : f[i] = f[j] => i = j
    BY <1>8
  <2>3. f \in [1 .. n -> c]
    BY <2>1
  <2> HIDE DEF f, c
  <2> QED
    BY <2>2, <2>3 DEF Injection, IsInjective
<1>11. IsFiniteSet(c) /\ Cardinality(c) \in Nat
  <2>1. IsFiniteSet(c)
    BY FS_Subset DEF OfKey, CacheOK
  <2> QED
    BY <2>1, FS_CardinalityType
<1>12. Cardinality(1 .. n) = n
  BY <1>2, FS_Interval
<1>13. n <= Cardinality(c)
  <2> HIDE DEF f, c
  <2> QED
    BY <1>10, <1>11, <1>12, FS_Injection
<1>14. Cardinality(c) < p.total /\ p.total = n
  BY <1>5, <1>6, <1>8, <1>9 DEF CacheOK
<1> HIDE DEF c
<1> QED
  BY <1>2, <1>11, <1>13, <1>14

TextsInv == CachedInv /\ EmittedInv /\ KeptInv

\* What is in the cache and what was handed on are of the texts that were sent, as
\* long as no two texts share a key.
THEOREM TextsTheorem ==
  ASSUME NoneLooksLikeAPart
  PROVE  Spec /\ []KeysApart => []TextsInv
<1>1. Init => TextsInv
  BY DEF Init, TextsInv, CachedInv, EmittedInv, KeptInv
<1>2. /\ SendInv /\ StreamInv
      /\ CacheOK(cache) /\ CountsOK
      /\ SentTextInv /\ KeysApart /\ TextsInv
      /\ [Next]_vars
      => TextsInv'
  BY CachedNext, EmittedNext, KeptNext DEF TextsInv
<1>3. Spec => []SentTextInv
  BY TextsCanBeRead
<1> QED
  BY <1>1, <1>2, <1>3, StreamTheorem, CacheTheorem, PTL DEF Spec

\* Every message handed on is a text that was sent, whole and from its sender, in
\* whatever order its parts come and however they are mixed with those of others.
THEOREM OriginalsOnly ==
  ASSUME NoneLooksLikeAPart
  PROVE  Spec /\ []KeysApart => []OnlyOriginals
<1>1. Spec /\ []KeysApart => []TextsInv
  BY TextsTheorem
<1>2. TextsInv => OnlyOriginals
  BY DEF TextsInv, EmittedInv, OnlyOriginals, Whole, Message
<1> QED
  BY <1>1, <1>2, PTL

\* And each text whose PDUs were all answered since the transport started has been.
THEOREM CompleteAreEmitted ==
  ASSUME NoneLooksLikeAPart
  PROVE  Spec /\ []KeysApart => []CompleteIsEmitted
<1>1. Spec /\ []KeysApart => []TextsInv
  BY TextsTheorem
<1>2. /\ SendInv /\ StreamInv
      /\ CacheOK(cache) /\ CountsOK
      /\ SentTextInv /\ TextsInv
      => CompleteIsEmitted
  BY AllAnswered DEF TextsInv
<1>3. Spec => []SentTextInv
  BY TextsCanBeRead
<1> QED
  BY <1>1, <1>2, <1>3, StreamTheorem, CacheTheorem, PTL
===============================================================================
