--------------------------- MODULE TimeoutDictProofs ---------------------------
(***************************************************************************)
(* Proofs about TimeoutDict: that its entries stay in the order of their   *)
(* timestamps, and that it implements ExpiringMap, for every set of keys   *)
(* and values and every timeout.                                           *)
(***************************************************************************)
EXTENDS TimeoutDict, TimeoutDictLemmas

IInv == /\ now \in Nat
        /\ Ordered(data, Keys, Values)
        /\ \A e \in ToSet(data) : e.ts <= now

-------------------------------------------------------------------------------
(* The order of the entries.                                               *)

\* An empty dictionary is in order.
LEMMA InitEstablishes == Init => IInv
BY DEF Init, IInv, Ordered, ToSet

\* Every operation keeps it in order.
LEMMA NextPreserves == IInv /\ [Next]_vars => IInv'
<1> SUFFICES ASSUME IInv, [Next]_vars PROVE IInv'
  OBVIOUS
<1> USE DEF IInv
<1>1. ToSet(data) \subseteq Entries(Keys, Values) /\ FreshAt(data, now) \subseteq ToSet(data)
  BY ElementOfSeq, LenProperties DEF Ordered, ToSet, FreshAt
<1>2. CASE Tick
  BY <1>1, <1>2 DEF Tick, Entries
<1>3. ASSUME NEW k \in Keys, NEW v \in Values, Store(k, v)
      PROVE  IInv'
  <2>1. PICK u \in Nat : now <= u /\ now' = u /\ data' = SetItem(data, k, v, now, u)
    BY <1>3, KeysValuesAssumption DEF Store, LaterReading, Times
  <2>2. /\ Ordered(data', Keys, Values)
        /\ ToSet(data') = {e \in FreshAt(data, now) : e.key # k} \cup {Entry(k, u, v)}
    BY <2>1, Stored
  <2>3. \A e \in ToSet(data') : e.ts <= u
    BY <1>1, <2>1, <2>2 DEF Entry, Entries
  <2> QED
    BY <2>1, <2>2, <2>3
<1>4. ASSUME NEW k \in Keys, Get(k) \/ Delete(k)
      PROVE  IInv'
  BY <1>1, <1>4, Cleaned, Deleted DEF Get, Delete
<1>5. ASSUME NEW k \in Keys, Pop(k)
      PROVE  IInv'
  <2>1. PICK u \in Nat : now <= u /\ now' = u /\ data' = PopItem(data, k, now, u)
    BY <1>5, KeysValuesAssumption DEF Pop, LaterReading, Times
  <2>2. Ordered(data', Keys, Values) /\ ToSet(data') \subseteq FreshAt(data, now)
    BY <2>1, PoppedAgain
  <2>3. \A e \in ToSet(data') : e.ts <= u
    BY <1>1, <2>1, <2>2 DEF Entries
  <2> QED
    BY <2>1, <2>2, <2>3
<1>6. CASE Size
  BY <1>1, <1>6, Cleaned DEF Size
<1>7. CASE UNCHANGED vars
  BY <1>7 DEF vars
<1> QED
  BY <1>2, <1>3, <1>4, <1>5, <1>6, <1>7 DEF Next

\* The dictionary is in order, whatever is done with it.
THEOREM Invariance == Spec => []IInv
<1>1. Init => IInv
  BY InitEstablishes
<1>2. IInv /\ [Next]_vars => IInv'
  BY NextPreserves
<1> QED
  BY <1>1, <1>2, PTL DEF Spec

\* _remove_expired may stop at the first entry that has not expired.
THEOREM InsertionOrderIsTimeOrder == Spec => []OldestFirst
<1>1. ASSUME IInv PROVE OldestFirst
  <2> SUFFICES ASSUME NEW i \in DOMAIN data, NEW j \in DOMAIN data, i <= j
               PROVE  data[i].ts <= data[j].ts /\ data[j].ts <= now
    BY DEF OldestFirst
  <2>1. i \in Int /\ j \in Int /\ data[j].ts \in Nat /\ data[j] \in ToSet(data)
    <3>1. data \in Seq(Entries(Keys, Values))
      BY <1>1 DEF IInv, Ordered
    <3>2. DOMAIN data = 1 .. Len(data) /\ data[j] \in Entries(Keys, Values)
      BY <3>1, LenProperties, ElementOfSeq
    <3> QED
      BY <3>2 DEF Entries, ToSet
  <2> QED
    BY <1>1, <2>1 DEF IInv, Ordered
<1> QED
  BY <1>1, Invariance, PTL

-------------------------------------------------------------------------------
(* The refinement.                                                         *)

Live(d, t) == [k \in Keys |-> LiveEntry(d, t, k)]

\* An entry as the abstract map holds it.
Seen(e) == [ts |-> e.ts, value |-> e.value]

\* An entry is not taken for a missing one.
LEMMA SeenIsSomething ==
  ASSUME NEW e \in Entries(Keys, Values)
  PROVE  Seen(e) # None /\ Seen(e).ts = e.ts /\ Seen(e).value = e.value
BY KeysValuesAssumption DEF Seen, Entries

\* A fresh entry is what its key holds.
LEMMA LiveIsFresh ==
  ASSUME NEW d, Ordered(d, Keys, Values), NEW t \in Nat, NEW k \in Keys
  PROVE  /\ \A e \in FreshAt(d, t) : e.key = k => LiveEntry(d, t, k) = Seen(e)
         /\ (\A e \in FreshAt(d, t) : e.key # k) => LiveEntry(d, t, k) = None
<1>1. DOMAIN d = 1 .. Len(d) /\ Len(d) \in Nat
  BY LenProperties DEF Ordered
<1>2. ASSUME NEW e \in FreshAt(d, t), NEW f \in FreshAt(d, t), e.key = f.key
      PROVE  e = f
  <2>1. PICK i \in DOMAIN d, j \in DOMAIN d : e = d[i] /\ f = d[j]
    BY DEF FreshAt, ToSet
  <2>2. ~(i < j) /\ ~(j < i)
    BY <1>2, <2>1 DEF Ordered
  <2>3. i = j
    BY <1>1, <2>2
  <2> QED
    BY <2>1, <2>3
<1>3. ASSUME NEW e \in FreshAt(d, t), e.key = k
      PROVE  LiveEntry(d, t, k) = Seen(e)
  <2>1. {f \in FreshAt(d, t) : f.key = k} = {e}
    BY <1>2, <1>3
  <2> QED
    BY <2>1 DEF LiveEntry, Seen
<1>4. (\A e \in FreshAt(d, t) : e.key # k) => LiveEntry(d, t, k) = None
  BY DEF LiveEntry
<1> QED
  BY <1>3, <1>4

\* If what is fresh of a key at time u is what was at time t and is still, then the
\* abstract map has only let it expire.
LEMMA LiveLater ==
  ASSUME NEW d, Ordered(d, Keys, Values), NEW dd, Ordered(dd, Keys, Values),
         NEW t \in Nat, NEW u \in Nat,
         NEW k \in Keys,
         {e \in FreshAt(dd, u) : e.key = k}
           = {e \in FreshAt(d, t) : e.key = k /\ ~Expired(e, u)}
  PROVE  LiveEntry(dd, u, k) =
           IF LiveEntry(d, t, k) # None /\ u - LiveEntry(d, t, k).ts <= Timeout
             THEN LiveEntry(d, t, k) ELSE None
<1>1. FreshAt(d, t) \subseteq Entries(Keys, Values)
  BY ElementOfSeq, LenProperties DEF Ordered, ToSet, FreshAt
<1>2. CASE \E e \in FreshAt(d, t) : e.key = k
  <2>1. PICK e \in FreshAt(d, t) : e.key = k
    BY <1>2
  <2>2. LiveEntry(d, t, k) = Seen(e) /\ Seen(e) # None /\ Seen(e).ts = e.ts
    BY <1>1, <2>1, LiveIsFresh, SeenIsSomething
  <2>3. CASE ~Expired(e, u)
    <3>1. e \in FreshAt(dd, u)
      BY <2>1, <2>3
    <3>2. LiveEntry(dd, u, k) = Seen(e)
      BY <2>1, <3>1, LiveIsFresh
    <3>3. u - e.ts <= Timeout
      BY <1>1, <2>1, <2>3, TimeoutAssumption DEF Expired, Entries
    <3> QED
      BY <2>2, <3>2, <3>3
  <2>4. CASE Expired(e, u)
    <3>1. ASSUME NEW f \in FreshAt(dd, u), f.key = k PROVE FALSE
      <4>1. f \in FreshAt(d, t) /\ ~Expired(f, u)
        BY <3>1
      <4>2. Seen(f) = Seen(e) /\ f.ts = e.ts
        BY <1>1, <2>1, <2>2, <3>1, <4>1, LiveIsFresh, SeenIsSomething
      <4> QED
        BY <2>4, <4>1, <4>2 DEF Expired
    <3>2. LiveEntry(dd, u, k) = None
      BY <3>1, LiveIsFresh
    <3>3. ~(u - e.ts <= Timeout)
      BY <1>1, <2>1, <2>4, TimeoutAssumption DEF Expired, Entries
    <3> QED
      BY <2>2, <3>2, <3>3
  <2> QED
    BY <2>3, <2>4
<1>3. CASE \A e \in FreshAt(d, t) : e.key # k
  <2>1. LiveEntry(d, t, k) = None
    BY <1>3, LiveIsFresh
  <2>2. \A e \in FreshAt(dd, u) : e.key # k
    BY <1>3
  <2> QED
    BY <2>1, <2>2, LiveIsFresh
<1> QED
  BY <1>2, <1>3

\* What a read returns is what the abstract map holds.
LEMMA ReadsTheLive ==
  ASSUME NEW d, Ordered(d, Keys, Values), NEW t \in Nat, NEW k \in Keys
  PROVE  GetItem(d, k, t) =
           IF LiveEntry(d, t, k) = None THEN None ELSE LiveEntry(d, t, k).value
<1> DEFINE c == RemoveExpired(d, t)
<1>1. Ordered(c, Keys, Values) /\ ToSet(c) = FreshAt(d, t)
  BY Cleaned
<1>2. FreshAt(d, t) \subseteq Entries(Keys, Values)
  BY ElementOfSeq, LenProperties DEF Ordered, ToSet, FreshAt
<1> HIDE DEF c
<1>3. ASSUME NEW e \in FreshAt(d, t), e.key = k
      PROVE  /\ Lookup(c, k) = e.value
             /\ LiveEntry(d, t, k) # None /\ LiveEntry(d, t, k).value = e.value
  BY <1>1, <1>2, <1>3, Found, LiveIsFresh, SeenIsSomething
<1>4. ASSUME \A e \in FreshAt(d, t) : e.key # k
      PROVE  Lookup(c, k) = None /\ LiveEntry(d, t, k) = None
  BY <1>1, <1>4, Found, LiveIsFresh
<1> QED
  BY <1>3, <1>4 DEF GetItem, c

\* Each step, seen through Live, is a step of the abstract map.
LEMMA TickMaps ==
  ASSUME IInv, IInv', Tick
  PROVE  Abstract!Tick
<1>1. Live(data', now') = Abstract!At(Live(data, now), now')
  <2>1. ASSUME NEW k \in Keys
        PROVE  {e \in FreshAt(data', now') : e.key = k}
                 = {e \in FreshAt(data, now) : e.key = k /\ ~Expired(e, now')}
    <3>1. ToSet(data) \subseteq Entries(Keys, Values)
      BY ElementOfSeq, LenProperties DEF IInv, Ordered, ToSet
    <3>2. \A e \in ToSet(data) : ~Expired(e, now') => ~Expired(e, now)
      BY <3>1, TimeoutAssumption DEF Tick, IInv, Expired, Entries
    <3> QED
      BY <3>2 DEF Tick, FreshAt
  <2>2. ASSUME NEW k \in Keys
        PROVE  LiveEntry(data', now', k) = Abstract!At(Live(data, now), now')[k]
    BY <2>1, LiveLater DEF IInv, Abstract!At, Live
  <2> QED
    BY <2>2 DEF Live, Abstract!At
<1> QED
  BY <1>1 DEF Tick, Abstract!Tick, Abstract!Pass, Abstract!At, Live, IInv

\* A read removes only what had expired.
LEMMA GetMaps ==
  ASSUME IInv, NEW k \in Keys, Get(k)
  PROVE  Abstract!Get(k)
<1>1. FreshAt(data', now') = FreshAt(data, now)
  BY Cleaned DEF Get, IInv, FreshAt
<1>2. \A kk \in Keys : LiveEntry(data', now', kk) = LiveEntry(data, now, kk)
  BY <1>1 DEF LiveEntry
<1>3. res' = IF LiveEntry(data, now, k) = None THEN None
             ELSE LiveEntry(data, now, k).value
  BY ReadsTheLive DEF Get, IInv
<1> QED
  BY <1>2, <1>3 DEF Get, Abstract!Get

\* What was just stored has not expired.
LEMMA NewIsFresh ==
  ASSUME NEW t \in Nat, NEW e, e.ts = t
  PROVE  ~Expired(e, t)
<1>1. t - e.ts = 0
  OBVIOUS
<1> QED
  BY <1>1, TimeoutAssumption DEF Expired

\* A store replaces the entry of its key, and no other.
LEMMA StoreMaps ==
  ASSUME IInv, IInv', NEW k \in Keys, NEW v \in Values, Store(k, v)
  PROVE  Abstract!Set(k, v)
<1> DEFINE new == Entry(k, now', v)
           m == [Live(data, now) EXCEPT ![k] = [ts |-> now', value |-> v]]
<1>1. now' \in Nat /\ now <= now' /\ data' = SetItem(data, k, v, now, now') /\ res' = None
  BY KeysValuesAssumption DEF Store, LaterReading, Times, IInv
<1>2. /\ Ordered(data', Keys, Values)
      /\ ToSet(data') = {e \in FreshAt(data, now) : e.key # k} \cup {new}
  BY <1>1, Stored DEF IInv
<1>3. new \in Entries(Keys, Values) /\ new.key = k /\ Seen(new) = [ts |-> now', value |-> v]
  BY <1>1 DEF Entry, Entries, Seen
<1>4. ~Expired(new, now')
  <2>1. new.ts = now'
    BY DEF Entry
  <2> HIDE DEF new
  <2> QED
    BY <1>1, <2>1, NewIsFresh
<1> HIDE DEF new
<1>5. LiveEntry(data', now', k) = Abstract!At(m, now')[k]
  <2>1. LiveEntry(data', now', k) = Seen(new)
    BY <1>1, <1>2, <1>3, <1>4, LiveIsFresh DEF FreshAt
  <2>2. m[k] = Seen(new) /\ m[k] # None /\ m[k].ts = now'
    BY <1>3, SeenIsSomething DEF Live
  <2> HIDE DEF m
  <2> QED
    BY <1>1, <2>1, <2>2, TimeoutAssumption DEF Abstract!At
<1>6. ASSUME NEW q \in Keys, q # k
      PROVE  LiveEntry(data', now', q) = Abstract!At(m, now')[q]
  <2>1. {e \in FreshAt(data', now') : e.key = q}
          = {e \in FreshAt(data, now) : e.key = q /\ ~Expired(e, now')}
    BY <1>2, <1>3, <1>6 DEF FreshAt
  <2> QED
    BY <1>1, <1>2, <1>6, <2>1, LiveLater DEF IInv, Abstract!At, Live
<1>7. Live(data', now') = Abstract!At(m, now')
  BY <1>5, <1>6 DEF Live, Abstract!At
<1> QED
  BY <1>1, <1>7 DEF Abstract!Set, Abstract!Pass, Live, IInv

\* A deletion removes the entry of its key, and no other.
LEMMA DeleteMaps ==
  ASSUME IInv, NEW k \in Keys, Delete(k)
  PROVE  Abstract!Delete(k)
<1>1. /\ Ordered(data', Keys, Values) /\ now' = now /\ res' = None
      /\ ToSet(data') = {e \in FreshAt(data, now) : e.key # k}
  BY Deleted DEF Delete, IInv
<1>2. LiveEntry(data', now, k) = None
  BY <1>1, LiveIsFresh DEF FreshAt, IInv
<1>3. ASSUME NEW q \in Keys, q # k
      PROVE  LiveEntry(data', now, q) = LiveEntry(data, now, q)
  <2>1. {e \in FreshAt(data', now) : e.key = q} = {e \in FreshAt(data, now) : e.key = q}
    BY <1>1, <1>3 DEF FreshAt
  <2> QED
    BY <2>1 DEF LiveEntry
<1> QED
  BY <1>1, <1>2, <1>3 DEF Abstract!Delete, Live

\* pop returns what was there before it removed it.
LEMMA PopMaps ==
  ASSUME IInv, IInv', NEW k \in Keys, Pop(k)
  PROVE  Abstract!Pop(k)
<1> DEFINE m == [Live(data, now) EXCEPT ![k] = None]
<1>1. /\ now' \in Nat /\ now <= now' /\ data' = PopItem(data, k, now, now')
      /\ res' = GetItem(data, k, now)
  BY KeysValuesAssumption DEF Pop, LaterReading, Times, IInv
<1>2. /\ Ordered(data', Keys, Values)
      /\ ToSet(data') = {e \in FreshAt(data, now) : e.key # k /\ ~Expired(e, now')}
  BY <1>1, PoppedAgain DEF IInv
<1>3. LiveEntry(data', now', k) = Abstract!At(m, now')[k]
  <2>1. LiveEntry(data', now', k) = None
    BY <1>1, <1>2, LiveIsFresh DEF FreshAt
  <2> QED
    BY <2>1 DEF Abstract!At, Live
<1>4. ASSUME NEW q \in Keys, q # k
      PROVE  LiveEntry(data', now', q) = Abstract!At(m, now')[q]
  <2>1. {e \in FreshAt(data', now') : e.key = q}
          = {e \in FreshAt(data, now) : e.key = q /\ ~Expired(e, now')}
    BY <1>2, <1>4 DEF FreshAt
  <2> QED
    BY <1>1, <1>2, <1>4, <2>1, LiveLater DEF IInv, Abstract!At, Live
<1>5. Live(data', now') = Abstract!At(m, now')
  BY <1>3, <1>4 DEF Live, Abstract!At
<1>6. res' = IF LiveEntry(data, now, k) = None THEN None
             ELSE LiveEntry(data, now, k).value
  BY <1>1, ReadsTheLive DEF IInv
<1> QED
  BY <1>1, <1>5, <1>6 DEF Abstract!Pop, Abstract!Pass, Live, IInv

\* The abstract map counts as the library does.
LEMMA SameCardinality == \A S : Abstract!Cardinality(S) = Cardinality(S)
BY DEF Abstract!Cardinality, Cardinality

\* The length counts the keys that a read would find.
LEMMA SizeMaps ==
  ASSUME IInv, Size
  PROVE  Abstract!Size
<1>1. /\ Ordered(data', Keys, Values) /\ ToSet(data') = FreshAt(data, now) /\ now' = now
      /\ res' = Len(data')
  BY Cleaned DEF Size, IInv
<1>2. FreshAt(data', now') = FreshAt(data, now)
  BY <1>1 DEF FreshAt
<1>3. \A k \in Keys : LiveEntry(data', now', k) = LiveEntry(data, now, k)
  BY <1>2 DEF LiveEntry
<1>4. {e.key : e \in ToSet(data')} = {k \in Keys : LiveEntry(data, now, k) # None}
  <2>1. FreshAt(data, now) \subseteq Entries(Keys, Values)
    BY ElementOfSeq, LenProperties DEF IInv, Ordered, ToSet, FreshAt
  <2>2. ASSUME NEW e \in FreshAt(data, now)
        PROVE  e.key \in Keys /\ LiveEntry(data, now, e.key) # None
    <3>1. e \in Entries(Keys, Values) /\ e.key \in Keys
      BY <2>1 DEF Entries
    <3>2. LiveEntry(data, now, e.key) = Seen(e)
      BY <3>1, LiveIsFresh DEF IInv
    <3> QED
      BY <3>1, <3>2, SeenIsSomething
  <2>3. ASSUME NEW k \in Keys, LiveEntry(data, now, k) # None
        PROVE  \E e \in FreshAt(data, now) : e.key = k
    BY <2>3, LiveIsFresh DEF IInv
  <2> QED
    BY <1>1, <2>2, <2>3
<1>5. res' = Cardinality({k \in Keys : LiveEntry(data, now, k) # None})
  BY <1>1, <1>4, Counted
<1>6. {k \in Keys : LiveEntry(data, now, k) # None}
        = {k \in Keys : Live(data, now)[k] # None}
  BY DEF Live
<1>7. res' = Abstract!Cardinality({k \in Keys : Live(data, now)[k] # None})
  BY <1>5, <1>6, SameCardinality
<1>8. Live(data', now') = Live(data, now)
  BY <1>3 DEF Live
<1> QED
  BY <1>1, <1>7, <1>8 DEF Abstract!Size, Live

\* Every step maps to a step of the abstract map, or to none.
LEMMA StepMaps == IInv /\ IInv' /\ [Next]_vars => [Abstract!Next]_(Abstract!vars)
<1> SUFFICES ASSUME IInv, IInv', [Next]_vars
             PROVE  Abstract!Next \/ UNCHANGED Abstract!vars
  OBVIOUS
<1>1. CASE Tick
  BY <1>1, TickMaps DEF Abstract!Next
<1>2. ASSUME NEW k \in Keys, NEW v \in Values, Store(k, v)
      PROVE  Abstract!Next
  BY <1>2, StoreMaps DEF Abstract!Next
<1>3. ASSUME NEW k \in Keys, Get(k) \/ Delete(k) \/ Pop(k)
      PROVE  Abstract!Next
  BY <1>3, GetMaps, DeleteMaps, PopMaps DEF Abstract!Next
<1>4. CASE Size
  BY <1>4, SizeMaps DEF Abstract!Next
<1>5. CASE UNCHANGED vars
  BY <1>5 DEF vars, Abstract!vars, LiveEntry, FreshAt
<1> QED
  BY <1>1, <1>2, <1>3, <1>4, <1>5 DEF Next

\* A TimeoutDict behaves as a map whose entries expire one by one on their own.
THEOREM Refinement == Spec => ImplementsExpiringMap
<1>1. Init => Abstract!Init
  BY DEF Init, Abstract!Init, LiveEntry, FreshAt, ToSet
<1>2. IInv /\ IInv' /\ [Next]_vars => [Abstract!Next]_(Abstract!vars)
  BY StepMaps
<1> QED
  BY <1>1, <1>2, Invariance, PTL DEF Spec, ImplementsExpiringMap, Abstract!Spec
===============================================================================
