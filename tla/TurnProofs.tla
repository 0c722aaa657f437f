------------------------------- MODULE TurnProofs -------------------------------
(***************************************************************************)
(* Proofs about Turn, for every set of messages, requests and recipients,  *)
(* every timeout and any number of restarts.                               *)
(*                                                                         *)
(* The argument is about the cache.  What was stored stays where it is     *)
(* until it expires, whatever else is stored or removed; and a query that  *)
(* notices no change of the dictionary's size has removed nothing, because *)
(* a cleaned dictionary of the same length is the same, so that what it    *)
(* found is what there was when it began.  An answer is therefore the      *)
(* latest of the sender's messages in the cache at that moment, and these  *)
(* include all that Turn knew of and that had not expired.                 *)
(***************************************************************************)
EXTENDS Turn, TimeoutDictLemmas

Ids == {m.id : m \in Messages}

\* The dictionaries: each value under its own id, since some time that has passed.
InboundsOK ==
  /\ Ordered(inbounds, Ids, Messages)
  /\ \A e \in ToSet(inbounds) : e.ts <= now /\ e.key = e.value.id

OutboundsOK ==
  /\ Ordered(outbounds, Requests, Requests)
  /\ \A e \in ToSet(outbounds) : e.ts <= now /\ e.key = e.value

Deliveries == [state : {"queued", "posting", "ended"}, attempt : Nat, taken : Nat \cup {None}]

Posts == [state : {"none", "asking", "error", "publishing", "published", "sent", "timed out"},
          to : Recipients \cup {None}, reply : Messages \cup {None},
          built : Nat \cup {None}, known : SUBSET Messages]

Queries == [state : {"idle", "running", "done", "failed"}, from : Recipients \cup {None},
            next : Nat, size : Nat, found : Seq(Messages), answer : Messages \cup {None}]

DeliveryOK == told \subseteq Messages /\ delivery \in [Messages -> Deliveries]
RequestOK == request \in [Requests -> Posts]
QueryOK == query \in Queries

TypeInv == /\ now \in Nat
           /\ InboundsOK /\ OutboundsOK /\ DeliveryOK /\ RequestOK /\ QueryOK

\* What was stored and has not expired is still there.
InboundsKept ==
  \A m \in Messages :
    LET taken == delivery[m].taken
    IN  taken # None /\ now - taken <= Timeout => Entry(m.id, taken, m) \in ToSet(inbounds)

OutboundsKept ==
  \A r \in Requests :
    LET built == request[r].built
    IN  built # None /\ now - built <= Timeout => Entry(r, built, r) \in ToSet(outbounds)

Held == {e.value : e \in ToSet(inbounds)}

\* A query that will not fail has found what there was for it up to here.
Searched ==
  query.state = "running" /\ ~SizeChanged =>
    /\ query.next \in 1 .. query.size + 1
    /\ ToSet(query.found) = {m \in {inbounds[i].value : i \in 1 .. query.next - 1} :
                                m.from = query.from}

Latest(answer, to, known) ==
  /\ answer # None => answer.from = to
  /\ \A m \in known : m.from = to => answer # None /\ m.stamp <= answer.stamp

\* There is a request for a query, and it is the only one.
Asked ==
  \A r \in Requests : request[r].state = "asking" =>
    /\ ~Idle /\ query.from = request[r].to
    /\ \A s \in Requests : request[s].state = "asking" => s = r
    /\ query.state = "running" /\ ~SizeChanged => request[r].known \subseteq Held
    /\ query.state = "done" => Latest(query.answer, request[r].to, request[r].known)

IInv == TypeInv /\ InboundsKept /\ OutboundsKept /\ Searched /\ Asked

-------------------------------------------------------------------------------
(* The dictionaries.                                                       *)

\* A dictionary's values are entries, and its places the numbers up to its length.
LEMMA EntriesOf ==
  ASSUME NEW K, NEW V, NEW d, Ordered(d, K, V)
  PROVE  /\ ToSet(d) \subseteq Entries(K, V)
         /\ DOMAIN d = 1 .. Len(d) /\ Len(d) \in Nat
         /\ \A i \in 1 .. Len(d) : d[i] \in ToSet(d)
BY ElementOfSeq, LenProperties DEF Ordered, ToSet

\* Cleaning up leaves every inbound message that has not expired.
LEMMA CleanedInbounds ==
  ASSUME IInv
  PROVE  LET c == RemoveExpired(inbounds, now)
         IN  /\ Ordered(c, Ids, Messages)
             /\ \A e \in ToSet(c) : e.ts <= now /\ e.key = e.value.id
             /\ \A m \in Messages :
                  LET taken == delivery[m].taken
                  IN  taken # None /\ now - taken <= Timeout
                        => Entry(m.id, taken, m) \in ToSet(c)
<1> DEFINE c == RemoveExpired(inbounds, now)
<1>1. Ordered(inbounds, Ids, Messages) /\ now \in Nat
  BY DEF IInv, TypeInv, InboundsOK
<1>2. Ordered(c, Ids, Messages) /\ ToSet(c) = FreshAt(inbounds, now)
  BY <1>1, Cleaned
<1> HIDE DEF c
<1>3. \A e \in ToSet(c) : e.ts <= now /\ e.key = e.value.id
  BY <1>2 DEF FreshAt, IInv, TypeInv, InboundsOK
<1>4. ASSUME NEW m \in Messages, delivery[m].taken # None, now - delivery[m].taken <= Timeout
      PROVE  Entry(m.id, delivery[m].taken, m) \in ToSet(c)
  <2> DEFINE t == delivery[m].taken
             e == Entry(m.id, t, m)
  <2>1. t \in Nat
    BY <1>4 DEF IInv, TypeInv, DeliveryOK, Deliveries
  <2>2. e \in ToSet(inbounds)
    BY <1>4 DEF IInv, InboundsKept
  <2>3. e.ts = t
    BY DEF Entry
  <2> HIDE DEF e
  <2>4. ~Expired(e, now)
    BY <1>1, <1>4, <2>1, <2>3, TimeoutAssumption DEF Expired
  <2> QED
    BY <1>2, <2>2, <2>4 DEF FreshAt, e
<1> QED
  BY <1>2, <1>3, <1>4 DEF c

\* The same of the outbound messages.
LEMMA CleanedOutbounds ==
  ASSUME IInv
  PROVE  LET c == RemoveExpired(outbounds, now)
         IN  /\ Ordered(c, Requests, Requests)
             /\ \A e \in ToSet(c) : e.ts <= now /\ e.key = e.value
             /\ \A r \in Requests :
                  LET built == request[r].built
                  IN  built # None /\ now - built <= Timeout
                        => Entry(r, built, r) \in ToSet(c)
<1> DEFINE c == RemoveExpired(outbounds, now)
<1>1. Ordered(outbounds, Requests, Requests) /\ now \in Nat
  BY DEF IInv, TypeInv, OutboundsOK
<1>2. Ordered(c, Requests, Requests) /\ ToSet(c) = FreshAt(outbounds, now)
  BY <1>1, Cleaned
<1> HIDE DEF c
<1>3. \A e \in ToSet(c) : e.ts <= now /\ e.key = e.value
  BY <1>2 DEF FreshAt, IInv, TypeInv, OutboundsOK
<1>4. ASSUME NEW r \in Requests, request[r].built # None, now - request[r].built <= Timeout
      PROVE  Entry(r, request[r].built, r) \in ToSet(c)
  <2> DEFINE t == request[r].built
             e == Entry(r, t, r)
  <2>1. t \in Nat
    BY <1>4 DEF IInv, TypeInv, RequestOK, Posts
  <2>2. e \in ToSet(outbounds)
    BY <1>4 DEF IInv, OutboundsKept
  <2>3. e.ts = t
    BY DEF Entry
  <2> HIDE DEF e
  <2>4. ~Expired(e, now)
    BY <1>1, <1>4, <2>1, <2>3, TimeoutAssumption DEF Expired
  <2> QED
    BY <1>2, <2>2, <2>4 DEF FreshAt, e
<1> QED
  BY <1>2, <1>3, <1>4 DEF c

-------------------------------------------------------------------------------
(* The steps.                                                              *)

\* An empty cache, and nothing asked of it.
LEMMA InitEstablishes == Init => IInv
<1> SUFFICES ASSUME Init PROVE IInv
  OBVIOUS
<1> USE DEF Init, CacheInit
<1>1. Ordered(<< >>, Ids, Messages) /\ Ordered(<< >>, Requests, Requests) /\ ToSet(<< >>) = {}
  BY DEF Ordered, ToSet
<1>2. InboundsOK /\ OutboundsOK
  BY <1>1 DEF InboundsOK, OutboundsOK
<1>3. DeliveryOK
  BY DEF DeliveryOK, Deliveries
<1>4. RequestOK
  BY DEF RequestOK, Posts
<1>5. QueryOK
  BY EmptySeq DEF QueryOK, Queries, NoQuery
<1>6. InboundsKept /\ OutboundsKept
  BY DEF InboundsKept, OutboundsKept
<1>7. Searched /\ Asked
  BY DEF Searched, Asked, NoQuery
<1> QED
  BY <1>2, <1>3, <1>4, <1>5, <1>6, <1>7 DEF IInv, TypeInv

\* Steps that leave the cache alone, and when messages were taken and built.
LEMMA Elsewhere ==
  ASSUME IInv, UNCHANGED cacheVars, DeliveryOK', RequestOK',
         \A m \in Messages : delivery'[m].taken = delivery[m].taken,
         \A r \in Requests : request'[r].built = request[r].built,
         \A r \in Requests : request'[r].state = "asking" => request'[r] = request[r]
  PROVE  IInv'
<1>1. now' = now /\ inbounds' = inbounds /\ outbounds' = outbounds /\ query' = query
  BY DEF cacheVars
<1>2. TypeInv'
  BY <1>1 DEF IInv, TypeInv, InboundsOK, OutboundsOK, QueryOK
<1>3. InboundsKept' /\ OutboundsKept'
  BY <1>1 DEF IInv, InboundsKept, OutboundsKept
<1>4. Searched'
  BY <1>1 DEF IInv, Searched, SizeChanged
<1>5. Asked'
  <2> SUFFICES ASSUME NEW r \in Requests, request'[r].state = "asking"
               PROVE  /\ ~Idle' /\ query'.from = request'[r].to
                      /\ \A s \in Requests : request'[s].state = "asking" => s = r
                      /\ query'.state = "running" /\ ~SizeChanged'
                           => request'[r].known \subseteq Held'
                      /\ query'.state = "done"
                           => Latest(query'.answer, request'[r].to, request'[r].known)
    BY DEF Asked
  <2>1. request'[r] = request[r] /\ request[r].state = "asking"
    OBVIOUS
  <2>2. \A s \in Requests : request'[s].state = "asking" => request[s].state = "asking"
    OBVIOUS
  <2>3. Held' = Held /\ SizeChanged' = SizeChanged /\ Idle' = Idle
    BY <1>1 DEF Held, SizeChanged, Idle
  <2> QED
    BY <1>1, <2>1, <2>2, <2>3 DEF IInv, Asked
<1> QED
  BY <1>2, <1>3, <1>4, <1>5 DEF IInv

\* The handler of an inbound message, once it is stored.
LEMMA DeliveryPreserves ==
  ASSUME IInv, NEW m \in Messages,
         TurnReceives(m) \/ PostSucceeds(m) \/ PostFails(m) \/ TooSlow(m)
  PROVE  IInv'
<1>1. UNCHANGED <<cacheVars, request>>
  BY DEF TurnReceives, PostSucceeds, PostFails, TooSlow, Deliver
<1>2. DeliveryOK /\ RequestOK
  BY DEF IInv, TypeInv
<1>3. DeliveryOK' /\ \A n \in Messages : delivery'[n].taken = delivery[n].taken
  <2>1. CASE TurnReceives(m)
    BY <1>2, <2>1 DEF TurnReceives, DeliveryOK, Deliveries
  <2>2. ASSUME NEW d, d.taken = delivery[m].taken,
               d \in Deliveries,
               Deliver(m, d)
        PROVE  DeliveryOK' /\ \A n \in Messages : delivery'[n].taken = delivery[n].taken
    BY <1>2, <2>2 DEF Deliver, DeliveryOK, Deliveries
  <2>3. delivery[m] \in Deliveries
    BY <1>2 DEF DeliveryOK, Deliveries
  <2> DEFINE ended == [delivery[m] EXCEPT !.state = "ended"]
             again == [delivery[m] EXCEPT !.attempt = @ + 1]
  <2>4. /\ ended \in Deliveries
        /\ ended.taken = delivery[m].taken
    BY <2>3 DEF Deliveries
  <2>5. /\ again \in Deliveries
        /\ again.taken = delivery[m].taken
    BY <2>3 DEF Deliveries
  <2>6. TurnReceives(m) \/ Deliver(m, ended) \/ Deliver(m, again)
    BY DEF PostSucceeds, PostFails, TooSlow
  <2> HIDE DEF ended, again
  <2> QED
    BY <2>1, <2>2, <2>4, <2>5, <2>6
<1>4. RequestOK'
  BY <1>1, <1>2 DEF RequestOK, Posts
<1> QED
  BY <1>1, <1>3, <1>4, Elsewhere

\* The handler of a request, before its query and after.
LEMMA GoesPreserves ==
  ASSUME IInv, NEW r \in Requests, NEW state \in {"error", "published", "sent", "timed out"},
         Goes(r, state), UNCHANGED <<cacheVars, delivery, told>>
  PROVE  IInv'
<1>1. DeliveryOK /\ RequestOK
  BY DEF IInv, TypeInv
<1>2. RequestOK'
  BY <1>1 DEF RequestOK, Posts, Goes
<1>3. \A s \in Requests : request'[s].built = request[s].built
  BY <1>1 DEF RequestOK, Posts, Goes
<1>4. \A s \in Requests : request'[s].state = "asking" => request'[s] = request[s]
  BY <1>1 DEF RequestOK, Posts, Goes
<1>5. DeliveryOK'
  BY <1>1 DEF DeliveryOK, Deliveries
<1> QED
  BY <1>2, <1>3, <1>4, <1>5, Elsewhere

\* Time passes, during a query too: what expires is not yet removed.
LEMMA ClockPreserves ==
  ASSUME IInv, Clock
  PROVE  IInv'
<1>1. now \in Nat /\ now' = now + 1 /\ now' \in Nat
  BY DEF IInv, TypeInv, Clock, Tick
<1>2. UNCHANGED <<inbounds, outbounds, query, delivery, told, request>>
  BY DEF Clock, Tick, turnVars
<1>3. /\ ToSet(inbounds) \subseteq Entries(Ids, Messages)
      /\ ToSet(outbounds) \subseteq Entries(Requests, Requests)
  BY EntriesOf DEF IInv, TypeInv, InboundsOK, OutboundsOK
<1>4. InboundsOK'
  <2>1. ASSUME NEW e \in ToSet(inbounds) PROVE e.ts <= now'
    <3>1. e.ts \in Nat /\ e.ts <= now
      BY <1>3 DEF Entries, IInv, TypeInv, InboundsOK
    <3> QED
      BY <1>1, <3>1
  <2> QED
    BY <1>2, <2>1 DEF IInv, TypeInv, InboundsOK
<1>5. OutboundsOK'
  <2>1. ASSUME NEW e \in ToSet(outbounds) PROVE e.ts <= now'
    <3>1. e.ts \in Nat /\ e.ts <= now
      BY <1>3 DEF Entries, IInv, TypeInv, OutboundsOK
    <3> QED
      BY <1>1, <3>1
  <2> QED
    BY <1>2, <2>1 DEF IInv, TypeInv, OutboundsOK
<1>6. TypeInv'
  BY <1>1, <1>2, <1>4, <1>5 DEF IInv, TypeInv, DeliveryOK, RequestOK, QueryOK
<1>7. ASSUME NEW t \in Nat PROVE now' - t <= Timeout => now - t <= Timeout
  BY <1>1, TimeoutAssumption
<1>8. InboundsKept'
  <2> SUFFICES ASSUME NEW m \in Messages, delivery[m].taken # None,
                      now' - delivery[m].taken <= Timeout
               PROVE  Entry(m.id, delivery[m].taken, m) \in ToSet(inbounds)
    BY <1>2 DEF InboundsKept
  <2>1. delivery[m].taken \in Nat
    BY DEF IInv, TypeInv, DeliveryOK, Deliveries
  <2> QED
    BY <1>7, <2>1 DEF IInv, InboundsKept
<1>9. OutboundsKept'
  <2> SUFFICES ASSUME NEW r \in Requests, request[r].built # None,
                      now' - request[r].built <= Timeout
               PROVE  Entry(r, request[r].built, r) \in ToSet(outbounds)
    BY <1>2 DEF OutboundsKept
  <2>1. request[r].built \in Nat
    BY DEF IInv, TypeInv, RequestOK, Posts
  <2> QED
    BY <1>7, <2>1 DEF IInv, OutboundsKept
<1>10. Searched'
  BY <1>2 DEF IInv, Searched, SizeChanged
<1>11. Asked'
  <2>1. Held' = Held /\ SizeChanged' = SizeChanged /\ Idle' = Idle
    BY <1>2 DEF Held, SizeChanged, Idle
  <2> QED
    BY <1>2, <2>1 DEF IInv, Asked
<1> QED
  BY <1>6, <1>8, <1>9, <1>10, <1>11 DEF IInv

\* Storing a message removes no other that has not expired: ids are unique.
LEMMA TakeInboundPreserves ==
  ASSUME IInv, NEW m \in Messages, TakeInbound(m)
  PROVE  IInv'
<1>1. /\ Idle /\ inbounds' = SetItem(inbounds, m.id, m, now, now)
      /\ UNCHANGED <<now, outbounds, query, told, request>>
      /\ delivery' = [delivery EXCEPT ![m] = [state |-> "posting", attempt |-> 0, taken |-> now]]
  BY DEF TakeInbound, StoreInbound
<1>2. now \in Nat /\ Ordered(inbounds, Ids, Messages) /\ m.id \in Ids
      /\ \A e \in ToSet(inbounds) : e.ts <= now /\ e.key = e.value.id
  BY DEF IInv, TypeInv, InboundsOK, Ids
<1>3. /\ Ordered(inbounds', Ids, Messages)
      /\ ToSet(inbounds') =
           {e \in FreshAt(inbounds, now) : e.key # m.id} \cup {Entry(m.id, now, m)}
  BY <1>1, <1>2, Stored
<1>4. \A e \in ToSet(inbounds') : e.ts <= now /\ e.key = e.value.id
  <2>1. Entry(m.id, now, m).ts <= now /\ Entry(m.id, now, m).key = Entry(m.id, now, m).value.id
    BY <1>2 DEF Entry
  <2> QED
    BY <1>2, <1>3, <2>1 DEF FreshAt
<1>5. TypeInv'
  <2>1. DeliveryOK'
    BY <1>1, <1>2 DEF IInv, TypeInv, DeliveryOK, Deliveries
  <2> QED
    BY <1>1, <1>3, <1>4, <2>1 DEF IInv, TypeInv, InboundsOK, OutboundsOK, RequestOK, QueryOK
<1>6. InboundsKept'
  <2> SUFFICES ASSUME NEW n \in Messages, delivery'[n].taken # None,
                      now - delivery'[n].taken <= Timeout
               PROVE  Entry(n.id, delivery'[n].taken, n) \in ToSet(inbounds')
    BY <1>1 DEF InboundsKept
  <2>1. CASE n = m
    <3>1. delivery'[m].taken = now
      BY <1>1 DEF IInv, TypeInv, DeliveryOK, Deliveries
    <3> QED
      BY <1>3, <2>1, <3>1
  <2>2. CASE n # m
    <3> DEFINE t == delivery[n].taken
               e == Entry(n.id, t, n)
    <3>1. delivery'[n].taken = t
      BY <1>1, <2>2 DEF IInv, TypeInv, DeliveryOK, Deliveries
    <3>2. e \in ToSet(inbounds) /\ t \in Nat
      BY <3>1 DEF IInv, TypeInv, DeliveryOK, Deliveries, InboundsKept
    <3>3. e.ts = t /\ e.key = n.id
      BY DEF Entry
    <3>4. n.id # m.id
      BY <2>2, CacheAssumption
    <3> HIDE DEF e
    <3>5. ~Expired(e, now)
      BY <1>2, <3>1, <3>2, <3>3, TimeoutAssumption DEF Expired
    <3>6. e \in ToSet(inbounds')
      BY <1>3, <3>2, <3>3, <3>4, <3>5 DEF FreshAt
    <3> QED
      BY <3>1, <3>6 DEF e
  <2> QED
    BY <2>1, <2>2
<1>7. OutboundsKept'
  BY <1>1 DEF IInv, OutboundsKept
<1>8. Searched' /\ Asked'
  BY <1>1 DEF IInv, Searched, Asked, Idle
<1> QED
  BY <1>5, <1>6, <1>7, <1>8 DEF IInv

\* The values of a dictionary, of all entries.
LEMMA HeldBy ==
  ASSUME NEW d
  PROVE  {e.value : e \in ToSet(d)} = {d[i].value : i \in DOMAIN d}
BY DEF ToSet

\* The query begins with what Turn knew of in the dictionary.
LEMMA AskPreserves ==
  ASSUME IInv, NEW r \in Requests, NEW to \in Recipients, Ask(r, to)
  PROVE  IInv'
<1> DEFINE c == RemoveExpired(inbounds, now)
           known == {m \in told : delivery[m].taken # None /\ now - delivery[m].taken <= Timeout}
<1>1. /\ Idle /\ inbounds' = c
      /\ UNCHANGED <<now, outbounds, delivery, told>>
      /\ query' = [NoQuery EXCEPT !.state = "running", !.from = to, !.size = Len(c)]
      /\ request' = [request EXCEPT ![r] = [state |-> "asking", to |-> to, reply |-> None,
                                            built |-> None, known |-> known]]
  BY DEF Ask, AskLast
<1>2. /\ Ordered(c, Ids, Messages)
      /\ \A e \in ToSet(c) : e.ts <= now /\ e.key = e.value.id
      /\ \A m \in Messages :
           LET taken == delivery[m].taken
           IN  taken # None /\ now - taken <= Timeout => Entry(m.id, taken, m) \in ToSet(c)
  BY CleanedInbounds
<1>3. Len(c) \in Nat
  BY <1>2, EntriesOf
<1>4. told \subseteq Messages /\ DeliveryOK /\ RequestOK
  BY DEF IInv, TypeInv, DeliveryOK, Deliveries
<1>5. known \in SUBSET Messages /\ known \subseteq {e.value : e \in ToSet(c)}
  <2>1. ASSUME NEW m \in known PROVE \E e \in ToSet(c) : e.value = m
    BY <1>2, <1>4 DEF Entry
  <2> QED
    BY <1>4, <2>1
<1> HIDE DEF c, known
<1>6. /\ query'.state = "running" /\ query'.from = to /\ query'.size = Len(c)
      /\ query'.next = 1 /\ query'.found = << >>
      /\ QueryOK'
  BY <1>1, <1>3, EmptySeq DEF NoQuery, QueryOK, Queries
<1>7. RequestOK' /\ request'[r].state = "asking" /\ request'[r].to = to /\ request'[r].known = known
  BY <1>1, <1>4, <1>5 DEF RequestOK, Posts
<1>8. \A s \in Requests : s # r => request'[s] = request[s] /\ request[s].state # "asking"
  BY <1>1, <1>4 DEF IInv, Asked, RequestOK, Posts
<1>9. TypeInv'
  BY <1>1, <1>2, <1>6, <1>7 DEF IInv, TypeInv, InboundsOK, OutboundsOK, DeliveryOK
<1>10. InboundsKept'
  BY <1>1, <1>2 DEF InboundsKept
<1>11. OutboundsKept'
  BY <1>1, <1>4 DEF IInv, OutboundsKept, RequestOK, Posts
<1>12. Searched'
  <2>1. ToSet(<< >>) = {} /\ 1 .. 0 = {}
    BY DEF ToSet
  <2> QED
    BY <1>3, <1>6, <2>1 DEF Searched
<1>13. Asked'
  BY <1>1, <1>5, <1>6, <1>7, <1>8 DEF Asked, Idle, Held
<1> QED
  BY <1>9, <1>10, <1>11, <1>12, <1>13 DEF IInv

-------------------------------------------------------------------------------
(* The query.                                                              *)

\* What appending adds to the members of a sequence.
LEMMA AlsoAppended ==
  ASSUME NEW S, NEW s \in Seq(S), NEW v \in S
  PROVE  Append(s, v) \in Seq(S) /\ ToSet(Append(s, v)) = ToSet(s) \cup {v}
<1> DEFINE a == Append(s, v)
<1>1. /\ a \in Seq(S) /\ Len(a) = Len(s) + 1 /\ a[Len(s) + 1] = v
      /\ \A i \in 1 .. Len(s) : a[i] = s[i]
  BY AppendProperties
<1>2. DOMAIN a = 1 .. Len(s) + 1 /\ DOMAIN s = 1 .. Len(s) /\ Len(s) \in Nat
  BY <1>1, LenProperties
<1> HIDE DEF a
<1>3. \A i \in DOMAIN a : i \in DOMAIN s \/ i = Len(s) + 1
  BY <1>2
<1>4. DOMAIN s \subseteq DOMAIN a /\ Len(s) + 1 \in DOMAIN a
  BY <1>2
<1>5. ToSet(a) = ToSet(s) \cup {v}
  BY <1>1, <1>2, <1>3, <1>4 DEF ToSet
<1> QED
  BY <1>1, <1>5 DEF a

\* Comparing integers.
LEMMA Between ==
  /\ \A x \in Int : x <= x
  /\ \A x, y, z \in Int : ~ (z <= y) /\ (x = z \/ x <= y) => x <= z
OBVIOUS

\* max() returns one of the messages, and none is later.
LEMMA LatestOfAll ==
  ASSUME NEW s \in Seq(Messages), s # << >>
  PROVE  LatestOf(s) \in ToSet(s) /\ \A n \in ToSet(s) : n.stamp <= LatestOf(s).stamp
<1> DEFINE Best(k) == \E i \in 1 .. k : \A j \in 1 .. k : s[j].stamp <= s[i].stamp
           Bad == {k \in 1 .. Len(s) : ~Best(k)}
           I == {i \in 1 .. Len(s) : \A n \in ToSet(s) : n.stamp <= s[i].stamp}
<1>1. /\ Len(s) \in Nat \ {0} /\ DOMAIN s = 1 .. Len(s)
      /\ \A i \in 1 .. Len(s) : s[i] \in Messages /\ s[i].stamp \in Int
  BY EmptySeq, LenProperties, ElementOfSeq, CacheAssumption
<1>2. Bad = {}
  <2> SUFFICES ASSUME Bad # {} PROVE FALSE
    OBVIOUS
  <2>1. Bad \in SUBSET Nat
    BY <1>1
  <2>2. PICK k \in Bad : \A i \in Bad : k <= i
    <3> HIDE DEF Bad
    <3> QED
      BY <2>1, Minimum
  <2>3. k \in 1 .. Len(s) /\ ~Best(k)
    BY <2>2
  <2>4. CASE k = 1
    <3>1. 1 \in 1 .. Len(s) /\ \A j \in 1 .. 1 : j = 1
      BY <1>1
    <3>2. s[1].stamp <= s[1].stamp
      <4>1. s[1].stamp \in Int
        BY <1>1, <3>1
      <4> QED
        BY <4>1, Between
    <3>3. Best(1)
      BY <3>1, <3>2
    <3> QED
      BY <2>3, <2>4, <3>3
  <2>5. CASE k # 1
    <3>1. k - 1 \in 1 .. Len(s) /\ k - 1 < k
      BY <1>1, <2>3, <2>5
    <3>2. Best(k - 1)
      <4>1. ~ (k <= k - 1)
        BY <2>3
      <4>2. k - 1 \notin Bad
        BY <2>2, <4>1
      <4> QED
        BY <3>1, <4>2
    <3>3. PICK i \in 1 .. k - 1 : \A j \in 1 .. k - 1 : s[j].stamp <= s[i].stamp
      BY <3>2
    <3>4. i \in 1 .. k /\ k \in 1 .. k /\ \A j \in 1 .. k : j \in 1 .. k - 1 \/ j = k
      BY <2>3, <3>3
    <3>5. i \in 1 .. Len(s) /\ \A j \in 1 .. k : j \in 1 .. Len(s)
      <4>1. \A j \in 1 .. k : j \in 1 .. Len(s)
        BY <1>1, <2>3
      <4> QED
        BY <3>4, <4>1
    <3>6. CASE s[k].stamp <= s[i].stamp
      <4>1. \A j \in 1 .. k : s[j].stamp <= s[i].stamp
        BY <3>3, <3>4, <3>6
      <4> QED
        BY <2>3, <3>4, <4>1
    <3>7. CASE ~(s[k].stamp <= s[i].stamp)
      <4>1. ASSUME NEW j \in 1 .. k PROVE s[j].stamp <= s[k].stamp
        <5>1. s[j].stamp \in Int /\ s[i].stamp \in Int /\ s[k].stamp \in Int
          BY <1>1, <2>3, <3>5
        <5>2. s[j].stamp = s[k].stamp \/ s[j].stamp <= s[i].stamp
          BY <3>3, <3>4
        <5> QED
          <6> DEFINE x == s[j].stamp
                     y == s[i].stamp
                     z == s[k].stamp
          <6>1. x \in Int /\ y \in Int /\ z \in Int
            BY <5>1
          <6>2. ~ (z <= y) /\ (x = z \/ x <= y)
            BY <3>7, <5>2
          <6> HIDE DEF x, y, z
          <6>3. x <= z
            BY <6>1, <6>2, Between
          <6> QED
            BY <6>3 DEF x, z
      <4> QED
        BY <2>3, <3>4, <4>1
    <3> QED
      BY <3>6, <3>7
  <2> QED
    BY <2>4, <2>5
<1>3. Best(Len(s))
  <2>1. Len(s) \in 1 .. Len(s)
    BY <1>1
  <2>2. Len(s) \notin Bad
    <3> HIDE DEF Bad
    <3> QED
      BY <1>2
  <2> HIDE DEF Best
  <2> QED
    BY <2>1, <2>2
<1>4. I # {}
  BY <1>1, <1>3 DEF ToSet
<1>5. I \in SUBSET Nat /\ 0 \notin I
  BY <1>1
<1>6. Min(I) \in I /\ Min(I) # 0
  <2> HIDE DEF I
  <2> QED
    BY <1>4, <1>5, Minimum
<1>7. LatestOf(s) = s[Min(I)]
  BY <1>4 DEF LatestOf, SelectInSeq
<1>8. LatestOf(s) \in ToSet(s)
  BY <1>1, <1>6, <1>7 DEF ToSet
<1> QED
  BY <1>6, <1>7, <1>8

\* A step of the query finds the next value, or removes something, and will fail.
LEMMA AskNextPreserves ==
  ASSUME IInv, AskNext, UNCHANGED turnVars
  PROVE  IInv'
<1> DEFINE c == RemoveExpired(inbounds, now)
           e == inbounds[query.next]
           v == Lookup(c, e.key)
<1>1. /\ query.state = "running" /\ ~SizeChanged /\ query.next <= query.size
      /\ inbounds' = c
      /\ query' = [query EXCEPT !.next = @ + 1,
                     !.found = IF v # None /\ v.from = query.from THEN Append(@, v) ELSE @]
      /\ UNCHANGED <<now, outbounds, delivery, told, request>>
  BY DEF AskNext, Querying, GetItem, turnVars
<1>2. /\ Ordered(c, Ids, Messages)
      /\ \A x \in ToSet(c) : x.ts <= now /\ x.key = x.value.id
      /\ \A m \in Messages :
           LET taken == delivery[m].taken
           IN  taken # None /\ now - taken <= Timeout => Entry(m.id, taken, m) \in ToSet(c)
  BY CleanedInbounds
<1>3. /\ Ordered(inbounds, Ids, Messages) /\ ToSet(inbounds) \subseteq Entries(Ids, Messages)
      /\ DOMAIN inbounds = 1 .. Len(inbounds) /\ now \in Nat
  BY EntriesOf DEF IInv, TypeInv, InboundsOK
<1>4. /\ query.size = Len(inbounds) /\ query.next \in 1 .. query.size
      /\ query.next \in Nat /\ query.size \in Nat /\ query.found \in Seq(Messages)
      /\ ToSet(query.found) = {m \in {inbounds[i].value : i \in 1 .. query.next - 1} :
                                 m.from = query.from}
  <2>1. query.next \in Nat /\ query.size \in Nat /\ query.found \in Seq(Messages)
    BY DEF IInv, TypeInv, QueryOK, Queries
  <2>2. query.next \in 1 .. query.size + 1
    BY <1>1 DEF IInv, Searched
  <2>3. query.next \in 1 .. query.size
    BY <1>1, <2>1, <2>2
  <2> QED
    BY <1>1, <2>1, <2>3 DEF IInv, Searched, SizeChanged
<1>5. e \in ToSet(inbounds) /\ e.key \in Ids /\ e.value \in Messages
  <2>1. e \in ToSet(inbounds)
    BY <1>3, <1>4 DEF ToSet
  <2> QED
    BY <1>3, <2>1 DEF Entries
<1>6. v \in Messages \cup {None}
  <2>1. \A x \in ToSet(c) : x.value \in Messages
    BY <1>2, EntriesOf DEF Entries
  <2> HIDE DEF c, e
  <2> QED
    BY <1>2, <1>5, <2>1, Found
<1> HIDE DEF c, e, v
<1>7. query \in Queries
  BY DEF IInv, TypeInv, QueryOK, Queries
<1>8. /\ query'.state = "running" /\ query'.size = query.size /\ query'.from = query.from
      /\ query'.next = query.next + 1
      /\ query'.found = IF v # None /\ v.from = query.from THEN Append(query.found, v)
                                                           ELSE query.found
  BY <1>1, <1>7
<1>9. v # None => Append(query.found, v) \in Seq(Messages)
  BY <1>4, <1>6, AlsoAppended
<1>10. QueryOK'
  <2>1. query'.found \in Seq(Messages) /\ query'.next \in Nat
    BY <1>4, <1>8, <1>9
  <2> QED
    BY <1>1, <1>7, <2>1 DEF QueryOK, Queries
<1>11. TypeInv'
  BY <1>1, <1>2, <1>10 DEF IInv, TypeInv, InboundsOK, OutboundsOK, DeliveryOK, RequestOK
<1>12. InboundsKept' /\ OutboundsKept'
  BY <1>1, <1>2 DEF IInv, InboundsKept, OutboundsKept
<1>13. ~SizeChanged' => inbounds' = inbounds
  <2> SUFFICES ASSUME ~SizeChanged' PROVE c = inbounds
    BY <1>1
  <2>1. Len(c) = Len(inbounds)
    BY <1>1, <1>4, <1>8 DEF SizeChanged
  <2> QED
    BY <1>3, <2>1, Untouched DEF c
<1>14. Searched'
  <2> SUFFICES ASSUME ~SizeChanged'
               PROVE  /\ query'.next \in 1 .. query'.size + 1
                      /\ ToSet(query'.found) =
                           {m \in {inbounds'[i].value : i \in 1 .. query'.next - 1} :
                              m.from = query'.from}
    BY DEF Searched
  <2>1. query.next + 1 \in 1 .. query.size + 1
    BY <1>4
  <2>2. c = inbounds /\ inbounds' = inbounds
    BY <1>1, <1>13
  <2>3. v = e.value /\ v # None
    BY <1>3, <1>5, <2>2, Found, CacheAssumption DEF v
  <2>4. ToSet(Append(query.found, v)) = ToSet(query.found) \cup {v}
    BY <1>4, <1>5, <2>3, AlsoAppended
  <2>5. {inbounds[i].value : i \in 1 .. query.next}
          = {inbounds[i].value : i \in 1 .. query.next - 1} \cup {v}
    <3>1. 1 .. query.next = (1 .. query.next - 1) \cup {query.next}
      BY <1>4
    <3> QED
      BY <2>3, <3>1 DEF e
  <2>6. (query.next + 1) - 1 = query.next
    BY <1>4
  <2>7. ToSet(query'.found) = {m \in {inbounds[i].value : i \in 1 .. query.next} :
                                 m.from = query.from}
    BY <1>4, <1>8, <2>3, <2>4, <2>5
  <2> QED
    BY <1>8, <2>1, <2>2, <2>6, <2>7
<1>15. Asked'
  <2>1. ~SizeChanged' => Held' = Held
    BY <1>13 DEF Held
  <2> QED
    BY <1>1, <1>8, <2>1 DEF IInv, Asked, Idle
<1> QED
  BY <1>11, <1>12, <1>14, <1>15 DEF IInv

\* A query that is done has seen every value, and takes the latest of the sender's.
LEMMA AskDonePreserves ==
  ASSUME IInv, AskDone, UNCHANGED turnVars
  PROVE  IInv'
<1>1. /\ query.state = "running" /\ ~SizeChanged /\ query.next > query.size
      /\ query' = [query EXCEPT !.state = "done", !.answer = LatestOf(query.found)]
      /\ UNCHANGED <<now, inbounds, outbounds, delivery, told, request>>
  BY DEF AskDone, Querying, turnVars
<1>2. query \in Queries
  BY DEF IInv, TypeInv, QueryOK, Queries
<1>3. /\ Ordered(inbounds, Ids, Messages)
      /\ DOMAIN inbounds = 1 .. Len(inbounds) /\ query.size = Len(inbounds)
  BY <1>1, EntriesOf DEF IInv, TypeInv, InboundsOK, SizeChanged
<1>4. ToSet(query.found) = {m \in Held : m.from = query.from}
  <2>1. query.next \in 1 .. query.size + 1
    BY <1>1 DEF IInv, Searched
  <2>2. query.next - 1 = query.size
    BY <1>1, <1>2, <2>1 DEF Queries
  <2>3. ToSet(query.found) = {m \in {inbounds[i].value : i \in 1 .. query.size} :
                                m.from = query.from}
    BY <1>1, <2>2 DEF IInv, Searched
  <2> QED
    BY <1>3, <2>3, HeldBy DEF Held
<1> DEFINE answer == LatestOf(query.found)
<1>5. query.found = << >> => answer = None /\ ToSet(query.found) = {}
  BY DEF LatestOf, ToSet
<1>6. query.found # << >> =>
        answer \in ToSet(query.found) /\ \A n \in ToSet(query.found) : n.stamp <= answer.stamp
  BY <1>2, LatestOfAll DEF Queries
<1>7. ToSet(query.found) \subseteq Messages
  BY <1>2, ElementOfSeq, LenProperties DEF ToSet, Queries
<1>8. answer \in Messages \cup {None}
  BY <1>5, <1>6, <1>7
<1> HIDE DEF answer
<1>9. /\ query'.state = "done" /\ query'.from = query.from /\ query'.answer = answer
      /\ query'.size = query.size
      /\ QueryOK'
  BY <1>1, <1>2, <1>8 DEF QueryOK, Queries, answer
<1>10. TypeInv'
  BY <1>1, <1>9 DEF IInv, TypeInv, InboundsOK, OutboundsOK, DeliveryOK, RequestOK
<1>11. InboundsKept' /\ OutboundsKept'
  BY <1>1 DEF IInv, InboundsKept, OutboundsKept
<1>12. Searched'
  BY <1>9 DEF Searched
<1>13. ASSUME NEW r \in Requests, request[r].state = "asking"
       PROVE  Latest(answer, request[r].to, request[r].known)
  <2>1. request[r].known \subseteq Held /\ query.from = request[r].to
    BY <1>1, <1>13 DEF IInv, Asked
  <2>2. answer # None => answer \in ToSet(query.found)
    BY <1>5, <1>6
  <2>3. answer # None => answer.from = query.from
    BY <1>4, <2>2
  <2>4. ASSUME NEW m \in request[r].known, m.from = query.from
        PROVE  answer # None /\ m.stamp <= answer.stamp
    <3>1. m \in ToSet(query.found)
      BY <1>4, <2>1, <2>4
    <3>2. query.found # << >>
      BY <1>5, <3>1
    <3>3. answer \in Messages /\ m.stamp <= answer.stamp
      BY <1>6, <1>7, <3>1, <3>2
    <3> QED
      BY <3>3, CacheAssumption
  <2> QED
    BY <2>1, <2>3, <2>4 DEF Latest
<1>14. Asked'
  BY <1>1, <1>9, <1>13 DEF IInv, Asked, Idle
<1> QED
  BY <1>10, <1>11, <1>12, <1>14 DEF IInv

\* A query that fails has no answer.
LEMMA AskFailsPreserves ==
  ASSUME IInv, AskFails, UNCHANGED turnVars
  PROVE  IInv'
<1>1. /\ query' = [query EXCEPT !.state = "failed"]
      /\ UNCHANGED <<now, inbounds, outbounds, delivery, told, request>>
  BY DEF AskFails, turnVars
<1>2. query'.state = "failed" /\ query'.from = query.from /\ QueryOK'
  BY <1>1 DEF IInv, TypeInv, QueryOK, Queries
<1>3. ~Idle
  BY DEF AskFails, Querying, Idle
<1>4. TypeInv'
  BY <1>1, <1>2 DEF IInv, TypeInv, InboundsOK, OutboundsOK, DeliveryOK, RequestOK
<1>5. InboundsKept' /\ OutboundsKept'
  BY <1>1 DEF IInv, InboundsKept, OutboundsKept
<1>6. Searched' /\ Asked'
  BY <1>1, <1>2, <1>3 DEF IInv, Searched, Asked, Idle
<1> QED
  BY <1>4, <1>5, <1>6 DEF IInv

\* A request that is asking is the only one.
LEMMA OnlyOne ==
  ASSUME IInv, NEW r \in Requests, request[r].state = "asking",
         NEW s \in Requests, s # r
  PROVE  request[s].state # "asking"
BY DEF IInv, Asked

\* The cache when it is not being asked.
LEMMA NoQueryOK ==
  /\ NoQuery \in Queries
  /\ NoQuery.state = "idle"
BY EmptySeq DEF NoQuery, Queries

\* The request ends with its query.
LEMMA QueryRaisedPreserves ==
  ASSUME IInv, NEW r \in Requests, QueryRaised(r)
  PROVE  IInv'
<1>1. /\ request[r].state = "asking" /\ query' = NoQuery
      /\ request' = [request EXCEPT ![r].state = "error"]
      /\ UNCHANGED <<now, inbounds, outbounds, delivery, told>>
  BY DEF QueryRaised, Goes
<1>2. RequestOK
  BY DEF IInv, TypeInv
<1>3. RequestOK' /\ \A s \in Requests : request'[s].built = request[s].built
  BY <1>1, <1>2 DEF RequestOK, Posts
<1>4. \A s \in Requests : request'[s].state # "asking"
  <2>1. request'[r].state = "error"
    BY <1>1, <1>2 DEF RequestOK, Posts
  <2>2. \A s \in Requests : s # r => request'[s] = request[s]
    BY <1>1, <1>2 DEF RequestOK, Posts
  <2> QED
    BY <1>1, <2>1, <2>2, OnlyOne
<1>5. TypeInv'
  BY <1>1, <1>3, NoQueryOK DEF IInv, TypeInv, InboundsOK, OutboundsOK, DeliveryOK, QueryOK
<1>6. InboundsKept' /\ OutboundsKept'
  BY <1>1, <1>3 DEF IInv, InboundsKept, OutboundsKept
<1>7. Searched' /\ Asked'
  BY <1>1, <1>4, NoQueryOK DEF Searched, Asked
<1> QED
  BY <1>5, <1>6, <1>7 DEF IInv

\* The message is stored; storing it removes no other that has not expired.
LEMMA BuildPreserves ==
  ASSUME IInv, NEW r \in Requests, Build(r)
  PROVE  IInv'
<1>1. /\ request[r].state = "asking" /\ query' = NoQuery
      /\ request' = [request EXCEPT ![r].state = "publishing", ![r].reply = query.answer,
                                    ![r].built = now]
      /\ outbounds' = SetItem(outbounds, r, r, now, now)
      /\ UNCHANGED <<now, inbounds, delivery, told>>
  BY DEF Build, StoreOutbound
<1>2. RequestOK /\ now \in Nat /\ query.answer \in Messages \cup {None}
  BY DEF IInv, TypeInv, QueryOK, Queries
<1> DEFINE built == [request[r] EXCEPT !.state = "publishing", !.reply = query.answer,
                                       !.built = now]
<1>3. request \in [Requests -> Posts] /\ built \in Posts
  BY <1>2 DEF RequestOK, Posts
<1>4. built.state = "publishing" /\ built.built = now
  BY <1>3
<1>5. request' = [request EXCEPT ![r] = built]
  BY <1>1, <1>3
<1> HIDE DEF built
<1>6. /\ request' \in [Requests -> Posts] /\ request'[r] = built
      /\ \A s \in Requests : s # r => request'[s] = request[s]
  BY <1>3, <1>5
<1>7. RequestOK'
  BY <1>6 DEF RequestOK, Posts
<1>8. /\ request'[r].state = "publishing" /\ request'[r].built = now
      /\ \A s \in Requests : s # r => request'[s] = request[s]
  BY <1>4, <1>6
<1>9. /\ Ordered(outbounds, Requests, Requests)
      /\ \A e \in ToSet(outbounds) : e.ts <= now /\ e.key = e.value
  BY DEF IInv, TypeInv, OutboundsOK
<1>10. /\ Ordered(outbounds', Requests, Requests)
      /\ ToSet(outbounds') =
           {e \in FreshAt(outbounds, now) : e.key # r} \cup {Entry(r, now, r)}
  BY <1>1, <1>2, <1>9, Stored
<1>11. OutboundsOK'
  <2>1. Entry(r, now, r).ts <= now /\ Entry(r, now, r).key = Entry(r, now, r).value
    BY <1>2 DEF Entry
  <2> QED
    BY <1>1, <1>9, <1>10, <2>1 DEF FreshAt, OutboundsOK
<1>12. TypeInv'
  BY <1>1, <1>7, <1>11, NoQueryOK DEF IInv, TypeInv, InboundsOK, DeliveryOK, QueryOK
<1>13. InboundsKept'
  BY <1>1 DEF IInv, InboundsKept
<1>14. OutboundsKept'
  <2> SUFFICES ASSUME NEW s \in Requests, request'[s].built # None,
                      now - request'[s].built <= Timeout
               PROVE  Entry(s, request'[s].built, s) \in ToSet(outbounds')
    BY <1>1 DEF OutboundsKept
  <2>1. CASE s = r
    BY <1>8, <1>10, <2>1
  <2>2. CASE s # r
    <3> DEFINE t == request[s].built
               e == Entry(s, t, s)
    <3>1. request'[s].built = t
      BY <1>8, <2>2
    <3>2. e \in ToSet(outbounds) /\ t \in Nat
      BY <1>2, <3>1 DEF IInv, RequestOK, Posts, OutboundsKept
    <3>3. e.ts = t /\ e.key = s
      BY DEF Entry
    <3> HIDE DEF e
    <3>4. ~Expired(e, now)
      BY <1>2, <3>1, <3>2, <3>3, TimeoutAssumption DEF Expired
    <3>5. e \in ToSet(outbounds')
      BY <1>10, <2>2, <3>2, <3>3, <3>4 DEF FreshAt
    <3> QED
      BY <3>1, <3>5 DEF e
  <2> QED
    BY <2>1, <2>2
<1>15. Searched' /\ Asked'
  BY <1>1, <1>8, OnlyOne, NoQueryOK DEF Searched, Asked
<1> QED
  BY <1>12, <1>13, <1>14, <1>15 DEF IInv

\* Looking up an event's message cleans the outbound messages.
LEMMA HandleEventPreserves ==
  ASSUME IInv, NEW e \in Events, HandleEvent(e)
  PROVE  IInv'
<1> DEFINE c == RemoveExpired(outbounds, now)
<1>1. outbounds' = c /\ UNCHANGED <<now, inbounds, query, delivery, told, request>>
  BY DEF HandleEvent, CleanOutbound
<1>2. /\ Ordered(c, Requests, Requests)
      /\ \A x \in ToSet(c) : x.ts <= now /\ x.key = x.value
      /\ \A r \in Requests :
           LET built == request[r].built
           IN  built # None /\ now - built <= Timeout => Entry(r, built, r) \in ToSet(c)
  BY CleanedOutbounds
<1> HIDE DEF c
<1>3. TypeInv'
  BY <1>1, <1>2 DEF IInv, TypeInv, InboundsOK, OutboundsOK, DeliveryOK, RequestOK, QueryOK
<1>4. InboundsKept' /\ OutboundsKept'
  BY <1>1, <1>2 DEF IInv, InboundsKept, OutboundsKept
<1>5. Searched'
  BY <1>1 DEF IInv, Searched, SizeChanged
<1>6. Asked'
  <2>1. Held' = Held /\ SizeChanged' = SizeChanged /\ Idle' = Idle
    BY <1>1 DEF Held, SizeChanged, Idle
  <2> QED
    BY <1>1, <2>1 DEF IInv, Asked
<1> QED
  BY <1>3, <1>4, <1>5, <1>6 DEF IInv

\* What was stored is lost, and no request waits for an answer any more.
LEMMA RestartPreserves ==
  ASSUME IInv, Restart
  PROVE  IInv'
<1>1. /\ inbounds' = << >> /\ outbounds' = << >> /\ query' = NoQuery
      /\ UNCHANGED <<now, told>>
      /\ delivery' = [m \in Messages |->
           [delivery[m] EXCEPT !.state = IF @ = "posting" THEN "queued" ELSE @, !.taken = None]]
      /\ request' = [r \in Requests |->
           [request[r] EXCEPT !.built = None,
              !.state = CASE @ = "asking"     -> "error"
                          [] @ = "publishing" -> "timed out"
                          [] @ = "published"  -> "sent"
                          [] OTHER            -> @]]
  BY DEF Restart
<1>2. DeliveryOK' /\ \A m \in Messages : delivery'[m].taken = None
  BY <1>1 DEF IInv, TypeInv, DeliveryOK, Deliveries
<1>3. ASSUME NEW r \in Requests
      PROVE  /\ request'[r] \in Posts
             /\ request'[r].built = None /\ request'[r].state # "asking"
  BY <1>1 DEF IInv, TypeInv, RequestOK, Posts
<1>4. RequestOK'
  BY <1>1, <1>3 DEF RequestOK, Posts
<1>5. InboundsOK' /\ OutboundsOK'
  <2>1. Ordered(<< >>, Ids, Messages) /\ Ordered(<< >>, Requests, Requests) /\ ToSet(<< >>) = {}
    BY DEF Ordered, ToSet
  <2> QED
    BY <1>1, <2>1 DEF InboundsOK, OutboundsOK
<1>6. TypeInv'
  BY <1>1, <1>2, <1>4, <1>5, NoQueryOK DEF IInv, TypeInv, QueryOK, DeliveryOK
<1>7. InboundsKept' /\ OutboundsKept'
  BY <1>2, <1>3 DEF InboundsKept, OutboundsKept
<1>8. Searched' /\ Asked'
  BY <1>1, <1>3, NoQueryOK DEF Searched, Asked
<1> QED
  BY <1>6, <1>7, <1>8 DEF IInv

\* The invariant is inductive.
LEMMA NextPreserves == IInv /\ [Next]_vars => IInv'
<1> SUFFICES ASSUME IInv, [Next]_vars PROVE IInv'
  OBVIOUS
<1>1. ASSUME NEW m \in Messages,
             TurnReceives(m) \/ PostSucceeds(m) \/ PostFails(m) \/ TooSlow(m)
      PROVE  IInv'
  BY <1>1, DeliveryPreserves
<1>2. ASSUME NEW r \in Requests,
             AskNamed(r) \/ BrokerTakes(r) \/ TimesOut(r) \/ PublishReturns(r)
      PROVE  IInv'
  <2>1. UNCHANGED <<cacheVars, delivery, told>>
    BY <1>2 DEF AskNamed, BrokerTakes, TimesOut, PublishReturns
  <2>2. Goes(r, "error") \/ Goes(r, "published") \/ Goes(r, "sent") \/ Goes(r, "timed out")
    BY <1>2 DEF AskNamed, BrokerTakes, TimesOut, PublishReturns
  <2> QED
    BY <2>1, <2>2, GoesPreserves
<1>3. CASE Query
  BY <1>3, AskNextPreserves, AskDonePreserves, AskFailsPreserves DEF Query
<1>4. ASSUME UNCHANGED <<cacheVars, delivery, told, request>>
      PROVE  IInv'
  <2>1. DeliveryOK' /\ RequestOK'
    BY <1>4 DEF IInv, TypeInv, DeliveryOK, RequestOK
  <2> QED
    BY <1>4, <2>1, Elsewhere
<1>5. ASSUME NEW e \in Events, Happens(e)
      PROVE  IInv'
  BY <1>4, <1>5 DEF Happens
<1>6. CASE UNCHANGED vars
  BY <1>4, <1>6 DEF vars, turnVars
<1> QED
  BY <1>1, <1>2, <1>3, <1>5, <1>6, ClockPreserves, TakeInboundPreserves, AskPreserves,
     QueryRaisedPreserves, BuildPreserves, HandleEventPreserves, RestartPreserves DEF Next

\* What the cache was given and has not expired is in it, and a query that is going
\* to answer has missed none of it so far.
THEOREM CacheInvariant == Spec => []IInv
<1>1. Init => IInv
  BY InitEstablishes
<1>2. IInv /\ [Next]_vars => IInv'
  BY NextPreserves
<1> QED
  BY <1>1, <1>2, PTL DEF Spec

-------------------------------------------------------------------------------
(* What Turn can rely on.                                                  *)

\* A request that is asking leaves that state with an answer, or for good.
LEMMA PublishesWhenBuilt ==
  ASSUME IInv, [Next]_vars, NEW r \in Requests,
         request[r].state = "asking", request'[r].state = "publishing"
  PROVE  Build(r)
<1>1. RequestOK /\ ~Idle
  BY DEF IInv, TypeInv, Asked
<1>2. request' # request
  OBVIOUS
<1>3. ASSUME NEW s \in Requests, QueryRaised(s) PROVE FALSE
  BY <1>1, <1>3 DEF QueryRaised, Goes, RequestOK, Posts
<1>4. ASSUME NEW s \in Requests, Build(s) PROVE s = r
  BY <1>1, <1>4 DEF Build, RequestOK, Posts
<1>5. ~Restart
  <2> SUFFICES ASSUME Restart PROVE request'[r].state = "error"
    OBVIOUS
  <2>1. request[r] \in Posts
    BY <1>1 DEF RequestOK, Posts
  <2>2. request'[r] = [request[r] EXCEPT !.built = None, !.state = "error"]
    BY DEF Restart
  <2> QED
    BY <2>1, <2>2
<1>6. \A m \in Messages : ~TakeInbound(m) /\ ~TurnReceives(m) /\ ~PostSucceeds(m)
                          /\ ~PostFails(m) /\ ~TooSlow(m)
  BY <1>1 DEF TakeInbound, TurnReceives, PostSucceeds, PostFails, TooSlow
<1>7. \A s \in Requests : /\ \A to \in Recipients : ~Ask(s, to)
                          /\ ~AskNamed(s) /\ ~BrokerTakes(s) /\ ~TimesOut(s) /\ ~PublishReturns(s)
  BY <1>1 DEF Ask, AskNamed, BrokerTakes, TimesOut, PublishReturns
<1>8. \A e \in Events : ~Happens(e) /\ ~HandleEvent(e)
  BY <1>1 DEF Happens, HandleEvent
<1>9. ~Clock /\ ~Query /\ ~(UNCHANGED vars)
  BY <1>2 DEF Clock, Query, vars, turnVars
<1> QED
  BY <1>3, <1>4, <1>5, <1>6, <1>7, <1>8, <1>9 DEF Next

\* A reply is to the latest message of the user that Turn had been told of when it
\* asked and the cache held then, or to a later one; and if there was one, it is a reply.
THEOREM LatestTold == Spec => RepliesToTheLatestTold
<1> DEFINE Replied ==
      \A r \in Requests :
        request[r].state = "asking" /\ request'[r].state = "publishing" =>
          LET reply == request'[r].reply
              heard == {m \in request[r].known : m.from = request[r].to}
          IN  /\ reply # None => reply.from = request[r].to
              /\ heard # {} => reply # None /\ \A m \in heard : m.stamp <= reply.stamp
<1>1. IInv /\ [Next]_vars => Replied
  <2> SUFFICES ASSUME IInv, [Next]_vars, NEW r \in Requests,
                      request[r].state = "asking", request'[r].state = "publishing"
               PROVE  Latest(request'[r].reply, request[r].to, request[r].known)
    BY DEF Latest
  <2>1. Build(r)
    BY PublishesWhenBuilt
  <2>2. request'[r].reply = query.answer /\ query.state = "done"
    BY <2>1 DEF Build, IInv, TypeInv, RequestOK, Posts
  <2> QED
    BY <2>2 DEF IInv, Asked
<1>2. IInv /\ [Next]_vars => [Replied]_vars
  BY <1>1
<1> QED
  BY <1>2, CacheInvariant, PTL DEF Spec, RepliesToTheLatestTold

\* What is found under a key is the value of its entry.
LEMMA FoundOutbound ==
  ASSUME IInv, NEW r \in Requests, request[r].built # None, now - request[r].built <= Timeout
  PROVE  FetchOutbound(r) = r
<1> DEFINE c == RemoveExpired(outbounds, now)
           e == Entry(r, request[r].built, r)
<1>1. Ordered(c, Requests, Requests) /\ e \in ToSet(c)
  BY CleanedOutbounds
<1>2. e.key = r /\ e.value = r
  BY DEF Entry
<1> HIDE DEF c, e
<1>3. Lookup(c, r) = r
  BY <1>1, <1>2, Found
<1> QED
  BY <1>3 DEF FetchOutbound, GetItem, c

\* As long as no delivery report, which names no message, comes: an event is dropped
\* only when its message expired or was lost.
THEOREM Forwarded == ASSUME "delivery_report" \notin Kinds
                     PROVE  Spec => ForwardedUnlessExpired
<1> DEFINE Due == \A e \in dropped' \ dropped :
             LET built == request[e[1]].built
             IN  built # None => now - built > Timeout
<1>1. IInv /\ [Next]_vars => Due
  <2> SUFFICES ASSUME IInv, [Next]_vars, NEW e \in dropped' \ dropped,
                      request[e[1]].built # None
               PROVE  now - request[e[1]].built > Timeout
    OBVIOUS
  <2>1. e \in Events /\ HandleEvent(e)
    <3>1. dropped' # dropped
      OBVIOUS
    <3>2. \A f \in Events : HandleEvent(f) => f = e
      BY DEF HandleEvent
    <3>3. \A m \in Messages : ~TakeInbound(m) /\ ~TurnReceives(m) /\ ~PostSucceeds(m)
                              /\ ~PostFails(m) /\ ~TooSlow(m)
      BY <3>1 DEF TakeInbound, TurnReceives, PostSucceeds, PostFails, TooSlow, Deliver
    <3>4. \A s \in Requests : /\ \A to \in Recipients : ~Ask(s, to)
                              /\ ~AskNamed(s) /\ ~QueryRaised(s) /\ ~Build(s)
                              /\ ~BrokerTakes(s) /\ ~TimesOut(s) /\ ~PublishReturns(s)
      BY <3>1 DEF Ask, AskNamed, QueryRaised, Build, BrokerTakes, TimesOut, PublishReturns
    <3>5. \A f \in Events : ~Happens(f)
      BY <3>1 DEF Happens
    <3>6. ~Clock /\ ~Query /\ ~Restart /\ ~(UNCHANGED vars)
      BY <3>1 DEF Clock, Query, Restart, vars, turnVars
    <3> QED
      BY <3>2, <3>3, <3>4, <3>5, <3>6 DEF Next
  <2>2. e[1] \in Requests /\ e[2] \in Kinds
    BY <2>1 DEF Events
  <2>3. SentMessageId(e) = e[1]
    BY <2>2 DEF SentMessageId
  <2>4. FetchOutbound(e[1]) = None
    BY <2>1, <2>3 DEF HandleEvent
  <2>5. ~(now - request[e[1]].built <= Timeout)
    BY <2>2, <2>4, FoundOutbound, TurnAssumption
  <2>6. now \in Nat /\ request[e[1]].built \in Nat
    BY <2>2 DEF IInv, TypeInv, RequestOK, Posts
  <2> QED
    BY <2>5, <2>6, TimeoutAssumption
<1>2. IInv /\ [Next]_vars => [Due]_vars
  BY <1>1
<1> QED
  BY <1>2, CacheInvariant, PTL DEF Spec, ForwardedUnlessExpired

================================================================================
