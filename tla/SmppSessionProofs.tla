---------------------------- MODULE SmppSessionProofs ----------------------------
(***************************************************************************)
(* Proofs about SmppSession, for any messages, segments and window, any    *)
(* SMSC that SmppSession allows and any way its tasks take turns.          *)
(*                                                                         *)
(* SInv, the types and what the reader waits for, holds always.  KInv, a   *)
(* part of a message is read once, and kept or handed on before it is      *)
(* confirmed, bounds what a crash can lose.  FInv follows a request from   *)
(* the task that sends it to the task that gets its response, which is one *)
(* task as long as no two pending requests have one number (NumbersApart); *)
(* NumbersSuffice says when that is so.  On FInv rest the invariants of    *)
(* what the application is told: OInv that it is true, LInv that it comes  *)
(* in order, EInv that a report finds its message.                         *)
(***************************************************************************)
EXTENDS SmppSession, FiniteSetTheorems, SequenceTheorems, TLAPS

Steps == {"idle", "offering", "waiting", "resumed", "bound", "reporting", "ended", "failed"}

\* PDUs from the SMSC; a stray response is about None.
Responses == [type : {"response"}, about : SegmentIds \cup {Bind, Enquiry},
              seq : 1 .. SeqLimit, status : {"ok", "error", "generic_nack"}]
Strays == [type : {"response"}, about : {None}, seq : {0}, status : {"generic_nack"}]
Reports == [type : {"report"}, about : SegmentIds, seq : {0}, status : {"pending", "final"}]
Deliveries == [type : {"deliver"}, about : PartIds, seq : {0}, status : {"new"}]
Others == [type : {"enquire_link", "unknown"}, about : {Enquiry}, seq : {0}, status : {"new"}]
            \cup [type : {"unbind"}, about : {Bind}, seq : {0}, status : {"new"}]
Down == Responses \cup Strays \cup Reports \cup Deliveries \cup Others

Readers == [at : {"reading"}, about : {None}] \cup [at : {"handing"}, about : Requesters]
             \cup [at : {"answering", "forwarding", "unbinding", "raising"}, about : Received]

PduOffers == [task : Requesters \cup {Reader}, pdu : Pdus]
ItemOffers == [task : Messages \cup {Reader}, item : Items]

RequestTypeInv ==
  /\ seqno \in 0 .. SeqLimit
  /\ responses \in [1 .. SeqLimit -> Requesters \cup {None}]
  /\ step \in [Requesters -> Steps]
  /\ first \in [Requesters -> 0 .. SeqLimit]
  /\ cur \in [Messages -> Nat]
  /\ reply \in [Requesters -> Responses \cup {None}]
  /\ ids \in [SegmentIds -> Messages \cup {None}]

ChannelTypeInv ==
  /\ pduq \in Seq(PduOffers)
  /\ writer \in Pdus \cup {None}
  /\ reader \in Readers
  /\ fwdq \in Seq(ItemOffers)
  /\ forwarder \in Items \cup {None}
  /\ published \in Seq(Items)

SmscTypeInv ==
  /\ down \in Seq(Down) /\ parts \subseteq PartIds
  /\ DOMAIN smsc = {"reads", "bound", "todo", "accepted", "refused", "reported",
                    "delivered", "answers", "unbound"}
  /\ smsc.todo \subseteq Pdus /\ \A p \in smsc.todo : p.type = "request"
  /\ smsc.accepted \subseteq SegmentIds /\ smsc.refused \subseteq SegmentIds
  /\ smsc.reported \subseteq SegmentIds \X {"pending", "final"}
  /\ smsc.answers \subseteq Received

\* The reader waits at one channel at a time, with one PDU or item.
PduQueueInv ==
  /\ \A i, j \in DOMAIN pduq : pduq[i].task = Reader /\ pduq[j].task = Reader => i = j
  /\ \A i \in DOMAIN pduq :
       LET q == pduq[i]
       IN  IF q.task = Reader
           THEN q.pdu.type = "answer" /\ q.pdu.about = reader.about
                  /\ reader.at \in {"answering", "unbinding"}
           ELSE q.pdu.type = "request"

\* A PDU with a part of message x.
IsPartOf(about, x) == about[1] = "deliver" /\ about[2] \in PartIds /\ about[2][1] = x

ItemQueueInv ==
  /\ \A i, j \in DOMAIN fwdq : fwdq[i].task = Reader /\ fwdq[j].task = Reader => i = j
  /\ \A i \in DOMAIN fwdq :
       LET q == fwdq[i]
       IN  IF q.task = Reader
           THEN /\ reader.at = "forwarding"
                /\ q.item.type = "inbound" => IsPartOf(reader.about, q.item.about)
                /\ q.item.type # "inbound" => reader.about[1] = "report"
           ELSE q.item.type \in {"ack", "nack"} /\ q.item.about = q.task

SInv == /\ RequestTypeInv /\ ChannelTypeInv /\ SmscTypeInv
        /\ PduQueueInv /\ ItemQueueInv

\* What the reader answers by itself, with nothing for the application.
ReaderAnswers == ReadPart \/ ReadEnquiry \/ ReadUnknownRequest \/ ReadUnbind

-------------------------------------------------------------------------------
(* Sequences.                                                              *)

\* What a sequence holds once an element is added at its end.
LEMMA AppendFacts ==
  ASSUME NEW S, NEW s \in Seq(S), NEW e \in S
  PROVE  /\ Append(s, e) \in Seq(S)
         /\ Len(s) \in Nat
         /\ DOMAIN s = 1 .. Len(s)
         /\ DOMAIN Append(s, e) = 1 .. Len(s) + 1
         /\ \A i \in DOMAIN Append(s, e) :
              Append(s, e)[i] = IF i \in DOMAIN s THEN s[i] ELSE e
         /\ \A i \in DOMAIN s : i \in DOMAIN Append(s, e)
         /\ Len(s) + 1 \in DOMAIN Append(s, e) /\ Len(s) + 1 \notin DOMAIN s
         /\ \A i \in DOMAIN Append(s, e) : i \in DOMAIN s \/ i = Len(s) + 1
  OBVIOUS

\* What a sequence holds once its head is taken.
LEMMA TailFacts ==
  ASSUME NEW S, NEW s \in Seq(S), s # << >>
  PROVE  /\ Tail(s) \in Seq(S)
         /\ Head(s) = s[1] /\ Head(s) \in S
         /\ 1 \in DOMAIN s /\ DOMAIN s \subseteq Nat \ {0}
         /\ \A i \in DOMAIN Tail(s) : Tail(s)[i] = s[i + 1] /\ i + 1 \in DOMAIN s
                                      /\ i + 1 # 1 /\ i \in Nat \ {0}
         /\ \A i \in DOMAIN s : i = 1 \/ (i - 1 \in DOMAIN Tail(s) /\ Tail(s)[i - 1] = s[i])
  OBVIOUS

\* The elements of a sequence.
LEMMA ElementFacts ==
  ASSUME NEW S, NEW s \in Seq(S)
  PROVE  /\ \A i \in DOMAIN s : s[i] \in S
         /\ ToSet(s) = {s[i] : i \in DOMAIN s}
         /\ \A e \in S : ToSet(Append(s, e)) = ToSet(s) \cup {e}
<1>1. ToSet(s) = {s[i] : i \in DOMAIN s}
  BY DEF ToSet
<1>2. ASSUME NEW e \in S
      PROVE  ToSet(Append(s, e)) = ToSet(s) \cup {e}
  <2>1. ToSet(Append(s, e)) = {Append(s, e)[i] : i \in DOMAIN Append(s, e)}
    BY DEF ToSet
  <2> QED
    BY <1>1, <2>1, AppendFacts
<1>3. \A i \in DOMAIN s : s[i] \in S
  OBVIOUS
<1> QED
  BY <1>1, <1>2, <1>3

\* The head and the rest hold all the elements.
LEMMA TailElements ==
  ASSUME NEW S, NEW s \in Seq(S), s # << >>
  PROVE  ToSet(s) = {Head(s)} \cup ToSet(Tail(s))
<1>1. ToSet(s) = {s[i] : i \in DOMAIN s} /\ ToSet(Tail(s)) = {Tail(s)[i] : i \in DOMAIN Tail(s)}
  BY DEF ToSet
<1>2. ASSUME NEW i \in DOMAIN s PROVE s[i] \in {Head(s)} \cup ToSet(Tail(s))
  <2>1. i = 1 \/ (i - 1 \in DOMAIN Tail(s) /\ Tail(s)[i - 1] = s[i])
    BY TailFacts
  <2>2. Head(s) = s[1]
    BY TailFacts
  <2>3. i # 1 => s[i] \in ToSet(Tail(s))
    BY <1>1, <2>1
  <2> QED
    BY <2>2, <2>3
<1>3. ASSUME NEW i \in DOMAIN Tail(s) PROVE Tail(s)[i] \in ToSet(s)
  BY <1>1, TailFacts
<1>4. Head(s) \in ToSet(s)
  BY <1>1, TailFacts
<1> QED
  BY <1>1, <1>2, <1>3, <1>4

-------------------------------------------------------------------------------
(* Constants, records and numbers.                                         *)

\* The names of the tasks, and None, are different things.
LEMMA ConstantFacts ==
  /\ Bind \in Requesters /\ Enquiry \in Requesters /\ Messages \subseteq Requesters
  /\ Requesters = Messages \cup {Bind, Enquiry}
  /\ Bind # Enquiry /\ Bind \notin Messages /\ Enquiry \notin Messages
  /\ None \notin Requesters /\ Reader \notin Requesters /\ Reader # None
  /\ None \notin SegmentIds /\ Bind \notin SegmentIds /\ Enquiry \notin SegmentIds
  /\ None \notin Items /\ None \notin Pdus
  /\ SeqLimit \in Nat \ {0}
BY SmppSessionAssumption DEF Requesters

\* A segment is a message and one of the numbers 1, 2, ... of its segments.
LEMMA SegmentFacts ==
  /\ \A m \in Messages : Segments[m] \in Nat \ {0}
  /\ \A m \in Messages, i \in Nat \ {0} : i <= Segments[m] => <<m, i>> \in SegmentIds
  /\ \A s \in SegmentIds : s[1] \in Messages /\ s[2] \in 1 .. Segments[s[1]] /\ s = <<s[1], s[2]>>
<1>1. \A m \in Messages : Segments[m] \in Nat \ {0}
  BY SmppSessionAssumption
<1>2. ASSUME NEW m \in Messages, NEW i \in Nat \ {0}, i <= Segments[m]
      PROVE  <<m, i>> \in SegmentIds
  BY <1>1, <1>2 DEF SegmentIds
<1>3. ASSUME NEW s \in SegmentIds
      PROVE  s[1] \in Messages /\ s[2] \in 1 .. Segments[s[1]] /\ s = <<s[1], s[2]>>
  <2>1. PICK m \in Messages : s \in {<<m, i>> : i \in 1 .. Segments[m]}
    BY DEF SegmentIds
  <2>2. PICK i \in 1 .. Segments[m] : s = <<m, i>>
    BY <2>1
  <2> QED
    BY <2>2
<1> QED
  BY <1>1, <1>2, <1>3

\* A part is a message and one of the numbers 1, 2, ... of its parts.
LEMMA PartFacts ==
  /\ \A x \in Inbounds : Parts[x] \in Nat \ {0}
  /\ \A x \in Inbounds : \A i \in 1 .. Parts[x] : <<x, i>> \in PartIds
  /\ \A p \in PartIds : p[1] \in Inbounds /\ p[2] \in 1 .. Parts[p[1]] /\ p = <<p[1], p[2]>>
<1>1. \A x \in Inbounds : Parts[x] \in Nat \ {0}
  BY SmppSessionAssumption
<1>2. ASSUME NEW x \in Inbounds, NEW i \in 1 .. Parts[x]
      PROVE  <<x, i>> \in PartIds
  BY DEF PartIds
<1>3. ASSUME NEW p \in PartIds
      PROVE  p[1] \in Inbounds /\ p[2] \in 1 .. Parts[p[1]] /\ p = <<p[1], p[2]>>
  <2>1. PICK x \in Inbounds : p \in {<<x, i>> : i \in 1 .. Parts[x]}
    BY DEF PartIds
  <2>2. PICK i \in 1 .. Parts[x] : p = <<x, i>>
    BY <2>1
  <2> QED
    BY <2>2
<1> QED
  BY <1>1, <1>2, <1>3

\* get_next_sequence_number never gives zero, nor more than the limit.
LEMMA WrapFacts == \A n \in Int : Wrap(n) \in 1 .. SeqLimit
BY ConstantFacts DEF Wrap

\* The PDUs of the client, and the offers of one to the writer.
LEMMA PduFacts ==
  /\ \A about \in SegmentIds \cup {Bind, Enquiry}, seq \in 1 .. SeqLimit :
       [type |-> "request", about |-> about, seq |-> seq] \in Pdus
  /\ \A about \in Received : [type |-> "answer", about |-> about, seq |-> 0] \in Pdus
  /\ \A t \in Requesters \cup {Reader}, p \in Pdus : [task |-> t, pdu |-> p] \in PduOffers
  /\ \A q \in PduOffers : q.task \in Requesters \cup {Reader} /\ q.pdu \in Pdus
  /\ \A p \in Pdus : \/ p.type = "request" /\ p.about \in SegmentIds \cup {Bind, Enquiry}
                          /\ p.seq \in 1 .. SeqLimit
                     \/ p.type = "answer" /\ p.about \in Received
                          /\ p = [type |-> "answer", about |-> p.about, seq |-> 0]
BY DEF Pdus, PduOffers

\* The items for the application, and the offers of one to the forwarder.
LEMMA ItemFacts ==
  /\ \A m \in Messages, type \in {"ack", "nack", "pending", "final"} :
       [type |-> type, about |-> m] \in Items
  /\ \A x \in Inbounds : [type |-> "inbound", about |-> x] \in Items
  /\ \A t \in Messages \cup {Reader}, x \in Items : [task |-> t, item |-> x] \in ItemOffers
  /\ \A q \in ItemOffers : q.task \in Messages \cup {Reader} /\ q.item \in Items
  /\ \A x \in Items : x.type = "inbound" => x = [type |-> "inbound", about |-> x.about]
BY DEF Items, ItemOffers

\* The PDUs of the SMSC by their type.
LEMMA DownFacts ==
  \A d \in Down :
    /\ d.type \in {"response", "report", "deliver", "enquire_link", "unknown", "unbind"}
    /\ d.type = "response" => d \in Responses \cup Strays
    /\ d.type = "report" => d.about \in SegmentIds /\ d.status \in {"pending", "final"}
    /\ d.type = "deliver" => d.about \in PartIds
    /\ d.type # "response" => Kind(d) \in Received
BY DEF Down, Responses, Strays, Reports, Deliveries, Others, Kind, Received

\* When the process starts, the session is in order.
LEMMA InitEstablishes == Init => SInv
<1> SUFFICES ASSUME Init PROVE SInv
  OBVIOUS
<1> USE ConstantFacts DEF Init
<1>1. RequestTypeInv
  BY DEF RequestTypeInv, Steps
<1>2. ChannelTypeInv
  BY DEF ChannelTypeInv, Readers
<1>3. SmscTypeInv
  BY DEF SmscTypeInv
<1>4. PduQueueInv /\ ItemQueueInv
  BY DEF PduQueueInv, ItemQueueInv
<1> QED
  BY <1>1, <1>2, <1>3, <1>4 DEF SInv

-------------------------------------------------------------------------------
(* What the tasks do to the channels.                                      *)

\* A requester sends a request.
LEMMA SendKeeps ==
  ASSUME SInv, NEW t \in Requesters,
         NEW about \in SegmentIds \cup {Bind, Enquiry}, NEW seq \in 1 .. SeqLimit,
         SendRequest(t, about, seq)
  PROVE  /\ responses' \in [1 .. SeqLimit -> Requesters \cup {None}]
         /\ step' \in [Requesters -> Steps]
         /\ pduq' \in Seq(PduOffers)
         /\ UNCHANGED reader => PduQueueInv'
<1> DEFINE pdu == [type |-> "request", about |-> about, seq |-> seq]
           q   == [task |-> t, pdu |-> pdu]
<1>1. pdu \in Pdus /\ pdu.type = "request"
  BY PduFacts
<1>2. q \in PduOffers /\ q.task = t /\ q.pdu = pdu
  BY <1>1, PduFacts
<1> HIDE DEF pdu
<1>3. /\ responses' = [responses EXCEPT ![seq] = t]
      /\ step' = [step EXCEPT ![t] = "offering"]
      /\ pduq' = Append(pduq, q)
  BY DEF SendRequest, OfferPdu, pdu
<1> HIDE DEF q
<1>4. /\ responses' \in [1 .. SeqLimit -> Requesters \cup {None}]
      /\ step' \in [Requesters -> Steps]
  BY <1>3 DEF SInv, RequestTypeInv, Steps
<1>5. pduq \in Seq(PduOffers)
  BY DEF SInv, ChannelTypeInv
<1>6. pduq' \in Seq(PduOffers)
  BY <1>2, <1>3, <1>5, AppendFacts
<1>7. ASSUME NEW i \in DOMAIN pduq'
      PROVE  \/ i \in DOMAIN pduq /\ pduq'[i] = pduq[i]
             \/ i = Len(pduq) + 1 /\ pduq'[i] = q
  BY <1>2, <1>3, <1>5, AppendFacts
<1>8. ASSUME UNCHANGED reader PROVE PduQueueInv'
  <2>1. \A i, j \in DOMAIN pduq' : pduq'[i].task = Reader /\ pduq'[j].task = Reader => i = j
    BY <1>2, <1>7, ConstantFacts DEF SInv, PduQueueInv
  <2>2. ASSUME NEW i \in DOMAIN pduq'
        PROVE  LET p == pduq'[i]
               IN  IF p.task = Reader
                   THEN p.pdu.type = "answer" /\ p.pdu.about = reader.about
                          /\ reader.at \in {"answering", "unbinding"}
                   ELSE p.pdu.type = "request"
    <3>1. CASE pduq'[i] = q
      BY <1>1, <1>2, <3>1, ConstantFacts
    <3>2. CASE i \in DOMAIN pduq /\ pduq'[i] = pduq[i]
      BY <3>2 DEF SInv, PduQueueInv
    <3> QED
      BY <1>7, <3>1, <3>2
  <2> QED
    BY <1>8, <2>1, <2>2 DEF PduQueueInv
<1> QED
  BY <1>4, <1>6, <1>8

\* The reader offers the writer an answer.
LEMMA AnswerKeeps ==
  ASSUME SInv, NEW about \in Received, reader.at \in {"reading", "forwarding"},
         OfferPdu(Reader, [type |-> "answer", about |-> about, seq |-> 0]),
         reader'.at \in {"answering", "unbinding"}, reader'.about = about
  PROVE  /\ pduq' \in Seq(PduOffers)
         /\ PduQueueInv'
<1> DEFINE pdu == [type |-> "answer", about |-> about, seq |-> 0]
           q   == [task |-> Reader, pdu |-> pdu]
<1>1. pdu \in Pdus /\ pdu.type = "answer" /\ pdu.about = about
  BY PduFacts
<1> HIDE DEF pdu
<1>2. q \in PduOffers /\ q.task = Reader /\ q.pdu = pdu
  BY <1>1, PduFacts
<1>3. pduq' = Append(pduq, q)
  BY DEF OfferPdu, pdu
<1> HIDE DEF q
<1>4. pduq \in Seq(PduOffers)
  BY DEF SInv, ChannelTypeInv
<1>5. pduq' \in Seq(PduOffers)
  BY <1>2, <1>3, <1>4, AppendFacts
<1>6. ASSUME NEW i \in DOMAIN pduq'
      PROVE  \/ i \in DOMAIN pduq /\ pduq'[i] = pduq[i] /\ pduq[i] \in PduOffers
                /\ pduq[i].task # Reader
             \/ i = Len(pduq) + 1 /\ pduq'[i] = q
  <2>1. \/ i \in DOMAIN pduq /\ pduq'[i] = pduq[i]
        \/ i = Len(pduq) + 1 /\ pduq'[i] = q
    BY <1>2, <1>3, <1>4, AppendFacts
  <2>2. ASSUME i \in DOMAIN pduq PROVE pduq[i].task # Reader
    BY <2>2 DEF SInv, PduQueueInv
  <2> QED
    BY <1>4, <2>1, <2>2, ElementFacts
<1>7. PduQueueInv'
  <2>1. \A i, j \in DOMAIN pduq' : pduq'[i].task = Reader /\ pduq'[j].task = Reader => i = j
    BY <1>2, <1>6 DEF SInv, PduQueueInv
  <2>2. ASSUME NEW i \in DOMAIN pduq'
        PROVE  LET p == pduq'[i]
               IN  IF p.task = Reader
                   THEN p.pdu.type = "answer" /\ p.pdu.about = reader'.about
                          /\ reader'.at \in {"answering", "unbinding"}
                   ELSE p.pdu.type = "request"
    <3>1. CASE pduq'[i] = q
      BY <1>1, <1>2, <3>1
    <3>2. CASE i \in DOMAIN pduq /\ pduq'[i] = pduq[i] /\ pduq[i].task # Reader
      BY <3>2 DEF SInv, PduQueueInv
    <3> QED
      BY <1>6, <3>1, <3>2
  <2> QED
    BY <2>1, <2>2 DEF PduQueueInv
<1> QED
  BY <1>5, <1>7

\* A handler or the reader offers the forwarder an item.
LEMMA ItemKeeps ==
  ASSUME SInv, NEW t \in Messages \cup {Reader}, NEW item \in Items, OfferItem(t, item),
         t # Reader => UNCHANGED reader /\ item.type \in {"ack", "nack"} /\ item.about = t,
         t = Reader => /\ reader.at # "forwarding" /\ reader'.at = "forwarding"
                       /\ item.type = "inbound" => IsPartOf(reader'.about, item.about)
                       /\ item.type # "inbound" => reader'.about[1] = "report"
  PROVE  fwdq' \in Seq(ItemOffers) /\ ItemQueueInv'
<1> DEFINE q == [task |-> t, item |-> item]
<1>1. q \in ItemOffers /\ q.task = t /\ q.item = item
  BY ItemFacts
<1>2. fwdq' = Append(fwdq, q)
  BY DEF OfferItem
<1> HIDE DEF q
<1>3. fwdq \in Seq(ItemOffers)
  BY DEF SInv, ChannelTypeInv
<1>4. fwdq' \in Seq(ItemOffers)
  BY <1>1, <1>2, <1>3, AppendFacts
<1>5. ASSUME NEW i \in DOMAIN fwdq'
      PROVE  \/ i \in DOMAIN fwdq /\ fwdq'[i] = fwdq[i]
                /\ (t = Reader => fwdq[i].task # Reader)
             \/ i = Len(fwdq) + 1 /\ fwdq'[i] = q
  <2>1. \/ i \in DOMAIN fwdq /\ fwdq'[i] = fwdq[i]
        \/ i = Len(fwdq) + 1 /\ fwdq'[i] = q
    BY <1>1, <1>2, <1>3, AppendFacts
  <2> QED
    BY <2>1 DEF SInv, ItemQueueInv
<1>6. \A i, j \in DOMAIN fwdq' : fwdq'[i].task = Reader /\ fwdq'[j].task = Reader => i = j
  BY <1>1, <1>5 DEF SInv, ItemQueueInv
<1>7. ASSUME NEW i \in DOMAIN fwdq'
      PROVE  LET p == fwdq'[i]
             IN  IF p.task = Reader
                 THEN /\ reader'.at = "forwarding"
                      /\ p.item.type = "inbound" => IsPartOf(reader'.about, p.item.about)
                      /\ p.item.type # "inbound" => reader'.about[1] = "report"
                 ELSE p.item.type \in {"ack", "nack"} /\ p.item.about = p.task
  <2>1. CASE fwdq'[i] = q
    BY <1>1, <2>1, ConstantFacts
  <2>2. CASE i \in DOMAIN fwdq /\ fwdq'[i] = fwdq[i] /\ (t = Reader => fwdq[i].task # Reader)
    <3>1. CASE t = Reader
      BY <2>2, <3>1 DEF SInv, ItemQueueInv
    <3>2. CASE t # Reader
      BY <2>2, <3>2 DEF SInv, ItemQueueInv
    <3> QED
      BY <3>1, <3>2
  <2> QED
    BY <1>5, <2>1, <2>2
<1> QED
  BY <1>4, <1>6, <1>7 DEF ItemQueueInv

\* Nobody at a channel is disturbed.
LEMMA QueuesKept ==
  ASSUME SInv, UNCHANGED <<pduq, fwdq>>,
         UNCHANGED reader \/ reader.at \in {"reading", "handing"}
  PROVE  PduQueueInv' /\ ItemQueueInv'
<1>1. PduQueueInv'
  BY DEF SInv, PduQueueInv
<1>2. ItemQueueInv'
  BY DEF SInv, ItemQueueInv
<1> QED
  BY <1>1, <1>2

-------------------------------------------------------------------------------
(* The steps.                                                              *)

\* What sending a request asks of the action that does it.
LEMMA SentKeeps ==
  ASSUME SInv, NEW t \in Requesters,
         NEW about \in SegmentIds \cup {Bind, Enquiry}, NEW seq \in 1 .. SeqLimit,
         SendRequest(t, about, seq),
         seqno' \in 0 .. SeqLimit,
         first' \in [Requesters -> 0 .. SeqLimit],
         cur' \in [Messages -> Nat],
         ids' \in [SegmentIds -> Messages \cup {None}],
         UNCHANGED <<reply, writer, readVars, fwdq, forwardVars, smsc>>
  PROVE  SInv'
<1>1. /\ responses' \in [1 .. SeqLimit -> Requesters \cup {None}]
      /\ step' \in [Requesters -> Steps]
      /\ pduq' \in Seq(PduOffers)
      /\ PduQueueInv'
  BY SendKeeps DEF readVars, forwardVars
<1>4. ItemQueueInv'
  BY DEF SInv, ItemQueueInv, readVars
<1>2. RequestTypeInv'
  BY <1>1 DEF SInv, RequestTypeInv
<1>3. ChannelTypeInv' /\ SmscTypeInv'
  BY <1>1 DEF SInv, ChannelTypeInv, SmscTypeInv, readVars, forwardVars
<1> QED
  BY <1>1, <1>2, <1>3, <1>4 DEF SInv

\* The requests of the client.
LEMMA RequestsKeep ==
  ASSUME SInv, \/ StartBind \/ StartEnquiry
               \/ \E m \in Messages : HandleOutbound(m) \/ SegmentAccepted(m)
  PROVE  SInv'
<1>1. /\ seqno \in 0 .. SeqLimit /\ SeqLimit \in Nat /\ 1 .. SeqLimit \subseteq 0 .. SeqLimit
      /\ first \in [Requesters -> 0 .. SeqLimit]
      /\ cur \in [Messages -> Nat]
      /\ ids \in [SegmentIds -> Messages \cup {None}]
  BY ConstantFacts DEF SInv, RequestTypeInv
<1>2. CASE StartBind
  <2>1. Wrap(seqno + 1) \in 1 .. SeqLimit
    BY <1>1, WrapFacts
  <2>2. first' \in [Requesters -> 0 .. SeqLimit] /\ UNCHANGED <<cur, ids>>
    BY <1>1, <1>2, <2>1 DEF StartBind
  <2> QED
    BY <1>1, <1>2, <2>1, <2>2, SentKeeps, ConstantFacts DEF StartBind
<1>3. CASE StartEnquiry
  <2>1. Wrap(seqno + 1) \in 1 .. SeqLimit
    BY <1>1, WrapFacts
  <2>2. first' \in [Requesters -> 0 .. SeqLimit] /\ UNCHANGED <<cur, ids>>
    BY <1>1, <1>3, <2>1 DEF StartEnquiry
  <2> QED
    BY <1>1, <1>3, <2>1, <2>2, SentKeeps, ConstantFacts DEF StartEnquiry
<1>4. ASSUME NEW m \in Messages, HandleOutbound(m)
      PROVE  SInv'
  <2> DEFINE extra == IF Segments[m] > 1 THEN 1 ELSE 0
  <2>1. Segments[m] \in Nat \ {0} /\ <<m, 1>> \in SegmentIds /\ m \in Requesters
    BY SegmentFacts, ConstantFacts
  <2>2. extra \in Nat
    OBVIOUS
  <2>3. /\ Up /\ step[m] = "idle"
        /\ seqno' = Wrap(seqno + extra + Segments[m])
        /\ first' = [first EXCEPT ![m] = Wrap(seqno + extra + 1)]
        /\ cur' = [cur EXCEPT ![m] = 1]
        /\ SendRequest(m, <<m, 1>>, first'[m])
        /\ UNCHANGED <<reply, writer, readVars, fwdq, forwardVars, ids, smsc>>
    BY <1>4 DEF HandleOutbound
  <2> HIDE DEF extra
  <2>4. Wrap(seqno + extra + 1) \in 1 .. SeqLimit /\ seqno' \in 1 .. SeqLimit
    BY <1>1, <2>1, <2>2, <2>3, WrapFacts
  <2>5. /\ first'[m] \in 1 .. SeqLimit
        /\ first' \in [Requesters -> 0 .. SeqLimit] /\ cur' \in [Messages -> Nat]
    BY <1>1, <2>1, <2>3, <2>4
  <2> QED
    BY <1>1, <2>1, <2>3, <2>4, <2>5, SentKeeps
<1>5. ASSUME NEW m \in Messages, SegmentAccepted(m)
      PROVE  SInv'
  <2>1. /\ step[m] = "resumed" /\ cur[m] < Segments[m]
        /\ ids' = [ids EXCEPT ![reply[m].about] = m]
        /\ cur' = [cur EXCEPT ![m] = @ + 1]
        /\ SendRequest(m, <<m, cur'[m]>>, Wrap(first[m] + cur[m]))
        /\ UNCHANGED <<seqno, first, reply, writer, readVars, fwdq, forwardVars, smsc>>
    BY <1>5 DEF SegmentAccepted
  <2>2. /\ cur' \in [Messages -> Nat] /\ cur'[m] \in Nat \ {0} /\ cur'[m] <= Segments[m]
        /\ ids' \in [SegmentIds -> Messages \cup {None}]
    <3>1. cur[m] \in Nat /\ Segments[m] \in Nat
      BY <1>1, SegmentFacts
    <3>2. cur' \in [Messages -> Nat] /\ cur'[m] = cur[m] + 1
      BY <1>1, <2>1, <3>1
    <3>3. ids' \in [SegmentIds -> Messages \cup {None}]
      BY <1>1, <2>1
    <3> QED
      BY <2>1, <3>1, <3>2, <3>3
  <2>3. <<m, cur'[m]>> \in SegmentIds /\ m \in Requesters
    BY <2>2, SegmentFacts, ConstantFacts
  <2>4. Wrap(first[m] + cur[m]) \in 1 .. SeqLimit
    BY <1>1, <2>3, WrapFacts
  <2> QED
    BY <1>1, <2>1, <2>2, <2>3, <2>4, SentKeeps
<1> QED
  BY <1>2, <1>3, <1>4, <1>5

\* The steps of a requester between two requests, and the exceptions.
LEMMA ResumesKeep ==
  ASSUME SInv, \/ FinishSetup \/ BindAccepted \/ EnquiryAnswered
               \/ \E m \in Messages : WrongResponse(m)
  PROVE  SInv'
<1>1. \E t \in Requesters, new \in Steps :
        step' = [step EXCEPT ![t] = new]
  BY ConstantFacts DEF FinishSetup, BindAccepted, EnquiryAnswered, WrongResponse, Steps
<1>2. UNCHANGED <<seqno, responses, first, cur, reply, pduq, writer, readVars, fwdq,
                  forwardVars, ids, smsc>>
  BY DEF FinishSetup, BindAccepted, EnquiryAnswered, WrongResponse
<1>3. step' \in [Requesters -> Steps]
  BY <1>1 DEF SInv, RequestTypeInv
<1>4. RequestTypeInv' /\ ChannelTypeInv' /\ SmscTypeInv'
  BY <1>2, <1>3 DEF SInv, RequestTypeInv, ChannelTypeInv, SmscTypeInv, readVars, forwardVars
<1>5. PduQueueInv' /\ ItemQueueInv'
  BY <1>2, QueuesKept DEF readVars, forwardVars
<1> QED
  BY <1>4, <1>5 DEF SInv

\* The end of an outbound message.
LEMMA OutcomesKeep ==
  ASSUME SInv, NEW m \in Messages, MessageAccepted(m) \/ MessageRefused(m)
  PROVE  SInv'
<1>1. PICK type \in {"ack", "nack"} : OfferItem(m, [type |-> type, about |-> m])
  BY DEF MessageAccepted, MessageRefused
<1>2. /\ step' = [step EXCEPT ![m] = "reporting"]
      /\ ids' = ids \/ ids' = [ids EXCEPT ![reply[m].about] = m]
      /\ UNCHANGED <<seqno, responses, first, cur, reply, pduq, writer, readVars,
                     forwardVars, smsc>>
  BY DEF MessageAccepted, MessageRefused
<1>3. m \in Requesters /\ m # Reader
  BY ConstantFacts
<1>4. /\ step' \in [Requesters -> Steps]
      /\ ids' \in [SegmentIds -> Messages \cup {None}]
  BY <1>2, <1>3 DEF SInv, RequestTypeInv, Steps
<1> DEFINE item == [type |-> type, about |-> m]
<1>6. item \in Items /\ item.type \in {"ack", "nack"} /\ item.about = m
  BY ItemFacts
<1>7. OfferItem(m, item)
  BY <1>1
<1> HIDE DEF item
<1>8. fwdq' \in Seq(ItemOffers) /\ ItemQueueInv'
  BY <1>2, <1>3, <1>6, <1>7, ItemKeeps DEF readVars
<1>9. PduQueueInv'
  BY <1>2 DEF SInv, PduQueueInv, readVars
<1>10. RequestTypeInv' /\ ChannelTypeInv' /\ SmscTypeInv'
  BY <1>2, <1>4, <1>8 DEF SInv, RequestTypeInv, ChannelTypeInv, SmscTypeInv, readVars, forwardVars
<1> QED
  BY <1>8, <1>9, <1>10 DEF SInv

\* The writer takes a PDU.
LEMMA WriterTakesKeeps ==
  ASSUME SInv, WriterTakes
  PROVE  SInv'
<1> DEFINE q == pduq[1]
<1>1. /\ pduq \in Seq(PduOffers) /\ pduq # << >> /\ Head(pduq) = q /\ q \in PduOffers
      /\ 1 \in DOMAIN pduq
  BY TailFacts DEF WriterTakes, SInv, ChannelTypeInv
<1>2. /\ writer = None /\ writer' = q.pdu /\ pduq' = Tail(pduq)
      /\ IF q.task = Reader
         THEN /\ reader.at \in {"answering", "unbinding"}
              /\ reader' = IF reader.at = "unbinding" THEN [reader EXCEPT !.at = "raising"]
                           ELSE [at |-> "reading", about |-> None]
              /\ UNCHANGED step
         ELSE step' = [step EXCEPT ![q.task] = "waiting"] /\ UNCHANGED reader
      /\ UNCHANGED <<seqno, responses, first, cur, reply, down, parts, fwdq, forwardVars, ids,
                     smsc>>
  BY <1>1 DEF WriterTakes, SInv, PduQueueInv
<1>3. q.task \in Requesters \cup {Reader} /\ q.pdu \in Pdus
  BY <1>1, PduFacts
<1>4. /\ pduq' \in Seq(PduOffers)
      /\ \A i \in DOMAIN pduq' : i + 1 \in DOMAIN pduq /\ pduq'[i] = pduq[i + 1] /\ i \in Nat
                                  /\ (q.task = Reader => pduq'[i].task # Reader)
  <2>1. /\ pduq' \in Seq(PduOffers)
        /\ \A i \in DOMAIN pduq' : i + 1 \in DOMAIN pduq /\ pduq'[i] = pduq[i + 1] /\ i \in Nat
                                   /\ i + 1 # 1
    BY <1>1, <1>2, TailFacts
  <2> QED
    BY <1>1, <2>1 DEF SInv, PduQueueInv
<1> HIDE DEF q
<1>5. RequestTypeInv'
  <2>1. step' \in [Requesters -> Steps]
    BY <1>2 DEF SInv, RequestTypeInv, Steps
  <2> QED
    BY <1>2, <2>1 DEF SInv, RequestTypeInv
<1>6. ChannelTypeInv'
  <2>1. reader' \in Readers
    <3>1. CASE UNCHANGED reader
      BY <3>1 DEF SInv, ChannelTypeInv
    <3>2. CASE reader' = [at |-> "reading", about |-> None]
      BY <3>2 DEF Readers
    <3>3. CASE reader.at = "unbinding" /\ reader' = [reader EXCEPT !.at = "raising"]
      BY <3>3 DEF SInv, ChannelTypeInv, Readers
    <3> QED
      BY <1>2, <3>1, <3>2, <3>3
  <2> QED
    BY <1>2, <1>3, <1>4, <2>1 DEF SInv, ChannelTypeInv, forwardVars
<1>7. SmscTypeInv'
  BY <1>2 DEF SInv, SmscTypeInv
<1>8. PduQueueInv'
  <2>1. \A i, j \in DOMAIN pduq' : pduq'[i].task = Reader /\ pduq'[j].task = Reader => i = j
    BY <1>4 DEF SInv, PduQueueInv
  <2>2. \A i \in DOMAIN pduq' :
          IF pduq'[i].task = Reader
          THEN pduq'[i].pdu.type = "answer" /\ pduq'[i].pdu.about = reader.about
                 /\ reader.at \in {"answering", "unbinding"}
          ELSE pduq'[i].pdu.type = "request"
    BY <1>4 DEF SInv, PduQueueInv
  <2> QED
    BY <1>2, <1>4, <2>1, <2>2 DEF PduQueueInv
<1>9. ItemQueueInv'
  <2>1. \A i \in DOMAIN fwdq : fwdq[i].task = Reader => UNCHANGED reader
    BY <1>2 DEF SInv, ItemQueueInv
  <2> QED
    BY <1>2, <2>1 DEF SInv, ItemQueueInv
<1> QED
  BY <1>5, <1>6, <1>7, <1>8, <1>9 DEF SInv

\* What the SMSC is told, and what it says, is all of its state that is typed.
LEMMA WriterWritesKeeps ==
  ASSUME SInv, WriterWrites
  PROVE  SInv'
<1>1. /\ writer # None /\ writer' = None
      /\ smsc' = IF writer.type = "request" THEN [smsc EXCEPT !.todo = @ \cup {writer}]
                 ELSE [smsc EXCEPT !.answers = @ \cup {writer.about}]
      /\ UNCHANGED <<requestVars, pduq, readVars, fwdq, forwardVars, ids>>
  BY DEF WriterWrites
<1>2. /\ writer \in Pdus
      /\ writer.type # "request" => /\ writer.about \in Received
                                     /\ writer = [type |-> "answer", about |-> writer.about, seq |-> 0]
  BY <1>1, PduFacts DEF SInv, ChannelTypeInv
<1>3. RequestTypeInv' /\ ChannelTypeInv'
  BY <1>1 DEF SInv, RequestTypeInv, ChannelTypeInv, requestVars, readVars, forwardVars
<1>4. PduQueueInv' /\ ItemQueueInv'
  BY <1>1, QueuesKept DEF requestVars, readVars
<1>5. SmscTypeInv'
  BY <1>1, <1>2 DEF SInv, SmscTypeInv, readVars
<1> QED
  BY <1>3, <1>4, <1>5 DEF SInv

\* The SMSC sends a PDU, or goes silent.
LEMMA SmscKeeps ==
  ASSUME SInv, SmscAnswers \/ SmscInitiates
  PROVE  SInv'
<1>1. UNCHANGED <<requestVars, pduq, writer, reader, parts, fwdq, forwardVars, ids>>
  BY DEF SmscAnswers, SmscInitiates, SmscAccepts, SmscRefuses, SmscReports, SmscDelivers,
         SmscEnquires, SmscUnbinds, SmscStalls, SmscStrays, Sends, readVars
<1>2. SmscTypeInv'
  <2> USE DEF SInv, SmscTypeInv
  <2>1. ASSUME NEW d \in Down, down' = Append(down, d)
        PROVE  down' \in Seq(Down)
    BY <2>1, AppendFacts
  <2>2. ASSUME NEW p \in smsc.todo, NEW how \in {"ok", "error", "generic_nack"}
        PROVE  [type |-> "response", about |-> p.about, seq |-> p.seq, status |-> how] \in Down
    <3>1. p.about \in SegmentIds \cup {Bind, Enquiry} /\ p.seq \in 1 .. SeqLimit
      BY PduFacts
    <3> QED
      BY <3>1 DEF Down, Responses
  <2>3. ASSUME NEW p \in smsc.todo, SmscAccepts(p)
        PROVE  SmscTypeInv'
    BY <2>1, <2>2, <2>3 DEF SmscAccepts, Sends
  <2>4. ASSUME NEW p \in smsc.todo, NEW how \in Refusals, SmscRefuses(p, how)
        PROVE  SmscTypeInv'
    <3>1. how \in {"ok", "error", "generic_nack"}
      BY SmppSessionAssumption
    <3> QED
      BY <2>1, <2>2, <2>4, <3>1 DEF SmscRefuses, Sends
  <2>5. ASSUME NEW s \in SegmentIds, NEW how \in {"pending", "final"}, SmscReports(s, how)
        PROVE  SmscTypeInv'
    <3>1. [type |-> "report", about |-> s, seq |-> 0, status |-> how] \in Down
      BY DEF Down, Reports
    <3>2. /\ down' = Append(down, [type |-> "report", about |-> s, seq |-> 0, status |-> how])
          /\ UNCHANGED parts
          /\ smsc' = [smsc EXCEPT !.reported = @ \cup {<<s, how>>}]
      BY <2>5 DEF SmscReports, Sends
    <3> QED
      BY <2>1, <3>1, <3>2
  <2>6. ASSUME NEW p \in PartIds, SmscDelivers(p)
        PROVE  SmscTypeInv'
    <3>1. [type |-> "deliver", about |-> p, seq |-> 0, status |-> "new"] \in Down
      BY DEF Down, Deliveries
    <3> QED
      BY <2>1, <2>6, <3>1 DEF SmscDelivers, Sends
  <2>7. ASSUME NEW type \in {"enquire_link", "unknown"}, SmscEnquires(type)
        PROVE  SmscTypeInv'
    <3>1. [type |-> type, about |-> Enquiry, seq |-> 0, status |-> "new"] \in Down
      BY DEF Down, Others
    <3> QED
      BY <2>1, <2>7, <3>1 DEF SmscEnquires, Sends
  <2>8. CASE SmscUnbinds
    <3>1. [type |-> "unbind", about |-> Bind, seq |-> 0, status |-> "new"] \in Down
      BY DEF Down, Others
    <3> QED
      BY <2>1, <2>8, <3>1 DEF SmscUnbinds, Sends
  <2>9. CASE SmscStalls
    BY <2>9 DEF SmscStalls, readVars
  <2>10. CASE SmscStrays
    <3>1. [type |-> "response", about |-> None, seq |-> 0, status |-> "generic_nack"] \in Down
      BY DEF Down, Strays
    <3> QED
      BY <2>1, <2>10, <3>1 DEF SmscStrays, Sends
  <2> QED
    BY <2>3, <2>4, <2>5, <2>6, <2>7, <2>8, <2>9, <2>10 DEF SmscAnswers, SmscInitiates
<1>3. RequestTypeInv' /\ ChannelTypeInv'
  BY <1>1 DEF SInv, RequestTypeInv, ChannelTypeInv, requestVars, forwardVars
<1>4. PduQueueInv' /\ ItemQueueInv'
  BY <1>1, QueuesKept DEF requestVars
<1> QED
  BY <1>2, <1>3, <1>4 DEF SInv

\* The reader takes the next PDU.
LEMMA ReadsFacts ==
  ASSUME SInv, NEW type \in {"response", "report", "deliver", "enquire_link", "unknown", "unbind"},
         Reads(type)
  PROVE  /\ reader.at = "reading" /\ Head(down) \in Down /\ Head(down).type = type
         /\ Head(down) = down[1] /\ 1 \in DOMAIN down
         /\ down' = Tail(down) /\ parts' \subseteq PartIds /\ UNCHANGED smsc => SmscTypeInv'
<1>1. down \in Seq(Down) /\ down # << >>
  BY DEF SInv, SmscTypeInv, Reads
<1>2. down' = Tail(down) /\ parts' \subseteq PartIds /\ UNCHANGED smsc => SmscTypeInv'
  BY <1>1, TailFacts DEF SInv, SmscTypeInv
<1> QED
  BY <1>1, <1>2, TailFacts DEF Reads

\* A response handed to its task, and the reader going on after it, keep the invariant.
LEMMA ReaderResumes ==
  ASSUME SInv, ReadResponse \/ ReaderGoesOn
  PROVE  SInv'
<1>1. CASE ReadResponse
  <2> DEFINE n == Head(down).seq
             t == responses[n]
  <2>1. /\ reader.at = "reading" /\ Head(down) \in Responses \cup Strays
        /\ n \in 1 .. SeqLimit /\ t \in Requesters
        /\ SmscTypeInv'
    <3>1. /\ Reads("response") /\ n \in DOMAIN responses /\ t # None
          /\ down' = Tail(down) /\ parts' \subseteq PartIds /\ UNCHANGED smsc
      BY <1>1 DEF ReadResponse, Known, SInv, SmscTypeInv
    <3> QED
      BY <3>1, ReadsFacts, DownFacts DEF SInv, RequestTypeInv
  <2>2. Head(down) \in Responses
    BY <2>1 DEF Strays
  <2>3. /\ responses' = [responses EXCEPT ![n] = None]
        /\ step' = [step EXCEPT ![t] = "resumed"]
        /\ reply' = [reply EXCEPT ![t] = Head(down)]
        /\ reader' = [at |-> "handing", about |-> t]
        /\ UNCHANGED <<seqno, first, cur, pduq, writer, fwdq, forwardVars, ids, smsc>>
    BY <1>1 DEF ReadResponse
  <2> HIDE DEF n, t
  <2>4. RequestTypeInv'
    BY <2>1, <2>2, <2>3 DEF SInv, RequestTypeInv, Steps
  <2>5. reader' \in Readers
    BY <2>1, <2>3 DEF Readers
  <2>6. ChannelTypeInv'
    BY <2>3, <2>5 DEF SInv, ChannelTypeInv, forwardVars
  <2>7. PduQueueInv' /\ ItemQueueInv'
    BY <2>1, <2>3, QueuesKept
  <2> QED
    BY <2>1, <2>4, <2>6, <2>7 DEF SInv
<1>2. CASE ReaderGoesOn
  <2>1. /\ reader.at = "handing" /\ reader' = [at |-> "reading", about |-> None]
        /\ UNCHANGED <<requestVars, pduq, writer, down, parts, fwdq, forwardVars, ids, smsc>>
    BY <1>2 DEF ReaderGoesOn
  <2>2. RequestTypeInv' /\ SmscTypeInv'
    BY <2>1 DEF SInv, RequestTypeInv, SmscTypeInv, requestVars
  <2>3. ChannelTypeInv'
    <3>1. reader' \in Readers
      BY <2>1 DEF Readers
    <3> QED
      BY <2>1, <3>1 DEF SInv, ChannelTypeInv, forwardVars
  <2>4. PduQueueInv' /\ ItemQueueInv'
    BY <2>1, QueuesKept DEF requestVars
  <2> QED
    BY <2>2, <2>3, <2>4 DEF SInv
<1> QED
  BY <1>1, <1>2

\* The reader answers a PDU that it has nothing to forward for.
LEMMA AnsweredKeeps ==
  ASSUME SInv, SmscTypeInv', NEW about \in Received,
         reader.at = "reading", ids' \in [SegmentIds -> Messages \cup {None}],
         OfferPdu(Reader, [type |-> "answer", about |-> about, seq |-> 0]),
         \/ reader' = [at |-> "answering", about |-> about]
         \/ reader' = [at |-> "unbinding", about |-> about],
         UNCHANGED <<requestVars, writer, fwdq, forwardVars, smsc>>
  PROVE  SInv'
<1>1. reader'.at \in {"answering", "unbinding"} /\ reader'.about = about /\ reader' \in Readers
  BY DEF Readers
<1>2. pduq' \in Seq(PduOffers) /\ PduQueueInv'
  BY <1>1, AnswerKeeps
<1>3. RequestTypeInv' /\ ChannelTypeInv'
  BY <1>1, <1>2 DEF SInv, RequestTypeInv, ChannelTypeInv, requestVars, forwardVars
<1>4. ItemQueueInv'
  BY DEF SInv, ItemQueueInv
<1> QED
  BY <1>2, <1>3, <1>4 DEF SInv

\* The reader waits for the forwarder.
LEMMA ForwardedKeeps ==
  ASSUME SInv, SmscTypeInv', NEW about \in Received, NEW item \in Items,
         reader.at = "reading", ids' \in [SegmentIds -> Messages \cup {None}],
         Forward(item, about),
         item.type = "inbound" => IsPartOf(about, item.about),
         item.type # "inbound" => about[1] = "report",
         UNCHANGED <<requestVars, pduq, writer, forwardVars, smsc>>
  PROVE  SInv'
<1>1. /\ OfferItem(Reader, item) /\ reader' = [at |-> "forwarding", about |-> about]
      /\ reader'.at = "forwarding" /\ reader'.about = about /\ reader' \in Readers
  BY DEF Forward, Readers
<1>2. fwdq' \in Seq(ItemOffers) /\ ItemQueueInv'
  BY <1>1, ItemKeeps
<1>3. RequestTypeInv' /\ ChannelTypeInv'
  BY <1>1, <1>2 DEF SInv, RequestTypeInv, ChannelTypeInv, requestVars, forwardVars
<1>4. PduQueueInv'
  BY DEF SInv, PduQueueInv
<1> QED
  BY <1>2, <1>3, <1>4 DEF SInv

\* The reader reads what is not a response.
LEMMA ReaderKeeps ==
  ASSUME SInv, ReadReport \/ ReadInbound \/ ReaderAnswers
  PROVE  SInv'
<1> DEFINE d == Head(down)
<1>0. ids \in [SegmentIds -> Messages \cup {None}]
  BY DEF SInv, RequestTypeInv
<1>1. CASE ReadReport
  <2>1. /\ Reads("report") /\ down' = Tail(down)
        /\ ids' = [ids EXCEPT ![d.about] = None]
        /\ IF ids[d.about] = None
           THEN Answer(Kind(d)) /\ UNCHANGED fwdq
           ELSE Forward([type |-> d.status, about |-> ids[d.about]], Kind(d)) /\ UNCHANGED pduq
        /\ UNCHANGED <<requestVars, writer, parts, forwardVars, smsc>>
    BY <1>1 DEF ReadReport
  <2>2. /\ reader.at = "reading" /\ d \in Down /\ d.type = "report" /\ SmscTypeInv'
    BY <2>1, ReadsFacts DEF SInv, SmscTypeInv
  <2>3. d.about \in SegmentIds /\ d.status \in {"pending", "final"}
        /\ Kind(d) \in Received /\ Kind(d)[1] = "report"
    BY <2>2, DownFacts DEF Kind
  <2> HIDE DEF d
  <2>4. ids' \in [SegmentIds -> Messages \cup {None}]
    BY <1>0, <2>1
  <2>5. CASE ids[d.about] = None
    BY <2>1, <2>2, <2>3, <2>4, <2>5, AnsweredKeeps DEF Answer
  <2>6. CASE ids[d.about] # None
    <3> DEFINE item == [type |-> d.status, about |-> ids[d.about]]
    <3>1. item \in Items /\ item.type # "inbound"
      BY <1>0, <2>3, <2>6, ItemFacts
    <3>2. Forward(item, Kind(d))
      BY <2>1, <2>6
    <3> HIDE DEF item
    <3> QED
      BY <2>1, <2>2, <2>3, <2>4, <2>6, <3>1, <3>2, ForwardedKeeps
  <2> QED
    BY <2>5, <2>6
<1>2. CASE ReadInbound
  <2> DEFINE item == [type |-> "inbound", about |-> d.about[1]]
  <2>1. /\ Reads("deliver") /\ down' = Tail(down) /\ parts' \subseteq parts
        /\ Forward(item, Kind(d))
        /\ UNCHANGED <<requestVars, pduq, writer, forwardVars, ids, smsc>>
    BY <1>2 DEF ReadInbound
  <2>2. /\ reader.at = "reading" /\ d \in Down /\ d.type = "deliver" /\ SmscTypeInv'
    BY <2>1, ReadsFacts DEF SInv, SmscTypeInv
  <2>3. d.about \in PartIds /\ d.about[1] \in Inbounds /\ Kind(d) \in Received
        /\ Kind(d)[1] = "deliver" /\ Kind(d)[2] = d.about
    BY <2>2, DownFacts, PartFacts DEF Kind
  <2> HIDE DEF d
  <2>4. item \in Items /\ item.type = "inbound" /\ item.about = d.about[1]
    BY <2>3, ItemFacts
  <2> HIDE DEF item
  <2>5. IsPartOf(Kind(d), item.about)
    BY <2>3, <2>4 DEF IsPartOf
  <2> QED
    BY <1>0, <2>1, <2>2, <2>3, <2>4, <2>5, ForwardedKeeps
<1>3. CASE ReaderAnswers
  <2>1. PICK type \in {"deliver", "enquire_link", "unknown", "unbind"} : Reads(type)
    BY <1>3 DEF ReaderAnswers, ReadPart, ReadEnquiry, ReadUnknownRequest, ReadUnbind
  <2>2. /\ down' = Tail(down) /\ UNCHANGED <<requestVars, writer, fwdq, forwardVars, ids, smsc>>
        /\ OfferPdu(Reader, [type |-> "answer", about |-> Kind(d), seq |-> 0])
        /\ \/ reader' = [at |-> "answering", about |-> Kind(d)]
           \/ reader' = [at |-> "unbinding", about |-> Kind(d)]
        /\ UNCHANGED parts \/ (ReadPart /\ parts' = parts \cup {d.about})
    BY <1>3 DEF ReaderAnswers, ReadPart, ReadEnquiry, ReadUnknownRequest, ReadUnbind, Answer
  <2>3. /\ reader.at = "reading" /\ d \in Down /\ d.type = type
        /\ parts' \subseteq PartIds => SmscTypeInv'
    BY <2>1, <2>2, ReadsFacts
  <2>4. parts' \subseteq PartIds
    <3>1. ReadPart => d.about \in PartIds
      BY <2>3, DownFacts DEF ReadPart, Reads
    <3> QED
      BY <2>2, <3>1 DEF SInv, SmscTypeInv
  <2>5. Kind(d) \in Received
    BY <2>3, DownFacts
  <2> HIDE DEF d
  <2> QED
    BY <1>0, <2>2, <2>3, <2>4, <2>5, AnsweredKeeps
<1> QED
  BY <1>1, <1>2, <1>3

\* The forwarder takes an item, and who offered it goes on.
LEMMA ForwarderTakesKeeps ==
  ASSUME SInv, ForwarderTakes
  PROVE  SInv'
<1> DEFINE q == fwdq[1]
<1>1. /\ fwdq \in Seq(ItemOffers) /\ fwdq # << >> /\ Head(fwdq) = q /\ q \in ItemOffers
      /\ 1 \in DOMAIN fwdq
  BY TailFacts DEF ForwarderTakes, SInv, ChannelTypeInv
<1>2. /\ forwarder = None /\ forwarder' = q.item /\ fwdq' = Tail(fwdq)
      /\ IF q.task = Reader
         THEN Answer(reader.about) /\ UNCHANGED step
         ELSE step' = [step EXCEPT ![q.task] = "ended"] /\ UNCHANGED <<reader, pduq>>
      /\ UNCHANGED <<seqno, responses, first, cur, reply, writer, down, parts, published, ids,
                     smsc>>
  BY <1>1 DEF ForwarderTakes
<1>3. q.task \in Messages \cup {Reader} /\ q.item \in Items
  BY <1>1, ItemFacts
<1>4. /\ fwdq' \in Seq(ItemOffers)
      /\ \A i \in DOMAIN fwdq' : i + 1 \in DOMAIN fwdq /\ fwdq'[i] = fwdq[i + 1] /\ i \in Nat
                                  /\ (q.task = Reader => fwdq'[i].task # Reader)
  <2>1. /\ fwdq' \in Seq(ItemOffers)
        /\ \A i \in DOMAIN fwdq' : i + 1 \in DOMAIN fwdq /\ fwdq'[i] = fwdq[i + 1] /\ i \in Nat
                                   /\ i + 1 # 1
    BY <1>1, <1>2, TailFacts
  <2> QED
    BY <1>1, <2>1 DEF SInv, ItemQueueInv
<1>5. q.task = Reader =>
        /\ reader.at = "forwarding" /\ reader.about \in Received
        /\ q.item.type = "inbound" => IsPartOf(reader.about, q.item.about)
        /\ q.item.type # "inbound" => reader.about[1] = "report"
  BY <1>1 DEF SInv, ItemQueueInv, ChannelTypeInv, Readers
<1> HIDE DEF q
<1>6. step' \in [Requesters -> Steps]
  BY <1>2 DEF SInv, RequestTypeInv, Steps
<1>7. ItemQueueInv'
  <2>1. \A i, j \in DOMAIN fwdq' : fwdq'[i].task = Reader /\ fwdq'[j].task = Reader => i = j
    BY <1>4 DEF SInv, ItemQueueInv
  <2>2. \A i \in DOMAIN fwdq' :
          IF fwdq'[i].task = Reader
          THEN /\ reader.at = "forwarding"
               /\ fwdq'[i].item.type = "inbound" => IsPartOf(reader.about, fwdq'[i].item.about)
               /\ fwdq'[i].item.type # "inbound" => reader.about[1] = "report"
          ELSE fwdq'[i].item.type \in {"ack", "nack"} /\ fwdq'[i].item.about = fwdq'[i].task
    BY <1>4 DEF SInv, ItemQueueInv
  <2> QED
    BY <1>2, <1>4, <2>1, <2>2 DEF ItemQueueInv
<1>8. pduq' \in Seq(PduOffers) /\ reader' \in Readers /\ PduQueueInv'
  <2>1. CASE q.task = Reader
    <3>1. /\ OfferPdu(Reader, [type |-> "answer", about |-> reader.about, seq |-> 0])
          /\ reader' = [at |-> "answering", about |-> reader.about]
          /\ reader'.at = "answering" /\ reader'.about = reader.about /\ reader' \in Readers
      BY <1>2, <1>5, <2>1 DEF Answer, Readers
    <3> QED
      BY <1>5, <2>1, <3>1, AnswerKeeps, Zenon
  <2>2. CASE q.task # Reader
    <3>1. UNCHANGED <<reader, pduq>>
      BY <1>2, <2>2
    <3>2. pduq' \in Seq(PduOffers) /\ reader' \in Readers
      BY <3>1 DEF SInv, ChannelTypeInv
    <3>3. PduQueueInv'
      BY <3>1 DEF SInv, PduQueueInv
    <3> QED
      BY <3>2, <3>3
  <2> QED
    BY <2>1, <2>2
<1>9. RequestTypeInv' /\ ChannelTypeInv' /\ SmscTypeInv'
  BY <1>2, <1>3, <1>4, <1>6, <1>8 DEF SInv, RequestTypeInv, ChannelTypeInv, SmscTypeInv
<1> QED
  BY <1>7, <1>8, <1>9 DEF SInv

\* So does the forwarder publishing what it took.
LEMMA ForwarderPublishesKeeps ==
  ASSUME SInv, ForwarderPublishes
  PROVE  SInv'
<1>1. /\ forwarder \in Items /\ forwarder' = None /\ published' = Append(published, forwarder)
      /\ UNCHANGED <<requestVars, pduq, writer, readVars, fwdq, ids, smsc>>
  BY DEF ForwarderPublishes, SInv, ChannelTypeInv
<1>2. /\ published' \in Seq(Items)
      /\ ToSet(published') = ToSet(published) \cup {forwarder}
  BY <1>1, AppendFacts, ElementFacts DEF SInv, ChannelTypeInv
<1>3. RequestTypeInv' /\ ChannelTypeInv' /\ SmscTypeInv'
  BY <1>1, <1>2 DEF SInv, RequestTypeInv, ChannelTypeInv, SmscTypeInv, requestVars, readVars
<1>4. PduQueueInv' /\ ItemQueueInv'
  BY <1>1, QueuesKept DEF requestVars, readVars
<1> QED
  BY <1>3, <1>4 DEF SInv

\* The end of the process, and steps that change nothing here.
LEMMA StutterKeeps ==
  ASSUME SInv, UNCHANGED <<requestVars, pduq, writer, readVars, fwdq, forwardVars, ids, smsc>>
  PROVE  SInv'
<1>1. RequestTypeInv' /\ ChannelTypeInv' /\ SmscTypeInv'
  BY DEF SInv, RequestTypeInv, ChannelTypeInv, SmscTypeInv, requestVars, readVars, forwardVars
<1>2. PduQueueInv' /\ ItemQueueInv'
  BY QueuesKept DEF requestVars, readVars, forwardVars
<1> QED
  BY <1>1, <1>2 DEF SInv

\* An exception that ends the process changes nothing else.
LEMMA RaisesKeep ==
  ASSUME SInv, \/ BindTimeout \/ EnquireLinkTimeout \/ BindRefused \/ ReadUnknownResponse
               \/ UnbindRaises
  PROVE  SInv'
<1>1. UNCHANGED <<requestVars, pduq, writer, readVars, fwdq, forwardVars, ids, smsc>>
  BY DEF BindTimeout, EnquireLinkTimeout, BindRefused, ReadUnknownResponse, UnbindRaises, Raise
<1> QED
  BY <1>1, StutterKeeps

\* Every step of the session keeps the invariant.
LEMMA StepKeeps ==
  ASSUME SInv, [Next]_vars
  PROVE  SInv'
<1>1. CASE SetupTask
  BY <1>1, RequestsKeep, ResumesKeep, RaisesKeep DEF SetupTask
<1>2. CASE EnquiryTask
  BY <1>2, RequestsKeep, ResumesKeep DEF EnquiryTask
<1>3. CASE \E m \in Messages : Handler(m)
  BY <1>3, RequestsKeep, ResumesKeep, OutcomesKeep DEF Handler
<1>4. CASE WriterTask
  BY <1>4, WriterTakesKeeps, WriterWritesKeeps DEF WriterTask
<1>5. CASE ReaderTask
  BY <1>5, ReaderResumes, ReaderKeeps, RaisesKeep DEF ReaderTask, ReaderAnswers
<1>6. CASE ForwarderTask
  BY <1>6, ForwarderTakesKeeps, ForwarderPublishesKeeps DEF ForwarderTask
<1>7. CASE Timeouts
  BY <1>7, RaisesKeep DEF Timeouts
<1>8. CASE SmscAnswers \/ SmscInitiates
  BY <1>8, SmscKeeps
<1>9. CASE UNCHANGED vars
  BY <1>9, StutterKeeps DEF vars
<1> QED
  BY <1>1, <1>2, <1>3, <1>4, <1>5, <1>6, <1>7, <1>8, <1>9 DEF Next

\* The variables keep their types, and whoever waits at a channel offers there
\* what it should.
THEOREM SessionInvariant == Spec => []SInv
<1>1. Init => SInv
  BY InitEstablishes
<1>2. SInv /\ [Next]_vars => SInv'
  BY StepKeeps
<1> QED
  BY <1>1, <1>2, PTL DEF Spec

-------------------------------------------------------------------------------
(* Sequence numbers.  A request is out from the moment it is offered to    *)
(* the writer until its response is read; a message keeps the numbers of   *)
(* its segments that are still to be sent.                                 *)

Reserved(t) == IF t \in Messages THEN {Wrap(first[t] + k - 1) : k \in cur[t] .. Segments[t]}
               ELSE {first[t]}
Pending(t) == Awaiting(t) \/ (t \in Messages /\ step[t] = "resumed")

\* No sequence number comes round again while a request that took it is pending.
NumbersApart ==
  \A t, u \in Requesters : Pending(t) /\ Pending(u) /\ t # u => Reserved(t) \cap Reserved(u) = {}

RequestPdu(t) == [type |-> "request", about |-> RequestOf(t), seq |-> NumberOf(t)]
IsResponse(d) == d.type = "response" /\ d.about # None
Answered(t) == \E i \in DOMAIN down : IsResponse(down[i]) /\ down[i].about = RequestOf(t)

StartedInv ==
  /\ \A t \in Requesters : step[t] # "idle" => first[t] \in 1 .. SeqLimit
  /\ \A m \in Messages : step[m] # "idle" => cur[m] \in 1 .. Segments[m]

\* A task waits at a channel once, with what it has to send.
RequestQueueInv ==
  /\ \A i, j \in DOMAIN pduq : pduq[i].task = pduq[j].task => i = j
  /\ \A i \in DOMAIN pduq : pduq[i].task # Reader =>
       step[pduq[i].task] = "offering" /\ pduq[i].pdu = RequestPdu(pduq[i].task)

OutcomeQueueInv ==
  /\ \A i, j \in DOMAIN fwdq : fwdq[i].task = fwdq[j].task => i = j
  /\ \A i \in DOMAIN fwdq : fwdq[i].task # Reader => step[fwdq[i].task] = "reporting"

TableInv ==
  /\ \A t \in Requesters : Awaiting(t) => responses[NumberOf(t)] = t
  /\ \A n \in 1 .. SeqLimit : responses[n] # None =>
       Awaiting(responses[n]) /\ NumberOf(responses[n]) = n

\* A request that was written is with the SMSC or answered, once.
FlightInv ==
  /\ writer # None /\ writer.type = "request" =>
       \E t \in Requesters : step[t] = "waiting" /\ writer = RequestPdu(t)
                             /\ writer \notin smsc.todo /\ ~Answered(t)
  /\ \A p \in smsc.todo :
       \E t \in Requesters : step[t] = "waiting" /\ p = RequestPdu(t) /\ ~Answered(t)
  /\ \A i \in DOMAIN down : IsResponse(down[i]) =>
       \E t \in Requesters : step[t] = "waiting" /\ down[i].about = RequestOf(t)
                             /\ down[i].seq = NumberOf(t)
  /\ \A i, j \in DOMAIN down :
       IsResponse(down[i]) /\ IsResponse(down[j]) /\ down[i].about = down[j].about => i = j

ReplyInv == \A t \in Requesters : step[t] = "resumed" =>
              reply[t] \in Responses /\ reply[t].about = RequestOf(t)

FInv == /\ StartedInv /\ RequestQueueInv /\ OutcomeQueueInv
        /\ TableInv /\ FlightInv /\ ReplyInv

\* The request of a task that has started, and its number.
LEMMA RequestFacts ==
  ASSUME SInv, StartedInv
  PROVE  /\ \A t \in Requesters : step[t] # "idle" =>
              /\ RequestOf(t) \in SegmentIds \cup {Bind, Enquiry} /\ RequestOf(t) # None
              /\ NumberOf(t) \in 1 .. SeqLimit /\ NumberOf(t) \in Reserved(t)
         /\ \A t, u \in Requesters :
              step[t] # "idle" /\ step[u] # "idle" /\ RequestOf(t) = RequestOf(u) => t = u
<1>1. ASSUME NEW m \in Messages, step[m] # "idle"
      PROVE  /\ <<m, cur[m]>> \in SegmentIds
             /\ first[m] \in Nat /\ cur[m] \in cur[m] .. Segments[m] /\ cur[m] \in Nat
  <2>1. cur[m] \in 1 .. Segments[m] /\ first[m] \in 1 .. SeqLimit
    BY <1>1, ConstantFacts DEF StartedInv
  <2>2. Segments[m] \in Nat /\ SeqLimit \in Nat
    BY SegmentFacts, ConstantFacts
  <2>3. cur[m] \in Nat \ {0} /\ cur[m] <= Segments[m] /\ first[m] \in Nat
    BY <2>1, <2>2
  <2>4. cur[m] \in cur[m] .. Segments[m]
    BY <2>2, <2>3
  <2> QED
    BY <2>3, <2>4, SegmentFacts
<1>2. ASSUME NEW t \in Requesters, step[t] # "idle"
      PROVE  /\ RequestOf(t) \in SegmentIds \cup {Bind, Enquiry} /\ RequestOf(t) # None
             /\ NumberOf(t) \in 1 .. SeqLimit /\ NumberOf(t) \in Reserved(t)
  <2>1. CASE t \in Messages
    <3>0. first[t] \in Nat /\ cur[t] \in Nat
      BY <1>1, <1>2, <2>1
    <3>1. first[t] + cur[t] - 1 \in Int
      BY <3>0
    <3> QED
      BY <1>1, <1>2, <2>1, <3>1, WrapFacts, ConstantFacts DEF RequestOf, NumberOf, Reserved
  <2>2. CASE t \notin Messages
    BY <1>2, <2>2, ConstantFacts DEF RequestOf, NumberOf, Reserved, StartedInv
  <2> QED
    BY <2>1, <2>2
<1>3. ASSUME NEW t \in Requesters, NEW u \in Requesters, step[t] # "idle", step[u] # "idle",
             RequestOf(t) = RequestOf(u)
      PROVE  t = u
  <2>1. CASE t \in Messages /\ u \in Messages
    BY <1>3, <2>1 DEF RequestOf
  <2>2. CASE t \in Messages /\ u \notin Messages
    BY <1>1, <1>3, <2>2, ConstantFacts DEF RequestOf
  <2>3. CASE t \notin Messages /\ u \in Messages
    BY <1>1, <1>3, <2>3, ConstantFacts DEF RequestOf
  <2>4. CASE t \notin Messages /\ u \notin Messages
    BY <1>3, <2>4 DEF RequestOf
  <2> QED
    BY <2>1, <2>2, <2>3, <2>4
<1> QED
  BY <1>2, <1>3

\* Requesters that keep their state keep their request and its number.
LEMMA SameRequest ==
  ASSUME NEW t, first'[t] = first[t], t \in Messages => cur'[t] = cur[t]
  PROVE  RequestOf(t)' = RequestOf(t) /\ NumberOf(t)' = NumberOf(t)
         /\ RequestPdu(t)' = RequestPdu(t) /\ Reserved(t)' = Reserved(t)
BY DEF RequestOf, NumberOf, RequestPdu, Reserved

\* No request is out when the process starts.
LEMMA InitStarts == Init => FInv
<1> SUFFICES ASSUME Init PROVE FInv
  OBVIOUS
<1> USE DEF Init
<1>1. StartedInv /\ ReplyInv
  BY ConstantFacts DEF StartedInv, ReplyInv
<1>2. RequestQueueInv /\ OutcomeQueueInv
  BY DEF RequestQueueInv, OutcomeQueueInv
<1>3. TableInv
  BY DEF TableInv, Awaiting
<1>4. FlightInv
  BY DEF FlightInv
<1> QED
  BY <1>1, <1>2, <1>3, <1>4 DEF FInv

\* The PDUs from the SMSC that the reader has not seen: some responses go, or
\* something comes that is no response.
NoResponseComes ==
  \/ UNCHANGED down
  \/ down # << >> /\ down' = Tail(down)
  \/ \E d \in Down : ~IsResponse(d) /\ down' = Append(down, d)

\* The responses that are left are among those there were, each about a request of its own.
LEMMA NoResponseFacts ==
  ASSUME SInv, NoResponseComes
  PROVE  /\ \A i \in DOMAIN down' : IsResponse(down'[i]) =>
              \E k \in DOMAIN down : down'[i] = down[k]
         /\ (\A i, j \in DOMAIN down :
               IsResponse(down[i]) /\ IsResponse(down[j]) /\ down[i].about = down[j].about => i = j)
            => (\A i, j \in DOMAIN down' :
                 IsResponse(down'[i]) /\ IsResponse(down'[j])
                   /\ down'[i].about = down'[j].about => i = j)
<1>1. down \in Seq(Down)
  BY DEF SInv, SmscTypeInv
<1>2. CASE UNCHANGED down
  BY <1>2
<1>3. CASE down # << >> /\ down' = Tail(down)
  <2>1. \A i \in DOMAIN down' : down'[i] = down[i + 1] /\ i + 1 \in DOMAIN down /\ i \in Nat
    BY <1>1, <1>3, TailFacts
  <2> QED
    BY <2>1
<1>4. ASSUME NEW d \in Down, ~IsResponse(d), down' = Append(down, d)
      PROVE  \A i \in DOMAIN down' : IsResponse(down'[i]) => i \in DOMAIN down /\ down'[i] = down[i]
  BY <1>1, <1>4, AppendFacts
<1> QED
  BY <1>2, <1>3, <1>4 DEF NoResponseComes

\* What waiting tasks sent is where it was, or was answered.
LEMMA FlightKept ==
  ASSUME SInv, StartedInv, FlightInv, NoResponseComes, UNCHANGED writer, smsc'.todo = smsc.todo,
         \A t \in Requesters : step[t] = "waiting" =>
           step'[t] = "waiting" /\ first'[t] = first[t] /\ (t \in Messages => cur'[t] = cur[t])
  PROVE  FlightInv'
<1>1. ASSUME NEW t \in Requesters, step[t] = "waiting"
      PROVE  /\ step'[t] = "waiting"
             /\ RequestOf(t)' = RequestOf(t) /\ NumberOf(t)' = NumberOf(t)
             /\ RequestPdu(t)' = RequestPdu(t)
  BY <1>1, SameRequest
<1>2. ASSUME NEW t \in Requesters, step[t] = "waiting", Answered(t)'
      PROVE  Answered(t)
  <2>1. PICK i \in DOMAIN down' : IsResponse(down'[i]) /\ down'[i].about = RequestOf(t)
    BY <1>1, <1>2 DEF Answered, IsResponse
  <2>2. PICK k \in DOMAIN down : down'[i] = down[k]
    BY <2>1, NoResponseFacts
  <2> QED
    BY <2>1, <2>2 DEF Answered
<1>3. ASSUME writer' # None, writer'.type = "request"
      PROVE  \E t \in Requesters : step'[t] = "waiting" /\ writer' = RequestPdu(t)'
                                   /\ writer' \notin smsc'.todo /\ ~Answered(t)'
  BY <1>1, <1>2, <1>3 DEF FlightInv
<1>4. ASSUME NEW p \in smsc'.todo
      PROVE  \E t \in Requesters : step'[t] = "waiting" /\ p = RequestPdu(t)' /\ ~Answered(t)'
  BY <1>1, <1>2 DEF FlightInv
<1>5. ASSUME NEW i \in DOMAIN down', IsResponse(down'[i])
      PROVE  \E t \in Requesters : step'[t] = "waiting" /\ down'[i].about = RequestOf(t)'
                                   /\ down'[i].seq = NumberOf(t)'
  <2>1. PICK k \in DOMAIN down : down'[i] = down[k]
    BY <1>5, NoResponseFacts
  <2>2. PICK t \in Requesters : step[t] = "waiting" /\ down[k].about = RequestOf(t)
                                  /\ down[k].seq = NumberOf(t)
    BY <1>5, <2>1 DEF FlightInv
  <2> QED
    BY <1>1, <2>1, <2>2
<1>6. \A i, j \in DOMAIN down' :
        IsResponse(down'[i]) /\ IsResponse(down'[j]) /\ down'[i].about = down'[j].about => i = j
  BY NoResponseFacts DEF FlightInv
<1>7. \A i \in DOMAIN down' : IsResponse(down[i])' <=> IsResponse(down'[i])
  BY DEF IsResponse
<1> QED
  BY <1>3, <1>4, <1>5, <1>6, <1>7 DEF FlightInv, IsResponse

\* Requesters that wait for a channel or a response go on doing so.
Quiet ==
  /\ UNCHANGED <<responses, first, cur, reply>>
  /\ \A t \in Requesters :
       \/ step'[t] = step[t]
       \/ /\ step[t] \in {"resumed", "bound", "reporting"}
          /\ step'[t] \in {"idle", "bound", "reporting", "ended", "failed"}

\* A step that sends, answers and hands over no request keeps what is known of them.
LEMMA QuietKeeps ==
  ASSUME SInv, PduQueueInv', FInv, Quiet, NoResponseComes, UNCHANGED writer,
         smsc'.todo = smsc.todo,
         \/ UNCHANGED pduq
         \/ \E p \in Pdus : OfferPdu(Reader, p)
  PROVE  StartedInv' /\ RequestQueueInv' /\ TableInv' /\ FlightInv' /\ ReplyInv'
<1>1. ASSUME NEW t \in Requesters
      PROVE  /\ first'[t] = first[t] /\ cur'[t] = cur[t] /\ reply'[t] = reply[t]
             /\ RequestOf(t)' = RequestOf(t) /\ NumberOf(t)' = NumberOf(t)
             /\ RequestPdu(t)' = RequestPdu(t)
             /\ step'[t] \in {"offering", "waiting", "resumed"} \/ step[t] \in {"offering", "waiting"}
                  => step'[t] = step[t]
             /\ step'[t] # "idle" => step[t] # "idle"
  <2>1. first'[t] = first[t] /\ cur'[t] = cur[t] /\ reply'[t] = reply[t]
    BY DEF Quiet
  <2> QED
    BY <2>1, SameRequest DEF Quiet
<1>2. StartedInv'
  BY <1>1, ConstantFacts DEF FInv, StartedInv
<1>3. TableInv'
  <2>1. ASSUME NEW t \in Requesters PROVE Awaiting(t)' <=> Awaiting(t)
    BY <1>1 DEF Awaiting
  <2>2. ASSUME NEW t \in Requesters, Awaiting(t)' PROVE responses'[NumberOf(t)'] = t
    BY <1>1, <2>1, <2>2 DEF FInv, TableInv, Quiet
  <2>3. ASSUME NEW n \in 1 .. SeqLimit, responses'[n] # None
        PROVE  Awaiting(responses[n])' /\ NumberOf(responses[n])' = n
    <3>1. responses[n] \in Requesters
      BY <2>3 DEF SInv, RequestTypeInv, Quiet
    <3> QED
      BY <1>1, <2>1, <2>3, <3>1 DEF FInv, TableInv, Quiet
  <2> QED
    BY <2>2, <2>3 DEF TableInv, Quiet, Awaiting, NumberOf
<1>4. FlightInv'
  BY <1>1, FlightKept DEF FInv
<1>5. ReplyInv'
  BY <1>1 DEF FInv, ReplyInv
<1>6. RequestQueueInv'
  <2>1. ASSUME NEW i \in DOMAIN pduq', pduq'[i].task # Reader
        PROVE  i \in DOMAIN pduq /\ pduq'[i] = pduq[i] /\ pduq[i].task \in Requesters
    <3>1. pduq \in Seq(PduOffers)
      BY DEF SInv, ChannelTypeInv
    <3>2. i \in DOMAIN pduq /\ pduq'[i] = pduq[i]
      <4>1. ASSUME NEW p \in Pdus, OfferPdu(Reader, p)
            PROVE  i \in DOMAIN pduq /\ pduq'[i] = pduq[i]
        <5>1. [task |-> Reader, pdu |-> p] \in PduOffers
          BY PduFacts
        <5> QED
          BY <2>1, <3>1, <4>1, <5>1, AppendFacts DEF OfferPdu
      <4> QED
        BY <2>1, <4>1
    <3> QED
      BY <2>1, <3>1, <3>2, ElementFacts, PduFacts
  <2>2. \A i, j \in DOMAIN pduq' : pduq'[i].task = pduq'[j].task => i = j
    BY <2>1 DEF FInv, RequestQueueInv, PduQueueInv
  <2>3. ASSUME NEW i \in DOMAIN pduq', pduq'[i].task # Reader
        PROVE  /\ step'[pduq'[i].task] = "offering"
               /\ pduq'[i].pdu = RequestPdu(pduq[i].task)'
    <3>1. /\ step[pduq[i].task] = "offering" /\ pduq[i].pdu = RequestPdu(pduq[i].task)
      BY <2>1, <2>3 DEF FInv, RequestQueueInv
    <3> QED
      BY <1>1, <2>1, <2>3, <3>1
  <2> QED
    BY <2>2, <2>3 DEF RequestQueueInv, RequestPdu, RequestOf, NumberOf
<1> QED
  BY <1>2, <1>3, <1>4, <1>5, <1>6

\* The tasks at the forwarder's channel.
LEMMA OutcomesKept ==
  ASSUME SInv, ItemQueueInv', FInv,
         \/ UNCHANGED fwdq
         \/ \E x \in Items : OfferItem(Reader, x),
         \A m \in Messages : step[m] = "reporting" => step'[m] = "reporting"
  PROVE  OutcomeQueueInv'
<1>1. fwdq \in Seq(ItemOffers)
  BY DEF SInv, ChannelTypeInv
<1>2. ASSUME NEW i \in DOMAIN fwdq', fwdq'[i].task # Reader
      PROVE  i \in DOMAIN fwdq /\ fwdq'[i] = fwdq[i] /\ fwdq[i].task \in Messages
  <2>1. i \in DOMAIN fwdq /\ fwdq'[i] = fwdq[i]
    <3>1. ASSUME NEW x \in Items, OfferItem(Reader, x)
          PROVE  i \in DOMAIN fwdq /\ fwdq'[i] = fwdq[i]
      <4>1. [task |-> Reader, item |-> x] \in ItemOffers
        BY ItemFacts
      <4> QED
        BY <1>1, <1>2, <3>1, <4>1, AppendFacts DEF OfferItem
    <3> QED
      BY <1>2, <3>1
  <2> QED
    BY <1>1, <1>2, <2>1, ElementFacts, ItemFacts
<1>3. \A i, j \in DOMAIN fwdq' : fwdq'[i].task = fwdq'[j].task => i = j
  BY <1>2 DEF FInv, OutcomeQueueInv, ItemQueueInv
<1>4. \A i \in DOMAIN fwdq' : fwdq'[i].task # Reader => step'[fwdq'[i].task] = "reporting"
  BY <1>2 DEF FInv, OutcomeQueueInv
<1> QED
  BY <1>3, <1>4 DEF OutcomeQueueInv

\* A task that offered its request, or had none, sends the next one.
LEMMA SendFlies ==
  ASSUME SInv, PduQueueInv', FInv, NumbersApart', NEW t \in Requesters,
         step[t] \in {"idle", "resumed"},
         SendRequest(t, RequestOf(t)', NumberOf(t)'),
         RequestOf(t)' \in SegmentIds \cup {Bind, Enquiry},
         first'[t] \in 1 .. SeqLimit, t \in Messages => cur'[t] \in 1 .. Segments[t],
         \A u \in Requesters \ {t} : first'[u] = first[u],
         \A u \in Messages \ {t} : cur'[u] = cur[u],
         NumberOf(t)' \in 1 .. SeqLimit, NumberOf(t)' \in Reserved(t)',
         UNCHANGED <<reply, writer, readVars, fwdq, smsc>>
  PROVE  FInv'
<1>1. /\ responses' = [responses EXCEPT ![NumberOf(t)'] = t]
      /\ step' = [step EXCEPT ![t] = "offering"]
      /\ pduq' = Append(pduq, [task |-> t, pdu |-> RequestPdu(t)'])
      /\ UNCHANGED down
  BY DEF SendRequest, OfferPdu, RequestPdu, readVars
<1>2. step'[t] = "offering" /\ \A u \in Requesters \ {t} : step'[u] = step[u]
  BY <1>1 DEF SInv, RequestTypeInv
<1>3. ASSUME NEW u \in Requesters \ {t}
      PROVE  /\ first'[u] = first[u] /\ (u \in Messages => cur'[u] = cur[u])
             /\ RequestOf(u)' = RequestOf(u) /\ NumberOf(u)' = NumberOf(u)
             /\ RequestPdu(u)' = RequestPdu(u)
  BY SameRequest
<1>4. StartedInv'
  BY <1>2, <1>3, ConstantFacts DEF FInv, StartedInv
<1>5. OutcomeQueueInv'
  <2>1. \A i \in DOMAIN fwdq : fwdq[i] \in ItemOffers /\ fwdq[i].task # t
    BY ElementFacts, ConstantFacts DEF SInv, ChannelTypeInv, FInv, OutcomeQueueInv
  <2> QED
    BY <1>2, <2>1, ItemFacts, ConstantFacts DEF FInv, OutcomeQueueInv
<1>6. ReplyInv'
  BY <1>2, <1>3 DEF FInv, ReplyInv
<1>7. TableInv'
  <2>1. ASSUME NEW u \in Requesters, Awaiting(u)'
        PROVE  responses'[NumberOf(u)'] = u
    <3>1. CASE u = t
      BY <1>1, <3>1 DEF SInv, RequestTypeInv
    <3>2. CASE u # t
      <4>1. Awaiting(u) /\ NumberOf(u)' = NumberOf(u) /\ responses[NumberOf(u)] = u
        BY <1>2, <1>3, <2>1, <3>2 DEF FInv, TableInv, Awaiting
      <4>2. NumberOf(u) \in 1 .. SeqLimit /\ NumberOf(u)' \in Reserved(u)'
        <5>1. step[u] # "idle"
          BY <4>1 DEF Awaiting
        <5>2. Reserved(u)' = Reserved(u)
          BY <1>3, <3>2 DEF Reserved
        <5> QED
          BY <4>1, <5>1, <5>2, RequestFacts DEF FInv
      <4>3. Pending(t)' /\ Pending(u)'
        BY <1>2, <2>1 DEF Pending, Awaiting
      <4>4. Reserved(t)' \cap Reserved(u)' = {}
        BY <3>2, <4>3 DEF NumbersApart
      <4>5. NumberOf(u)' # NumberOf(t)'
        BY <4>2, <4>4
      <4> QED
        BY <1>1, <4>1, <4>2, <4>5 DEF SInv, RequestTypeInv
    <3> QED
      BY <3>1, <3>2
  <2>2. ASSUME NEW n \in 1 .. SeqLimit, responses'[n] # None
        PROVE  Awaiting(responses[n])' /\ NumberOf(responses[n])' = n
    <3>1. CASE n = NumberOf(t)'
      <4>1. responses'[n] = t
        BY <1>1, <3>1 DEF SInv, RequestTypeInv
      <4> QED
        BY <1>2, <3>1, <4>1 DEF Awaiting
    <3>2. CASE n # NumberOf(t)'
      <4>1. responses'[n] = responses[n]
        BY <1>1, <3>2 DEF SInv, RequestTypeInv
      <4>2. responses[n] \in Requesters /\ Awaiting(responses[n]) /\ NumberOf(responses[n]) = n
        BY <2>2, <4>1 DEF SInv, RequestTypeInv, FInv, TableInv
      <4>3. responses[n] # t
        BY <4>2 DEF Awaiting
      <4> QED
        BY <1>2, <1>3, <4>1, <4>2, <4>3 DEF Awaiting
    <3> QED
      BY <3>1, <3>2
  <2> QED
    BY <2>1, <2>2 DEF TableInv
<1>8. FlightInv'
  <2>1. \A u \in Requesters : step[u] = "waiting" => u # t
    OBVIOUS
  <2> QED
    BY <1>1, <1>2, <1>3, <2>1, FlightKept DEF FInv, NoResponseComes
<1>9. RequestQueueInv'
  <2> DEFINE q == [task |-> t, pdu |-> RequestPdu(t)']
  <2>1. pduq \in Seq(PduOffers)
    BY DEF SInv, ChannelTypeInv
  <2>2. q \in PduOffers /\ q.task = t /\ q.pdu = RequestPdu(t)'
    <3>1. RequestPdu(t)' \in Pdus
      BY PduFacts DEF RequestPdu
    <3> QED
      BY <3>1, PduFacts
  <2> HIDE DEF q
  <2>3. ASSUME NEW i \in DOMAIN pduq'
        PROVE  \/ i \in DOMAIN pduq /\ pduq'[i] = pduq[i] /\ pduq[i].task # t
                  /\ pduq[i].task \in Requesters \cup {Reader}
               \/ i = Len(pduq) + 1 /\ pduq'[i] = q
    <3>1. \/ i \in DOMAIN pduq /\ pduq'[i] = pduq[i]
          \/ i = Len(pduq) + 1 /\ pduq'[i] = q
      BY <1>1, <2>1, <2>2, AppendFacts DEF q
    <3>2. ASSUME i \in DOMAIN pduq PROVE pduq[i].task # t
      BY <3>2, ConstantFacts DEF FInv, RequestQueueInv
    <3> QED
      BY <2>1, <3>1, <3>2, ElementFacts, PduFacts
  <2>4. \A i, j \in DOMAIN pduq' : pduq'[i].task = pduq'[j].task => i = j
    BY <2>2, <2>3 DEF FInv, RequestQueueInv
  <2>5. ASSUME NEW i \in DOMAIN pduq', pduq'[i].task # Reader
        PROVE  /\ step'[pduq'[i].task] = "offering"
               /\ pduq'[i].pdu = RequestPdu(pduq[i].task)'
    <3>1. CASE pduq'[i] = q
      BY <1>2, <2>2, <3>1
    <3>2. CASE i \in DOMAIN pduq /\ pduq'[i] = pduq[i] /\ pduq[i].task # t
                 /\ pduq[i].task \in Requesters \cup {Reader}
      <4>1. step[pduq[i].task] = "offering" /\ pduq[i].pdu = RequestPdu(pduq[i].task)
        BY <2>5, <3>2 DEF FInv, RequestQueueInv
      <4> QED
        BY <1>2, <1>3, <2>5, <3>2, <4>1
    <3> QED
      BY <2>3, <3>1, <3>2
  <2> QED
    BY <2>4, <2>5 DEF RequestQueueInv
<1> QED
  BY <1>4, <1>5, <1>6, <1>7, <1>8, <1>9 DEF FInv

\* A number within the limit is its own wrapping.
LEMMA NoWrap == \A n \in 1 .. SeqLimit : Wrap(n) = n
<1>1. SeqLimit \in Nat \ {0}
  BY ConstantFacts
<1>2. \A n \in 1 .. SeqLimit : (n - 1) % SeqLimit = n - 1
  BY <1>1
<1> QED
  BY <1>1, <1>2 DEF Wrap

\* The requests of the client.
LEMMA RequestsFly ==
  ASSUME SInv, SInv', FInv, NumbersApart',
         \/ StartBind \/ StartEnquiry
         \/ \E m \in Messages : HandleOutbound(m) \/ SegmentAccepted(m)
  PROVE  FInv'
<1>0. /\ seqno \in Nat /\ first \in [Requesters -> 0 .. SeqLimit] /\ cur \in [Messages -> Nat]
      /\ PduQueueInv'
  BY ConstantFacts DEF SInv, RequestTypeInv
<1>1. ASSUME NEW t \in {Bind, Enquiry}, step[t] \in {"idle", "resumed"},
             first' = [first EXCEPT ![t] = seqno'], seqno' = Wrap(seqno + 1),
             SendRequest(t, t, seqno'), UNCHANGED <<cur, reply, writer, readVars, fwdq, smsc>>
      PROVE  FInv'
  <2>1. t \in Requesters /\ t \notin Messages
    BY ConstantFacts
  <2>2. seqno' \in 1 .. SeqLimit
    BY <1>0, <1>1, WrapFacts
  <2>3. first'[t] = seqno' /\ \A u \in Requesters \ {t} : first'[u] = first[u]
    BY <1>0, <1>1, <2>1
  <2>4. RequestOf(t)' = t /\ NumberOf(t)' = seqno' /\ Reserved(t)' = {seqno'}
    BY <2>1, <2>3 DEF RequestOf, NumberOf, Reserved
  <2> QED
    BY <1>0, <1>1, <2>1, <2>2, <2>3, <2>4, SendFlies
<1>2. CASE StartBind
  BY <1>1, <1>2 DEF StartBind
<1>3. CASE StartEnquiry
  BY <1>1, <1>3 DEF StartEnquiry
<1>4. ASSUME NEW m \in Messages, step[m] \in {"idle", "resumed"},
             first'[m] \in 1 .. SeqLimit, cur'[m] \in 1 .. Segments[m],
             \A u \in Requesters \ {m} : first'[u] = first[u],
             \A u \in Messages \ {m} : cur'[u] = cur[u],
             SendRequest(m, <<m, cur'[m]>>, NumberOf(m)'),
             UNCHANGED <<reply, writer, readVars, fwdq, smsc>>
      PROVE  FInv'
  <2>1. m \in Requesters /\ Segments[m] \in Nat /\ SeqLimit \in Nat
    BY ConstantFacts, SegmentFacts
  <2>2. cur'[m] \in Nat \ {0} /\ cur'[m] <= Segments[m] /\ first'[m] \in Nat
    BY <1>4, <2>1
  <2>3. <<m, cur'[m]>> \in SegmentIds
    BY <2>2, SegmentFacts
  <2>4. first'[m] + cur'[m] - 1 \in Int /\ cur'[m] \in cur'[m] .. Segments[m]
    BY <2>1, <2>2
  <2>5. NumberOf(m)' \in 1 .. SeqLimit
    BY <2>4, WrapFacts DEF NumberOf
  <2>6. NumberOf(m)' \in Reserved(m)'
    BY <2>4 DEF NumberOf, Reserved
  <2>7. RequestOf(m)' = <<m, cur'[m]>>
    BY DEF RequestOf
  <2> QED
    BY <1>0, <1>4, <2>1, <2>3, <2>5, <2>6, <2>7, SendFlies
<1>5. ASSUME NEW m \in Messages, HandleOutbound(m)
      PROVE  FInv'
  <2> DEFINE extra == IF Segments[m] > 1 THEN 1 ELSE 0
  <2>1. extra \in Nat /\ Segments[m] \in Nat \ {0} /\ m \in Requesters
    BY SegmentFacts, ConstantFacts
  <2>2. /\ step[m] = "idle"
        /\ first' = [first EXCEPT ![m] = Wrap(seqno + extra + 1)]
        /\ cur' = [cur EXCEPT ![m] = 1]
        /\ SendRequest(m, <<m, 1>>, first'[m])
        /\ UNCHANGED <<reply, writer, readVars, fwdq, smsc>>
    BY <1>5 DEF HandleOutbound
  <2> HIDE DEF extra
  <2>3. Wrap(seqno + extra + 1) \in 1 .. SeqLimit
    BY <1>0, <2>1, WrapFacts
  <2>4. /\ first'[m] \in 1 .. SeqLimit /\ \A u \in Requesters \ {m} : first'[u] = first[u]
        /\ cur'[m] = 1 /\ \A u \in Messages \ {m} : cur'[u] = cur[u]
    BY <1>0, <2>1, <2>2, <2>3
  <2>5. 1 \in 1 .. Segments[m]
    BY <2>1
  <2>6. NumberOf(m)' = first'[m]
    <3>1. first'[m] + 1 - 1 = first'[m]
      BY <2>4, ConstantFacts
    <3> QED
      BY <2>4, <3>1, NoWrap DEF NumberOf
  <2> QED
    BY <1>4, <2>2, <2>4, <2>5, <2>6
<1>6. ASSUME NEW m \in Messages, SegmentAccepted(m)
      PROVE  FInv'
  <2>1. /\ step[m] = "resumed" /\ cur[m] < Segments[m]
        /\ cur' = [cur EXCEPT ![m] = @ + 1]
        /\ SendRequest(m, <<m, cur'[m]>>, Wrap(first[m] + cur[m]))
        /\ UNCHANGED <<first, reply, writer, readVars, fwdq, smsc>>
    BY <1>6 DEF SegmentAccepted
  <2>2. /\ m \in Requesters /\ Segments[m] \in Nat /\ cur[m] \in Nat /\ first[m] \in Nat
        /\ first[m] \in 1 .. SeqLimit
    BY <1>0, <2>1, SegmentFacts, ConstantFacts DEF FInv, StartedInv
  <2>3. cur'[m] = cur[m] + 1 /\ \A u \in Messages \ {m} : cur'[u] = cur[u]
    BY <1>0, <2>1
  <2>4. cur'[m] \in 1 .. Segments[m] /\ first[m] + cur'[m] - 1 = first[m] + cur[m]
    BY <2>1, <2>2, <2>3
  <2>5. NumberOf(m)' = Wrap(first[m] + cur[m])
    BY <2>1, <2>4 DEF NumberOf
  <2> QED
    BY <1>4, <2>1, <2>2, <2>3, <2>4, <2>5
<1> QED
  BY <1>2, <1>3, <1>5, <1>6

\* The steps of the requesters that send no request.
LEMMA RequestersQuiet ==
  ASSUME SInv, SInv', FInv,
         \/ FinishSetup \/ BindAccepted \/ EnquiryAnswered
         \/ \E m \in Messages : WrongResponse(m) \/ MessageAccepted(m) \/ MessageRefused(m)
  PROVE  StartedInv' /\ RequestQueueInv' /\ TableInv' /\ FlightInv' /\ ReplyInv'
<1>1. /\ UNCHANGED <<responses, first, cur, reply, pduq, writer, readVars, smsc>>
      /\ \E t \in Requesters : \E new \in {"idle", "bound", "reporting", "ended", "failed"} :
           step[t] \in {"resumed", "bound"} /\ step' = [step EXCEPT ![t] = new]
  <2>1. CASE FinishSetup \/ BindAccepted \/ EnquiryAnswered
    BY <2>1, ConstantFacts DEF FinishSetup, BindAccepted, EnquiryAnswered
  <2>2. ASSUME NEW m \in Messages, WrongResponse(m) \/ MessageAccepted(m) \/ MessageRefused(m)
        PROVE  /\ UNCHANGED <<responses, first, cur, reply, pduq, writer, readVars, smsc>>
               /\ \E t \in Requesters : \E new \in {"idle", "bound", "reporting", "ended", "failed"} :
                    step[t] \in {"resumed", "bound"} /\ step' = [step EXCEPT ![t] = new]
    <3>1. m \in Requesters
      BY ConstantFacts
    <3> QED
      BY <2>2, <3>1 DEF WrongResponse, MessageAccepted, MessageRefused
  <2> QED
    BY <2>1, <2>2
<1>2. Quiet
  BY <1>1 DEF Quiet, SInv, RequestTypeInv
<1> QED
  BY <1>1, <1>2, QuietKeeps DEF NoResponseComes, readVars, SInv

\* The steps of the reader and the forwarder, but for the responses.
LEMMA ReaderQuiet ==
  ASSUME SInv, SInv', FInv,
         \/ ReaderGoesOn \/ ReadReport \/ ReadInbound \/ ReaderAnswers
         \/ ForwarderTakes \/ ForwarderPublishes
  PROVE  StartedInv' /\ RequestQueueInv' /\ TableInv' /\ FlightInv' /\ ReplyInv'
<1>0. PduQueueInv'
  BY DEF SInv
<1>1. ASSUME NEW about \in Received
      PROVE  Answer(about) => \E p \in Pdus : OfferPdu(Reader, p)
  BY PduFacts DEF Answer
<1>2. ASSUME NEW type \in {"report", "deliver", "enquire_link", "unknown", "unbind"}, Reads(type)
      PROVE  Kind(Head(down)) \in Received
  BY <1>2, ReadsFacts, DownFacts
<1>3. CASE ReaderGoesOn \/ ForwarderPublishes
  <2>1. Quiet /\ NoResponseComes /\ UNCHANGED <<writer, pduq, smsc>>
    BY <1>3 DEF ReaderGoesOn, ForwarderPublishes, requestVars, readVars, Quiet, NoResponseComes
  <2> QED
    BY <1>0, <2>1, QuietKeeps
<1>4. CASE ReadReport \/ ReadInbound \/ ReaderAnswers
  <2>1. /\ \E type \in {"report", "deliver", "enquire_link", "unknown", "unbind"} : Reads(type)
        /\ down' = Tail(down) /\ UNCHANGED <<requestVars, writer, smsc>>
    BY <1>4 DEF ReadReport, ReadInbound, ReaderAnswers, ReadPart, ReadEnquiry,
         ReadUnknownRequest, ReadUnbind
  <2>2. Quiet /\ NoResponseComes
    BY <2>1 DEF Quiet, NoResponseComes, requestVars, Reads
  <2>3. Kind(Head(down)) \in Received
    BY <1>2, <2>1
  <2>4. UNCHANGED pduq \/ \E p \in Pdus : OfferPdu(Reader, p)
    <3>1. CASE ReadReport
      BY <1>1, <2>3, <3>1 DEF ReadReport
    <3>2. CASE ReadInbound
      BY <3>2 DEF ReadInbound
    <3>3. CASE ReaderAnswers
      BY <1>1, <2>3, <3>3, PduFacts
         DEF ReaderAnswers, ReadPart, ReadEnquiry, ReadUnknownRequest, ReadUnbind
    <3> QED
      BY <1>4, <3>1, <3>2, <3>3
  <2> QED
    BY <1>0, <2>1, <2>2, <2>4, QuietKeeps
<1>5. CASE ForwarderTakes
  <2> DEFINE q == fwdq[1]
  <2>1. /\ q \in ItemOffers /\ 1 \in DOMAIN fwdq /\ q = Head(fwdq)
        /\ IF q.task = Reader THEN Answer(reader.about) /\ UNCHANGED step
           ELSE step' = [step EXCEPT ![q.task] = "ended"] /\ UNCHANGED <<reader, pduq>>
        /\ UNCHANGED <<responses, first, cur, reply, writer, down, smsc>>
    <3>1. fwdq \in Seq(ItemOffers) /\ fwdq # << >>
      BY <1>5 DEF SInv, ChannelTypeInv, ForwarderTakes
    <3>2. q \in ItemOffers /\ 1 \in DOMAIN fwdq /\ q = Head(fwdq)
      BY <3>1, TailFacts
    <3> HIDE DEF q
    <3> QED
      BY <1>5, <3>2 DEF ForwarderTakes
  <2>2. q.task # Reader => q.task \in Requesters /\ step[q.task] = "reporting"
    BY <2>1, ItemFacts, ConstantFacts DEF FInv, OutcomeQueueInv
  <2>3. q.task = Reader => reader.about \in Received
    BY <2>1 DEF SInv, ItemQueueInv, ChannelTypeInv, Readers
  <2> HIDE DEF q
  <2>4. Quiet
    BY <2>1, <2>2 DEF Quiet, SInv, RequestTypeInv
  <2>5. UNCHANGED pduq \/ \E p \in Pdus : OfferPdu(Reader, p)
    BY <1>1, <2>1, <2>3
  <2>6. NoResponseComes
    BY <2>1 DEF NoResponseComes
  <2> QED
    BY <1>0, <2>1, <2>4, <2>5, <2>6, QuietKeeps
<1> QED
  BY <1>3, <1>4, <1>5

\* What the SMSC does of its own accord.
Verdicts == <<smsc.todo, smsc.accepted, smsc.refused>>

\* What the SMSC does on its own is no response, and decides no request.
LEMMA InitiatesFacts ==
  ASSUME SInv, SmscInitiates
  PROVE  NoResponseComes /\ UNCHANGED Verdicts
<1> USE DEF Verdicts
<1>1. ASSUME NEW s \in SegmentIds, NEW how \in {"pending", "final"}, SmscReports(s, how)
      PROVE  NoResponseComes /\ UNCHANGED Verdicts
  <2>1. [type |-> "report", about |-> s, seq |-> 0, status |-> how] \in Down
    BY DEF Down, Reports
  <2>2. /\ down' = Append(down, [type |-> "report", about |-> s, seq |-> 0, status |-> how])
        /\ smsc' = [smsc EXCEPT !.reported = @ \cup {<<s, how>>}]
    BY <1>1 DEF SmscReports, Sends
  <2> QED
    BY <2>1, <2>2 DEF NoResponseComes, IsResponse, SInv, SmscTypeInv
<1>2. ASSUME NEW p \in PartIds, SmscDelivers(p)
      PROVE  NoResponseComes /\ UNCHANGED Verdicts
  <2>1. [type |-> "deliver", about |-> p, seq |-> 0, status |-> "new"] \in Down
    BY DEF Down, Deliveries
  <2> QED
    BY <1>2, <2>1 DEF NoResponseComes, IsResponse, SmscDelivers, Sends, SInv, SmscTypeInv
<1>3. ASSUME NEW type \in {"enquire_link", "unknown"}, SmscEnquires(type)
      PROVE  NoResponseComes /\ UNCHANGED Verdicts
  <2>1. [type |-> type, about |-> Enquiry, seq |-> 0, status |-> "new"] \in Down
    BY DEF Down, Others
  <2> QED
    BY <1>3, <2>1 DEF NoResponseComes, IsResponse, SmscEnquires, Sends
<1>4. CASE SmscUnbinds
  <2>1. [type |-> "unbind", about |-> Bind, seq |-> 0, status |-> "new"] \in Down
    BY DEF Down, Others
  <2> QED
    BY <1>4, <2>1 DEF NoResponseComes, IsResponse, SmscUnbinds, Sends, SInv, SmscTypeInv
<1>5. CASE SmscStalls
  BY <1>5 DEF NoResponseComes, SmscStalls, readVars, SInv, SmscTypeInv
<1>6. CASE SmscStrays
  <2>1. [type |-> "response", about |-> None, seq |-> 0, status |-> "generic_nack"] \in Down
    BY DEF Down, Strays
  <2> QED
    BY <1>6, <2>1 DEF NoResponseComes, IsResponse, SmscStrays, Sends
<1> QED
  BY <1>1, <1>2, <1>3, <1>4, <1>5, <1>6 DEF SmscInitiates

\* So it keeps what is known of the requests.
LEMMA SmscQuiet ==
  ASSUME SInv, SInv', FInv, SmscInitiates
  PROVE  StartedInv' /\ RequestQueueInv' /\ TableInv' /\ FlightInv' /\ ReplyInv'
<1>1. UNCHANGED <<requestVars, pduq, writer>>
  BY DEF SmscInitiates, SmscReports, SmscDelivers, SmscEnquires, SmscUnbinds, SmscStalls,
         SmscStrays, Sends
<1>2. NoResponseComes /\ smsc'.todo = smsc.todo
  BY InitiatesFacts DEF Verdicts
<1>3. Quiet
  BY <1>1 DEF Quiet, requestVars
<1> QED
  BY <1>1, <1>2, <1>3, QuietKeeps DEF SInv

\* The steps that leave the forwarder's channel, or let the reader into it.
LEMMA ForwardersQuiet ==
  ASSUME SInv, SInv', FInv,
         \/ FinishSetup \/ BindAccepted \/ EnquiryAnswered
         \/ \E m \in Messages : WrongResponse(m)
         \/ WriterTakes \/ WriterWrites
         \/ ReadResponse \/ ReaderGoesOn \/ ReadReport \/ ReadInbound \/ ReaderAnswers
         \/ ForwarderPublishes
         \/ SmscInitiates \/ SmscAnswers
  PROVE  OutcomeQueueInv'
<1>1. /\ ItemQueueInv' /\ step \in [Requesters -> Steps] /\ Messages \subseteq Requesters
      /\ responses \in [1 .. SeqLimit -> Requesters \cup {None}]
  BY ConstantFacts DEF SInv, RequestTypeInv
<1>2. UNCHANGED fwdq \/ \E x \in Items : OfferItem(Reader, x)
  <2>1. CASE ReadReport
    <3>1. Reads("report") /\ ids \in [SegmentIds -> Messages \cup {None}]
      BY <2>1 DEF ReadReport, SInv, RequestTypeInv
    <3>2. Head(down).about \in SegmentIds /\ Head(down).status \in {"pending", "final"}
      BY <3>1, ReadsFacts, DownFacts
    <3>3. ids[Head(down).about] # None =>
            [type |-> Head(down).status, about |-> ids[Head(down).about]] \in Items
      BY <3>1, <3>2, ItemFacts
    <3> QED
      BY <2>1, <3>3 DEF ReadReport, Forward
  <2>2. CASE ReadInbound
    <3>1. Reads("deliver")
      BY <2>2 DEF ReadInbound
    <3>2. Head(down).about[1] \in Inbounds
      BY <3>1, ReadsFacts, DownFacts, PartFacts
    <3> QED
      BY <2>2, <3>2, ItemFacts DEF ReadInbound, Forward
  <2>3. CASE ~(ReadReport \/ ReadInbound)
    BY <2>3 DEF FinishSetup, BindAccepted, EnquiryAnswered, WrongResponse, WriterTakes,
         WriterWrites, ReadResponse, ReaderGoesOn, ReaderAnswers, ReadPart, ReadEnquiry,
         ReadUnknownRequest, ReadUnbind, ForwarderPublishes, SmscInitiates, SmscAnswers,
         SmscAccepts, SmscRefuses, SmscReports, SmscDelivers, SmscEnquires, SmscUnbinds,
         SmscStalls, SmscStrays, Sends
  <2> QED
    BY <2>1, <2>2, <2>3
<1>3. \A m \in Messages : step[m] = "reporting" => step'[m] = "reporting"
  <2>1. CASE WriterTakes
    <3>1. pduq \in Seq(PduOffers) /\ pduq # << >>
      BY <2>1 DEF WriterTakes, SInv, ChannelTypeInv
    <3>2. Head(pduq) = pduq[1] /\ 1 \in DOMAIN pduq
      BY <3>1, TailFacts
    <3>3. Head(pduq).task # Reader => step[Head(pduq).task] = "offering"
      BY <3>2 DEF FInv, RequestQueueInv
    <3>4. \/ UNCHANGED step
          \/ Head(pduq).task # Reader /\ step' = [step EXCEPT ![Head(pduq).task] = "waiting"]
      BY <2>1 DEF WriterTakes
    <3> QED
      BY <1>1, <3>3, <3>4
  <2>2. CASE ReadResponse
    <3> DEFINE n == Head(down).seq
    <3>1. /\ n \in DOMAIN responses /\ responses[n] # None
          /\ step' = [step EXCEPT ![responses[n]] = "resumed"]
      BY <2>2 DEF ReadResponse, Known
    <3>2. step[responses[n]] # "reporting"
      BY <1>1, <3>1 DEF FInv, TableInv, Awaiting
    <3> QED
      BY <1>1, <3>1, <3>2
  <2>3. CASE FinishSetup \/ BindAccepted \/ EnquiryAnswered
    BY <1>1, <2>3, ConstantFacts DEF FinishSetup, BindAccepted, EnquiryAnswered
  <2>4. CASE \E m \in Messages : WrongResponse(m)
    BY <1>1, <2>4 DEF WrongResponse
  <2>5. CASE ~( \/ WriterTakes \/ ReadResponse \/ FinishSetup \/ BindAccepted \/ EnquiryAnswered
                \/ \E m \in Messages : WrongResponse(m))
    <3>1. UNCHANGED step
      BY <2>5 DEF WriterWrites, ReaderGoesOn, ReadReport, ReadInbound, ReaderAnswers, ReadPart,
           ReadEnquiry, ReadUnknownRequest, ReadUnbind, ForwarderPublishes, SmscInitiates,
           SmscAnswers, SmscAccepts, SmscRefuses, SmscReports, SmscDelivers, SmscEnquires,
           SmscUnbinds, SmscStalls, SmscStrays, Sends, requestVars
    <3> QED
      BY <3>1
  <2> QED
    BY <2>1, <2>2, <2>3, <2>4, <2>5
<1> QED
  BY <1>1, <1>2, <1>3, OutcomesKept

\* A handler has its outcome told; the forwarder takes one.
LEMMA OutcomesFly ==
  ASSUME SInv, SInv', FInv,
         \/ \E m \in Messages : MessageAccepted(m) \/ MessageRefused(m)
         \/ ForwarderTakes
  PROVE  OutcomeQueueInv'
<1>1. /\ fwdq \in Seq(ItemOffers) /\ step \in [Requesters -> Steps] /\ Messages \subseteq Requesters
      /\ Reader \notin Requesters
  BY ConstantFacts DEF SInv, ChannelTypeInv, RequestTypeInv
<1>2. \A i \in DOMAIN fwdq : fwdq[i].task \in Messages \cup {Reader}
  BY <1>1, ElementFacts, ItemFacts
<1>3. ASSUME NEW m \in Messages, MessageAccepted(m) \/ MessageRefused(m)
      PROVE  OutcomeQueueInv'
  <2>1. PICK type \in {"ack", "nack"} : OfferItem(m, [type |-> type, about |-> m])
    BY <1>3 DEF MessageAccepted, MessageRefused
  <2>2. step[m] = "resumed" /\ step' = [step EXCEPT ![m] = "reporting"]
    BY <1>3 DEF MessageAccepted, MessageRefused
  <2>3. step'[m] = "reporting" /\ \A u \in Messages \ {m} : step'[u] = step[u]
    BY <1>1, <2>2
  <2> DEFINE q == [task |-> m, item |-> [type |-> type, about |-> m]]
  <2>4. q \in ItemOffers /\ q.task = m /\ fwdq' = Append(fwdq, q)
    BY <2>1, ItemFacts DEF OfferItem
  <2> HIDE DEF q
  <2>5. ASSUME NEW i \in DOMAIN fwdq'
        PROVE  \/ i \in DOMAIN fwdq /\ fwdq'[i] = fwdq[i] /\ fwdq[i].task # m
               \/ i = Len(fwdq) + 1 /\ fwdq'[i] = q
    <3>1. \/ i \in DOMAIN fwdq /\ fwdq'[i] = fwdq[i]
          \/ i = Len(fwdq) + 1 /\ fwdq'[i] = q
      BY <1>1, <2>4, AppendFacts
    <3>2. i \in DOMAIN fwdq => fwdq[i].task # m
      BY <1>1, <2>2 DEF FInv, OutcomeQueueInv
    <3> QED
      BY <3>1, <3>2
  <2>6. \A i, j \in DOMAIN fwdq' : fwdq'[i].task = fwdq'[j].task => i = j
    BY <2>4, <2>5 DEF FInv, OutcomeQueueInv
  <2>7. \A i \in DOMAIN fwdq' : fwdq'[i].task # Reader => step'[fwdq'[i].task] = "reporting"
    BY <1>2, <2>3, <2>4, <2>5 DEF FInv, OutcomeQueueInv
  <2> QED
    BY <2>6, <2>7 DEF OutcomeQueueInv
<1>4. CASE ForwarderTakes
  <2> DEFINE q == fwdq[1]
  <2>1. /\ fwdq # << >> /\ fwdq' = Tail(fwdq) /\ q = Head(fwdq)
        /\ IF q.task = Reader THEN UNCHANGED step ELSE step' = [step EXCEPT ![q.task] = "ended"]
    <3>1. fwdq # << >> /\ q = Head(fwdq)
      BY <1>1, <1>4, TailFacts DEF ForwarderTakes
    <3> HIDE DEF q
    <3> QED
      BY <1>4, <3>1 DEF ForwarderTakes
  <2>2. ASSUME NEW i \in DOMAIN fwdq'
        PROVE  /\ i \in Nat /\ i + 1 \in DOMAIN fwdq /\ fwdq'[i] = fwdq[i + 1]
               /\ fwdq'[i].task # q.task
    <3>1. i \in Nat /\ i + 1 \in DOMAIN fwdq /\ fwdq'[i] = fwdq[i + 1] /\ 1 \in DOMAIN fwdq
          /\ i + 1 # 1
      BY <1>1, <2>1, TailFacts
    <3> QED
      BY <3>1 DEF FInv, OutcomeQueueInv
  <2> HIDE DEF q
  <2>3. \A i, j \in DOMAIN fwdq' : fwdq'[i].task = fwdq'[j].task => i = j
    BY <2>2 DEF FInv, OutcomeQueueInv
  <2>4. ASSUME NEW i \in DOMAIN fwdq', fwdq'[i].task # Reader
        PROVE  step'[fwdq'[i].task] = "reporting"
    <3>1. fwdq'[i].task \in Messages /\ step[fwdq'[i].task] = "reporting"
      BY <1>2, <2>2, <2>4 DEF FInv, OutcomeQueueInv
    <3> QED
      BY <1>1, <2>1, <2>2, <3>1
  <2> QED
    BY <2>3, <2>4 DEF OutcomeQueueInv
<1> QED
  BY <1>3, <1>4

\* The writer takes the request of a task that then waits.
LEMMA WriterTakesFlies ==
  ASSUME SInv, SInv', FInv, WriterTakes
  PROVE  FInv'
<1> DEFINE q == pduq[1]
           t == q.task
<1>1. /\ pduq \in Seq(PduOffers) /\ pduq # << >> /\ Head(pduq) = q /\ q \in PduOffers
      /\ 1 \in DOMAIN pduq
  BY TailFacts DEF WriterTakes, SInv, ChannelTypeInv
<1>2. t \in Requesters \cup {Reader} /\ q.pdu \in Pdus
  BY <1>1, PduFacts
<1>3. /\ writer = None /\ writer' = q.pdu /\ pduq' = Tail(pduq)
      /\ IF t = Reader THEN UNCHANGED step ELSE step' = [step EXCEPT ![t] = "waiting"]
      /\ UNCHANGED <<responses, first, cur, reply, down, smsc>>
  BY <1>1 DEF WriterTakes
<1>4. IF t = Reader THEN q.pdu.type = "answer"
      ELSE step[t] = "offering" /\ q.pdu = RequestPdu(t) /\ t \in Requesters
  BY <1>1, <1>2 DEF SInv, PduQueueInv, FInv, RequestQueueInv
<1>5. ASSUME NEW i \in DOMAIN pduq'
      PROVE  /\ i \in Nat /\ i + 1 \in DOMAIN pduq /\ pduq'[i] = pduq[i + 1]
             /\ pduq'[i].task # t /\ pduq'[i].task \in Requesters \cup {Reader}
  <2>1. i \in Nat /\ i + 1 \in DOMAIN pduq /\ pduq'[i] = pduq[i + 1] /\ i + 1 # 1
    BY <1>1, <1>3, TailFacts
  <2> QED
    BY <1>1, <2>1, ElementFacts, PduFacts DEF FInv, RequestQueueInv
<1> HIDE DEF q, t
<1>6. ASSUME NEW u \in Requesters
      PROVE  /\ step'[u] = IF u = t THEN "waiting" ELSE step[u]
             /\ Awaiting(u)' <=> Awaiting(u)
             /\ RequestOf(u)' = RequestOf(u) /\ NumberOf(u)' = NumberOf(u)
             /\ RequestPdu(u)' = RequestPdu(u) /\ Answered(u)' = Answered(u)
  <2>1. step'[u] = IF u = t THEN "waiting" ELSE step[u]
    BY <1>3, <1>4, ConstantFacts DEF SInv, RequestTypeInv
  <2>2. RequestOf(u)' = RequestOf(u) /\ NumberOf(u)' = NumberOf(u) /\ RequestPdu(u)' = RequestPdu(u)
    BY <1>3, SameRequest
  <2>3. Answered(u)' = Answered(u)
    BY <1>3, <2>2 DEF Answered, IsResponse
  <2> QED
    BY <1>4, <2>1, <2>2, <2>3, ConstantFacts DEF Awaiting
<1>7. StartedInv' /\ ReplyInv'
  <2>1. StartedInv'
    BY <1>3, <1>4, <1>6, ConstantFacts DEF FInv, StartedInv
  <2>2. ReplyInv'
    BY <1>3, <1>6 DEF FInv, ReplyInv
  <2> QED
    BY <2>1, <2>2
<1>8. TableInv'
  <2>1. \A u \in Requesters : Awaiting(u)' => responses'[NumberOf(u)'] = u
    BY <1>3, <1>6 DEF FInv, TableInv
  <2>2. ASSUME NEW n \in 1 .. SeqLimit, responses'[n] # None
        PROVE  Awaiting(responses[n])' /\ NumberOf(responses[n])' = n
    <3>1. responses[n] \in Requesters /\ UNCHANGED responses
      BY <1>3, <2>2 DEF SInv, RequestTypeInv
    <3>2. Awaiting(responses[n]) /\ NumberOf(responses[n]) = n
      BY <2>2, <3>1 DEF FInv, TableInv
    <3> QED
      BY <1>6, <3>1, <3>2
  <2> QED
    BY <2>1, <2>2 DEF TableInv
<1>9. OutcomeQueueInv'
  BY ForwardersQuiet
<1>10. RequestQueueInv'
  <2>1. \A i, j \in DOMAIN pduq' : pduq'[i].task = pduq'[j].task => i = j
    BY <1>5 DEF FInv, RequestQueueInv
  <2>2. ASSUME NEW i \in DOMAIN pduq', pduq'[i].task # Reader
        PROVE  step'[pduq'[i].task] = "offering" /\ pduq'[i].pdu = RequestPdu(pduq[i].task)'
    <3> DEFINE u == pduq'[i].task
    <3>1. u \in Requesters /\ u # t
      BY <1>5, <2>2
    <3>2. step[u] = "offering" /\ pduq'[i].pdu = RequestPdu(u)
      BY <1>5, <2>2 DEF FInv, RequestQueueInv
    <3> QED
      BY <1>3, <1>6, <3>1, <3>2, SameRequest DEF RequestPdu, RequestOf, NumberOf
  <2> QED
    BY <2>1, <2>2 DEF RequestQueueInv
<1>11. FlightInv'
  <2>1. ASSUME writer'.type = "request"
        PROVE  \E u \in Requesters : step'[u] = "waiting" /\ writer' = RequestPdu(u)'
                                     /\ writer' \notin smsc'.todo /\ ~Answered(u)'
    <3>1. t \in Requesters /\ step[t] = "offering" /\ writer' = RequestPdu(t)
      BY <1>3, <1>4, <2>1
    <3>2. ASSUME NEW u \in Requesters, step[u] = "waiting"
          PROVE  RequestOf(u) # RequestOf(t)
      BY <3>1, <3>2, RequestFacts DEF FInv
    <3>3. writer' \notin smsc.todo
      <4>1. \A u \in Requesters : step[u] = "waiting" => RequestPdu(u) # RequestPdu(t)
        BY <3>2 DEF RequestPdu
      <4> QED
        BY <3>1, <4>1 DEF FInv, FlightInv
    <3>4. ~Answered(t)
      BY <3>2 DEF Answered, FInv, FlightInv
    <3> QED
      BY <1>3, <1>6, <3>1, <3>3, <3>4
  <2>2. ASSUME NEW p \in smsc'.todo
        PROVE  \E u \in Requesters : step'[u] = "waiting" /\ p = RequestPdu(u)' /\ ~Answered(u)'
    <3>1. PICK u \in Requesters : step[u] = "waiting" /\ p = RequestPdu(u) /\ ~Answered(u)
      BY <1>3, <2>2 DEF FInv, FlightInv
    <3> QED
      BY <1>6, <3>1
  <2>3. ASSUME NEW i \in DOMAIN down', IsResponse(down[i])'
        PROVE  \E u \in Requesters : step'[u] = "waiting" /\ down'[i].about = RequestOf(u)'
                                     /\ down'[i].seq = NumberOf(u)'
    <3>1. i \in DOMAIN down /\ IsResponse(down[i]) /\ down' = down
      BY <1>3, <2>3 DEF IsResponse
    <3>2. PICK u \in Requesters : step[u] = "waiting" /\ down[i].about = RequestOf(u)
                                    /\ down[i].seq = NumberOf(u)
      BY <3>1 DEF FInv, FlightInv
    <3> QED
      BY <1>6, <3>1, <3>2
  <2>4. \A i, j \in DOMAIN down' :
          IsResponse(down[i])' /\ IsResponse(down[j])' /\ down'[i].about = down'[j].about => i = j
    BY <1>3 DEF FInv, FlightInv, IsResponse
  <2> QED
    BY <2>1, <2>2, <2>3, <2>4 DEF FlightInv, IsResponse
<1> QED
  BY <1>7, <1>8, <1>9, <1>10, <1>11 DEF FInv

\* The SMSC gets it.
LEMMA WriterWritesFlies ==
  ASSUME SInv, SInv', FInv, WriterWrites
  PROVE  FInv'
<1>1. /\ writer # None /\ writer' = None /\ writer \in Pdus
      /\ smsc' = IF writer.type = "request" THEN [smsc EXCEPT !.todo = @ \cup {writer}]
                 ELSE [smsc EXCEPT !.answers = @ \cup {writer.about}]
      /\ UNCHANGED <<responses, step, first, cur, reply, pduq, down>>
  BY DEF WriterWrites, requestVars, readVars, SInv, ChannelTypeInv
<1>2. smsc'.todo = IF writer.type = "request" THEN smsc.todo \cup {writer} ELSE smsc.todo
  BY <1>1 DEF SInv, SmscTypeInv
<1>3. ASSUME NEW u \in Requesters
      PROVE  /\ RequestOf(u)' = RequestOf(u) /\ NumberOf(u)' = NumberOf(u)
             /\ RequestPdu(u)' = RequestPdu(u) /\ Answered(u)' = Answered(u)
  <2>1. RequestOf(u)' = RequestOf(u) /\ NumberOf(u)' = NumberOf(u) /\ RequestPdu(u)' = RequestPdu(u)
    BY <1>1, SameRequest
  <2> QED
    BY <1>1, <2>1 DEF Answered, IsResponse
<1>4. StartedInv' /\ ReplyInv'
  <2>1. StartedInv'
    BY <1>1 DEF FInv, StartedInv
  <2>2. ReplyInv'
    BY <1>1, <1>3 DEF FInv, ReplyInv
  <2> QED
    BY <2>1, <2>2
<1>5. RequestQueueInv' /\ TableInv'
  BY <1>1 DEF FInv, RequestQueueInv, TableInv, RequestPdu, RequestOf, NumberOf, Awaiting
<1>6. FlightInv'
  <2>1. ASSUME NEW p \in smsc'.todo
        PROVE  \E u \in Requesters : step'[u] = "waiting" /\ p = RequestPdu(u)' /\ ~Answered(u)'
    <3>1. PICK u \in Requesters : step[u] = "waiting" /\ p = RequestPdu(u) /\ ~Answered(u)
      BY <1>1, <1>2, <2>1 DEF FInv, FlightInv
    <3> QED
      BY <1>1, <1>3, <3>1
  <2>2. ASSUME NEW i \in DOMAIN down', IsResponse(down[i])'
        PROVE  \E u \in Requesters : step'[u] = "waiting" /\ down'[i].about = RequestOf(u)'
                                     /\ down'[i].seq = NumberOf(u)'
    <3>1. i \in DOMAIN down /\ IsResponse(down[i]) /\ down' = down
      BY <1>1, <2>2 DEF IsResponse
    <3>2. PICK u \in Requesters : step[u] = "waiting" /\ down[i].about = RequestOf(u)
                                    /\ down[i].seq = NumberOf(u)
      BY <3>1 DEF FInv, FlightInv
    <3> QED
      BY <1>1, <1>3, <3>1, <3>2
  <2>3. \A i, j \in DOMAIN down' :
          IsResponse(down[i])' /\ IsResponse(down[j])' /\ down'[i].about = down'[j].about => i = j
    BY <1>1 DEF FInv, FlightInv, IsResponse
  <2> QED
    BY <1>1, <2>1, <2>2, <2>3 DEF FlightInv, IsResponse
<1>7. OutcomeQueueInv'
  BY ForwardersQuiet
<1> QED
  BY <1>4, <1>5, <1>6, <1>7 DEF FInv

\* The response at the head belongs to the task that the table names.
LEMMA ResponseOwner ==
  ASSUME SInv, FInv, ReadResponse
  PROVE  LET d == Head(down)
             t == responses[d.seq]
         IN  /\ d = down[1] /\ 1 \in DOMAIN down /\ d \in Responses /\ IsResponse(d)
             /\ t \in Requesters /\ step[t] = "waiting"
             /\ d.about = RequestOf(t) /\ d.seq = NumberOf(t)
<1> DEFINE d == Head(down)
           t == responses[d.seq]
<1>1. Reads("response") /\ Known(d.seq)
  BY DEF ReadResponse
<1>2. d = down[1] /\ 1 \in DOMAIN down /\ d \in Responses \cup Strays
  BY <1>1, ReadsFacts, DownFacts
<1>3. d.seq \in 1 .. SeqLimit /\ t \in Requesters
  BY <1>1 DEF Known, SInv, RequestTypeInv
<1>4. d \in Responses /\ IsResponse(d)
  <2>1. d \in Responses
    BY <1>2, <1>3 DEF Strays
  <2> QED
    BY <2>1, ConstantFacts DEF Responses, IsResponse
<1> HIDE DEF d
<1>5. PICK u \in Requesters : step[u] = "waiting" /\ d.about = RequestOf(u) /\ d.seq = NumberOf(u)
  BY <1>2, <1>4 DEF FInv, FlightInv
<1>6. responses[d.seq] = u
  BY <1>5 DEF FInv, TableInv, Awaiting
<1> QED
  BY <1>2, <1>3, <1>4, <1>5, <1>6 DEF d

\* The response at the head of the line goes to the task whose request it answers.
LEMMA ReadResponseFlies ==
  ASSUME SInv, SInv', FInv, ReadResponse
  PROVE  FInv'
<1> DEFINE d == Head(down)
           t == responses[d.seq]
<1>1. /\ d = down[1] /\ 1 \in DOMAIN down /\ d \in Responses /\ IsResponse(d)
      /\ t \in Requesters /\ step[t] = "waiting"
      /\ d.about = RequestOf(t) /\ d.seq = NumberOf(t)
  BY ResponseOwner
<1>2. /\ responses' = [responses EXCEPT ![d.seq] = None]
      /\ step' = [step EXCEPT ![t] = "resumed"]
      /\ reply' = [reply EXCEPT ![t] = d]
      /\ down' = Tail(down) /\ down # << >>
      /\ UNCHANGED <<first, cur, pduq, writer, fwdq, smsc>>
  BY DEF ReadResponse, Reads
<1> HIDE DEF d, t
<1>3. ASSUME NEW u \in Requesters
      PROVE  /\ step'[u] = IF u = t THEN "resumed" ELSE step[u]
             /\ reply'[u] = IF u = t THEN d ELSE reply[u]
             /\ RequestOf(u)' = RequestOf(u) /\ NumberOf(u)' = NumberOf(u)
             /\ RequestPdu(u)' = RequestPdu(u)
  <2>1. RequestOf(u)' = RequestOf(u) /\ NumberOf(u)' = NumberOf(u) /\ RequestPdu(u)' = RequestPdu(u)
    BY <1>2, SameRequest
  <2> QED
    BY <1>2, <2>1 DEF SInv, RequestTypeInv
<1>4. ASSUME NEW i \in DOMAIN down'
      PROVE  i \in Nat /\ i + 1 \in DOMAIN down /\ down'[i] = down[i + 1] /\ i + 1 # 1
  BY <1>2, TailFacts DEF SInv, SmscTypeInv
<1>5. ASSUME NEW u \in Requesters, Answered(u)'
      PROVE  Answered(u)
  <2>1. PICK i \in DOMAIN down' : IsResponse(down'[i]) /\ down'[i].about = RequestOf(u)
    BY <1>3, <1>5 DEF Answered, IsResponse
  <2> QED
    BY <1>4, <2>1 DEF Answered
<1>6. Answered(t)
  BY <1>1 DEF Answered
<1>7. StartedInv'
  BY <1>1, <1>2, <1>3, ConstantFacts DEF FInv, StartedInv
<1>8. ReplyInv'
  BY <1>1, <1>3 DEF FInv, ReplyInv
<1>9. OutcomeQueueInv'
  BY ForwardersQuiet
<1>10. RequestQueueInv'
  <2>1. \A i \in DOMAIN pduq : pduq[i].task \in Requesters \cup {Reader}
    BY ElementFacts, PduFacts DEF SInv, ChannelTypeInv
  <2>2. ASSUME NEW i \in DOMAIN pduq, pduq[i].task # Reader
        PROVE  step'[pduq[i].task] = "offering" /\ pduq[i].pdu = RequestPdu(pduq[i].task)'
    <3>1. step[pduq[i].task] = "offering" /\ pduq[i].pdu = RequestPdu(pduq[i].task)
      BY <2>2 DEF FInv, RequestQueueInv
    <3> QED
      BY <1>1, <1>2, <1>3, <2>1, <2>2, <3>1 DEF RequestPdu, RequestOf, NumberOf
  <2> QED
    BY <1>2, <2>2 DEF FInv, RequestQueueInv
<1>11. TableInv'
  <2>1. ASSUME NEW u \in Requesters, Awaiting(u)'
        PROVE  responses'[NumberOf(u)'] = u
    <3>1. u # t /\ Awaiting(u)
      BY <1>3, <2>1 DEF Awaiting
    <3>2. responses[NumberOf(u)] = u
      BY <3>1 DEF FInv, TableInv
    <3>3. NumberOf(u) # d.seq
      BY <3>1, <3>2 DEF t
    <3>4. responses'[NumberOf(u)] = responses[NumberOf(u)]
      <4>1. NumberOf(u) \in 1 .. SeqLimit
        BY <3>1, RequestFacts DEF FInv, Awaiting
      <4> QED
        BY <1>2, <3>3, <4>1 DEF SInv, RequestTypeInv
    <3> QED
      BY <1>3, <3>2, <3>4
  <2>2. ASSUME NEW n \in 1 .. SeqLimit, responses'[n] # None
        PROVE  Awaiting(responses[n])' /\ NumberOf(responses[n])' = n
    <3>1. n # d.seq /\ responses'[n] = responses[n]
      BY <1>2, <2>2 DEF SInv, RequestTypeInv
    <3>2. /\ responses[n] \in Requesters
          /\ Awaiting(responses[n]) /\ NumberOf(responses[n]) = n
      BY <2>2, <3>1 DEF SInv, RequestTypeInv, FInv, TableInv
    <3>3. responses[n] # t
      BY <1>1, <3>1, <3>2
    <3>4. step'[responses[n]] = step[responses[n]] /\ first' = first /\ cur' = cur
      BY <1>2, <1>3, <3>2, <3>3
    <3> QED
      BY <3>1, <3>2, <3>4 DEF Awaiting, NumberOf
  <2> QED
    BY <2>1, <2>2 DEF TableInv
<1>12. FlightInv'
  <2>1. ASSUME writer' # None, writer'.type = "request"
        PROVE  \E u \in Requesters : step'[u] = "waiting" /\ writer' = RequestPdu(u)'
                                     /\ writer' \notin smsc'.todo /\ ~Answered(u)'
    <3>1. PICK u \in Requesters : step[u] = "waiting" /\ writer = RequestPdu(u)
                                    /\ writer \notin smsc.todo /\ ~Answered(u)
      BY <1>2, <2>1 DEF FInv, FlightInv
    <3> QED
      BY <1>2, <1>3, <1>5, <1>6, <3>1
  <2>2. ASSUME NEW p \in smsc'.todo
        PROVE  \E u \in Requesters : step'[u] = "waiting" /\ p = RequestPdu(u)' /\ ~Answered(u)'
    <3>1. PICK u \in Requesters : step[u] = "waiting" /\ p = RequestPdu(u) /\ ~Answered(u)
      BY <1>2, <2>2 DEF FInv, FlightInv
    <3> QED
      BY <1>3, <1>5, <1>6, <3>1
  <2>3. ASSUME NEW i \in DOMAIN down', IsResponse(down[i])'
        PROVE  \E u \in Requesters : step'[u] = "waiting" /\ down'[i].about = RequestOf(u)'
                                     /\ down'[i].seq = NumberOf(u)'
    <3>1. IsResponse(down[i + 1]) /\ down'[i] = down[i + 1] /\ i + 1 \in DOMAIN down /\ i + 1 # 1
      BY <1>4, <2>3 DEF IsResponse
    <3>2. PICK u \in Requesters : step[u] = "waiting" /\ down[i + 1].about = RequestOf(u)
                                    /\ down[i + 1].seq = NumberOf(u)
      BY <3>1 DEF FInv, FlightInv
    <3>3. u # t
      BY <1>1, <3>1, <3>2 DEF FInv, FlightInv
    <3> QED
      BY <1>3, <3>1, <3>2, <3>3
  <2>4. ASSUME NEW i \in DOMAIN down', NEW j \in DOMAIN down',
               IsResponse(down[i])', IsResponse(down[j])', down'[i].about = down'[j].about
        PROVE  i = j
    <3>1. /\ IsResponse(down[i + 1]) /\ IsResponse(down[j + 1])
          /\ down[i + 1].about = down[j + 1].about
          /\ i + 1 \in DOMAIN down /\ j + 1 \in DOMAIN down /\ i \in Nat /\ j \in Nat
      BY <1>4, <2>4 DEF IsResponse
    <3>2. i + 1 = j + 1
      BY <3>1 DEF FInv, FlightInv
    <3> QED
      BY <3>1, <3>2
  <2> QED
    BY <2>1, <2>2, <2>3, <2>4 DEF FlightInv, IsResponse
<1> QED
  BY <1>7, <1>8, <1>9, <1>10, <1>11, <1>12 DEF FInv

\* The SMSC answers a request.
LEMMA AnswersFly ==
  ASSUME SInv, SInv', FInv, SmscAnswers
  PROVE  FInv'
<1>1. PICK pdu \in smsc.todo, how \in {"ok", "error", "generic_nack"} :
        /\ down' = Append(down, [type |-> "response", about |-> pdu.about, seq |-> pdu.seq,
                                 status |-> how])
        /\ smsc'.todo = smsc.todo \ {pdu}
  <2>1. ASSUME NEW pdu \in smsc.todo, SmscAccepts(pdu)
        PROVE  /\ down' = Append(down, [type |-> "response", about |-> pdu.about,
                                        seq |-> pdu.seq, status |-> "ok"])
               /\ smsc'.todo = smsc.todo \ {pdu}
    BY <2>1 DEF SmscAccepts, Sends, SInv, SmscTypeInv
  <2>2. ASSUME NEW pdu \in smsc.todo, NEW how \in Refusals, SmscRefuses(pdu, how)
        PROVE  /\ how \in {"error", "generic_nack"}
               /\ down' = Append(down, [type |-> "response", about |-> pdu.about,
                                        seq |-> pdu.seq, status |-> how])
               /\ smsc'.todo = smsc.todo \ {pdu}
    BY <2>2, SmppSessionAssumption DEF SmscRefuses, Sends, SInv, SmscTypeInv
  <2> QED
    BY <2>1, <2>2 DEF SmscAnswers
<1>2. UNCHANGED <<responses, step, first, cur, reply, pduq, writer>>
  BY DEF SmscAnswers, SmscAccepts, SmscRefuses, Sends, requestVars
<1>3. PICK t \in Requesters : step[t] = "waiting" /\ pdu = RequestPdu(t) /\ ~Answered(t)
  BY DEF FInv, FlightInv
<1> DEFINE d == [type |-> "response", about |-> pdu.about, seq |-> pdu.seq, status |-> how]
<1>4. d.type = "response" /\ d.about = RequestOf(t) /\ d.seq = NumberOf(t)
  BY <1>3 DEF RequestPdu
<1>5. IsResponse(d) /\ d \in Down /\ down' = Append(down, d)
  <2>1. RequestOf(t) \in SegmentIds \cup {Bind, Enquiry} /\ RequestOf(t) # None
        /\ NumberOf(t) \in 1 .. SeqLimit
    BY <1>3, RequestFacts DEF FInv
  <2> QED
    BY <1>1, <1>4, <2>1 DEF IsResponse, Down, Responses
<1> HIDE DEF d
<1>6. ASSUME NEW i \in DOMAIN down'
      PROVE  \/ i \in DOMAIN down /\ down'[i] = down[i]
             \/ i = Len(down) + 1 /\ down'[i] = d
  BY <1>5, AppendFacts DEF SInv, SmscTypeInv
<1>7. ASSUME NEW u \in Requesters
      PROVE  /\ RequestOf(u)' = RequestOf(u) /\ NumberOf(u)' = NumberOf(u)
             /\ RequestPdu(u)' = RequestPdu(u) /\ step'[u] = step[u]
  BY <1>2, SameRequest
<1>8. ASSUME NEW u \in Requesters, u # t, step[u] = "waiting", Answered(u)'
      PROVE  Answered(u)
  <2>1. PICK i \in DOMAIN down' : IsResponse(down'[i]) /\ down'[i].about = RequestOf(u)
    BY <1>7, <1>8 DEF Answered, IsResponse
  <2>2. down'[i] # d
    BY <1>3, <1>4, <1>8, <2>1, RequestFacts DEF FInv
  <2> QED
    BY <1>6, <2>1, <2>2 DEF Answered
<1>9. StartedInv' /\ ReplyInv'
  <2>1. StartedInv'
    BY <1>2 DEF FInv, StartedInv
  <2>2. ReplyInv'
    BY <1>2, <1>7 DEF FInv, ReplyInv
  <2> QED
    BY <2>1, <2>2
<1>10. RequestQueueInv' /\ TableInv'
  BY <1>2 DEF FInv, RequestQueueInv, TableInv, RequestPdu, RequestOf, NumberOf, Awaiting
<1>11. OutcomeQueueInv'
  BY ForwardersQuiet
<1>12. FlightInv'
  <2>1. ASSUME writer' # None, writer'.type = "request"
        PROVE  \E u \in Requesters : step'[u] = "waiting" /\ writer' = RequestPdu(u)'
                                     /\ writer' \notin smsc'.todo /\ ~Answered(u)'
    <3>1. PICK u \in Requesters : step[u] = "waiting" /\ writer = RequestPdu(u)
                                    /\ writer \notin smsc.todo /\ ~Answered(u)
      BY <1>2, <2>1 DEF FInv, FlightInv
    <3>2. u # t
      BY <1>3, <3>1
    <3> QED
      BY <1>1, <1>2, <1>7, <1>8, <3>1, <3>2
  <2>2. ASSUME NEW p \in smsc'.todo
        PROVE  \E u \in Requesters : step'[u] = "waiting" /\ p = RequestPdu(u)' /\ ~Answered(u)'
    <3>1. p \in smsc.todo /\ p # pdu
      BY <1>1, <2>2
    <3>2. PICK u \in Requesters : step[u] = "waiting" /\ p = RequestPdu(u) /\ ~Answered(u)
      BY <3>1 DEF FInv, FlightInv
    <3>3. u # t
      BY <1>3, <3>1, <3>2
    <3> QED
      BY <1>7, <1>8, <3>2, <3>3
  <2>3. ASSUME NEW i \in DOMAIN down', IsResponse(down[i])'
        PROVE  \E u \in Requesters : step'[u] = "waiting" /\ down'[i].about = RequestOf(u)'
                                     /\ down'[i].seq = NumberOf(u)'
    <3>1. CASE i \in DOMAIN down /\ down'[i] = down[i]
      <4>1. PICK u \in Requesters : step[u] = "waiting" /\ down[i].about = RequestOf(u)
                                      /\ down[i].seq = NumberOf(u)
        BY <2>3, <3>1 DEF FInv, FlightInv, IsResponse
      <4> QED
        BY <1>7, <3>1, <4>1
    <3>2. CASE down'[i] = d
      BY <1>3, <1>4, <1>7, <3>2
    <3> QED
      BY <1>6, <3>1, <3>2
  <2>4. ASSUME NEW i \in DOMAIN down', NEW j \in DOMAIN down',
               IsResponse(down[i])', IsResponse(down[j])', down'[i].about = down'[j].about
        PROVE  i = j
    <3>1. ASSUME NEW k \in DOMAIN down, IsResponse(down[k]) PROVE down[k].about # d.about
      BY <1>3, <1>4, <3>1 DEF Answered
    <3> QED
      BY <1>6, <2>4, <3>1 DEF FInv, FlightInv, IsResponse
  <2> QED
    BY <2>1, <2>2, <2>3, <2>4 DEF FlightInv, IsResponse
<1> QED
  BY <1>9, <1>10, <1>11, <1>12 DEF FInv

\* Every step keeps the requests apart from each other, if it keeps their numbers apart.
LEMMA StepFlies ==
  ASSUME SInv, SInv', FInv, NumbersApart', [Next]_vars
  PROVE  FInv'
<1>1. CASE \/ StartBind \/ StartEnquiry
           \/ \E m \in Messages : HandleOutbound(m) \/ SegmentAccepted(m)
  BY <1>1, RequestsFly
<1>2. CASE \/ FinishSetup \/ BindAccepted \/ EnquiryAnswered
           \/ \E m \in Messages : WrongResponse(m)
  BY <1>2, RequestersQuiet, ForwardersQuiet DEF FInv
<1>3. CASE \E m \in Messages : MessageAccepted(m) \/ MessageRefused(m)
  BY <1>3, RequestersQuiet, OutcomesFly DEF FInv
<1>4. CASE \/ ReaderGoesOn \/ ReadReport \/ ReadInbound \/ ReaderAnswers
           \/ ForwarderPublishes
  BY <1>4, ReaderQuiet, ForwardersQuiet DEF FInv
<1>5. CASE ForwarderTakes
  BY <1>5, ReaderQuiet, OutcomesFly DEF FInv
<1>6. CASE SmscInitiates
  BY <1>6, SmscQuiet, ForwardersQuiet DEF FInv
<1>7. CASE UNCHANGED <<requestVars, pduq, writer, readVars, fwdq, forwardVars, ids, smsc>>
  <2>1. Quiet /\ NoResponseComes /\ UNCHANGED <<pduq, writer, smsc, fwdq, step>>
    BY <1>7 DEF Quiet, NoResponseComes, requestVars, readVars
  <2>2. PduQueueInv' /\ ItemQueueInv'
    BY DEF SInv
  <2> QED
    BY <2>1, <2>2, QuietKeeps, OutcomesKept DEF FInv
<1>8. CASE BindTimeout \/ EnquireLinkTimeout \/ BindRefused \/ ReadUnknownResponse \/ UnbindRaises
  BY <1>7, <1>8 DEF BindTimeout, EnquireLinkTimeout, BindRefused, ReadUnknownResponse,
       UnbindRaises, Raise
<1>9. CASE UNCHANGED vars
  BY <1>7, <1>9 DEF vars
<1>10. CASE WriterTask \/ SmscAnswers \/ ReadResponse
  BY <1>10, WriterTakesFlies, WriterWritesFlies, AnswersFly, ReadResponseFlies DEF WriterTask
<1> QED
  BY <1>1, <1>2, <1>3, <1>4, <1>5, <1>6, <1>8, <1>9, <1>10
     DEF Next, SetupTask, EnquiryTask, Handler, ReaderTask, ReaderAnswers, ForwarderTask, Timeouts

\* As long as no two pending requests share a number: each request is on its way
\* once, from its task's offer to the response that is handed to that task.
THEOREM RequestsInvariant == Spec /\ []NumbersApart => [](SInv /\ FInv)
<1>1. Init => SInv /\ FInv
  BY InitEstablishes, InitStarts
<1>2. SInv /\ FInv /\ NumbersApart' /\ [Next]_vars => (SInv /\ FInv)'
  BY StepKeeps, StepFlies
<1> QED
  BY <1>1, <1>2, PTL DEF Spec

\* The table of responses names the task that waits for each number.
THEOREM OwnNumbers == Spec /\ []NumbersApart => []EachAwaitsItsOwnNumber
<1>1. SInv /\ FInv => EachAwaitsItsOwnNumber
  BY DEF FInv, TableInv, EachAwaitsItsOwnNumber
<1> QED
  BY <1>1, RequestsInvariant, PTL

\* Whatever order the SMSC answers in, each task gets the response to its request.
THEOREM OwnResponses == Spec /\ []NumbersApart => []OwnResponse
<1>1. SInv /\ FInv => OwnResponse
  BY DEF FInv, ReplyInv, OwnResponse
<1> QED
  BY <1>1, RequestsInvariant, PTL

-------------------------------------------------------------------------------
(* What the application is told.                                           *)

\* All that is said in the queue to the application comes from a handler or a
\* PDU of the SMSC, and stays.
Ack(m) == [type |-> "ack", about |-> m]
Nack(m) == [type |-> "nack", about |-> m]

\* Where an item for the application can be.
LEMMA QueuedFacts ==
  ASSUME SInv
  PROVE  \A x : x \in Queued <=>
           \/ \E i \in DOMAIN fwdq : fwdq[i].item = x
           \/ x = forwarder /\ x # None
           \/ \E i \in DOMAIN published : published[i] = x
<1>1. ToSet(fwdq) = {fwdq[i] : i \in DOMAIN fwdq} /\ ToSet(published) = {published[i] : i \in DOMAIN published}
  BY ElementFacts DEF SInv, ChannelTypeInv
<1> QED
  BY <1>1 DEF Queued

\* An item that is offered is added to those.
LEMMA QueuedOffered ==
  ASSUME SInv, SInv', NEW t \in Messages \cup {Reader}, NEW item \in Items, OfferItem(t, item),
         UNCHANGED forwardVars
  PROVE  Queued' = Queued \cup {item}
<1>1. fwdq \in Seq(ItemOffers) /\ fwdq' = Append(fwdq, [task |-> t, item |-> item])
  BY DEF SInv, ChannelTypeInv, OfferItem
<1> DEFINE q == [task |-> t, item |-> item]
<1>2. q \in ItemOffers /\ q.item = item
  BY ItemFacts
<1> HIDE DEF q
<1>3. ToSet(fwdq') = ToSet(fwdq) \cup {q}
  BY <1>1, <1>2, ElementFacts DEF q
<1> QED
  BY <1>2, <1>3 DEF Queued, forwardVars

\* The forwarder moves items and changes none.
LEMMA QueuedMoves ==
  ASSUME SInv, SInv', ForwarderTakes \/ ForwarderPublishes
  PROVE  Queued' = Queued
<1>1. CASE ForwarderTakes
  <2>1. /\ fwdq \in Seq(ItemOffers) /\ fwdq # << >> /\ fwdq' = Tail(fwdq)
        /\ forwarder = None /\ forwarder' = Head(fwdq).item /\ published' = published
    BY <1>1 DEF ForwarderTakes, SInv, ChannelTypeInv
  <2>2. Head(fwdq) \in ItemOffers /\ ToSet(fwdq) = {Head(fwdq)} \cup ToSet(fwdq')
    BY <2>1, TailFacts, TailElements
  <2>3. Head(fwdq).item # None
    BY <2>2, ItemFacts, ConstantFacts
  <2> QED
    BY <2>1, <2>2, <2>3 DEF Queued
<1>2. CASE ForwarderPublishes
  <2>1. /\ forwarder \in Items /\ forwarder' = None /\ published' = Append(published, forwarder)
        /\ UNCHANGED fwdq /\ published \in Seq(Items)
    BY <1>2 DEF ForwarderPublishes, SInv, ChannelTypeInv
  <2>2. ToSet(published') = ToSet(published) \cup {forwarder}
    BY <2>1, ElementFacts
  <2>3. forwarder # None
    BY <2>1, ConstantFacts
  <2> QED
    BY <2>1, <2>2, <2>3 DEF Queued
<1> QED
  BY <1>1, <1>2

\* What each step does to the forwarder's line.
LEMMA LineSteps ==
  ASSUME SInv, [Next]_vars
  PROVE  \/ UNCHANGED <<fwdq, forwardVars>>
         \/ ForwarderTakes \/ ForwarderPublishes
         \/ /\ UNCHANGED forwardVars
            /\ \/ \E m \in Messages : MessageAccepted(m) /\ OfferItem(m, Ack(m))
               \/ \E m \in Messages : MessageRefused(m) /\ OfferItem(m, Nack(m))
               \/ \E x \in Inbounds : OfferItem(Reader, [type |-> "inbound", about |-> x])
               \/ \E s \in SegmentIds, type \in {"pending", "final"} :
                    /\ Reads("report") /\ Head(down).about = s /\ ids[s] \in Messages
                    /\ OfferItem(Reader, [type |-> type, about |-> ids[s]])
<1>1. CASE ReadReport
  <2>1. /\ Reads("report") /\ ids \in [SegmentIds -> Messages \cup {None}]
        /\ UNCHANGED forwardVars
    BY <1>1 DEF ReadReport, SInv, RequestTypeInv
  <2>2. Head(down).about \in SegmentIds /\ Head(down).status \in {"pending", "final"}
    BY <2>1, ReadsFacts, DownFacts
  <2> QED
    BY <1>1, <2>1, <2>2 DEF ReadReport, Forward
<1>2. CASE ReadInbound
  <2>1. Reads("deliver") /\ UNCHANGED forwardVars
    BY <1>2 DEF ReadInbound
  <2>2. Head(down).about[1] \in Inbounds
    BY <2>1, ReadsFacts, DownFacts, PartFacts
  <2> QED
    BY <1>2, <2>1, <2>2 DEF ReadInbound, Forward
<1>3. CASE SetupTask \/ EnquiryTask \/ Timeouts \/ UNCHANGED vars
  BY <1>3 DEF SetupTask, StartBind, BindAccepted, BindRefused, FinishSetup, EnquiryTask,
       StartEnquiry, EnquiryAnswered, Timeouts, BindTimeout, EnquireLinkTimeout, Raise, vars
<1>4. ASSUME NEW m \in Messages, Handler(m)
      PROVE  \/ UNCHANGED <<fwdq, forwardVars>>
             \/ UNCHANGED forwardVars /\ MessageAccepted(m) /\ OfferItem(m, Ack(m))
             \/ UNCHANGED forwardVars /\ MessageRefused(m) /\ OfferItem(m, Nack(m))
  BY <1>4 DEF Handler, HandleOutbound, SegmentAccepted, WrongResponse, MessageAccepted,
       MessageRefused, Ack, Nack
<1>5. CASE \/ WriterTask \/ SmscAnswers \/ SmscInitiates
           \/ ReadResponse \/ ReadUnknownResponse \/ ReaderGoesOn \/ ReaderAnswers
           \/ UnbindRaises
  BY <1>5 DEF WriterTask, WriterTakes, WriterWrites, SmscAnswers, SmscAccepts, SmscRefuses,
       SmscInitiates, SmscReports, SmscDelivers, SmscEnquires, SmscUnbinds, SmscStalls,
       SmscStrays, Sends, ReadResponse, ReadUnknownResponse, ReaderGoesOn, ReaderAnswers,
       ReadPart, ReadEnquiry, ReadUnknownRequest, ReadUnbind, UnbindRaises, Raise
<1> QED
  BY <1>1, <1>2, <1>3, <1>4, <1>5 DEF Next, ReaderTask, ReaderAnswers, ForwarderTask

\* What each step adds to what is said.
LEMMA QueuedGrows ==
  ASSUME SInv, SInv', [Next]_vars
  PROVE  \/ Queued' = Queued
         \/ \E m \in Messages : MessageAccepted(m) /\ Queued' = Queued \cup {Ack(m)}
         \/ \E m \in Messages : MessageRefused(m) /\ Queued' = Queued \cup {Nack(m)}
         \/ \E x \in Items : x.type \in {"pending", "final", "inbound"} /\ Queued' = Queued \cup {x}
<1>1. CASE UNCHANGED <<fwdq, forwardVars>>
  BY <1>1 DEF Queued, forwardVars
<1>2. CASE ForwarderTakes \/ ForwarderPublishes
  BY <1>2, QueuedMoves
<1>3. ASSUME NEW t \in Messages \cup {Reader}, NEW x \in Items, OfferItem(t, x),
             UNCHANGED forwardVars
      PROVE  Queued' = Queued \cup {x}
  BY <1>3, QueuedOffered
<1>4. \A m \in Messages : Ack(m) \in Items /\ Nack(m) \in Items
  BY ItemFacts DEF Ack, Nack
<1>5. ASSUME NEW x \in Inbounds, OfferItem(Reader, [type |-> "inbound", about |-> x]),
             UNCHANGED forwardVars
      PROVE  \E y \in Items : y.type \in {"pending", "final", "inbound"} /\ Queued' = Queued \cup {y}
  <2>1. [type |-> "inbound", about |-> x] \in Items
    BY ItemFacts
  <2>2. [type |-> "inbound", about |-> x].type = "inbound"
    OBVIOUS
  <2> QED
    BY <1>3, <1>5, <2>1, <2>2
<1>6. ASSUME NEW m \in Messages, NEW type \in {"pending", "final"}, UNCHANGED forwardVars,
             OfferItem(Reader, [type |-> type, about |-> m])
      PROVE  \E y \in Items : y.type \in {"pending", "final", "inbound"} /\ Queued' = Queued \cup {y}
  <2>1. [type |-> type, about |-> m] \in Items
    BY ItemFacts
  <2>2. [type |-> type, about |-> m].type = type
    OBVIOUS
  <2> QED
    BY <1>3, <1>6, <2>1, <2>2
<1>7. ASSUME NEW s \in SegmentIds, NEW type \in {"pending", "final"}, UNCHANGED forwardVars,
             ids[s] \in Messages, OfferItem(Reader, [type |-> type, about |-> ids[s]])
      PROVE  \E y \in Items : y.type \in {"pending", "final", "inbound"} /\ Queued' = Queued \cup {y}
  BY <1>6, <1>7
<1>8. ASSUME NEW m \in Messages, OfferItem(m, Ack(m)), UNCHANGED forwardVars
      PROVE  Queued' = Queued \cup {Ack(m)}
  BY <1>3, <1>4, <1>8
<1>9. ASSUME NEW m \in Messages, OfferItem(m, Nack(m)), UNCHANGED forwardVars
      PROVE  Queued' = Queued \cup {Nack(m)}
  BY <1>3, <1>4, <1>9
<1> QED
  BY <1>1, <1>2, <1>5, <1>7, <1>8, <1>9, LineSteps

-------------------------------------------------------------------------------
(* What the SMSC was told it may forget.  A PDU it delivers is read once,  *)
(* so that the part whose text the reader hands on is not confirmed yet.   *)

DeliverResp(p) == [type |-> "answer", about |-> <<"deliver", p>>, seq |-> 0]

\* The response to part p is at the writer's channel, with the writer, or sent.
Answering(p) ==
  \/ \E i \in DOMAIN pduq : pduq[i].pdu = DeliverResp(p)
  \/ writer = DeliverResp(p)
  \/ <<"deliver", p>> \in smsc.answers

HandingOn(p) == reader.at = "forwarding" /\ reader.about = <<"deliver", p>>
Unread(p) == p \notin parts /\ ~Answering(p) /\ ~HandingOn(p)
Delivers(d) == d.type = "deliver"

OnceInv ==
  /\ \A i, j \in DOMAIN down :
       Delivers(down[i]) /\ Delivers(down[j]) /\ down[i].about = down[j].about => i = j
  /\ \A i \in DOMAIN down :
       Delivers(down[i]) => Unread(down[i].about) /\ down[i].about \in smsc.delivered
  /\ \A p \in PartIds : p \notin smsc.delivered => Unread(p)
  /\ \A p \in PartIds : HandingOn(p) => ~Answering(p)

Inbound(x) == [type |-> "inbound", about |-> x]

KeptInv ==
  /\ \A p \in PartIds : Answering(p) => p \in parts \/ Inbound(p[1]) \in Queued
  /\ \A x \in Inbounds : \E p \in PartIds : p[1] = x /\ p \notin parts

KInv == OnceInv /\ KeptInv

\* When the process starts, nothing was delivered.
LEMMA InitKept == Init => KInv
<1> SUFFICES ASSUME Init PROVE KInv
  OBVIOUS
<1>1. down = << >> /\ parts = {} /\ pduq = << >> /\ writer = None /\ reader.at = "reading"
      /\ smsc.answers = {}
  BY DEF Init
<1>2. \A p \in PartIds : ~Answering(p)
  BY <1>1, PduFacts, ConstantFacts DEF Answering, DeliverResp, Received
<1>3. OnceInv
  BY <1>1, <1>2 DEF OnceInv, Unread, HandingOn
<1>4. \A x \in Inbounds : \E p \in PartIds : p[1] = x
  <2>1. ASSUME NEW x \in Inbounds PROVE \E p \in PartIds : p[1] = x
    <3>1. 1 \in 1 .. Parts[x]
      BY PartFacts
    <3>2. <<x, 1>> \in PartIds
      BY <3>1, PartFacts
    <3> QED
      BY <3>2
  <2> QED
    BY <2>1
<1> QED
  BY <1>1, <1>2, <1>3, <1>4 DEF KInv, KeptInv

\* Offering the writer a PDU puts only that one under way.
LEMMA OfferedAnswers ==
  ASSUME SInv, NEW t \in Requesters \cup {Reader}, NEW pdu \in Pdus, OfferPdu(t, pdu),
         UNCHANGED writer, smsc'.answers = smsc.answers
  PROVE  \A p \in PartIds : Answering(p)' => Answering(p) \/ pdu = DeliverResp(p)
<1> DEFINE q == [task |-> t, pdu |-> pdu]
<1>1. pduq \in Seq(PduOffers) /\ q \in PduOffers /\ q.pdu = pdu /\ pduq' = Append(pduq, q)
  BY PduFacts DEF SInv, ChannelTypeInv, OfferPdu
<1> HIDE DEF q
<1>2. \A i \in DOMAIN pduq' : \/ i \in DOMAIN pduq /\ pduq'[i] = pduq[i]
                              \/ pduq'[i] = q
  BY <1>1, AppendFacts
<1> QED
  BY <1>1, <1>2 DEF Answering

\* The writer brings answers nearer to the SMSC, and makes none.
LEMMA WriterAnswers ==
  ASSUME SInv, WriterTakes \/ WriterWrites
  PROVE  \A p \in PartIds : Answering(p)' => Answering(p)
<1>1. CASE WriterTakes
  <2>1. /\ pduq \in Seq(PduOffers) /\ pduq # << >> /\ pduq' = Tail(pduq)
        /\ writer' = Head(pduq).pdu /\ UNCHANGED smsc
    BY <1>1 DEF WriterTakes, SInv, ChannelTypeInv
  <2>2. /\ Head(pduq) = pduq[1] /\ 1 \in DOMAIN pduq
        /\ \A i \in DOMAIN pduq' : i + 1 \in DOMAIN pduq /\ pduq'[i] = pduq[i + 1]
    BY <2>1, TailFacts
  <2> QED
    BY <2>1, <2>2 DEF Answering
<1>2. CASE WriterWrites
  <2>1. /\ writer # None /\ writer' = None /\ UNCHANGED pduq
        /\ smsc' = IF writer.type = "request" THEN [smsc EXCEPT !.todo = @ \cup {writer}]
                   ELSE [smsc EXCEPT !.answers = @ \cup {writer.about}]
    BY <1>2 DEF WriterWrites
  <2>2. writer.type # "request" => writer = [type |-> "answer", about |-> writer.about, seq |-> 0]
    BY <2>1, PduFacts DEF SInv, ChannelTypeInv
  <2>3. ASSUME NEW p \in PartIds, <<"deliver", p>> \in smsc'.answers
        PROVE  <<"deliver", p>> \in smsc.answers \/ writer = DeliverResp(p)
    BY <2>1, <2>2, <2>3 DEF SInv, SmscTypeInv, DeliverResp
  <2>4. ASSUME NEW p \in PartIds PROVE writer' # DeliverResp(p)
    <3>1. DeliverResp(p) \in Pdus
      BY PduFacts DEF DeliverResp, Received
    <3> QED
      BY <2>1, <3>1, ConstantFacts
  <2> QED
    BY <2>1, <2>3, <2>4 DEF Answering
<1> QED
  BY <1>1, <1>2

\* A step that neither delivers, nor answers or hands on what was delivered.
Elsewhere ==
  /\ UNCHANGED parts /\ smsc'.delivered = smsc.delivered
  /\ \A p \in PartIds : Answering(p)' => Answering(p)
  /\ \A p \in PartIds : HandingOn(p)' => HandingOn(p)
  /\ \/ UNCHANGED down
     \/ down # << >> /\ down' = Tail(down)
     \/ \E d \in Down : ~Delivers(d) /\ down' = Append(down, d)

\* The reader's answer to anything but a delivery.
LEMMA OtherAnswers ==
  ASSUME SInv, NEW about \in Received, about[1] # "deliver", UNCHANGED <<writer, smsc>>,
         OfferPdu(Reader, [type |-> "answer", about |-> about, seq |-> 0])
  PROVE  \A p \in PartIds : Answering(p)' => Answering(p)
<1> DEFINE pdu == [type |-> "answer", about |-> about, seq |-> 0]
<1>1. pdu \in Pdus /\ pdu.about = about
  BY PduFacts
<1>2. \A p \in PartIds : pdu # DeliverResp(p)
  BY <1>1 DEF DeliverResp
<1> HIDE DEF pdu
<1>3. OfferPdu(Reader, pdu)
  BY DEF pdu
<1> QED
  BY <1>1, <1>2, <1>3, OfferedAnswers

\* What a requester sends is no answer.
LEMMA RequestsElsewhere ==
  ASSUME SInv, SInv', NEW t \in Requesters,
         NEW about \in SegmentIds \cup {Bind, Enquiry}, NEW seq \in 1 .. SeqLimit,
         SendRequest(t, about, seq), UNCHANGED <<writer, readVars, smsc>>
  PROVE  Elsewhere
<1> DEFINE pdu == [type |-> "request", about |-> about, seq |-> seq]
<1>1. pdu \in Pdus /\ \A p \in PartIds : pdu # DeliverResp(p)
  BY PduFacts DEF DeliverResp
<1> HIDE DEF pdu
<1>2. OfferPdu(t, pdu)
  BY DEF SendRequest, pdu
<1> QED
  BY <1>1, <1>2, OfferedAnswers DEF Elsewhere, HandingOn, readVars

\* The tasks that send requests, and the timeouts.
LEMMA RequestersElsewhere ==
  ASSUME SInv, SInv',
         SetupTask \/ EnquiryTask \/ (\E m \in Messages : Handler(m)) \/ Timeouts \/ UNCHANGED vars
  PROVE  Elsewhere
<1>1. ASSUME UNCHANGED <<pduq, writer, readVars, smsc>>
      PROVE  Elsewhere
  BY <1>1 DEF Elsewhere, Answering, HandingOn, readVars
<1>2. CASE StartBind \/ StartEnquiry
  <2>1. /\ seqno' = Wrap(seqno + 1) /\ UNCHANGED <<writer, readVars, smsc>>
        /\ SendRequest(Bind, Bind, seqno') \/ SendRequest(Enquiry, Enquiry, seqno')
    BY <1>2 DEF StartBind, StartEnquiry
  <2>2. seqno' \in 1 .. SeqLimit
    BY <2>1, WrapFacts, ConstantFacts DEF SInv, RequestTypeInv
  <2> QED
    BY <2>1, <2>2, RequestsElsewhere, ConstantFacts
<1>3. ASSUME NEW m \in Messages, HandleOutbound(m) \/ SegmentAccepted(m)
      PROVE  Elsewhere
  <2>1. PICK pdu \in Pdus : pdu.type = "request" /\ OfferPdu(m, pdu)
    <3>1. pduq' \in Seq(PduOffers) /\ pduq \in Seq(PduOffers)
      BY DEF SInv, ChannelTypeInv
    <3>2. \E pdu : pdu.type = "request" /\ OfferPdu(m, pdu)
      BY <1>3 DEF HandleOutbound, SegmentAccepted, SendRequest
    <3>3. PICK pdu : pdu.type = "request" /\ OfferPdu(m, pdu)
      BY <3>2
    <3>4. pduq'[Len(pduq) + 1] = [task |-> m, pdu |-> pdu] /\ Len(pduq) + 1 \in DOMAIN pduq'
      BY <3>1, <3>3 DEF OfferPdu
    <3>5. [task |-> m, pdu |-> pdu] \in PduOffers
      BY <3>1, <3>4
    <3> QED
      BY <3>3, <3>5, PduFacts
  <2>2. UNCHANGED <<writer, readVars, smsc>>
    BY <1>3 DEF HandleOutbound, SegmentAccepted
  <2>3. \A p \in PartIds : pdu # DeliverResp(p)
    BY <2>1 DEF DeliverResp
  <2> QED
    BY <2>1, <2>2, <2>3, OfferedAnswers, ConstantFacts DEF Elsewhere, HandingOn, readVars
<1>4. CASE \/ BindAccepted \/ BindRefused \/ FinishSetup \/ EnquiryAnswered \/ Timeouts
           \/ UNCHANGED vars
  BY <1>1, <1>4 DEF BindAccepted, BindRefused, FinishSetup, EnquiryAnswered, Timeouts, BindTimeout,
       EnquireLinkTimeout, Raise, vars
<1>5. ASSUME NEW m \in Messages, MessageAccepted(m) \/ MessageRefused(m) \/ WrongResponse(m)
      PROVE  Elsewhere
  BY <1>1, <1>5 DEF MessageAccepted, MessageRefused, WrongResponse
<1> QED
  BY <1>2, <1>3, <1>4, <1>5 DEF SetupTask, EnquiryTask, Handler

\* The SMSC, but for what it delivers.
LEMMA SmscElsewhere ==
  ASSUME SInv, SmscAnswers \/ SmscInitiates
  PROVE  Elsewhere \/ \E p \in PartIds : SmscDelivers(p)
<1>1. ASSUME UNCHANGED <<pduq, writer, reader, parts>>, smsc'.answers = smsc.answers,
             smsc'.delivered = smsc.delivered,
             UNCHANGED down \/ \E d \in Down : ~Delivers(d) /\ down' = Append(down, d)
      PROVE  Elsewhere
  BY <1>1 DEF Elsewhere, Answering, HandingOn
<1>2. UNCHANGED <<pduq, writer, reader, parts>>
  BY DEF SmscAnswers, SmscInitiates, SmscAccepts, SmscRefuses, SmscReports, SmscDelivers,
         SmscEnquires, SmscUnbinds, SmscStalls, SmscStrays, Sends, readVars
<1>3. CASE SmscAnswers
  <2>1. PICK pdu \in smsc.todo, how \in {"ok", "error", "generic_nack"} :
          (SmscAccepts(pdu) /\ how = "ok") \/ SmscRefuses(pdu, how)
    BY <1>3, SmppSessionAssumption DEF SmscAnswers
  <2> DEFINE d == [type |-> "response", about |-> pdu.about, seq |-> pdu.seq, status |-> how]
  <2>2. pdu.about \in SegmentIds \cup {Bind, Enquiry} /\ pdu.seq \in 1 .. SeqLimit
    BY PduFacts DEF SInv, SmscTypeInv
  <2>3. d \in Down /\ ~Delivers(d)
    BY <2>2 DEF Down, Responses, Delivers
  <2>4. /\ down' = Append(down, d)
        /\ smsc'.answers = smsc.answers /\ smsc'.delivered = smsc.delivered
    BY <2>1 DEF SmscAccepts, SmscRefuses, Sends, SInv, SmscTypeInv
  <2> HIDE DEF d
  <2> QED
    BY <1>1, <1>2, <2>3, <2>4
<1>4. ASSUME NEW s \in SegmentIds, NEW how \in {"pending", "final"}, SmscReports(s, how)
      PROVE  Elsewhere
  <2> DEFINE d == [type |-> "report", about |-> s, seq |-> 0, status |-> how]
  <2>1. d \in Down /\ ~Delivers(d)
    BY DEF Down, Reports, Delivers
  <2>2. /\ down' = Append(down, d)
        /\ smsc'.answers = smsc.answers /\ smsc'.delivered = smsc.delivered
    BY <1>4 DEF SmscReports, Sends, SInv, SmscTypeInv
  <2> HIDE DEF d
  <2> QED
    BY <1>1, <1>2, <2>1, <2>2
<1>5. CASE \/ \E type \in {"enquire_link", "unknown"} : SmscEnquires(type)
           \/ SmscUnbinds
  <2>1. PICK type \in {"enquire_link", "unknown", "unbind"}, about \in {Enquiry, Bind} :
          /\ type = "unbind" <=> about = Bind
          /\ down' = Append(down, [type |-> type, about |-> about, seq |-> 0, status |-> "new"])
    BY <1>5, ConstantFacts DEF SmscEnquires, SmscUnbinds, Sends
  <2> DEFINE d == [type |-> type, about |-> about, seq |-> 0, status |-> "new"]
  <2>2. d \in Down /\ ~Delivers(d)
    BY <2>1, ConstantFacts DEF Down, Others, Delivers
  <2>3. down' = Append(down, d)
    BY <2>1
  <2>4. smsc'.answers = smsc.answers /\ smsc'.delivered = smsc.delivered
    BY <1>5 DEF SmscEnquires, SmscUnbinds, SInv, SmscTypeInv
  <2> HIDE DEF d
  <2> QED
    BY <1>1, <1>2, <2>2, <2>3, <2>4
<1>6. CASE SmscStrays
  <2> DEFINE d == [type |-> "response", about |-> None, seq |-> 0, status |-> "generic_nack"]
  <2>1. d \in Down /\ ~Delivers(d)
    BY DEF Down, Strays, Delivers
  <2>2. down' = Append(down, d) /\ UNCHANGED smsc
    BY <1>6 DEF SmscStrays, Sends
  <2> HIDE DEF d
  <2> QED
    BY <1>1, <1>2, <2>1, <2>2
<1>7. CASE SmscStalls
  <2>1. UNCHANGED down /\ smsc'.answers = smsc.answers /\ smsc'.delivered = smsc.delivered
    BY <1>7 DEF SmscStalls, readVars, SInv, SmscTypeInv
  <2> QED
    BY <1>1, <1>2, <2>1
<1> QED
  BY <1>3, <1>4, <1>5, <1>6, <1>7 DEF SmscInitiates

\* The reader, but for what is delivered.
LEMMA ReaderElsewhere ==
  ASSUME SInv, ReaderTask
  PROVE  Elsewhere \/ ReadPart \/ ReadInbound
<1>1. CASE ReadUnknownResponse \/ UnbindRaises \/ ReaderGoesOn
  BY <1>1 DEF ReadUnknownResponse, UnbindRaises, ReaderGoesOn, Raise, Elsewhere, Answering,
       HandingOn, readVars
<1>2. CASE ReadResponse
  <2>1. /\ UNCHANGED <<pduq, writer, parts, smsc>> /\ down # << >> /\ down' = Tail(down)
        /\ reader'.at = "handing"
    BY <1>2 DEF ReadResponse, Reads
  <2> QED
    BY <2>1 DEF Elsewhere, Answering, HandingOn
<1>3. CASE ReadReport
  <2>1. /\ Reads("report") /\ down # << >> /\ down' = Tail(down)
        /\ UNCHANGED <<writer, parts, smsc>>
        /\ Answer(Kind(Head(down))) \/ (UNCHANGED pduq /\ reader' = [at |-> "forwarding",
                                                                     about |-> Kind(Head(down))])
    BY <1>3 DEF ReadReport, Forward, Reads
  <2>2. Kind(Head(down)) \in Received /\ Kind(Head(down))[1] = "report"
    BY <2>1, ReadsFacts, DownFacts DEF Kind
  <2>3. \A p \in PartIds : Answering(p)' => Answering(p)
    <3>1. CASE Answer(Kind(Head(down)))
      BY <2>1, <2>2, <3>1, OtherAnswers DEF Answer
    <3>2. CASE UNCHANGED pduq
      BY <2>1, <3>2 DEF Answering
    <3> QED
      BY <2>1, <3>1, <3>2
  <2>4. \A p \in PartIds : ~HandingOn(p)'
    <3>1. reader'.at # "forwarding" \/ reader'.about[1] = "report"
      BY <2>1, <2>2 DEF Answer
    <3> QED
      BY <3>1 DEF HandingOn
  <2> QED
    BY <2>1, <2>3, <2>4 DEF Elsewhere
<1>4. CASE ReadEnquiry \/ ReadUnknownRequest \/ ReadUnbind
  <2>1. PICK type \in {"enquire_link", "unknown", "unbind"} : Reads(type)
    BY <1>4 DEF ReadEnquiry, ReadUnknownRequest, ReadUnbind
  <2>2. /\ down # << >> /\ down' = Tail(down) /\ UNCHANGED <<writer, parts, smsc>>
        /\ OfferPdu(Reader, [type |-> "answer", about |-> Kind(Head(down)), seq |-> 0])
        /\ reader'.at \in {"answering", "unbinding"}
    BY <1>4 DEF ReadEnquiry, ReadUnknownRequest, ReadUnbind, Answer, Reads
  <2>3. Kind(Head(down)) \in Received /\ Kind(Head(down))[1] # "deliver"
    BY <2>1, ReadsFacts, DownFacts DEF Kind
  <2>4. \A p \in PartIds : Answering(p)' => Answering(p)
    BY <2>2, <2>3, OtherAnswers
  <2>5. \A p \in PartIds : ~HandingOn(p)'
    BY <2>2 DEF HandingOn
  <2> QED
    BY <2>2, <2>4, <2>5 DEF Elsewhere
<1> QED
  BY <1>1, <1>2, <1>3, <1>4 DEF ReaderTask

\* What can disturb the messages delivered.
LEMMA DeliverySteps ==
  ASSUME SInv, SInv', [Next]_vars
  PROVE  \/ Elsewhere
         \/ \E p \in PartIds : SmscDelivers(p)
         \/ ReadPart
         \/ ReadInbound
         \/ ForwarderTakes
<1>1. CASE WriterTask
  <2>1. UNCHANGED <<parts, down>>
    BY <1>1 DEF WriterTask, WriterTakes, WriterWrites, readVars
  <2>2. smsc'.delivered = smsc.delivered
    BY <1>1 DEF WriterTask, WriterTakes, WriterWrites, SInv, SmscTypeInv
  <2>3. \A p \in PartIds : HandingOn(p)' => HandingOn(p)
    <3>1. UNCHANGED reader \/ reader'.at \in {"raising", "reading"}
      BY <1>1 DEF WriterTask, WriterTakes, WriterWrites, readVars, SInv, ChannelTypeInv, Readers
    <3> QED
      BY <3>1 DEF HandingOn
  <2> QED
    BY <1>1, <2>1, <2>2, <2>3, WriterAnswers DEF WriterTask, Elsewhere
<1>2. CASE ForwarderPublishes
  BY <1>2 DEF ForwarderPublishes, Elsewhere, Answering, HandingOn, requestVars, readVars
<1> QED
  BY <1>1, <1>2, RequestersElsewhere, SmscElsewhere, ReaderElsewhere
     DEF Next, ForwarderTask

\* What was offered to the forwarder stays with it, or is published.
LEMMA QueuedStays ==
  ASSUME SInv, SInv', [Next]_vars
  PROVE  Queued \subseteq Queued'
BY QueuedGrows

\* The rest of the SMSC's PDUs: none of them is the head.
LEMMA RestOfDown ==
  ASSUME SInv, OnceInv, down # << >>, down' = Tail(down)
  PROVE  /\ \A i, j \in DOMAIN down' :
              Delivers(down'[i]) /\ Delivers(down'[j]) /\ down'[i].about = down'[j].about => i = j
         /\ \A i \in DOMAIN down' :
              Delivers(down'[i]) => /\ Unread(down'[i].about) /\ down'[i].about \in smsc.delivered
                                    /\ Delivers(Head(down)) => down'[i].about # Head(down).about
<1>1. down \in Seq(Down)
  BY DEF SInv, SmscTypeInv
<1>2. /\ Head(down) = down[1] /\ 1 \in DOMAIN down
      /\ \A i \in DOMAIN down' : /\ i + 1 \in DOMAIN down /\ down'[i] = down[i + 1]
                                 /\ i + 1 # 1 /\ i \in Nat
  BY <1>1, TailFacts
<1>3. ASSUME NEW i \in DOMAIN down', NEW j \in DOMAIN down',
             Delivers(down'[i]), Delivers(down'[j]), down'[i].about = down'[j].about
      PROVE  i = j
  <2>1. i + 1 = j + 1 /\ i \in Nat /\ j \in Nat
    BY <1>2, <1>3 DEF OnceInv
  <2> QED
    BY <2>1
<1>4. ASSUME NEW i \in DOMAIN down', Delivers(down'[i])
      PROVE  /\ Unread(down'[i].about) /\ down'[i].about \in smsc.delivered
             /\ Delivers(Head(down)) => down'[i].about # Head(down).about
  BY <1>2, <1>4 DEF OnceInv
<1> QED
  BY <1>3, <1>4

\* A step elsewhere.
LEMMA ElsewhereKeeps ==
  ASSUME SInv, SInv', KInv, [Next]_vars, Elsewhere
  PROVE  KInv'
<1>1. /\ \A p \in PartIds : (Answering(p)' => Answering(p)) /\ (HandingOn(p)' => HandingOn(p))
      /\ UNCHANGED parts /\ smsc'.delivered = smsc.delivered
      /\ down \in Seq(Down) /\ down' \in Seq(Down)
  BY DEF Elsewhere, SInv, SmscTypeInv
<1>2. \A p \in PartIds : Unread(p) => Unread(p)'
  BY <1>1 DEF Unread
<1>3. KeptInv'
  BY <1>1, QueuedStays DEF KInv, KeptInv, Inbound
<1>4. \A d \in Down : Delivers(d) => d.about \in PartIds
  BY DownFacts DEF Delivers
<1> DEFINE Rest ==
      /\ \A i, j \in DOMAIN down' :
           Delivers(down'[i]) /\ Delivers(down'[j]) /\ down'[i].about = down'[j].about => i = j
      /\ \A i \in DOMAIN down' :
           Delivers(down'[i]) => Unread(down'[i].about) /\ down'[i].about \in smsc.delivered
<1>5. Rest
  <2>1. CASE UNCHANGED down
    BY <2>1 DEF KInv, OnceInv
  <2>2. CASE down # << >> /\ down' = Tail(down)
    BY <2>2, RestOfDown DEF KInv
  <2>3. ASSUME NEW d \in Down, ~Delivers(d), down' = Append(down, d)
        PROVE  Rest
    <3>1. \A i \in DOMAIN down' : Delivers(down'[i]) => i \in DOMAIN down /\ down'[i] = down[i]
      BY <1>1, <2>3, AppendFacts
    <3> QED
      BY <3>1 DEF KInv, OnceInv
  <2> QED
    BY <2>1, <2>2, <2>3 DEF Elsewhere
<1>6. \A i \in DOMAIN down' : down'[i] \in Down
  BY <1>1, ElementFacts
<1>7. OnceInv'
  <2>1. \A i, j \in DOMAIN down' :
          Delivers(down[i])' /\ Delivers(down[j])' /\ down'[i].about = down'[j].about => i = j
    BY <1>5 DEF Delivers
  <2>2. ASSUME NEW i \in DOMAIN down', Delivers(down[i])'
        PROVE  Unread(down[i].about)' /\ down'[i].about \in smsc'.delivered
    <3>1. down'[i].about \in PartIds /\ Unread(down'[i].about)
          /\ down'[i].about \in smsc.delivered
      BY <1>4, <1>5, <1>6, <2>2 DEF Delivers
    <3> QED
      BY <1>1, <3>1 DEF Unread, Answering, HandingOn
  <2>3. \A p \in PartIds : p \notin smsc'.delivered => Unread(p)'
    BY <1>1, <1>2 DEF KInv, OnceInv
  <2>4. \A p \in PartIds : HandingOn(p)' => ~Answering(p)'
    BY <1>1 DEF KInv, OnceInv
  <2> QED
    BY <2>1, <2>2, <2>3, <2>4 DEF OnceInv
<1> QED
  BY <1>3, <1>7 DEF KInv
\* The SMSC delivers a part.
LEMMA DeliversKeeps ==
  ASSUME SInv, SInv', KInv, [Next]_vars, NEW p \in PartIds, SmscDelivers(p)
  PROVE  KInv'
<1> DEFINE d == [type |-> "deliver", about |-> p, seq |-> 0, status |-> "new"]
<1>1. /\ d \in Down /\ Delivers(d) /\ d.about = p
  BY DEF Down, Deliveries, Delivers
<1>2. /\ p \notin smsc.delivered /\ down' = Append(down, d) /\ down \in Seq(Down)
      /\ smsc' = [smsc EXCEPT !.delivered = @ \cup {p}]
      /\ UNCHANGED <<pduq, writer, reader, parts>>
  BY DEF SmscDelivers, Sends, SInv, SmscTypeInv
<1>3. smsc'.delivered = smsc.delivered \cup {p} /\ smsc'.answers = smsc.answers
  BY <1>2 DEF SInv, SmscTypeInv
<1>4. \A q \in PartIds : (Answering(q)' <=> Answering(q)) /\ (HandingOn(q)' <=> HandingOn(q))
                         /\ (Unread(q)' <=> Unread(q))
  BY <1>2, <1>3 DEF Answering, HandingOn, Unread
<1> HIDE DEF d
<1>5. KeptInv'
  BY <1>2, <1>4, QueuedStays DEF KInv, KeptInv, Inbound
<1>6. \A i \in DOMAIN down' : \/ i \in DOMAIN down /\ down'[i] = down[i] /\ down[i] \in Down
                              \/ i = Len(down) + 1 /\ down'[i] = d
  BY <1>1, <1>2, AppendFacts, ElementFacts
<1>7. \A i \in DOMAIN down : Delivers(down[i]) => down[i].about # p
  BY <1>2 DEF KInv, OnceInv
<1>8. \A e \in Down : Delivers(e) => e.about \in PartIds
  BY DownFacts DEF Delivers
<1>9. Unread(p)
  BY <1>2 DEF KInv, OnceInv
<1>10. OnceInv'
  <2>1. ASSUME NEW i \in DOMAIN down', NEW j \in DOMAIN down',
               Delivers(down'[i]), Delivers(down'[j]), down'[i].about = down'[j].about
        PROVE  i = j
    BY <1>1, <1>6, <1>7, <2>1 DEF KInv, OnceInv
  <2>2. ASSUME NEW i \in DOMAIN down', Delivers(down'[i])
        PROVE  /\ down'[i].about \in PartIds /\ Unread(down'[i].about)
               /\ down'[i].about \in smsc'.delivered
    BY <1>1, <1>3, <1>6, <1>8, <1>9, <2>2 DEF KInv, OnceInv
  <2>3. ASSUME NEW i \in DOMAIN down', Delivers(down[i])'
        PROVE  Unread(down[i].about)' /\ down'[i].about \in smsc'.delivered
    <3>1. /\ down'[i].about \in PartIds /\ Unread(down'[i].about)
          /\ down'[i].about \in smsc'.delivered
      BY <2>2, <2>3 DEF Delivers
    <3> QED
      BY <1>2, <1>3, <3>1 DEF Unread, Answering, HandingOn
  <2>4. \A q \in PartIds : q \notin smsc'.delivered => Unread(q)'
    BY <1>3, <1>4 DEF KInv, OnceInv
  <2>5. \A q \in PartIds : HandingOn(q)' => ~Answering(q)'
    BY <1>4 DEF KInv, OnceInv
  <2> QED
    BY <2>1, <2>3, <2>4, <2>5 DEF OnceInv, Delivers
<1> QED
  BY <1>5, <1>10 DEF KInv

\* What the reader reads of the deliveries was not read before.
LEMMA ReadFacts ==
  ASSUME SInv, KInv, Reads("deliver"), down' = Tail(down)
  PROVE  LET p == Head(down).about
         IN  /\ p \in PartIds /\ Unread(p) /\ p \in smsc.delivered
             /\ Head(down).type = "deliver" /\ Kind(Head(down)) = <<"deliver", p>>
             /\ Kind(Head(down)) \in Received /\ reader.at = "reading"
             /\ \A i \in DOMAIN down' : Delivers(down'[i]) => down'[i].about # p
<1>1. /\ reader.at = "reading" /\ Head(down) \in Down /\ Head(down).type = "deliver"
      /\ Head(down) = down[1] /\ 1 \in DOMAIN down /\ down # << >>
  BY ReadsFacts DEF Reads
<1>2. Head(down).about \in PartIds /\ Kind(Head(down)) \in Received
  BY <1>1, DownFacts
<1>3. Unread(Head(down).about) /\ Head(down).about \in smsc.delivered
  BY <1>1 DEF KInv, OnceInv, Delivers
<1> QED
  BY <1>1, <1>2, <1>3, RestOfDown DEF KInv, Kind, Delivers

\* The PDUs that are left, once one was read.
LEMMA ReadKeepsOnce ==
  ASSUME SInv, SInv', KInv, Reads("deliver"), down' = Tail(down), UNCHANGED smsc,
         \A q \in PartIds : q # Head(down).about /\ Unread(q) => Unread(q)',
         \A q \in PartIds : HandingOn(q)' => ~Answering(q)'
  PROVE  OnceInv'
<1>1. down # << >> /\ \A i \in DOMAIN down' : down'[i] \in Down
  BY ElementFacts DEF Reads, SInv, SmscTypeInv
<1>2. \A e \in Down : Delivers(e) => e.about \in PartIds
  BY DownFacts DEF Delivers
<1>3. \A i, j \in DOMAIN down' :
        Delivers(down[i])' /\ Delivers(down[j])' /\ down'[i].about = down'[j].about => i = j
  BY <1>1, RestOfDown DEF KInv, Delivers
<1>4. ASSUME NEW i \in DOMAIN down', Delivers(down[i])'
      PROVE  Unread(down[i].about)' /\ down'[i].about \in smsc'.delivered
  <2>1. Delivers(down'[i])
    BY <1>4 DEF Delivers
  <2>2. /\ down'[i].about \in PartIds /\ Unread(down'[i].about)
        /\ down'[i].about \in smsc.delivered /\ down'[i].about # Head(down).about
    BY <1>1, <1>2, <2>1, RestOfDown, ReadFacts DEF KInv
  <2> DEFINE q == down'[i].about
  <2>3. \A r \in PartIds : r = q => (Unread(r)' => Unread(down[i].about)')
    BY DEF Unread, Answering, HandingOn
  <2> HIDE DEF q
  <2> QED
    BY <2>2, <2>3 DEF q
<1>5. \A q \in PartIds : q \notin smsc'.delivered => Unread(q)'
  BY ReadFacts DEF KInv, OnceInv
<1> QED
  BY <1>3, <1>4, <1>5 DEF OnceInv

\* The reader keeps a part of a text that is not complete, and answers it.
LEMMA ReadPartKeeps ==
  ASSUME SInv, SInv', KInv, [Next]_vars, ReadPart
  PROVE  KInv'
<1> DEFINE p == Head(down).about
<1>1. /\ Reads("deliver") /\ ~Completes(p) /\ parts' = parts \cup {p} /\ down' = Tail(down)
      /\ Answer(Kind(Head(down))) /\ UNCHANGED <<writer, smsc>>
  BY DEF ReadPart
<1>2. /\ p \in PartIds /\ Unread(p) /\ p \in smsc.delivered
      /\ Kind(Head(down)) = <<"deliver", p>> /\ Kind(Head(down)) \in Received
      /\ reader.at = "reading"
  BY <1>1, ReadFacts
<1> HIDE DEF p
<1>3. DeliverResp(p) \in Pdus /\ OfferPdu(Reader, DeliverResp(p)) /\ reader'.at = "answering"
  BY <1>1, <1>2, PduFacts DEF Answer, DeliverResp
<1>4. \A q \in PartIds : Answering(q)' => Answering(q) \/ q = p
  <2>1. \A q \in PartIds : Answering(q)' => Answering(q) \/ DeliverResp(p) = DeliverResp(q)
    BY <1>1, <1>3, OfferedAnswers
  <2>2. \A q \in PartIds : DeliverResp(p) = DeliverResp(q) => q = p
    <3>1. \A q : DeliverResp(q).about = <<"deliver", q>>
      BY DEF DeliverResp
    <3>2. ASSUME NEW q \in PartIds, DeliverResp(p) = DeliverResp(q)
          PROVE  q = p
      <4>1. <<"deliver", p>> = <<"deliver", q>>
        BY <3>1, <3>2
      <4> QED
        BY <4>1
    <3> QED
      BY <3>2
  <2> QED
    BY <2>1, <2>2
<1>5. \A q \in PartIds : ~HandingOn(q)'
  BY <1>3 DEF HandingOn
<1>6. \A q \in PartIds : q # p /\ Unread(q) => Unread(q)'
  BY <1>1, <1>4, <1>5 DEF Unread
<1>7. OnceInv'
  BY <1>1, <1>5, <1>6, ReadKeepsOnce DEF p
<1>8. KeptInv'
  <2>1. \A q \in PartIds : Answering(q)' => q \in parts' \/ Inbound(q[1])' \in Queued'
    BY <1>1, <1>4, QueuedStays DEF KInv, KeptInv, Inbound
  <2>2. ASSUME NEW x \in Inbounds PROVE \E q \in PartIds : q[1] = x /\ q \notin parts'
    <3>1. CASE x = p[1]
      <4>1. PICK i \in 1 .. Parts[p[1]] : <<p[1], i>> \notin parts \cup {p}
        BY <1>1 DEF Completes
      <4>2. <<x, i>> \in PartIds
        BY <3>1, <4>1, PartFacts
      <4> QED
        BY <1>1, <3>1, <4>1, <4>2
    <3>2. CASE x # p[1]
      BY <1>1, <3>2 DEF KInv, KeptInv
    <3> QED
      BY <3>1, <3>2
  <2> QED
    BY <2>1, <2>2 DEF KeptInv
<1> QED
  BY <1>7, <1>8 DEF KInv

\* The reader hands a text on that is complete, and forgets its parts.
LEMMA ReadInboundKeeps ==
  ASSUME SInv, SInv', KInv, [Next]_vars, ReadInbound
  PROVE  KInv'
<1> DEFINE p == Head(down).about
           x == p[1]
<1>1. /\ Reads("deliver") /\ parts' = {q \in parts : q[1] # x} /\ down' = Tail(down)
      /\ OfferItem(Reader, Inbound(x)) /\ reader' = [at |-> "forwarding", about |-> Kind(Head(down))]
      /\ UNCHANGED <<pduq, writer, forwardVars, smsc>>
  BY DEF ReadInbound, Forward, Inbound
<1>2. /\ p \in PartIds /\ Unread(p) /\ Kind(Head(down)) = <<"deliver", p>>
      /\ reader.at = "reading"
  BY <1>1, ReadFacts
<1>3. x \in Inbounds /\ Inbound(x) \in Items
  BY <1>2, PartFacts, ItemFacts DEF Inbound
<1> HIDE DEF p, x
<1>4. \A q \in PartIds : Answering(q)' <=> Answering(q)
  BY <1>1 DEF Answering
<1>5. \A q \in PartIds : HandingOn(q)' => q = p
  <2>1. \A q \in PartIds : HandingOn(q)' => <<"deliver", q>> = <<"deliver", p>>
    BY <1>1, <1>2 DEF HandingOn
  <2> QED
    BY <2>1
<1>6. \A q \in PartIds : q # p /\ Unread(q) => Unread(q)'
  BY <1>1, <1>4, <1>5 DEF Unread
<1>7. \A q \in PartIds : HandingOn(q)' => ~Answering(q)'
  BY <1>2, <1>4, <1>5 DEF Unread
<1>8. OnceInv'
  BY <1>1, <1>6, <1>7, ReadKeepsOnce DEF p
<1>9. Queued' = Queued \cup {Inbound(x)}
  BY <1>1, <1>3, QueuedOffered
<1>10. KeptInv'
  <2>1. ASSUME NEW q \in PartIds, Answering(q)'
        PROVE  q \in parts' \/ Inbound(q[1]) \in Queued'
    <3>1. CASE q[1] = x
      BY <1>9, <3>1
    <3>2. CASE q[1] # x
      BY <1>1, <1>4, <1>9, <2>1, <3>2 DEF KInv, KeptInv
    <3> QED
      BY <3>1, <3>2
  <2>2. \A y \in Inbounds : \E q \in PartIds : q[1] = y /\ q \notin parts'
    BY <1>1 DEF KInv, KeptInv
  <2> QED
    BY <2>1, <2>2 DEF KeptInv, Inbound
<1> QED
  BY <1>8, <1>10 DEF KInv

\* The forwarder takes a text, and the reader answers its last part.
LEMMA TakenKeeps ==
  ASSUME SInv, SInv', KInv, [Next]_vars, ForwarderTakes
  PROVE  KInv'
<1> DEFINE q == fwdq[1]
<1>1. /\ fwdq \in Seq(ItemOffers) /\ fwdq # << >> /\ Head(fwdq) = q /\ q \in ItemOffers
      /\ 1 \in DOMAIN fwdq
  BY TailFacts DEF ForwarderTakes, SInv, ChannelTypeInv
<1>2. /\ IF q.task = Reader THEN Answer(reader.about) ELSE UNCHANGED <<reader, pduq>>
      /\ UNCHANGED <<writer, down, parts, smsc>>
  BY <1>1 DEF ForwarderTakes
<1>3. q.item \in Items /\ q.item \in Queued
  BY <1>1, ItemFacts, QueuedFacts
<1>4. q.task = Reader =>
        /\ reader.at = "forwarding" /\ reader.about \in Received
        /\ q.item.type = "inbound" => IsPartOf(reader.about, q.item.about)
        /\ q.item.type # "inbound" => reader.about[1] = "report"
  BY <1>1 DEF SInv, ItemQueueInv, ChannelTypeInv, Readers
<1> HIDE DEF q
<1>5. CASE q.task # Reader
  <2>1. Elsewhere
    BY <1>2, <1>5 DEF Elsewhere, Answering, HandingOn
  <2> QED
    BY <2>1, ElsewhereKeeps
<1>6. CASE q.task = Reader
  <2> DEFINE pdu == [type |-> "answer", about |-> reader.about, seq |-> 0]
  <2>1. /\ pdu \in Pdus /\ pdu.about = reader.about /\ OfferPdu(Reader, pdu)
        /\ reader'.at = "answering"
    BY <1>2, <1>4, <1>6, PduFacts DEF Answer
  <2> HIDE DEF pdu
  <2>2. ASSUME NEW p \in PartIds, Answering(p)'
        PROVE  Answering(p) \/ HandingOn(p)
    <3>1. Answering(p) \/ pdu = DeliverResp(p)
      BY <1>2, <2>1, <2>2, OfferedAnswers
    <3>2. pdu = DeliverResp(p) => reader.about = <<"deliver", p>>
      BY <2>1 DEF DeliverResp
    <3> QED
      BY <1>4, <1>6, <3>1, <3>2 DEF HandingOn
  <2>3. \A p \in PartIds : ~HandingOn(p)'
    BY <2>1 DEF HandingOn
  <2>4. \A p \in PartIds : Unread(p) => Unread(p)'
    BY <1>2, <2>2, <2>3 DEF Unread
  <2>5. ASSUME NEW i \in DOMAIN down, Delivers(down[i])
        PROVE  Unread(down[i].about)'
    <3>1. down[i] \in Down
      BY ElementFacts DEF SInv, SmscTypeInv
    <3>2. down[i].about \in PartIds /\ Unread(down[i].about)
      BY <2>5, <3>1, DownFacts DEF KInv, OnceInv, Delivers
    <3>3. down'[i].about = down[i].about
      BY <1>2
    <3> QED
      BY <2>4, <3>2, <3>3 DEF Unread, Answering, HandingOn
  <2>6. OnceInv'
    BY <1>2, <2>3, <2>4, <2>5 DEF KInv, OnceInv, Delivers
  <2>7. ASSUME NEW p \in PartIds, HandingOn(p)
        PROVE  Inbound(p[1]) \in Queued
    <3>1. reader.about[1] = "deliver" /\ reader.about[2] = p
      BY <2>7 DEF HandingOn
    <3>2. q.item.type = "inbound" /\ q.item.about = p[1]
      BY <1>4, <1>6, <3>1 DEF IsPartOf
    <3> QED
      BY <1>3, <3>2, ItemFacts DEF Inbound
  <2>8. KeptInv'
    BY <1>2, <2>2, <2>7, QueuedStays DEF KInv, KeptInv, Inbound
  <2> QED
    BY <2>6, <2>8 DEF KInv
<1> QED
  BY <1>5, <1>6

\* What the SMSC was told it may forget is kept, or handed on.
LEMMA AllKept == Spec => [](SInv /\ KInv)
<1>1. Init => SInv /\ KInv
  BY InitEstablishes, InitKept
<1>2. SInv /\ KInv /\ [Next]_vars => SInv' /\ KInv'
  BY StepKeeps, DeliverySteps, ElsewhereKeeps, DeliversKeeps, ReadPartKeeps, ReadInboundKeeps,
     TakenKeeps
<1> QED
  BY <1>1, <1>2, PTL DEF Spec

\* Whatever the SMSC does, however many messages it delivers, in however many
\* parts and in whatever order: of what it has been told it may forget, a part
\* is in memory or its text is with the forwarder or published; and of the texts
\* whose parts were all confirmed, at most one is not published.
THEOREM AtMostOneAtRisk == Spec => []OneInboundAtRisk
<1>1. SInv /\ KInv => OneInboundAtRisk
  <2> SUFFICES ASSUME SInv, KInv PROVE OneInboundAtRisk
    OBVIOUS
  <2>1. \A p \in Confirmed : p \in PartIds /\ Answering(p)
    BY DEF Confirmed, Answering
  <2>2. \A p \in Confirmed : p \in parts \/ Inbound(p[1]) \in Queued
    BY <2>1 DEF KInv, KeptInv
  <2>3. ASSUME NEW x \in Inbounds, \A p \in PartIds : p[1] = x => p \in Confirmed,
               ~Published(x)
        PROVE  forwarder = Inbound(x)
    <3>1. PICK p \in PartIds : p[1] = x /\ p \notin parts
      BY DEF KInv, KeptInv
    <3>2. Inbound(x) \in Queued
      BY <2>2, <2>3, <3>1
    <3>3. ASSUME NEW i \in DOMAIN fwdq, fwdq[i].item = Inbound(x)
          PROVE  FALSE
      <4>1. fwdq[i].item.type = "inbound" /\ fwdq[i].item.about = x
        BY <3>3 DEF Inbound
      <4>2. reader.at = "forwarding" /\ IsPartOf(reader.about, x) /\ reader.about \in Received
        BY <4>1 DEF SInv, ItemQueueInv, ChannelTypeInv, Readers
      <4>3. PICK r \in PartIds : r[1] = x /\ reader.about = <<"deliver", r>>
        BY <4>2 DEF IsPartOf, Received
      <4>4. HandingOn(r) /\ Answering(r)
        BY <2>1, <2>3, <4>2, <4>3 DEF HandingOn
      <4> QED
        BY <4>4 DEF KInv, OnceInv
    <3>4. ~\E i \in DOMAIN published : published[i] = Inbound(x)
      <4>1. ToSet(published) = {published[i] : i \in DOMAIN published}
        BY ElementFacts DEF SInv, ChannelTypeInv
      <4> QED
        BY <2>3, <4>1 DEF Published, Inbound
    <3> QED
      BY <3>2, <3>3, <3>4, QueuedFacts
  <2>4. ASSUME NEW x \in Inbounds, NEW y \in Inbounds,
               \A p \in PartIds : p[1] \in {x, y} => p \in Confirmed,
               ~Published(x), ~Published(y)
        PROVE  x = y
    <3>1. Inbound(x) = Inbound(y)
      BY <2>3, <2>4
    <3>2. Inbound(x).about = x /\ Inbound(y).about = y
      BY DEF Inbound
    <3> QED
      BY <3>1, <3>2
  <2> QED
    BY <2>2, <2>4 DEF OneInboundAtRisk, Inbound
<1> QED
  BY <1>1, AllKept, PTL

-------------------------------------------------------------------------------
(* What the SMSC says, and what it decides.                                *)

\* The PDUs the reader has not seen, and what the SMSC decided.
Decided == <<smsc.accepted, smsc.refused>>

\* Only the SMSC answering a request brings a response, and decides anything.
LEMMA DownSteps ==
  ASSUME SInv, [Next]_vars, ~SmscAnswers
  PROVE  NoResponseComes /\ UNCHANGED Decided
<1>1. CASE \/ SetupTask \/ EnquiryTask \/ (\E m \in Messages : Handler(m)) \/ Timeouts
           \/ ForwarderTask \/ WriterTakes \/ ReadUnknownResponse \/ ReaderGoesOn \/ UnbindRaises
           \/ UNCHANGED vars
  <2>1. UNCHANGED <<down, smsc>>
    BY <1>1 DEF SetupTask, StartBind, BindAccepted, BindRefused, FinishSetup, EnquiryTask,
         StartEnquiry, EnquiryAnswered, Timeouts, BindTimeout, EnquireLinkTimeout, Raise, vars,
         Handler, HandleOutbound, SegmentAccepted, MessageAccepted, MessageRefused, WrongResponse,
         ForwarderTask, ForwarderTakes, ForwarderPublishes, WriterTakes, ReadUnknownResponse,
         ReaderGoesOn, UnbindRaises, readVars
  <2> QED
    BY <2>1 DEF NoResponseComes, Decided
<1>2. CASE ReadResponse \/ ReadReport \/ ReadInbound \/ ReaderAnswers
  <2>1. down # << >> /\ down' = Tail(down) /\ UNCHANGED smsc
    BY <1>2 DEF ReadResponse, ReadReport, ReadInbound, ReaderAnswers, ReadPart, ReadEnquiry,
         ReadUnknownRequest, ReadUnbind, Reads
  <2> QED
    BY <2>1 DEF NoResponseComes, Decided
<1>3. CASE WriterWrites
  <2>1. UNCHANGED down /\ UNCHANGED Decided
    BY <1>3 DEF WriterWrites, readVars, Decided, SInv, SmscTypeInv
  <2> QED
    BY <2>1 DEF NoResponseComes
<1>4. CASE SmscInitiates
  BY <1>4, InitiatesFacts DEF Verdicts, Decided
<1> QED
  BY <1>1, <1>2, <1>3, <1>4 DEF Next, WriterTask, ReaderTask, ReaderAnswers

\* The handlers.
LEMMA MessageSteps ==
  ASSUME SInv, FInv, [Next]_vars, NEW m \in Messages
  PROVE  \/ step'[m] = step[m] /\ cur'[m] = cur[m] /\ reply'[m] = reply[m]
         \/ HandleOutbound(m) /\ step'[m] = "offering" /\ cur'[m] = 1
         \/ SegmentAccepted(m) /\ cur'[m] = cur[m] + 1 /\ step'[m] # "resumed"
         \/ /\ ReadResponse /\ reply'[m] = Head(down) /\ Head(down).about = RequestOf(m)
            /\ cur'[m] = cur[m] /\ step[m] # "idle"
         \/ /\ step'[m] # "resumed" /\ step[m] # "idle" /\ cur'[m] = cur[m]
            /\ \/ MessageAccepted(m) \/ MessageRefused(m) \/ WrongResponse(m)
               \/ step[m] \in {"offering", "reporting"}
<1>0. /\ step \in [Requesters -> Steps] /\ cur \in [Messages -> Nat]
      /\ reply \in [Requesters -> Responses \cup {None}]
      /\ m \in Requesters /\ m # Bind /\ m # Enquiry /\ m # Reader
  BY ConstantFacts DEF SInv, RequestTypeInv
<1>1. CASE SetupTask \/ EnquiryTask
  BY <1>0, <1>1 DEF SetupTask, StartBind, BindAccepted, BindRefused, FinishSetup, EnquiryTask,
       StartEnquiry, EnquiryAnswered, Raise, SendRequest, requestVars
<1>2. ASSUME NEW u \in Messages, u # m, Handler(u)
      PROVE  step'[m] = step[m] /\ cur'[m] = cur[m] /\ reply'[m] = reply[m]
  BY <1>0, <1>2 DEF Handler, HandleOutbound, SegmentAccepted, MessageAccepted, MessageRefused,
       WrongResponse, SendRequest
<1>3. CASE HandleOutbound(m)
  BY <1>0, <1>3 DEF HandleOutbound, SendRequest
<1>4. CASE SegmentAccepted(m)
  BY <1>0, <1>4 DEF SegmentAccepted, SendRequest
<1>5. CASE MessageAccepted(m) \/ MessageRefused(m) \/ WrongResponse(m)
  BY <1>0, <1>5 DEF MessageAccepted, MessageRefused, WrongResponse
<1>6. CASE WriterTakes
  <2>1. pduq \in Seq(PduOffers) /\ pduq # << >>
    BY <1>6 DEF WriterTakes, SInv, ChannelTypeInv
  <2>2. Head(pduq) = pduq[1] /\ 1 \in DOMAIN pduq
    BY <2>1, TailFacts
  <2>3. Head(pduq).task # Reader => step[Head(pduq).task] = "offering"
    BY <2>2 DEF FInv, RequestQueueInv
  <2>4. \/ UNCHANGED step
        \/ Head(pduq).task # Reader /\ step' = [step EXCEPT ![Head(pduq).task] = "waiting"]
    BY <1>6 DEF WriterTakes
  <2>5. UNCHANGED <<cur, reply>>
    BY <1>6 DEF WriterTakes
  <2> QED
    BY <1>0, <2>3, <2>4, <2>5
<1>7. CASE ForwarderTakes
  <2>1. fwdq \in Seq(ItemOffers) /\ fwdq # << >>
    BY <1>7 DEF ForwarderTakes, SInv, ChannelTypeInv
  <2>2. Head(fwdq) = fwdq[1] /\ 1 \in DOMAIN fwdq
    BY <2>1, TailFacts
  <2>3. Head(fwdq).task # Reader => step[Head(fwdq).task] = "reporting"
    BY <2>2 DEF FInv, OutcomeQueueInv
  <2>4. \/ UNCHANGED step
        \/ Head(fwdq).task # Reader /\ step' = [step EXCEPT ![Head(fwdq).task] = "ended"]
    BY <1>7 DEF ForwarderTakes
  <2>5. UNCHANGED <<cur, reply>>
    BY <1>7 DEF ForwarderTakes
  <2> QED
    BY <1>0, <2>3, <2>4, <2>5
<1>8. CASE ReadResponse
  <2> DEFINE d == Head(down)
             t == responses[d.seq]
  <2>1. t \in Requesters /\ step[t] = "waiting" /\ d.about = RequestOf(t)
    BY <1>8, ResponseOwner
  <2>2. /\ step' = [step EXCEPT ![t] = "resumed"] /\ reply' = [reply EXCEPT ![t] = d]
        /\ UNCHANGED cur
    BY <1>8 DEF ReadResponse
  <2> HIDE DEF t
  <2> QED
    BY <1>0, <1>8, <2>1, <2>2
<1>9. CASE \/ Timeouts \/ WriterWrites \/ SmscAnswers \/ SmscInitiates \/ ForwarderPublishes
           \/ ReadUnknownResponse \/ ReaderGoesOn \/ ReadReport \/ ReadInbound \/ ReaderAnswers
           \/ UnbindRaises \/ UNCHANGED vars
  <2>1. UNCHANGED requestVars
    BY <1>9 DEF Timeouts, BindTimeout, EnquireLinkTimeout, WriterWrites, SmscAnswers,
         SmscAccepts, SmscRefuses, SmscInitiates, SmscReports, SmscDelivers, SmscEnquires,
         SmscUnbinds, SmscStalls, SmscStrays, Sends, ForwarderPublishes, ReadUnknownResponse,
         ReaderGoesOn, ReadReport, ReadInbound, ReaderAnswers, ReadPart, ReadEnquiry,
         ReadUnknownRequest, ReadUnbind, UnbindRaises, Raise, vars
  <2> QED
    BY <2>1 DEF requestVars
<1> QED
  BY <1>1, <1>2, <1>3, <1>4, <1>5, <1>6, <1>7, <1>8, <1>9
     DEF Next, Handler, WriterTask, ReaderTask, ReaderAnswers, ForwarderTask

-------------------------------------------------------------------------------
(* What the SMSC said is what it did.                                      *)

Verdict(d) == IF d.status = "ok" THEN smsc.accepted ELSE smsc.refused

TruthfulInv ==
  /\ \A i \in DOMAIN down : IsResponse(down[i]) /\ down[i].about \in SegmentIds =>
       down[i].about \in Verdict(down[i])
  /\ \A m \in Messages : step[m] = "resumed" => reply[m].about \in Verdict(reply[m])
  /\ \A m \in Messages : step[m] # "idle" =>
       \A i \in 1 .. cur[m] - 1 : <<m, i>> \in smsc.accepted

OInv == TruthfulInv /\ OutcomeIsTrue

\* The SMSC's answer is its decision, and it takes none back.
LEMMA AnswersTrue ==
  ASSUME SInv, FInv, SmscAnswers,
         \A i \in DOMAIN down : IsResponse(down[i]) /\ down[i].about \in SegmentIds =>
           down[i].about \in Verdict(down[i])
  PROVE  /\ smsc.accepted \subseteq smsc'.accepted /\ smsc.refused \subseteq smsc'.refused
         /\ \A i \in DOMAIN down' : IsResponse(down'[i]) /\ down'[i].about \in SegmentIds =>
              down'[i].about \in (IF down'[i].status = "ok" THEN smsc'.accepted ELSE smsc'.refused)
<1>1. PICK pdu \in smsc.todo, how \in {"ok", "error", "generic_nack"} :
        /\ down' = Append(down, [type |-> "response", about |-> pdu.about, seq |-> pdu.seq,
                                 status |-> how])
        /\ smsc.accepted \subseteq smsc'.accepted /\ smsc.refused \subseteq smsc'.refused
        /\ pdu.about \in SegmentIds =>
             pdu.about \in (IF how = "ok" THEN smsc'.accepted ELSE smsc'.refused)
  <2>1. ASSUME NEW pdu \in smsc.todo, SmscAccepts(pdu)
        PROVE  /\ down' = Append(down, [type |-> "response", about |-> pdu.about,
                                        seq |-> pdu.seq, status |-> "ok"])
               /\ smsc.accepted \subseteq smsc'.accepted /\ smsc.refused \subseteq smsc'.refused
               /\ pdu.about \in SegmentIds => pdu.about \in smsc'.accepted
    BY <2>1 DEF SmscAccepts, Sends, SInv, SmscTypeInv
  <2>2. ASSUME NEW pdu \in smsc.todo, NEW how \in Refusals, SmscRefuses(pdu, how)
        PROVE  /\ how \in {"error", "generic_nack"}
               /\ down' = Append(down, [type |-> "response", about |-> pdu.about,
                                        seq |-> pdu.seq, status |-> how])
               /\ smsc.accepted \subseteq smsc'.accepted /\ smsc.refused \subseteq smsc'.refused
               /\ pdu.about \in SegmentIds => pdu.about \in smsc'.refused
    BY <2>2, SmppSessionAssumption DEF SmscRefuses, Sends, SInv, SmscTypeInv
  <2> QED
    BY <2>1, <2>2 DEF SmscAnswers
<1> DEFINE d == [type |-> "response", about |-> pdu.about, seq |-> pdu.seq, status |-> how]
<1>2. d.about = pdu.about /\ d.status = how
  OBVIOUS
<1>3. d \in Down /\ down' = Append(down, d)
  <2>1. pdu.about \in SegmentIds \cup {Bind, Enquiry} /\ pdu.seq \in 1 .. SeqLimit
    BY PduFacts DEF SInv, SmscTypeInv
  <2> QED
    BY <1>1, <2>1 DEF Down, Responses
<1> HIDE DEF d
<1>4. \A i \in DOMAIN down' : \/ i \in DOMAIN down /\ down'[i] = down[i]
                              \/ down'[i] = d
  BY <1>3, AppendFacts DEF SInv, SmscTypeInv
<1> QED
  BY <1>1, <1>2, <1>4 DEF Verdict

\* No step makes a response say what the SMSC did not do.
LEMMA TruthKept ==
  ASSUME SInv, SInv', FInv, TruthfulInv, [Next]_vars
  PROVE  TruthfulInv' /\ smsc.accepted \subseteq smsc'.accepted /\ smsc.refused \subseteq smsc'.refused
<1>1. /\ smsc.accepted \subseteq smsc'.accepted /\ smsc.refused \subseteq smsc'.refused
      /\ \A i \in DOMAIN down' : IsResponse(down'[i]) /\ down'[i].about \in SegmentIds =>
           down'[i].about \in (IF down'[i].status = "ok" THEN smsc'.accepted ELSE smsc'.refused)
  <2>1. CASE SmscAnswers
    BY <2>1, AnswersTrue DEF TruthfulInv
  <2>2. CASE ~SmscAnswers
    <3>1. NoResponseComes /\ UNCHANGED Decided
      BY <2>2, DownSteps
    <3>2. \A i \in DOMAIN down' : IsResponse(down'[i]) => \E k \in DOMAIN down : down'[i] = down[k]
      BY <3>1, NoResponseFacts
    <3> QED
      BY <3>1, <3>2 DEF TruthfulInv, Decided, Verdict
  <2> QED
    BY <2>1, <2>2
<1>2. ASSUME NEW m \in Messages, step[m] # "idle"
      PROVE  <<m, cur[m]>> \in SegmentIds /\ RequestOf(m) = <<m, cur[m]>>
             /\ cur[m] \in Nat \ {0}
  <2>1. RequestOf(m) = <<m, cur[m]>>
    BY DEF RequestOf
  <2>2. cur[m] \in 1 .. Segments[m] /\ Segments[m] \in Nat
    BY <1>2, SegmentFacts DEF FInv, StartedInv
  <2> QED
    BY <2>1, <2>2, SegmentFacts
<1>3. ASSUME NEW m \in Messages, step'[m] = "resumed"
      PROVE  reply'[m].about \in (IF reply'[m].status = "ok" THEN smsc'.accepted ELSE smsc'.refused)
  <2>1. CASE step'[m] = step[m] /\ reply'[m] = reply[m]
    BY <1>1, <1>3, <2>1 DEF TruthfulInv, Verdict
  <2>2. CASE ReadResponse /\ reply'[m] = Head(down) /\ Head(down).about = RequestOf(m)
             /\ step[m] # "idle"
    <3>1. Head(down) = down[1] /\ 1 \in DOMAIN down /\ IsResponse(Head(down))
      BY <2>2, ResponseOwner
    <3> QED
      BY <1>1, <1>2, <2>2, <3>1 DEF TruthfulInv, Verdict
  <2> QED
    BY <1>3, <2>1, <2>2, MessageSteps
<1>4. ASSUME NEW m \in Messages, step'[m] # "idle", NEW i \in 1 .. cur'[m] - 1
      PROVE  <<m, i>> \in smsc'.accepted
  <2>1. CASE step[m] # "idle" /\ cur'[m] = cur[m]
    BY <1>1, <1>4, <2>1 DEF TruthfulInv
  <2>2. CASE cur'[m] = 1
    BY <1>4, <2>2
  <2>3. CASE SegmentAccepted(m) /\ cur'[m] = cur[m] + 1
    <3>1. step[m] = "resumed" /\ reply[m].status = "ok" /\ step[m] # "idle"
      BY <2>3 DEF SegmentAccepted
    <3>2. reply[m].about = <<m, cur[m]>> /\ cur[m] \in Nat \ {0}
      BY <1>2, <3>1, ConstantFacts DEF FInv, ReplyInv
    <3>3. <<m, cur[m]>> \in smsc.accepted
      BY <3>1, <3>2 DEF TruthfulInv, Verdict
    <3>4. i \in 1 .. cur[m] - 1 \/ i = cur[m]
      BY <2>3, <3>2
    <3>5. \A k \in 1 .. cur[m] - 1 : <<m, k>> \in smsc.accepted
      BY <3>1 DEF TruthfulInv
    <3> QED
      BY <1>1, <3>3, <3>4, <3>5
  <2> QED
    BY <1>4, <2>1, <2>2, <2>3, MessageSteps
<1> QED
  BY <1>1, <1>3, <1>4 DEF TruthfulInv, Verdict, IsResponse

\* The response to the last segment that a resumed handler sent.
LEMMA LastResponse ==
  ASSUME SInv, FInv, NEW m \in Messages, step[m] = "resumed"
  PROVE  /\ reply[m].about = <<m, cur[m]>> /\ <<m, cur[m]>> \in SegmentIds
         /\ cur[m] \in 1 .. Segments[m] /\ reply[m] \in Responses
<1>1. RequestOf(m) = <<m, cur[m]>> /\ m \in Requesters
  BY ConstantFacts DEF RequestOf
<1>2. cur[m] \in 1 .. Segments[m] /\ Segments[m] \in Nat
  BY SegmentFacts DEF FInv, StartedInv
<1> QED
  BY <1>1, <1>2, SegmentFacts DEF FInv, ReplyInv

\* No step tells the application what did not happen.
LEMMA OutcomeKept ==
  ASSUME SInv, SInv', FInv, OInv, [Next]_vars
  PROVE  OInv'
<1>1. TruthfulInv' /\ smsc.accepted \subseteq smsc'.accepted /\ smsc.refused \subseteq smsc'.refused
  BY TruthKept DEF OInv
<1>2. ASSUME NEW m \in Messages, Ack(m) \in Queued', NEW s \in SegmentIds, s[1] = m
      PROVE  s \in smsc'.accepted
  <2>1. CASE Ack(m) \in Queued
    BY <1>1, <1>2, <2>1 DEF OInv, OutcomeIsTrue, Ack
  <2>2. CASE MessageAccepted(m)
    <3>1. step[m] = "resumed" /\ reply[m].status = "ok" /\ cur[m] = Segments[m]
      BY <2>2 DEF MessageAccepted
    <3>2. <<m, cur[m]>> \in smsc.accepted /\ step[m] # "idle"
      BY <3>1, LastResponse DEF OInv, TruthfulInv, Verdict
    <3>3. s = <<m, s[2]>> /\ s[2] \in 1 .. cur[m] /\ cur[m] \in Nat \ {0}
      BY <1>2, <3>1, SegmentFacts
    <3>4. s[2] = cur[m] \/ s[2] \in 1 .. cur[m] - 1
      BY <3>3
    <3>5. \A k \in 1 .. cur[m] - 1 : <<m, k>> \in smsc.accepted
      BY <3>2 DEF OInv, TruthfulInv
    <3>6. s \in smsc.accepted
      BY <3>2, <3>3, <3>4, <3>5
    <3> QED
      BY <1>1, <3>6
  <2>3. Ack(m) \in Queued \/ MessageAccepted(m)
    <3>1. ASSUME NEW u \in Messages PROVE Ack(m) # Nack(u) /\ (Ack(m) = Ack(u) => m = u)
      <4>1. Ack(m).type = "ack" /\ Nack(u).type = "nack" /\ Ack(m).about = m /\ Ack(u).about = u
        BY DEF Ack, Nack
      <4> QED
        BY <4>1
    <3>2. Ack(m).type = "ack"
      BY DEF Ack
    <3> QED
      BY <1>2, <3>1, <3>2, QueuedGrows
  <2> QED
    BY <2>1, <2>2, <2>3
<1>3. ASSUME NEW m \in Messages, Nack(m) \in Queued'
      PROVE  \E s \in SegmentIds : s[1] = m /\ s \in smsc'.refused
  <2>1. CASE Nack(m) \in Queued
    BY <1>1, <1>3, <2>1 DEF OInv, OutcomeIsTrue, Nack
  <2>2. CASE MessageRefused(m)
    <3>1. step[m] = "resumed" /\ reply[m].status = "error"
      BY <2>2 DEF MessageRefused
    <3>2. <<m, cur[m]>> \in smsc.refused /\ <<m, cur[m]>> \in SegmentIds
      BY <3>1, LastResponse DEF OInv, TruthfulInv, Verdict
    <3> QED
      BY <1>1, <3>2
  <2>3. Nack(m) \in Queued \/ MessageRefused(m)
    <3>1. ASSUME NEW u \in Messages PROVE Nack(m) # Ack(u) /\ (Nack(m) = Nack(u) => m = u)
      <4>1. Nack(m).type = "nack" /\ Ack(u).type = "ack" /\ Nack(m).about = m /\ Nack(u).about = u
        BY DEF Ack, Nack
      <4> QED
        BY <4>1
    <3>2. Nack(m).type = "nack"
      BY DEF Nack
    <3> QED
      BY <1>3, <3>1, <3>2, QueuedGrows
  <2> QED
    BY <2>1, <2>2, <2>3
<1>4. OutcomeIsTrue'
  BY <1>2, <1>3 DEF OutcomeIsTrue, Ack, Nack
<1> QED
  BY <1>1, <1>4 DEF OInv

\* What the application is told of a message is what the SMSC decided, if pending
\* requests keep their numbers to themselves.
THEOREM OutcomesTrue == Spec /\ []NumbersApart => []OutcomeIsTrue
<1>1. Init => OInv
  <2> SUFFICES ASSUME Init PROVE OInv
    OBVIOUS
  <2>1. TruthfulInv
    BY ConstantFacts DEF Init, TruthfulInv
  <2>2. Queued = {}
    BY DEF Init, Queued, ToSet
  <2> QED
    BY <2>1, <2>2 DEF OInv, OutcomeIsTrue
<1>2. SInv /\ SInv' /\ FInv /\ OInv /\ [Next]_vars => OInv'
  BY OutcomeKept
<1>3. OInv => OutcomeIsTrue
  BY DEF OInv
<1> QED
  BY <1>1, <1>2, <1>3, RequestsInvariant, PTL DEF Spec

-------------------------------------------------------------------------------
(* Reports do not overtake acks.                                           *)

\* The report of a message that fits one PDU.
IsReportItem(x) == x.type \in {"pending", "final"} /\ Segments[x.about] = 1

\* The ack of a message whose id is known is in line, in front of its reports.
LineInv ==
  /\ forwarder # None /\ IsReportItem(forwarder) => Ack(forwarder.about) \in ToSet(published)
  /\ \A i \in DOMAIN fwdq : IsReportItem(fwdq[i].item) =>
       \/ Ack(fwdq[i].item.about) \in ToSet(published) \cup {forwarder}
       \/ \E j \in 1 .. i - 1 : fwdq[j].item = Ack(fwdq[i].item.about)
  /\ \A s \in SegmentIds : ids[s] # None => ids[s] = s[1]
  /\ \A m \in Messages : Segments[m] = 1 /\ ids[<<m, 1>>] # None => Ack(m) \in Queued

LInv == AckBeforeReport /\ LineInv

\* The ids that a step stores or removes.
LEMMA IdsSteps ==
  ASSUME SInv, FInv, [Next]_vars
  PROVE  \/ UNCHANGED ids
         \/ \E m \in Messages : /\ SegmentAccepted(m) \/ MessageAccepted(m)
                                /\ step[m] = "resumed" /\ <<m, cur[m]>> \in SegmentIds
                                /\ ids' = [ids EXCEPT ![<<m, cur[m]>>] = m]
         \/ ReadReport /\ ids' = [ids EXCEPT ![Head(down).about] = None]
<1>1. ASSUME NEW m \in Messages, SegmentAccepted(m) \/ MessageAccepted(m)
      PROVE  /\ step[m] = "resumed" /\ <<m, cur[m]>> \in SegmentIds
             /\ ids' = [ids EXCEPT ![<<m, cur[m]>>] = m]
  BY <1>1, LastResponse DEF SegmentAccepted, MessageAccepted
<1>2. CASE ReadReport
  BY <1>2 DEF ReadReport
<1>3. CASE SetupTask \/ EnquiryTask \/ Timeouts \/ ForwarderTask \/ UNCHANGED vars
  BY <1>3 DEF SetupTask, StartBind, BindAccepted, BindRefused, FinishSetup, EnquiryTask,
       StartEnquiry, EnquiryAnswered, Timeouts, BindTimeout, EnquireLinkTimeout, Raise, vars,
       ForwarderTask, ForwarderTakes, ForwarderPublishes
<1>4. CASE \E m \in Messages : HandleOutbound(m) \/ MessageRefused(m) \/ WrongResponse(m)
  BY <1>4 DEF HandleOutbound, MessageRefused, WrongResponse
<1>5. CASE \/ WriterTask \/ SmscAnswers \/ SmscInitiates
           \/ ReadResponse \/ ReadUnknownResponse \/ ReaderGoesOn \/ ReadInbound \/ ReaderAnswers
           \/ UnbindRaises
  BY <1>5 DEF WriterTask, WriterTakes, WriterWrites, SmscAnswers, SmscAccepts, SmscRefuses,
       SmscInitiates, SmscReports, SmscDelivers, SmscEnquires, SmscUnbinds, SmscStalls,
       SmscStrays, Sends, ReadResponse, ReadUnknownResponse, ReaderGoesOn, ReadInbound,
       ReaderAnswers, ReadPart, ReadEnquiry, ReadUnknownRequest, ReadUnbind, UnbindRaises, Raise
<1> QED
  BY <1>1, <1>2, <1>3, <1>4, <1>5 DEF Next, Handler, ReaderTask, ReaderAnswers

\* Whoever joins the line with a report stands behind the ack.
LEMMA LineOffered ==
  ASSUME SInv, SInv', LineInv, NEW t \in Messages \cup {Reader}, NEW item \in Items,
         OfferItem(t, item), UNCHANGED forwardVars,
         IsReportItem(item) => Ack(item.about) \in Queued
  PROVE  \A i \in DOMAIN fwdq' : IsReportItem(fwdq'[i].item) =>
           \/ Ack(fwdq'[i].item.about) \in ToSet(published) \cup {forwarder}
           \/ \E j \in 1 .. i - 1 : fwdq'[j].item = Ack(fwdq'[i].item.about)
<1> DEFINE q == [task |-> t, item |-> item]
<1>1. q \in ItemOffers /\ q.item = item
  BY ItemFacts
<1>2. fwdq \in Seq(ItemOffers) /\ fwdq' = Append(fwdq, q)
  BY DEF SInv, ChannelTypeInv, OfferItem
<1> HIDE DEF q
<1>3. /\ DOMAIN fwdq = 1 .. Len(fwdq) /\ Len(fwdq) \in Nat
      /\ \A i \in DOMAIN fwdq : fwdq'[i] = fwdq[i]
      /\ \A i \in DOMAIN fwdq' : i \in DOMAIN fwdq \/ (i = Len(fwdq) + 1 /\ fwdq'[i] = q)
  BY <1>1, <1>2, AppendFacts
<1> SUFFICES ASSUME NEW i \in DOMAIN fwdq', IsReportItem(fwdq'[i].item)
             PROVE  \/ Ack(fwdq'[i].item.about) \in ToSet(published) \cup {forwarder}
                    \/ \E j \in 1 .. i - 1 : fwdq'[j].item = Ack(fwdq'[i].item.about)
  OBVIOUS
<1>4. CASE i \in DOMAIN fwdq
  <2>1. \A j \in 1 .. i - 1 : j \in DOMAIN fwdq
    BY <1>3, <1>4
  <2>2. fwdq'[i] = fwdq[i] /\ IsReportItem(fwdq[i].item)
    BY <1>3, <1>4
  <2> QED
    BY <1>3, <1>4, <2>1, <2>2 DEF LineInv
<1>5. CASE i = Len(fwdq) + 1 /\ fwdq'[i] = q
  <2>1. Ack(item.about) \in Queued
    BY <1>1, <1>5
  <2>2. \/ \E j \in DOMAIN fwdq : fwdq[j].item = Ack(item.about)
        \/ Ack(item.about) \in ToSet(published) \cup {forwarder}
    <3>1. ToSet(fwdq) = {fwdq[j] : j \in DOMAIN fwdq}
      BY <1>2, ElementFacts
    <3> QED
      BY <2>1, <3>1 DEF Queued
  <2>3. DOMAIN fwdq = 1 .. i - 1
    BY <1>3, <1>5
  <2> QED
    BY <1>1, <1>3, <1>5, <2>2, <2>3
<1> QED
  BY <1>3, <1>4, <1>5

\* The forwarder takes an ack before the reports behind it, and publishes it first.
LEMMA LineMoves ==
  ASSUME SInv, SInv', LInv, ForwarderTakes \/ ForwarderPublishes
  PROVE  /\ AckBeforeReport'
         /\ forwarder' # None /\ IsReportItem(forwarder') => Ack(forwarder'.about) \in ToSet(published')
         /\ \A i \in DOMAIN fwdq' : IsReportItem(fwdq'[i].item) =>
              \/ Ack(fwdq'[i].item.about) \in ToSet(published') \cup {forwarder'}
              \/ \E j \in 1 .. i - 1 : fwdq'[j].item = Ack(fwdq'[i].item.about)
<1>1. CASE ForwarderTakes
  <2>1. /\ fwdq \in Seq(ItemOffers) /\ fwdq # << >> /\ fwdq' = Tail(fwdq)
        /\ forwarder = None /\ forwarder' = Head(fwdq).item /\ published' = published
    BY <1>1 DEF ForwarderTakes, SInv, ChannelTypeInv
  <2>2. /\ Head(fwdq) = fwdq[1] /\ 1 \in DOMAIN fwdq /\ DOMAIN fwdq \subseteq Nat \ {0}
        /\ \A i \in DOMAIN fwdq' : fwdq'[i] = fwdq[i + 1] /\ i + 1 \in DOMAIN fwdq /\ i \in Nat \ {0}
        /\ \A i \in DOMAIN fwdq : i = 1 \/ (i - 1 \in DOMAIN fwdq' /\ fwdq'[i - 1] = fwdq[i])
    BY <2>1, TailFacts
  <2>3. \A x \in Messages : Ack(x) # None
    BY ItemFacts, ConstantFacts DEF Ack
  <2>4. \A i \in DOMAIN fwdq : IsReportItem(fwdq[i].item) => fwdq[i].item.about \in Messages
    <3>1. \A i \in DOMAIN fwdq : fwdq[i].item \in Items
      BY <2>1, ElementFacts, ItemFacts
    <3>2. \A x \in Items : x.type \in {"pending", "final"} => x.about \in Messages
      BY DEF Items
    <3> QED
      BY <3>1, <3>2 DEF IsReportItem
  <2>5. ASSUME IsReportItem(forwarder')
        PROVE  Ack(forwarder'.about) \in ToSet(published')
    <3>1. /\ forwarder' = fwdq[1].item /\ forwarder'.about \in Messages
      BY <2>1, <2>2, <2>4, <2>5
    <3>2. \A j \in 1 .. 1 - 1 : FALSE
      OBVIOUS
    <3>3. Ack(fwdq[1].item.about) \in ToSet(published) \cup {None}
      BY <2>1, <2>2, <2>5, <3>1, <3>2 DEF LInv, LineInv
    <3> QED
      BY <2>1, <2>3, <3>1, <3>3
  <2>6. ASSUME NEW i \in DOMAIN fwdq', IsReportItem(fwdq'[i].item)
        PROVE  \/ Ack(fwdq'[i].item.about) \in ToSet(published') \cup {forwarder'}
               \/ \E j \in 1 .. i - 1 : fwdq'[j].item = Ack(fwdq'[i].item.about)
    <3>1. /\ fwdq'[i] = fwdq[i + 1] /\ i + 1 \in DOMAIN fwdq /\ i \in Nat \ {0}
          /\ IsReportItem(fwdq[i + 1].item) /\ fwdq[i + 1].item.about \in Messages
      BY <2>2, <2>4, <2>6
    <3>2. \/ Ack(fwdq[i + 1].item.about) \in ToSet(published) \cup {None}
          \/ \E j \in 1 .. (i + 1) - 1 : fwdq[j].item = Ack(fwdq[i + 1].item.about)
      BY <2>1, <3>1 DEF LInv, LineInv
    <3>3. CASE Ack(fwdq[i + 1].item.about) \in ToSet(published) \cup {None}
      BY <2>1, <2>3, <3>1, <3>3
    <3>4. ASSUME NEW j \in 1 .. (i + 1) - 1, fwdq[j].item = Ack(fwdq[i + 1].item.about)
          PROVE  \/ Ack(fwdq[i + 1].item.about) = forwarder'
                 \/ \E k \in 1 .. i - 1 : fwdq'[k].item = Ack(fwdq[i + 1].item.about)
      <4>1. CASE j = 1
        BY <2>1, <2>2, <3>4, <4>1
      <4>2. CASE j # 1
        <5>1. j - 1 \in 1 .. i - 1 /\ (j - 1) + 1 = j
          BY <3>1, <3>4, <4>2
        <5>2. j \in DOMAIN fwdq
          BY <2>1, <3>1, <3>4, <5>1
        <5>3. fwdq'[j - 1] = fwdq[j]
          BY <2>2, <4>2, <5>2
        <5> QED
          BY <3>4, <5>1, <5>3
      <4> QED
        BY <4>1, <4>2
    <3> QED
      BY <3>1, <3>2, <3>3, <3>4
  <2>7. AckBeforeReport'
    BY <2>1 DEF LInv, AckBeforeReport
  <2> QED
    BY <2>5, <2>6, <2>7
<1>2. CASE ForwarderPublishes
  <2>1. /\ forwarder \in Items /\ forwarder # None /\ forwarder' = None
        /\ published' = Append(published, forwarder)
        /\ UNCHANGED fwdq /\ published \in Seq(Items)
    BY <1>2, ConstantFacts DEF ForwarderPublishes, SInv, ChannelTypeInv
  <2>2. /\ ToSet(published') = ToSet(published) \cup {forwarder}
        /\ ToSet(published) = {published[i] : i \in DOMAIN published}
    BY <2>1, ElementFacts
  <2>3. /\ DOMAIN published = 1 .. Len(published) /\ Len(published) \in Nat
        /\ \A i \in DOMAIN published : published'[i] = published[i]
        /\ \A i \in DOMAIN published' : \/ i \in DOMAIN published
                                        \/ i = Len(published) + 1 /\ published'[i] = forwarder
    BY <2>1, AppendFacts
  <2>4. ASSUME NEW i \in DOMAIN published', published'[i].type \in {"pending", "final"},
               Segments[published'[i].about] = 1
        PROVE  \E j \in 1 .. i - 1 : published'[j] = [type |-> "ack", about |-> published'[i].about]
    <3>1. CASE i \in DOMAIN published
      <4>1. PICK j \in 1 .. i - 1 : published[j] = [type |-> "ack", about |-> published[i].about]
        BY <2>3, <2>4, <3>1 DEF LInv, AckBeforeReport
      <4>2. j \in DOMAIN published
        BY <2>3, <3>1, <4>1
      <4> QED
        BY <2>3, <3>1, <4>1, <4>2
    <3>2. CASE i = Len(published) + 1 /\ published'[i] = forwarder
      <4>1. Ack(forwarder.about) \in ToSet(published)
        BY <2>1, <2>4, <3>2 DEF LInv, LineInv, IsReportItem
      <4>2. PICK j \in DOMAIN published : published[j] = Ack(forwarder.about)
        BY <2>2, <4>1
      <4>3. j \in 1 .. i - 1
        BY <2>3, <3>2
      <4> QED
        BY <2>3, <3>2, <4>2, <4>3 DEF Ack
    <3> QED
      BY <2>3, <3>1, <3>2
  <2>5. AckBeforeReport'
    BY <2>4 DEF AckBeforeReport
  <2>6. ASSUME NEW i \in DOMAIN fwdq', IsReportItem(fwdq'[i].item)
        PROVE  \/ Ack(fwdq'[i].item.about) \in ToSet(published') \cup {forwarder'}
               \/ \E j \in 1 .. i - 1 : fwdq'[j].item = Ack(fwdq'[i].item.about)
    BY <2>1, <2>2, <2>6 DEF LInv, LineInv
  <2> QED
    BY <2>1, <2>5, <2>6
<1> QED
  BY <1>1, <1>2

\* No step brings a report in front of the ack of its message.
LEMMA LineKept ==
  ASSUME SInv, SInv', FInv, LInv, [Next]_vars
  PROVE  LInv'
<1>0. ids \in [SegmentIds -> Messages \cup {None}]
  BY DEF SInv, RequestTypeInv
<1>1. ASSUME NEW s \in SegmentIds, ids'[s] # None
      PROVE  ids'[s] = s[1]
  <2>1. CASE UNCHANGED ids
    BY <1>1, <2>1 DEF LInv, LineInv
  <2>2. ASSUME NEW m \in Messages, ids' = [ids EXCEPT ![<<m, cur[m]>>] = m]
        PROVE  ids'[s] = s[1]
    <3>1. CASE s = <<m, cur[m]>>
      BY <1>0, <2>2, <3>1
    <3>2. CASE s # <<m, cur[m]>>
      BY <1>0, <1>1, <2>2, <3>2 DEF LInv, LineInv
    <3> QED
      BY <3>1, <3>2
  <2>3. CASE ids' = [ids EXCEPT ![Head(down).about] = None]
    BY <1>0, <1>1, <2>3 DEF LInv, LineInv
  <2> QED
    BY <2>1, <2>2, <2>3, IdsSteps
<1>2. Queued \subseteq Queued'
  BY QueuedGrows
<1>3. ASSUME NEW m \in Messages, Segments[m] = 1, ids'[<<m, 1>>] # None
      PROVE  Ack(m) \in Queued'
  <2>0. <<m, 1>> \in SegmentIds
    BY <1>3, SegmentFacts
  <2>1. CASE ids[<<m, 1>>] # None
    BY <1>2, <1>3, <2>1 DEF LInv, LineInv
  <2>2. CASE ids[<<m, 1>>] = None
    <3>1. PICK u \in Messages :
            /\ SegmentAccepted(u) \/ MessageAccepted(u)
            /\ ids' = [ids EXCEPT ![<<u, cur[u]>>] = u]
      BY <1>0, <1>3, <2>0, <2>2, IdsSteps
    <3>2. <<u, cur[u]>> = <<m, 1>>
      BY <1>0, <1>3, <2>0, <2>2, <3>1
    <3>3. u = m /\ cur[m] = 1
      BY <3>2
    <3>4. ~SegmentAccepted(m)
      BY <1>3, <3>3 DEF SegmentAccepted
    <3>5. MessageAccepted(m)
      BY <3>1, <3>3, <3>4
    <3>6. OfferItem(m, Ack(m)) /\ UNCHANGED forwardVars /\ Ack(m) \in Items
      BY <3>5, ItemFacts DEF MessageAccepted, Ack
    <3> QED
      BY <3>6, QueuedOffered
  <2> QED
    BY <2>1, <2>2
<1>4. /\ AckBeforeReport'
      /\ forwarder' # None /\ IsReportItem(forwarder') => Ack(forwarder'.about) \in ToSet(published')
      /\ \A i \in DOMAIN fwdq' : IsReportItem(fwdq'[i].item) =>
           \/ Ack(fwdq'[i].item.about) \in ToSet(published') \cup {forwarder'}
           \/ \E j \in 1 .. i - 1 : fwdq'[j].item = Ack(fwdq'[i].item.about)
  <2>1. CASE UNCHANGED <<fwdq, forwardVars>>
    BY <2>1 DEF LInv, LineInv, AckBeforeReport, forwardVars
  <2>2. CASE ForwarderTakes \/ ForwarderPublishes
    BY <2>2, LineMoves
  <2>3. ASSUME NEW t \in Messages \cup {Reader}, NEW item \in Items, OfferItem(t, item),
               UNCHANGED forwardVars, IsReportItem(item) => Ack(item.about) \in Queued
        PROVE  /\ AckBeforeReport'
               /\ forwarder' # None /\ IsReportItem(forwarder') =>
                    Ack(forwarder'.about) \in ToSet(published')
               /\ \A i \in DOMAIN fwdq' : IsReportItem(fwdq'[i].item) =>
                    \/ Ack(fwdq'[i].item.about) \in ToSet(published') \cup {forwarder'}
                    \/ \E j \in 1 .. i - 1 : fwdq'[j].item = Ack(fwdq'[i].item.about)
    <3>1. UNCHANGED <<forwarder, published>>
      BY <2>3 DEF forwardVars
    <3>2. AckBeforeReport' /\ (forwarder' # None /\ IsReportItem(forwarder') =>
                                 Ack(forwarder'.about) \in ToSet(published'))
      BY <3>1 DEF LInv, LineInv, AckBeforeReport
    <3>3. \A i \in DOMAIN fwdq' : IsReportItem(fwdq'[i].item) =>
            \/ Ack(fwdq'[i].item.about) \in ToSet(published) \cup {forwarder}
            \/ \E j \in 1 .. i - 1 : fwdq'[j].item = Ack(fwdq'[i].item.about)
      BY <2>3, LineOffered DEF LInv
    <3> QED
      BY <3>1, <3>2, <3>3
  <2>4. ASSUME NEW m \in Messages
        PROVE  /\ Ack(m) \in Items /\ ~IsReportItem(Ack(m))
               /\ Nack(m) \in Items /\ ~IsReportItem(Nack(m))
    BY ItemFacts DEF Ack, Nack, IsReportItem
  <2>5. ASSUME NEW x \in Inbounds
        PROVE  /\ [type |-> "inbound", about |-> x] \in Items
               /\ ~IsReportItem([type |-> "inbound", about |-> x])
    BY ItemFacts DEF IsReportItem
  <2>6. ASSUME NEW s \in SegmentIds, NEW type \in {"pending", "final"}, ids[s] \in Messages,
               Segments[ids[s]] = 1
        PROVE  Ack(ids[s]) \in Queued
    <3>1. ids[s] # None /\ ids[s] = s[1]
      BY <2>6, ConstantFacts DEF LInv, LineInv
    <3>2. s[2] \in 1 .. 1 /\ s = <<s[1], s[2]>>
      BY <2>6, <3>1, SegmentFacts
    <3>3. s = <<ids[s], 1>>
      BY <3>1, <3>2
    <3> QED
      BY <2>6, <3>1, <3>3 DEF LInv, LineInv
  <2>7. ASSUME NEW s \in SegmentIds, NEW type \in {"pending", "final"}, ids[s] \in Messages
        PROVE  /\ [type |-> type, about |-> ids[s]] \in Items
               /\ IsReportItem([type |-> type, about |-> ids[s]]) =>
                    Ack([type |-> type, about |-> ids[s]].about) \in Queued
    BY <2>6, <2>7, ItemFacts DEF IsReportItem
  <2> QED
    BY <2>1, <2>2, <2>3, <2>4, <2>5, <2>7, LineSteps
<1> QED
  BY <1>1, <1>3, <1>4 DEF LInv, LineInv, IsReportItem, Ack

\* The report of a message of one PDU is published after its ack, whatever the two
\* tasks that offer them do in between.
THEOREM AcksFirst == Spec /\ []NumbersApart => []AckBeforeReport
<1>1. Init => LInv
  <2> SUFFICES ASSUME Init PROVE LInv
    OBVIOUS
  <2>1. /\ forwarder = None /\ fwdq = << >> /\ published = << >>
        /\ \A s \in SegmentIds : ids[s] = None
    BY DEF Init
  <2>2. \A m \in Messages : Segments[m] = 1 => <<m, 1>> \in SegmentIds
    BY SegmentFacts
  <2>3. \A m \in Messages : ~(Segments[m] = 1 /\ ids[<<m, 1>>] # None)
    BY <2>1, <2>2
  <2>4. AckBeforeReport
    BY <2>1 DEF AckBeforeReport
  <2> QED
    BY <2>1, <2>3, <2>4 DEF LInv, LineInv
<1>2. SInv /\ SInv' /\ FInv /\ LInv /\ [Next]_vars => LInv'
  BY LineKept
<1>3. LInv => AckBeforeReport
  BY DEF LInv
<1> QED
  BY <1>1, <1>2, <1>3, RequestsInvariant, PTL DEF Spec

-------------------------------------------------------------------------------
(* Reports find the message they are about.                                *)

IsReport(d, s) == d.type = "report" /\ d.about = s
Accepts(d, s) == d.type = "response" /\ d.about = s /\ d.status = "ok"

\* Each segment is reported once, as long as only the last report is sent.
ReportsInv ==
  /\ \A i \in DOMAIN down : down[i].type = "report" =>
       down[i].status = "final" /\ <<down[i].about, "final">> \in smsc.reported
         /\ down[i].about \in smsc.accepted
  /\ \A i, j \in DOMAIN down :
       down[i].type = "report" /\ down[j].type = "report" /\ down[i].about = down[j].about => i = j

\* The id of an accepted segment is on its way to the cache, in front of its
\* report, or in the cache, or its report was read.
Learned(s) ==
  \/ \E j \in DOMAIN down : Accepts(down[j], s) /\ \A i \in DOMAIN down : IsReport(down[i], s) => j < i
  \/ step[s[1]] = "resumed" /\ Accepts(reply[s[1]], s) /\ reader = [at |-> "handing", about |-> s[1]]
  \/ ids[s] # None
  \/ <<s, "final">> \in smsc.reported /\ \A i \in DOMAIN down : ~IsReport(down[i], s)

EInv == ReportsInv /\ \A s \in smsc.accepted : Learned(s)

\* The PDUs the reader has not seen, and what was accepted and reported.
LEMMA HistorySteps ==
  ASSUME SInv, [Next]_vars, "report pending" \notin SmscMay
  PROVE  \/ /\ UNCHANGED <<smsc.accepted, smsc.reported>>
            /\ UNCHANGED down
         \/ /\ UNCHANGED <<smsc.accepted, smsc.reported>>
            /\ ReadResponse \/ ReadReport \/ ReadInbound \/ ReaderAnswers
         \/ /\ UNCHANGED <<step, reply, reader, ids, smsc.reported>>
            /\ \E d \in Down :
                 /\ d.type # "report" /\ down' = Append(down, d)
                 /\ \/ UNCHANGED smsc.accepted
                    \/ \E s \in SegmentIds : Accepts(d, s) /\ smsc'.accepted = smsc.accepted \cup {s}
         \/ /\ UNCHANGED <<step, reply, reader, ids, smsc.accepted>>
            /\ \E s \in smsc.accepted :
                 /\ <<s, "final">> \notin smsc.reported
                 /\ smsc'.reported = smsc.reported \cup {<<s, "final">>}
                 /\ down' = Append(down, [type |-> "report", about |-> s, seq |-> 0,
                                          status |-> "final"])
<1>1. CASE \/ SetupTask \/ EnquiryTask \/ (\E m \in Messages : Handler(m)) \/ Timeouts
           \/ ForwarderTask \/ WriterTakes \/ ReadUnknownResponse \/ ReaderGoesOn \/ UnbindRaises
           \/ UNCHANGED vars
  <2>1. UNCHANGED <<down, smsc>>
    BY <1>1 DEF SetupTask, StartBind, BindAccepted, BindRefused, FinishSetup, EnquiryTask,
         StartEnquiry, EnquiryAnswered, Timeouts, BindTimeout, EnquireLinkTimeout, Raise, vars,
         Handler, HandleOutbound, SegmentAccepted, MessageAccepted, MessageRefused, WrongResponse,
         ForwarderTask, ForwarderTakes, ForwarderPublishes, WriterTakes, ReadUnknownResponse,
         ReaderGoesOn, UnbindRaises, readVars
  <2> QED
    BY <2>1
<1>2. CASE ReadResponse \/ ReadReport \/ ReadInbound \/ ReaderAnswers
  <2>1. UNCHANGED smsc
    BY <1>2 DEF ReadResponse, ReadReport, ReadInbound, ReaderAnswers, ReadPart, ReadEnquiry,
         ReadUnknownRequest, ReadUnbind
  <2> QED
    BY <1>2, <2>1
<1>3. CASE WriterWrites
  BY <1>3 DEF WriterWrites, readVars, SInv, SmscTypeInv
<1>4. CASE SmscStalls
  BY <1>4 DEF SmscStalls, readVars, SInv, SmscTypeInv
<1>5. ASSUME NEW s \in SegmentIds, NEW how \in {"pending", "final"}, SmscReports(s, how)
      PROVE  /\ UNCHANGED <<step, reply, reader, ids, smsc.accepted>>
             /\ s \in smsc.accepted /\ <<s, "final">> \notin smsc.reported
             /\ smsc'.reported = smsc.reported \cup {<<s, "final">>}
             /\ down' = Append(down, [type |-> "report", about |-> s, seq |-> 0, status |-> "final"])
  <2>1. how = "final"
    BY <1>5 DEF SmscReports
  <2>2. /\ s \in smsc.accepted /\ <<s, "final">> \notin smsc.reported
        /\ smsc' = [smsc EXCEPT !.reported = @ \cup {<<s, how>>}]
        /\ down' = Append(down, [type |-> "report", about |-> s, seq |-> 0, status |-> how])
        /\ UNCHANGED <<requestVars, reader, ids>>
    BY <1>5 DEF SmscReports, Sends
  <2> QED
    BY <2>1, <2>2 DEF requestVars, SInv, SmscTypeInv
<1>6. ASSUME NEW d \in Down, d.type # "report", down' = Append(down, d),
             UNCHANGED <<requestVars, reader, ids, smsc.reported>>,
             \/ UNCHANGED smsc.accepted
             \/ \E s \in SegmentIds : Accepts(d, s) /\ smsc'.accepted = smsc.accepted \cup {s}
      PROVE  /\ UNCHANGED <<step, reply, reader, ids, smsc.reported>>
             /\ \E e \in Down :
                 /\ e.type # "report" /\ down' = Append(down, e)
                 /\ \/ UNCHANGED smsc.accepted
                    \/ \E s \in SegmentIds : Accepts(e, s) /\ smsc'.accepted = smsc.accepted \cup {s}
  BY <1>6 DEF requestVars
<1>7. ASSUME NEW pdu \in smsc.todo, NEW how \in {"ok", "error", "generic_nack"}
      PROVE  /\ [type |-> "response", about |-> pdu.about, seq |-> pdu.seq, status |-> how] \in Down
             /\ pdu.about \in SegmentIds => Accepts([type |-> "response", about |-> pdu.about,
                                                     seq |-> pdu.seq, status |-> "ok"], pdu.about)
  <2>1. pdu.about \in SegmentIds \cup {Bind, Enquiry} /\ pdu.seq \in 1 .. SeqLimit
    BY PduFacts DEF SInv, SmscTypeInv
  <2> QED
    BY <2>1 DEF Down, Responses, Accepts
<1>8. CASE SmscAnswers
  <2>1. ASSUME NEW pdu \in smsc.todo, SmscAccepts(pdu)
        PROVE  /\ UNCHANGED <<requestVars, reader, ids, smsc.reported>>
               /\ down' = Append(down, [type |-> "response", about |-> pdu.about,
                                        seq |-> pdu.seq, status |-> "ok"])
               /\ \/ UNCHANGED smsc.accepted
                  \/ pdu.about \in SegmentIds /\ smsc'.accepted = smsc.accepted \cup {pdu.about}
    BY <2>1 DEF SmscAccepts, Sends, SInv, SmscTypeInv
  <2>2. ASSUME NEW pdu \in smsc.todo, NEW how \in Refusals, SmscRefuses(pdu, how)
        PROVE  /\ UNCHANGED <<requestVars, reader, ids, smsc.reported, smsc.accepted>>
               /\ how \in {"ok", "error", "generic_nack"}
               /\ down' = Append(down, [type |-> "response", about |-> pdu.about,
                                        seq |-> pdu.seq, status |-> how])
    BY <2>2, SmppSessionAssumption DEF SmscRefuses, Sends, SInv, SmscTypeInv
  <2>3. ASSUME NEW pdu \in smsc.todo, SmscAccepts(pdu)
        PROVE  \E e \in Down :
                 /\ e.type # "report" /\ down' = Append(down, e)
                 /\ \/ UNCHANGED smsc.accepted
                    \/ \E s \in SegmentIds : Accepts(e, s) /\ smsc'.accepted = smsc.accepted \cup {s}
    <3> DEFINE e == [type |-> "response", about |-> pdu.about, seq |-> pdu.seq, status |-> "ok"]
    <3>1. e \in Down /\ e.type # "report" /\ (pdu.about \in SegmentIds => Accepts(e, pdu.about))
      BY <1>7
    <3>2. down' = Append(down, e)
      BY <2>1, <2>3
    <3> HIDE DEF e
    <3> QED
      BY <2>1, <2>3, <3>1, <3>2
  <2>4. ASSUME NEW pdu \in smsc.todo, NEW how \in Refusals, SmscRefuses(pdu, how)
        PROVE  \E e \in Down : e.type # "report" /\ down' = Append(down, e)
    <3> DEFINE e == [type |-> "response", about |-> pdu.about, seq |-> pdu.seq, status |-> how]
    <3>1. e \in Down /\ e.type # "report"
      BY <1>7, <2>2, <2>4
    <3>2. down' = Append(down, e)
      BY <2>2, <2>4
    <3> HIDE DEF e
    <3> QED
      BY <3>1, <3>2
  <2> QED
    BY <1>8, <2>1, <2>2, <2>3, <2>4 DEF SmscAnswers, requestVars
<1>9. CASE \/ (\E p \in PartIds : SmscDelivers(p)) \/ SmscUnbinds \/ SmscStrays
           \/ \E type \in {"enquire_link", "unknown"} : SmscEnquires(type)
  <2>1. \E d \in Down : d.type # "report" /\ down' = Append(down, d)
    <3>1. ASSUME NEW p \in PartIds, SmscDelivers(p)
          PROVE  \E d \in Down : d.type # "report" /\ down' = Append(down, d)
      <4>1. [type |-> "deliver", about |-> p, seq |-> 0, status |-> "new"] \in Down
        BY DEF Down, Deliveries
      <4> QED
        BY <3>1, <4>1 DEF SmscDelivers, Sends
    <3>2. ASSUME NEW type \in {"enquire_link", "unknown"}, SmscEnquires(type)
          PROVE  \E d \in Down : d.type # "report" /\ down' = Append(down, d)
      <4>1. [type |-> type, about |-> Enquiry, seq |-> 0, status |-> "new"] \in Down
        BY DEF Down, Others
      <4> QED
        BY <3>2, <4>1 DEF SmscEnquires, Sends
    <3>3. CASE SmscUnbinds
      <4>1. [type |-> "unbind", about |-> Bind, seq |-> 0, status |-> "new"] \in Down
        BY DEF Down, Others
      <4> QED
        BY <3>3, <4>1 DEF SmscUnbinds, Sends
    <3>4. CASE SmscStrays
      <4>1. [type |-> "response", about |-> None, seq |-> 0, status |-> "generic_nack"] \in Down
        BY DEF Down, Strays
      <4> QED
        BY <3>4, <4>1 DEF SmscStrays, Sends
    <3> QED
      BY <1>9, <3>1, <3>2, <3>3, <3>4
  <2>2. UNCHANGED <<requestVars, reader, ids>> /\ UNCHANGED <<smsc.accepted, smsc.reported>>
    BY <1>9 DEF SmscDelivers, SmscEnquires, SmscUnbinds, SmscStrays, Sends, SInv, SmscTypeInv
  <2> QED
    BY <2>1, <2>2 DEF requestVars
<1> QED
  BY <1>1, <1>2, <1>3, <1>4, <1>5, <1>8, <1>9 DEF Next, WriterTask, ReaderTask, ReaderAnswers,
       SmscInitiates

\* What changes what the reader is doing.
LEMMA ReaderSteps ==
  ASSUME SInv, [Next]_vars
  PROVE  \/ UNCHANGED reader
         \/ ReadResponse \/ ReaderGoesOn \/ ReadReport \/ ReadInbound \/ ReaderAnswers
         \/ reader.at \in {"answering", "unbinding", "forwarding"}
<1>1. CASE \/ SetupTask \/ EnquiryTask \/ (\E m \in Messages : Handler(m)) \/ Timeouts
           \/ ForwarderPublishes \/ WriterWrites \/ ReadUnknownResponse \/ UnbindRaises
           \/ UNCHANGED vars
  BY <1>1 DEF SetupTask, StartBind, BindAccepted, BindRefused, FinishSetup, EnquiryTask,
       StartEnquiry, EnquiryAnswered, Timeouts, BindTimeout, EnquireLinkTimeout, Raise, vars,
       Handler, HandleOutbound, SegmentAccepted, MessageAccepted, MessageRefused, WrongResponse,
       ForwarderPublishes, WriterWrites, ReadUnknownResponse, UnbindRaises, readVars
<1>2. CASE SmscAnswers \/ SmscInitiates
  BY <1>2 DEF SmscAnswers, SmscAccepts, SmscRefuses, SmscInitiates, SmscReports, SmscDelivers,
       SmscEnquires, SmscUnbinds, SmscStalls, SmscStrays, Sends, readVars
<1>3. CASE WriterTakes
  <2>1. pduq \in Seq(PduOffers) /\ pduq # << >>
    BY <1>3 DEF WriterTakes, SInv, ChannelTypeInv
  <2>2. Head(pduq) = pduq[1] /\ 1 \in DOMAIN pduq
    BY <2>1, TailFacts
  <2>3. Head(pduq).task = Reader => reader.at \in {"answering", "unbinding"}
    BY <2>2 DEF SInv, PduQueueInv
  <2> QED
    BY <1>3, <2>3 DEF WriterTakes
<1>4. CASE ForwarderTakes
  <2>1. fwdq \in Seq(ItemOffers) /\ fwdq # << >>
    BY <1>4 DEF ForwarderTakes, SInv, ChannelTypeInv
  <2>2. Head(fwdq) = fwdq[1] /\ 1 \in DOMAIN fwdq
    BY <2>1, TailFacts
  <2>3. Head(fwdq).task = Reader => reader.at = "forwarding"
    BY <2>2 DEF SInv, ItemQueueInv
  <2> QED
    BY <1>4, <2>3 DEF ForwarderTakes
<1> QED
  BY <1>1, <1>2, <1>3, <1>4 DEF Next, WriterTask, ReaderTask, ReaderAnswers, ForwarderTask

\* Small facts about indices.
LEMMA SameShift == \A i, j \in Nat : i + 1 = j + 1 => i = j
OBVIOUS

\* Indices start at one.
LEMMA NoneBelowOne == /\ \A n \in Nat \ {0} : ~(n < 1)
                      /\ DOMAIN << >> = {}
OBVIOUS

\* Every step keeps one report at most for each segment, of one that was accepted.
LEMMA ReportsKept ==
  ASSUME SInv, ReportsInv, [Next]_vars, "report pending" \notin SmscMay
  PROVE  ReportsInv'
<1>0. down \in Seq(Down)
  BY DEF SInv, SmscTypeInv
<1>1. CASE UNCHANGED <<smsc.accepted, smsc.reported>> /\ UNCHANGED down
  BY <1>1 DEF ReportsInv
<1>2. CASE /\ UNCHANGED <<smsc.accepted, smsc.reported>>
           /\ ReadResponse \/ ReadReport \/ ReadInbound \/ ReaderAnswers
  <2>1. down # << >> /\ down' = Tail(down)
    BY <1>2 DEF ReadResponse, ReadReport, ReadInbound, ReaderAnswers, ReadPart, ReadEnquiry,
         ReadUnknownRequest, ReadUnbind, Reads
  <2>2. \A i \in DOMAIN down' : i \in Nat /\ i + 1 \in DOMAIN down /\ down'[i] = down[i + 1]
    BY <1>0, <2>1, TailFacts
  <2>3. \A i \in DOMAIN down' : down'[i].type = "report" =>
          down'[i].status = "final" /\ <<down'[i].about, "final">> \in smsc'.reported
            /\ down'[i].about \in smsc'.accepted
    BY <1>2, <2>2 DEF ReportsInv
  <2>4. ASSUME NEW i \in DOMAIN down', NEW j \in DOMAIN down', down'[i].type = "report",
               down'[j].type = "report", down'[i].about = down'[j].about
        PROVE  i = j
    <3>1. i + 1 \in DOMAIN down /\ down'[i] = down[i + 1] /\ i \in Nat
      BY <2>2
    <3>2. j + 1 \in DOMAIN down /\ down'[j] = down[j + 1] /\ j \in Nat
      BY <2>2
    <3>3. i + 1 = j + 1
      BY <2>4, <3>1, <3>2 DEF ReportsInv
    <3>4. i \in Nat /\ j \in Nat
      BY <3>1, <3>2
    <3> QED
      BY <3>3, <3>4, SameShift, Zenon
  <2> QED
    BY <2>3, <2>4 DEF ReportsInv
<1>3. ASSUME NEW d \in Down, down' = Append(down, d), smsc.accepted \subseteq smsc'.accepted,
             smsc.reported \subseteq smsc'.reported,
             d.type = "report" =>
               /\ d.status = "final" /\ d.about \in smsc'.accepted
               /\ <<d.about, "final">> \in smsc'.reported /\ <<d.about, "final">> \notin smsc.reported
      PROVE  ReportsInv'
  <2>1. \A i \in DOMAIN down' : \/ i \in DOMAIN down /\ down'[i] = down[i]
                                \/ i = Len(down) + 1 /\ down'[i] = d
    <3>1. \A i \in DOMAIN Append(down, d) :
            /\ i \in DOMAIN down \/ i = Len(down) + 1
            /\ Append(down, d)[i] = IF i \in DOMAIN down THEN down[i] ELSE d
      BY <1>0, AppendFacts
    <3>2. Len(down) + 1 \notin DOMAIN down
      BY <1>0, AppendFacts
    <3> QED
      BY <1>3, <3>1, <3>2
  <2>2. \A i \in DOMAIN down' : down'[i].type = "report" =>
          down'[i].status = "final" /\ <<down'[i].about, "final">> \in smsc'.reported
            /\ down'[i].about \in smsc'.accepted
    BY <1>3, <2>1 DEF ReportsInv
  <2>3. \A i \in DOMAIN down : down[i].type = "report" => <<down[i].about, "final">> \in smsc.reported
    BY DEF ReportsInv
  <2>4. ASSUME NEW i \in DOMAIN down', NEW j \in DOMAIN down', down'[i].type = "report",
               down'[j].type = "report", down'[i].about = down'[j].about
        PROVE  i = j
    BY <1>3, <2>1, <2>3, <2>4 DEF ReportsInv
  <2> QED
    BY <2>2, <2>4 DEF ReportsInv
<1>4. ASSUME NEW d \in Down, d.type # "report", down' = Append(down, d),
             UNCHANGED smsc.reported,
             \/ UNCHANGED smsc.accepted
             \/ \E s \in SegmentIds : Accepts(d, s) /\ smsc'.accepted = smsc.accepted \cup {s}
      PROVE  ReportsInv'
  BY <1>3, <1>4
<1>5. ASSUME NEW s \in smsc.accepted, UNCHANGED smsc.accepted,
             <<s, "final">> \notin smsc.reported,
             smsc'.reported = smsc.reported \cup {<<s, "final">>},
             down' = Append(down, [type |-> "report", about |-> s, seq |-> 0, status |-> "final"])
      PROVE  ReportsInv'
  <2> DEFINE d == [type |-> "report", about |-> s, seq |-> 0, status |-> "final"]
  <2>1. d \in Down /\ d.about = s /\ d.status = "final"
    BY DEF Down, Reports, SInv, SmscTypeInv
  <2>2. down' = Append(down, d)
    BY <1>5
  <2> HIDE DEF d
  <2> QED
    BY <1>3, <1>5, <2>1, <2>2
<1> QED
  BY <1>1, <1>2, <1>4, <1>5, HistorySteps

\* An id that is in the cache stays there until its report is read.
LEMMA StoredStays ==
  ASSUME SInv, FInv, [Next]_vars, NEW s \in SegmentIds, ids[s] # None,
         ~(ReadReport /\ Head(down).about = s)
  PROVE  ids'[s] # None
<1>1. ids \in [SegmentIds -> Messages \cup {None}] /\ \A m \in Messages : m # None
  BY ConstantFacts DEF SInv, RequestTypeInv
<1> QED
  BY <1>1, IdsSteps

\* The handler that was handed the response stores the id before the reader goes on.
LEMMA HandedStores ==
  ASSUME SInv, FInv, [Next]_vars, NEW s \in SegmentIds,
         step[s[1]] = "resumed", Accepts(reply[s[1]], s),
         reader = [at |-> "handing", about |-> s[1]]
  PROVE  \/ step'[s[1]] = "resumed" /\ Accepts(reply[s[1]], s)' /\ UNCHANGED reader
         \/ ids'[s] # None
<1> DEFINE m == s[1]
<1>1. m \in Messages /\ m # None
  BY SegmentFacts, ConstantFacts
<1>2. reader.at = "handing" /\ reader.about = m
  OBVIOUS
<1>3. ~(ReadResponse \/ ReadReport \/ ReadInbound \/ ReaderAnswers)
  BY <1>2 DEF ReadResponse, ReadReport, ReadInbound, ReaderAnswers, ReadPart, ReadEnquiry,
       ReadUnknownRequest, ReadUnbind, Reads
<1>4. ~ReaderGoesOn
  BY <1>2 DEF ReaderGoesOn
<1>5. UNCHANGED reader
  BY <1>2, <1>3, <1>4, ReaderSteps
<1>6. reply[m].about = s /\ reply[m].status = "ok" /\ ids \in [SegmentIds -> Messages \cup {None}]
  BY DEF Accepts, SInv, RequestTypeInv
<1>7. CASE SegmentAccepted(m) \/ MessageAccepted(m)
  <2>1. ids' = [ids EXCEPT ![s] = m]
    BY <1>6, <1>7 DEF SegmentAccepted, MessageAccepted
  <2> QED
    BY <1>1, <1>6, <2>1
<1>8. CASE step'[m] = step[m] /\ cur'[m] = cur[m] /\ reply'[m] = reply[m]
  BY <1>5, <1>8 DEF Accepts
<1>9. ~(HandleOutbound(m) \/ MessageRefused(m) \/ WrongResponse(m))
  BY <1>6 DEF HandleOutbound, MessageRefused, WrongResponse
<1> HIDE DEF m
<1> QED
  BY <1>1, <1>3, <1>7, <1>8, <1>9, MessageSteps DEF m

\* What the reader takes from the SMSC takes nothing from what was learned.
LEMMA ReadKeepsLearned ==
  ASSUME SInv, FInv, ReportsInv, [Next]_vars, NEW s \in SegmentIds, Learned(s),
         ReadResponse \/ ReadReport \/ ReadInbound \/ ReaderAnswers,
         UNCHANGED smsc.reported
  PROVE  Learned(s)'
<1>1. /\ down \in Seq(Down) /\ down # << >> /\ down' = Tail(down) /\ reader.at = "reading"
      /\ Head(down) = down[1]
  BY TailFacts DEF ReadResponse, ReadReport, ReadInbound, ReaderAnswers, ReadPart, ReadEnquiry,
       ReadUnknownRequest, ReadUnbind, Reads, SInv, SmscTypeInv
<1>2. \A i \in DOMAIN down' : i \in Nat /\ i + 1 \in DOMAIN down /\ down'[i] = down[i + 1]
  BY <1>1, TailFacts
<1>3. CASE \E j \in DOMAIN down :
             Accepts(down[j], s) /\ \A i \in DOMAIN down : IsReport(down[i], s) => j < i
  <2>1. PICK j \in DOMAIN down :
          Accepts(down[j], s) /\ \A i \in DOMAIN down : IsReport(down[i], s) => j < i
    BY <1>3
  <2>2. CASE j = 1
    <3> DEFINE d == Head(down)
               t == responses[d.seq]
    <3>1. d.type = "response" /\ d.about = s /\ d.status = "ok"
      BY <1>1, <2>1, <2>2 DEF Accepts
    <3>2. ReadResponse
      BY <3>1 DEF ReadReport, ReadInbound, ReaderAnswers, ReadPart, ReadEnquiry,
           ReadUnknownRequest, ReadUnbind, Reads
    <3>3. t \in Requesters /\ d.about = RequestOf(t)
      BY <3>2, ResponseOwner
    <3>4. /\ step' = [step EXCEPT ![t] = "resumed"] /\ reply' = [reply EXCEPT ![t] = d]
          /\ reader' = [at |-> "handing", about |-> t]
      BY <3>2 DEF ReadResponse
    <3> HIDE DEF t
    <3>5. t \in Messages /\ s = <<t, cur[t]>>
      BY <3>1, <3>3, ConstantFacts DEF RequestOf
    <3>6. s[1] = t
      BY <3>5
    <3>7. step'[t] = "resumed" /\ reply'[t] = d
      BY <3>3, <3>4 DEF SInv, RequestTypeInv
    <3>8. reader' = [at |-> "handing", about |-> s[1]]
      BY <3>4, <3>6
    <3>9. step'[s[1]] = "resumed" /\ Accepts(reply'[s[1]], s)
      BY <3>1, <3>6, <3>7 DEF Accepts
    <3> QED
      BY <3>8, <3>9 DEF Learned
  <2>3. CASE j # 1
    <3>1. j \in Nat \ {0} /\ j - 1 \in DOMAIN down' /\ down'[j - 1] = down[j]
      BY <1>1, <2>3, TailFacts
    <3>2. ASSUME NEW i \in DOMAIN down', IsReport(down'[i], s)
          PROVE  j - 1 < i
      <4>1. i \in Nat /\ j < i + 1
        BY <1>2, <2>1, <3>2
      <4> QED
        BY <3>1, <4>1
    <3>3. Accepts(down'[j - 1], s)
      BY <2>1, <3>1
    <3> QED
      BY <3>1, <3>2, <3>3 DEF Learned
  <2> QED
    BY <2>2, <2>3
<1>4. ASSUME ids[s] # None
      PROVE  Learned(s)'
  <2>1. CASE ReadReport /\ Head(down).about = s
    <3>1. IsReport(down[1], s) /\ 1 \in DOMAIN down
      BY <1>1, <2>1, TailFacts DEF ReadReport, Reads, IsReport
    <3>2. <<s, "final">> \in smsc'.reported
      BY <3>1 DEF ReportsInv, IsReport
    <3>3. ASSUME NEW i \in DOMAIN down', IsReport(down'[i], s)
          PROVE  FALSE
      <4>1. i + 1 = 1
        BY <1>2, <3>1, <3>3 DEF ReportsInv, IsReport
      <4>2. i + 1 # 1
        BY <1>1, TailFacts
      <4> QED
        BY <4>1, <4>2
    <3> QED
      BY <3>2, <3>3 DEF Learned
  <2>2. CASE ~(ReadReport /\ Head(down).about = s)
    BY <1>4, <2>2, StoredStays DEF Learned
  <2> QED
    BY <2>1, <2>2
<1>5. ASSUME <<s, "final">> \in smsc.reported, \A i \in DOMAIN down : ~IsReport(down[i], s)
      PROVE  Learned(s)'
  <2>1. \A i \in DOMAIN down' : ~IsReport(down'[i], s)
    BY <1>2, <1>5
  <2> QED
    BY <1>5, <2>1 DEF Learned
<1>6. reader # [at |-> "handing", about |-> s[1]]
  BY <1>1
<1> QED
  BY <1>3, <1>4, <1>5, <1>6 DEF Learned

\* What the SMSC sends takes nothing from what was learned either.
LEMMA SentKeepsLearned ==
  ASSUME SInv, NEW s \in SegmentIds, Learned(s), NEW d \in Down, down' = Append(down, d),
         UNCHANGED <<step, reply, reader, ids>>, smsc.reported \subseteq smsc'.reported,
         IsReport(d, s) => <<s, "final">> \notin smsc.reported
  PROVE  Learned(s)'
<1>0. down \in Seq(Down)
  BY DEF SInv, SmscTypeInv
<1>1. /\ \A i \in DOMAIN Append(down, d) : Append(down, d)[i] = IF i \in DOMAIN down THEN down[i] ELSE d
      /\ \A i \in DOMAIN down : i \in DOMAIN Append(down, d)
      /\ \A i \in DOMAIN Append(down, d) : i \in DOMAIN down \/ i = Len(down) + 1
      /\ \A i \in DOMAIN down : i < Len(down) + 1
  BY <1>0, AppendFacts
<1>2. /\ \A i \in DOMAIN down' : down'[i] = IF i \in DOMAIN down THEN down[i] ELSE d
      /\ \A i \in DOMAIN down : i \in DOMAIN down'
      /\ \A i \in DOMAIN down' : i \in DOMAIN down \/ i = Len(down) + 1
  BY <1>1
<1>3. CASE \E j \in DOMAIN down :
             Accepts(down[j], s) /\ \A i \in DOMAIN down : IsReport(down[i], s) => j < i
  <2>1. PICK j \in DOMAIN down :
          Accepts(down[j], s) /\ \A i \in DOMAIN down : IsReport(down[i], s) => j < i
    BY <1>3
  <2>2. j \in DOMAIN down' /\ Accepts(down'[j], s) /\ j < Len(down) + 1
    BY <1>1, <1>2, <2>1
  <2>3. \A i \in DOMAIN down' : IsReport(down'[i], s) => j < i
    BY <1>2, <2>1, <2>2
  <2> QED
    BY <2>2, <2>3 DEF Learned
<1>4. CASE step[s[1]] = "resumed" /\ Accepts(reply[s[1]], s)
             /\ reader = [at |-> "handing", about |-> s[1]]
  BY <1>4 DEF Learned
<1>5. CASE ids[s] # None
  BY <1>5 DEF Learned
<1>6. CASE <<s, "final">> \in smsc.reported /\ \A i \in DOMAIN down : ~IsReport(down[i], s)
  <2>1. \A i \in DOMAIN down' : ~IsReport(down'[i], s)
    BY <1>2, <1>6
  <2> QED
    BY <1>6, <2>1 DEF Learned
<1> QED
  BY <1>3, <1>4, <1>5, <1>6 DEF Learned

\* No step lets go of the id of an accepted segment whose report was not read.
LEMMA LearnedKept ==
  ASSUME SInv, SInv', FInv, EInv, [Next]_vars, "report pending" \notin SmscMay
  PROVE  EInv'
<1>1. ReportsInv'
  BY ReportsKept DEF EInv
<1>2. ReportsInv /\ smsc.accepted \subseteq SegmentIds /\ smsc'.accepted \subseteq SegmentIds
  BY DEF EInv, SInv, SmscTypeInv
<1>3. \A s \in smsc.accepted : Learned(s)
  BY DEF EInv
<1>4. ASSUME ReadResponse \/ ReadReport \/ ReadInbound \/ ReaderAnswers
      PROVE  \A s \in smsc'.accepted : Learned(s)'
  <2>1. UNCHANGED smsc
    BY <1>4 DEF ReadResponse, ReadReport, ReadInbound, ReaderAnswers, ReadPart, ReadEnquiry,
         ReadUnknownRequest, ReadUnbind
  <2> QED
    BY <1>2, <1>3, <1>4, <2>1, ReadKeepsLearned
<1>5. ASSUME ~ReadReport, UNCHANGED <<smsc.accepted, smsc.reported>>, UNCHANGED down,
             NEW s \in smsc'.accepted
      PROVE  Learned(s)'
  <2>1. s \in SegmentIds /\ Learned(s)
    BY <1>2, <1>3, <1>5
  <2>2. CASE step[s[1]] = "resumed" /\ Accepts(reply[s[1]], s)
               /\ reader = [at |-> "handing", about |-> s[1]]
    <3>1. \/ step'[s[1]] = "resumed" /\ Accepts(reply[s[1]], s)' /\ UNCHANGED reader
          \/ ids'[s] # None
      BY <2>1, <2>2, HandedStores
    <3>2. (reader = [at |-> "handing", about |-> s[1]])' <=> reader' = [at |-> "handing", about |-> s[1]]
      OBVIOUS
    <3> QED
      BY <2>2, <3>1, <3>2 DEF Learned
  <2>3. CASE ids[s] # None
    BY <1>5, <2>1, <2>3, StoredStays DEF Learned
  <2>4. CASE \/ \E j \in DOMAIN down :
                  Accepts(down[j], s) /\ \A i \in DOMAIN down : IsReport(down[i], s) => j < i
             \/ <<s, "final">> \in smsc.reported /\ \A i \in DOMAIN down : ~IsReport(down[i], s)
    BY <1>5, <2>4 DEF Learned
  <2> QED
    BY <2>1, <2>2, <2>3, <2>4 DEF Learned
<1>6. ASSUME UNCHANGED <<step, reply, reader, ids, smsc.reported>>,
             NEW d \in Down, d.type # "report", down' = Append(down, d),
             \/ UNCHANGED smsc.accepted
             \/ \E s \in SegmentIds : Accepts(d, s) /\ smsc'.accepted = smsc.accepted \cup {s},
             NEW s \in smsc'.accepted
      PROVE  Learned(s)'
  <2>1. s \in SegmentIds /\ ~IsReport(d, s)
    BY <1>2, <1>6 DEF IsReport
  <2>2. CASE s \in smsc.accepted
    <3>1. Learned(s)
      BY <1>3, <2>2
    <3> QED
      BY <1>6, <2>1, <3>1, SentKeepsLearned
  <2>3. CASE s \notin smsc.accepted
    <3>1. Accepts(d, s)
      BY <1>6, <2>3
    <3>2. \A i \in DOMAIN down : ~IsReport(down[i], s)
      BY <1>2, <2>3 DEF ReportsInv, IsReport
    <3>3. down \in Seq(Down)
      BY DEF SInv, SmscTypeInv
    <3>4. /\ \A i \in DOMAIN Append(down, d) :
               Append(down, d)[i] = IF i \in DOMAIN down THEN down[i] ELSE d
          /\ Len(down) + 1 \in DOMAIN Append(down, d) /\ Len(down) + 1 \notin DOMAIN down
      BY <3>3, AppendFacts
    <3>5. \A i \in DOMAIN down' : ~IsReport(down'[i], s)
      BY <1>6, <2>1, <3>2, <3>4
    <3>6. Len(down) + 1 \in DOMAIN down' /\ Accepts(down'[Len(down) + 1], s)
      BY <1>6, <3>1, <3>4
    <3> QED
      BY <3>5, <3>6 DEF Learned
  <2> QED
    BY <2>2, <2>3
<1>7. ASSUME UNCHANGED <<step, reply, reader, ids, smsc.accepted>>, NEW r \in smsc.accepted,
             <<r, "final">> \notin smsc.reported,
             smsc'.reported = smsc.reported \cup {<<r, "final">>},
             down' = Append(down, [type |-> "report", about |-> r, seq |-> 0, status |-> "final"]),
             NEW s \in smsc'.accepted
      PROVE  Learned(s)'
  <2> DEFINE d == [type |-> "report", about |-> r, seq |-> 0, status |-> "final"]
  <2>1. d \in Down /\ d.about = r
    BY <1>2 DEF Down, Reports
  <2>2. down' = Append(down, d)
    BY <1>7
  <2> HIDE DEF d
  <2>3. s \in SegmentIds /\ Learned(s)
    BY <1>2, <1>3, <1>7
  <2>4. IsReport(d, s) => <<s, "final">> \notin smsc.reported
    BY <1>7, <2>1 DEF IsReport
  <2> QED
    BY <1>7, <2>1, <2>2, <2>3, <2>4, SentKeepsLearned
<1>8. \A s \in smsc'.accepted : Learned(s)'
  BY <1>4, <1>5, <1>6, <1>7, HistorySteps
<1> QED
  BY <1>1, <1>8 DEF EInv

\* A report that is read after the response that named its message's id finds
\* the message: handle_submit_sm_resp stores the id before consume_stream goes
\* on to the next PDU.  Only for an SMSC that reports a message once, since
\* get_smpp_message_id removes the id with the first report.
THEOREM ReportsForwarded ==
  ASSUME "report pending" \notin SmscMay
  PROVE  Spec /\ []NumbersApart => EveryReportIsForwarded
<1> DEFINE Step == Reads("report") /\ reader'.at # "reading" => fwdq' # fwdq
<1>1. Init => EInv
  <2> SUFFICES ASSUME Init PROVE EInv
    OBVIOUS
  <2>1. down = << >> /\ smsc.accepted = {}
    BY DEF Init
  <2>2. DOMAIN down = {}
    BY <2>1, NoneBelowOne, Zenon
  <2>3. ReportsInv
    BY <2>2, Zenon DEF ReportsInv
  <2>4. \A s \in smsc.accepted : Learned(s)
    BY <2>1, Zenon
  <2> QED
    BY <2>3, <2>4 DEF EInv
<1>2. SInv /\ SInv' /\ FInv /\ EInv /\ [Next]_vars => EInv'
  BY LearnedKept
<1>3. SInv /\ EInv /\ [Next]_vars => [Step]_vars
  <2> SUFFICES ASSUME SInv, EInv, [Next]_vars, Reads("report"), reader'.at # "reading"
               PROVE  fwdq' # fwdq
    OBVIOUS
  <2> DEFINE s == Head(down).about
  <2>1. /\ reader.at = "reading" /\ Head(down).type = "report" /\ Head(down) \in Down
        /\ Head(down) = down[1] /\ 1 \in DOMAIN down
    BY ReadsFacts
  <2>2. ~(ReadResponse \/ ReadInbound \/ ReaderAnswers)
    BY DEF ReadResponse, ReadInbound, ReaderAnswers, ReadPart, ReadEnquiry, ReadUnknownRequest,
         ReadUnbind, Reads
  <2>3. ~ReaderGoesOn
    BY <2>1 DEF ReaderGoesOn
  <2>4. ReadReport
    BY <2>1, <2>2, <2>3, ReaderSteps
  <2>5. IsReport(down[1], s) /\ s \in smsc.accepted /\ down \in Seq(Down)
    BY <2>1 DEF IsReport, EInv, ReportsInv, SInv, SmscTypeInv
  <2>6. ids[s] # None
    <3>1. Learned(s)
      BY <2>5 DEF EInv
    <3>2. ~(<<s, "final">> \in smsc.reported /\ \A i \in DOMAIN down : ~IsReport(down[i], s))
      BY <2>1, <2>5
    <3>3. reader # [at |-> "handing", about |-> s[1]]
      <4>1. [at |-> "handing", about |-> s[1]].at # "reading"
        OBVIOUS
      <4> QED
        BY <2>1, <4>1
    <3>4. ASSUME NEW j \in DOMAIN down, j < 1 PROVE FALSE
      <4>1. down # << >>
        BY DEF Reads
      <4>2. DOMAIN down \subseteq Nat \ {0}
        BY <2>5, <4>1, TailFacts
      <4> QED
        BY <3>4, <4>2, NoneBelowOne, Zenon
    <3>5. ~\E j \in DOMAIN down :
             Accepts(down[j], s) /\ \A i \in DOMAIN down : IsReport(down[i], s) => j < i
      BY <2>1, <2>5, <3>4
    <3> QED
      BY <3>1, <3>2, <3>3, <3>5 DEF Learned
  <2>7. fwdq' = Append(fwdq, [task |-> Reader,
                              item |-> [type |-> Head(down).status, about |-> ids[s]]])
    BY <2>4, <2>6 DEF ReadReport, Forward, OfferItem
  <2>8. fwdq \in Seq(ItemOffers) /\ [task |-> Reader,
          item |-> [type |-> Head(down).status, about |-> ids[s]]] \in ItemOffers
    <3>1. ids[s] \in Messages /\ Head(down).status \in {"pending", "final"}
      BY <2>1, <2>6, <2>5, DownFacts DEF SInv, RequestTypeInv, SmscTypeInv
    <3>2. [type |-> Head(down).status, about |-> ids[s]] \in Items
      BY <3>1, ItemFacts
    <3>3. [task |-> Reader, item |-> [type |-> Head(down).status, about |-> ids[s]]] \in ItemOffers
      BY <3>2, ItemFacts
    <3> QED
      <4>1. fwdq \in Seq(ItemOffers)
        BY DEF SInv, ChannelTypeInv
      <4> QED
        BY <3>3, <4>1
  <2> DEFINE q == [task |-> Reader, item |-> [type |-> Head(down).status, about |-> ids[s]]]
  <2> HIDE DEF q
  <2>9. fwdq' = Append(fwdq, q)
    BY <2>7 DEF q
  <2>10. Len(fwdq) + 1 \in DOMAIN fwdq' /\ Len(fwdq) + 1 \notin DOMAIN fwdq
    <3>1. fwdq \in Seq(ItemOffers) /\ q \in ItemOffers
      BY <2>8 DEF q
    <3> QED
      BY <2>9, <3>1, AppendFacts
  <2> QED
    BY <2>10
<1>4. QED
  BY <1>1, <1>2, <1>3, RequestsInvariant, PTL DEF Spec, EveryReportIsForwarded

-------------------------------------------------------------------------------
(* When the numbers never come round, requests never share one.            *)

\* How many numbers a task takes to send, and the messages that took none yet.
Length(t) == IF t \in Messages THEN Segments[t] ELSE 1
Unstarted == {m \in Messages : step[m] = "idle"}

\* The numbers of each task that has started lie together, apart from the others'.
SpansInv ==
  /\ \A t \in Requesters : step[t] # "idle" =>
       first[t] \in 1 .. seqno /\ first[t] + Length(t) <= seqno + 1
  /\ \A t, u \in Requesters : step[t] # "idle" /\ step[u] # "idle" /\ t # u =>
       first[t] + Length(t) <= first[u] \/ first[u] + Length(u) <= first[t]
  /\ \A m \in Messages : step[m] # "idle" => cur[m] >= 1

\* There are numbers left for all that is still to start, each message taking K at most.
RoomInv(K) ==
  /\ enquiries \in [client : 0 .. MaxEnquiries, smsc : Nat]
  /\ seqno + (IF step[Bind] = "idle" THEN 1 ELSE 0) + (MaxEnquiries - enquiries.client)
       + K * Cardinality(Unstarted) <= SeqLimit

\* A step in which no task starts.
NoneStarts ==
  /\ UNCHANGED <<seqno, first>>
  /\ enquiries'.client = enquiries.client /\ enquiries' \in [client : 0 .. MaxEnquiries, smsc : Nat]
  /\ \A t \in Requesters : step'[t] # "idle" => step[t] # "idle"
  /\ \A t \in Messages \cup {Bind} : step'[t] = "idle" => step[t] = "idle"
  /\ \A m \in Messages : cur'[m] = cur[m] \/ cur'[m] = cur[m] + 1

\* A step in which t starts, and takes n numbers.
Starts(t, n) ==
  /\ step[t] = "idle" /\ step' = [step EXCEPT ![t] = "offering"]
  /\ seqno' = Wrap(seqno + n)
  /\ first' = [first EXCEPT ![t] = Wrap(seqno + n - Length(t) + 1)]
  /\ cur' = IF t \in Messages THEN [cur EXCEPT ![t] = 1] ELSE cur

\* Each step starts one task or none.
LEMMA StartSteps ==
  ASSUME SInv, FInv, [Next]_vars, enquiries \in [client : 0 .. MaxEnquiries, smsc : Nat]
  PROVE  \/ NoneStarts
         \/ Starts(Bind, 1) /\ UNCHANGED enquiries
         \/ Starts(Enquiry, 1) /\ enquiries.client < MaxEnquiries
              /\ enquiries' = [enquiries EXCEPT !.client = @ + 1]
         \/ \E m \in Messages : \E n \in {Segments[m], Segments[m] + 1} :
              Starts(m, n) /\ UNCHANGED enquiries
<1>0. /\ step \in [Requesters -> Steps] /\ cur \in [Messages -> Nat] /\ seqno \in Nat
      /\ Bind \in Requesters /\ Enquiry \in Requesters /\ Messages \subseteq Requesters
      /\ Bind \notin Messages /\ Enquiry \notin Messages /\ Bind # Enquiry
  BY ConstantFacts DEF SInv, RequestTypeInv
<1>1. CASE StartBind
  <2>1. seqno + 1 - Length(Bind) + 1 = seqno + 1
    BY <1>0 DEF Length
  <2> QED
    BY <1>0, <1>1, <2>1 DEF StartBind, SendRequest, Starts
<1>2. CASE StartEnquiry
  <2>1. seqno + 1 - Length(Enquiry) + 1 = seqno + 1
    BY <1>0 DEF Length
  <2> QED
    BY <1>0, <1>2, <2>1 DEF StartEnquiry, SendRequest, Starts
<1>3. ASSUME NEW m \in Messages, HandleOutbound(m)
      PROVE  \E n \in {Segments[m], Segments[m] + 1} : Starts(m, n) /\ UNCHANGED enquiries
  <2> DEFINE extra == IF Segments[m] > 1 THEN 1 ELSE 0
             n == extra + Segments[m]
  <2>1. Segments[m] \in Nat /\ Length(m) = Segments[m] /\ extra \in {0, 1}
    BY SegmentFacts DEF Length
  <2>2. n \in {Segments[m], Segments[m] + 1}
    BY <2>1
  <2>3. /\ step[m] = "idle" /\ step' = [step EXCEPT ![m] = "offering"]
        /\ seqno' = Wrap(seqno + extra + Segments[m])
        /\ first' = [first EXCEPT ![m] = Wrap(seqno + extra + 1)]
        /\ cur' = [cur EXCEPT ![m] = 1] /\ UNCHANGED enquiries
    BY <1>3 DEF HandleOutbound, SendRequest
  <2> HIDE DEF extra
  <2>4. seqno + n = seqno + extra + Segments[m] /\ seqno + n - Length(m) + 1 = seqno + extra + 1
    BY <1>0, <2>1
  <2>5. Starts(m, n)
    BY <2>3, <2>4 DEF Starts
  <2> QED
    BY <2>2, <2>3, <2>5
<1>4. ASSUME UNCHANGED <<seqno, first, enquiries>>, UNCHANGED cur,
             NEW t \in Requesters, step[t] # "idle", NEW new \in Steps,
             step' = [step EXCEPT ![t] = new], new # "idle" \/ t = Enquiry
      PROVE  NoneStarts
  BY <1>0, <1>4 DEF NoneStarts
<1>5. CASE FinishSetup \/ BindAccepted \/ EnquiryAnswered
  BY <1>0, <1>4, <1>5 DEF FinishSetup, BindAccepted, EnquiryAnswered, Steps
<1>6. ASSUME NEW m \in Messages, MessageAccepted(m) \/ MessageRefused(m) \/ WrongResponse(m)
      PROVE  NoneStarts
  BY <1>0, <1>4, <1>6 DEF MessageAccepted, MessageRefused, WrongResponse, Steps
<1>7. ASSUME NEW m \in Messages, SegmentAccepted(m)
      PROVE  NoneStarts
  BY <1>0, <1>7 DEF SegmentAccepted, SendRequest, NoneStarts
<1>8. CASE WriterTakes
  <2>1. pduq \in Seq(PduOffers) /\ pduq # << >>
    BY <1>8 DEF WriterTakes, SInv, ChannelTypeInv
  <2>2. Head(pduq) = pduq[1] /\ 1 \in DOMAIN pduq /\ Head(pduq) \in PduOffers
    BY <2>1, TailFacts
  <2>3. Head(pduq).task # Reader =>
          step[Head(pduq).task] = "offering" /\ Head(pduq).task \in Requesters
    BY <2>2, PduFacts DEF FInv, RequestQueueInv
  <2>4. \/ UNCHANGED step
        \/ Head(pduq).task # Reader /\ step' = [step EXCEPT ![Head(pduq).task] = "waiting"]
    BY <1>8 DEF WriterTakes
  <2>5. UNCHANGED <<seqno, first, cur, enquiries>>
    BY <1>8 DEF WriterTakes
  <2>6. CASE UNCHANGED step
    BY <2>5, <2>6 DEF NoneStarts
  <2> QED
    BY <1>4, <2>3, <2>4, <2>5, <2>6 DEF Steps
<1>9. CASE ForwarderTakes
  <2>1. fwdq \in Seq(ItemOffers) /\ fwdq # << >>
    BY <1>9 DEF ForwarderTakes, SInv, ChannelTypeInv
  <2>2. Head(fwdq) = fwdq[1] /\ 1 \in DOMAIN fwdq /\ Head(fwdq) \in ItemOffers
    BY <2>1, TailFacts
  <2>3. Head(fwdq).task # Reader =>
          step[Head(fwdq).task] = "reporting" /\ Head(fwdq).task \in Requesters
    BY <1>0, <2>2, ItemFacts DEF FInv, OutcomeQueueInv
  <2>4. \/ UNCHANGED step
        \/ Head(fwdq).task # Reader /\ step' = [step EXCEPT ![Head(fwdq).task] = "ended"]
    BY <1>9 DEF ForwarderTakes
  <2>5. UNCHANGED <<seqno, first, cur, enquiries>>
    BY <1>9 DEF ForwarderTakes
  <2>6. CASE UNCHANGED step
    BY <2>5, <2>6 DEF NoneStarts
  <2> QED
    BY <1>4, <2>3, <2>4, <2>5, <2>6 DEF Steps
<1>10. CASE ReadResponse
  <2> DEFINE t == responses[Head(down).seq]
  <2>1. t \in Requesters /\ step[t] = "waiting"
    BY <1>10, ResponseOwner
  <2>2. step' = [step EXCEPT ![t] = "resumed"] /\ UNCHANGED <<seqno, first, cur, enquiries>>
    BY <1>10 DEF ReadResponse
  <2> HIDE DEF t
  <2> QED
    BY <1>4, <2>1, <2>2 DEF Steps
<1>11. ASSUME NEW type \in {"enquire_link", "unknown"}, SmscEnquires(type)
      PROVE  NoneStarts
  <2>1. enquiries' = [enquiries EXCEPT !.smsc = @ + 1] /\ UNCHANGED requestVars
    BY <1>11 DEF SmscEnquires, Sends
  <2> QED
    BY <1>0, <2>1 DEF requestVars, NoneStarts
<1>12. CASE \/ Timeouts \/ BindRefused \/ WriterWrites \/ SmscAnswers \/ ForwarderPublishes
            \/ ReadUnknownResponse \/ ReaderGoesOn \/ ReadReport \/ ReadInbound \/ ReaderAnswers
            \/ UnbindRaises \/ UNCHANGED vars \/ SmscUnbinds \/ SmscStalls \/ SmscStrays
            \/ (\E p \in PartIds : SmscDelivers(p))
            \/ (\E s \in SegmentIds, how \in {"pending", "final"} : SmscReports(s, how))
  <2>1. UNCHANGED requestVars /\ UNCHANGED enquiries
    BY <1>12 DEF Timeouts, BindTimeout, EnquireLinkTimeout, BindRefused, WriterWrites,
         SmscAnswers, SmscAccepts, SmscRefuses, SmscReports, SmscDelivers, SmscUnbinds,
         SmscStalls, SmscStrays, Sends, ForwarderPublishes, ReadUnknownResponse, ReaderGoesOn,
         ReadReport, ReadInbound, ReaderAnswers, ReadPart, ReadEnquiry, ReadUnknownRequest,
         ReadUnbind, UnbindRaises, Raise, vars
  <2> QED
    BY <2>1 DEF requestVars, NoneStarts
<1> QED
  BY <1>1, <1>2, <1>3, <1>5, <1>6, <1>7, <1>8, <1>9, <1>10, <1>11, <1>12
     DEF Next, SetupTask, EnquiryTask, Handler, WriterTask, ReaderTask, ReaderAnswers,
          ForwarderTask, SmscInitiates

\* Spans that lie apart hold different numbers, none of which has wrapped.
LEMMA SpansApart ==
  ASSUME SInv, SpansInv
  PROVE  NumbersApart
<1>1. SeqLimit \in Nat \ {0} /\ seqno \in 0 .. SeqLimit
  BY ConstantFacts DEF SInv, RequestTypeInv
<1>2. ASSUME NEW t \in Requesters, Pending(t)
      PROVE  step[t] # "idle" /\ first[t] \in 1 .. seqno /\ first[t] + Length(t) <= seqno + 1
  <2>1. step[t] # "idle"
    BY <1>2 DEF Pending, Awaiting
  <2> QED
    BY <2>1 DEF SpansInv
<1>3. ASSUME NEW t \in Requesters, Pending(t), NEW x \in Reserved(t)
      PROVE  x \in Int /\ first[t] <= x /\ x < first[t] + Length(t)
  <2>1. CASE t \in Messages
    <3>1. PICK k \in cur[t] .. Segments[t] : x = Wrap(first[t] + k - 1)
      BY <2>1 DEF Reserved
    <3>2. cur[t] \in Nat /\ cur[t] >= 1 /\ Segments[t] \in Nat /\ Length(t) = Segments[t]
      BY <1>2, <1>3, <2>1, SegmentFacts DEF SInv, RequestTypeInv, SpansInv, Length
    <3>3. k \in Nat /\ 1 <= k /\ k <= Segments[t]
      BY <3>2
    <3>4. /\ first[t] + k - 1 \in 1 .. SeqLimit
          /\ first[t] <= first[t] + k - 1 /\ first[t] + k - 1 < first[t] + Length(t)
      BY <1>1, <1>2, <1>3, <3>2, <3>3
    <3>5. x = first[t] + k - 1
      BY <3>1, <3>4, NoWrap
    <3> QED
      BY <3>4, <3>5
  <2>2. CASE t \notin Messages
    <3>1. x = first[t] /\ Length(t) = 1
      BY <2>2 DEF Reserved, Length
    <3>2. first[t] \in 1 .. seqno
      BY <1>2, <1>3
    <3> QED
      BY <1>1, <3>1, <3>2
  <2> QED
    BY <2>1, <2>2
<1>4. ASSUME NEW t \in Requesters, NEW u \in Requesters, Pending(t), Pending(u), t # u,
             NEW x, x \in Reserved(t), x \in Reserved(u)
      PROVE  FALSE
  <2>1. first[t] + Length(t) <= first[u] \/ first[u] + Length(u) <= first[t]
    BY <1>2, <1>4 DEF SpansInv
  <2>2. x \in Int /\ first[t] <= x /\ x < first[t] + Length(t)
    BY <1>3, <1>4
  <2>3. x \in Int /\ first[u] <= x /\ x < first[u] + Length(u)
    BY <1>3, <1>4
  <2>4. first[t] \in Int /\ first[u] \in Int
    BY <1>1, <1>2, <1>4
  <2>5. Length(t) \in Int /\ Length(u) \in Int
    BY SegmentFacts DEF Length
  <2> QED
    BY <2>1, <2>2, <2>3, <2>4, <2>5
<1> QED
  BY <1>4 DEF NumbersApart

\* A task that starts takes the numbers after all those that were taken.
LEMMA StartKeepsSpans ==
  ASSUME SInv, SpansInv, NEW t \in Requesters, NEW n \in Nat, Length(t) <= n,
         Starts(t, n), seqno + n <= SeqLimit
  PROVE  SpansInv' /\ seqno' = seqno + n
<1>0. /\ step \in [Requesters -> Steps] /\ cur \in [Messages -> Nat] /\ seqno \in Nat
      /\ first \in [Requesters -> 0 .. SeqLimit] /\ SeqLimit \in Nat \ {0}
      /\ Messages \subseteq Requesters
  BY ConstantFacts DEF SInv, RequestTypeInv
<1>1. \A u \in Requesters : Length(u) \in Nat \ {0}
  BY SegmentFacts DEF Length
<1>2. seqno + n \in 1 .. SeqLimit /\ seqno + n - Length(t) + 1 \in 1 .. SeqLimit
  BY <1>0, <1>1
<1>3. seqno' = seqno + n
  BY <1>2, NoWrap DEF Starts
<1>4. first'[t] = seqno + n - Length(t) + 1
  BY <1>0, <1>2, NoWrap DEF Starts
<1>5. ASSUME NEW u \in Requesters, u # t
      PROVE  first'[u] = first[u] /\ step'[u] = step[u] /\ (u \in Messages => cur'[u] = cur[u])
  BY <1>0, <1>5 DEF Starts
<1>6. first'[t] \in 1 .. seqno' /\ first'[t] + Length(t) <= seqno' + 1 /\ seqno < first'[t]
  BY <1>0, <1>1, <1>3, <1>4
<1>7. ASSUME NEW u \in Requesters, u # t, step[u] # "idle"
      PROVE  /\ first'[u] \in 1 .. seqno' /\ first'[u] + Length(u) <= seqno' + 1
             /\ first'[u] + Length(u) <= first'[t]
  <2>1. first[u] \in 1 .. seqno /\ first[u] + Length(u) <= seqno + 1 /\ first'[u] = first[u]
    BY <1>5, <1>7 DEF SpansInv
  <2>2. Length(u) \in Nat
    BY <1>1
  <2> QED
    BY <1>0, <1>3, <1>6, <2>1, <2>2
<1>8. ASSUME NEW u \in Requesters, step'[u] # "idle"
      PROVE  first'[u] \in 1 .. seqno' /\ first'[u] + Length(u) <= seqno' + 1
  BY <1>5, <1>6, <1>7, <1>8
<1>9. ASSUME NEW u \in Requesters, NEW v \in Requesters, step'[u] # "idle", step'[v] # "idle", u # v
      PROVE  first'[u] + Length(u) <= first'[v] \/ first'[v] + Length(v) <= first'[u]
  <2>1. CASE u = t \/ v = t
    BY <1>5, <1>7, <1>9, <2>1
  <2>2. CASE u # t /\ v # t
    BY <1>5, <1>9, <2>2 DEF SpansInv
  <2> QED
    BY <2>1, <2>2
<1>10. ASSUME NEW m \in Messages, step'[m] # "idle"
       PROVE  cur'[m] >= 1
  <2>1. CASE m = t
    BY <1>0, <2>1 DEF Starts
  <2>2. CASE m # t
    BY <1>0, <1>5, <1>10, <2>2 DEF SpansInv
  <2> QED
    BY <2>1, <2>2
<1> QED
  BY <1>3, <1>8, <1>9, <1>10 DEF SpansInv, Length

\* One start uses up its share of the room that was left.
LEMMA RoomKept ==
  ASSUME SInv, SInv', FInv, SpansInv, [Next]_vars, IsFiniteSet(Messages),
         NEW K \in Nat, \A m \in Messages : Segments[m] + 1 <= K, RoomInv(K)
  PROVE  SpansInv' /\ RoomInv(K)'
<1>0. /\ step \in [Requesters -> Steps] /\ cur \in [Messages -> Nat] /\ seqno \in Nat
      /\ SeqLimit \in Nat \ {0} /\ MaxEnquiries \in Nat
      /\ Bind \in Requesters /\ Enquiry \in Requesters /\ Messages \subseteq Requesters
      /\ Bind \notin Messages /\ Enquiry \notin Messages /\ Bind # Enquiry
  <2>1. SeqLimit \in Nat /\ MaxEnquiries \in Nat
    BY SmppSessionAssumption
  <2>2. seqno \in 0 .. SeqLimit
    BY DEF SInv, RequestTypeInv
  <2> QED
    BY <2>1, <2>2, ConstantFacts DEF SInv, RequestTypeInv
<1>1. /\ enquiries \in [client : 0 .. MaxEnquiries, smsc : Nat]
      /\ enquiries.client \in 0 .. MaxEnquiries
  BY DEF RoomInv
<1>2. IsFiniteSet(Unstarted) /\ Cardinality(Unstarted) \in Nat
  BY FS_Subset, FS_CardinalityType DEF Unstarted
<1> DEFINE c == Cardinality(Unstarted)
           idle == IF step[Bind] = "idle" THEN 1 ELSE 0
           left == MaxEnquiries - enquiries.client
<1>3. c \in Nat /\ K * c \in Nat /\ idle \in {0, 1} /\ left \in Nat
      /\ seqno + idle + left + K * c <= SeqLimit
  BY <1>0, <1>1, <1>2 DEF RoomInv
<1>4. CASE NoneStarts
  <2>1. Unstarted' = Unstarted
    BY <1>0, <1>4 DEF NoneStarts, Unstarted
  <2>2. (step'[Bind] = "idle") <=> (step[Bind] = "idle")
    BY <1>0, <1>4 DEF NoneStarts
  <2>3. RoomInv(K)'
    BY <1>4, <2>1, <2>2 DEF NoneStarts, RoomInv
  <2>4. \A m \in Messages : step'[m] # "idle" => cur'[m] >= 1
    BY <1>0, <1>4 DEF NoneStarts, SpansInv
  <2>5. /\ seqno' = seqno /\ first' = first
        /\ \A t \in Requesters : step'[t] # "idle" => step[t] # "idle"
    BY <1>4 DEF NoneStarts
  <2>6. \A t : Length(t)' = Length(t)
    BY DEF Length
  <2>7. \A t \in Requesters : step'[t] # "idle" =>
          first'[t] \in 1 .. seqno' /\ first'[t] + Length(t) <= seqno' + 1
    BY <2>5 DEF SpansInv
  <2>8. \A t, u \in Requesters : step'[t] # "idle" /\ step'[u] # "idle" /\ t # u =>
          first'[t] + Length(t) <= first'[u] \/ first'[u] + Length(u) <= first'[t]
    BY <2>5 DEF SpansInv
  <2> QED
    BY <2>3, <2>4, <2>7, <2>8 DEF SpansInv, Length
<1>5. ASSUME NEW t \in {Bind, Enquiry}, Starts(t, 1)
      PROVE  /\ Unstarted' = Unstarted /\ Length(t) = 1
             /\ step'[t] = "offering" /\ \A u \in Requesters : u # t => step'[u] = step[u]
  BY <1>0, <1>5 DEF Starts, Unstarted, Length
<1>6. CASE Starts(Bind, 1) /\ UNCHANGED enquiries
  <2>1. idle = 1
    BY <1>6 DEF Starts
  <2>2. seqno + 1 <= SeqLimit
    BY <1>0, <1>3, <2>1
  <2>3. Length(Bind) <= 1
    BY <1>5, <1>6
  <2>4. SpansInv' /\ seqno' = seqno + 1
    BY <1>0, <1>6, <2>2, <2>3, StartKeepsSpans
  <2>5. Unstarted' = Unstarted /\ step'[Bind] = "offering"
    BY <1>5, <1>6
  <2>6. (seqno + 1) + 0 + left + K * c <= SeqLimit
    BY <1>0, <1>3, <2>1
  <2>7. RoomInv(K)'
    BY <1>1, <1>6, <2>4, <2>5, <2>6 DEF RoomInv
  <2> QED
    BY <2>4, <2>7
<1>7. CASE /\ Starts(Enquiry, 1) /\ enquiries.client < MaxEnquiries
           /\ enquiries' = [enquiries EXCEPT !.client = @ + 1]
  <2>1. /\ enquiries' \in [client : 0 .. MaxEnquiries, smsc : Nat]
        /\ enquiries'.client = enquiries.client + 1
    BY <1>0, <1>1, <1>7
  <2>2. left >= 1 /\ MaxEnquiries - enquiries'.client = left - 1
    BY <1>0, <1>1, <1>7, <2>1
  <2>3. seqno + 1 <= SeqLimit
    BY <1>0, <1>3, <2>2
  <2>4. Length(Enquiry) <= 1
    BY <1>5, <1>7
  <2>5. SpansInv' /\ seqno' = seqno + 1
    BY <1>0, <1>7, <2>3, <2>4, StartKeepsSpans
  <2>6. Unstarted' = Unstarted /\ step'[Bind] = step[Bind]
    BY <1>0, <1>5, <1>7
  <2>7. (seqno + 1) + idle + (left - 1) + K * c <= SeqLimit
    BY <1>0, <1>3
  <2>8. RoomInv(K)'
    BY <2>1, <2>2, <2>5, <2>6, <2>7 DEF RoomInv
  <2> QED
    BY <2>5, <2>8
<1>8. ASSUME NEW m \in Messages, NEW n \in {Segments[m], Segments[m] + 1}, Starts(m, n),
             UNCHANGED enquiries
      PROVE  SpansInv' /\ RoomInv(K)'
  <2> DEFINE d == Cardinality(Unstarted')
  <2>1. n \in Nat /\ n <= K /\ Length(m) <= n
    BY SegmentFacts DEF Length
  <2>2. /\ Unstarted = Unstarted' \cup {m} /\ m \notin Unstarted'
        /\ Unstarted' \subseteq Messages /\ step'[Bind] = step[Bind]
    BY <1>0, <1>8 DEF Starts, Unstarted
  <2>3. IsFiniteSet(Unstarted') /\ d \in Nat
    BY <2>2, FS_Subset, FS_CardinalityType
  <2>4. c = d + 1
    BY <2>2, <2>3, FS_AddElement
  <2> HIDE DEF c, d
  <2>5. K * c = K * d + K /\ K * d \in Nat
    BY <2>3, <2>4
  <2>6. seqno + n <= SeqLimit /\ (seqno + n) + idle + left + K * d <= SeqLimit
    BY <1>0, <1>3, <2>1, <2>5
  <2>7. SpansInv' /\ seqno' = seqno + n
    BY <1>0, <1>8, <2>1, <2>6, StartKeepsSpans
  <2>8. RoomInv(K)'
    BY <1>1, <1>8, <2>2, <2>6, <2>7 DEF RoomInv, d
  <2> QED
    BY <2>7, <2>8
<1> QED
  BY <1>1, <1>4, <1>6, <1>7, <1>8, StartSteps

\* A session that sends fewer PDUs than there are sequence numbers, K at most for
\* each message, never has two pending requests with one number.  The sequencer
\* gives 2^31 - 1 numbers, so that its wrapping is the only way they could.
THEOREM NumbersSuffice ==
  ASSUME IsFiniteSet(Messages), NEW K \in Nat, \A m \in Messages : Segments[m] + 1 <= K,
         1 + MaxEnquiries + K * Cardinality(Messages) <= SeqLimit
  PROVE  Spec => []NumbersApart
<1>1. Init => SInv /\ FInv /\ SpansInv /\ RoomInv(K)
  <2> SUFFICES ASSUME Init PROVE SpansInv /\ RoomInv(K)
    BY InitEstablishes, InitStarts
  <2>1. /\ seqno = 0 /\ enquiries = [client |-> 0, smsc |-> 0]
        /\ \A t \in Requesters : step[t] = "idle"
    BY DEF Init
  <2>2. Unstarted = Messages /\ step[Bind] = "idle"
    BY <2>1, ConstantFacts DEF Unstarted
  <2>3. SpansInv
    BY <2>1, ConstantFacts DEF SpansInv
  <2>4. Cardinality(Messages) \in Nat /\ MaxEnquiries \in Nat
    BY FS_CardinalityType, SmppSessionAssumption
  <2>5. enquiries \in [client : 0 .. MaxEnquiries, smsc : Nat] /\ enquiries.client = 0
    BY <2>1, <2>4
  <2>6. K * Cardinality(Messages) \in Nat
    BY <2>4
  <2>7. 0 + 1 + (MaxEnquiries - 0) + K * Cardinality(Messages) <= SeqLimit
    BY <2>4, <2>6
  <2> QED
    BY <2>1, <2>2, <2>3, <2>5, <2>7 DEF RoomInv
<1>2. SInv /\ FInv /\ SpansInv /\ RoomInv(K) /\ [Next]_vars => (SInv /\ SpansInv /\ RoomInv(K))'
  <2> SUFFICES ASSUME SInv, FInv, SpansInv, RoomInv(K), [Next]_vars
               PROVE  (SInv /\ SpansInv /\ RoomInv(K))'
    OBVIOUS
  <2>1. SInv'
    BY StepKeeps
  <2> QED
    BY <2>1, RoomKept
<1>3. SInv /\ SpansInv => NumbersApart
  BY SpansApart
<1>4. SInv /\ SInv' /\ FInv /\ NumbersApart' /\ [Next]_vars => FInv'
  BY StepFlies
<1> QED
  BY <1>1, <1>2, <1>3, <1>4, PTL DEF Spec

\* What the session promises then, whatever the SMSC does.
COROLLARY ShortSession ==
  ASSUME IsFiniteSet(Messages), NEW K \in Nat, \A m \in Messages : Segments[m] + 1 <= K,
         1 + MaxEnquiries + K * Cardinality(Messages) <= SeqLimit
  PROVE  Spec => [](EachAwaitsItsOwnNumber /\ OwnResponse /\ OutcomeIsTrue /\ AckBeforeReport)
<1>1. Spec => []NumbersApart
  BY NumbersSuffice
<1> QED
  BY <1>1, OwnNumbers, OwnResponses, OutcomesTrue, AcksFirst, PTL
===============================================================================
