------------------------------- MODULE SmppInbound -------------------------------
(***************************************************************************)
(* Texts on their way from the ones who sent them to the application: cut  *)
(* into PDUs by the sending half of the processors, delivered by the SMSC  *)
(* over a byte stream, read, decoded and put together by the receiving     *)
(* half in one SmppTransceiverTransport.                                   *)
(*                                                                         *)
(* The SMSC is external.  It delivers the PDUs of a text in any order,     *)
(* mixed with those of others, again when it missed the response, and      *)
(* again after a restart those it had no response to.  An exception in the *)
(* reader ends the transport's process, and with it the connection and the *)
(* cache.  The handling of one PDU is one step here; SmppSession has the   *)
(* waits in it, and what becomes of delivery reports.                      *)
(***************************************************************************)
EXTENDS ShortMessages, Framing, Multipart

CONSTANTS Originals,          \* the texts that are sent, numbered in the order they are
          Sender, Text, Coding, Handling,   \* of each
          MaxRepeats,         \* bound on the PDUs delivered again without need
          MaxCrashes,         \* bound on the restarts of the transport
          ReadSizes,          \* most octets that a read gets
          Window              \* bound on the PDUs written and not handled

Senders == {Sender[o] : o \in Originals}

\* Ours write in the codec of their data coding, others in what they understand by it.
WritingCodec(o) ==
  IF Handling[o] = "csm16" THEN ForeignCodecs[Coding[o]] ELSE DataCodingCodecs[Coding[o]]

TextOctets == [o \in Originals |-> Encode(Text[o], WritingCodec(o))]

\* A text of handling "csm16" comes from a sender that is none of ours.  More parts
\* than an octet counts, with sar_ parameters, are not sent: the library's encoder
\* raises in the writer.
ASSUME SmppInboundAssumption ==
  /\ Originals \subseteq Nat
  /\ DOMAIN Sender = Originals
  /\ \A o \in Originals : Text[o] \in Seq(ToSet(Text[o]))
  /\ Coding \in [Originals -> Codings]
  /\ Handling \in [Originals -> Handlings \cup {"csm16"}]
  /\ \A o \in Originals :
       Handling[o] = "multipart_sar" /\ Encodable(Text[o], WritingCodec(o)) =>
         Len(TextOctets[o]) <= MaxParts * PartLength[Coding[o]]
  /\ MaxRepeats \in Nat /\ MaxCrashes \in Nat /\ Window \in Nat \ {0}
  /\ ReadSizes \subseteq Nat \ {0}

VARIABLES seqno,      \* InMemorySequencer.sequence_number of each sender
          pdus,       \* what each text was sent as: << >> before
          refused,    \* the texts that could not be sent
          due,        \* the PDUs written to the stream and not handled, in order
          answered,   \* the PDUs that were handled, and answered
          repeats, crashes,
          session,    \* "up", or "ended" by an exception
          emitted     \* the messages handed on: [from, text]

sendVars == <<seqno, pdus, refused>>
vars == <<sendVars, streamVars, cache, due, answered, repeats, crashes, session, emitted>>

Init == /\ seqno = [s \in Senders |-> 0]
        /\ pdus = [o \in Originals |-> << >>]
        /\ refused = {}
        /\ StreamInit
        /\ cache = {}
        /\ due = << >> /\ answered = {} /\ repeats = 0 /\ crashes = 0
        /\ session = "up"
        /\ emitted = {}

-------------------------------------------------------------------------------
(* The senders.                                                            *)

\* Parts with a header of the longer form, which SMSCs send too.
SubmitCsm16(octets, coding, seq) ==
  LET parts == Split(octets, PartLength[coding])
  IN  [i \in DOMAIN parts |-> PduOf(coding, << 6, 8, 4, 1, seq, Len(parts), i >> \o parts[i])]

Unsent(o) == pdus[o] = << >> /\ o \notin refused

NextToSend(o) == Unsent(o) /\ \A e \in Originals : Unsent(e) => o <= e

\* The sequence numbers that o's PDUs take, with the one that makes a reference.
NumbersTaken(n) == IF n > 1 THEN n + 1 ELSE n

Submit(o) ==
  /\ NextToSend(o)
  /\ Encodable(Text[o], WritingCodec(o))
  /\ ~TooManyParts(TextOctets[o], Coding[o], Handling[o])
  /\ LET seq == seqno[Sender[o]] + 1
     IN  pdus' = [pdus EXCEPT ![o] =
           IF Handling[o] = "csm16" THEN SubmitCsm16(TextOctets[o], Coding[o], seq)
           ELSE HandleOutbound(TextOctets[o], Coding[o], Handling[o], seq)]
  /\ seqno' = [seqno EXCEPT ![Sender[o]] = @ + NumbersTaken(Len(pdus'[o]))]
  /\ UNCHANGED <<refused, streamVars, cache, due, answered, repeats, crashes, session,
                 emitted>>

\* The handler raises, and the consumer drops the message: the encoding fails
\* before a number is taken, the number of parts after the reference was.
SubmitRaises(o) ==
  /\ NextToSend(o)
  /\ refused' = refused \cup {o}
  /\ \/ /\ ~Encodable(Text[o], WritingCodec(o))
        /\ UNCHANGED seqno
     \/ /\ Encodable(Text[o], WritingCodec(o))
        /\ TooManyParts(TextOctets[o], Coding[o], Handling[o])
        /\ seqno' = [seqno EXCEPT ![Sender[o]] = @ + 1]
  /\ UNCHANGED <<pdus, streamVars, cache, due, answered, repeats, crashes, session, emitted>>

-------------------------------------------------------------------------------
(* The SMSC.                                                               *)

Size(p) == LET pdu == pdus[p[1]][p[2]]
           IN  HeaderLength + Len(pdu.short) + (IF pdu.payload = None THEN 0 ELSE Len(pdu.payload))

\* It writes the i-th PDU of o, once every text was sent: what it stores it
\* forwards in any order.
Deliver(o, i) ==
  LET p == <<o, i>>
  IN  /\ session = "up" /\ Len(due) < Window
      /\ \A s \in Originals : ~Unsent(s)
      /\ i \in DOMAIN pdus[o]
      /\ IF p \in answered \cup ToSet(due)
         THEN repeats < MaxRepeats /\ repeats' = repeats + 1
         ELSE UNCHANGED repeats
      /\ Write(p, Size(p))
      /\ due' = Append(due, p)
      /\ UNCHANGED <<sendVars, cache, answered, crashes, session, emitted>>

-------------------------------------------------------------------------------
(* The transport.                                                          *)

Reads(n) ==
  /\ session = "up" /\ Read(Min({n, Len(wire)}))
  /\ UNCHANGED <<sendVars, cache, due, answered, repeats, crashes, session, emitted>>

StopsExtracting ==
  /\ session = "up" /\ ExtractNone
  /\ UNCHANGED <<sendVars, cache, due, answered, repeats, crashes, session, emitted>>

\* The next PDU is cut out of the buffer, and decoded.
Extracts(p) ==
  /\ session = "up" /\ ExtractPdu(p)
  /\ due' = Tail(due)
  /\ UNCHANGED <<sendVars, repeats, crashes>>

Message(o, text) == [from |-> Sender[o], text |-> text]

\* dr_processor is asked first: a text that reads as a report is answered as one, and
\* goes no further.
HandleReport(o, i) ==
  /\ Extracts(<<o, i>>)
  /\ IsReport(pdus[o][i])
  /\ answered' = answered \cup {<<o, i>>}
  /\ UNCHANGED <<cache, session, emitted>>

\* There is no codec for the data coding, or decode raises.
Undecodable(pdu) ==
  LET codec == ReadingCodec(pdu.coding)
  IN  codec # None => Decode(Content(pdu), codec).rest # << >>

\* _handle_multipart_message: the content is decoded part by part, before it is
\* put together; the part that completes the message gives it its addresses.
HandlePart(o, i) ==
  LET pdu == pdus[o][i]
      part == ExtractMultipart(pdu)
      stored == [part EXCEPT !.content = Decode(@, ReadingCodec(pdu.coding)).text]
  IN  /\ Extracts(<<o, i>>)
      /\ ~IsReport(pdu) /\ part # None /\ ~Undecodable(pdu)
      /\ StoreMultipart(stored)
      /\ emitted' = IF Complete(stored)
                    THEN emitted \cup {Message(o, Joined(Gathered(stored)))} ELSE emitted
      /\ answered' = answered \cup {<<o, i>>}
      /\ UNCHANGED session

\* _handle_short_message
HandleWhole(o, i) ==
  LET pdu == pdus[o][i]
  IN  /\ Extracts(<<o, i>>)
      /\ ~IsReport(pdu) /\ ExtractMultipart(pdu) = None /\ ~Undecodable(pdu)
      /\ emitted' = emitted \cup {Message(o, Decode(GetText(pdu), ReadingCodec(pdu.coding)).text)}
      /\ answered' = answered \cup {<<o, i>>}
      /\ UNCHANGED <<cache, session>>

\* Nobody catches what _decode_text raises.
HandleRaises(o, i) ==
  /\ Extracts(<<o, i>>)
  /\ ~IsReport(pdus[o][i]) /\ Undecodable(pdus[o][i])
  /\ session' = "ended"
  /\ UNCHANGED <<cache, answered, emitted>>

\* A new process and a new connection.
Restart == /\ crashes < MaxCrashes
           /\ crashes' = crashes + 1
           /\ session' = "up"
           /\ wire' = << >> /\ buffer' = << >> /\ reader' = "reading"
           /\ cache' = {} /\ due' = << >>
           /\ UNCHANGED <<sendVars, answered, repeats, emitted>>

-------------------------------------------------------------------------------
Handle(o, i) == \/ HandleReport(o, i) \/ HandleRaises(o, i)
                \/ HandlePart(o, i) \/ HandleWhole(o, i)

Next == \/ \E o \in Originals : Submit(o) \/ SubmitRaises(o)
        \/ \E o \in Originals : \E i \in DOMAIN pdus[o] : Deliver(o, i) \/ Handle(o, i)
        \/ \E n \in ReadSizes : Reads(n)
        \/ StopsExtracting
        \/ Restart

Spec == Init /\ [][Next]_vars

-------------------------------------------------------------------------------
\* The parts in the cache are of texts that were sent, and no key's are complete.
TypeOK ==
  /\ seqno \in [Senders -> Nat]
  /\ \A p \in cache : /\ p.number \in 1 .. p.total
                      /\ Cardinality({q \in cache : SameKey(p, q)}) < p.total
                      /\ \A q \in cache : SameKey(p, q) /\ p.number = q.number => p = q
  /\ reader \in {"reading", "extracting"}
  /\ \A p \in answered : p[1] \in Originals /\ p[2] \in DOMAIN pdus[p[1]]
  /\ repeats \in 0 .. MaxRepeats /\ crashes \in 0 .. MaxCrashes

\* The parts of o's PDUs, as the receiving half finds them.
PartsFound(o) == [i \in DOMAIN pdus[o] |-> ExtractMultipart(pdus[o][i])]

\* They are numbered from one, under one reference, none longer than a message may
\* be, and their octets joined are those of the text.
MakeTheText(parts, o) ==
  /\ \A i \in DOMAIN parts : /\ parts[i] # None
                             /\ parts[i].number = i /\ parts[i].total = Len(parts)
                             /\ parts[i].ref = parts[1].ref
                             /\ Len(parts[i].content) \in 1 .. PartLength[Coding[o]]
  /\ FlattenSeq([i \in DOMAIN parts |-> parts[i].content]) = TextOctets[o]

\* What a long text is sent as, the receiving half finds to be parts that make it.
PartsMakeTheText ==
  [][\A o \in Originals :
       pdus'[o] # pdus[o] /\ Len(pdus'[o]) > 1 => MakeTheText(PartsFound(o)', o)]_pdus

\* The buffer and what is under way are the PDUs that are due, from the beginning
\* of the next one: none is lost, cut in the wrong place or read twice, however
\* the octets arrive.
FramesInStep ==
  session = "up" =>
    buffer \o wire = FlattenSeq([k \in DOMAIN due |-> OctetsOf(due[k], Size(due[k]))])

\* No PDU that has arrived waits for another to arrive.
NoPduWaits ==
  reader = "reading" /\ due # << >> => Len(buffer) < Size(Head(due))

\* No text that is sent in one piece looks like a part: it does not begin like one,
\* with numbers that fit.
NoneLooksLikeAPart ==
  \A o \in Originals :
    /\ Handling[o] # "csm16" /\ Encodable(Text[o], WritingCodec(o))
    /\ Handling[o] = "short_message" \/ FitsInOneMessage(TextOctets[o], Coding[o])
    => ExtractMultipart(PduOf(Coding[o], TextOctets[o])) = None

\* No two texts have parts of the same reference and number of parts.
KeysApart ==
  \A o, e \in Originals : \A i \in DOMAIN pdus[o], j \in DOMAIN pdus[e] :
    LET p == ExtractMultipart(pdus[o][i])
        q == ExtractMultipart(pdus[e][j])
    IN  p # None /\ q # None /\ SameKey(p, q) => o = e

-------------------------------------------------------------------------------
(* What becomes of the texts.                                              *)

Reading(o) == ReadingCodec(Coding[o])

\* The codec that o's text is read with is the one it was written with, and reads
\* every character of it back.
Readable(o) ==
  /\ Encodable(Text[o], WritingCodec(o)) /\ Reading(o) = WritingCodec(o)
  /\ ReadsBack(Text[o], Reading(o))

\* Where a character of o's text ends that leaves the codec in its first mode.
Boundaries(o) ==
  {Len(Written(SubSeq(Text[o], 1, n), WritingCodec(o))) :
     n \in {k \in 0 .. Len(Text[o]) : ModeAfter(Text[o], k, WritingCodec(o)) = WritingCodec(o).start}}

\* The cuts between the parts of o fall there.
CutBetweenCharacters(o) ==
  \A i \in 1 .. Len(pdus[o]) - 1 : i * PartLength[Coding[o]] \in Boundaries(o)

\* What o's octets were cut into, and what that is read as, piece by piece.
CutInto(o) == IF Len(pdus[o]) > 1 THEN Split(TextOctets[o], PartLength[Coding[o]])
             ELSE << TextOctets[o] >>

ReadOneByOne(o) ==
  LET pieces == CutInto(o)
  IN  FlattenSeq([i \in DOMAIN pieces |-> Decode(pieces[i], Reading(o)).text])

\* What a message of o's text holds: the text, but for one that is not read back, and
\* one that was cut where a codec with modes was in another than its first.
TextRead(o) ==
  IF Readable(o) /\ (Modes(Reading(o)) = {Reading(o).start} \/ CutBetweenCharacters(o))
  THEN Text[o] ELSE ReadOneByOne(o)

Whole(o) == Message(o, TextRead(o))

\* Every message handed on is one that was sent: the text, whole, of one original,
\* from that original's sender.  A text that only looks like a part is not taken
\* for one unless its numbers fit, and a part that cannot be decoded is no part.
OnlyOriginals ==
  \A m \in emitted : \E o \in Originals :
    /\ pdus[o] # << >> /\ Reading(o) # None
    /\ m.from = Sender[o] /\ m.text = TextRead(o)

\* A text all of whose PDUs were answered by a transport that has not restarted
\* has been handed on, whatever came in between and however often they came, unless
\* one of them reads as a report.
CompleteIsEmitted ==
  \A o \in Originals :
    /\ crashes = 0 /\ pdus[o] # << >>
    /\ \A i \in DOMAIN pdus[o] : <<o, i>> \in answered /\ ~IsReport(pdus[o][i])
    => Whole(o) \in emitted

\* Only a text that is not read back, for its characters or for want of a codec, or
\* one with a character cut in two, ends the session of the one who gets it: its PDU
\* is the one that was being handled.
OnlyUnreadableTextsRaise ==
  [][session' # session /\ session = "up" =>
       LET o == Head(due)[1] IN ~Readable(o) \/ ~CutBetweenCharacters(o)]_vars
===============================================================================
