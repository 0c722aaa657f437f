------------------------------ MODULE ShortMessages ------------------------------
(***************************************************************************)
(* The short message processors as functions: what PDUs a text is sent as  *)
(* (SubmitShortMessageProcessor), and what text or part of one a PDU holds *)
(* (ShortMessageProcessor).                                                *)
(*                                                                         *)
(* A text is a sequence of characters, encoded to a sequence of octets.  A *)
(* PDU is what the processors read and write of a submit_sm or deliver_sm: *)
(* its data coding, its short_message, its message_payload if any, and the *)
(* three sar_ parameters if any.                                           *)
(***************************************************************************)
EXTENDS Integers, SequencesExt

CONSTANTS DataCodingCodecs,  \* the codec of each data coding, None for most
          Overrides,         \* data_coding_overrides, of some codings
          ForeignCodecs,     \* the codecs of senders that are none of ours
          Reports,           \* the short messages that the regex of reports matches
          WholeLength,       \* _get_msg_length of a message in one piece, by coding,
          PartLength,        \* and of one that is split
          MaxParts,          \* most parts that an octet can number: 255 in the source
          SarRollover,       \* multipart_sar_reference_rollover
          None

Codings == DOMAIN DataCodingCodecs
Octet == 0 .. 255
Handlings == {"short_message", "message_payload", "multipart_sar", "multipart_udh"}

\* data_coding_overrides before the codecs of DataCodingCodecs
ReadingCodec(coding) ==
  IF coding \in DOMAIN Overrides THEN Overrides[coding] ELSE DataCodingCodecs[coding]

Codecs == (Range(DataCodingCodecs) \cup Range(Overrides) \cup Range(ForeignCodecs)) \ {None}

-------------------------------------------------------------------------------
(* Codecs.  A codec writes each of its characters as a word of octets, in  *)
(* one of its modes, and begins and ends a text in the mode start.  Most   *)
(* have one mode; iso2022_jp has a mode for each of its character sets,    *)
(* and octets that shift to it.  What it reads in a mode is another table: *)
(* a word, to text and a mode.  gsm0338 writes the escape character as 27, *)
(* and reads no word 27, but 27 with what follows it as another character. *)

Modes(codec) == {codec.start} \cup Range(codec.mode)
Chars(codec) == DOMAIN codec.word
Words(codec) == DOMAIN codec.reads
Alphabet(codec) == UNION {ToSet(codec.reads[r].text) : r \in Words(codec)}

\* It knows where a word that it reads ends, and reads what it writes to shift.
IsCodec(codec) ==
  /\ DOMAIN codec.mode = Chars(codec)
  /\ \A c \in Chars(codec) : codec.word[c] \in Seq(Octet)
  /\ \A r \in Words(codec) :
       /\ r[1] \in Modes(codec) /\ r[2] \in Seq(Octet) \ {<< >>} /\ r = <<r[1], r[2]>>
       /\ codec.reads[r].text \in Seq(Alphabet(codec)) /\ codec.reads[r].mode \in Modes(codec)
       /\ \A s \in Words(codec) : r[1] = s[1] /\ IsPrefix(r[2], s[2]) => r = s
  /\ \A m, n \in Modes(codec) : m # n =>
       /\ n \in DOMAIN codec.shift /\ codec.shift[n] \in Seq(Octet)
       /\ <<m, codec.shift[n]>> \in Words(codec)
       /\ codec.reads[<<m, codec.shift[n]>>].text = << >>
       /\ codec.reads[<<m, codec.shift[n]>>].mode = n

ASSUME ShortMessagesAssumption ==
  /\ \A codec \in Codecs : IsCodec(codec)
  /\ DOMAIN Overrides \subseteq Codings
  /\ ForeignCodecs \in [Codings -> Codecs]
  /\ WholeLength \in [Codings -> Nat \ {0}] /\ PartLength \in [Codings -> Nat \ {0}]
  /\ MaxParts \in Octet \ {0} /\ SarRollover \in Nat \ {0}
  /\ None \notin Nat \X Nat \X Nat /\ None \notin Seq(Nat)
  /\ None \notin [ref : Nat, total : Nat, number : Nat, content : Seq(Nat)]

\* encode raises UnicodeEncodeError for a character the codec lacks, and there is
\* no codec to encode with for most data codings.
Encodable(text, codec) == codec # None /\ ToSet(text) \subseteq Chars(codec)

\* The mode in which the first n characters of a text leave it, and the octets that
\* change it.
ModeAfter(text, n, codec) == IF n = 0 THEN codec.start ELSE codec.mode[text[n]]
Shift(m, n, codec) == IF m = n THEN << >> ELSE codec.shift[n]

Written(text, codec) ==
  FlattenSeq([i \in DOMAIN text |->
    Shift(ModeAfter(text, i - 1, codec), ModeAfter(text, i, codec), codec) \o codec.word[text[i]]])

Encode(text, codec) ==
  Written(text, codec) \o Shift(ModeAfter(text, Len(text), codec), codec.start, codec)

\* decode, which collects octets until they are a word.  rest is what is left over:
\* if there is any, decode raises.
Decode(octets, codec) ==
  LET Collect(d, octet) ==
        LET word == Append(d.rest, octet)
        IN  IF <<d.mode, word>> \in Words(codec)
            THEN LET read == codec.reads[<<d.mode, word>>]
                 IN  [text |-> d.text \o read.text, rest |-> << >>, mode |-> read.mode]
            ELSE [d EXCEPT !.rest = word]
  IN  FoldLeft(Collect, [text |-> << >>, rest |-> << >>, mode |-> codec.start], octets)

\* The codec reads each character of the text where it wrote it.  A text with the
\* escape character, in gsm0338, is not read back.
ReadsBack(text, codec) ==
  \A c \in ToSet(text) :
    LET word == <<codec.mode[c], codec.word[c]>>
    IN  /\ word \in Words(codec)
        /\ codec.reads[word].text = << c >> /\ codec.reads[word].mode = codec.mode[c]

-------------------------------------------------------------------------------
(* Sending.                                                                *)

PduOf(coding, short) == [coding |-> coding, short |-> short, payload |-> None, sar |-> None]

FitsInOneMessage(octets, coding) == Len(octets) <= WholeLength[coding]

\* Fault: off by one, the last octet of each part is left out.
SplitShort(octets, size) ==
  [i \in 1 .. (Len(octets) + size - 1) \div size |->
     SubSeq(octets, (i - 1) * size + 1, Min({i * size - 1, Len(octets)}))]

\* _split_message
Split(octets, size) ==
  [i \in 1 .. (Len(octets) + size - 1) \div size |->
     SubSeq(octets, (i - 1) * size + 1, Min({i * size, Len(octets)}))]

\* submit_sm_short_message, submit_sm_long_message
SubmitShort(octets, coding) == << PduOf(coding, octets) >>
SubmitLong(octets, coding) == << [PduOf(coding, << >>) EXCEPT !.payload = octets] >>

\* submit_csm_sar_message
SubmitSar(octets, coding, seq) ==
  LET parts == Split(octets, PartLength[coding])
  IN  [i \in DOMAIN parts |->
         [PduOf(coding, parts[i]) EXCEPT !.sar = << seq % SarRollover, Len(parts), i >>]]

\* Fault: the parts are numbered from zero.
SubmitUdhFromZero(octets, coding, seq) ==
  LET parts == Split(octets, PartLength[coding])
  IN  [i \in DOMAIN parts |->
         PduOf(coding, << 5, 0, 3, seq % 255, Len(parts), i - 1 >> \o parts[i])]

\* submit_csm_udh_message: the reference is the sequence number modulo 0xFF.
SubmitUdh(octets, coding, seq) ==
  LET parts == Split(octets, PartLength[coding])
  IN  [i \in DOMAIN parts |->
         PduOf(coding, << 5, 0, 3, seq % 255, Len(parts), i >> \o parts[i])]

\* handle_outbound_message, where seq is the next sequence number.
HandleOutbound(octets, coding, handling, seq) ==
  IF handling = "short_message" \/ FitsInOneMessage(octets, coding)
  THEN SubmitShort(octets, coding)
  ELSE CASE handling = "message_payload" -> SubmitLong(octets, coding)
         [] handling = "multipart_sar"   -> SubmitSar(octets, coding, seq)
         [] handling = "multipart_udh"   -> SubmitUdh(octets, coding, seq)

\* bytes([len(segments)]) raises ValueError for more parts than an octet counts.
TooManyParts(octets, coding, handling) ==
  /\ handling = "multipart_udh" /\ ~FitsInOneMessage(octets, coding)
  /\ Len(Split(octets, PartLength[coding])) > MaxParts

-------------------------------------------------------------------------------
(* Receiving.                                                              *)

\* int.from_bytes(octets, "big")
FromBytes(octets) == FoldLeft(LAMBDA n, octet : 256 * n + octet, 0, octets)

\* The two headers of a part: how they begin, and how long the reference is.
CSM   == [begin |-> << 5, 0, 3 >>, refSize |-> 1]
CSM16 == [begin |-> << 6, 8, 4 >>, refSize |-> 2]

Part(ref, total, number, content) ==
  [ref |-> ref, total |-> total, number |-> number, content |-> content]

AfterHeader(short, h) ==
  LET n == 3 + h.refSize
  IN  Part(FromBytes(SubSeq(short, 4, n)), short[n + 1], short[n + 2],
           SubSeq(short, n + 3, Len(short)))

\* Fault: the numbers after the header are not looked at.
HasHeaderUnchecked(short, h) == Len(short) >= 5 + h.refSize /\ IsPrefix(h.begin, short)

HasHeader(short, h) ==
  /\ Len(short) >= 5 + h.refSize /\ IsPrefix(h.begin, short)
  /\ LET p == AfterHeader(short, h) IN p.total >= 1 /\ p.number \in 1 .. p.total

\* _extract_multipart: a part, or None.
ExtractMultipart(pdu) ==
  CASE pdu.sar # None -> Part(pdu.sar[1], pdu.sar[2], pdu.sar[3], pdu.short)
    [] pdu.sar = None /\ HasHeader(pdu.short, CSM) -> AfterHeader(pdu.short, CSM)
    [] pdu.sar = None /\ HasHeader(pdu.short, CSM16) -> AfterHeader(pdu.short, CSM16)
    [] OTHER -> None

\* _get_text, as octets
GetText(pdu) == IF pdu.payload # None THEN pdu.payload ELSE pdu.short

\* The octets of a PDU that are decoded.
Content(pdu) ==
  IF ExtractMultipart(pdu) # None THEN ExtractMultipart(pdu).content ELSE GetText(pdu)

\* _handle_deliver_sm_body: whatever the text, what the regex matches is a report.
IsReport(pdu) == pdu.short \in Reports
===============================================================================
