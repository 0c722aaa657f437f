--------------------------------- MODULE Framing ---------------------------------
(***************************************************************************)
(* The byte stream of an SMPP session: EsmeClient.consume_stream and       *)
(* extract_pdu.  A read gets any number of the octets under way; each PDU  *)
(* is cut out of the buffer by the length in its header.                   *)
(*                                                                         *)
(* An octet is <<pdu, k, n>>: the k-th of the n octets of a PDU.  The      *)
(* variables are part of a module that says what a PDU is and handles it.  *)
(***************************************************************************)
EXTENDS Integers, SequencesExt

CONSTANT HeaderLength     \* of a PDU, 16 in the source

ASSUME FramingAssumption == HeaderLength \in Nat \ {0}

VARIABLES wire,    \* octets the SMSC has written and the client has not read
          buffer,  \* EsmeClient.buffer
          reader   \* consume_stream is "reading" the stream or "extracting" PDUs

streamVars == <<wire, buffer, reader>>

Rest(s, n) == SubSeq(s, n + 1, Len(s))

StreamInit == wire = << >> /\ buffer = << >> /\ reader = "reading"

OctetsOf(pdu, n) == [k \in 1 .. n |-> <<pdu, k, n>>]

Write(pdu, n) == wire' = wire \o OctetsOf(pdu, n) /\ UNCHANGED <<buffer, reader>>

\* async for data in self.stream: self.buffer.extend(data)
Read(n) ==
  /\ reader = "reading" /\ n \in 1 .. Len(wire)
  /\ buffer' = buffer \o SubSeq(wire, 1, n)
  /\ wire' = Rest(wire, n)
  /\ reader' = "extracting"

\* The length field, which is there if the data begin where a PDU does.
CommandLength(data) == IF data[1][2] = 1 THEN data[1][3] ELSE 0

\* Fault: the length is taken to be that of the body.
PduLengthOfBody(data) ==
  IF Len(data) < HeaderLength \/ Len(data) < CommandLength(data) + HeaderLength THEN 0
  ELSE CommandLength(data) + HeaderLength

\* extract_pdu: how many octets it takes, 0 for None.
PduLength(data) ==
  IF Len(data) < HeaderLength \/ Len(data) < CommandLength(data) THEN 0
  ELSE CommandLength(data)

\* None is left: back to the stream.
ExtractNone == /\ reader = "extracting" /\ PduLength(buffer) = 0
               /\ reader' = "reading"
               /\ UNCHANGED <<wire, buffer>>

\* Fault: the stream is read again after each PDU.
ExtractOnePdu(pdu) ==
  /\ reader = "extracting" /\ PduLength(buffer) > 0
  /\ pdu = buffer[1][1]
  /\ buffer' = Rest(buffer, PduLength(buffer))
  /\ reader' = "reading"
  /\ UNCHANGED wire

\* pdu is cut out of the buffer; the loop goes on after it was handled.
ExtractPdu(pdu) ==
  /\ reader = "extracting" /\ PduLength(buffer) > 0
  /\ pdu = buffer[1][1]
  /\ buffer' = Rest(buffer, PduLength(buffer))
  /\ UNCHANGED <<wire, reader>>
===============================================================================
