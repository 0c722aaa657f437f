------------------------------- MODULE SmppSession -------------------------------
(***************************************************************************)
(* One SMPP session of the SmppTransceiverTransport (smpp.py, client.py):  *)
(* the tasks that share its EsmeClient, from the bind until an exception   *)
(* in one of them ends the process.                                        *)
(*                                                                         *)
(*   requesters  setup (the bind), enquire_link, and one handle_outbound   *)
(*               per outbound message; each waits for the response to the  *)
(*               request it sent                                           *)
(*   writer      publish_stream, which takes PDUs from a channel without   *)
(*               buffer, so that whoever sends one waits for it            *)
(*   reader      consume_stream, which handles one received PDU at a time  *)
(*               and waits for the writer or the forwarder in between      *)
(*   forwarder   handle_inbound_message_or_event, which publishes events   *)
(*               and messages; its channel has no buffer either            *)
(*                                                                         *)
(* The SMSC is external.  It answers requests in any order, sends nothing  *)
(* of its own before it accepted the bind, and sends the receipts of a     *)
(* segment after the response that accepted it.                            *)
(***************************************************************************)
EXTENDS Integers, Sequences, FiniteSets, SequencesExt

CONSTANTS Messages,       \* outbound messages
          Segments,       \* [Messages -> Nat]: PDUs that each is split into
          Inbounds,       \* messages the SMSC delivers
          Parts,          \* [Inbounds -> Nat]: PDUs that each comes in
          Refusals,       \* the ways the SMSC may refuse a request
          SmscMay,        \* what else it may do, of the set below
          MaxEnquiries,   \* bound on the enquire links and unknown requests, in either direction
          SeqLimit,       \* largest sequence number (0x7FFFFFFF in the source)
          Window,         \* bound on the unread PDUs from the SMSC
          Bind, Enquiry, Reader,   \* the tasks that are not handlers
          None

Requesters == Messages \cup {Bind, Enquiry}
SegmentIds == UNION {{<<m, i>> : i \in 1 .. Segments[m]} : m \in Messages}
PartIds == UNION {{<<x, i>> : i \in 1 .. Parts[x]} : x \in Inbounds}

\* What a requester or the reader gives the writer, and a handler or the reader the forwarder.
Received == ({"report"} \X SegmentIds) \cup ({"deliver"} \X PartIds)
              \cup {<<"enquire_link", Enquiry>>, <<"unknown", Enquiry>>, <<"unbind", Bind>>}
Pdus == [type : {"request"}, about : SegmentIds \cup {Bind, Enquiry}, seq : 1 .. SeqLimit]
          \cup [type : {"answer"}, about : Received, seq : {0}]
Items == [type : {"ack", "nack", "pending", "final"}, about : Messages]
           \cup [type : {"inbound"}, about : Inbounds]

ASSUME SmppSessionAssumption ==
  /\ Segments \in [Messages -> Nat \ {0}] /\ Parts \in [Inbounds -> Nat \ {0}]
  /\ Refusals \subseteq {"error", "generic_nack"}
  /\ SmscMay \subseteq {"report pending", "unknown request", "unbind", "stall", "stray response"}
  /\ MaxEnquiries \in Nat /\ SeqLimit \in Nat \ {0} /\ Window \in Nat \ {0}
  /\ Bind # Enquiry /\ {Bind, Enquiry} \cap (Messages \cup SegmentIds) = {}
  /\ {Reader, None} \cap (Requesters \cup SegmentIds) = {} /\ Reader # None
  /\ None \notin Items \cup Pdus

VARIABLES
  status,      \* "up", or the exception that ended the process
  seqno,       \* InMemorySequencer.sequence_number
  responses,   \* EsmeClient.responses: who waits for each sequence number
  step,        \* where each requester is
  first,       \* the sequence number of each requester's (first) PDU
  cur,         \* the segment each message is at
  reply,       \* the response each requester was handed
  pduq,        \* the tasks waiting to give the writer a PDU, in order
  writer,      \* the PDU the writer is writing, or None
  reader,      \* what the reader is doing
  fwdq,        \* the tasks waiting to give the forwarder an item, in order
  forwarder,   \* what the forwarder is publishing, or None
  published,   \* what it has published, in order
  ids,         \* InMemorySmppCache._smpp_msg_id
  parts,       \* the parts in InMemorySmppCache._multipart
  down,        \* PDUs the SMSC sent that the reader has not seen, in order
  smsc,        \* the SMSC's own state
  enquiries    \* enquire links started: [client, smsc]

requestVars == <<seqno, responses, step, first, cur, reply>>
readVars == <<reader, down, parts>>
forwardVars == <<forwarder, published>>
vars == <<status, requestVars, pduq, writer, readVars, fwdq, forwardVars, ids,
          smsc, enquiries>>

Up == status = "up"
Raise(exception) ==
  /\ status' = exception
  /\ UNCHANGED <<requestVars, pduq, writer, readVars, fwdq, forwardVars, ids, smsc,
                 enquiries>>

Init ==
  /\ status = "up" /\ seqno = 0
  /\ responses = [n \in 1 .. SeqLimit |-> None]
  /\ step = [t \in Requesters |-> "idle"]
  /\ first = [t \in Requesters |-> 0]
  /\ cur = [m \in Messages |-> 0]
  /\ reply = [t \in Requesters |-> None]
  /\ pduq = << >> /\ writer = None /\ fwdq = << >>
  /\ reader = [at |-> "reading", about |-> None]
  /\ forwarder = None /\ published = << >>
  /\ ids = [s \in SegmentIds |-> None]
  /\ parts = {} /\ down = << >>
  /\ smsc = [reads |-> TRUE, bound |-> FALSE, todo |-> {}, accepted |-> {}, refused |-> {},
             reported |-> {}, delivered |-> {}, answers |-> {}, unbound |-> FALSE]
  /\ enquiries = [client |-> 0, smsc |-> 0]

-------------------------------------------------------------------------------
(* Requests of the client.                                                 *)

\* get_next_sequence_number
Wrap(n) == ((n - 1) % SeqLimit) + 1

\* The tasks waiting at the two channels without buffer.
OfferPdu(t, pdu) == pduq' = Append(pduq, [task |-> t, pdu |-> pdu])
\* Fault: the task that comes last is served first.
OfferItemFirst(t, item) == fwdq' = << [task |-> t, item |-> item] >> \o fwdq

OfferItem(t, item) == fwdq' = Append(fwdq, [task |-> t, item |-> item])

\* send_pdu with a request, up to its first wait.
SendRequest(t, about, seq) ==
  /\ responses' = [responses EXCEPT ![seq] = t]
  /\ OfferPdu(t, [type |-> "request", about |-> about, seq |-> seq])
  /\ step' = [step EXCEPT ![t] = "offering"]

StartBind ==
  /\ Up /\ step[Bind] = "idle"
  /\ seqno' = Wrap(seqno + 1)
  /\ first' = [first EXCEPT ![Bind] = seqno']
  /\ SendRequest(Bind, Bind, seqno')
  /\ UNCHANGED <<status, cur, reply, writer, readVars, fwdq, forwardVars, ids, smsc,
                 enquiries>>

\* The rest of setup: the connector, the forwarder and the consumers.
FinishSetup ==
  /\ Up /\ step[Bind] = "bound"
  /\ step' = [step EXCEPT ![Bind] = "ended"]
  /\ UNCHANGED <<status, seqno, responses, first, cur, reply, pduq, writer, readVars,
                 fwdq, forwardVars, ids, smsc, enquiries>>

StartEnquiry ==
  /\ Up /\ step[Bind] \in {"bound", "ended"} /\ step[Enquiry] = "idle"
  /\ enquiries.client < MaxEnquiries
  /\ enquiries' = [enquiries EXCEPT !.client = @ + 1]
  /\ seqno' = Wrap(seqno + 1)
  /\ first' = [first EXCEPT ![Enquiry] = seqno']
  /\ SendRequest(Enquiry, Enquiry, seqno')
  /\ UNCHANGED <<status, cur, reply, writer, readVars, fwdq, forwardVars, ids, smsc>>

\* Fault: a message of several segments takes one sequence number.
HandleOutboundCountsOne(m) ==
  /\ Up /\ step[Bind] = "ended" /\ step[m] = "idle"
  /\ seqno' = Wrap(seqno + 1)
  /\ first' = [first EXCEPT ![m] = seqno']
  /\ cur' = [cur EXCEPT ![m] = 1]
  /\ SendRequest(m, <<m, 1>>, first'[m])
  /\ UNCHANGED <<status, reply, writer, readVars, fwdq, forwardVars, ids, smsc,
                 enquiries>>

\* handle_outbound: all the segments get their sequence numbers at once, after
\* one that only makes the reference number when there are several.
HandleOutbound(m) ==
  /\ Up /\ step[Bind] = "ended" /\ step[m] = "idle"
  /\ LET extra == IF Segments[m] > 1 THEN 1 ELSE 0
     IN  /\ seqno' = Wrap(seqno + extra + Segments[m])
         /\ first' = [first EXCEPT ![m] = Wrap(seqno + extra + 1)]
  /\ cur' = [cur EXCEPT ![m] = 1]
  /\ SendRequest(m, <<m, 1>>, first'[m])
  /\ UNCHANGED <<status, reply, writer, readVars, fwdq, forwardVars, ids, smsc,
                 enquiries>>

\* move_on_after's deadline: only the bind and the enquire link have one.
BindTimeout == /\ Up /\ step[Bind] \in {"offering", "waiting"}
               /\ Raise("BindTimeout")
\* Fault: the deadline runs from the moment the request is written.
EnquireLinkTimeoutOnceSent == /\ Up /\ step[Enquiry] = "waiting"
                              /\ Raise("EnquireLinkTimeout")

EnquireLinkTimeout == /\ Up /\ step[Enquiry] \in {"offering", "waiting"}
                      /\ Raise("EnquireLinkTimeout")

\* The response arrives at a requester.
BindAccepted ==
  /\ Up /\ step[Bind] = "resumed" /\ reply[Bind].status = "ok"
  /\ step' = [step EXCEPT ![Bind] = "bound"]
  /\ UNCHANGED <<status, seqno, responses, first, cur, reply, pduq, writer, readVars,
                 fwdq, forwardVars, ids, smsc, enquiries>>

EnquiryAnswered ==
  /\ Up /\ step[Enquiry] = "resumed" /\ reply[Enquiry].status = "ok"
  /\ step' = [step EXCEPT ![Enquiry] = "idle"]
  /\ UNCHANGED <<status, seqno, responses, first, cur, reply, pduq, writer, readVars,
                 fwdq, forwardVars, ids, smsc, enquiries>>

BindRefused == /\ Up /\ step[Bind] = "resumed" /\ reply[Bind].status # "ok"
               /\ Raise("EsmeResponseStatusError")

\* A segment was accepted: its id is stored, and the next one sent.
SegmentAccepted(m) ==
  /\ Up /\ step[m] = "resumed" /\ reply[m].status = "ok" /\ cur[m] < Segments[m]
  /\ ids' = [ids EXCEPT ![reply[m].about] = m]
  /\ cur' = [cur EXCEPT ![m] = @ + 1]
  /\ SendRequest(m, <<m, cur'[m]>>, Wrap(first[m] + cur[m]))
  /\ UNCHANGED <<status, seqno, first, reply, writer, readVars, fwdq, forwardVars,
                 smsc, enquiries>>

\* Fault: the status of the response is not looked at.
MessageAnswered(m) ==
  /\ Up /\ step[m] = "resumed" /\ cur[m] = Segments[m]
  /\ ids' = [ids EXCEPT ![reply[m].about] = m]
  /\ step' = [step EXCEPT ![m] = "reporting"]
  /\ OfferItem(m, [type |-> "ack", about |-> m])
  /\ UNCHANGED <<status, seqno, responses, first, cur, reply, pduq, writer, readVars,
                 forwardVars, smsc, enquiries>>

MessageAccepted(m) ==
  /\ Up /\ step[m] = "resumed" /\ reply[m].status = "ok" /\ cur[m] = Segments[m]
  /\ ids' = [ids EXCEPT ![reply[m].about] = m]
  /\ step' = [step EXCEPT ![m] = "reporting"]
  /\ OfferItem(m, [type |-> "ack", about |-> m])
  /\ UNCHANGED <<status, seqno, responses, first, cur, reply, pduq, writer, readVars,
                 forwardVars, smsc, enquiries>>

MessageRefused(m) ==
  /\ Up /\ step[m] = "resumed" /\ reply[m].status = "error"
  /\ step' = [step EXCEPT ![m] = "reporting"]
  /\ OfferItem(m, [type |-> "nack", about |-> m])
  /\ UNCHANGED <<status, seqno, responses, first, cur, reply, pduq, writer, readVars,
                 forwardVars, ids, smsc, enquiries>>

\* A generic_nack is not the kind of response submit_sm requires: the handler
\* raises, and the consumer drops the message.
WrongResponse(m) ==
  /\ Up /\ step[m] = "resumed" /\ reply[m].status = "generic_nack"
  /\ step' = [step EXCEPT ![m] = "failed"]
  /\ UNCHANGED <<status, seqno, responses, first, cur, reply, pduq, writer, readVars,
                 fwdq, forwardVars, ids, smsc, enquiries>>

-------------------------------------------------------------------------------
(* The writer.                                                             *)

\* It takes the PDU of the task that has waited longest, which goes on: a
\* requester to wait for the response, the reader to the next PDU, or to raise
\* after an unbind.
WriterTakes ==
  /\ Up /\ writer = None /\ pduq # << >>
  /\ LET t == Head(pduq).task
     IN  IF t = Reader
         THEN /\ reader' = IF reader.at = "unbinding" THEN [reader EXCEPT !.at = "raising"]
                           ELSE [at |-> "reading", about |-> None]
              /\ UNCHANGED step
         ELSE step' = [step EXCEPT ![t] = "waiting"] /\ UNCHANGED reader
  /\ writer' = Head(pduq).pdu
  /\ pduq' = Tail(pduq)
  /\ UNCHANGED <<status, seqno, responses, first, cur, reply, down, parts, fwdq,
                 forwardVars, ids, smsc, enquiries>>

WriterWrites ==
  /\ Up /\ writer # None /\ smsc.reads
  /\ smsc' = IF writer.type = "request" THEN [smsc EXCEPT !.todo = @ \cup {writer}]
             ELSE [smsc EXCEPT !.answers = @ \cup {writer.about}]
  /\ writer' = None
  /\ UNCHANGED <<status, requestVars, pduq, readVars, fwdq, forwardVars, ids, enquiries>>

-------------------------------------------------------------------------------
(* The reader.                                                             *)

Reads(type) == Up /\ reader.at = "reading" /\ down # << >> /\ Head(down).type = type

Known(n) == n \in DOMAIN responses /\ responses[n] # None

\* Fault: responses are taken to come in the order of the sequence numbers.
ReadResponseInOrder ==
  /\ Reads("response")
  /\ \E n \in 1 .. SeqLimit :
       /\ responses[n] # None /\ \A k \in 1 .. n - 1 : responses[k] = None
       /\ responses' = [responses EXCEPT ![n] = None]
       /\ step' = [step EXCEPT ![responses[n]] = "resumed"]
       /\ reply' = [reply EXCEPT ![responses[n]] = Head(down)]
       /\ reader' = [at |-> "handing", about |-> responses[n]]
  /\ down' = Tail(down)
  /\ UNCHANGED <<status, seqno, first, cur, pduq, writer, parts, fwdq, forwardVars, ids,
                 smsc, enquiries>>

\* handle_pdu with a response: it is handed to the waiting task, and the reader
\* closes the channel, which lets the other tasks run before it goes on.
ReadResponse ==
  /\ Reads("response") /\ Known(Head(down).seq)
  /\ LET n == Head(down).seq
         t == responses[n]
     IN  /\ responses' = [responses EXCEPT ![n] = None]
         /\ step' = [step EXCEPT ![t] = "resumed"]
         /\ reply' = [reply EXCEPT ![t] = Head(down)]
         /\ reader' = [at |-> "handing", about |-> t]
  /\ down' = Tail(down)
  /\ UNCHANGED <<status, seqno, first, cur, pduq, writer, parts, fwdq, forwardVars, ids,
                 smsc, enquiries>>

\* self.responses.pop(pdu.seqNum) raises KeyError, which nobody catches.
ReadUnknownResponse == /\ Reads("response") /\ ~Known(Head(down).seq)
                       /\ Raise("KeyError")

\* Fault: the reader does not let the other task run.
ReaderGoesOnAtOnce ==
  /\ Up /\ reader.at = "handing"
  /\ reader' = [at |-> "reading", about |-> None]
  /\ UNCHANGED <<status, requestVars, pduq, writer, down, parts, fwdq, forwardVars, ids,
                 smsc, enquiries>>

\* Fault: the reader waits until the other task has finished.
ReaderAwaitsTask ==
  /\ Up /\ reader.at = "handing"
  /\ step[reader.about] \in {"idle", "bound", "ended", "failed"}
  /\ reader' = [at |-> "reading", about |-> None]
  /\ UNCHANGED <<status, requestVars, pduq, writer, down, parts, fwdq, forwardVars, ids,
                 smsc, enquiries>>

\* The task it was handed to has run, up to its next wait.
ReaderGoesOn ==
  /\ Up /\ reader.at = "handing" /\ step[reader.about] # "resumed"
  /\ reader' = [at |-> "reading", about |-> None]
  /\ UNCHANGED <<status, requestVars, pduq, writer, down, parts, fwdq, forwardVars, ids,
                 smsc, enquiries>>

\* What a response of the client answers.
Kind(pdu) == <<pdu.type, pdu.about>>

Answer(about) ==
  /\ OfferPdu(Reader, [type |-> "answer", about |-> about, seq |-> 0])
  /\ reader' = [at |-> "answering", about |-> about]

Forward(item, about) ==
  /\ OfferItem(Reader, item)
  /\ reader' = [at |-> "forwarding", about |-> about]

\* A delivery report: _create_event looks the id up with get_smpp_message_id,
\* which removes it, and gives an event if there was one.
ReadReport ==
  /\ Reads("report")
  /\ LET r == Head(down)
     IN  /\ ids' = [ids EXCEPT ![r.about] = None]
         /\ IF ids[r.about] = None
            THEN Answer(Kind(r)) /\ UNCHANGED fwdq
            ELSE /\ Forward([type |-> r.status, about |-> ids[r.about]], Kind(r))
                 /\ UNCHANGED pduq
  /\ down' = Tail(down)
  /\ UNCHANGED <<status, requestVars, writer, parts, forwardVars, smsc, enquiries>>

\* store_multipart: with part p its text is complete.
Completes(p) == \A i \in 1 .. Parts[p[1]] : <<p[1], i>> \in parts \cup {p}

\* A part that does not complete its text stays in memory, and gives no message.
ReadPart ==
  /\ Reads("deliver") /\ ~Completes(Head(down).about)
  /\ parts' = parts \cup {Head(down).about}
  /\ Answer(Kind(Head(down)))
  /\ down' = Tail(down)
  /\ UNCHANGED <<status, requestVars, writer, fwdq, forwardVars, ids, smsc, enquiries>>

\* Fault: the channel to the forwarder has a buffer.
ReadInboundBuffered ==
  /\ Reads("deliver") /\ Completes(Head(down).about)
  /\ OfferItem(None, [type |-> "inbound", about |-> Head(down).about[1]])
  /\ parts' = {p \in parts : p[1] # Head(down).about[1]}
  /\ Answer(Kind(Head(down)))
  /\ down' = Tail(down)
  /\ UNCHANGED <<status, requestVars, writer, forwardVars, ids, smsc, enquiries>>

\* A message in one PDU, or the last part of one: it is handed to the forwarder
\* before it is confirmed.
ReadInbound ==
  /\ Reads("deliver") /\ Completes(Head(down).about)
  /\ Forward([type |-> "inbound", about |-> Head(down).about[1]], Kind(Head(down)))
  /\ parts' = {p \in parts : p[1] # Head(down).about[1]}
  /\ down' = Tail(down)
  /\ UNCHANGED <<status, requestVars, pduq, writer, forwardVars, ids, smsc, enquiries>>

ReadEnquiry ==
  /\ Reads("enquire_link")
  /\ Answer(Kind(Head(down)))
  /\ down' = Tail(down)
  /\ UNCHANGED <<status, requestVars, writer, parts, fwdq, forwardVars, ids, smsc, enquiries>>

\* A request that has no handler is answered by a generic_nack.
ReadUnknownRequest ==
  /\ Reads("unknown")
  /\ Answer(Kind(Head(down)))
  /\ down' = Tail(down)
  /\ UNCHANGED <<status, requestVars, writer, parts, fwdq, forwardVars, ids, smsc, enquiries>>

ReadUnbind ==
  /\ Reads("unbind")
  /\ OfferPdu(Reader, [type |-> "answer", about |-> Kind(Head(down)), seq |-> 0])
  /\ reader' = [at |-> "unbinding", about |-> Kind(Head(down))]
  /\ down' = Tail(down)
  /\ UNCHANGED <<status, requestVars, writer, parts, fwdq, forwardVars, ids, smsc, enquiries>>

\* The writer has taken the response, not written it: raising cancels it.
UnbindRaises == Up /\ reader.at = "raising" /\ Raise("SmscUnbind")

-------------------------------------------------------------------------------
(* The forwarder.                                                          *)

\* It takes what the task that has waited longest offers: a handler is done
\* then, and the reader sends its deliver_sm_resp.
ForwarderTakes ==
  /\ Up /\ step[Bind] = "ended" /\ forwarder = None /\ fwdq # << >>
  /\ LET t == Head(fwdq).task
     IN  IF t = Reader
         THEN Answer(reader.about) /\ UNCHANGED step
         ELSE step' = [step EXCEPT ![t] = "ended"] /\ UNCHANGED <<reader, pduq>>
  /\ forwarder' = Head(fwdq).item
  /\ fwdq' = Tail(fwdq)
  /\ UNCHANGED <<status, seqno, responses, first, cur, reply, writer, down, parts,
                 published, ids, smsc, enquiries>>

ForwarderPublishes ==
  /\ Up /\ forwarder # None
  /\ published' = Append(published, forwarder)
  /\ forwarder' = None
  /\ UNCHANGED <<status, requestVars, pduq, writer, readVars, fwdq, ids, smsc, enquiries>>

-------------------------------------------------------------------------------
(* The SMSC.                                                               *)

Sends(type, about, seq, how) ==
  /\ Up /\ smsc.reads /\ ~smsc.unbound /\ Len(down) < Window
  /\ down' = Append(down, [type |-> type, about |-> about, seq |-> seq, status |-> how])
  /\ UNCHANGED <<status, requestVars, pduq, writer, reader, parts, fwdq, forwardVars, ids>>

SmscAccepts(pdu) ==
  /\ pdu \in smsc.todo
  /\ Sends("response", pdu.about, pdu.seq, "ok")
  /\ smsc' = [smsc EXCEPT !.todo = @ \ {pdu},
        !.bound = @ \/ pdu.about = Bind,
        !.accepted = IF pdu.about \in SegmentIds THEN @ \cup {pdu.about} ELSE @]
  /\ UNCHANGED enquiries

SmscRefuses(pdu, how) ==
  /\ pdu \in smsc.todo /\ pdu.about \notin {Enquiry}
  /\ Sends("response", pdu.about, pdu.seq, how)
  /\ smsc' = [smsc EXCEPT !.todo = @ \ {pdu},
        !.refused = IF pdu.about \in SegmentIds THEN @ \cup {pdu.about} ELSE @]
  /\ UNCHANGED enquiries

SmscReports(s, how) ==
  /\ s \in smsc.accepted /\ {<<s, how>>, <<s, "final">>} \cap smsc.reported = {}
  /\ how = "pending" => "report pending" \in SmscMay
  /\ Sends("report", s, 0, how)
  /\ smsc' = [smsc EXCEPT !.reported = @ \cup {<<s, how>>}]
  /\ UNCHANGED enquiries

SmscDelivers(p) ==
  /\ smsc.bound /\ p \notin smsc.delivered
  /\ Sends("deliver", p, 0, "new")
  /\ smsc' = [smsc EXCEPT !.delivered = @ \cup {p}]
  /\ UNCHANGED enquiries

\* An enquire link, or a request that the client does not know.
SmscEnquires(type) ==
  /\ smsc.bound /\ enquiries.smsc < MaxEnquiries
  /\ type = "unknown" => "unknown request" \in SmscMay
  /\ Sends(type, Enquiry, 0, "new")
  /\ enquiries' = [enquiries EXCEPT !.smsc = @ + 1]
  /\ UNCHANGED smsc

SmscUnbinds ==
  /\ smsc.bound /\ "unbind" \in SmscMay
  /\ Sends("unbind", Bind, 0, "new")
  /\ smsc' = [smsc EXCEPT !.unbound = TRUE]
  /\ UNCHANGED enquiries

\* The SMSC or the network goes silent without closing the connection.
SmscStalls ==
  /\ Up /\ "stall" \in SmscMay /\ smsc.reads /\ enquiries.client < MaxEnquiries
  /\ smsc' = [smsc EXCEPT !.reads = FALSE]
  /\ UNCHANGED <<status, requestVars, pduq, writer, readVars, fwdq, forwardVars, ids,
                 enquiries>>

\* A generic_nack for a PDU whose sequence number the SMSC could not read.
SmscStrays ==
  /\ "stray response" \in SmscMay
  /\ Sends("response", None, 0, "generic_nack")
  /\ UNCHANGED <<smsc, enquiries>>

-------------------------------------------------------------------------------
Handler(m) == \/ HandleOutbound(m) \/ SegmentAccepted(m) \/ MessageAccepted(m)
              \/ MessageRefused(m) \/ WrongResponse(m)
SetupTask == StartBind \/ BindAccepted \/ BindRefused \/ FinishSetup
EnquiryTask == StartEnquiry \/ EnquiryAnswered
WriterTask == WriterTakes \/ WriterWrites
ReaderTask == \/ ReadResponse \/ ReadUnknownResponse \/ ReaderGoesOn \/ ReadReport
              \/ ReadPart \/ ReadInbound \/ ReadEnquiry \/ ReadUnknownRequest
              \/ ReadUnbind \/ UnbindRaises
ForwarderTask == ForwarderTakes \/ ForwarderPublishes
Timeouts == BindTimeout \/ EnquireLinkTimeout
SmscAnswers == \E pdu \in smsc.todo :
                 SmscAccepts(pdu) \/ \E how \in Refusals : SmscRefuses(pdu, how)
SmscInitiates == \/ \E s \in SegmentIds, how \in {"pending", "final"} : SmscReports(s, how)
                 \/ \E p \in PartIds : SmscDelivers(p)
                 \/ \E type \in {"enquire_link", "unknown"} : SmscEnquires(type)
                 \/ SmscUnbinds
                 \/ SmscStalls
                 \/ SmscStrays

Next == \/ SetupTask
        \/ EnquiryTask
        \/ \E m \in Messages : Handler(m)
        \/ WriterTask
        \/ ReaderTask
        \/ ForwarderTask
        \/ Timeouts
        \/ SmscAnswers
        \/ SmscInitiates

Spec == Init /\ [][Next]_vars

\* Trio runs every runnable task, and the connection takes what is published.
ClientFairness == /\ WF_vars(SetupTask) /\ WF_vars(EnquiryTask)
                  /\ \A m \in Messages : WF_vars(Handler(m))
                  /\ WF_vars(WriterTask) /\ WF_vars(ReaderTask) /\ WF_vars(ForwarderTask)

\* With an SMSC that answers every request, and no help from the timeouts.
AnsweredSpec == Spec /\ ClientFairness /\ WF_vars(SmscAnswers)

\* With an SMSC that owes nothing, and timeouts that expire.
TimedSpec == Spec /\ ClientFairness /\ WF_vars(Timeouts)

-------------------------------------------------------------------------------
NumberOf(t) == IF t \in Messages THEN Wrap(first[t] + cur[t] - 1) ELSE first[t]
Awaiting(t) == step[t] \in {"offering", "waiting"}

\* "It's important that each request that we're waiting on a reply for has a
\* unique sequence number": the table of responses holds exactly the requests
\* that are out, each under its own number.
EachAwaitsItsOwnNumber ==
  Up => /\ \A t \in Requesters : Awaiting(t) => responses[NumberOf(t)] = t
        /\ \A n \in 1 .. SeqLimit : LET t == responses[n] IN
             t # None => Awaiting(t) /\ NumberOf(t) = n

RequestOf(t) == IF t \in Messages THEN <<t, cur[t]>> ELSE t

\* However the SMSC orders its responses among the requests, each task gets the
\* response to the request it sent last.
OwnResponse ==
  \A t \in Requesters : step[t] = "resumed" => reply[t].about = RequestOf(t)

Queued == {q.item : q \in ToSet(fwdq)} \cup ({forwarder} \ {None}) \cup ToSet(published)

\* What the application is told is what happened: ack if every segment was
\* accepted, nack if one was refused.
OutcomeIsTrue ==
  \A m \in Messages :
    /\ [type |-> "ack", about |-> m] \in Queued =>
         \A s \in SegmentIds : s[1] = m => s \in smsc.accepted
    /\ [type |-> "nack", about |-> m] \in Queued =>
         \E s \in SegmentIds : s[1] = m /\ s \in smsc.refused

\* The relation between the SMPP message id and the vumi message id is cached
\* "so that we can know what message a delivery report is for when we receive
\* it": a report read after the response that named its id finds the message,
\* although the response is stored by another task than the reader.
EveryReportIsForwarded ==
  [][Reads("report") /\ reader'.at # "reading" => fwdq' # fwdq]_vars

\* The report of a message that fits one PDU never overtakes its ack, although
\* two tasks offer them to the forwarder.
AckBeforeReport ==
  \A i \in DOMAIN published :
    /\ published[i].type \in {"pending", "final"}
    /\ Segments[published[i].about] = 1
    => \E j \in 1 .. i - 1 : published[j] = [type |-> "ack", about |-> published[i].about]

Confirmed == {p \in PartIds : <<"deliver", p>> \in smsc.answers}
Published(x) == [type |-> "inbound", about |-> x] \in ToSet(published)

\* Of what the SMSC was told it may forget, a part is in memory until its text is
\* complete (the cache "will not survive process restarts"), and a text whose parts were
\* all confirmed is lost if the process ends now only if it is the one that the
\* forwarder holds: there is no buffer in front of it.
OneInboundAtRisk ==
  /\ \A p \in Confirmed : p \in parts \/ [type |-> "inbound", about |-> p[1]] \in Queued
  /\ \A x, y \in Inbounds :
       /\ \A p \in PartIds : p[1] \in {x, y} => p \in Confirmed
       /\ ~Published(x) /\ ~Published(y)
       => x = y

\* The tasks that wait for each other (handlers for the reader, the reader for
\* the writer and the forwarder) never do so in a circle: an outbound message
\* taken is brought to its end, and an inbound one to the application.
EverySubmitEnds ==
  \A m \in Messages :
    step[m] # "idle" ~> step[m] \in {"ended", "failed"} \/ ~Up
EveryInboundIsPublished ==
  \A x \in Inbounds :
    (\A p \in PartIds : p[1] = x => p \in smsc.delivered) ~> Published(x) \/ ~Up

\* An SMSC that goes silent is noticed, whatever every task is waiting for then.
SilenceIsNoticed == ~smsc.reads ~> ~Up
===============================================================================
