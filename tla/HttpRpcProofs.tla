----------------------------- MODULE HttpRpcProofs -----------------------------
(***************************************************************************)
(* Proofs about HttpRpc, for every set of requests and replies.            *)
(*                                                                         *)
(* What OneAckPerRequest needs is that an open request is one no reply has *)
(* been acknowledged for: TableInv says that a registered request's event  *)
(* is not set, and AckInv that an acknowledged reply has set the event of  *)
(* its request.                                                            *)
(***************************************************************************)
EXTENDS HttpRpc, TLAPS

\* A registered request has a task that will remove it, and is unanswered.
TableInv ==
  \A r \in requests : /\ phase[r] \in {"publishing", "parked", "cancelled"}
                      /\ r \notin event

\* What a task's place in inbound_request says of its tables.
TraceInv ==
  \A r \in Requests :
    /\ phase[r] \in {"new", "body"} => r \notin event /\ r \notin published
    /\ r \in published /\ r \notin event /\ phase[r] # "ended" => r \in requests
    /\ phase[r] \in {"publishing", "parked"} /\ r \notin event => r \in requests
    /\ phase[r] = "parked" => r \in requests
    /\ phase[r] \in {"checkpoint", "woken"} => r \in event

\* A set event comes with a result until the task is over.  The base class
\* keeps no other results.
ResultInv ==
  \A r \in Requests :
    /\ r \in event /\ phase[r] # "ended" => results[r] # None
    /\ r \notin Aat /\ results[r] # None => r \in event /\ phase[r] # "ended"

\* Nothing is answered before its task is cancelled or over.
AnswerInv ==
  \A r \in Requests :
    /\ phase[r] \notin {"cancelled", "ended"} => answer[r] = None
    /\ phase[r] = "cancelled" => answer[r] \in {TimedOut, Gone}

\* An acknowledged reply finished its request, and its result is not replaced.
AckInv ==
  \A m \in Replies :
    Accepted(m) =>
      /\ InReplyTo[m] \in event
      /\ InReplyTo[m] \in published
      /\ InReplyTo[m] \notin Aat => results[InReplyTo[m]] \in {None, m}

\* Only a message that names a request is turned down as unmatched.
NamedInv ==
  \A m \in Replies : handler[m] = "unmatched" => InReplyTo[m] \in Requests

IInv == /\ TypeOK
        /\ TableInv
        /\ TraceInv
        /\ ResultInv
        /\ AnswerInv
        /\ AckInv
        /\ OneAckPerRequest
        /\ NamedInv
        /\ UnmatchedOnlyWhenSettled
        /\ AckedReplyIsTheAnswer

-------------------------------------------------------------------------------
\* Each step preserves the invariant, conjunct by conjunct; the last step of a proof
\* gathers the conjuncts that the action leaves alone.
LEMMA ArrivePreserves ==
  ASSUME IInv, NEW r \in Requests, Arrive(r)
  PROVE  IInv'
<1>1. TypeOK'
  BY DEF IInv, TypeOK, Arrive, Phases
<1>2. TableInv'
  BY DEF IInv, Arrive, TableInv
<1>3. TraceInv'
  BY DEF IInv, Arrive, TraceInv
<1>4. ResultInv'
  BY DEF IInv, Arrive, ResultInv
<1>5. AnswerInv'
  BY DEF IInv, Arrive, AnswerInv
<1>6. UnmatchedOnlyWhenSettled'
  BY DEF IInv, Arrive, UnmatchedOnlyWhenSettled
<1>7. /\ AckInv'
      /\ OneAckPerRequest'
      /\ NamedInv'
      /\ AckedReplyIsTheAnswer'
  BY DEF IInv, Arrive, AckInv, OneAckPerRequest, NamedInv,
     AckedReplyIsTheAnswer, Accepted
<1> QED
  BY <1>1, <1>2, <1>3, <1>4, <1>5, <1>6, <1>7 DEF IInv

LEMMA RegisterPreserves ==
  ASSUME IInv, NEW r \in Requests, Register(r)
  PROVE  IInv'
<1>1. TypeOK'
  BY DEF IInv, TypeOK, Register, Phases
<1>2. TableInv'
  BY DEF IInv, TypeOK, Register, TableInv, TraceInv
<1>3. TraceInv'
  BY DEF IInv, Register, TraceInv
<1>4. ResultInv'
  BY DEF IInv, Register, ResultInv
<1>5. AnswerInv'
  BY DEF IInv, Register, AnswerInv
<1>6. UnmatchedOnlyWhenSettled'
  BY DEF IInv, Register, UnmatchedOnlyWhenSettled
<1>7. /\ AckInv'
      /\ OneAckPerRequest'
      /\ NamedInv'
      /\ AckedReplyIsTheAnswer'
  BY DEF IInv, Register, AckInv, OneAckPerRequest, NamedInv,
     AckedReplyIsTheAnswer, Accepted
<1> QED
  BY <1>1, <1>2, <1>3, <1>4, <1>5, <1>6, <1>7 DEF IInv

LEMMA RegisterInvalidPreserves ==
  ASSUME IInv, NEW r \in Requests, RegisterInvalid(r)
  PROVE  IInv'
<1>1. TypeOK'
  BY DEF IInv, TypeOK, RegisterInvalid, Phases
<1>2. TableInv'
  BY DEF IInv, RegisterInvalid, TableInv
<1>3. TraceInv'
  BY DEF IInv, TypeOK, RegisterInvalid, TraceInv
<1>4. ResultInv'
  BY HttpRpcAssumption DEF IInv, TypeOK, RegisterInvalid, ResultInv
<1>5. AnswerInv'
  BY DEF IInv, RegisterInvalid, AnswerInv
<1>6. AckInv'
  BY DEF IInv, RegisterInvalid, AckInv, Accepted
<1>7. UnmatchedOnlyWhenSettled'
  BY DEF IInv, RegisterInvalid, UnmatchedOnlyWhenSettled
<1>8. /\ OneAckPerRequest'
      /\ NamedInv'
      /\ AckedReplyIsTheAnswer'
  BY DEF IInv, RegisterInvalid, OneAckPerRequest, NamedInv,
     AckedReplyIsTheAnswer, Accepted
<1> QED
  BY <1>1, <1>2, <1>3, <1>4, <1>5, <1>6, <1>7, <1>8 DEF IInv

LEMMA BrokerTakesPreserves ==
  ASSUME IInv, NEW r \in Requests, BrokerTakes(r)
  PROVE  IInv'
<1>1. TypeOK'
  BY DEF IInv, TypeOK, BrokerTakes
<1>2. TraceInv'
  BY DEF IInv, BrokerTakes, TraceInv
<1>3. AckInv'
  BY DEF IInv, BrokerTakes, AckInv, Accepted
<1>4. /\ TableInv'
      /\ ResultInv'
      /\ AnswerInv'
      /\ OneAckPerRequest'
      /\ NamedInv'
      /\ UnmatchedOnlyWhenSettled'
      /\ AckedReplyIsTheAnswer'
  BY DEF IInv, BrokerTakes, TableInv, ResultInv, AnswerInv, OneAckPerRequest,
     NamedInv, UnmatchedOnlyWhenSettled, AckedReplyIsTheAnswer, Accepted
<1> QED
  BY <1>1, <1>2, <1>3, <1>4 DEF IInv

LEMMA PublishReturnsPreserves ==
  ASSUME IInv, NEW r \in Requests, PublishReturns(r)
  PROVE  IInv'
<1>1. TypeOK'
  BY DEF IInv, TypeOK, PublishReturns, Phases
<1>2. TableInv'
  BY DEF IInv, PublishReturns, TableInv
<1>3. TraceInv'
  BY DEF IInv, PublishReturns, TraceInv
<1>4. ResultInv'
  BY DEF IInv, PublishReturns, ResultInv
<1>5. AnswerInv'
  BY DEF IInv, PublishReturns, AnswerInv
<1>6. UnmatchedOnlyWhenSettled'
  BY DEF IInv, PublishReturns, UnmatchedOnlyWhenSettled
<1>7. /\ AckInv'
      /\ OneAckPerRequest'
      /\ NamedInv'
      /\ AckedReplyIsTheAnswer'
  BY DEF IInv, PublishReturns, AckInv, OneAckPerRequest, NamedInv,
     AckedReplyIsTheAnswer, Accepted
<1> QED
  BY <1>1, <1>2, <1>3, <1>4, <1>5, <1>6, <1>7 DEF IInv

LEMMA PublishRaisesPreserves ==
  ASSUME IInv, NEW r \in Requests, PublishRaises(r)
  PROVE  IInv'
<1>1. TypeOK'
  BY DEF IInv, TypeOK, PublishRaises, Cleanup, End, Phases, Answers
<1>2. TableInv'
  BY DEF IInv, PublishRaises, Cleanup, End, TableInv
<1>3. TraceInv'
  BY DEF IInv, TypeOK, PublishRaises, Cleanup, End, TraceInv
<1>4. ResultInv'
  BY DEF IInv, TypeOK, PublishRaises, Cleanup, End, ResultInv
<1>5. AnswerInv'
  BY DEF IInv, TypeOK, PublishRaises, End, AnswerInv
<1>6. AckInv'
  BY DEF IInv, PublishRaises, Cleanup, AckInv, Accepted
<1>7. UnmatchedOnlyWhenSettled'
  BY DEF IInv, PublishRaises, End, UnmatchedOnlyWhenSettled
<1>8. AckedReplyIsTheAnswer'
  BY DEF IInv, PublishRaises, End, AckedReplyIsTheAnswer, Accepted
<1>9. /\ OneAckPerRequest'
      /\ NamedInv'
  BY DEF IInv, PublishRaises, OneAckPerRequest, NamedInv, Accepted
<1> QED
  BY <1>1, <1>2, <1>3, <1>4, <1>5, <1>6, <1>7, <1>8, <1>9 DEF IInv

LEMMA DeadlinePreserves ==
  ASSUME IInv, NEW r \in Requests, Deadline(r)
  PROVE  IInv'
<1>1. TypeOK'
  BY DEF IInv, TypeOK, Deadline, Phases, Answers
<1>2. TableInv'
  BY DEF IInv, Deadline, TableInv
<1>3. TraceInv'
  BY DEF IInv, Deadline, Cancellable, TraceInv
<1>4. ResultInv'
  BY DEF IInv, Deadline, Cancellable, ResultInv
<1>5. AnswerInv'
  BY DEF IInv, TypeOK, Deadline, AnswerInv
<1>6. UnmatchedOnlyWhenSettled'
  BY DEF IInv, Deadline, Cancellable, UnmatchedOnlyWhenSettled
<1>7. AckedReplyIsTheAnswer'
  BY DEF IInv, Deadline, AckedReplyIsTheAnswer, Accepted
<1>8. /\ AckInv'
      /\ OneAckPerRequest'
      /\ NamedInv'
  BY DEF IInv, Deadline, AckInv, OneAckPerRequest, NamedInv, Accepted
<1> QED
  BY <1>1, <1>2, <1>3, <1>4, <1>5, <1>6, <1>7, <1>8 DEF IInv

LEMMA DisconnectPreserves ==
  ASSUME IInv, NEW r \in Requests, Disconnect(r)
  PROVE  IInv'
<1>1. TypeOK'
  BY DEF IInv, TypeOK, Disconnect, Phases, Answers
<1>2. TableInv'
  BY DEF IInv, Disconnect, TableInv
<1>3. TraceInv'
  BY DEF IInv, Disconnect, Cancellable, TraceInv
<1>4. ResultInv'
  BY DEF IInv, Disconnect, Cancellable, ResultInv
<1>5. AnswerInv'
  BY DEF IInv, TypeOK, Disconnect, AnswerInv
<1>6. UnmatchedOnlyWhenSettled'
  BY DEF IInv, Disconnect, Cancellable, UnmatchedOnlyWhenSettled
<1>7. AckedReplyIsTheAnswer'
  BY DEF IInv, Disconnect, AckedReplyIsTheAnswer, Accepted
<1>8. /\ AckInv'
      /\ OneAckPerRequest'
      /\ NamedInv'
  BY DEF IInv, Disconnect, AckInv, OneAckPerRequest, NamedInv, Accepted
<1> QED
  BY <1>1, <1>2, <1>3, <1>4, <1>5, <1>6, <1>7, <1>8 DEF IInv

LEMMA UnwindPreserves ==
  ASSUME IInv, NEW r \in Requests, Unwind(r)
  PROVE  IInv'
<1>1. TypeOK'
  BY DEF IInv, TypeOK, Unwind, Cleanup, End, Phases
<1>2. TableInv'
  BY DEF IInv, Unwind, Cleanup, End, TableInv
<1>3. TraceInv'
  BY DEF IInv, TypeOK, Unwind, Cleanup, End, TraceInv
<1>4. ResultInv'
  BY DEF IInv, TypeOK, Unwind, Cleanup, End, ResultInv
<1>5. AnswerInv'
  BY DEF IInv, Unwind, End, AnswerInv
<1>6. AckInv'
  BY DEF IInv, Unwind, Cleanup, AckInv, Accepted
<1>7. UnmatchedOnlyWhenSettled'
  BY DEF IInv, Unwind, End, UnmatchedOnlyWhenSettled
<1>8. AckedReplyIsTheAnswer'
  BY DEF IInv, Unwind, End, AckedReplyIsTheAnswer, Accepted
<1>9. /\ OneAckPerRequest'
      /\ NamedInv'
  BY DEF IInv, Unwind, OneAckPerRequest, NamedInv, Accepted
<1> QED
  BY <1>1, <1>2, <1>3, <1>4, <1>5, <1>6, <1>7, <1>8, <1>9 DEF IInv

LEMMA RespondPreserves ==
  ASSUME IInv, NEW r \in Requests, Respond(r)
  PROVE  IInv'
<1>1. TypeOK'
  BY DEF IInv, TypeOK, Respond, Cleanup, End, Phases, Answers
<1>2. TableInv'
  BY DEF IInv, Respond, Cleanup, End, TableInv
<1>3. TraceInv'
  BY DEF IInv, Respond, Cleanup, End, TraceInv
<1>4. ResultInv'
  BY DEF IInv, TypeOK, Respond, Cleanup, End, ResultInv
<1>5. AnswerInv'
  BY DEF IInv, TypeOK, Respond, End, AnswerInv
<1>6. AckInv'
  BY DEF IInv, Respond, Cleanup, AckInv, Accepted
<1>7. UnmatchedOnlyWhenSettled'
  BY DEF IInv, Respond, End, UnmatchedOnlyWhenSettled
<1>8. AckedReplyIsTheAnswer'
  BY DEF IInv, Respond, End, AckedReplyIsTheAnswer, AckInv, Accepted
<1>9. /\ OneAckPerRequest'
      /\ NamedInv'
  BY DEF IInv, Respond, OneAckPerRequest, NamedInv, Accepted
<1> QED
  BY <1>1, <1>2, <1>3, <1>4, <1>5, <1>6, <1>7, <1>8, <1>9 DEF IInv

LEMMA RejectIncompletePreserves ==
  ASSUME IInv, NEW m \in Replies, RejectIncomplete(m)
  PROVE  IInv'
<1>1. TypeOK'
  BY DEF IInv, TypeOK, RejectIncomplete, Go, Handlers
<1>2. AckInv'
  BY DEF IInv, RejectIncomplete, Go, AckInv, Accepted
<1>3. OneAckPerRequest'
  BY DEF IInv, RejectIncomplete, Go, OneAckPerRequest, Accepted
<1>4. NamedInv'
  BY DEF IInv, RejectIncomplete, Go, NamedInv
<1>5. UnmatchedOnlyWhenSettled'
  BY DEF IInv, RejectIncomplete, Go, UnmatchedOnlyWhenSettled
<1>6. AckedReplyIsTheAnswer'
  BY DEF IInv, RejectIncomplete, Go, AckedReplyIsTheAnswer, Accepted
<1>7. /\ TableInv'
      /\ TraceInv'
      /\ ResultInv'
      /\ AnswerInv'
  BY DEF IInv, RejectIncomplete, TableInv, TraceInv, ResultInv, AnswerInv
<1> QED
  BY <1>1, <1>2, <1>3, <1>4, <1>5, <1>6, <1>7 DEF IInv

LEMMA RejectUnmatchedPreserves ==
  ASSUME IInv, NEW m \in Replies, RejectUnmatched(m)
  PROVE  IInv'
<1>1. TypeOK'
  BY DEF IInv, TypeOK, RejectUnmatched, Go, Handlers
<1>2. AckInv'
  BY DEF IInv, RejectUnmatched, Go, AckInv, Accepted
<1>3. OneAckPerRequest'
  BY DEF IInv, RejectUnmatched, Go, OneAckPerRequest, Accepted
<1>4. NamedInv'
  BY DEF IInv, TypeOK, RejectUnmatched, Consumable, IsReply, Go, NamedInv
<1>5. UnmatchedOnlyWhenSettled'
  BY DEF IInv, TypeOK, RejectUnmatched, Consumable, IsReply, Go,
     UnmatchedOnlyWhenSettled, TraceInv
<1>6. AckedReplyIsTheAnswer'
  BY DEF IInv, RejectUnmatched, Go, AckedReplyIsTheAnswer, Accepted
<1>7. /\ TableInv'
      /\ TraceInv'
      /\ ResultInv'
      /\ AnswerInv'
  BY DEF IInv, RejectUnmatched, TableInv, TraceInv, ResultInv, AnswerInv
<1> QED
  BY <1>1, <1>2, <1>3, <1>4, <1>5, <1>6, <1>7 DEF IInv

LEMMA ReplyPreserves ==
  ASSUME IInv, NEW m \in Replies, Reply(m)
  PROVE  IInv'
<1>1. TypeOK'
  BY DEF IInv, TypeOK, Reply, Consumable, IsReply, Go, FinishRequest, Wake,
     Phases, Handlers
<1>2. TableInv'
  BY DEF IInv, TypeOK, Reply, FinishRequest, Wake, TableInv
<1>3. TraceInv'
  BY DEF IInv, TypeOK, Reply, FinishRequest, Wake, TraceInv, TableInv
<1>4. ResultInv'
  BY HttpRpcAssumption DEF IInv, TypeOK, Reply, FinishRequest, Wake,
     ResultInv, TableInv
<1>5. AnswerInv'
  BY DEF IInv, TypeOK, Reply, Wake, AnswerInv
<1>6. AckInv'
  BY DEF IInv, TypeOK, Reply, Consumable, IsReply, Go, FinishRequest, AckInv,
     TableInv, Accepted
<1>7. OneAckPerRequest'
  BY DEF IInv, Reply, Go, OneAckPerRequest, TableInv, AckInv, Accepted
<1>8. NamedInv'
  BY DEF IInv, Reply, Go, NamedInv
<1>9. UnmatchedOnlyWhenSettled'
  BY DEF IInv, TypeOK, Reply, Go, FinishRequest, Wake,
     UnmatchedOnlyWhenSettled, NamedInv
<1>10. AckedReplyIsTheAnswer'
  BY DEF IInv, TypeOK, Reply, Go, AckedReplyIsTheAnswer, TableInv, AnswerInv,
     Accepted
<1> QED
  BY <1>1, <1>2, <1>3, <1>4, <1>5, <1>6, <1>7, <1>8, <1>9, <1>10 DEF IInv

LEMMA EventPublishedPreserves ==
  ASSUME IInv, NEW m \in Replies, EventPublished(m)
  PROVE  IInv'
<1>1. TypeOK'
  BY DEF IInv, TypeOK, EventPublished, Go, Handlers
<1>2. AckInv'
  BY DEF IInv, EventPublished, Go, AckInv, Accepted
<1>3. OneAckPerRequest'
  BY DEF IInv, EventPublished, Go, OneAckPerRequest, Accepted
<1>4. NamedInv'
  BY DEF IInv, EventPublished, Go, NamedInv
<1>5. UnmatchedOnlyWhenSettled'
  BY DEF IInv, EventPublished, Go, UnmatchedOnlyWhenSettled
<1>6. AckedReplyIsTheAnswer'
  BY DEF IInv, EventPublished, Go, AckedReplyIsTheAnswer, Accepted
<1>7. /\ TableInv'
      /\ TraceInv'
      /\ ResultInv'
      /\ AnswerInv'
  BY DEF IInv, EventPublished, TableInv, TraceInv, ResultInv, AnswerInv
<1> QED
  BY <1>1, <1>2, <1>3, <1>4, <1>5, <1>6, <1>7 DEF IInv

-------------------------------------------------------------------------------
LEMMA InitEstablishes == Init => IInv
<1> SUFFICES ASSUME Init PROVE IInv
  OBVIOUS
<1>1. TypeOK
  BY DEF Init, TypeOK, Phases, Answers, Handlers
<1>2. /\ TableInv
      /\ TraceInv
  BY DEF Init, TableInv, TraceInv
<1>3. /\ ResultInv
      /\ AnswerInv
  BY DEF Init, ResultInv, AnswerInv
<1>4. /\ AckInv
      /\ OneAckPerRequest
      /\ AckedReplyIsTheAnswer
  BY DEF Init, AckInv, OneAckPerRequest, AckedReplyIsTheAnswer, Accepted
<1>5. /\ NamedInv
      /\ UnmatchedOnlyWhenSettled
  BY DEF Init, NamedInv, UnmatchedOnlyWhenSettled
<1> QED
  BY <1>1, <1>2, <1>3, <1>4, <1>5 DEF IInv

LEMMA StutterPreserves == IInv /\ UNCHANGED vars => IInv'
<1> SUFFICES ASSUME IInv, UNCHANGED vars PROVE IInv'
  OBVIOUS
<1>1. TypeOK'
  BY DEF IInv, TypeOK, vars
<1>2. /\ TableInv'
      /\ TraceInv'
      /\ ResultInv'
      /\ AnswerInv'
  BY DEF IInv, TableInv, TraceInv, ResultInv, AnswerInv, vars
<1>3. /\ AckInv'
      /\ OneAckPerRequest'
      /\ AckedReplyIsTheAnswer'
  BY DEF IInv, AckInv, OneAckPerRequest, AckedReplyIsTheAnswer, Accepted, vars
<1>4. /\ NamedInv'
      /\ UnmatchedOnlyWhenSettled'
  BY DEF IInv, NamedInv, UnmatchedOnlyWhenSettled, vars
<1> QED
  BY <1>1, <1>2, <1>3, <1>4 DEF IInv

LEMMA NextPreserves == IInv /\ [Next]_vars => IInv'
<1> SUFFICES ASSUME IInv, [Next]_vars PROVE IInv'
  OBVIOUS
<1>1. ASSUME NEW r \in Requests, RequestTask(r)
      PROVE  IInv'
  BY <1>1, ArrivePreserves, RegisterPreserves, RegisterInvalidPreserves,
     BrokerTakesPreserves, PublishReturnsPreserves, PublishRaisesPreserves,
     DeadlinePreserves, DisconnectPreserves, UnwindPreserves, RespondPreserves
     DEF RequestTask
<1>2. ASSUME NEW m \in Replies, OutboundHandler(m)
      PROVE  IInv'
  BY <1>2, RejectIncompletePreserves, RejectUnmatchedPreserves, ReplyPreserves,
     EventPublishedPreserves
     DEF OutboundHandler
<1>3. CASE UNCHANGED vars
  BY <1>3, StutterPreserves
<1> QED
  BY <1>1, <1>2, <1>3 DEF Next

\* IInv is an invariant of the transport.
THEOREM Invariance == Spec => []IInv
<1>1. Init => IInv
  BY InitEstablishes
<1>2. IInv /\ [Next]_vars => IInv'
  BY NextPreserves
<1> QED
  BY <1>1, <1>2, PTL DEF Spec

-------------------------------------------------------------------------------
\* The tables hold what the source's annotations say, whatever the sets of
\* requests and replies.
THEOREM TypeCorrect == Spec => []TypeOK
<1>1. IInv => TypeOK
  BY DEF IInv
<1> QED
  BY <1>1, Invariance, PTL

\* Nothing is left in the base class's tables of a request that inbound_request is
\* done with.
THEOREM BaseLeavesNothing == Spec => []BaseNoLeak
<1>1. ASSUME IInv PROVE BaseNoLeak
  <2>1. ASSUME NEW r \in requests PROVE Open(r)
    BY <1>1, <2>1 DEF IInv, TableInv, Open
  <2>2. ASSUME NEW r \in Requests \ Aat, results[r] # None PROVE Open(r)
    BY <1>1, <2>2 DEF IInv, TraceInv, ResultInv, Open
  <2> QED
    BY <2>1, <2>2 DEF BaseNoLeak, Leftovers
<1> QED
  BY <1>1, Invariance, PTL

\* handle_outbound_message acknowledges at most one reply to a request, in either
\* transport.
THEOREM OneAck == Spec => []OneAckPerRequest
<1>1. IInv => OneAckPerRequest
  BY DEF IInv
<1> QED
  BY <1>1, Invariance, PTL

\* inbound_request of the base class never answers with another reply than the one
\* acknowledged.
THEOREM AckedAnswer == Spec => []AckedReplyIsTheAnswer
<1>1. IInv => AckedReplyIsTheAnswer
  BY DEF IInv
<1> QED
  BY <1>1, Invariance, PTL

\* handle_outbound_message turns a reply down as unmatched only when its request
\* was finished or its task is over.
THEOREM Unmatched == Spec => []UnmatchedOnlyWhenSettled
<1>1. IInv => UnmatchedOnlyWhenSettled
  BY DEF IInv
<1> QED
  BY <1>1, Invariance, PTL

\* inbound_request never waits for an event that is set, and finds a result when it
\* has been woken.
THEOREM Woken == Spec => []NoLostWakeup
<1>1. ASSUME IInv PROVE NoLostWakeup
  <2>1. ASSUME NEW r \in Requests, phase[r] = "parked"
        PROVE  r \notin event /\ r \in requests
    BY <1>1, <2>1 DEF IInv, TraceInv, TableInv
  <2>2. ASSUME NEW r \in Requests, phase[r] \in {"checkpoint", "woken"}
        PROVE  results[r] # None
    BY <1>1, <2>2 DEF IInv, TraceInv, ResultInv
  <2> QED
    BY <2>1, <2>2 DEF NoLostWakeup
<1> QED
  BY <1>1, Invariance, PTL
===============================================================================
