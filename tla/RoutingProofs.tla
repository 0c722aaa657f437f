----------------------------- MODULE RoutingProofs -----------------------------
(***************************************************************************)
(* Proofs about Routing, for any applications, mappings, messages and      *)
(* restarts: an event reaches the application that sent the message, and a *)
(* reply that the broker took is not lost.                                 *)
(*                                                                         *)
(* Both follow a message along its way: what is in the queue of a process  *)
(* says what happened before (InboundInv, EventInv), and what an           *)
(* application sends replies to something it was sent (RequestInv).  The   *)
(* second half (KInv) is about the caches: what they must hold as long as  *)
(* it has not expired and no restart forgot it.                            *)
(***************************************************************************)
EXTENDS Routing, TLAPS

\* A copy of message q waits or is being handled.
Present(q) == ready[q] > 0 \/ stage[q] # "idle"

States == {"none", "publishing", "published", "submitted", "timed out", "not found"}
Requests == [state : States, app : Apps \cup {None}, reply : BOOLEAN,
             frame : {"none", "written", "taken", "lost"}]

TypeInv ==
  /\ ready \in [Queued -> Nat]
  /\ stage \in [Queued -> {"idle", "stored", "ending"}]
  /\ request \in [Replies -> Requests]
  /\ sent \in [Replies -> Nat]

\* An application is only sent what is mapped to it.
InboundInv ==
  \A a \in Apps, x \in Inbounds :
    Present(Message(a, "inbound", x)) \/ <<a, x>> \in told => a = AppFor(To[x])

\* A reply is sent by the application its message was mapped to.
RequestInv ==
  \A r \in Replies :
    /\ request[r].state = "none" => ~request[r].reply
    /\ request[r].reply => request[r].app = AppFor(ReplyFrom(r))

\* The transport only gets replies.
SentInv ==
  \A r \in Replies :
    stage[Message(Router, "outbound", r)] = "stored" \/ sent[r] > 0 => request[r].reply

\* An event is about a message that was sent, and is routed where its reply came from.
EventInv ==
  \A e \in Events :
    /\ e \in happened => sent[e[1]] > 0
    /\ Present(Message(Router, "event", e)) => e \in happened
    /\ \A a \in Apps : Present(Message(a, "event", e)) =>
         e \in happened /\ a = AppFor(ReplyFrom(e[1]))

PostedInv ==
  \A p \in posted : /\ p.event \in Events /\ p.event \in happened
                    /\ p.app = AppFor(ReplyFrom(p.event[1]))

\* A request is answered after the frame was written, and only a request that came
\* that far, or gave up, has one.
FrameInv ==
  \A r \in Replies :
    /\ request[r].state \in {"published", "submitted"} => request[r].frame # "none"
    /\ request[r].frame # "none" => request[r].state \in {"published", "submitted", "timed out"}

\* What the broker took is in its queue, with its handler, or was sent on.
TakenInv ==
  \A r \in Replies :
    LET q == Message(Router, "outbound", r)
    IN  request[r].frame = "taken" /\ request[r].reply =>
          sent[r] > 0 \/ ready[q] > 0 \/ stage[q] = "stored"

RInv == /\ TypeInv
        /\ InboundInv
        /\ RequestInv
        /\ SentInv
        /\ EventInv
        /\ PostedInv
        /\ FrameInv
        /\ TakenInv

-------------------------------------------------------------------------------
LEMMA MessagesAreQueued ==
  /\ \A p \in Apps \cup {Router}, x \in Inbounds : Message(p, "inbound", x) \in Queued
  /\ \A r \in Replies : Message(Router, "outbound", r) \in Queued
  /\ \A p \in Apps \cup {Router}, e \in Events : Message(p, "event", e) \in Queued
BY DEF Message, Queued

\* What a handler does to the queues when it gets a message.
LEMMA HandleEffect ==
  ASSUME TypeInv, NEW q \in Queued, NEW s \in {"stored", "ending"}, NEW out,
         Handle(q, s, out)
  PROVE  /\ ready' \in [Queued -> Nat]
         /\ stage' \in [Queued -> {"idle", "stored", "ending"}]
         /\ Present(q)
         /\ stage'[q] = s
         /\ \A p \in Queued \ {q} : stage'[p] = stage[p] /\ ready'[p] >= ready[p]
         /\ \A p \in Queued : Present(p)' => Present(p) \/ p \in out
<1>1. ready[q] \in Nat \ {0} /\ stage[q] = "idle"
  BY DEF Handle, TypeInv
<1>2. ready' = [p \in Queued |-> ready[p] + (IF p \in out THEN 1 ELSE 0)
                                         - (IF p = q THEN 1 ELSE 0)]
  BY DEF Handle
<1>3. stage' = [stage EXCEPT ![q] = s]
  BY DEF Handle
<1>4. ASSUME NEW p \in Queued
      PROVE  /\ ready'[p] \in Nat
             /\ p # q => stage'[p] = stage[p] /\ ready'[p] >= ready[p]
             /\ Present(p)' => Present(p) \/ p \in out
  <2>1. ready[p] \in Nat /\ (p = q => ready[p] > 0)
    BY <1>1 DEF TypeInv
  <2>2. ready'[p] = ready[p] + (IF p \in out THEN 1 ELSE 0) - (IF p = q THEN 1 ELSE 0)
    BY <1>2
  <2>3. p # q => stage'[p] = stage[p]
    BY <1>3 DEF TypeInv
  <2>4. CASE p \in out
    BY <2>1, <2>2, <2>3, <2>4
  <2>5. CASE p \notin out
    BY <2>1, <2>2, <2>3, <2>5 DEF Present
  <2> QED
    BY <2>4, <2>5
<1>5. ready' \in [Queued -> Nat]
  BY <1>2, <1>4
<1>6. stage' \in [Queued -> {"idle", "stored", "ending"}] /\ stage'[q] = s
  BY <1>3 DEF TypeInv
<1> QED
  BY <1>1, <1>4, <1>5, <1>6 DEF Present

\* The broker takes one more message.
LEMMA PublishEffect ==
  ASSUME TypeInv, NEW q \in Queued, ready' = [ready EXCEPT ![q] = @ + 1]
  PROVE  /\ ready' \in [Queued -> Nat]
         /\ ready'[q] > 0
         /\ \A p \in Queued \ {q} : ready'[p] = ready[p]
         /\ \A p \in Queued : ready[p] > 0 => ready'[p] > 0
<1>1. ready \in [Queued -> Nat] /\ ready[q] \in Nat
  BY DEF TypeInv
<1>2. ready'[q] = ready[q] + 1 /\ \A p \in Queued \ {q} : ready'[p] = ready[p]
  BY <1>1
<1>3. ready' \in [Queued -> Nat]
  BY <1>1
<1> QED
  BY <1>1, <1>2, <1>3

\* The record of a request that begins.
LEMMA AskedFields ==
  ASSUME NEW state \in States, NEW app \in Apps \cup {None}, NEW reply \in BOOLEAN
  PROVE  /\ Asked(state, app, reply) \in Requests
         /\ Asked(state, app, reply).state = state
         /\ Asked(state, app, reply).app = app
         /\ Asked(state, app, reply).reply = reply
         /\ Asked(state, app, reply).frame = "none"
BY DEF Asked, Requests

LEMMA InitEstablishes == Init => RInv
<1> SUFFICES ASSUME Init PROVE RInv
  OBVIOUS
<1> USE MessagesAreQueued DEF Init
<1>1. TypeInv
  BY DEF TypeInv, Asked, Requests, States
<1>2. InboundInv
  BY RoutingAssumption DEF InboundInv, Present, Message
<1>3. RequestInv /\ SentInv /\ FrameInv /\ TakenInv
  <2>1. \A r \in Replies : /\ request[r].state = "none" /\ ~request[r].reply
                          /\ request[r].frame = "none"
    BY DEF Asked
  <2>2. \A r \in Replies : ~(sent[r] > 0) /\ stage[Message(Router, "outbound", r)] # "stored"
    OBVIOUS
  <2> QED
    BY <2>1, <2>2, Zenon DEF RequestInv, SentInv, FrameInv, TakenInv
<1>4. EventInv /\ PostedInv
  <2>1. \A q \in Queued : q.type = "event" => ~Present(q)
    BY DEF Present
  <2>2. \A p \in Apps \cup {Router}, e \in Events : Message(p, "event", e).type = "event"
    BY DEF Message
  <2>3. \A p \in Apps \cup {Router}, e \in Events : ~Present(Message(p, "event", e))
    BY <2>1, <2>2
  <2> QED
    BY <2>3 DEF EventInv, PostedInv
<1> QED
  BY <1>1, <1>2, <1>3, <1>4 DEF RInv

\* A step that leaves alone what RInv speaks of.
LEMMA UnseenPreserves ==
  ASSUME RInv, UNCHANGED <<queues, request, outcomes>>
  PROVE  RInv'
BY DEF RInv, TypeInv, InboundInv, RequestInv, SentInv, EventInv, PostedInv, FrameInv, TakenInv,
   Present, queues, outcomes

LEMMA SettlePreserves ==
  ASSUME RInv, NEW q \in Queued, Settle(q)
  PROVE  RInv'
<1>1. /\ UNCHANGED <<ready, request, told, sent, happened, posted>>
      /\ \A p \in Queued : /\ stage'[p] \in {stage[p], "idle"}
                           /\ stage[p] = "stored" => stage'[p] = "stored"
      /\ stage' \in [Queued -> {"idle", "stored", "ending"}]
  BY DEF Settle, RInv, TypeInv, outcomes
<1>2. \A p \in Queued : Present(p)' => Present(p)
  BY <1>1 DEF Present
<1> USE MessagesAreQueued DEF RInv
<1>3. TypeInv' /\ InboundInv' /\ RequestInv' /\ FrameInv'
  BY <1>1, <1>2 DEF TypeInv, InboundInv, RequestInv, FrameInv
<1>4. SentInv' /\ TakenInv'
  BY <1>1 DEF SentInv, TakenInv
<1>5. EventInv' /\ PostedInv'
  BY <1>1, <1>2 DEF EventInv, PostedInv
<1> QED
  BY <1>3, <1>4, <1>5

-------------------------------------------------------------------------------
(* The router.                                                             *)

LEMMA RouteInboundPreserves ==
  ASSUME RInv, NEW x \in Inbounds, RouteInbound(x)
  PROVE  RInv'
<1> DEFINE app == AppFor(To[x])
           q   == Message(Router, "inbound", x)
           out == IF app = None THEN {} ELSE {Message(app, "inbound", x)}
<1>1. /\ Handle(q, "ending", out)
      /\ UNCHANGED <<request, told, sent, happened, posted>>
  BY DEF RouteInbound, outcomes
<1>2. q \in Queued
  BY MessagesAreQueued
<1> HIDE DEF q, out
<1>3. /\ ready' \in [Queued -> Nat]
      /\ stage' \in [Queued -> {"idle", "stored", "ending"}]
      /\ \A p \in Queued \ {q} : stage'[p] = stage[p] /\ ready'[p] >= ready[p]
      /\ \A p \in Queued : Present(p)' => Present(p) \/ p \in out
  BY <1>1, <1>2, HandleEffect DEF RInv
<1> USE MessagesAreQueued, <1>1, <1>3 DEF RInv
<1>4. TypeInv' /\ RequestInv' /\ FrameInv' /\ PostedInv'
  BY DEF TypeInv, RequestInv, FrameInv, PostedInv
<1>5. InboundInv'
  BY DEF InboundInv, out, Message
<1>6. EventInv'
  <2>1. \A p \in Apps \cup {Router}, e \in Events : Message(p, "event", e) \notin out
    BY DEF out, Message
  <2> QED
    BY <2>1 DEF EventInv
<1>7. SentInv' /\ TakenInv'
  <2>1. \A r \in Replies : /\ Message(Router, "outbound", r) # q
                           /\ Message(Router, "outbound", r) \in Queued
    BY DEF q, Message
  <2>2. \A p \in Queued : ready[p] \in Nat /\ ready'[p] \in Nat
    BY DEF TypeInv
  <2> QED
    BY <2>1, <2>2 DEF SentInv, TakenInv
<1> QED
  BY <1>4, <1>5, <1>6, <1>7

LEMMA StoreOutboundPreserves ==
  ASSUME RInv, NEW r \in Replies, StoreOutbound(r)
  PROVE  RInv'
<1> DEFINE q == Message(Router, "outbound", r)
           s == IF request[r].reply THEN "stored" ELSE "ending"
<1>1. /\ Handle(q, s, {})
      /\ UNCHANGED <<request, told, sent, happened, posted>>
  BY DEF StoreOutbound, outcomes
<1>2. q \in Queued /\ s \in {"stored", "ending"}
  BY MessagesAreQueued
<1> HIDE DEF q, s
<1>3. /\ ready' \in [Queued -> Nat]
      /\ stage' \in [Queued -> {"idle", "stored", "ending"}]
      /\ stage'[q] = s
      /\ \A p \in Queued \ {q} : stage'[p] = stage[p] /\ ready'[p] >= ready[p]
      /\ \A p \in Queued : Present(p)' => Present(p)
  BY <1>1, <1>2, HandleEffect DEF RInv
<1> USE MessagesAreQueued, <1>1, <1>3 DEF RInv
<1>4. TypeInv' /\ RequestInv' /\ FrameInv' /\ PostedInv'
  BY DEF TypeInv, RequestInv, FrameInv, PostedInv
<1>5. InboundInv' /\ EventInv'
  BY DEF InboundInv, EventInv
<1>6. \A t \in Replies \ {r} : Message(Router, "outbound", t) \in Queued \ {q}
  BY DEF q, Message
<1>7. SentInv'
  BY <1>6 DEF SentInv, q, s
<1>8. TakenInv'
  <2>1. \A p \in Queued : ready[p] \in Nat /\ ready'[p] \in Nat
    BY DEF TypeInv
  <2> QED
    BY <2>1, <1>6 DEF TakenInv, q, s
<1> QED
  BY <1>4, <1>5, <1>7, <1>8

LEMMA ForwardOutboundPreserves ==
  ASSUME RInv, NEW r \in Replies, ForwardOutbound(r)
  PROVE  RInv'
<1> DEFINE q == Message(Router, "outbound", r)
<1>1. /\ stage[q] = "stored" /\ stage' = [stage EXCEPT ![q] = "ending"]
      /\ sent' = [sent EXCEPT ![r] = @ + 1]
      /\ UNCHANGED <<ready, request, told, happened, posted>>
  BY DEF ForwardOutbound
<1>2. q \in Queued
  BY MessagesAreQueued
<1>3. /\ stage' \in [Queued -> {"idle", "stored", "ending"}]
      /\ \A p \in Queued \ {q} : stage'[p] = stage[p]
      /\ stage'[q] = "ending"
      /\ \A p \in Queued : Present(p)' => Present(p)
  BY <1>1, <1>2 DEF RInv, TypeInv, Present
<1>4. /\ sent' \in [Replies -> Nat]
      /\ sent'[r] > 0
      /\ \A t \in Replies : sent[t] > 0 => sent'[t] > 0
      /\ \A t \in Replies \ {r} : sent'[t] = sent[t]
  BY <1>1 DEF RInv, TypeInv
<1>5. \A t \in Replies \ {r} : Message(Router, "outbound", t) \in Queued \ {q}
  BY MessagesAreQueued DEF Message
<1>6. request[r].reply
  BY <1>1 DEF RInv, SentInv
<1> HIDE DEF q
<1> USE MessagesAreQueued, <1>3, <1>4 DEF RInv
<1>7. TypeInv' /\ RequestInv' /\ FrameInv' /\ PostedInv'
  BY <1>1 DEF TypeInv, RequestInv, FrameInv, PostedInv
<1>8. InboundInv' /\ EventInv'
  BY <1>1 DEF InboundInv, EventInv
<1>9. SentInv'
  BY <1>1, <1>5, <1>6 DEF SentInv
<1>10. TakenInv'
  BY <1>1, <1>5 DEF TakenInv
<1> QED
  BY <1>7, <1>8, <1>9, <1>10

LEMMA RouteEventPreserves ==
  ASSUME RInv, NEW e \in Events, RouteEvent(e)
  PROVE  RInv'
<1> DEFINE app == IF Fresh(outbounds[e[1]]) THEN AppFor(ReplyFrom(e[1])) ELSE None
           q   == Message(Router, "event", e)
           out == IF app = None THEN {} ELSE {Message(app, "event", e)}
<1>1. /\ Handle(q, "ending", out)
      /\ UNCHANGED <<request, told, sent, happened, posted>>
  BY DEF RouteEvent
<1>2. q \in Queued
  BY MessagesAreQueued
<1>3. app = None \/ app = AppFor(ReplyFrom(e[1]))
  OBVIOUS
<1> HIDE DEF q, app
<1>4. \A p \in out : p = Message(AppFor(ReplyFrom(e[1])), "event", e)
  BY <1>3
<1> HIDE DEF out
<1>5. /\ ready' \in [Queued -> Nat]
      /\ stage' \in [Queued -> {"idle", "stored", "ending"}]
      /\ Present(q)
      /\ \A p \in Queued \ {q} : stage'[p] = stage[p] /\ ready'[p] >= ready[p]
      /\ \A p \in Queued : Present(p)' => Present(p) \/ p \in out
  BY <1>1, <1>2, HandleEffect DEF RInv
<1> USE MessagesAreQueued, <1>1, <1>5 DEF RInv
<1>6. TypeInv' /\ RequestInv' /\ FrameInv' /\ PostedInv'
  BY DEF TypeInv, RequestInv, FrameInv, PostedInv
<1>7. InboundInv'
  <2>1. \A a \in Apps, x \in Inbounds : Message(a, "inbound", x) \notin out
    BY <1>4 DEF Message
  <2> QED
    BY <2>1 DEF InboundInv
<1>8. EventInv'
  <2>1. e \in happened
    BY DEF EventInv, q
  <2>2. \A a \in Apps \cup {Router}, f \in Events :
          Message(a, "event", f) \in out => f = e /\ a = AppFor(ReplyFrom(e[1]))
    BY <1>4 DEF Message
  <2> QED
    BY <2>1, <2>2 DEF EventInv
<1>9. SentInv' /\ TakenInv'
  <2>1. \A r \in Replies : Message(Router, "outbound", r) \in Queued \ {q}
    BY DEF q, Message
  <2>2. \A p \in Queued : ready[p] \in Nat /\ ready'[p] \in Nat
    BY DEF TypeInv
  <2> QED
    BY <2>1, <2>2 DEF SentInv, TakenInv
<1> QED
  BY <1>6, <1>7, <1>8, <1>9

LEMMA HappensPreserves ==
  ASSUME RInv, NEW e \in Events, Happens(e)
  PROVE  RInv'
<1> DEFINE q == Message(Router, "event", e)
<1>1. /\ sent[e[1]] > 0 /\ happened' = happened \cup {e}
      /\ ready' = [ready EXCEPT ![q] = @ + 1]
      /\ UNCHANGED <<stage, request, told, sent, posted>>
  BY DEF Happens
<1>2. q \in Queued
  BY MessagesAreQueued
<1> HIDE DEF q
<1>3. /\ ready' \in [Queued -> Nat]
      /\ \A p \in Queued \ {q} : ready'[p] = ready[p]
      /\ \A p \in Queued : Present(p)' => Present(p) \/ p = q
  BY <1>1, <1>2 DEF RInv, TypeInv, Present
<1> USE MessagesAreQueued, <1>1, <1>3 DEF RInv
<1>4. TypeInv' /\ RequestInv' /\ FrameInv' /\ PostedInv'
  BY DEF TypeInv, RequestInv, FrameInv, PostedInv
<1>5. InboundInv'
  BY DEF InboundInv, q, Message
<1>6. EventInv'
  <2>1. \A a \in Apps \cup {Router}, f \in Events :
          Message(a, "event", f) = q => f = e /\ a = Router
    BY DEF q, Message
  <2>2. Router \notin Apps
    BY RoutingAssumption
  <2> QED
    BY <2>1, <2>2 DEF EventInv
<1>7. SentInv' /\ TakenInv'
  <2>1. \A r \in Replies : Message(Router, "outbound", r) \in Queued \ {q}
    BY DEF q, Message
  <2> QED
    BY <2>1 DEF SentInv, TakenInv
<1> QED
  BY <1>4, <1>5, <1>6, <1>7

-------------------------------------------------------------------------------
(* The applications.                                                       *)

LEMMA TakeInboundPreserves ==
  ASSUME RInv, NEW a \in Apps, NEW x \in Inbounds, TakeInbound(a, x)
  PROVE  RInv'
<1> DEFINE q == Message(a, "inbound", x)
<1>1. /\ Handle(q, "ending", {})
      /\ UNCHANGED <<request, told, sent, happened, posted>>
  BY DEF TakeInbound, outcomes
<1>2. q \in Queued
  BY MessagesAreQueued
<1> HIDE DEF q
<1>3. /\ ready' \in [Queued -> Nat]
      /\ stage' \in [Queued -> {"idle", "stored", "ending"}]
      /\ \A p \in Queued \ {q} : stage'[p] = stage[p] /\ ready'[p] >= ready[p]
      /\ \A p \in Queued : Present(p)' => Present(p)
  BY <1>1, <1>2, HandleEffect DEF RInv
<1> USE MessagesAreQueued, <1>1, <1>3 DEF RInv
<1>4. TypeInv' /\ RequestInv' /\ FrameInv' /\ PostedInv'
  BY DEF TypeInv, RequestInv, FrameInv, PostedInv
<1>5. InboundInv' /\ EventInv'
  BY DEF InboundInv, EventInv
<1>6. SentInv' /\ TakenInv'
  <2>1. \A r \in Replies : Message(Router, "outbound", r) \in Queued \ {q}
    BY DEF q, Message
  <2>2. \A p \in Queued : ready[p] \in Nat /\ ready'[p] \in Nat
    BY DEF TypeInv
  <2> QED
    BY <2>1, <2>2 DEF SentInv, TakenInv
<1> QED
  BY <1>4, <1>5, <1>6

LEMMA PostInboundPreserves ==
  ASSUME RInv, NEW a \in Apps, NEW x \in Inbounds, PostInbound(a, x)
  PROVE  RInv'
<1>1. /\ stage[Message(a, "inbound", x)] = "ending"
      /\ told' = told \cup {<<a, x>>}
      /\ UNCHANGED <<ready, stage, request, sent, happened, posted>>
  BY DEF PostInbound, queues
<1>2. a = AppFor(To[x])
  BY <1>1 DEF RInv, InboundInv, Present
<1>3. InboundInv'
  BY <1>1, <1>2 DEF RInv, InboundInv, Present
<1> QED
  BY <1>1, <1>3 DEF RInv, TypeInv, RequestInv, SentInv, EventInv, PostedInv, FrameInv, TakenInv,
     Present

LEMMA TakeEventPreserves ==
  ASSUME RInv, NEW a \in Apps, NEW e \in Events, TakeEvent(a, e)
  PROVE  RInv'
<1> DEFINE q   == Message(a, "event", e)
           url == IF Fresh(urls[a][e[1]]) THEN "own" ELSE "default"
<1>1. /\ Handle(q, "ending", {})
      /\ posted' = posted \cup {[event |-> e, app |-> a, url |-> url]}
      /\ UNCHANGED <<request, told, sent, happened>>
  BY DEF TakeEvent
<1>2. q \in Queued
  BY MessagesAreQueued
<1> HIDE DEF q, url
<1>3. /\ ready' \in [Queued -> Nat]
      /\ stage' \in [Queued -> {"idle", "stored", "ending"}]
      /\ Present(q)
      /\ \A p \in Queued \ {q} : stage'[p] = stage[p] /\ ready'[p] >= ready[p]
      /\ \A p \in Queued : Present(p)' => Present(p)
  BY <1>1, <1>2, HandleEffect DEF RInv
<1> USE MessagesAreQueued, <1>1, <1>3 DEF RInv
<1>4. TypeInv' /\ RequestInv' /\ FrameInv'
  BY DEF TypeInv, RequestInv, FrameInv
<1>5. InboundInv' /\ EventInv'
  BY DEF InboundInv, EventInv
<1>6. PostedInv'
  <2>1. e \in happened /\ a = AppFor(ReplyFrom(e[1]))
    BY DEF EventInv, q
  <2> QED
    BY <2>1 DEF PostedInv
<1>7. SentInv' /\ TakenInv'
  <2>1. \A r \in Replies : Message(Router, "outbound", r) \in Queued \ {q}
    BY DEF q, Message
  <2>2. \A p \in Queued : ready[p] \in Nat /\ ready'[p] \in Nat
    BY DEF TypeInv
  <2> QED
    BY <2>1, <2>2 DEF SentInv, TakenInv
<1> QED
  BY <1>4, <1>5, <1>6, <1>7

\* A request that begins: of application a, as a reply only to what a was sent.
LEMMA RequestPreserves ==
  ASSUME RInv, NEW r \in Replies, NEW a \in Apps,
         NEW state \in {"publishing", "not found"}, NEW reply \in BOOLEAN,
         request[r].state = "none", reply => <<a, InReplyTo[r]>> \in told,
         request' = [request EXCEPT ![r] = Asked(state, a, reply)],
         UNCHANGED <<ready, stage, told, sent, happened, posted>>
  PROVE  RInv'
<1>1. InReplyTo[r] \in Inbounds
  BY RoutingAssumption
<1>2. reply => a = AppFor(ReplyFrom(r))
  BY <1>1 DEF RInv, InboundInv, ReplyFrom
<1>3. /\ request'[r].state = state /\ request'[r].app = a /\ request'[r].reply = reply
      /\ request'[r].frame = "none" /\ request' \in [Replies -> Requests]
      /\ \A t \in Replies \ {r} : request'[t] = request[t]
  <2>1. request'[r] = Asked(state, a, reply) /\ \A t \in Replies \ {r} : request'[t] = request[t]
    BY DEF RInv, TypeInv
  <2>2. request' \in [Replies -> Requests]
    BY AskedFields DEF RInv, TypeInv, States
  <2> QED
    BY <2>1, <2>2 DEF Asked
<1>4. ~request[r].reply
  BY DEF RInv, RequestInv
<1>5. TypeInv'
  BY <1>3 DEF RInv, TypeInv
<1>6. RequestInv'
  <2> SUFFICES ASSUME NEW t \in Replies
               PROVE  /\ request'[t].state = "none" => ~request'[t].reply
                      /\ request'[t].reply => request'[t].app = AppFor(ReplyFrom(t))
    BY DEF RequestInv
  <2>1. CASE t = r
    BY <1>2, <1>3, <2>1
  <2>2. CASE t # r
    BY <1>3, <2>2 DEF RInv, RequestInv
  <2> QED
    BY <2>1, <2>2
<1>7. SentInv'
  BY <1>3, <1>4 DEF RInv, SentInv
<1>8. FrameInv' /\ TakenInv'
  <2>1. \A t \in Replies : t # r \/ /\ request'[t].state \in {"publishing", "not found"}
                                    /\ request'[t].frame = "none"
    BY <1>3
  <2> QED
    BY <1>3, <2>1 DEF RInv, FrameInv, TakenInv
<1> QED
  BY <1>5, <1>6, <1>7, <1>8 DEF RInv, InboundInv, EventInv, PostedInv, Present

LEMMA SubmitPreserves ==
  ASSUME RInv, NEW r \in Replies, NEW a \in Apps,
         Refuse(r, a) \/ Submit(r, a) \/ SubmitNew(r, a)
  PROVE  RInv'
<1> DEFINE found == Fresh(inbounds[a][InReplyTo[r]])
<1>1. found \in BOOLEAN
  BY DEF Fresh
<1>2. CASE Refuse(r, a)
  BY <1>2, RequestPreserves DEF Refuse, Replying, queues, outcomes
<1>3. CASE Submit(r, a)
  <2>1. /\ request[r].state = "none" /\ <<a, InReplyTo[r]>> \in told
        /\ request' = [request EXCEPT ![r] = Asked("publishing", a, found)]
        /\ UNCHANGED <<ready, stage, told, sent, happened, posted>>
    BY <1>3 DEF Submit, Publishing, Replying, queues, outcomes
  <2> QED
    BY <1>1, <2>1, RequestPreserves
<1>4. CASE SubmitNew(r, a)
  BY <1>4, RequestPreserves DEF SubmitNew, Publishing, queues, outcomes
<1> QED
  BY <1>2, <1>3, <1>4

\* What a step of a request under way, or of its frame, does to the record.
LEMMA AnswerEffect ==
  ASSUME RInv, NEW r \in Replies,
         Publish(r) \/ SubmitReturns(r) \/ SubmitTimesOut(r) \/ BrokerTakes(r) \/ BrokerLoses(r)
  PROVE  /\ request' \in [Replies -> Requests]
         /\ \A t \in Replies \ {r} : request'[t] = request[t]
         /\ request'[r].app = request[r].app /\ request'[r].reply = request[r].reply
         /\ request[r].state \in {"publishing", "published", "submitted", "timed out"}
         /\ request'[r].state \in {"published", "submitted", "timed out"}
         /\ request'[r].state \in {"published", "submitted"} => request'[r].frame # "none"
         /\ request'[r].frame = "taken" =>
              request[r].frame = "taken"
                \/ ready' = [ready EXCEPT ![Message(Router, "outbound", r)] = @ + 1]
         /\ \/ ready' = [ready EXCEPT ![Message(Router, "outbound", r)] = @ + 1]
            \/ ready' = ready
         /\ UNCHANGED <<now, stage, caches, told, sent, happened, posted, forgotten>>
<1>1. request \in [Replies -> Requests] /\ request[r] \in Requests
  BY DEF RInv, TypeInv
<1> DEFINE same == UNCHANGED <<now, stage, caches, told, sent, happened, posted, forgotten>>
<1>2. CASE Publish(r)
  <2>1. /\ request[r].state = "publishing" /\ same /\ ready' = ready
        /\ request' = [request EXCEPT ![r].state = "published", ![r].frame = "written"]
    BY <1>2 DEF Publish, queues, outcomes
  <2>2. request'[r] = [request[r] EXCEPT !.state = "published", !.frame = "written"]
    BY <1>1, <2>1
  <2>3. request'[r] \in Requests /\ \A t \in Replies \ {r} : request'[t] = request[t]
    BY <1>1, <2>1, <2>2 DEF Requests, States
  <2>4. /\ request'[r].state = "published" /\ request'[r].frame = "written"
        /\ request'[r].app = request[r].app /\ request'[r].reply = request[r].reply
    BY <1>1, <2>2 DEF Requests
  <2> QED
    BY <1>1, <2>1, <2>3, <2>4
<1>3. ASSUME NEW state \in {"submitted", "timed out"}, Answered(r, state),
             request[r].state \in {"publishing", "published"},
             state = "submitted" => request[r].state = "published"
      PROVE  /\ request' \in [Replies -> Requests]
             /\ \A t \in Replies \ {r} : request'[t] = request[t]
             /\ request'[r].app = request[r].app /\ request'[r].reply = request[r].reply
             /\ request'[r].state = state /\ request'[r].frame = request[r].frame
             /\ ready' = ready /\ same
  <2>1. request' = [request EXCEPT ![r].state = state] /\ ready' = ready /\ same
    BY <1>3 DEF Answered, queues, outcomes
  <2>2. request'[r] = [request[r] EXCEPT !.state = state]
    BY <1>1, <2>1
  <2>3. request'[r] \in Requests /\ \A t \in Replies \ {r} : request'[t] = request[t]
    BY <1>1, <2>1, <2>2 DEF Requests, States
  <2>4. /\ request'[r].state = state /\ request'[r].frame = request[r].frame
        /\ request'[r].app = request[r].app /\ request'[r].reply = request[r].reply
    BY <1>1, <2>2 DEF Requests
  <2> QED
    BY <1>1, <2>1, <2>3, <2>4
<1>4. CASE SubmitReturns(r)
  BY <1>3, <1>4 DEF SubmitReturns, RInv, FrameInv
<1>5. CASE SubmitTimesOut(r)
  BY <1>3, <1>5 DEF SubmitTimesOut
<1>6. CASE BrokerTakes(r) \/ BrokerLoses(r)
  <2>1. PICK frame \in {"taken", "lost"} :
          /\ request[r].frame = "written" /\ same
          /\ request' = [request EXCEPT ![r].frame = frame]
          /\ \/ ready' = [ready EXCEPT ![Message(Router, "outbound", r)] = @ + 1]
             \/ ready' = ready /\ frame = "lost"
    BY <1>6 DEF BrokerTakes, BrokerLoses, queues, outcomes
  <2>2. request'[r] = [request[r] EXCEPT !.frame = frame]
    BY <1>1, <2>1
  <2>3. request'[r] \in Requests /\ \A t \in Replies \ {r} : request'[t] = request[t]
    BY <1>1, <2>1, <2>2 DEF Requests
  <2>4. /\ request'[r].state = request[r].state /\ request'[r].frame = frame
        /\ request'[r].app = request[r].app /\ request'[r].reply = request[r].reply
    BY <1>1, <2>2 DEF Requests
  <2>5. request[r].state \in {"published", "submitted", "timed out"}
    BY <2>1 DEF RInv, FrameInv
  <2> QED
    BY <1>1, <2>1, <2>3, <2>4, <2>5
<1> QED
  BY <1>2, <1>4, <1>5, <1>6

\* A request under way goes on, or the broker takes or loses its message.
LEMMA AnswerPreserves ==
  ASSUME RInv, NEW r \in Replies,
         Publish(r) \/ SubmitReturns(r) \/ SubmitTimesOut(r) \/ BrokerTakes(r) \/ BrokerLoses(r)
  PROVE  RInv'
<1> DEFINE q == Message(Router, "outbound", r)
<1>1. /\ request' \in [Replies -> Requests]
      /\ \A t \in Replies \ {r} : request'[t] = request[t]
      /\ request'[r].app = request[r].app /\ request'[r].reply = request[r].reply
      /\ request'[r].state \in {"published", "submitted", "timed out"}
      /\ request'[r].state \in {"published", "submitted"} => request'[r].frame # "none"
      /\ request'[r].frame = "taken" =>
           request[r].frame = "taken" \/ ready' = [ready EXCEPT ![q] = @ + 1]
      /\ ready' = [ready EXCEPT ![q] = @ + 1] \/ ready' = ready
      /\ UNCHANGED <<stage, told, sent, happened, posted>>
  BY AnswerEffect
<1>2. q \in Queued
  BY MessagesAreQueued
<1>3. Message(Router, "outbound", r) = q
  OBVIOUS
<1> HIDE DEF q
<1>5. /\ ready' \in [Queued -> Nat]
      /\ \A p \in Queued \ {q} : ready'[p] = ready[p]
      /\ \A p \in Queued : ready[p] > 0 => ready'[p] > 0
      /\ ready' = [ready EXCEPT ![q] = @ + 1] => ready'[q] > 0
  <2>1. ready \in [Queued -> Nat]
    BY DEF RInv, TypeInv
  <2>2. CASE ready' = [ready EXCEPT ![q] = @ + 1]
    BY <1>2, <2>2, PublishEffect DEF RInv
  <2>3. CASE ready' = ready /\ ready' # [ready EXCEPT ![q] = @ + 1]
    BY <2>1, <2>3
  <2> QED
    BY <1>1, <2>2, <2>3
<1> USE MessagesAreQueued DEF RInv
<1>6. TypeInv'
  BY <1>1, <1>5 DEF TypeInv
<1>7. RequestInv' /\ SentInv' /\ FrameInv' /\ PostedInv'
  BY <1>1 DEF RequestInv, SentInv, FrameInv, PostedInv
<1>8. InboundInv' /\ EventInv'
  <2>1. /\ \A p \in Apps \cup {Router}, x \in Inbounds : Message(p, "inbound", x) \in Queued \ {q}
        /\ \A p \in Apps \cup {Router}, e \in Events : Message(p, "event", e) \in Queued \ {q}
    BY DEF q, Message
  <2>2. \A p \in Queued \ {q} : Present(p)' => Present(p)
    BY <1>1, <1>5 DEF Present
  <2> QED
    BY <1>1, <2>1, <2>2 DEF InboundInv, EventInv
<1>9. TakenInv'
  <2>1. ASSUME NEW t \in Replies, request'[t].frame = "taken", request'[t].reply
        PROVE  LET p == Message(Router, "outbound", t)
               IN  sent[t] > 0 \/ ready'[p] > 0 \/ stage[p] = "stored"
    <3>1. CASE t = r /\ ready' = [ready EXCEPT ![q] = @ + 1]
      BY <1>3, <1>5, <3>1
    <3>2. CASE t = r /\ request[r].frame = "taken"
      BY <1>1, <1>2, <1>3, <1>5, <2>1, <3>2 DEF TakenInv
    <3>3. CASE t # r
      BY <1>1, <1>5, <2>1, <3>3 DEF TakenInv
    <3> QED
      BY <1>1, <2>1, <3>1, <3>2, <3>3
  <2> QED
    BY <1>1, <2>1 DEF TakenInv
<1> QED
  BY <1>6, <1>7, <1>8, <1>9

-------------------------------------------------------------------------------
(* Restarts.                                                               *)

\* What a process had under way waits in its queue again.
LEMMA RequeueEffect ==
  ASSUME TypeInv, NEW p, Requeue(p)
  PROVE  /\ ready' \in [Queued -> Nat]
         /\ stage' \in [Queued -> {"idle", "stored", "ending"}]
         /\ \A q \in Queued :
              /\ Present(q)' => Present(q)
              /\ stage'[q] = "stored" => stage[q] = "stored"
              /\ ready[q] > 0 \/ stage[q] = "stored" => ready'[q] > 0 \/ stage'[q] = "stored"
<1> SUFFICES ASSUME NEW q \in Queued
             PROVE  /\ ready'[q] \in Nat
                    /\ stage'[q] \in {"idle", "stored", "ending"}
                    /\ Present(q)' => Present(q)
                    /\ stage'[q] = "stored" => stage[q] = "stored"
                    /\ ready[q] > 0 \/ stage[q] = "stored" =>
                         ready'[q] > 0 \/ stage'[q] = "stored"
  BY DEF Requeue
<1>1. ready[q] \in Nat /\ stage[q] \in {"idle", "stored", "ending"}
  BY DEF TypeInv
<1>2. CASE q.at = p /\ stage[q] # "idle"
  <2>1. ready'[q] = ready[q] + 1 /\ stage'[q] = "idle"
    BY <1>2 DEF Requeue
  <2> QED
    BY <1>1, <1>2, <2>1 DEF Present
<1>3. CASE ~(q.at = p /\ stage[q] # "idle")
  <2>1. ready'[q] = ready[q] /\ stage'[q] = stage[q]
    BY <1>3 DEF Requeue
  <2> QED
    BY <1>1, <2>1 DEF Present
<1> QED
  BY <1>2, <1>3

LEMMA RestartPreserves ==
  ASSUME RInv, NEW p, Requeue(p), UNCHANGED outcomes,
         request' \in [Replies -> Requests],
         \A r \in Replies :
           /\ request'[r].app = request[r].app /\ request'[r].reply = request[r].reply
           /\ request'[r].frame = request[r].frame
           /\ \/ request'[r].state = request[r].state
              \/ /\ request'[r].state = "timed out"
                 /\ request[r].state \in {"publishing", "published"}
  PROVE  RInv'
<1>1. /\ ready' \in [Queued -> Nat]
      /\ stage' \in [Queued -> {"idle", "stored", "ending"}]
      /\ \A q \in Queued :
           /\ Present(q)' => Present(q)
           /\ stage'[q] = "stored" => stage[q] = "stored"
           /\ ready[q] > 0 \/ stage[q] = "stored" => ready'[q] > 0 \/ stage'[q] = "stored"
  BY RequeueEffect DEF RInv
<1>2. UNCHANGED <<told, sent, happened, posted>>
  BY DEF outcomes
<1> USE MessagesAreQueued, <1>1, <1>2 DEF RInv
<1>3. TypeInv' /\ RequestInv'
  BY DEF TypeInv, RequestInv
<1>4. InboundInv' /\ EventInv' /\ PostedInv'
  BY DEF InboundInv, EventInv, PostedInv
<1>5. SentInv'
  BY DEF SentInv
<1>6. FrameInv' /\ TakenInv'
  BY DEF FrameInv, TakenInv
<1> QED
  BY <1>3, <1>4, <1>5, <1>6

LEMMA RestartRouterPreserves ==
  ASSUME RInv, RestartRouter
  PROVE  RInv'
<1>1. Requeue(Router) /\ UNCHANGED <<request, outcomes>>
  BY DEF RestartRouter
<1> QED
  BY <1>1, RestartPreserves DEF RInv, TypeInv

LEMMA RestartAppPreserves ==
  ASSUME RInv, NEW a \in Apps, RestartApp(a)
  PROVE  RInv'
<1>1. Requeue(a) /\ UNCHANGED outcomes
  BY DEF RestartApp
<1>2. ASSUME NEW r \in Replies
      PROVE  /\ request'[r] \in Requests
             /\ request'[r].app = request[r].app /\ request'[r].reply = request[r].reply
             /\ request'[r].frame = request[r].frame
             /\ \/ request'[r].state = request[r].state
                \/ /\ request'[r].state = "timed out"
                   /\ request[r].state \in {"publishing", "published"}
  <2>1. request[r] \in Requests
    BY DEF RInv, TypeInv
  <2>2. \/ request'[r] = request[r]
        \/ /\ request'[r] = [request[r] EXCEPT !.state = "timed out"]
           /\ request[r].state \in {"publishing", "published"}
    BY DEF RestartApp
  <2> QED
    BY <2>1, <2>2 DEF Requests, States
<1>3. request' \in [Replies -> Requests]
  BY <1>2 DEF RestartApp
<1> QED
  BY <1>1, <1>2, <1>3, RestartPreserves

-------------------------------------------------------------------------------
LEMMA NextPreserves ==
  ASSUME RInv, [Next]_vars
  PROVE  RInv'
<1>1. CASE Tick \/ UNCHANGED vars
  BY <1>1, UnseenPreserves DEF Tick, vars
<1>2. CASE RouterTask
  BY <1>2, RouteInboundPreserves, StoreOutboundPreserves, ForwardOutboundPreserves,
     RouteEventPreserves DEF RouterTask
<1>3. ASSUME NEW a \in Apps, AppTask(a)
      PROVE  RInv'
  BY <1>3, TakeInboundPreserves, PostInboundPreserves, TakeEventPreserves DEF AppTask
<1>4. CASE \E q \in Queued : Settle(q)
  BY <1>4, SettlePreserves
<1>5. CASE \E r \in Replies, a \in Apps : Refuse(r, a) \/ Submit(r, a) \/ SubmitNew(r, a)
  BY <1>5, SubmitPreserves
<1>6. CASE \E r \in Replies : \/ Publish(r) \/ SubmitReturns(r) \/ SubmitTimesOut(r)
                             \/ BrokerTakes(r) \/ BrokerLoses(r)
  BY <1>6, AnswerPreserves
<1>7. CASE \E e \in Events : Happens(e)
  BY <1>7, HappensPreserves
<1>8. CASE RestartRouter \/ \E a \in Apps : RestartApp(a)
  BY <1>8, RestartRouterPreserves, RestartAppPreserves
<1> QED
  BY <1>1, <1>2, <1>3, <1>4, <1>5, <1>6, <1>7, <1>8 DEF Next

\* The inductive invariant holds: where a message is says what happened to it
\* before, across restarts of the router and of the applications.
THEOREM Invariance == Spec => []RInv
<1>1. Init => RInv
  BY InitEstablishes
<1>2. RInv /\ [Next]_vars => RInv'
  BY NextPreserves
<1> QED
  BY <1>1, <1>2, PTL DEF Spec

\* The events of a message go to the application that sent it: the router finds
\* that by the reply's sender, where it found the application by the address of
\* the inbound message.
THEOREM EventsReachTheSender == Spec => []EventsComeHome
<1>1. RInv => EventsComeHome
  <2> SUFFICES ASSUME RInv, NEW p \in posted
               PROVE  p.app = request[p.event[1]].app
    BY DEF EventsComeHome
  <2>1. p.event \in Events /\ p.event \in happened /\ p.app = AppFor(ReplyFrom(p.event[1]))
    BY DEF RInv, PostedInv
  <2>2. p.event[1] \in Replies /\ sent[p.event[1]] > 0
    BY <2>1 DEF RInv, EventInv, Events
  <2> QED
    BY <2>1, <2>2 DEF RInv, SentInv, RequestInv
<1> QED
  BY <1>1, Invariance, PTL

\* A request is answered with success only after its message was written to the
\* broker's connection; and a reply the broker took from there is in the router's
\* queue, in its handler, or was sent on, whenever the router restarts.
THEOREM OnlyTheBrokerLosesReplies == Spec => []OnlyTheBrokerLoses
<1>1. RInv => OnlyTheBrokerLoses
  BY DEF RInv, FrameInv, TakenInv, OnlyTheBrokerLoses
<1> QED
  BY <1>1, Invariance, PTL

-------------------------------------------------------------------------------
(* The caches: what was put in one is there until it expires or a restart  *)
(* forgets it.                                                             *)

Stamps == Nat \cup {None}

CacheTypeInv ==
  /\ now \in Nat
  /\ outbounds \in [Replies -> Stamps]
  /\ inbounds \in [Apps -> [Inbounds -> Stamps]]
  /\ urls \in [Apps -> [Replies -> Stamps]]

\* A message in the queue of the router, with it or sent on was taken from a request.
SubmittedInv ==
  \A r \in Replies :
    /\ request[r].state # "none" => request[r].app \in Apps
    /\ Present(Message(Router, "outbound", r)) \/ sent[r] > 0 =>
         request[r].state \in {"published", "submitted", "timed out"}

\* What was sent on was stored first.
OutboundsInv ==
  \A r \in Replies :
    stage[Message(Router, "outbound", r)] = "stored" \/ sent[r] > 0 =>
      outbounds[r] # None \/ <<Router, r>> \in forgotten

\* The URL of a request was stored before it was published.
UrlsInv ==
  \A r \in UrlKept :
    request[r].state \notin {"none", "not found"} =>
      urls[request[r].app][r] # None \/ <<request[r].app, r>> \in forgotten

\* What an application is being told was stored first.
InboundsInv ==
  \A r \in Replies, a \in Apps :
    stage[Message(a, "inbound", InReplyTo[r])] # "idle" \/ <<a, InReplyTo[r]>> \in told =>
      inbounds[a][InReplyTo[r]] # None \/ <<a, r>> \in forgotten

KInv == CacheTypeInv /\ SubmittedInv /\ OutboundsInv /\ UrlsInv /\ InboundsInv

LEMMA ConstantsAreApart ==
  /\ None \notin Nat /\ None \notin Apps /\ Router \notin Apps
  /\ \A r \in Replies : InReplyTo[r] \in Inbounds
  /\ UrlKept \subseteq Replies
BY RoutingAssumption DEF UrlKept

LEMMA InitKeeps == Init => KInv
<1> SUFFICES ASSUME Init PROVE KInv
  OBVIOUS
<1> USE MessagesAreQueued, ConstantsAreApart DEF Init
<1>1. CacheTypeInv
  BY DEF CacheTypeInv, Stamps
<1>2. \A r \in Replies : /\ ~Present(Message(Router, "outbound", r))
                        /\ request[r].state = "none" /\ sent[r] = 0
  BY DEF Present, Message, Asked
<1>3. SubmittedInv
  <2>1. \A r \in Replies : ~(sent[r] > 0)
    BY <1>2
  <2> QED
    BY <1>2, <2>1, Zenon DEF SubmittedInv
<1>6. OutboundsInv
  <2>1. \A r \in Replies : stage[Message(Router, "outbound", r)] # "stored"
    BY <1>2 DEF Present
  <2> QED
    BY <1>2, <2>1 DEF OutboundsInv
<1>5. UrlsInv
  BY <1>2 DEF UrlsInv
<1>4. InboundsInv
  BY DEF InboundsInv
<1> QED
  BY <1>1, <1>3, <1>4, <1>5, <1>6 DEF KInv

\* A step in which no request begins or ends, nothing is stored or sent on, and
\* no copy of an outbound message appears.
LEMMA QuietKeeps ==
  ASSUME KInv, UNCHANGED <<request, caches, sent, told, forgotten>>,
         now' \in Nat,
         \A q \in Queued : /\ q.type = "outbound" /\ Present(q)' => Present(q)
                           /\ stage'[q] = "stored" => stage[q] = "stored"
                           /\ q.type = "inbound" /\ q.at # Router /\ stage'[q] # "idle" =>
                                stage[q] # "idle"
  PROVE  KInv'
<1> USE MessagesAreQueued, ConstantsAreApart DEF KInv, caches
<1>1. CacheTypeInv'
  BY DEF CacheTypeInv
<1>2. /\ \A r \in Replies : /\ Message(Router, "outbound", r) \in Queued
                            /\ Message(Router, "outbound", r).type = "outbound"
      /\ \A a \in Apps, x \in Inbounds :
           /\ Message(a, "inbound", x) \in Queued
           /\ Message(a, "inbound", x).type = "inbound" /\ Message(a, "inbound", x).at = a
  BY DEF Message
<1>3. SubmittedInv'
  BY <1>2 DEF SubmittedInv
<1>4. OutboundsInv' /\ UrlsInv'
  BY <1>2 DEF OutboundsInv, UrlsInv
<1>5. InboundsInv'
  BY <1>2 DEF InboundsInv
<1> QED
  BY <1>1, <1>3, <1>4, <1>5

LEMMA RouteEventKeeps ==
  ASSUME RInv, KInv, NEW e \in Events, RouteEvent(e)
  PROVE  KInv'
<1> DEFINE app == IF Fresh(outbounds[e[1]]) THEN AppFor(ReplyFrom(e[1])) ELSE None
           q   == Message(Router, "event", e)
           out == IF app = None THEN {} ELSE {Message(app, "event", e)}
<1>1. /\ Handle(q, "ending", out)
      /\ UNCHANGED <<now, request, caches, sent, told, forgotten>>
  BY DEF RouteEvent
<1>2. q \in Queued /\ q.type = "event"
  BY MessagesAreQueued DEF Message
<1>3. \A p \in out : p.type = "event"
  BY DEF Message
<1> HIDE DEF q, out
<1>4. /\ \A p \in Queued \ {q} : stage'[p] = stage[p]
      /\ stage'[q] = "ending"
      /\ \A p \in Queued : Present(p)' => Present(p) \/ p \in out
  BY <1>1, <1>2, HandleEffect DEF RInv
<1> QED
  BY <1>1, <1>2, <1>3, <1>4, QuietKeeps DEF KInv, CacheTypeInv

LEMMA RouteInboundKeeps ==
  ASSUME RInv, KInv, NEW x \in Inbounds, RouteInbound(x)
  PROVE  KInv'
<1> DEFINE app == AppFor(To[x])
           q   == Message(Router, "inbound", x)
           out == IF app = None THEN {} ELSE {Message(app, "inbound", x)}
<1>1. /\ Handle(q, "ending", out)
      /\ UNCHANGED <<now, request, caches, sent, told, forgotten>>
  BY DEF RouteInbound, outcomes
<1>2. q \in Queued /\ q.type = "inbound" /\ q.at = Router
  BY MessagesAreQueued DEF Message
<1>3. \A p \in out : p.type = "inbound"
  BY DEF Message
<1> HIDE DEF q, out
<1>4. /\ \A p \in Queued \ {q} : stage'[p] = stage[p]
      /\ stage'[q] = "ending"
      /\ \A p \in Queued : Present(p)' => Present(p) \/ p \in out
  BY <1>1, <1>2, HandleEffect DEF RInv
<1> QED
  BY <1>1, <1>2, <1>3, <1>4, QuietKeeps DEF KInv, CacheTypeInv

LEMMA TakeEventKeeps ==
  ASSUME RInv, KInv, NEW a \in Apps, NEW e \in Events, TakeEvent(a, e)
  PROVE  KInv'
<1> DEFINE q == Message(a, "event", e)
<1>1. /\ Handle(q, "ending", {})
      /\ UNCHANGED <<now, request, caches, sent, told, forgotten>>
  BY DEF TakeEvent
<1>2. q \in Queued /\ q.type = "event"
  BY MessagesAreQueued DEF Message
<1> HIDE DEF q
<1>3. /\ \A p \in Queued \ {q} : stage'[p] = stage[p]
      /\ stage'[q] = "ending"
      /\ \A p \in Queued : Present(p)' => Present(p)
  BY <1>1, <1>2, HandleEffect DEF RInv
<1> QED
  BY <1>1, <1>2, <1>3, QuietKeeps DEF KInv, CacheTypeInv

LEMMA HappensKeeps ==
  ASSUME RInv, KInv, NEW e \in Events, Happens(e)
  PROVE  KInv'
<1> DEFINE q == Message(Router, "event", e)
<1>1. /\ ready' = [ready EXCEPT ![q] = @ + 1]
      /\ UNCHANGED <<now, stage, request, caches, sent, told, forgotten>>
  BY DEF Happens
<1>2. q \in Queued /\ q.type = "event"
  BY MessagesAreQueued DEF Message
<1> HIDE DEF q
<1>3. \A p \in Queued \ {q} : ready'[p] = ready[p]
  BY <1>1, <1>2, PublishEffect DEF RInv
<1>4. \A p \in Queued \ {q} : Present(p)' => Present(p)
  BY <1>1, <1>3 DEF Present
<1> QED
  BY <1>1, <1>2, <1>4, QuietKeeps DEF KInv, CacheTypeInv

LEMMA SettleKeeps ==
  ASSUME RInv, KInv, NEW q \in Queued, Settle(q)
  PROVE  KInv'
<1>1. /\ UNCHANGED <<now, ready, request, caches, sent, told, forgotten>>
      /\ \A p \in Queued : stage'[p] \in {stage[p], "idle"}
  BY DEF Settle, RInv, TypeInv, outcomes
<1>2. \A p \in Queued : Present(p)' => Present(p)
  BY <1>1 DEF Present
<1> QED
  BY <1>1, <1>2, QuietKeeps DEF KInv, CacheTypeInv

LEMMA StoreOutboundKeeps ==
  ASSUME RInv, KInv, NEW r \in Replies, StoreOutbound(r)
  PROVE  KInv'
<1> DEFINE q == Message(Router, "outbound", r)
           s == IF request[r].reply THEN "stored" ELSE "ending"
<1>1. /\ Handle(q, s, {})
      /\ outbounds' = [outbounds EXCEPT ![r] = now]
      /\ UNCHANGED <<now, request, inbounds, urls, sent, told, forgotten>>
  BY DEF StoreOutbound, outcomes
<1>2. q \in Queued /\ s \in {"stored", "ending"}
  BY MessagesAreQueued
<1>3. /\ \A t \in Replies \ {r} : Message(Router, "outbound", t) \in Queued \ {q}
      /\ \A a \in Apps, x \in Inbounds : Message(a, "inbound", x) \in Queued \ {q}
  BY MessagesAreQueued DEF Message
<1>4. Message(Router, "outbound", r) = q
  OBVIOUS
<1> HIDE DEF q, s
<1>5. /\ \A p \in Queued \ {q} : stage'[p] = stage[p]
      /\ \A p \in Queued : Present(p)' => Present(p)
  BY <1>1, <1>2, HandleEffect DEF RInv
<1> USE ConstantsAreApart DEF KInv
<1>6. CacheTypeInv' /\ outbounds'[r] # None /\ \A t \in Replies \ {r} : outbounds'[t] = outbounds[t]
  BY <1>1 DEF CacheTypeInv, Stamps
<1>7. SubmittedInv'
  BY <1>1, <1>5, MessagesAreQueued DEF SubmittedInv
<1>8. OutboundsInv'
  BY <1>1, <1>3, <1>4, <1>5, <1>6 DEF OutboundsInv
<1>9. UrlsInv' /\ InboundsInv'
  BY <1>1, <1>3, <1>5 DEF UrlsInv, InboundsInv
<1> QED
  BY <1>6, <1>7, <1>8, <1>9

LEMMA ForwardOutboundKeeps ==
  ASSUME RInv, KInv, NEW r \in Replies, ForwardOutbound(r)
  PROVE  KInv'
<1> DEFINE q == Message(Router, "outbound", r)
<1>1. /\ stage[q] = "stored" /\ stage' = [stage EXCEPT ![q] = "ending"]
      /\ sent' = [sent EXCEPT ![r] = @ + 1]
      /\ UNCHANGED <<now, ready, request, caches, told, forgotten>>
  BY DEF ForwardOutbound
<1>2. q \in Queued
  BY MessagesAreQueued
<1>3. /\ \A t \in Replies \ {r} : Message(Router, "outbound", t) \in Queued \ {q}
      /\ \A a \in Apps, x \in Inbounds : Message(a, "inbound", x) \in Queued \ {q}
  BY MessagesAreQueued DEF Message
<1>4. /\ \A p \in Queued \ {q} : stage'[p] = stage[p]
      /\ stage'[q] = "ending"
      /\ Present(q) /\ \A p \in Queued : Present(p)' => Present(p)
      /\ \A t \in Replies \ {r} : sent'[t] = sent[t]
  BY <1>1, <1>2 DEF RInv, TypeInv, Present
<1>5. Message(Router, "outbound", r) = q
  OBVIOUS
<1> HIDE DEF q
<1> USE ConstantsAreApart, <1>1, <1>3, <1>4, <1>5 DEF KInv, caches
<1>6. CacheTypeInv'
  BY DEF CacheTypeInv
<1>7. SubmittedInv'
  BY MessagesAreQueued DEF SubmittedInv
<1>8. OutboundsInv'
  BY DEF OutboundsInv
<1>9. UrlsInv' /\ InboundsInv'
  BY DEF UrlsInv, InboundsInv
<1> QED
  BY <1>6, <1>7, <1>8, <1>9

LEMMA TakeInboundKeeps ==
  ASSUME RInv, KInv, NEW a \in Apps, NEW x \in Inbounds, TakeInbound(a, x)
  PROVE  KInv'
<1> DEFINE q == Message(a, "inbound", x)
<1>1. /\ Handle(q, "ending", {})
      /\ inbounds' = [inbounds EXCEPT ![a][x] = now]
      /\ UNCHANGED <<now, request, outbounds, urls, sent, told, forgotten>>
  BY DEF TakeInbound, outcomes
<1>2. q \in Queued
  BY MessagesAreQueued
<1>3. /\ \A t \in Replies : Message(Router, "outbound", t) \in Queued \ {q}
      /\ \A b \in Apps, y \in Inbounds : b # a \/ y # x => Message(b, "inbound", y) \in Queued \ {q}
  BY MessagesAreQueued DEF Message
<1> HIDE DEF q
<1>4. /\ \A p \in Queued \ {q} : stage'[p] = stage[p]
      /\ \A p \in Queued : Present(p)' => Present(p)
  BY <1>1, <1>2, HandleEffect DEF RInv
<1> USE ConstantsAreApart, <1>1, <1>3, <1>4 DEF KInv
<1>5. CacheTypeInv'
  BY DEF CacheTypeInv, Stamps
<1>6. /\ inbounds'[a][x] # None
      /\ \A b \in Apps, y \in Inbounds : b # a \/ y # x => inbounds'[b][y] = inbounds[b][y]
  BY DEF CacheTypeInv
<1>7. SubmittedInv' /\ OutboundsInv' /\ UrlsInv'
  BY DEF SubmittedInv, OutboundsInv, UrlsInv
<1>8. InboundsInv'
  <2> SUFFICES ASSUME NEW r \in Replies, NEW b \in Apps,
                      stage'[Message(b, "inbound", InReplyTo[r])] # "idle"
                        \/ <<b, InReplyTo[r]>> \in told
               PROVE  inbounds'[b][InReplyTo[r]] # None \/ <<b, r>> \in forgotten
    BY DEF InboundsInv
  <2>1. CASE b = a /\ InReplyTo[r] = x
    BY <1>6, <2>1
  <2>2. CASE b # a \/ InReplyTo[r] # x
    BY <1>6, <2>2 DEF InboundsInv
  <2> QED
    BY <2>1, <2>2
<1> QED
  BY <1>5, <1>7, <1>8

LEMMA PostInboundKeeps ==
  ASSUME RInv, KInv, NEW a \in Apps, NEW x \in Inbounds, PostInbound(a, x)
  PROVE  KInv'
<1>1. /\ stage[Message(a, "inbound", x)] = "ending"
      /\ told' = told \cup {<<a, x>>}
      /\ UNCHANGED <<now, ready, stage, request, caches, sent, forgotten>>
  BY DEF PostInbound, queues
<1>2. InboundsInv'
  BY <1>1 DEF KInv, InboundsInv, caches
<1> QED
  BY <1>1, <1>2 DEF KInv, CacheTypeInv, SubmittedInv, OutboundsInv, UrlsInv, Present, caches

LEMMA RefuseKeeps ==
  ASSUME RInv, KInv, NEW r \in Replies, NEW a \in Apps, Refuse(r, a)
  PROVE  KInv'
<1>1. PICK reply \in BOOLEAN :
      /\ request[r].state = "none"
      /\ request' = [request EXCEPT ![r] = Asked("not found", a, reply)]
      /\ UNCHANGED <<now, queues, caches, sent, told, forgotten>>
  BY DEF Refuse, Replying, outcomes
<1>2. request'[r] = Asked("not found", a, reply) /\ \A t \in Replies \ {r} : request'[t] = request[t]
  BY <1>1 DEF RInv, TypeInv
<1>3. request'[r].state = "not found" /\ request'[r].app = a
  <2> DEFINE new == Asked("not found", a, reply)
  <2>1. new.state = "not found" /\ new.app = a
    BY DEF Asked
  <2>2. request'[r] = new
    BY <1>2
  <2> HIDE DEF new
  <2> QED
    BY <2>1, <2>2
<1>4. ~Present(Message(Router, "outbound", r)) /\ ~(sent[r] > 0)
  BY <1>1 DEF KInv, SubmittedInv
<1>5. SubmittedInv'
  BY <1>1, <1>2, <1>3, <1>4 DEF KInv, SubmittedInv, Present, queues
<1>6. UrlsInv'
  <2> SUFFICES ASSUME NEW t \in UrlKept, request'[t].state \notin {"none", "not found"}
               PROVE  urls[request'[t].app][t] # None \/ <<request'[t].app, t>> \in forgotten
    BY <1>1 DEF UrlsInv, caches
  <2>1. t \in Replies \ {r} /\ request'[t] = request[t]
    BY <1>2, <1>3, ConstantsAreApart
  <2> QED
    BY <2>1 DEF KInv, UrlsInv
<1> QED
  BY <1>1, <1>5, <1>6 DEF KInv, CacheTypeInv, OutboundsInv, InboundsInv, queues, caches

LEMMA SubmitKeeps ==
  ASSUME RInv, KInv, NEW r \in Replies, NEW a \in Apps, Submit(r, a) \/ SubmitNew(r, a)
  PROVE  KInv'
<1>1. PICK reply \in BOOLEAN : Publishing(r, a, reply)
  BY DEF Submit, SubmitNew, Fresh
<1>2. /\ request[r].state = "none"
      /\ urls' = IF r \in UrlKept THEN [urls EXCEPT ![a][r] = now] ELSE urls
      /\ UNCHANGED <<now, queues, outbounds, inbounds, sent, told, forgotten>>
  BY <1>1 DEF Submit, SubmitNew, Publishing, Replying, outcomes
<1>3. /\ request'[r] = Asked("publishing", a, reply)
      /\ \A t \in Replies \ {r} : request'[t] = request[t]
  BY <1>1 DEF Publishing, RInv, TypeInv
<1>4. request'[r].state = "publishing" /\ request'[r].app = a
  BY <1>3 DEF Asked
<1>5. ~Present(Message(Router, "outbound", r)) /\ ~(sent[r] > 0)
  BY <1>2 DEF KInv, SubmittedInv
<1>6. SubmittedInv'
  BY <1>2, <1>3, <1>4, <1>5 DEF KInv, SubmittedInv, Present, queues
<1>7. /\ CacheTypeInv'
      /\ r \in UrlKept => urls'[a][r] # None
      /\ \A b \in Apps, t \in Replies \ {r} : urls'[b][t] = urls[b][t]
  BY <1>2, ConstantsAreApart DEF KInv, CacheTypeInv, Stamps
<1>8. UrlsInv'
  <2> SUFFICES ASSUME NEW t \in UrlKept, request'[t].state \notin {"none", "not found"}
               PROVE  urls'[request'[t].app][t] # None \/ <<request'[t].app, t>> \in forgotten'
    BY DEF UrlsInv
  <2>1. CASE t = r
    BY <1>4, <1>7, <2>1
  <2>2. CASE t # r
    <3>1. t \in Replies \ {r} /\ request'[t] = request[t] /\ request[t].app \in Apps
      BY <1>3, <2>2, ConstantsAreApart DEF KInv, SubmittedInv
    <3> QED
      BY <1>2, <1>7, <3>1 DEF KInv, UrlsInv
  <2> QED
    BY <2>1, <2>2
<1> QED
  BY <1>2, <1>6, <1>7, <1>8 DEF KInv, OutboundsInv, InboundsInv, queues

LEMMA AnswerKeeps ==
  ASSUME RInv, KInv, NEW r \in Replies,
         Publish(r) \/ SubmitReturns(r) \/ SubmitTimesOut(r) \/ BrokerTakes(r) \/ BrokerLoses(r)
  PROVE  KInv'
<1> DEFINE q == Message(Router, "outbound", r)
<1>1. /\ request[r].state \in {"publishing", "published", "submitted", "timed out"}
      /\ UNCHANGED <<now, stage, caches, sent, told, forgotten>>
      /\ ready' = [ready EXCEPT ![q] = @ + 1] \/ ready' = ready
  BY AnswerEffect
<1>2. q \in Queued
  BY MessagesAreQueued
<1>3. request'[r].state \in {"published", "submitted", "timed out"}
      /\ request'[r].app = request[r].app
  BY AnswerEffect
<1>4. \A t \in Replies \ {r} : request'[t] = request[t]
  BY AnswerEffect
<1>5. \A t \in Replies \ {r} : Message(Router, "outbound", t) \in Queued \ {q}
  BY MessagesAreQueued DEF Message
<1> HIDE DEF q
<1>6. \A p \in Queued \ {q} : ready'[p] = ready[p]
  BY <1>1, <1>2, PublishEffect DEF RInv
<1>7. SubmittedInv'
  BY <1>1, <1>3, <1>4, <1>5, <1>6 DEF KInv, SubmittedInv, Present
<1>8. UrlsInv'
  <2> SUFFICES ASSUME NEW t \in UrlKept, request'[t].state \notin {"none", "not found"}
               PROVE  urls[request'[t].app][t] # None \/ <<request'[t].app, t>> \in forgotten
    BY <1>1 DEF UrlsInv, caches
  <2>1. t \in Replies /\ request'[t].app = request[t].app
    BY <1>3, <1>4, ConstantsAreApart
  <2>2. request[t].state \notin {"none", "not found"}
    BY <1>1, <1>4, <2>1
  <2> QED
    BY <2>1, <2>2 DEF KInv, UrlsInv
<1> QED
  BY <1>1, <1>7, <1>8 DEF KInv, CacheTypeInv, OutboundsInv, InboundsInv, caches

LEMMA RestartRouterKeeps ==
  ASSUME RInv, KInv, RestartRouter
  PROVE  KInv'
<1>1. /\ outbounds' = [r \in Replies |-> None]
      /\ forgotten' = forgotten \cup {<<Router, r>> : r \in {s \in Replies : outbounds[s] # None}}
      /\ UNCHANGED <<now, request, inbounds, urls, sent, told>>
      /\ Requeue(Router)
  BY DEF RestartRouter, outcomes
<1>2. \A q \in Queued : /\ Present(q)' => Present(q)
                        /\ stage'[q] = "stored" => stage[q] = "stored"
                        /\ stage'[q] # "idle" => stage[q] # "idle"
  BY <1>1, RequeueEffect DEF RInv, Requeue
<1> USE MessagesAreQueued, ConstantsAreApart, <1>1, <1>2 DEF KInv
<1>3. CacheTypeInv'
  BY DEF CacheTypeInv, Stamps
<1>4. SubmittedInv'
  BY DEF SubmittedInv
<1>5. OutboundsInv'
  BY DEF OutboundsInv
<1>6. UrlsInv'
  BY DEF UrlsInv
<1>7. InboundsInv'
  BY DEF InboundsInv
<1> QED
  BY <1>3, <1>4, <1>5, <1>6, <1>7

LEMMA RestartAppKeeps ==
  ASSUME RInv, KInv, NEW a \in Apps, RestartApp(a)
  PROVE  KInv'
<1>1. /\ inbounds' = [inbounds EXCEPT ![a] = [x \in Inbounds |-> None]]
      /\ urls' = [urls EXCEPT ![a] = [r \in Replies |-> None]]
      /\ forgotten' = forgotten \cup {<<a, r>> : r \in
           {s \in Replies : urls[a][s] # None \/ inbounds[a][InReplyTo[s]] # None}}
      /\ UNCHANGED <<now, outbounds, sent, told>>
      /\ Requeue(a)
  BY DEF RestartApp, outcomes
<1>2. \A q \in Queued : /\ Present(q)' => Present(q)
                        /\ stage'[q] = "stored" => stage[q] = "stored"
                        /\ stage'[q] # "idle" => stage[q] # "idle"
  BY <1>1, RequeueEffect DEF RInv, Requeue
<1>3. ASSUME NEW r \in Replies
      PROVE  /\ request'[r].app = request[r].app
             /\ \/ request'[r].state = request[r].state
                \/ request'[r].state = "timed out"
                   /\ request[r].state \in {"publishing", "published"}
  <2>1. \/ request'[r] = request[r]
        \/ /\ request'[r] = [request[r] EXCEPT !.state = "timed out"]
           /\ request[r].state \in {"publishing", "published"}
    BY DEF RestartApp
  <2>2. request[r] \in Requests
    BY DEF RInv, TypeInv
  <2> QED
    BY <2>1, <2>2 DEF Requests
<1>4. CacheTypeInv'
  BY <1>1 DEF KInv, CacheTypeInv, Stamps
<1>5. /\ \A b \in Apps \ {a} : inbounds'[b] = inbounds[b] /\ urls'[b] = urls[b]
      /\ forgotten \subseteq forgotten'
      /\ \A r \in Replies : urls[a][r] # None \/ inbounds[a][InReplyTo[r]] # None =>
           <<a, r>> \in forgotten'
  BY <1>1 DEF KInv, CacheTypeInv
<1>6. SubmittedInv'
  BY <1>1, <1>2, <1>3, MessagesAreQueued DEF KInv, SubmittedInv
<1>7. OutboundsInv'
  BY <1>1, <1>2, <1>5, MessagesAreQueued DEF KInv, OutboundsInv
<1>8. UrlsInv'
  <2> SUFFICES ASSUME NEW r \in UrlKept, request'[r].state \notin {"none", "not found"}
               PROVE  urls'[request'[r].app][r] # None \/ <<request'[r].app, r>> \in forgotten'
    BY DEF UrlsInv
  <2> DEFINE app == request[r].app
  <2>1. r \in Replies
    BY ConstantsAreApart
  <2>2. app \in Apps /\ request'[r].app = app /\ request[r].state \notin {"none", "not found"}
    BY <1>3, <2>1 DEF KInv, SubmittedInv
  <2> HIDE DEF app
  <2>3. urls[app][r] # None \/ <<app, r>> \in forgotten
    BY <2>2 DEF KInv, UrlsInv, app
  <2>4. CASE app = a
    BY <1>5, <2>1, <2>2, <2>3, <2>4
  <2>5. CASE app # a
    BY <1>5, <2>2, <2>3, <2>5
  <2> QED
    BY <2>4, <2>5
<1>9. InboundsInv'
  <2> SUFFICES ASSUME NEW r \in Replies, NEW b \in Apps,
                      stage'[Message(b, "inbound", InReplyTo[r])] # "idle"
                        \/ <<b, InReplyTo[r]>> \in told'
               PROVE  inbounds'[b][InReplyTo[r]] # None \/ <<b, r>> \in forgotten'
    BY DEF InboundsInv
  <2>1. inbounds[b][InReplyTo[r]] # None \/ <<b, r>> \in forgotten
    BY <1>1, <1>2, MessagesAreQueued, ConstantsAreApart DEF KInv, InboundsInv
  <2>2. CASE b = a
    BY <1>5, <2>1, <2>2
  <2>3. CASE b # a
    BY <1>5, <2>1, <2>3
  <2> QED
    BY <2>2, <2>3
<1> QED
  BY <1>4, <1>6, <1>7, <1>8, <1>9 DEF KInv

LEMMA NextKeeps ==
  ASSUME RInv, KInv, [Next]_vars
  PROVE  KInv'
<1>1. CASE Tick \/ UNCHANGED vars
  <2>1. UNCHANGED <<queues, request, caches, outcomes, forgotten>> /\ now' \in Nat
    BY <1>1 DEF Tick, vars, KInv, CacheTypeInv
  <2> QED
    BY <2>1, QuietKeeps DEF queues, outcomes, Present
<1>2. CASE RouterTask
  BY <1>2, RouteInboundKeeps, StoreOutboundKeeps, ForwardOutboundKeeps, RouteEventKeeps
  DEF RouterTask
<1>3. ASSUME NEW a \in Apps, AppTask(a)
      PROVE  KInv'
  BY <1>3, TakeInboundKeeps, PostInboundKeeps, TakeEventKeeps DEF AppTask
<1>4. CASE \E q \in Queued : Settle(q)
  BY <1>4, SettleKeeps
<1>5. CASE \E r \in Replies, a \in Apps : Refuse(r, a) \/ Submit(r, a) \/ SubmitNew(r, a)
  BY <1>5, RefuseKeeps, SubmitKeeps
<1>6. CASE \E r \in Replies : \/ Publish(r) \/ SubmitReturns(r) \/ SubmitTimesOut(r)
                             \/ BrokerTakes(r) \/ BrokerLoses(r)
  BY <1>6, AnswerKeeps
<1>7. CASE \E e \in Events : Happens(e)
  BY <1>7, HappensKeeps
<1>8. CASE RestartRouter \/ \E a \in Apps : RestartApp(a)
  BY <1>8, RestartRouterKeeps, RestartAppKeeps
<1> QED
  BY <1>1, <1>2, <1>3, <1>4, <1>5, <1>6, <1>7, <1>8 DEF Next

\* What was stored is found until it expires or a restart forgets it.
THEOREM Kept == Spec => [](RInv /\ KInv)
<1>1. Init => RInv /\ KInv
  BY InitEstablishes, InitKeeps
<1>2. RInv /\ KInv /\ [Next]_vars => (RInv /\ KInv)'
  BY NextPreserves, NextKeeps
<1> QED
  BY <1>1, <1>2, PTL DEF Spec

-------------------------------------------------------------------------------
\* An entry that is not found was not stored, or has expired.
LEMMA NotFresh ==
  ASSUME now \in Nat, NEW stamp \in Stamps, ~Fresh(stamp)
  PROVE  stamp = None \/ Gone(stamp)
<1>1. CASE stamp \in Nat
  <2>1. Timeout \in Nat /\ now - stamp \in Int
    BY <1>1, RoutingAssumption
  <2> QED
    BY <2>1 DEF Fresh, Gone
<1> QED
  BY <1>1 DEF Stamps

\* The router drops an event only if its message expired or was forgotten by a restart:
\* a message that was sent was stored before, and its sender's application is known.
THEOREM DropsOnlyForgotten == Spec => DroppedOnlyIfForgotten
<1> DEFINE Step == \A e \in dropped' \ dropped :
                     Gone(outbounds[e[1]]) \/ <<Router, e[1]>> \in forgotten
<1>1. RInv /\ KInv /\ [Next]_vars => [Step]_vars
  <2> SUFFICES ASSUME RInv, KInv, Next, NEW e \in dropped' \ dropped
               PROVE  Gone(outbounds[e[1]]) \/ <<Router, e[1]>> \in forgotten
    BY DEF vars
  <2>1. e \in Events /\ RouteEvent(e)
    BY DEF Next, RouterTask, AppTask, Tick, RouteInbound, StoreOutbound, ForwardOutbound,
       RouteEvent, TakeInbound, PostInbound, TakeEvent, Settle, Refuse, Submit, SubmitNew,
       Publishing, Publish, SubmitReturns, SubmitTimesOut, Answered, BrokerTakes, BrokerLoses, Happens, RestartRouter,
       RestartApp, outcomes
  <2> DEFINE r == e[1]
  <2>2. r \in Replies
    BY <2>1 DEF Events
  <2>3. Present(Message(Router, "event", e))
    BY <2>1, MessagesAreQueued DEF RouteEvent, Handle, Present
  <2>4. sent[r] > 0 /\ request[r].app = AppFor(ReplyFrom(r))
    BY <2>1, <2>2, <2>3 DEF RInv, EventInv, SentInv, RequestInv
  <2>5. AppFor(ReplyFrom(r)) # None
    BY <2>2, <2>4, ConstantsAreApart DEF KInv, SubmittedInv
  <2>6. ~Fresh(outbounds[r])
    BY <2>1, <2>5 DEF RouteEvent
  <2>7. outbounds[r] # None \/ <<Router, r>> \in forgotten
    BY <2>2, <2>4 DEF KInv, OutboundsInv
  <2>8. now \in Nat /\ outbounds[r] \in Stamps
    BY <2>2 DEF KInv, CacheTypeInv
  <2> QED
    BY <2>6, <2>7, <2>8, NotFresh
<1> QED
  BY <1>1, Kept, PTL DEF Spec, DroppedOnlyIfForgotten

\* An event of a message with an event_url goes to the default URL only if the
\* URL expired or was forgotten by a restart of the application.
THEOREM OwnUrls == Spec => OwnUrlUnlessForgotten
<1> DEFINE Step == \A p \in posted' \ posted :
                     LET r == p.event[1]
                     IN  r \in UrlKept /\ p.url = "default" =>
                           Gone(urls[p.app][r]) \/ <<p.app, r>> \in forgotten
<1>1. RInv /\ KInv /\ [Next]_vars => [Step]_vars
  <2> SUFFICES ASSUME RInv, KInv, Next, NEW p \in posted' \ posted,
                      p.event[1] \in UrlKept, p.url = "default"
               PROVE  Gone(urls[p.app][p.event[1]]) \/ <<p.app, p.event[1]>> \in forgotten
    BY DEF vars
  <2>1. PICK a \in Apps, e \in Events : TakeEvent(a, e)
    BY DEF Next, RouterTask, AppTask, Tick, RouteInbound, StoreOutbound, ForwardOutbound,
       RouteEvent, TakeInbound, PostInbound, Settle, Refuse, Submit, SubmitNew,
       Publishing, Publish, SubmitReturns, SubmitTimesOut, Answered, BrokerTakes, BrokerLoses, Happens, RestartRouter,
       RestartApp, outcomes
  <2> DEFINE r   == e[1]
             url == IF Fresh(urls[a][r]) THEN "own" ELSE "default"
  <2>2. r \in Replies
    BY <2>1 DEF Events
  <2>3. p = [event |-> e, app |-> a, url |-> url]
    BY <2>1 DEF TakeEvent
  <2>4. p.app = a /\ p.event = e /\ ~Fresh(urls[a][r])
    BY <2>3
  <2>5. Present(Message(a, "event", e))
    BY <2>1, MessagesAreQueued DEF TakeEvent, Handle, Present
  <2>6. sent[r] > 0 /\ request[r].app = a
    BY <2>1, <2>2, <2>5 DEF RInv, EventInv, SentInv, RequestInv
  <2>7. request[r].state \notin {"none", "not found"}
    BY <2>2, <2>6 DEF KInv, SubmittedInv
  <2>8. urls[a][r] # None \/ <<a, r>> \in forgotten
    BY <2>4, <2>6, <2>7 DEF KInv, UrlsInv
  <2>9. now \in Nat /\ urls[a][r] \in Stamps
    BY <2>2 DEF KInv, CacheTypeInv
  <2> QED
    BY <2>4, <2>8, <2>9, NotFresh
<1> QED
  BY <1>1, Kept, PTL DEF Spec, OwnUrlUnlessForgotten

\* A reply is refused only if the message it replies to expired or was forgotten
\* by a restart of the application: it is stored before the application is told.
THEOREM RefusesOnlyForgotten == Spec => RefusedOnlyIfForgotten
<1> DEFINE Step == \A r \in Replies :
                     LET app == request'[r].app
                     IN  request'[r] # request[r] /\ request'[r].state = "not found" =>
                           Gone(inbounds[app][InReplyTo[r]]) \/ <<app, r>> \in forgotten
<1>1. RInv /\ KInv /\ [Next]_vars => [Step]_vars
  <2> SUFFICES ASSUME RInv, KInv, Next, NEW r \in Replies,
                      request'[r] # request[r], request'[r].state = "not found"
               PROVE  LET app == request'[r].app
                      IN  Gone(inbounds[app][InReplyTo[r]]) \/ <<app, r>> \in forgotten
    BY DEF vars
  <2>1. request[r] \in Requests
    BY DEF RInv, TypeInv
  <2>2. PICK a \in Apps : Refuse(r, a)
    <3>1. CASE \E t \in Replies, a \in Apps : Refuse(t, a)
      BY <3>1 DEF Refuse, RInv, TypeInv
    <3>2. CASE \E t \in Replies, a \in Apps : Submit(t, a) \/ SubmitNew(t, a)
      <4>1. PICK t \in Replies, b \in Apps : Submit(t, b) \/ SubmitNew(t, b)
        BY <3>2
      <4>2. PICK reply \in BOOLEAN :
              request' = [request EXCEPT ![t] = Asked("publishing", b, reply)]
        BY <4>1 DEF Submit, SubmitNew, Publishing, Fresh
      <4> QED
        BY <4>2 DEF Asked, RInv, TypeInv
    <3>3. CASE \E t \in Replies : \/ Publish(t) \/ SubmitReturns(t) \/ SubmitTimesOut(t)
                                 \/ BrokerTakes(t) \/ BrokerLoses(t)
      <4>1. PICK t \in Replies : \/ Publish(t) \/ SubmitReturns(t) \/ SubmitTimesOut(t)
                                 \/ BrokerTakes(t) \/ BrokerLoses(t)
        BY <3>3
      <4>2. CASE t = r
        BY <4>1, <4>2, AnswerEffect
      <4>3. CASE t # r
        BY <4>1, <4>3, AnswerEffect
      <4> QED
        BY <4>2, <4>3
    <3>4. CASE \E a \in Apps : RestartApp(a)
      <4>1. \/ request'[r] = request[r]
            \/ request'[r] = [request[r] EXCEPT !.state = "timed out"]
        BY <3>4 DEF RestartApp
      <4> QED
        BY <2>1, <4>1 DEF Requests
    <3> QED
      BY <3>1, <3>2, <3>3, <3>4
      DEF Next, RouterTask, AppTask, Tick, RouteInbound, StoreOutbound, ForwardOutbound,
          RouteEvent, TakeInbound, PostInbound, TakeEvent, Settle, Happens, RestartRouter
  <2>3. request' = [request EXCEPT ![r] = Asked("not found", a, TRUE)]
          /\ <<a, InReplyTo[r]>> \in told /\ ~Fresh(inbounds[a][InReplyTo[r]])
    BY <2>2 DEF Refuse, Replying
  <2>4. request'[r].app = a
    BY <2>3, AskedFields DEF RInv, TypeInv, States
  <2>5. now \in Nat /\ inbounds[a][InReplyTo[r]] \in Stamps
    BY ConstantsAreApart DEF KInv, CacheTypeInv
  <2>6. inbounds[a][InReplyTo[r]] # None \/ <<a, r>> \in forgotten
    BY <2>3 DEF KInv, InboundsInv
  <2> QED
    BY <2>3, <2>4, <2>5, <2>6, NotFresh
<1> QED
  BY <1>1, Kept, PTL DEF Spec, RefusedOnlyIfForgotten
===============================================================================
