--------------------------------- MODULE Routing ---------------------------------
(***************************************************************************)
(* The ToAddressRouter between transports and Junebug applications:        *)
(* inbound messages to the application their address is mapped to, its     *)
(* replies back to the transport, and the transport's events about a reply *)
(* to the application that sent it.                                        *)
(*                                                                         *)
(* The router and each application are processes of their own, joined by   *)
(* queues of the broker, each with a message cache in memory: they restart *)
(* apart from each other.  A message leaves its queue when its handler has *)
(* ended; a restart before that has the broker deliver it again, so that a *)
(* queue counts copies.  The caches are the maps with expiry of            *)
(* ExpiringMap: what is kept is when each entry was stored.                *)
(***************************************************************************)
EXTENDS Integers, SequencesExt

CONSTANTS Apps, Router,   \* the processes
          Mappings,       \* <<[name, pattern]>>: pattern is the set of its addresses
          DefaultApp,     \* or None
          Inbounds,       \* messages from users
          To, From,       \* addresses of each inbound message
          Replies,        \* requests to POST /messages
          InReplyTo,      \* [Replies -> Inbounds]
          WithUrl,        \* the replies that name an event_url
          StoreEventInfo, \* store_event_info of the state cache
          AllowExpired,   \* allow_expired_replies
          Kinds,          \* the events a transport publishes about a message, each once
          Timeout,        \* of both caches
          MaxNow,         \* bound on the clock
          MaxRestarts,    \* bound on the restarts
          None

ASSUME RoutingAssumption ==
  /\ Router \notin Apps /\ DefaultApp \in Apps \cup {None} /\ None \notin Nat \cup Apps
  /\ \A i \in DOMAIN Mappings : Mappings[i].name \in Apps
  /\ InReplyTo \in [Replies -> Inbounds] /\ WithUrl \subseteq Replies
  /\ StoreEventInfo \in BOOLEAN /\ AllowExpired \in BOOLEAN
  /\ Timeout \in Nat /\ MaxNow \in Nat /\ MaxRestarts \in Nat

VARIABLES now, restarts,
          ready,       \* copies of each message waiting in a queue
          stage,       \* and how far the handler of one is: at its last call, or before
          told,        \* <<app, x>>: the HTTP application was sent x
          request,     \* POST /messages: who sent it and as what, how far it is, and where
                       \* the frame is that publishes it
          sent,        \* how often the router published each reply to its transport
          happened,    \* the events it published
          outbounds,   \* the router's cache of outbound messages
          inbounds,    \* each application's cache of inbound messages
          urls,        \* each application's cache of event URLs
          dropped,     \* the events the router did not route
          posted,      \* [event, app, url]: the events an application was sent
          forgotten    \* <<process, reply>>: lost from a cache by a restart

queues == <<ready, stage>>
caches == <<outbounds, inbounds, urls>>
outcomes == <<told, sent, happened, dropped, posted>>
vars == <<now, restarts, queues, request, caches, outcomes, forgotten>>

Events == Replies \X Kinds

\* Fault: an entry expires a moment too early.
FreshShorter(stamp) == stamp # None /\ now - stamp < Timeout

\* What a lookup still finds of an entry stored at stamp, and what it found before.
Fresh(stamp) == stamp # None /\ now - stamp <= Timeout
Gone(stamp) == stamp # None /\ now - stamp > Timeout

Message(p, type, id) == [at |-> p, type |-> type, id |-> id]
Queued == [at : Apps \cup {Router}, type : {"inbound"}, id : Inbounds]
            \cup [at : {Router}, type : {"outbound"}, id : Replies]
            \cup [at : Apps \cup {Router}, type : {"event"}, id : Events]

\* A request of which nothing is published yet.
Asked(state, app, reply) == [state |-> state, app |-> app, reply |-> reply, frame |-> "none"]

Init == /\ now = 0 /\ restarts = 0
        /\ ready = [q \in Queued |-> IF q.at = Router /\ q.type = "inbound" THEN 1 ELSE 0]
        /\ stage = [q \in Queued |-> "idle"]
        /\ told = {} /\ sent = [r \in Replies |-> 0] /\ happened = {}
        /\ request = [r \in Replies |-> Asked("none", None, FALSE)]
        /\ outbounds = [r \in Replies |-> None]
        /\ inbounds = [a \in Apps |-> [x \in Inbounds |-> None]]
        /\ urls = [a \in Apps |-> [r \in Replies |-> None]]
        /\ dropped = {} /\ posted = {} /\ forgotten = {}

Tick == /\ now < MaxNow
        /\ now' = now + 1
        /\ UNCHANGED <<restarts, queues, request, caches, outcomes, forgotten>>

-------------------------------------------------------------------------------
\* A handler gets message q (one copy of it at a time), goes on to stage s, and meanwhile publishes out.
Handle(q, s, out) ==
  /\ ready[q] > 0 /\ stage[q] = "idle"
  /\ ready' = [p \in Queued |-> ready[p] + (IF p \in out THEN 1 ELSE 0)
                                         - (IF p = q THEN 1 ELSE 0)]
  /\ stage' = [stage EXCEPT ![q] = s]

\* The last call of the handler returns or fails or its time is up, and the
\* message is acknowledged, or nacked if the handler raised.
Settle(q) == /\ stage[q] = "ending"
             /\ stage' = [stage EXCEPT ![q] = "idle"]
             /\ UNCHANGED <<now, restarts, ready, request, caches, outcomes, forgotten>>

\* _get_matched_mapping_name
AppFor(addr) ==
  LET i == SelectInSeq(Mappings, LAMBDA m : addr \in m.pattern)
  IN  IF i = 0 THEN DefaultApp ELSE Mappings[i].name

RouteInbound(x) ==
  LET app == AppFor(To[x])
  IN  /\ Handle(Message(Router, "inbound", x), "ending",
                IF app = None THEN {} ELSE {Message(app, "inbound", x)})
      /\ UNCHANGED <<now, restarts, request, caches, outcomes, forgotten>>

\* handle_outbound_message: the message is stored first.  A message that is not
\* a reply names the application's connector as its transport, which the router
\* does not have: KeyError.
StoreOutbound(r) ==
  /\ Handle(Message(Router, "outbound", r), IF request[r].reply THEN "stored" ELSE "ending", {})
  /\ outbounds' = [outbounds EXCEPT ![r] = now]
  /\ UNCHANGED <<now, restarts, request, inbounds, urls, outcomes, forgotten>>

ForwardOutbound(r) ==
  LET q == Message(Router, "outbound", r)
  IN  /\ stage[q] = "stored"
      /\ stage' = [stage EXCEPT ![q] = "ending"]
      /\ sent' = [sent EXCEPT ![r] = @ + 1]
      /\ UNCHANGED <<now, restarts, ready, request, caches, told, happened, dropped,
                     posted, forgotten>>

\* The sender of a reply is the address that the message it replies to came to.
ReplyFrom(r) == To[InReplyTo[r]]

\* Fault: the recipient's address decides.
RouteEventByTo(e) ==
  LET r == e[1]
      q == Message(Router, "event", e)
      app == IF Fresh(outbounds[r]) THEN AppFor(From[InReplyTo[r]]) ELSE None
  IN  /\ Handle(q, "ending", IF app = None THEN {} ELSE {Message(app, "event", e)})
      /\ dropped' = IF app = None THEN dropped \cup {e} ELSE dropped
      /\ UNCHANGED <<now, restarts, request, caches, told, sent, happened, posted, forgotten>>

\* Fault: the stored message is taken out of the cache.
RouteEventTaking(e) ==
  LET r == e[1]
      q == Message(Router, "event", e)
      app == IF Fresh(outbounds[r]) THEN AppFor(ReplyFrom(r)) ELSE None
  IN  /\ Handle(q, "ending", IF app = None THEN {} ELSE {Message(app, "event", e)})
      /\ dropped' = IF app = None THEN dropped \cup {e} ELSE dropped
      /\ outbounds' = [outbounds EXCEPT ![r] = None]
      /\ UNCHANGED <<now, restarts, request, inbounds, urls, told, sent, happened, posted,
                     forgotten>>

\* handle_event
RouteEvent(e) ==
  LET r == e[1]
      q == Message(Router, "event", e)
      app == IF Fresh(outbounds[r]) THEN AppFor(ReplyFrom(r)) ELSE None
  IN  /\ Handle(q, "ending", IF app = None THEN {} ELSE {Message(app, "event", e)})
      /\ dropped' = IF app = None THEN dropped \cup {e} ELSE dropped
      /\ UNCHANGED <<now, restarts, request, caches, told, sent, happened, posted, forgotten>>

\* The transport, if the reply reaches it, publishes each event of it, once.
Happens(e) ==
  /\ sent[e[1]] > 0 /\ e \notin happened
  /\ happened' = happened \cup {e}
  /\ ready' = [ready EXCEPT ![Message(Router, "event", e)] = @ + 1]
  /\ UNCHANGED <<now, restarts, stage, request, caches, told, sent, dropped, posted,
                 forgotten>>

-------------------------------------------------------------------------------
\* JunebugMessageApi.handle_inbound_message: stored, and then sent on by HTTP;
\* the application may know the message also if the request fails.
TakeInbound(a, x) ==
  /\ Handle(Message(a, "inbound", x), "ending", {})
  /\ inbounds' = [inbounds EXCEPT ![a][x] = now]
  /\ UNCHANGED <<now, restarts, request, outbounds, urls, outcomes, forgotten>>

PostInbound(a, x) ==
  /\ stage[Message(a, "inbound", x)] = "ending"
  /\ told' = told \cup {<<a, x>>}
  /\ UNCHANGED <<now, restarts, queues, request, caches, sent, happened, dropped, posted,
                 forgotten>>

\* Fault: the event's URL is taken out of the cache.
TakeEventTaking(a, e) ==
  LET url == IF Fresh(urls[a][e[1]]) THEN "own" ELSE "default"
  IN  /\ Handle(Message(a, "event", e), "ending", {})
      /\ posted' = posted \cup {[event |-> e, app |-> a, url |-> url]}
      /\ urls' = [urls EXCEPT ![a][e[1]] = None]
      /\ UNCHANGED <<now, restarts, request, outbounds, inbounds, told, sent, happened,
                     dropped, forgotten>>

\* JunebugMessageApi.handle_event: to the URL stored for the message, or to the
\* default one.
TakeEvent(a, e) ==
  LET url == IF Fresh(urls[a][e[1]]) THEN "own" ELSE "default"
  IN  /\ Handle(Message(a, "event", e), "ending", {})
      /\ posted' = posted \cup {[event |-> e, app |-> a, url |-> url]}
      /\ UNCHANGED <<now, restarts, request, caches, told, sent, happened, dropped,
                     forgotten>>

\* http_send_message: the application replies to a message it was sent.
Replying(r, a) == request[r].state = "none" /\ <<a, InReplyTo[r]>> \in told

\* MessageNotFound: also if expired replies are allowed, unless this one names
\* a "to" to send it to.
Refuse(r, a) ==
  /\ Replying(r, a) /\ ~Fresh(inbounds[a][InReplyTo[r]])
  /\ request' = [request EXCEPT ![r] = Asked("not found", a, TRUE)]
  /\ UNCHANGED <<now, restarts, queues, caches, outcomes, forgotten>>

\* The replies whose event_url store_event_http_info keeps.
UrlKept == IF StoreEventInfo THEN WithUrl ELSE {}

\* The request goes on to publish a message; the event's URL is stored before.
Publishing(r, a, reply) ==
  /\ request' = [request EXCEPT ![r] = Asked("publishing", a, reply)]
  /\ urls' = IF r \in UrlKept THEN [urls EXCEPT ![a][r] = now] ELSE urls
  /\ UNCHANGED <<now, restarts, queues, outbounds, inbounds, outcomes, forgotten>>

\* An expired reply may be sent as a message of its own.
Submit(r, a) ==
  LET found == Fresh(inbounds[a][InReplyTo[r]])
  IN  Replying(r, a) /\ (found \/ AllowExpired) /\ Publishing(r, a, found)

\* A message that names no reply_to: the application may post it at any time.
SubmitNew(r, a) == request[r].state = "none" /\ Publishing(r, a, FALSE)

\* basic_publish writes a frame to the broker's connection, and returns: it waits
\* for nothing from the broker.
Publish(r) ==
  /\ request[r].state = "publishing"
  /\ request' = [request EXCEPT ![r].state = "published", ![r].frame = "written"]
  /\ UNCHANGED <<now, restarts, queues, caches, outcomes, forgotten>>

\* The broker has the message sooner or later, whatever became of the request,
BrokerTakes(r) ==
  /\ request[r].frame = "written"
  /\ request' = [request EXCEPT ![r].frame = "taken"]
  /\ ready' = [ready EXCEPT ![Message(Router, "outbound", r)] = @ + 1]
  /\ UNCHANGED <<now, restarts, stage, caches, outcomes, forgotten>>

\* or never: the connection breaks first, or the router has not declared its queue.
BrokerLoses(r) ==
  /\ request[r].frame = "written"
  /\ request' = [request EXCEPT ![r].frame = "lost"]
  /\ UNCHANGED <<now, restarts, queues, caches, outcomes, forgotten>>

Answered(r, state) ==
  /\ request' = [request EXCEPT ![r].state = state]
  /\ UNCHANGED <<now, restarts, queues, caches, outcomes, forgotten>>

SubmitReturns(r) == request[r].state = "published" /\ Answered(r, "submitted")

\* move_on_after: no answer, whether or not the message was sent.
SubmitTimesOut(r) ==
  request[r].state \in {"publishing", "published"} /\ Answered(r, "timed out")

-------------------------------------------------------------------------------
\* Process p starts anew: the broker has back what p did not settle.
Requeue(p) ==
  /\ restarts < MaxRestarts
  /\ restarts' = restarts + 1
  /\ ready' = [q \in Queued |-> IF q.at = p /\ stage[q] # "idle" THEN ready[q] + 1
                                ELSE ready[q]]
  /\ stage' = [q \in Queued |-> IF q.at = p THEN "idle" ELSE stage[q]]

\* Fault: a message is acknowledged before it is handled.
RestartRouterLosing ==
  /\ restarts < MaxRestarts
  /\ restarts' = restarts + 1
  /\ stage' = [q \in Queued |-> IF q.at = Router THEN "idle" ELSE stage[q]]
  /\ outbounds' = [r \in Replies |-> None]
  /\ forgotten' = forgotten \cup {<<Router, r>> : r \in {s \in Replies : outbounds[s] # None}}
  /\ UNCHANGED <<now, ready, request, inbounds, urls, outcomes>>

RestartRouter ==
  /\ Requeue(Router)
  /\ outbounds' = [r \in Replies |-> None]
  /\ forgotten' = forgotten \cup {<<Router, r>> : r \in {s \in Replies : outbounds[s] # None}}
  /\ UNCHANGED <<now, request, inbounds, urls, outcomes>>

RestartApp(a) ==
  /\ Requeue(a)
  /\ inbounds' = [inbounds EXCEPT ![a] = [x \in Inbounds |-> None]]
  /\ urls' = [urls EXCEPT ![a] = [r \in Replies |-> None]]
  /\ forgotten' = forgotten
       \cup {<<a, r>> : r \in {s \in Replies : urls[a][s] # None \/ inbounds[a][InReplyTo[s]] # None}}
  /\ request' = [r \in Replies |->
       IF request[r].app = a /\ request[r].state \in {"publishing", "published"}
       THEN [request[r] EXCEPT !.state = "timed out"] ELSE request[r]]
  /\ UNCHANGED <<now, outbounds, outcomes>>

-------------------------------------------------------------------------------
RouterTask == \/ \E x \in Inbounds : RouteInbound(x)
              \/ \E r \in Replies : StoreOutbound(r) \/ ForwardOutbound(r)
              \/ \E e \in Events : RouteEvent(e)
AppTask(a) == \/ \E x \in Inbounds : TakeInbound(a, x) \/ PostInbound(a, x)
              \/ \E e \in Events : TakeEvent(a, e)

Next == \/ Tick
        \/ RouterTask
        \/ \E a \in Apps : AppTask(a)
        \/ \E q \in Queued : Settle(q)
        \/ \E r \in Replies, a \in Apps : Refuse(r, a) \/ Submit(r, a) \/ SubmitNew(r, a)
        \/ \E r \in Replies : \/ Publish(r) \/ SubmitReturns(r) \/ SubmitTimesOut(r)
                             \/ BrokerTakes(r) \/ BrokerLoses(r)
        \/ \E e \in Events : Happens(e)
        \/ RestartRouter
        \/ \E a \in Apps : RestartApp(a)

Spec == Init /\ [][Next]_vars

-------------------------------------------------------------------------------
\* An event reaches the application that sent the message it is about: the
\* router finds it by the address of the stored reply, where it found it by the
\* address of the inbound message before.
EventsComeHome == \A p \in posted : p.app = request[p.event[1]].app

\* The router drops an event only when it cannot know the message any more:
\* its entry expired, or the router restarted after it was stored ("it will
\* also not survive restarts").
DroppedOnlyIfForgotten ==
  [][\A e \in dropped' \ dropped : Gone(outbounds[e[1]]) \/ <<Router, e[1]>> \in forgotten]_vars

\* An event of a message with an event_url goes there, not to the default URL,
\* "for up to 24 hours", however early it comes and however many there are.
OwnUrlUnlessForgotten ==
  [][\A p \in posted' \ posted :
       LET r == p.event[1]
       IN  r \in UrlKept /\ p.url = "default" =>
             Gone(urls[p.app][r]) \/ <<p.app, r>> \in forgotten]_vars

\* A reply is refused only if the message it replies to has expired, or the
\* application restarted since ("24 hours to reply to a message, after which an
\* error will be returned"): an application cannot reply too early.
RefusedOnlyIfForgotten ==
  [][\A r \in Replies :
       LET app == request'[r].app
       IN  request'[r] # request[r] /\ request'[r].state = "not found" =>
             Gone(inbounds[app][InReplyTo[r]]) \/ <<app, r>> \in forgotten]_vars

\* Once a reply was answered with "message submitted", only the broker can lose it,
\* and only before it has it: it was written to the connection, and what the broker
\* took, whether or not it was answered, was published to the transport or is still
\* to be handled, whenever the router restarts.
OnlyTheBrokerLoses ==
  \A r \in Replies :
    LET q == Message(Router, "outbound", r)
    IN  /\ request[r].state = "submitted" => request[r].frame # "none"
        /\ request[r].frame = "taken" /\ request[r].reply =>
             sent[r] > 0 \/ ready[q] > 0 \/ stage[q] = "stored"
===============================================================================
