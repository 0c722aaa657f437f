---------------------------------- MODULE Turn ----------------------------------
(***************************************************************************)
(* applications.turn_channels_api.TurnChannelsApi: a process between the   *)
(* broker and Turn's HTTP interface, with a message cache in memory.       *)
(*                                                                         *)
(* Inbound messages are posted to Turn, again after a failure, under one   *)
(* time limit.  Turn asks for a message to be sent by POST /messages.  It  *)
(* does not say what the message replies to: the cache is asked for the    *)
(* last message of the recipient.  What happens between a query's first    *)
(* step and the request's next await is one stretch of code: meanwhile     *)
(* only the clock moves.                                                   *)
(***************************************************************************)
EXTENDS MessageCache

CONSTANTS Requests,     \* to POST /messages; also the ids of the messages they make
          Recipients,   \* the addresses they may be for
          Kinds,        \* the events the transport publishes about a message
          MaxRetries,   \* max_retries
          MaxRestarts   \* bound on the restarts of the process

ASSUME TurnAssumption ==
  /\ OutboundIds = Requests /\ None \notin Requests
  /\ Addrs \subseteq Recipients
  /\ Kinds \subseteq {"ack", "nack", "delivery_report"}
  /\ MaxRetries \in Nat /\ MaxRestarts \in Nat

VARIABLES delivery,   \* [state, attempt, taken]: the handler of an inbound message
          told,       \* the inbound messages Turn received
          request,    \* [state, to, reply, built, known]: POST /messages
          happened,   \* the transport's events about them
          posted,     \* the events Turn was sent
          dropped,    \* and those it was not
          restarts

turnVars == <<delivery, told, request, happened, posted, dropped, restarts>>
vars == <<cacheVars, turnVars>>

Events == Requests \X Kinds

Init == /\ CacheInit
        /\ delivery = [m \in Messages |-> [state |-> "queued", attempt |-> 0, taken |-> None]]
        /\ told = {}
        /\ request = [r \in Requests |-> [state |-> "none", to |-> None, reply |-> None,
                                      built |-> None, known |-> {}]]
        /\ happened = {} /\ posted = {} /\ dropped = {} /\ restarts = 0

Clock == Tick /\ UNCHANGED turnVars

Idle == query.state = "idle"

-------------------------------------------------------------------------------
(* handle_inbound_message                                                  *)

Deliver(m, d) ==
  /\ delivery' = [delivery EXCEPT ![m] = d]
  /\ UNCHANGED <<cacheVars, told, request, happened, posted, dropped, restarts>>

\* The message is stored before Turn is told of it.
TakeInbound(m) ==
  /\ Idle /\ delivery[m].state = "queued"
  /\ StoreInbound(m)
  /\ delivery' = [delivery EXCEPT ![m] = [state |-> "posting", attempt |-> 0, taken |-> now]]
  /\ UNCHANGED <<told, request, happened, posted, dropped, restarts>>

TurnReceives(m) ==
  /\ Idle /\ delivery[m].state = "posting"
  /\ told' = told \cup {m}
  /\ UNCHANGED <<cacheVars, delivery, request, happened, posted, dropped, restarts>>

PostSucceeds(m) ==
  /\ Idle /\ delivery[m].state = "posting" /\ m \in told
  /\ Deliver(m, [delivery[m] EXCEPT !.state = "ended"])

\* No connection, no answer or an error, whether or not Turn received it: there is
\* another attempt, after a pause, or the message is nacked.
PostFails(m) ==
  /\ Idle /\ delivery[m].state = "posting"
  /\ Deliver(m, IF delivery[m].attempt < MaxRetries
                THEN [delivery[m] EXCEPT !.attempt = @ + 1]
                ELSE [delivery[m] EXCEPT !.state = "ended"])

\* fail_after is around the whole loop.
TooSlow(m) ==
  /\ Idle /\ delivery[m].state = "posting"
  /\ Deliver(m, [delivery[m] EXCEPT !.state = "ended"])

-------------------------------------------------------------------------------
(* http_send_message                                                       *)

Goes(r, state) == request' = [request EXCEPT ![r].state = state]

\* No reply_to is given.  known is a history component: what Turn knew of and the cache can hold.
Ask(r, to) ==
  /\ Idle /\ request[r].state = "none"
  /\ AskLast(to)
  /\ request' = [request EXCEPT ![r] =
       [state |-> "asking", to |-> to, reply |-> None, built |-> None,
        known |-> {m \in told : delivery[m].taken # None /\ now - delivery[m].taken <= Timeout}]]
  /\ UNCHANGED <<delivery, told, happened, posted, dropped, restarts>>

\* A reply_to is given: the query is skipped, and the name "inbound" has no value
\* when it is used.
AskNamed(r) ==
  /\ Idle /\ request[r].state = "none"
  /\ Goes(r, "error")
  /\ UNCHANGED <<cacheVars, delivery, told, happened, posted, dropped, restarts>>

Query == /\ AskNext \/ AskDone \/ AskFails
         /\ UNCHANGED turnVars

\* The exception of the query is the request's.
QueryRaised(r) ==
  /\ request[r].state = "asking" /\ query.state = "failed"
  /\ Goes(r, "error")
  /\ query' = NoQuery
  /\ UNCHANGED <<now, inbounds, outbounds, delivery, told, happened, posted, dropped, restarts>>

\* Fault: only a message that replies to nothing is stored.
BuildStoresNoReply(r) ==
  /\ request[r].state = "asking" /\ query.state = "done"
  /\ request' = [request EXCEPT ![r].state = "publishing", ![r].reply = query.answer,
                                ![r].built = now]
  /\ query' = NoQuery
  /\ IF query.answer = None THEN StoreOutbound(r) ELSE UNCHANGED outbounds
  /\ UNCHANGED <<now, inbounds, delivery, told, happened, posted, dropped, restarts>>

\* A reply to the message that was found, or a message of its own; it is stored
\* before it is published.
Build(r) ==
  /\ request[r].state = "asking" /\ query.state = "done"
  /\ request' = [request EXCEPT ![r].state = "publishing", ![r].reply = query.answer,
                                ![r].built = now]
  /\ query' = NoQuery
  /\ StoreOutbound(r)
  /\ UNCHANGED <<now, inbounds, delivery, told, happened, posted, dropped, restarts>>

\* The message is written to the connection: from now on the broker may hand it on.
BrokerTakes(r) ==
  /\ Idle /\ request[r].state = "publishing"
  /\ Goes(r, "published")
  /\ UNCHANGED <<cacheVars, delivery, told, happened, posted, dropped, restarts>>

\* The time limit: the message may have gone out.
TimesOut(r) ==
  /\ Idle /\ request[r].state \in {"publishing", "published"}
  /\ Goes(r, IF request[r].state = "published" THEN "sent" ELSE "timed out")
  /\ UNCHANGED <<cacheVars, delivery, told, happened, posted, dropped, restarts>>

PublishReturns(r) ==
  /\ Idle /\ request[r].state = "published"
  /\ Goes(r, "sent")
  /\ UNCHANGED <<cacheVars, delivery, told, happened, posted, dropped, restarts>>

-------------------------------------------------------------------------------
(* Events.                                                                 *)

Happens(e) ==
  /\ Idle /\ request[e[1]].state \in {"published", "sent"}
  /\ e \notin happened
  /\ happened' = happened \cup {e}
  /\ UNCHANGED <<cacheVars, delivery, told, request, posted, dropped, restarts>>

\* The transports set sent_message_id on acks and nacks, to the message's id; a
\* delivery report has none.
SentMessageId(e) == IF e[2] = "delivery_report" THEN None ELSE e[1]

HandleEvent(e) ==
  /\ Idle /\ e \in happened \ (posted \cup dropped)
  /\ CleanOutbound
  /\ IF FetchOutbound(SentMessageId(e)) = None
     THEN dropped' = dropped \cup {e} /\ UNCHANGED posted
     ELSE posted' = posted \cup {e} /\ UNCHANGED dropped
  /\ UNCHANGED <<now, inbounds, query, delivery, told, request, happened, restarts>>

-------------------------------------------------------------------------------
\* The process dies and starts anew without its cache: the broker has back what
\* it did not settle, and what it was publishing may have gone out.
Restart ==
  /\ restarts < MaxRestarts
  /\ restarts' = restarts + 1
  /\ inbounds' = << >> /\ outbounds' = << >> /\ query' = NoQuery
  /\ delivery' = [m \in Messages |->
       [delivery[m] EXCEPT !.state = IF @ = "posting" THEN "queued" ELSE @, !.taken = None]]
  /\ request' = [r \in Requests |->
       [request[r] EXCEPT !.built = None,
          !.state = CASE @ = "asking"     -> "error"
                      [] @ = "publishing" -> "timed out"
                      [] @ = "published"  -> "sent"
                      [] OTHER            -> @]]
  /\ UNCHANGED <<now, told, happened, posted, dropped>>

-------------------------------------------------------------------------------
Next == \/ Clock
        \/ \E m \in Messages :
             \/ TakeInbound(m) \/ TurnReceives(m) \/ PostSucceeds(m)
             \/ PostFails(m) \/ TooSlow(m)
        \/ Query
        \/ \E r \in Requests :
             \/ \E to \in Recipients : Ask(r, to)
             \/ AskNamed(r) \/ QueryRaised(r) \/ Build(r)
             \/ BrokerTakes(r) \/ TimesOut(r) \/ PublishReturns(r)
        \/ \E e \in Events : Happens(e) \/ HandleEvent(e)
        \/ Restart

Spec == Init /\ [][Next]_vars

-------------------------------------------------------------------------------
\* A message to a user Turn has heard from replies to that user's latest message,
\* or to one Turn has yet to hear of ("we plan to infer it based on the last
\* inbound message"), unless all have expired or were forgotten by a restart: what
\* Turn was told, and when, it can rely on.
RepliesToTheLatestTold ==
  [][\A r \in Requests :
       request[r].state = "asking" /\ request'[r].state = "publishing" =>
         LET reply == request'[r].reply
             heard == {m \in request[r].known : m.from = request[r].to}
         IN  /\ reply # None => reply.from = request[r].to
             /\ heard # {} => reply # None /\ \A m \in heard : m.stamp <= reply.stamp]_vars

\* An event about a message that was sent is forwarded to Turn ("events are posted
\* ... after the message is submitted to the provider, and when delivery reports are
\* received"), unless the message has expired from the cache, or was lost with it in
\* a restart.
ForwardedUnlessExpired ==
  [][\A e \in dropped' \ dropped :
       LET built == request[e[1]].built
       IN  built # None => now - built > Timeout]_vars
===============================================================================
