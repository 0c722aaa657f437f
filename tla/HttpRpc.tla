-------------------------------- MODULE HttpRpc --------------------------------
(***************************************************************************)
(* HttpRpcTransport and its subclass AatUssdTransport: an HTTP request is  *)
(* published as an inbound message and held open until an outbound message *)
(* replies to it, its deadline passes, or the client goes away.            *)
(*                                                                         *)
(* The tables of a transport are keyed by the request, so that the ones of *)
(* several transports are modelled as one, and a request and the replies   *)
(* that name it belong to one transport.                                   *)
(*                                                                         *)
(* One task per HTTP request runs inbound_request and one per outbound     *)
(* message runs handle_outbound_message.  Tasks switch only at an await,   *)
(* so an action is the code between two of them.                           *)
(***************************************************************************)
EXTENDS Integers, FiniteSets

CONSTANTS Requests,     \* message ids generated for HTTP requests
          Replies,      \* outbound messages consumed by the transport
          InReplyTo,    \* [Replies -> Requests or None]
          HasContent,   \* [Replies -> BOOLEAN]
          None,
          Aat           \* the requests made to an AatUssdTransport, and not to
                        \* a transport with the base class's handlers

\* What a held request can be answered with, besides a reply's content.
BadRequest == "bad_request"     \* 400
TimedOut   == "timed_out"       \* 504
Failed     == "failed"          \* 500
Gone       == "gone"            \* nobody is there to be answered

ASSUME HttpRpcAssumption ==
  /\ InReplyTo \in [Replies -> Requests \cup {None}]
  /\ None \notin Requests \cup Replies
  /\ HasContent \in [Replies -> BOOLEAN]
  /\ Aat \subseteq Requests
  /\ {BadRequest, TimedOut, Failed, Gone} \cap (Replies \cup {None}) = {}

VARIABLES phase,      \* where each request's task is
          requests,   \* self.requests: the requests that can be finished
          results,    \* self.results: a stored Response, or None
          event,      \* the requests whose event is set
          published,  \* the inbound messages the broker has taken
          answer,     \* what became of each HTTP request
          handler     \* where each outbound message's handler is

vars == <<phase, requests, results, event, published, answer, handler>>

Phases == {"new", "body", "publishing", "checkpoint", "parked", "woken",
           "cancelled", "ended"}
Handlers == {"queued", "acking", "nacking", "unmatched", "acked", "nacked",
             "raised"}

Init == /\ phase = [r \in Requests |-> "new"]
        /\ requests = {}
        /\ results = [r \in Requests |-> None]
        /\ event = {}
        /\ published = {}
        /\ answer = [r \in Requests |-> None]
        /\ handler = [m \in Replies |-> "queued"]

-------------------------------------------------------------------------------
\* Fault: the finished request stays in its table.
FinishRequestKeeps(r, reply) ==
  /\ results' = [results EXCEPT ![r] = reply]
  /\ UNCHANGED requests
  /\ event' = IF r \in requests THEN event \cup {r} ELSE event

\* finish_request(r, reply): the response is stored before the request is looked
\* up, so it stays behind when the lookup raises KeyError.
FinishRequest(r, reply) ==
  /\ results' = [results EXCEPT ![r] = reply]
  /\ requests' = requests \ {r}
  /\ event' = IF r \in requests THEN event \cup {r} ELSE event

\* A task parked in event.wait() is rescheduled by event.set(); from then on
\* neither its deadline nor a cancellation can reach it.
Wake(r) ==
  IF r \in requests /\ phase[r] = "parked"
  THEN phase' = [phase EXCEPT ![r] = "woken"]
  ELSE UNCHANGED phase

\* Fault: the finally clause forgets the results.
CleanupKeepsResult(r) == requests' = requests \ {r} /\ UNCHANGED results

\* The finally clause of inbound_request.
Cleanup(r) == /\ requests' = requests \ {r}
              /\ results' = [results EXCEPT ![r] = None]

End(r, a) == /\ phase' = [phase EXCEPT ![r] = "ended"]
             /\ answer' = [answer EXCEPT ![r] = a]

-------------------------------------------------------------------------------
Arrive(r) ==
  /\ phase[r] = "new"
  /\ phase' = [phase EXCEPT ![r] = "body"]
  /\ UNCHANGED <<requests, results, event, published, answer, handler>>

\* Fault: the message is published before the request is registered.
RegisterLate(r) ==
  /\ phase[r] = "body"
  /\ phase' = [phase EXCEPT ![r] = "publishing"]
  /\ UNCHANGED <<requests, results, event, published, answer, handler>>

\* The body is read: the request is registered and its message published.
Register(r) ==
  /\ phase[r] = "body"
  /\ requests' = requests \cup {r}
  /\ phase' = [phase EXCEPT ![r] = "publishing"]
  /\ UNCHANGED <<results, event, published, answer, handler>>

\* Fault: the invalid request is finished with the wrong response.
RegisterInvalidFails(r) ==
  /\ r \in Aat
  /\ phase[r] = "body"
  /\ results' = [results EXCEPT ![r] = Failed]
  /\ event' = event \cup {r}
  /\ phase' = [phase EXCEPT ![r] = "checkpoint"]
  /\ UNCHANGED <<requests, published, answer, handler>>

\* The same for AAT when a parameter is missing: the request is finished at
\* once and its task finds the event set.
RegisterInvalid(r) ==
  /\ r \in Aat
  /\ phase[r] = "body"
  /\ results' = [results EXCEPT ![r] = BadRequest]
  /\ event' = event \cup {r}
  /\ phase' = [phase EXCEPT ![r] = "checkpoint"]
  /\ UNCHANGED <<requests, published, answer, handler>>

\* publish_inbound: the broker takes the message before the task runs again, so
\* that a reply may be handled in between.
BrokerTakes(r) ==
  /\ phase[r] = "publishing" /\ r \notin published
  /\ published' = published \cup {r}
  /\ UNCHANGED <<phase, requests, results, event, answer, handler>>

\* Fault: the task waits for a signal yet to come, not for an event.
PublishReturnsParks(r) ==
  /\ phase[r] = "publishing" /\ r \in published
  /\ phase' = [phase EXCEPT ![r] = "parked"]
  /\ UNCHANGED <<requests, results, event, published, answer, handler>>

\* event.wait() parks the task, or is a mere checkpoint if the event is set.
PublishReturns(r) ==
  /\ phase[r] = "publishing" /\ r \in published
  /\ phase' = [phase EXCEPT ![r] = IF r \in event THEN "checkpoint" ELSE "parked"]
  /\ UNCHANGED <<requests, results, event, published, answer, handler>>

\* The connection fails under the publish, whether or not the broker has it.
PublishRaises(r) ==
  /\ phase[r] = "publishing"
  /\ Cleanup(r)
  /\ End(r, Failed)
  /\ UNCHANGED <<event, published, handler>>

Cancellable == {"body", "publishing", "checkpoint", "parked"}

\* Fault: the time limit covers the wait for the event only.
DeadlineOfWait(r) ==
  /\ phase[r] \in {"checkpoint", "parked"}
  /\ phase' = [phase EXCEPT ![r] = "cancelled"]
  /\ answer' = [answer EXCEPT ![r] = TimedOut]
  /\ UNCHANGED <<requests, results, event, published, handler>>

\* move_on_after's deadline passes, or the server cancels the task because the
\* client closed the connection.  The task will only run later.
Deadline(r) ==
  /\ phase[r] \in Cancellable
  /\ phase' = [phase EXCEPT ![r] = "cancelled"]
  /\ answer' = [answer EXCEPT ![r] = TimedOut]
  /\ UNCHANGED <<requests, results, event, published, handler>>

Disconnect(r) ==
  /\ phase[r] \in Cancellable
  /\ phase' = [phase EXCEPT ![r] = "cancelled"]
  /\ answer' = [answer EXCEPT ![r] = Gone]
  /\ UNCHANGED <<requests, results, event, published, handler>>

Unwind(r) ==
  /\ phase[r] = "cancelled"
  /\ Cleanup(r)
  /\ End(r, answer[r])
  /\ UNCHANGED <<event, published, handler>>

\* self.results.pop(message_id): KeyError, hence a 500, if there is none.
Respond(r) ==
  /\ phase[r] \in {"checkpoint", "woken"}
  /\ End(r, IF results[r] = None THEN Failed ELSE results[r])
  /\ Cleanup(r)
  /\ UNCHANGED <<event, published, handler>>

-------------------------------------------------------------------------------
\* An application replies to a message it has been given.
Consumable(m) == /\ handler[m] = "queued"
                 /\ InReplyTo[m] \in published \cup {None}

IsReply(m) == InReplyTo[m] # None /\ HasContent[m]

Go(m, s) == handler' = [handler EXCEPT ![m] = s]

RejectIncomplete(m) ==
  /\ Consumable(m) /\ ~IsReply(m)
  /\ Go(m, "nacking")
  /\ UNCHANGED <<phase, requests, results, event, published, answer>>

\* The base class checks that the request is still open; AAT does not.
RejectUnmatched(m) ==
  /\ Consumable(m) /\ IsReply(m)
  /\ InReplyTo[m] \notin requests \cup Aat
  /\ Go(m, "unmatched")
  /\ UNCHANGED <<phase, requests, results, event, published, answer>>

\* Fault: the base class does not look the request up first either.
ReplyUnchecked(m) ==
  /\ Consumable(m) /\ IsReply(m)
  /\ FinishRequest(InReplyTo[m], m)
  /\ Wake(InReplyTo[m])
  /\ Go(m, IF InReplyTo[m] \in requests THEN "acking" ELSE "raised")
  /\ UNCHANGED <<published, answer>>

Reply(m) ==
  /\ Consumable(m) /\ IsReply(m)
  /\ InReplyTo[m] \in requests \cup Aat
  /\ FinishRequest(InReplyTo[m], m)
  /\ Wake(InReplyTo[m])
  /\ Go(m, IF InReplyTo[m] \in requests THEN "acking" ELSE "raised")
  /\ UNCHANGED <<published, answer>>

\* publish_ack or publish_nack returns.
EventPublished(m) ==
  /\ handler[m] \in {"acking", "nacking", "unmatched"}
  /\ Go(m, IF handler[m] = "acking" THEN "acked" ELSE "nacked")
  /\ UNCHANGED <<phase, requests, results, event, published, answer>>

-------------------------------------------------------------------------------
RequestTask(r) == \/ Arrive(r)
                  \/ Register(r)
                  \/ RegisterInvalid(r)
                  \/ BrokerTakes(r)
                  \/ PublishReturns(r)
                  \/ PublishRaises(r)
                  \/ Deadline(r)
                  \/ Disconnect(r)
                  \/ Unwind(r)
                  \/ Respond(r)

OutboundHandler(m) == \/ RejectIncomplete(m)
                      \/ RejectUnmatched(m)
                      \/ Reply(m)
                      \/ EventPublished(m)

Next == \/ \E r \in Requests : RequestTask(r)
        \/ \E m \in Replies : OutboundHandler(m)

Spec == Init /\ [][Next]_vars

\* Deadlines pass and the scheduler runs every runnable task.  Nothing is assumed
\* of clients, applications or the broker.
Fairness == \A r \in Requests : /\ WF_vars(Deadline(r))
                                /\ WF_vars(Unwind(r))
                                /\ WF_vars(Respond(r))

FairSpec == Spec /\ Fairness

-------------------------------------------------------------------------------
Answers == Replies \cup {None, BadRequest, TimedOut, Failed, Gone}

\* Every table holds what the source's annotations say.
TypeOK == /\ phase \in [Requests -> Phases]
          /\ requests \subseteq Requests
          /\ results \in [Requests -> Replies \cup {None, BadRequest}]
          /\ event \subseteq Requests
          /\ published \subseteq Requests
          /\ answer \in [Requests -> Answers]
          /\ handler \in [Replies -> Handlers]

Open(r) == phase[r] \notin {"new", "body", "ended"}

Leftovers == requests \cup {r \in Requests : results[r] # None}

\* Once a request is over nothing of it is left in either table, whatever
\* replies arrived before, during or after its end ("Clean up any unprocessed
\* requests or results to not leak memory").
NoLeak == \A r \in Leftovers : Open(r)

\* That is so of the base class, which looks a request up before it finishes it.
BaseNoLeak == \A r \in Leftovers \ Aat : Open(r)

Accepted(m) == handler[m] \in {"acking", "acked"}

\* At most one reply to a request is acknowledged, whichever handlers race.
OneAckPerRequest ==
  \A m, n \in Replies :
    Accepted(m) /\ Accepted(n) /\ InReplyTo[m] = InReplyTo[n] => m = n

\* A client of the base class that got a reply got the one that was acknowledged:
\* a second reply, handled before the first has left, does not take its place.
\* (Failed: the publish raised while the reply was being handled.)
AckedReplyIsTheAnswer ==
  \A m \in Replies :
    Accepted(m) /\ InReplyTo[m] \notin Aat =>
      answer[InReplyTo[m]] \in {None, m, TimedOut, Gone, Failed}

\* A reply is turned down as unmatched only when its request can no longer use
\* it: another reply finished it, or its task is over.
UnmatchedOnlyWhenSettled ==
  \A m \in Replies :
    handler[m] = "unmatched" =>
      InReplyTo[m] \in event \/ phase[InReplyTo[m]] = "ended"

\* No task that waits for a reply has one: a finished request is always woken.
\* And a task that was promised a response finds it.
NoLostWakeup ==
  \A r \in Requests :
    /\ phase[r] = "parked" => r \notin event /\ r \in requests
    /\ phase[r] \in {"checkpoint", "woken"} => results[r] # None

\* Every HTTP request that arrives ends, with or without help from the broker,
\* the application or the client.
EveryRequestEnds ==
  \A r \in Requests : phase[r] = "body" ~> phase[r] = "ended"
===============================================================================
