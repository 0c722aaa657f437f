------------------------------- MODULE Connectors -------------------------------
(***************************************************************************)
(* One worker process and its broker: the Consumers and Publishers of its  *)
(* connectors (connectors.py), set up one by one, started together by      *)
(* start_consuming and closed by ConnectorCollection.aclose.               *)
(*                                                                         *)
(* A message of a consumer's queue passes through these states:            *)
(*   ready      in the broker's queue                                      *)
(*   buffered   in the consumer's memory channel                           *)
(*   stranded   delivered to a closing consumer, which ignores it          *)
(*   handling   its handler runs and has not published yet                 *)
(*   replied    its handler runs and has published                         *)
(*   acking, nacking    the handler ended, the ack or nack is on its way   *)
(*   acked, nacked      the broker has it, the worker task has not resumed *)
(*   done, discarded    settled, and its worker task is free again         *)
(* A worker task handles one message at a time, so the tasks need no       *)
(* identity: those of a consumer that are busy are its messages in the     *)
(* handling ... nacked states.                                             *)
(***************************************************************************)
EXTENDS Integers, FiniteSets, Sequences

CONSTANTS Consumers, Publishers, Messages,
          Queue,          \* [Messages -> Consumers]: the queue a message is sent to
          Concurrency,    \* worker_concurrency: prefetch, buffer and tasks alike
          Setup,          \* the steps of the worker's setup, in order: a publisher is
                          \* opened, a consumer created, or something of its own
          MayFailAt,      \* after how many steps setup may raise; one more than there
                          \* are stands for start_consuming
          MaxCrashes      \* bound on the crashes of the process

ASSUME ConnectorsAssumption ==
  /\ Queue \in [Messages -> Consumers]
  /\ Concurrency \in Nat \ {0}
  /\ LET taken == {Setup[i] : i \in DOMAIN Setup}
     IN  Setup \in Seq(taken) /\ Consumers \cup Publishers \subseteq taken
  /\ MayFailAt \subseteq 0 .. Len(Setup) + 1
  /\ MaxCrashes \in Nat
  /\ IsFiniteSet(Messages)

VARIABLES msg,        \* where each message is
          steps,      \* how many steps of the setup were taken
          startup,    \* how far each Consumer.start is
          active,     \* Consumer._active_consumers
          closing,    \* Consumer._closing
          closed,     \* Consumer._closed
          channel,    \* the consumers whose AMQP channel consumes
          open,       \* the publishers whose channel is open
          worker,     \* how far the worker's setup or aclose is
          crashes

procVars == <<steps, startup, active, closing, closed, channel, open, worker>>
vars == <<msg, procVars, crashes>>

Busy      == {"handling", "replied", "acking", "nacking", "acked", "nacked"}
Unsettled == {"buffered", "stranded", "handling", "replied", "acking", "nacking"}
MsgStates == {"ready", "buffered", "stranded", "done", "discarded"} \cup Busy

In(c, S)  == {m \in Messages : Queue[m] = c /\ msg[m] \in S}
Running(m) == msg[m] \in {"handling", "replied"}

\* What the setup has set up so far, and the consumers among it.
SetUp == {Setup[i] : i \in 1 .. steps}
Created == Consumers \cap SetUp

ProcInit == /\ steps = 0
            /\ startup = [c \in Consumers |-> "no"]
            /\ active = [c \in Consumers |-> 0]
            /\ closing = {}
            /\ closed = {}
            /\ channel = {}
            /\ open = {}
            /\ worker = "setup"

Init == /\ msg = [m \in Messages |-> "ready"]
        /\ ProcInit
        /\ crashes = 0

Move(m, s) == msg' = [msg EXCEPT ![m] = s]

-------------------------------------------------------------------------------
(* Start-up.                                                               *)

\* _setup_publisher opens a channel, _setup_consumer makes a consumer that is
\* started later.
SetupStep ==
  /\ worker = "setup" /\ steps < Len(Setup)
  /\ steps' = steps + 1
  /\ open' = open \cup (Publishers \cap {Setup[steps + 1]})
  /\ UNCHANGED <<msg, startup, active, closing, closed, channel, worker, crashes>>

\* Fault: the consumers there are, are started as soon as there are some.
StartConsumingEarly ==
  /\ worker = "setup" /\ Created # {}
  /\ worker' = "starting"
  /\ startup' = [c \in Consumers |-> IF c \in Created THEN "declaring" ELSE "no"]
  /\ UNCHANGED <<msg, steps, active, closing, closed, channel, open, crashes>>

\* The last step of every worker's setup: Consumer.start in a task for each
\* consumer of each connector.
StartConsuming ==
  /\ worker = "setup" /\ steps = Len(Setup)
  /\ worker' = "starting"
  /\ startup' = [c \in Consumers |-> IF c \in Created THEN "declaring" ELSE "no"]
  /\ UNCHANGED <<msg, steps, active, closing, closed, channel, open, crashes>>

\* All the starts have returned, and with them the worker's setup.
Started ==
  /\ worker = "starting" /\ \A c \in Created : startup[c] = "started"
  /\ worker' = "up"
  /\ UNCHANGED <<msg, steps, startup, active, closing, closed, channel, open, crashes>>

\* An exception in the setup, or the keyboard: the starts under way are cancelled,
\* and the worker is closed.
SetupRaises ==
  /\ \/ worker = "setup" /\ steps \in MayFailAt
     \/ worker = "starting" /\ Len(Setup) + 1 \in MayFailAt
  /\ worker' = "closing consumers"
  /\ startup' = [c \in Consumers |->
                   IF startup[c] = "declaring" THEN "cancelled" ELSE startup[c]]
  /\ UNCHANGED <<msg, steps, active, closing, closed, channel, open, crashes>>

\* basic_consume reaches the broker, after the prefetch limit was set; messages
\* may arrive before it returns.
Consume(c) ==
  /\ startup[c] = "declaring" /\ c \notin channel
  /\ channel' = channel \cup {c}
  /\ UNCHANGED <<msg, steps, startup, active, closing, closed, open, worker, crashes>>

SpawnWorkers(c) ==
  /\ startup[c] = "declaring" /\ c \in channel
  /\ startup' = [startup EXCEPT ![c] = "started"]
  /\ active' = [active EXCEPT ![c] = Concurrency]
  /\ UNCHANGED <<msg, steps, closing, closed, channel, open, worker, crashes>>

-------------------------------------------------------------------------------
(* Consumption.                                                            *)

\* Fault: what arrives before the tasks were spawned is ignored.
DeliverOnceStarted(m) == LET c == Queue[m] IN
  /\ msg[m] = "ready"
  /\ c \in channel /\ Cardinality(In(c, Unsettled)) < Concurrency
  /\ Move(m, IF c \in closing \/ startup[c] # "started" THEN "stranded" ELSE "buffered")
  /\ UNCHANGED <<procVars, crashes>>

\* The broker delivers while fewer than prefetch_count messages are unsettled;
\* queue_message buffers the message unless the consumer is closing.
Deliver(m) == LET c == Queue[m] IN
  /\ msg[m] = "ready"
  /\ c \in channel /\ Cardinality(In(c, Unsettled)) < Concurrency
  /\ Move(m, IF c \in closing THEN "stranded" ELSE "buffered")
  /\ UNCHANGED <<procVars, crashes>>

\* An idle task takes a message from the memory channel, closing or not.
Take(m) == LET c == Queue[m] IN
  /\ msg[m] = "buffered"
  /\ Cardinality(In(c, Busy)) < active[c]
  /\ Move(m, "handling")
  /\ UNCHANGED <<procVars, crashes>>

\* The handler publishes; on a closed channel that raises, and the message is
\* nacked like after any exception of the handler.
Publish(m, p) ==
  /\ msg[m] = "handling"
  /\ Move(m, IF p \in open THEN "replied" ELSE "nacking")
  /\ UNCHANGED <<procVars, crashes>>

HandlerReturns(m) ==
  /\ Running(m)
  /\ Move(m, "acking")
  /\ UNCHANGED <<procVars, crashes>>

HandlerRaises(m) ==
  /\ Running(m)
  /\ Move(m, "nacking")
  /\ UNCHANGED <<procVars, crashes>>

BrokerSettles(m) ==
  /\ msg[m] \in {"acking", "nacking"}
  /\ Move(m, IF msg[m] = "acking" THEN "acked" ELSE "nacked")
  /\ UNCHANGED <<procVars, crashes>>

WorkerResumes(m) ==
  /\ msg[m] \in {"acked", "nacked"}
  /\ Move(m, IF msg[m] = "acked" THEN "done" ELSE "discarded")
  /\ UNCHANGED <<procVars, crashes>>

-------------------------------------------------------------------------------
(* Shutdown.                                                               *)

\* BaseWorker.aclose, called on a running worker.
Shutdown ==
  /\ worker = "up"
  /\ worker' = "closing consumers"
  /\ UNCHANGED <<msg, steps, startup, active, closing, closed, channel, open, crashes>>

\* The first half of Consumer.aclose: the sending end is closed.
CloseConsumer(c) ==
  /\ worker = "closing consumers" /\ c \in Created \ closing
  /\ closing' = closing \cup {c}
  /\ UNCHANGED <<msg, steps, startup, active, closed, channel, open, worker, crashes>>

\* Fault: the first task that stops sets _closed.
FirstExitCloses(c) ==
  /\ c \in closing /\ In(c, {"buffered"}) = {}
  /\ active[c] > Cardinality(In(c, Busy))
  /\ active' = [active EXCEPT ![c] = @ - 1]
  /\ closed' = closed \cup {c}
  /\ UNCHANGED <<msg, steps, startup, closing, channel, open, worker, crashes>>

\* Fault: the counter is tested before it is decremented.
ExitTestsFirst(c) ==
  /\ c \in closing /\ In(c, {"buffered"}) = {}
  /\ active[c] > Cardinality(In(c, Busy))
  /\ active' = [active EXCEPT ![c] = @ - 1]
  /\ closed' = IF active[c] = 0 THEN closed \cup {c} ELSE closed
  /\ UNCHANGED <<msg, steps, startup, closing, channel, open, worker, crashes>>

\* An idle task finds the memory channel closed and empty; the last one to stop
\* sets _closed.
WorkerExits(c) ==
  /\ c \in closing /\ In(c, {"buffered"}) = {}
  /\ active[c] > Cardinality(In(c, Busy))
  /\ active' = [active EXCEPT ![c] = @ - 1]
  /\ closed' = IF active[c] = 1 THEN closed \cup {c} ELSE closed
  /\ UNCHANGED <<msg, steps, startup, closing, channel, open, worker, crashes>>

\* Fault: the channel is closed without waiting for _closed.
CloseChannelAtOnce(c) ==
  /\ c \in closing /\ c \in channel
  /\ channel' = channel \ {c}
  /\ msg' = [m \in Messages |->
               IF Queue[m] = c /\ msg[m] \in Unsettled THEN "ready" ELSE msg[m]]
  /\ UNCHANGED <<steps, startup, active, closing, closed, open, worker, crashes>>

\* The second half: the AMQP channel is closed, and the broker takes back what
\* it delivered on it and was not settled.
CloseChannel(c) ==
  /\ c \in closing /\ c \in closed /\ c \in channel
  /\ channel' = channel \ {c}
  /\ msg' = [m \in Messages |->
               IF Queue[m] = c /\ msg[m] \in Unsettled THEN "ready" ELSE msg[m]]
  /\ UNCHANGED <<steps, startup, active, closing, closed, open, worker, crashes>>

\* Fault: the publishers follow the first consumer, not the last.
SomeConsumerClosed ==
  /\ worker = "closing consumers"
  /\ \E c \in Consumers : c \in closed /\ c \notin channel
  /\ worker' = "closing publishers"
  /\ UNCHANGED <<msg, steps, startup, active, closing, closed, channel, open, crashes>>

\* The nursery of all the aclose_consumers calls is left.
ConsumersClosed ==
  /\ worker = "closing consumers"
  /\ \A c \in Created : c \in closed /\ c \notin channel
  /\ worker' = "closing publishers"
  /\ UNCHANGED <<msg, steps, startup, active, closing, closed, channel, open, crashes>>

ClosePublisher(p) ==
  /\ worker = "closing publishers" /\ p \in open
  /\ open' = open \ {p}
  /\ UNCHANGED <<msg, steps, startup, active, closing, closed, channel, worker, crashes>>

PublishersClosed ==
  /\ worker = "closing publishers" /\ open = {}
  /\ worker' = "down"
  /\ UNCHANGED <<msg, steps, startup, active, closing, closed, channel, open, crashes>>

\* The process dies and is started again: the broker requeues what it had not
\* been told to settle.
Crash ==
  /\ crashes < MaxCrashes /\ worker # "down"
  /\ crashes' = crashes + 1
  /\ msg' = [m \in Messages |->
               CASE msg[m] \in Unsettled -> "ready"
                 [] msg[m] = "acked"     -> "done"
                 [] msg[m] = "nacked"    -> "discarded"
                 [] OTHER                -> msg[m]]
  /\ steps' = 0
  /\ startup' = [c \in Consumers |-> "no"]
  /\ active' = [c \in Consumers |-> 0]
  /\ closing' = {} /\ closed' = {} /\ channel' = {}
  /\ open' = {}
  /\ worker' = "setup"

-------------------------------------------------------------------------------
Consumer(c) == Consume(c) \/ SpawnWorkers(c) \/ WorkerExits(c) \/ CloseChannel(c)
Handling(m) == \/ Deliver(m) \/ Take(m) \/ HandlerReturns(m)
               \/ BrokerSettles(m) \/ WorkerResumes(m)

Next == \/ SetupStep \/ StartConsuming \/ Started
        \/ SetupRaises
        \/ \E c \in Consumers : Consumer(c) \/ CloseConsumer(c)
        \/ \E m \in Messages : Handling(m) \/ HandlerRaises(m)
        \/ \E m \in Messages, p \in Publishers : Publish(m, p)
        \/ Shutdown
        \/ ConsumersClosed
        \/ \E p \in Publishers : ClosePublisher(p)
        \/ PublishersClosed
        \/ Crash

Spec == Init /\ [][Next]_vars

-------------------------------------------------------------------------------
\* Every table holds what it can hold.
TypeOK == /\ msg \in [Messages -> MsgStates]
          /\ steps \in 0 .. Len(Setup)
          /\ startup \in [Consumers -> {"no", "declaring", "started", "cancelled"}]
          /\ active \in [Consumers -> 0 .. Concurrency]
          /\ closing \subseteq Consumers /\ closed \subseteq Consumers
          /\ channel \subseteq Consumers
          /\ open \subseteq Publishers
          /\ worker \in {"setup", "starting", "up", "closing consumers",
                         "closing publishers", "down"}
          /\ crashes \in 0 .. MaxCrashes

\* While any handler runs, on any connector, every publisher of the worker can
\* publish: "all connectors must be set up and available to publish before any
\* messages are consumed", and publishers are closed "only after closing consumers
\* on all connectors".
HandlersCanPublish ==
  \A m \in Messages : Running(m) => open = Publishers

\* A consumer is reported closed when nothing of it is left in memory: no
\* buffered message, no handler, no ack under way.
ClosedIsDrained ==
  \A c \in closed : In(c, Busy \cup {"buffered"}) = {} /\ active[c] = 0

\* An orderly shutdown hands back only what it never took: a message goes from
\* this process's hands to the queue again only if it was ignored while
\* closing, or by a crash.
ShutdownFinishesWhatItTook ==
  [][crashes' = crashes =>
       \A m \in Messages :
         msg[m] # "ready" /\ msg'[m] = "ready" => msg[m] = "stranded"]_vars
===============================================================================
