------------------------------ MODULE WorkerProofs ------------------------------
(***************************************************************************)
(* Proofs about Connectors and about Worker, for every set of consumers,   *)
(* publishers and messages, every concurrency and every setup.             *)
(*                                                                         *)
(* Of the connectors, the heart is BusyInv: a consumer has at most as many *)
(* messages in the hands of its tasks as it has tasks.  A consumer is      *)
(* closed when its last task stops, so that it has none then; publishers   *)
(* are closed when every consumer is.                                      *)
(*                                                                         *)
(* The process takes the steps of its connectors and others that leave     *)
(* those alone, so that it implements their specification and has their    *)
(* properties; WInv adds what its server and its requests need.            *)
(***************************************************************************)
EXTENDS Worker, FiniteSetTheorems, TLAPS

-------------------------------------------------------------------------------
(* The connectors.                                                         *)

\* No more messages are being handled than there are tasks.
BusyInv == \A c \in Consumers : Cardinality(In(c, Busy)) <= active[c]

\* How far a consumer's start is says what there can be of it, and of the setup.
StartInv ==
  \A c \in Consumers :
    /\ startup[c] = "no" => c \notin channel /\ In(c, Unsettled \cup Busy) = {}
    /\ startup[c] # "no" => steps = Len(Setup) /\ worker # "setup"
    /\ startup[c] # "started" => active[c] = 0
    /\ startup[c] = "declaring" => worker = "starting"

\* A closed consumer is one that was closing, and has nothing left.
DrainInv == closed \subseteq closing /\ ClosedIsDrained

\* How far the worker is says which channels are open.
PhaseInv ==
  /\ worker \in {"starting", "up"} => steps = Len(Setup)
  /\ worker \in {"setup", "starting", "up"} => closing = {}
  /\ worker \in {"setup", "starting", "up", "closing consumers"}
       => open = Publishers \cap SetUp
  /\ worker \in {"closing publishers", "down"} => Created \subseteq closed \ channel
  /\ worker = "down" => open = {}

CInv == /\ TypeOK
        /\ BusyInv
        /\ StartInv
        /\ DrainInv
        /\ PhaseInv

-------------------------------------------------------------------------------
(* Facts about sets of messages and about a finished setup.                *)

\* The sizes are natural numbers.
LEMMA Sizes ==
  /\ Concurrency \in Nat \ {0}
  /\ Len(Setup) \in Nat
  /\ MaxCrashes \in Nat
BY ConnectorsAssumption

LEMMA CountsAreNumbers ==
  ASSUME TypeOK
  PROVE  /\ \A c \in Consumers : active[c] \in Nat
         /\ crashes \in Nat
<1>1. /\ \A c \in Consumers : active[c] \in 0 .. Concurrency
      /\ crashes \in 0 .. MaxCrashes
  BY DEF TypeOK
<1> QED
  BY <1>1, Sizes

\* The messages of a consumer in given states are finitely many.
LEMMA InIsFinite ==
  ASSUME NEW c \in Consumers, NEW S
  PROVE  IsFiniteSet(In(c, S)) /\ Cardinality(In(c, S)) \in Nat
<1>1. In(c, S) \in SUBSET Messages
  BY DEF In
<1>2. IsFiniteSet(In(c, S))
  BY <1>1, FS_Subset, ConnectorsAssumption
<1> QED
  BY <1>2, FS_CardinalityType

\* Where no message goes to a consumer's tasks, those that are busy become no more.
LEMMA NoMoreBusy ==
  ASSUME NEW c \in Consumers, In(c, Busy)' \subseteq In(c, Busy)
  PROVE  Cardinality(In(c, Busy)') <= Cardinality(In(c, Busy))
<1>1. In(c, Busy)' \in SUBSET In(c, Busy)
  OBVIOUS
<1>2. IsFiniteSet(In(c, Busy))
  BY InIsFinite
<1> QED
  BY <1>1, <1>2, FS_Subset

\* A consumer without tasks has no busy message.
LEMMA IdleWithoutTasks ==
  ASSUME CInv, NEW c \in Consumers, active[c] = 0
  PROVE  In(c, Busy) = {}
<1>1. Cardinality(In(c, Busy)) \in Nat /\ IsFiniteSet(In(c, Busy))
  BY InIsFinite
<1>2. Cardinality(In(c, Busy)) <= 0
  BY DEF CInv, BusyInv
<1>3. Cardinality(In(c, Busy)) = 0
  BY <1>1, <1>2
<1> QED
  BY <1>1, <1>3, FS_EmptySet

\* A finished setup has set up everything.
LEMMA AllSetUp ==
  ASSUME steps = Len(Setup)
  PROVE  Consumers \cup Publishers \subseteq SetUp
<1> DEFINE taken == {Setup[i] : i \in DOMAIN Setup}
<1>1. Setup \in Seq(taken) /\ Consumers \cup Publishers \subseteq taken
  BY ConnectorsAssumption
<1>2. DOMAIN Setup = 1 .. Len(Setup)
  BY <1>1
<1> QED
  BY <1>1, <1>2 DEF SetUp

\* A consumer with a busy message was started, and is not closed.
LEMMA BusyIsUp ==
  ASSUME CInv, NEW m \in Messages, msg[m] \in Busy
  PROVE  /\ Queue[m] \in Consumers
         /\ active[Queue[m]] # 0
         /\ startup[Queue[m]] = "started"
         /\ steps = Len(Setup)
         /\ Queue[m] \notin closed
<1>1. Queue[m] \in Consumers
  BY ConnectorsAssumption
<1>2. m \in In(Queue[m], Busy)
  BY DEF In
<1>3. active[Queue[m]] # 0
  BY <1>1, <1>2, IdleWithoutTasks
<1> QED
  BY <1>1, <1>3 DEF CInv, StartInv, DrainInv, ClosedIsDrained

-------------------------------------------------------------------------------
(* Start-up.                                                               *)

LEMMA InitEstablishes == Init => CInv
<1> SUFFICES ASSUME Init PROVE CInv
  OBVIOUS
<1> USE DEF Init, ProcInit
<1>1. TypeOK
  <2>1. Len(Setup) \in Nat
    BY ConnectorsAssumption
  <2> QED
    BY <2>1, ConnectorsAssumption DEF TypeOK, MsgStates
<1>2. BusyInv
  <2>1. ASSUME NEW c \in Consumers PROVE In(c, Busy) = {}
    BY DEF In, Busy
  <2> QED
    BY <2>1, FS_EmptySet DEF BusyInv
<1>3. StartInv
  BY DEF StartInv, In, Unsettled, Busy
<1>4. DrainInv /\ PhaseInv
  BY DEF DrainInv, ClosedIsDrained, PhaseInv, SetUp
<1> QED
  BY <1>1, <1>2, <1>3, <1>4 DEF CInv

LEMMA SetupStepPreserves ==
  ASSUME CInv, SetupStep
  PROVE  CInv'
<1>1. Len(Setup) \in Nat
  BY ConnectorsAssumption
<1>2. TypeOK'
  BY <1>1 DEF CInv, TypeOK, SetupStep
<1>3. SetUp' = SetUp \cup {Setup[steps + 1]}
  BY <1>1 DEF CInv, TypeOK, SetupStep, SetUp
<1>4. StartInv'
  BY DEF CInv, SetupStep, StartInv, In
<1>5. PhaseInv'
  BY <1>3 DEF CInv, SetupStep, PhaseInv
<1>6. BusyInv' /\ DrainInv'
  BY DEF CInv, SetupStep, BusyInv, DrainInv, ClosedIsDrained, In
<1> QED
  BY <1>2, <1>4, <1>5, <1>6 DEF CInv

LEMMA StartConsumingPreserves ==
  ASSUME CInv, StartConsuming
  PROVE  CInv'
<1>1. TypeOK'
  BY DEF CInv, TypeOK, StartConsuming
<1>2. StartInv'
  <2>1. Created = Consumers
    BY AllSetUp DEF StartConsuming, Created
  <2> QED
    BY <2>1 DEF CInv, StartConsuming, StartInv, In, TypeOK
<1>3. PhaseInv'
  BY DEF CInv, StartConsuming, PhaseInv, SetUp
<1>4. BusyInv' /\ DrainInv'
  BY DEF CInv, StartConsuming, BusyInv, DrainInv, ClosedIsDrained, In
<1> QED
  BY <1>1, <1>2, <1>3, <1>4 DEF CInv

LEMMA StartedPreserves ==
  ASSUME CInv, Started
  PROVE  CInv'
<1>1. TypeOK'
  BY DEF CInv, TypeOK, Started
<1>2. StartInv'
  <2>1. Created = Consumers
    BY AllSetUp DEF Started, Created, CInv, PhaseInv
  <2> QED
    BY <2>1 DEF CInv, Started, StartInv, In
<1>3. PhaseInv'
  BY DEF CInv, Started, PhaseInv, SetUp
<1>4. BusyInv' /\ DrainInv'
  BY DEF CInv, Started, BusyInv, DrainInv, ClosedIsDrained, In
<1> QED
  BY <1>1, <1>2, <1>3, <1>4 DEF CInv

LEMMA SetupRaisesPreserves ==
  ASSUME CInv, SetupRaises
  PROVE  CInv'
<1>1. TypeOK'
  BY DEF CInv, TypeOK, SetupRaises
<1>2. StartInv'
  BY DEF CInv, SetupRaises, StartInv, In, TypeOK
<1>3. PhaseInv'
  BY DEF CInv, SetupRaises, PhaseInv, SetUp
<1>4. BusyInv' /\ DrainInv'
  BY DEF CInv, SetupRaises, BusyInv, DrainInv, ClosedIsDrained, In
<1> QED
  BY <1>1, <1>2, <1>3, <1>4 DEF CInv

LEMMA ConsumePreserves ==
  ASSUME CInv, NEW c \in Consumers, Consume(c)
  PROVE  CInv'
<1>1. TypeOK'
  BY DEF CInv, TypeOK, Consume
<1>2. StartInv'
  BY DEF CInv, Consume, StartInv, In
<1>3. PhaseInv'
  BY DEF CInv, Consume, PhaseInv, StartInv, SetUp
<1>4. BusyInv' /\ DrainInv'
  BY DEF CInv, Consume, BusyInv, DrainInv, ClosedIsDrained, In
<1> QED
  BY <1>1, <1>2, <1>3, <1>4 DEF CInv

LEMMA SpawnWorkersPreserves ==
  ASSUME CInv, NEW c \in Consumers, SpawnWorkers(c)
  PROVE  CInv'
<1>1. worker = "starting" /\ closed = {} /\ active[c] = 0
  BY DEF CInv, SpawnWorkers, StartInv, PhaseInv, DrainInv
<1>2. TypeOK'
  <2>1. Concurrency \in 0 .. Concurrency
    BY Sizes
  <2>2. active' \in [Consumers -> 0 .. Concurrency]
    BY <2>1 DEF CInv, TypeOK, SpawnWorkers
  <2> QED
    BY <2>2 DEF CInv, TypeOK, SpawnWorkers
<1>3. BusyInv'
  <2> SUFFICES ASSUME NEW d \in Consumers
               PROVE  Cardinality(In(d, Busy)') <= active'[d]
    BY DEF BusyInv
  <2>1. In(d, Busy)' = In(d, Busy) /\ active[d] <= active'[d]
    BY <1>1, Sizes DEF SpawnWorkers, In, CInv, TypeOK
  <2>2. Cardinality(In(d, Busy)) <= active[d] /\ Cardinality(In(d, Busy)) \in Nat
    BY InIsFinite DEF CInv, BusyInv
  <2>3. active[d] \in Int /\ active'[d] \in Int
    <3>1. active[d] \in 0 .. Concurrency /\ active'[d] \in 0 .. Concurrency
      BY <1>2 DEF CInv, TypeOK
    <3> QED
      BY <3>1, Sizes
  <2> QED
    BY <2>1, <2>2, <2>3
<1>4. StartInv'
  BY <1>1 DEF CInv, SpawnWorkers, StartInv, In, TypeOK
<1>5. PhaseInv' /\ DrainInv'
  BY <1>1 DEF CInv, SpawnWorkers, PhaseInv, DrainInv, ClosedIsDrained, SetUp, Created
<1> QED
  BY <1>2, <1>3, <1>4, <1>5 DEF CInv

-------------------------------------------------------------------------------
(* Consumption.                                                            *)

\* A busy message that moves on, or is done with, leaves the rest alone.
LEMMA BusyMovesOn ==
  ASSUME CInv, NEW m \in Messages, msg[m] \in Busy,
         NEW s \in Busy \cup {"done", "discarded"},
         Move(m, s), UNCHANGED <<procVars, crashes>>
  PROVE  CInv'
<1> USE DEF Move, procVars
<1>1. TypeOK'
  BY DEF CInv, TypeOK, MsgStates
<1>2. BusyInv'
  <2> SUFFICES ASSUME NEW c \in Consumers
               PROVE  Cardinality(In(c, Busy)') <= active[c]
    BY DEF BusyInv
  <2>1. In(c, Busy)' \subseteq In(c, Busy)
    BY DEF In, CInv, TypeOK
  <2>2. Cardinality(In(c, Busy)') <= Cardinality(In(c, Busy))
    BY <2>1, NoMoreBusy
  <2>3. Cardinality(In(c, Busy)) \in Nat /\ Cardinality(In(c, Busy)') \in Nat
    BY <2>1, InIsFinite, FS_Subset, FS_CardinalityType
  <2>4. Cardinality(In(c, Busy)) <= active[c] /\ active[c] \in Int
    BY CountsAreNumbers DEF CInv, BusyInv
  <2> QED
    BY <2>2, <2>3, <2>4
<1>3. StartInv'
  <2>1. startup[Queue[m]] = "started"
    BY BusyIsUp
  <2> QED
    BY <2>1 DEF CInv, StartInv, In, TypeOK
<1>4. DrainInv'
  <2>1. Queue[m] \notin closed
    BY BusyIsUp
  <2> QED
    BY <2>1 DEF CInv, DrainInv, ClosedIsDrained, In, TypeOK
<1>5. PhaseInv'
  BY DEF CInv, PhaseInv, SetUp, Created
<1> QED
  BY <1>1, <1>2, <1>3, <1>4, <1>5 DEF CInv

LEMMA DeliverPreserves ==
  ASSUME CInv, NEW m \in Messages, Deliver(m)
  PROVE  CInv'
<1> DEFINE s == IF Queue[m] \in closing THEN "stranded" ELSE "buffered"
<1>1. /\ msg[m] = "ready" /\ Queue[m] \in channel
      /\ msg' = [msg EXCEPT ![m] = s]
      /\ UNCHANGED <<steps, startup, active, closing, closed, channel, open, worker,
                     crashes>>
  BY DEF Deliver, Move, procVars
<1>2. TypeOK'
  BY <1>1 DEF CInv, TypeOK, MsgStates
<1>3. BusyInv'
  <2>1. ASSUME NEW c \in Consumers PROVE In(c, Busy)' = In(c, Busy)
    BY <1>1 DEF In, Busy, CInv, TypeOK
  <2> QED
    BY <1>1, <2>1 DEF CInv, BusyInv
<1>4. StartInv'
  BY <1>1 DEF CInv, StartInv, In, TypeOK
<1>5. DrainInv'
  <2>1. ASSUME NEW c \in closed PROVE In(c, Busy \cup {"buffered"})' = {}
    <3>1. In(c, Busy \cup {"buffered"}) = {} /\ c \in closing
      BY DEF CInv, DrainInv, ClosedIsDrained
    <3>2. Queue[m] = c => s = "stranded"
      BY <3>1
    <3>3. \A n \in Messages : msg'[n] = IF n = m THEN s ELSE msg[n]
      BY <1>1 DEF CInv, TypeOK
    <3> HIDE DEF s
    <3> QED
      BY <3>1, <3>2, <3>3 DEF In, Busy
  <2> QED
    BY <1>1, <2>1 DEF CInv, DrainInv, ClosedIsDrained
<1>6. PhaseInv'
  BY <1>1 DEF CInv, PhaseInv, SetUp, Created
<1> QED
  BY <1>2, <1>3, <1>4, <1>5, <1>6 DEF CInv

LEMMA TakePreserves ==
  ASSUME CInv, NEW m \in Messages, Take(m)
  PROVE  CInv'
<1> DEFINE c == Queue[m]
<1>1. /\ msg[m] = "buffered" /\ Cardinality(In(c, Busy)) < active[c]
      /\ msg' = [msg EXCEPT ![m] = "handling"]
      /\ UNCHANGED <<steps, startup, active, closing, closed, channel, open, worker,
                     crashes>>
  BY DEF Take, Move, procVars
<1>2. TypeOK'
  BY <1>1 DEF CInv, TypeOK, MsgStates, Busy
<1>3. c \in Consumers
  BY ConnectorsAssumption
<1>4. BusyInv'
  <2> SUFFICES ASSUME NEW d \in Consumers
               PROVE  Cardinality(In(d, Busy)') <= active[d]
    BY <1>1 DEF BusyInv
  <2>1. CASE d = c
    <3>1. In(c, Busy)' = In(c, Busy) \cup {m} /\ m \notin In(c, Busy)
      BY <1>1 DEF In, Busy, CInv, TypeOK
    <3>2. IsFiniteSet(In(c, Busy)) /\ Cardinality(In(c, Busy)) \in Nat
      BY <1>3, InIsFinite
    <3>3. Cardinality(In(c, Busy)') = Cardinality(In(c, Busy)) + 1
      BY <3>1, <3>2, FS_AddElement
    <3>4. active[c] \in 0 .. Concurrency
      BY <1>3 DEF CInv, TypeOK
    <3> QED
      BY <1>1, <2>1, <3>2, <3>3, <3>4, Sizes
  <2>2. CASE d # c
    <3>1. In(d, Busy)' = In(d, Busy)
      BY <1>1, <2>2 DEF In, CInv, TypeOK
    <3> QED
      BY <3>1 DEF CInv, BusyInv
  <2> QED
    BY <2>1, <2>2
<1>5. m \in In(c, {"buffered"})
  BY <1>1 DEF In
<1>6. StartInv'
  BY <1>1 DEF CInv, StartInv, In, TypeOK, Unsettled
<1>7. DrainInv'
  BY <1>1 DEF CInv, DrainInv, ClosedIsDrained, In, TypeOK
<1>8. PhaseInv'
  BY <1>1 DEF CInv, PhaseInv, SetUp, Created
<1> QED
  BY <1>2, <1>4, <1>6, <1>7, <1>8 DEF CInv

LEMMA HandlingPreserves ==
  ASSUME CInv, NEW m \in Messages,
         Handling(m) \/ HandlerRaises(m) \/ \E p \in Publishers : Publish(m, p)
  PROVE  CInv'
<1>1. CASE Deliver(m)
  BY <1>1, DeliverPreserves
<1>2. CASE Take(m)
  BY <1>2, TakePreserves
<1>3. CASE HandlerReturns(m)
  BY <1>3, BusyMovesOn DEF HandlerReturns, Running, Busy
<1>4. CASE HandlerRaises(m)
  BY <1>4, BusyMovesOn DEF HandlerRaises, Running, Busy
<1>5. CASE BrokerSettles(m)
  BY <1>5, BusyMovesOn DEF BrokerSettles, Busy
<1>6. CASE WorkerResumes(m)
  BY <1>6, BusyMovesOn DEF WorkerResumes, Busy
<1>7. ASSUME NEW p \in Publishers, Publish(m, p) PROVE CInv'
  BY <1>7, BusyMovesOn DEF Publish, Busy
<1> QED
  BY <1>1, <1>2, <1>3, <1>4, <1>5, <1>6, <1>7 DEF Handling

-------------------------------------------------------------------------------
(* Shutdown.                                                               *)

LEMMA ShutdownPreserves ==
  ASSUME CInv, Shutdown
  PROVE  CInv'
<1>1. TypeOK'
  BY DEF CInv, TypeOK, Shutdown
<1>2. StartInv'
  BY DEF CInv, Shutdown, StartInv, In
<1>3. PhaseInv'
  BY DEF CInv, Shutdown, PhaseInv, SetUp
<1>4. BusyInv' /\ DrainInv'
  BY DEF CInv, Shutdown, BusyInv, DrainInv, ClosedIsDrained, In
<1> QED
  BY <1>1, <1>2, <1>3, <1>4 DEF CInv

LEMMA CloseConsumerPreserves ==
  ASSUME CInv, NEW c \in Consumers, CloseConsumer(c)
  PROVE  CInv'
<1>1. TypeOK'
  BY DEF CInv, TypeOK, CloseConsumer
<1>2. StartInv'
  BY DEF CInv, CloseConsumer, StartInv, In
<1>3. PhaseInv'
  BY DEF CInv, CloseConsumer, PhaseInv, SetUp
<1>4. BusyInv' /\ DrainInv'
  BY DEF CInv, CloseConsumer, BusyInv, DrainInv, ClosedIsDrained, In
<1> QED
  BY <1>1, <1>2, <1>3, <1>4 DEF CInv

LEMMA WorkerExitsPreserves ==
  ASSUME CInv, NEW c \in Consumers, WorkerExits(c)
  PROVE  CInv'
<1>1. Cardinality(In(c, Busy)) \in Nat /\ IsFiniteSet(In(c, Busy))
  BY InIsFinite
<1>2. active[c] \in 0 .. Concurrency /\ Cardinality(In(c, Busy)) < active[c]
  BY DEF CInv, TypeOK, WorkerExits
<1>3. active[c] - 1 \in 0 .. Concurrency /\ Cardinality(In(c, Busy)) <= active[c] - 1
  BY <1>1, <1>2, Sizes
<1>4. TypeOK'
  BY <1>3 DEF CInv, TypeOK, WorkerExits
<1>5. BusyInv'
  <2> SUFFICES ASSUME NEW d \in Consumers
               PROVE  Cardinality(In(d, Busy)) <= active'[d]
    BY DEF BusyInv, WorkerExits, In
  <2>1. CASE d = c
    BY <1>3, <2>1 DEF CInv, TypeOK, WorkerExits
  <2>2. CASE d # c
    BY <2>2 DEF CInv, TypeOK, WorkerExits, BusyInv
  <2> QED
    BY <2>1, <2>2
<1>6. StartInv'
  <2>1. startup[c] = "started"
    BY <1>1, <1>2 DEF CInv, StartInv
  <2> QED
    BY <2>1 DEF CInv, WorkerExits, StartInv, In, TypeOK
<1>7. DrainInv'
  <2>1. c \notin closed
    BY <1>1, <1>2 DEF CInv, DrainInv, ClosedIsDrained
  <2>2. CASE active[c] = 1
    <3>1. Cardinality(In(c, Busy)) = 0
      BY <1>1, <1>2, <2>2
    <3>2. In(c, Busy \cup {"buffered"}) = {}
      BY <1>1, <3>1, FS_EmptySet DEF WorkerExits, In
    <3>3. /\ closed' = closed \cup {c} /\ c \in closing /\ UNCHANGED <<msg, closing>>
          /\ active' = [active EXCEPT ![c] = 0]
      BY <1>2, <2>2, Sizes DEF WorkerExits
    <3>4. \A d \in closed' : In(d, Busy \cup {"buffered"}) = {} /\ active'[d] = 0
      BY <2>1, <3>2, <3>3 DEF CInv, DrainInv, ClosedIsDrained, TypeOK
    <3> QED
      BY <3>3, <3>4 DEF CInv, DrainInv, ClosedIsDrained, In
  <2>3. CASE active[c] # 1
    BY <2>1, <2>3 DEF CInv, WorkerExits, DrainInv, ClosedIsDrained, In, TypeOK
  <2> QED
    BY <2>2, <2>3
<1>8. PhaseInv'
  BY DEF CInv, WorkerExits, PhaseInv, SetUp, Created
<1> QED
  BY <1>4, <1>5, <1>6, <1>7, <1>8 DEF CInv

\* What a closed consumer's channel hands back was stranded.
LEMMA HandsBackTheStranded ==
  ASSUME CInv, NEW c \in Consumers, CloseChannel(c),
         NEW m \in Messages, Queue[m] = c, msg[m] \in Unsettled
  PROVE  msg[m] = "stranded"
<1>1. In(c, Busy \cup {"buffered"}) = {}
  BY DEF CInv, DrainInv, ClosedIsDrained, CloseChannel
<1> QED
  BY <1>1 DEF In, Busy, Unsettled

LEMMA CloseChannelPreserves ==
  ASSUME CInv, NEW c \in Consumers, CloseChannel(c)
  PROVE  CInv'
<1>1. TypeOK'
  BY DEF CInv, TypeOK, CloseChannel, MsgStates
<1>2. \A m \in Messages : msg'[m] # msg[m] => msg[m] = "stranded" /\ msg'[m] = "ready"
  BY HandsBackTheStranded DEF CloseChannel
<1>3. BusyInv'
  <2>1. ASSUME NEW d \in Consumers PROVE In(d, Busy)' = In(d, Busy)
    BY <1>2 DEF In, Busy
  <2> QED
    BY <2>1 DEF CInv, BusyInv, CloseChannel
<1>4. StartInv'
  BY <1>2 DEF CInv, CloseChannel, StartInv, In, Unsettled, Busy
<1>5. DrainInv'
  BY <1>2 DEF CInv, CloseChannel, DrainInv, ClosedIsDrained, In, Busy
<1>6. PhaseInv'
  BY DEF CInv, CloseChannel, PhaseInv, SetUp, Created
<1> QED
  BY <1>1, <1>3, <1>4, <1>5, <1>6 DEF CInv

LEMMA ConsumersClosedPreserves ==
  ASSUME CInv, ConsumersClosed
  PROVE  CInv'
<1>1. TypeOK'
  BY DEF CInv, TypeOK, ConsumersClosed
<1>2. StartInv'
  BY DEF CInv, ConsumersClosed, StartInv, In
<1>3. PhaseInv'
  BY DEF CInv, ConsumersClosed, PhaseInv, SetUp, Created
<1>4. BusyInv' /\ DrainInv'
  BY DEF CInv, ConsumersClosed, BusyInv, DrainInv, ClosedIsDrained, In
<1> QED
  BY <1>1, <1>2, <1>3, <1>4 DEF CInv

LEMMA ClosePublisherPreserves ==
  ASSUME CInv, NEW p \in Publishers, ClosePublisher(p)
  PROVE  CInv'
<1>1. TypeOK'
  BY DEF CInv, TypeOK, ClosePublisher
<1>2. StartInv'
  BY DEF CInv, ClosePublisher, StartInv, In
<1>3. PhaseInv'
  BY DEF CInv, ClosePublisher, PhaseInv, SetUp, Created
<1>4. BusyInv' /\ DrainInv'
  BY DEF CInv, ClosePublisher, BusyInv, DrainInv, ClosedIsDrained, In
<1> QED
  BY <1>1, <1>2, <1>3, <1>4 DEF CInv

LEMMA PublishersClosedPreserves ==
  ASSUME CInv, PublishersClosed
  PROVE  CInv'
<1>1. TypeOK'
  BY DEF CInv, TypeOK, PublishersClosed
<1>2. StartInv'
  BY DEF CInv, PublishersClosed, StartInv, In
<1>3. PhaseInv'
  BY DEF CInv, PublishersClosed, PhaseInv, SetUp, Created
<1>4. BusyInv' /\ DrainInv'
  BY DEF CInv, PublishersClosed, BusyInv, DrainInv, ClosedIsDrained, In
<1> QED
  BY <1>1, <1>2, <1>3, <1>4 DEF CInv

LEMMA CrashPreserves ==
  ASSUME CInv, Crash
  PROVE  CInv'
<1>1. TypeOK'
  <2>1. crashes' \in 0 .. MaxCrashes
    BY CountsAreNumbers, Sizes DEF CInv, Crash
  <2>2. msg' \in [Messages -> MsgStates]
    BY DEF CInv, TypeOK, Crash, MsgStates, Busy
  <2>3. 0 \in 0 .. Len(Setup) /\ 0 \in 0 .. Concurrency
    BY Sizes
  <2> QED
    BY <2>1, <2>2, <2>3 DEF TypeOK, Crash
<1>2. \A m \in Messages : msg'[m] \notin Unsettled \cup Busy
  BY DEF Crash, CInv, TypeOK, MsgStates, Busy, Unsettled
<1>3. BusyInv'
  <2>1. ASSUME NEW c \in Consumers PROVE In(c, Busy)' = {} /\ active'[c] = 0
    BY <1>2 DEF In, Crash
  <2> QED
    BY <2>1, FS_EmptySet DEF BusyInv
<1>4. StartInv'
  BY <1>2 DEF Crash, StartInv, In
<1>5. DrainInv' /\ PhaseInv'
  BY Sizes DEF Crash, DrainInv, ClosedIsDrained, PhaseInv, SetUp
<1> QED
  BY <1>1, <1>3, <1>4, <1>5 DEF CInv

-------------------------------------------------------------------------------
LEMMA StutterPreserves ==
  ASSUME CInv, UNCHANGED vars
  PROVE  CInv'
<1>1. TypeOK'
  BY DEF CInv, TypeOK, vars, procVars
<1>2. StartInv'
  BY DEF CInv, vars, procVars, StartInv, In
<1>3. PhaseInv'
  BY DEF CInv, vars, procVars, PhaseInv, SetUp, Created
<1>4. BusyInv' /\ DrainInv'
  BY DEF CInv, vars, procVars, BusyInv, DrainInv, ClosedIsDrained, In
<1> QED
  BY <1>1, <1>2, <1>3, <1>4 DEF CInv

LEMMA NextPreserves == CInv /\ [Next]_vars => CInv'
<1> SUFFICES ASSUME CInv, [Next]_vars PROVE CInv'
  OBVIOUS
<1>1. CASE SetupStep \/ StartConsuming \/ Started \/ SetupRaises
  BY <1>1, SetupStepPreserves, StartConsumingPreserves, StartedPreserves,
     SetupRaisesPreserves
<1>2. ASSUME NEW c \in Consumers, Consumer(c) \/ CloseConsumer(c)
      PROVE  CInv'
  BY <1>2, ConsumePreserves, SpawnWorkersPreserves, WorkerExitsPreserves,
     CloseChannelPreserves, CloseConsumerPreserves
     DEF Consumer
<1>3. ASSUME NEW m \in Messages,
             Handling(m) \/ HandlerRaises(m) \/ \E p \in Publishers : Publish(m, p)
      PROVE  CInv'
  BY <1>3, HandlingPreserves
<1>4. CASE Shutdown \/ ConsumersClosed \/ PublishersClosed \/ Crash
  BY <1>4, ShutdownPreserves, ConsumersClosedPreserves, PublishersClosedPreserves,
     CrashPreserves
<1>5. ASSUME NEW p \in Publishers, ClosePublisher(p)
      PROVE  CInv'
  BY <1>5, ClosePublisherPreserves
<1>6. CASE UNCHANGED vars
  BY <1>6, StutterPreserves
<1> QED
  BY <1>1, <1>2, <1>3, <1>4, <1>5, <1>6 DEF Next

-------------------------------------------------------------------------------
\* What the properties follow from, for a specification whose steps are Next's.
LEMMA CInvIsPublishable == CInv => HandlersCanPublish
<1> SUFFICES ASSUME CInv, NEW m \in Messages, Running(m)
             PROVE  open = Publishers
  BY DEF HandlersCanPublish
<1>1. msg[m] \in Busy
  BY DEF Running, Busy
<1>2. steps = Len(Setup) /\ Queue[m] \in Consumers /\ Queue[m] \notin closed
  BY <1>1, BusyIsUp
<1>3. Publishers \subseteq SetUp /\ Queue[m] \in Created
  BY <1>2, AllSetUp DEF Created
<1> QED
  BY <1>2, <1>3 DEF CInv, PhaseInv, TypeOK

\* Of all the steps only CloseChannel and Crash make a message ready again.
LEMMA StepFinishesWhatItTook ==
  ASSUME CInv, [Next]_vars, crashes' = crashes,
         NEW m \in Messages, msg[m] # "ready", msg'[m] = "ready"
  PROVE  msg[m] = "stranded"
<1>1. CASE \/ SetupStep \/ StartConsuming \/ Started \/ SetupRaises
           \/ Shutdown \/ ConsumersClosed \/ PublishersClosed
  BY <1>1 DEF SetupStep, StartConsuming, Started, SetupRaises, Shutdown,
     ConsumersClosed, PublishersClosed
<1>2. ASSUME NEW c \in Consumers, Consumer(c) \/ CloseConsumer(c)
      PROVE  msg[m] = "stranded"
  <2>1. CASE CloseChannel(c)
    BY <2>1, HandsBackTheStranded DEF CloseChannel
  <2>2. CASE Consume(c) \/ SpawnWorkers(c) \/ WorkerExits(c) \/ CloseConsumer(c)
    BY <2>2 DEF Consume, SpawnWorkers, WorkerExits, CloseConsumer
  <2> QED
    BY <1>2, <2>1, <2>2 DEF Consumer
<1>3. ASSUME NEW n \in Messages,
             Handling(n) \/ HandlerRaises(n) \/ \E p \in Publishers : Publish(n, p)
      PROVE  msg[m] = "stranded"
  BY <1>3 DEF Handling, HandlerRaises, Publish, Deliver, Take, HandlerReturns,
     BrokerSettles, WorkerResumes, Move, CInv, TypeOK
<1>4. ASSUME NEW p \in Publishers, ClosePublisher(p)
      PROVE  msg[m] = "stranded"
  BY <1>4 DEF ClosePublisher
<1>5. CASE Crash
  BY <1>5, CountsAreNumbers DEF Crash, CInv
<1>6. CASE UNCHANGED vars
  BY <1>6 DEF vars
<1> QED
  BY <1>1, <1>2, <1>3, <1>4, <1>5, <1>6 DEF Next

-------------------------------------------------------------------------------
\* CInv is an invariant of the connectors.
THEOREM ConnectorsInvariance == Spec => []CInv
<1>1. Init => CInv
  BY InitEstablishes
<1>2. CInv /\ [Next]_vars => CInv'
  BY NextPreserves
<1> QED
  BY <1>1, <1>2, PTL DEF Spec

\* Whatever runs of a worker's handlers, on whichever of its connectors, finds every
\* publisher open: setup opens them all before start_consuming, and aclose closes the
\* consumers of all connectors first.
THEOREM Publishable == Spec => []HandlersCanPublish
BY CInvIsPublishable, ConnectorsInvariance, PTL

\* Consumer._closed is set only when no task of the consumer has anything left to do,
\* however many tasks and messages there are.
THEOREM Drained == Spec => []ClosedIsDrained
<1>1. CInv => ClosedIsDrained
  BY DEF CInv, DrainInv
<1> QED
  BY <1>1, ConnectorsInvariance, PTL

\* Without a crash the broker gets back only what queue_message ignored.
THEOREM FinishesWhatItTook == Spec => ShutdownFinishesWhatItTook
<1> DEFINE HandsBackOnlyTheStranded ==
      crashes' = crashes =>
        \A m \in Messages :
          msg[m] # "ready" /\ msg'[m] = "ready" => msg[m] = "stranded"
<1>1. CInv /\ [Next]_vars => [HandsBackOnlyTheStranded]_vars
  BY StepFinishesWhatItTook
<1> QED
  BY <1>1, ConnectorsInvariance, PTL DEF Spec, ShutdownFinishesWhatItTook

-------------------------------------------------------------------------------
(* The process.                                                            *)

\* A request that runs found the worker's routes; without a server none does, and there
\* is none before the worker; a closed process has closed both.
WInv ==
  /\ request \in [Requests -> {"none", "running", "published", "failed", "over"}]
  /\ \A r \in Requests : request[r] = "running" => Routes \in SetUp
  /\ http \in {"none", "closed"} => \A r \in Requests : ~Active(r)
  /\ phase \in {"loading", "loaded", "refused"} => http = "none"
  /\ phase = "closed" => worker = "down" /\ http \in {"none", "closed"}

-------------------------------------------------------------------------------
\* Of a step of the process the connectors see a step of theirs, or none.
LEMMA StepImplements == [WNext]_wvars => [Next]_vars
<1> SUFFICES ASSUME [WNext]_wvars PROVE [Next]_vars
  OBVIOUS
<1>1. CASE WorkerTask
  BY <1>1 DEF WorkerTask, Connecting, Next, Load, LoadRaises, Make, Closed
<1>2. CASE HttpTask
  BY <1>2 DEF HttpTask, CloseHttp, HttpClosed, CancelRequest
<1>3. ASSUME NEW r \in Requests,
             Arrive(r) \/ Answered(r) \/ \E p \in Publishers : RequestPublishes(r, p)
      PROVE  UNCHANGED vars
  BY <1>3 DEF Arrive, Answered, RequestPublishes
<1>4. CASE WCrash
  BY <1>4 DEF WCrash, Next
<1>5. CASE UNCHANGED wvars
  BY <1>5 DEF wvars
<1> QED
  BY <1>1, <1>2, <1>3, <1>4, <1>5 DEF WNext, Connecting, Next

LEMMA WInitEstablishes == WInit => WInv
BY DEF WInit, WInv, Active

\* No step of the connectors but a crash takes back a step of the setup, and a worker
\* that is down stays down.
LEMMA ConnectorsGoOn ==
  ASSUME CInv,
         \/ SetupStep \/ StartConsuming \/ Started \/ SetupRaises
         \/ Shutdown \/ ConsumersClosed \/ PublishersClosed
         \/ \E c \in Consumers : Consumer(c) \/ CloseConsumer(c)
         \/ \E m \in Messages : Handling(m) \/ HandlerRaises(m)
         \/ \E m \in Messages, p \in Publishers : Publish(m, p)
         \/ \E p \in Publishers : ClosePublisher(p)
  PROVE  SetUp \subseteq SetUp' /\ (worker = "down" => worker' = "down")
<1>1. CASE SetupStep
  <2>1. steps \in Nat /\ steps' = steps + 1 /\ worker = "setup"
    BY <1>1, Sizes DEF SetupStep, CInv, TypeOK
  <2> QED
    BY <2>1 DEF SetUp
<1>2. CASE UNCHANGED steps /\ (worker = "down" => worker' = "down")
  BY <1>2 DEF SetUp
<1>3. ASSUME NEW c \in Consumers, Consumer(c) \/ CloseConsumer(c)
      PROVE  UNCHANGED <<steps, worker>>
  BY <1>3 DEF Consumer, Consume, SpawnWorkers, WorkerExits, CloseChannel, CloseConsumer
<1>4. ASSUME NEW m \in Messages,
             Handling(m) \/ HandlerRaises(m) \/ \E p \in Publishers : Publish(m, p)
      PROVE  UNCHANGED <<steps, worker>>
  BY <1>4 DEF Handling, HandlerRaises, Publish, Deliver, Take, HandlerReturns,
     BrokerSettles, WorkerResumes, procVars
<1>5. ASSUME NEW p \in Publishers, ClosePublisher(p)
      PROVE  UNCHANGED <<steps, worker>>
  BY <1>5 DEF ClosePublisher
<1>6. CASE StartConsuming \/ Started \/ SetupRaises \/ Shutdown \/ ConsumersClosed
             \/ PublishersClosed
  BY <1>2, <1>6 DEF StartConsuming, Started, SetupRaises, Shutdown, ConsumersClosed,
     PublishersClosed
<1> QED
  BY <1>1, <1>2, <1>3, <1>4, <1>5, <1>6

LEMMA WNextPreserves == CInv /\ WInv /\ [WNext]_wvars => WInv'
<1> SUFFICES ASSUME CInv, WInv, [WNext]_wvars PROVE WInv'
  OBVIOUS
<1> USE DEF WInv, Active
<1>1. ASSUME UNCHANGED workerVars,
             SetUp \subseteq SetUp' /\ (worker = "down" => worker' = "down")
      PROVE  WInv'
  BY <1>1 DEF workerVars
<1>2. CASE WCrash
  <2>1. /\ phase = "running" /\ UNCHANGED phase
        /\ http' \in {"none", "serving"} /\ (http' = "none" => http = "none")
        /\ request' = [r \in Requests |-> IF Active(r) THEN "over" ELSE request[r]]
    BY <1>2 DEF WCrash
  <2>2. \A r \in Requests : request'[r] \notin {"running", "published"}
    BY <2>1
  <2> QED
    BY <2>1, <2>2
<1>3. CASE Load \/ LoadRaises
  BY <1>3 DEF Load, LoadRaises, vars, procVars, SetUp
<1>4. CASE Make
  BY <1>4 DEF Make, vars, procVars, SetUp
<1>5. CASE Closed
  BY <1>5 DEF Closed, vars, procVars, SetUp
<1>6. CASE HttpTask
  BY <1>6 DEF HttpTask, CloseHttp, HttpClosed, CancelRequest, MoveRequest,
     vars, procVars, SetUp
<1>7. ASSUME NEW r \in Requests, Arrive(r)
      PROVE  WInv'
  BY <1>7 DEF Arrive, MoveRequest, vars, procVars, SetUp
<1>8. ASSUME NEW r \in Requests,
             Answered(r) \/ \E p \in Publishers : RequestPublishes(r, p)
      PROVE  WInv'
  BY <1>8 DEF Answered, RequestPublishes, MoveRequest, vars, procVars, SetUp
<1>9. CASE UNCHANGED wvars
  BY <1>9 DEF wvars, workerVars, vars, procVars, SetUp
<1>10. CASE WorkerTask
  <2>1. CASE Load \/ LoadRaises \/ Make \/ Closed
    BY <2>1, <1>3, <1>4, <1>5
  <2>2. CASE \/ Connecting(SetupStep \/ StartConsuming \/ Started)
             \/ \E c \in Consumers : Connecting(CloseConsumer(c))
             \/ Connecting(ConsumersClosed)
             \/ \E p \in Publishers : Connecting(ClosePublisher(p))
             \/ Connecting(PublishersClosed)
    BY <2>2, <1>1, ConnectorsGoOn DEF Connecting
  <2> QED
    BY <1>10, <2>1, <2>2 DEF WorkerTask
<1>11. CASE \/ \E c \in Consumers : Connecting(Consumer(c))
            \/ \E m \in Messages : Connecting(Handling(m)) \/ Connecting(HandlerRaises(m))
            \/ \E m \in Messages, p \in Publishers : Connecting(Publish(m, p))
            \/ Connecting(SetupRaises) \/ Connecting(Shutdown)
  BY <1>11, <1>1, ConnectorsGoOn DEF Connecting
<1> QED
  BY <1>2, <1>6, <1>7, <1>8, <1>9, <1>10, <1>11 DEF WNext

-------------------------------------------------------------------------------
\* A worker's process implements the specification of its connectors: the server and
\* the requests add nothing to what they may do.
THEOREM ImplementsConnectors == WSpec => Spec
<1>1. WInit => Init
  BY DEF WInit
<1>2. [WNext]_wvars => [Next]_vars
  BY StepImplements
<1> QED
  BY <1>1, <1>2, PTL DEF WSpec, Spec

\* CInv and WInv are invariants of the process.
THEOREM WorkerInvariance == WSpec => [](CInv /\ WInv)
<1>1. WInit => WInv
  BY WInitEstablishes
<1>2. CInv /\ WInv /\ [WNext]_wvars => WInv'
  BY WNextPreserves
<1> QED
  BY <1>1, <1>2, ImplementsConnectors, ConnectorsInvariance, PTL DEF WSpec

\* The publishers of a running worker are there for its message handlers.
THEOREM WorkerPublishes == WSpec => []HandlersCanPublish
BY ImplementsConnectors, Publishable, PTL

\* aclose of a consumer does not return before its tasks are done.
THEOREM WorkerDrains == WSpec => []ClosedIsDrained
BY ImplementsConnectors, Drained, PTL

\* What a worker took from the broker it settles, unless it crashes.
THEOREM WorkerFinishes == WSpec => ShutdownFinishesWhatItTook
BY ImplementsConnectors, FinishesWhatItTook, PTL

\* Once the publishers close, no consumer has anything left, whether or not it was set
\* up.
LEMMA DrainedAtTheEnd ==
  ASSUME CInv, worker \in {"closing publishers", "down"}, NEW c \in Consumers
  PROVE  active[c] = 0 /\ c \notin channel /\ In(c, Busy \cup {"buffered"}) = {}
<1>1. CASE c \in Created
  BY <1>1 DEF CInv, PhaseInv, DrainInv, ClosedIsDrained
<1>2. CASE c \notin Created
  <2>1. startup[c] = "no"
    BY <1>2, AllSetUp DEF Created, CInv, StartInv
  <2> QED
    BY <2>1 DEF CInv, StartInv, In, Unsettled
<1> QED
  BY <1>1, <1>2

\* A request fails when its publisher is closed.
LEMMA FailsOnClosedChannel ==
  ASSUME WNext, NEW r \in Requests, request[r] # "failed", request'[r] = "failed", WInv
  PROVE  request[r] = "running" /\ \E p \in Publishers : p \notin open
<1> DEFINE Fails == request[r] = "running" /\ \E p \in Publishers : p \notin open
<1>1. CASE UNCHANGED request
  BY <1>1
<1>2. ASSUME NEW q \in Requests, NEW s \in {"running", "over"}, MoveRequest(q, s)
      PROVE  Fails
  BY <1>2 DEF MoveRequest, WInv
<1>3. ASSUME NEW q \in Requests, NEW p \in Publishers, RequestPublishes(q, p)
      PROVE  Fails
  BY <1>3 DEF RequestPublishes, MoveRequest, WInv
<1>4. ASSUME NEW q \in Requests, Arrive(q) \/ Answered(q) \/ CancelRequest(q)
      PROVE  Fails
  BY <1>2, <1>4 DEF Arrive, Answered, CancelRequest
<1>5. CASE WorkerTask
  BY <1>1, <1>5 DEF WorkerTask, Connecting, workerVars, Load, LoadRaises, Make, Closed
<1>6. CASE HttpTask
  BY <1>1, <1>4, <1>6 DEF HttpTask, CloseHttp, HttpClosed
<1>7. CASE WCrash
  BY <1>7 DEF WCrash, WInv
<1> QED
  BY <1>1, <1>3, <1>4, <1>5, <1>6, <1>7 DEF WNext, Connecting, workerVars

\* A request of a worker's own fails to publish only when every consumer is drained.
THEOREM RequestsOutlastConsumers == WSpec => RequestsFailOnlyAtTheEnd
<1> DEFINE OnlyAtTheEnd ==
      \A r \in Requests :
        request[r] # "failed" /\ request'[r] = "failed" =>
          /\ worker \in {"closing publishers", "down"}
          /\ \A c \in Consumers : active[c] = 0 /\ In(c, Busy \cup {"buffered"}) = {}
<1>1. CInv /\ WInv /\ [WNext]_wvars => [OnlyAtTheEnd]_wvars
  <2> SUFFICES ASSUME CInv, WInv, WNext, NEW r \in Requests,
                      request[r] # "failed", request'[r] = "failed"
               PROVE  worker \in {"closing publishers", "down"}
    BY DrainedAtTheEnd
  <2>1. request[r] = "running" /\ \E p \in Publishers : p \notin open
    BY FailsOnClosedChannel
  <2>2. Publishers \subseteq SetUp
    <3>1. steps \in 0 .. Len(Setup) /\ Len(Setup) \in Nat
      BY Sizes DEF CInv, TypeOK
    <3>2. PICK i \in 1 .. steps : Setup[i] = Routes
      BY <2>1 DEF WInv, SetUp
    <3>3. Publishers \subseteq {Setup[j] : j \in 1 .. i}
      BY <3>1, <3>2, WorkerAssumption
    <3> QED
      BY <3>1, <3>2, <3>3 DEF SetUp
  <2> QED
    BY <2>1, <2>2 DEF CInv, PhaseInv, TypeOK
<1> QED
  BY <1>1, WorkerInvariance, PTL DEF WSpec, RequestsFailOnlyAtTheEnd

\* When BaseWorker.aclose has returned, nothing of the worker is left.
THEOREM ClosedQuietly == WSpec => []ClosedIsQuiet
<1>1. CInv /\ WInv => ClosedIsQuiet
  <2> SUFFICES ASSUME CInv, WInv, phase = "closed"
               PROVE  /\ http \in {"none", "closed"} /\ \A r \in Requests : ~Active(r)
                      /\ channel = {} /\ open = {}
                      /\ \A c \in Consumers :
                           active[c] = 0 /\ In(c, Busy \cup {"buffered"}) = {}
    BY DEF ClosedIsQuiet
  <2>1. worker = "down" /\ http \in {"none", "closed"} /\ \A r \in Requests : ~Active(r)
    BY DEF WInv
  <2>2. \A c \in Consumers : c \notin channel
    BY <2>1, DrainedAtTheEnd
  <2> QED
    BY <2>1, <2>2, DrainedAtTheEnd DEF CInv, PhaseInv, TypeOK
<1> QED
  BY <1>1, WorkerInvariance, PTL

-------------------------------------------------------------------------------
(* The configuration.                                                      *)

\* What a dictionary has for a field, in its section if it has one.
Look(d, f, default) ==
  Get(IF f.section = Top THEN d ELSE Get(d, f.section, Empty), f.name, default)

\* An empty dictionary has nothing for a field.
LEMMA LookEmpty == \A f, default : Look(Empty, f, default) = default
BY DEF Look, Get, Empty

\* Of two dictionaries that are combined the second is asked first, and the first for
\* every field that the second has nothing for, in a section that both have too.
LEMMA LookCombined ==
  ASSUME NEW result, NEW d, NEW f \in Fields, NEW default
  PROVE  Look(Combine(result, d), f, default) = Look(d, f, Look(result, f, default))
<1> DEFINE both == Combine(result, d)
<1>1. /\ DOMAIN both = DOMAIN result \cup DOMAIN d
      /\ \A n \in DOMAIN both :
           both[n] = IF n \in Sections \cap DOMAIN d THEN Overlay(Get(result, n, Empty), d[n])
                     ELSE Get(d, n, Get(result, n, Null))
  BY DEF Combine
<1>2. CASE f.section = Top
  <2>1. f.name \notin Sections
    BY <1>2, ConfigAssumption DEF FieldsOf
  <2> HIDE DEF both
  <2> QED
    BY <1>1, <1>2, <2>1 DEF Look, Get, both
<1>3. CASE f.section # Top
  <2> DEFINE s == f.section
             inner == Get(result, s, Empty)
  <2>1. s \in Sections
    BY <1>3 DEF Sections
  <2>2. CASE s \in DOMAIN d
    <3> DEFINE over == Overlay(inner, d[s])
    <3>1. Get(both, s, Empty) = over
      BY <1>1, <2>1, <2>2 DEF Get
    <3>2. /\ DOMAIN over = DOMAIN inner \cup DOMAIN d[s]
          /\ \A n \in DOMAIN over : over[n] = Get(d[s], n, Get(inner, n, Null))
      BY DEF Overlay
    <3> HIDE DEF over, inner, both
    <3>3. Get(over, f.name, default) = Get(d[s], f.name, Get(inner, f.name, default))
      BY <3>2 DEF Get
    <3>4. Get(d, s, Empty) = d[s]
      BY <2>2 DEF Get
    <3> QED
      BY <1>3, <3>1, <3>3, <3>4 DEF Look, both, inner
  <2>3. CASE s \notin DOMAIN d
    <3>1. Get(both, s, Empty) = inner
      BY <1>1, <2>3 DEF Get
    <3>2. Get(d, s, Empty) = Empty
      BY <2>3 DEF Get
    <3>3. Look(d, f, Look(result, f, default)) = Look(result, f, default)
      BY <1>3, <3>2 DEF Look, Get, Empty
    <3> HIDE DEF both, inner
    <3> QED
      BY <1>3, <3>1, <3>3 DEF Look, both, inner
  <2> QED
    BY <2>2, <2>3
<1> QED
  BY <1>2, <1>3

\* The dictionary made of what was found for each field holds that, for the fields
\* that something was found for.
LEMMA LookWalked ==
  ASSUME NEW found, NEW f \in Fields, NEW default
  PROVE  Look(WalkConfigClass(found), f, default) = IF found[f] # Null THEN found[f] ELSE default
<1> DEFINE Found(section) == {g \in FieldsOf(section) : found[g] # Null}
           Walk(section) == [n \in {g.name : g \in Found(section)} |->
                               found[[section |-> section, name |-> n]]]
           walked == WalkConfigClass(found)
<1>1. /\ DOMAIN walked = DOMAIN Walk(Top) \cup Sections
      /\ \A n \in DOMAIN walked : walked[n] = IF n \in Sections THEN Walk(n) ELSE Walk(Top)[n]
  BY DEF WalkConfigClass
<1>2. f = [section |-> f.section, name |-> f.name]
  BY ConfigAssumption
<1>3. f.name \in DOMAIN Walk(f.section) <=> found[f] # Null
  <2>1. ASSUME NEW g \in FieldsOf(f.section), g.name = f.name
        PROVE  g = f
    <3>1. g \in Fields /\ g.section = f.section
      BY DEF FieldsOf
    <3>2. g = [section |-> g.section, name |-> g.name]
      BY <3>1, ConfigAssumption
    <3> QED
      BY <1>2, <2>1, <3>1, <3>2
  <2>2. f \in FieldsOf(f.section)
    BY DEF FieldsOf
  <2> QED
    BY <2>1, <2>2
<1>4. found[f] # Null => Walk(f.section)[f.name] = found[f]
  BY <1>2, <1>3
<1> HIDE DEF Walk
<1>5. CASE f.section = Top
  <2>1. f.name \notin Sections
    BY <1>5, ConfigAssumption DEF FieldsOf
  <2> QED
    BY <1>1, <1>3, <1>4, <1>5, <2>1 DEF Look, Get
<1>6. CASE f.section # Top
  <2>1. f.section \in Sections
    BY <1>6 DEF Sections
  <2>2. Get(walked, f.section, Empty) = Walk(f.section)
    BY <1>1, <2>1 DEF Get
  <2> HIDE DEF walked
  <2> QED
    BY <1>3, <1>4, <1>6, <2>2 DEF Look, Get, walked
<1> QED
  BY <1>5, <1>6

\* Each layer of the configuration overrides the ones before field by field, for any
\* config class that is nested once and whatever the three sources hold: also when they
\* give different fields of one section, or names that meet in one key.
THEOREM Layers == WSpec => LayersOverride
<1>1. ASSUME Load PROVE \A f \in Fields : config'[f] = Layered(f)
  <2> SUFFICES ASSUME NEW f \in Fields PROVE config'[f] = Layered(f)
    OBVIOUS
  <2> DEFINE file == Combine(Empty, sources.file)
             variables == LoadConfigFromEnvironment(sources.environment, Prefix)
             options == LoadConfigFromCli(sources.options)
             argument == Get(sources.options, Key(Top, f), Null)
             variable == Get(sources.environment, Key(Prefix, f), Null)
  <2>1. config' = Structured(Combine(Combine(file, variables), options))
    BY <1>1 DEF Load, LoadConfig
  <2>2. config'[f] = Look(Combine(Combine(file, variables), options), f, Default[f])
    BY <2>1 DEF Structured, Look
  <2>3. Look(file, f, Default[f]) = Look(sources.file, f, Default[f])
    BY LookCombined, LookEmpty
  <2>4. \A default : Look(variables, f, default) = IF variable # Null THEN variable ELSE default
    BY LookWalked DEF LoadConfigFromEnvironment
  <2>5. \A default : Look(options, f, default) = IF argument # Null THEN argument ELSE default
    BY LookWalked DEF LoadConfigFromCli
  <2> HIDE DEF file, variables, options
  <2>6. config'[f] = Look(options, f, Look(variables, f, Look(file, f, Default[f])))
    BY <2>2, LookCombined
  <2>7. Layered(f) = IF argument # Null THEN argument
                     ELSE IF variable # Null THEN variable
                     ELSE Look(sources.file, f, Default[f])
    BY DEF Layered, Look
  <2> QED
    BY <2>3, <2>4, <2>5, <2>6, <2>7
<1>2. [WNext]_wvars /\ phase' = "loaded" /\ phase = "loading" => Load
  <2> SUFFICES ASSUME [WNext]_wvars, phase' = "loaded", phase = "loading" PROVE Load
    OBVIOUS
  <2> QED
    BY DEF WNext, WorkerTask, HttpTask, LoadRaises, Make, Closed, Connecting, CloseHttp,
           HttpClosed, CancelRequest, Arrive, Answered, RequestPublishes, WCrash, wvars, workerVars
<1>3. [WNext]_wvars => [phase' = "loaded" /\ phase = "loading" =>
                          \A f \in Fields : config'[f] = Layered(f)]_wvars
  BY <1>1, <1>2
<1> QED
  BY <1>3, PTL DEF WSpec, LayersOverride
===============================================================================
