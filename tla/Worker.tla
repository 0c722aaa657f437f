---------------------------------- MODULE Worker ----------------------------------
(***************************************************************************)
(* The process of a worker (cli.run_worker, workers.py): its configuration *)
(* is loaded, its HTTP server started if it has one, its connectors set up *)
(* and started, and server and connectors closed, at the same time.        *)
(*                                                                         *)
(* The server is hypercorn, which is external: told to stop, it takes no   *)
(* new requests, waits for those there are, and cancels them when its      *)
(* graceful timeout is over.  A request here is one that publishes, like   *)
(* those of the applications and of the HTTP RPC transport.                *)
(***************************************************************************)
EXTENDS Connectors, Config

CONSTANTS Requests,          \* HTTP requests to the worker's own routes
          Routes,            \* the step of Setup that adds those
          HttpBind,          \* the field http_bind
          Files,             \* what the configuration file may hold,
          Environments,      \* the environment
          Prefix,            \* with the prefix it has,
          Options            \* and the command line

ASSUME WorkerAssumption ==
  /\ HttpBind \in Fields
  /\ Requests # {} => \E i \in 1 .. Len(Setup) : Setup[i] = Routes
  \* Every worker adds its routes once its connectors are there.
  /\ \A i \in 1 .. Len(Setup) :
       Setup[i] = Routes => Publishers \subseteq {Setup[j] : j \in 1 .. i}

VARIABLES sources,   \* [file, environment, options], until they were read
          phase,     \* of the process: "loading", "loaded", "running", "closed" once
                     \* BaseWorker._closed is set, or "refused"
          config,    \* the configuration, until the worker was made from it
          http,      \* the server: "none", "serving", "closing" or "closed"
          request    \* how far each is: "none", "running", "published", "failed" or "over"

workerVars == <<sources, phase, config, http, request>>
wvars == <<vars, workerVars>>

Active(r) == request[r] \in {"running", "published"}

WInit == /\ Init
         /\ sources \in [file : Files, environment : Environments, options : Options]
         /\ phase = "loading"
         /\ config = Empty
         /\ http = "none"
         /\ request = [r \in Requests |-> "none"]

-------------------------------------------------------------------------------
(* Start.                                                                  *)

Load ==
  /\ phase = "loading"
  /\ ~CannotCombine(sources.file)
  /\ config' = LoadConfig(sources.file, sources.environment, Prefix, sources.options)
  /\ sources' = Null
  /\ phase' = "loaded"
  /\ UNCHANGED <<vars, http, request>>

LoadRaises ==
  /\ phase = "loading"
  /\ CannotCombine(sources.file)
  /\ sources' = Null
  /\ phase' = "refused"
  /\ UNCHANGED <<vars, config, http, request>>

\* BaseWorker.__init__: the server is started first of all.
Make ==
  /\ phase = "loaded"
  /\ http' = IF config[HttpBind] = Null THEN "none" ELSE "serving"
  /\ config' = Empty
  /\ phase' = "running"
  /\ UNCHANGED <<vars, sources, request>>

\* A step of the connectors.
Connecting(A) == phase = "running" /\ A /\ UNCHANGED workerVars

-------------------------------------------------------------------------------
(* Requests.                                                               *)

MoveRequest(r, s) == request' = [request EXCEPT ![r] = s]

\* The server knows the worker's routes once its setup has added them.
Arrive(r) ==
  /\ phase = "running" /\ http = "serving" /\ request[r] = "none"
  /\ MoveRequest(r, IF Routes \in SetUp THEN "running" ELSE "over")
  /\ UNCHANGED <<vars, sources, phase, config, http>>

\* On a closed channel it raises, and the request is answered with a 500.
RequestPublishes(r, p) ==
  /\ phase = "running" /\ request[r] = "running"
  /\ MoveRequest(r, IF p \in open THEN "published" ELSE "failed")
  /\ UNCHANGED <<vars, sources, phase, config, http>>

Answered(r) ==
  /\ phase = "running" /\ request[r] = "published"
  /\ MoveRequest(r, "over")
  /\ UNCHANGED <<vars, sources, phase, config, http>>

-------------------------------------------------------------------------------
(* The end.                                                                *)

\* WorkerHttp.aclose, started together with ConnectorCollection.aclose.
CloseHttp ==
  /\ phase = "running" /\ http = "serving"
  /\ worker \notin {"setup", "starting", "up"}
  /\ http' = "closing"
  /\ UNCHANGED <<vars, sources, phase, config, request>>

\* hypercorn's graceful timeout.
CancelRequest(r) ==
  /\ phase = "running" /\ http = "closing" /\ Active(r)
  /\ MoveRequest(r, "over")
  /\ UNCHANGED <<vars, sources, phase, config, http>>

\* Fault: the server is taken to be closed once it was told to stop.
HttpClosedAtOnce ==
  /\ phase = "running" /\ http = "closing"
  /\ http' = "closed"
  /\ UNCHANGED <<vars, sources, phase, config, request>>

\* serve returns, and _run sets _closed.
HttpClosed ==
  /\ phase = "running" /\ http = "closing"
  /\ \A r \in Requests : ~Active(r)
  /\ http' = "closed"
  /\ UNCHANGED <<vars, sources, phase, config, request>>

\* The nursery of BaseWorker.aclose is left.
Closed ==
  /\ phase = "running" /\ worker = "down" /\ http \in {"none", "closed"}
  /\ phase' = "closed"
  /\ UNCHANGED <<vars, sources, config, http, request>>

\* The process is started again with the configuration it had.
WCrash ==
  /\ phase = "running" /\ Crash
  /\ http' = IF http = "none" THEN "none" ELSE "serving"
  /\ request' = [r \in Requests |-> IF Active(r) THEN "over" ELSE request[r]]
  /\ UNCHANGED <<sources, phase, config>>

-------------------------------------------------------------------------------
\* The steps of the task that runs the worker, with those it starts to close it.
WorkerTask ==
  \/ Load \/ LoadRaises \/ Make \/ Closed
  \/ Connecting(SetupStep \/ StartConsuming \/ Started)
  \/ \E c \in Consumers : Connecting(CloseConsumer(c))
  \/ Connecting(ConsumersClosed)
  \/ \E p \in Publishers : Connecting(ClosePublisher(p))
  \/ Connecting(PublishersClosed)

HttpTask == CloseHttp \/ HttpClosed \/ \E r \in Requests : CancelRequest(r)

WNext ==
  \/ WorkerTask
  \/ HttpTask
  \/ \E c \in Consumers : Connecting(Consumer(c))
  \/ \E m \in Messages : Connecting(Handling(m)) \/ Connecting(HandlerRaises(m))
  \/ \E m \in Messages, p \in Publishers : Connecting(Publish(m, p))
  \/ \E r \in Requests : Arrive(r) \/ Answered(r)
  \/ \E r \in Requests, p \in Publishers : RequestPublishes(r, p)
  \/ Connecting(SetupRaises) \/ Connecting(Shutdown)
  \/ WCrash

WSpec == WInit /\ [][WNext]_wvars

\* Trio runs every runnable task, the broker delivers and settles, a message's
\* handler ends, and hypercorn's timeout passes.  Nothing makes the worker shut down,
\* a handler publish, a request arrive or the process crash.
WFairness ==
  /\ WF_wvars(WorkerTask)
  /\ WF_wvars(HttpTask)
  /\ \A c \in Consumers : WF_wvars(Connecting(Consumer(c)))
  /\ \A m \in Messages : WF_wvars(Connecting(Handling(m)))

WFairSpec == WSpec /\ WFairness

-------------------------------------------------------------------------------
\* What a field should be: the command line's value, or else the environment's, or
\* else the file's, or else its default.
Layered(f) ==
  LET argument == Get(sources.options, Key(Top, f), Null)
      variable == Get(sources.environment, Key(Prefix, f), Null)
      dictionary == IF f.section = Top THEN sources.file
                    ELSE Get(sources.file, f.section, Empty)
  IN  IF argument # Null THEN argument
      ELSE IF variable # Null THEN variable
      ELSE Get(dictionary, f.name, Default[f])

\* "Three layers, each layer overriding anything configured in the previous layer",
\* field by field: a layer that gives one field of a section leaves the others.
LayersOverride ==
  [][phase' = "loaded" /\ phase = "loading" =>
       \A f \in Fields : config'[f] = Layered(f)]_wvars

\* A request finds its publisher closed only while the worker closes, after every
\* consumer of the worker was: never while the worker starts, and never before the
\* messages that were taken were handled.
RequestsFailOnlyAtTheEnd ==
  [][\A r \in Requests :
       request[r] # "failed" /\ request'[r] = "failed" =>
         /\ worker \in {"closing publishers", "down"}
         /\ \A c \in Consumers : active[c] = 0 /\ In(c, Busy \cup {"buffered"}) = {}]_wvars

\* Once aclose has returned nothing of the worker runs: no request, no handler, no
\* consumer, no channel.
ClosedIsQuiet ==
  phase = "closed" =>
    /\ http \in {"none", "closed"} /\ \A r \in Requests : ~Active(r)
    /\ channel = {} /\ open = {}
    /\ \A c \in Consumers : active[c] = 0 /\ In(c, Busy \cup {"buffered"}) = {}

\* "When a worker has no in-progress message handlers, clean shutdown has
\* nothing to wait for", and otherwise it waits for them and for the requests: it
\* completes, also when it follows on a setup that raised, unless the process dies.
ShutdownCompletes ==
  \A n \in 0 .. MaxCrashes :
    worker = "closing consumers" /\ crashes = n ~> phase = "closed" \/ crashes # n

\* A message sent to a worker that starts and stays up is settled in the end.
EveryMessageIsSettled ==
  \A m \in Messages :
    msg[m] = "ready" ~> \/ msg[m] \in {"done", "discarded"}
                        \/ worker \notin {"setup", "starting", "up"}
                        \/ phase = "refused"
===============================================================================
