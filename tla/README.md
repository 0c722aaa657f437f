# vumi2 in TLA+

vumi2 connects applications to the networks people send messages on. It is a set
of worker processes that talk over AMQP: a *transport* speaks a network's
protocol (SMPP, an HTTP callback), an *application* speaks to a service (Junebug's
and Turn's HTTP interfaces), and a *router* stands between them. Three kinds of
message travel: `inbound` from transport to application, `outbound` the other way,
and `event` (ack, nack, delivery report) from transport to application about an
outbound message. A process is one thread that runs trio tasks: control passes
from one task to another only where the code awaits. The atomic actions of the
models are therefore the stretches of code between two awaits, and what the models
explore is the order of those stretches, of what brokers, clients and the SMSC do,
and of the clock.

Paths below are relative to `src/vumi2/` of the repository.

## 1. Inventory

| Component | State | Operations | Interacts with | Hard part |
|---|---|---|---|---|
| `TimeoutDict` (`message_caches.py`) | an insertion-ordered dict of (timestamp, value) | `[]`, `[]=`, `del`, `pop`, `len`, iteration; each removes what expired | all caches | clean-up stops at the first live entry; the clock moves within a call |
| `MemoryMessageCache` (`message_caches.py`) | two `TimeoutDict`s | store, fetch, last inbound of a sender | router, Turn | the query reads entry by entry while entries expire |
| HTTP RPC transport (`transports/httprpc`) | tables of open requests and of results | `inbound_request`, `handle_outbound_message`, `finish_request` | HTTP server, consumer | reply, deadline, disconnect and failing publish race |
| AAT USSD (`transports/aat_ussd`) | the same | overrides both handlers | the same | does not look a request up before it finishes it |
| Connectors (`connectors.py`) | worker tasks, memory channel, `_closing`, `_closed` | start, deliver, handle, settle, close | broker, every worker | shutdown during start, during handlers; redelivery |
| Worker (`workers.py`, `cli.py`) | configuration, connectors, HTTP server, resources to close | load, setup, `start_consuming`, `aclose` | connectors, HTTP, middlewares | server and connectors close at once; setup may raise |
| Configuration (`config.py`) | none | walk, combine, structure | file, environment, command line | nested sections |
| SMPP session (`transports/smpp/client.py`, `smpp.py`, `sequencers.py`) | table of awaited responses, byte buffer, two unbuffered channels, sequence number | bind, enquire link, submit, deliver, unbind | SMSC, consumer, publisher | six kinds of task that wait for each other; framing |
| SMPP processors, codecs (`transports/smpp/processors.py`, `codecs.py`) | none of their own | text to PDUs, PDUs to messages and events | session, cache | splitting, reassembly, characters cut in two, codecs that do not read what they write |
| SMPP cache (`transports/smpp/smpp_cache.py`) | SMSC id to vumi id; parts of long messages | store, take | processors, session | parts mixed, duplicated, out of order |
| Router (`routers.py`) | message cache, patterns | route inbound, outbound, event | both sides | events follow a cached outbound message |
| Junebug API (`applications/junebug_message_api`) | state cache | inbound and events to HTTP, HTTP to outbound | HTTP both ways | store before publish, timeouts |
| Turn API (`applications/turn_channels_api`) | message cache | the same | HTTP both ways | retries under a deadline |
| Middlewares, messages, static reply, helpers | none, or fixed at start | | | see section 7 |

What makes each correct, in a sentence:

* **TimeoutDict**: it is a map whose entries expire one by one, whoever cleans up.
* **Message cache**: the last message of a sender is the newest that could be read,
  so that Turn can rely on what it was told.
* **HTTP RPC**: every request ends, leaves nothing behind, and its client gets the
  one reply that was acknowledged; no reply is lost between a set event and a wait.
* **Connectors**: what was taken from the broker is settled once, what was not is
  handed back, and handlers can publish for as long as they run.
* **Worker**: it starts from the configuration its sources give together; requests
  are served until the consumers are drained; and closing ends, with nothing left.
* **SMPP session**: each task gets its own response, the application is told what
  happened and in order, no cycle of waits stops the session, silence ends it.
* **SMPP processors**: whatever way a text is split, the parts make the text; however
  octets and parts arrive, each PDU is read once, and a message that is handed on is
  one that was sent.
* **Router and HTTP applications**: an event reaches the application that sent the
  message, at the URL it asked for, for as long as the caches promise, and a message
  accepted over HTTP is lost by the broker only, before it has it.

## 2. Modules

| Module | Models | State and actions |
|---|---|---|
| `TimeoutDictOps` | the methods of `TimeoutDict` as functions on a sequence of entries | `SetItem`, `GetItem`, `DelItem`, `PopItem`, `RemoveExpired`; an operation that reads the clock twice takes two readings |
| `TimeoutDict` | a dictionary in use | `now`, `data`, `res`; one action per method, and `Tick` |
| `ExpiringMap` | what it promises | the abstract map, implemented by `TimeoutDict` under `LiveEntry` |
| `MessageCache` | `MemoryMessageCache` | both tables, `StoreInbound`, `StoreOutbound`, `FetchOutbound`, and the query as `AskLast`, `AskNext`*, `AskDone` or `AskFails`; a component of `Turn` |
| `Turn` | `TurnChannelsApi` with its `MessageCache` | `delivery[m]` is how far the handler of an inbound message is, `told` what Turn received of it, `request[r]` a `POST /messages`; events are `happened`, then `posted` or `dropped` |
| `HttpRpc` | `HttpRpcTransport` and `AatUssdTransport` | `phase[r]` is the await the task of request `r` is at; `requests`, `results` are the source's tables; `handler[m]` is the place of an outbound message's handler. A transport of either class is a set of requests: those in `Aat` belong to an `AatUssdTransport` |
| `TimeoutDictLemmas`, `TimeoutDictProofs`, `TurnProofs`, `HttpRpcProofs`, `WorkerProofs`, `RoutingProofs`, `SmppSessionProofs`, `SmppInboundProofs` | | the inductive invariants and the theorems of section 5 |
| `Connectors` | the connectors of a worker and the broker | `steps` is how much of `Setup` was done; `msg[m]` is how far a message is, `active`, `closing`, `closed` the fields of `Consumer`, `channel` and `open` the AMQP channels, `worker` how far `setup` or `aclose` is |
| `Config` | `config.py` | pure: `WalkConfigClass`, `Combine`, `Structured`, `LoadConfig` over names, a key being the sequence of the names it joins |
| `Worker` | a worker's process from `run_worker` to its end | extends `Connectors` and `Config`: `sources` and `config` until they were used, `phase` of the process, `http` of its server, `request[r]` of an HTTP request that publishes. `Connecting(A)` is a step A of the connectors |
| `SmppSession` | one session | `step[t]` is the await of each requester (bind, enquire link, one per outbound message); `pduq`, `fwdq` are the queues of tasks at the two channels without buffer; `writer`, `reader`, `forwarder` the other tasks; `responses`, `ids` the tables; `down` and `smsc` the SMSC. An inbound message comes in one PDU or in parts, and `parts` are those in memory: `ReadPart` answers one that completes nothing, `ReadInbound` hands the message on first. Two parts of one message are the parts of one key here; the keys are `Multipart`'s |
| `ShortMessages` | the processors and codecs as functions | pure: a codec as two tables, of what it writes and what it reads (`IsCodec`), `Encode`, `Decode`, `HandleOutbound` with the four ways to submit, `ExtractMultipart`, the codec a data coding is read with (`ReadingCodec`), and what reads as a report (`IsReport`) |
| `Framing` | the byte stream | `wire`, `buffer`, and whether `reader` is `"reading"` or `"extracting"`; `Read`, `ExtractPdu`, `ExtractNone`. An octet knows the PDU it belongs to, its place and the PDU's length |
| `Multipart` | `store_multipart` | `cache`, a set of parts |
| `SmppInbound` | texts from their senders to the application | extends the three before: `Submit` cuts a text into `pdus`, `Deliver` writes one of them to the stream, `Reads`, `StopsExtracting` and one of `HandleReport`, `HandlePart`, `HandleWhole`, `HandleRaises` bring it to `emitted`; `Restart` loses buffer and cache |
| `Routing` | the router between transports and Junebug applications | `ready[q]` is the number of copies of a message in a queue, `stage[q]` the place of the handler of one; `outbounds`, `inbounds` and `urls` are the caches, as the moment each entry was stored; `request[r]` is a `POST /messages`, with how far it is and, apart from that, where the frame is that publishes its message |

`MCxxx` gives `xxx` its constants for TLC. `MessageCache` and `TimeoutDict` are
built from the same `TimeoutDictOps`, and `Turn` extends `MessageCache`; `Routing` uses its caches as the maps with
expiry that the run `timeout_dict` shows them to be. Each module also holds operators marked
"Fault", each before the definition it could be taken for: the form that
definition would have with a plausible bug, used to see that a property notices.
They are not part of any specification.

Modelling decisions a reader of the code should know:

* **A query and its request** (`Turn`): from the first step of the query to the
  publish there is no await that gives up control: meanwhile only the clock moves
  (`Idle` is a guard of everything else).
* **Time limits** of HTTP calls may expire at any moment; the pause between two
  attempts is part of the next attempt.
* **Clocks** (`TimeoutDict`, `MessageCache`): `trio.current_time` does not move
  back; it may move between any two readings. `MaxNow` bounds it.
* **trio's wake-up** (`HttpRpc`): `event.set()` makes a parked task runnable; a
  deadline that passes after that and before it runs no longer reaches it, because
  the code between the wait and the return has no checkpoint. A task cancelled first
  is no longer woken. `event.wait()` on an event already set is a checkpoint, where
  a cancellation still counts.
* **The broker** (`HttpRpc`, `Connectors`): it may hand a message on before the
  publisher goes on. It redelivers what was not settled when a channel
  or the process ends. `publish_raw` uses neither publisher confirms nor `mandatory`: in
  `Routing`, where a client is told that its message was submitted, `Publish` writes a
  frame to the connection and `SubmitReturns` answers, before or after the broker has it
  (`BrokerTakes`) or loses it (`BrokerLoses`). In `HttpRpc` and `Turn` the broker may have the
  message from the time it is written, and need never hand it on: that it has it only later
  changes nothing that a reply or an event meets. Publishing an event never fails in `HttpRpc`; publishing the
  inbound message may, before or after the broker has taken it.
* **Setup** (`Connectors`, `Worker`) is a sequence of steps that open a publisher,
  create a consumer, or add the worker's routes to the server; the order is the code's
  (`workers.py:179-230`, `junebug_message_api.py:107-122`). It may raise after any of
  the steps in `MayFailAt`, the one after the last being `start_consuming`; the worker
  is then closed, as `cli.py:83` does.
* **The HTTP server** (`Worker`) is hypercorn, which is external: it serves from the
  worker's constructor on; told to stop, it waits for the requests there are and
  cancels them when its graceful timeout is over.
* **Configuration**: the value of a field is a model value that names its source, and
  a dictionary a function. Conversion to the fields' types is left out.
* **PDUs on the stream** (`SmppInbound`): the SMSC passes text, data coding and the
  `sar_` parameters on as they were submitted, in any order; it repeats a PDU that
  was not answered, and may repeat any. A PDU with a `message_payload` has an empty
  `short_message`, as the library's decoder gives it. One PDU is handled in one step there;
  `SmppSession` has the waits inside that step.
* **A codec** writes each character as a word of octets in one of its modes, with octets
  between that change the mode, and begins and ends a text in its first. What it reads in
  a mode is another table, from a word to text and the next mode. `gsm0338`, the default
  alphabet, writes the escape character as the octet 27 and reads 27 with the octet that
  follows as one character; `iso2022_jp` is the one with modes. Assumed is what a decoder
  needs to work at all: the words *read* in a mode do not begin with one another, and the
  octets that change the mode are read as that. That a codec reads what it wrote is not
  assumed, but a predicate of a text (`ReadsBack`).
* **Data codings**: `data_coding_overrides` come before the codecs of `DataCodingCodecs`; a
  coding with neither, or with the name of no codec, has `None`, and raises.
* **Characters** are model values; the codecs of the instances are a cut of the default
  alphabet, with characters of one octet and of two (the escape), and one with two modes.
  The lengths 160/153 and 140/134 are scaled to 5/4 and 5/5 octets, so that a cut falls
  inside a character, and in the shifted mode, as it does in the code.
* **Channels without buffer** (`SmppSession`): a sender is done when the receiver
  takes the item; senders are served in order of arrival. The task that receives
  goes on in a step of its own.
* **The reader hands over and yields** (`SmppSession.ReaderGoesOn`): leaving
  `async with send_channel` is a checkpoint, and the task that got the response was
  made runnable before the reader was. trio may shuffle the tasks of one batch, but
  the woken task is in the batch before the reader's next one.
* **The SMSC** is external: it answers in any order, may refuse a bind or a submit
  but not an enquire link, sends nothing of its own before the bind, and no receipt
  of a segment before its response.
* **Event URLs** (`Routing`): with `store_event_info` off nothing is stored
  (`junebug_state_cache.py:44`, `:63`), and `UrlKept` is empty.
* **Delivery reports on the stream** (`SmppInbound`): `dr_processor` is asked before the
  short message processor (`client.py:295`), and its last resort matches the text of any
  PDU. What matches is a set of texts (`Reports`); such a PDU is answered and goes no
  further. What becomes of reports is in `SmppSession`.
* **Queues between processes** (`Routing`): a message stays with its consumer until
  the handler's last call has ended, and a restart before that puts it back, so that
  messages are handled again and there may be copies of what a handler published.
  One copy of a message is handled at a time; copies do not differ.
* **Crashes** are modelled where something outlives the process (`Connectors`,
  `Routing`, `Turn`: the broker's queues; `SmppInbound`: what the SMSC was not told it
  delivered) or is lost with it (`SmppInbound`: the parts; `Routing`, `Turn`: the
  caches). An SMPP session ends with the first exception in any of its tasks
  (`status`, `session`), which ends the process.

## 3. Runs

| Run | Specification, bounds | What it shows |
|---|---|---|
| `timeout_dict` | `Spec`; 3 keys, 2 values, timeout 1, clock to 4 | insertion order is timestamp order (`OldestFirst`), which the early stop of `_remove_expired` relies on, and the dictionary implements `ExpiringMap` (`ImplementsExpiringMap`) |
| `http_rpc` | `FairSpec`; a base-class request and an AAT request, two replies to each, a reply without content, a message that replies to nothing | `BaseNoLeak`, `OneAckPerRequest`, `AckedReplyIsTheAnswer`, `UnmatchedOnlyWhenSettled`, `NoLostWakeup`, and `EveryRequestEnds` |
| `aat_leak` (*violation*) | the same instance | `NoLeak` fails for AAT: finding 1 |
| `worker` | `WFairSpec`; 2 connectors of a publisher and a consumer of 2 tasks, 2 messages on one queue, an HTTP request, setup that may raise after its first step, 1 crash; 2 fields, given or not by each of 3 sources, one of them in a section that may be empty | `LayersOverride`, `HandlersCanPublish`, `RequestsFailOnlyAtTheEnd`, `ClosedIsDrained`, `ClosedIsQuiet`, `ShutdownFinishesWhatItTook`, `ShutdownCompletes`, `EveryMessageIsSettled` |
| `setup_fails` (*violation*) | the same, without a crash; setup raises after its second step, when a consumer was created | `ShutdownCompletes` fails: finding 2 |
| `smpp_submit` | `AnsweredSpec`; a message of one PDU and one of two, an inbound message, refusals, final reports, 4 sequence numbers, 2 unread PDUs | `EachAwaitsItsOwnNumber`, `OwnResponse`, `OutcomeIsTrue`, `AckBeforeReport`, `EveryReportIsForwarded`, `EverySubmitEnds`, `EveryInboundIsPublished` |
| `smpp_duplex` | `TimedSpec`; one outbound message, two inbound ones, one of them in two parts, an enquire link of ours, requests without a handler, timeouts, unbind, silence, stray and wrong responses, 3 sequence numbers, 1 unread PDU | `OneInboundAtRisk`, `SilenceIsNoticed` |
| `smpp_inbound` | `Spec`; 7 texts of 3 senders: one with UDH and an escaped character before the cut, one with SAR cut in an escaped character, whose second part reads as a report, a short one that begins like a part and has the escape character, one with the 16-bit header in an overridden data coding and shifted to another mode where it is cut, one in a data coding without a codec, one that cannot be encoded and one of too many parts; PDUs longer than a read, 2 under way, 1 needless repeat, 1 restart | `FramesInStep`, `NoPduWaits`, `PartsMakeTheText`, `OnlyOriginals`, `CompleteIsEmitted`, `OnlyUnreadableTextsRaise` |
| `smpp_inbound_shared` (*violation*) | `Spec`; two senders whose texts have as many parts, and whose numbers are as far | `OnlyOriginals` fails: finding 3 |
| `routing` | `Spec`; one inbound message, two applications, three overlapping patterns, a message with an event URL that is a reply or not, two events, timeout 1, clock to 2, one restart | `EventsComeHome`, `OnlyTheBrokerLoses`, `DroppedOnlyIfForgotten`, `OwnUrlUnlessForgotten`, `RefusedOnlyIfForgotten` |
| `turn` | `Spec`; two messages of a user stamped against the order of their ids, one retry, a request for that user or another, an ack, timeout 1, clock to 3, one restart | `RepliesToTheLatestTold`, although entries expire during the query's scan, and `ForwardedUnlessExpired` |
| `turn_reports` (*violation*) | the same with delivery reports | `ForwardedUnlessExpired` fails: finding 4 |

**Why the bounds are enough.** The interesting cases need few actors. Three keys
let an entry be first, last and in between, and four ticks let an entry expire, be
stored again and expire again. Two replies per request are what a race is made of,
and requests do not interact except through their own table entries. In `worker`, two
messages on a queue of prefetch two let both tasks be busy at once, one be still in
the buffer when closing begins, and one be delivered to a closing consumer; the idle
second consumer is what makes "all consumers" differ from "some". Two fields, one
nested, are what a layer can hide of another. In `smpp_inbound`, the texts are sent one
after the other, because nothing but the sequence number of their sender connects
them, and delivered in every order; a read gets 14 octets or what there is, which is
less than the longest PDU has and one more than some, so that a read ends in a header, at
the end of a PDU or in it. A text in the
`message_payload`, in one PDU, is left to the proofs. In `smpp_duplex` two inbound messages are as many as the
property compares, and one of two parts has a part that completes nothing, before or after
the other message, and a last one. In `smpp_submit`
the bind takes number 1, the two messages 2 or 3 numbers each (one only makes the
reference of the long message), so that five numbers are handed out of four: the
number wraps while requests are out, and no two outstanding requests can be a whole
cycle apart. `Window` limits how far the SMSC runs ahead of the reader. In `routing` the user's
own address is mapped to the other application, and a later pattern overlaps the
right one, so that the wrong address or the wrong end of the list would show; two
events of a reply are what a lookup that is not repeatable would fail on, and with
one restart the others arise from redelivery. Messages of different conversations
share nothing.

**Deadlock** is checked for `TimeoutDict`, whose callers can always go on. The other systems really stop: every request over, the worker down,
the session ended by an exception, every text delivered, every message routed
or answered.

**Fairness.** trio runs every runnable task, and a nursery runs its tasks until they
end: weak fairness of each task's steps. Beyond that:

* `HttpRpc.FairSpec`: a deadline passes. Nothing of the broker, the application, the
  client, or of the publish: `EveryRequestEnds` needs only the time limit.
* `Worker.WFairSpec`: the broker delivers and settles, a handler returns, and
  hypercorn's graceful timeout passes. No shutdown, request, crash, publish or
  exception is owed.
* `SmppSession.AnsweredSpec`: the SMSC answers every request it has read
  (`SmscAnswers`); no timeout is owed. A submit has no time limit in the code, so
  that `EverySubmitEnds` is a claim about an SMSC that answers.
* `SmppSession.TimedSpec`: time limits expire and the SMSC owes nothing;
  `SilenceIsNoticed` needs only the enquire link.

## 4. Findings

Four places where the program does not do what the repository says of it, each
with a run whose counterexample shows it:

1. **AAT leaves results behind** (`transports/aat_ussd/aat_ussd.py:117`,
   `transports/httprpc/http_rpc.py:144`). A reply handled after its request ended
   stores its response, and only then raises `KeyError`: the entry stays for the
   life of the process. `NoLeak`, run `aat_leak`. The base class checks first, and
   `BaseNoLeak` is proved.
2. **Closing a worker that never started consuming hangs** (`connectors.py:90`).
   `_closed` is set by the last worker task to end; without tasks nobody sets it.
   This is reached when `setup` raises, or is interrupted, after a consumer was
   created and before its tasks were spawned, because `cli.py:83` closes the worker on
   the way out. `ShutdownCompletes`, run `setup_fails`; with a setup that raises before
   its first consumer it holds, run `worker`.
3. **Parts of different messages are joined** (`transports/smpp/smpp_cache.py:42`).
   The key is the reference number and the number of parts; neither sender nor
   recipient is in it, and a reference has as few as eight bits. `OnlyOriginals`,
   run `smpp_inbound_shared`.
4. **Delivery reports do not reach Turn** (`turn_channels_api.py:203`). Events are
   looked up by `sent_message_id`, which the transports set on acks and nacks only.
   `ForwardedUnlessExpired`, run `turn_reports`; of acks alone it holds, run `turn`.

The models also contain behaviour that is surprising but that no run is spent on:

* `AskFails`: an entry that expires between two steps of
  `fetch_last_inbound_by_from_address` changes the size of the dictionary under its
  iterator, and the query raises `RuntimeError` (`message_caches.py:105-109`).
* A request to the Turn API that names a `reply_to` skips the query and with it the
  only assignment of `inbound`, and ends with `UnboundLocalError`
  (`turn_channels_api.py:250-262`; `AskNamed`).
* A message that Turn sends in answer to one message may go out as a reply to the
  user's next one, which is in the cache but has not reached Turn yet
  (`RepliesToTheLatestTold` allows it).
* "Message submitted" is answered when the message was written to the connection: it may
  still be in flight, and lost with the connection, or dropped by the exchange because the
  router has not declared its queue yet (`connectors.py:139`, `junebug_message_api.py:214`;
  `BrokerLoses`). `OnlyTheBrokerLoses` says that there is no other way to lose it.
* The parts of a message that is not complete were confirmed to the SMSC and are in memory
  only, so that a crash loses any number of them; the documentation says of the cache that
  it "will not survive process restarts" (`docs/transports/smpp.rst:302`). `OneInboundAtRisk`
  says what is lost besides: one complete message at most.
* A submit answered by `generic_nack` is dropped without any event, although other
  refusals give a nack (`client.py:249-252`; `WrongResponse`).
* A second delivery report for a segment is dropped: `get_smpp_message_id` pops the mapping
  that it looks up (`smpp_cache.py:68`), although `_create_event` deletes it only after a
  report that is final (`processors.py:421`). Where intermediate notifications are asked for
  (`docs/transports/smpp.rst:241`), the final report finds nothing. The model has the step
  (`SmscMay` with "report pending"); `EveryReportIsForwarded` is checked and proved of
  one report for each segment.
* The response to an unbind may not be written: `handle_unbind` raises as soon as the
  writer has taken it (`client.py:309-310`; `UnbindRaises`).
* A second AAT reply handled before the first was sent takes its place, and the
  client gets the one that was not acknowledged (`AckedReplyIsTheAnswer` is stated of
  the base class only).
* A text with a character cut in two ends the receiver's session: the half that is
  left over raises `UnicodeDecodeError` (an escape at the end of the octets,
  `StopIteration` and with it `RuntimeError`, `codecs.py:68`), the PDU is not answered,
  and the SMSC delivers it again to the next session (`HandleRaises`, `Restart`).
* A data coding without a codec, which about half of them are, does the same (`KeyError`,
  `processors.py:470`), and so may one that an override gives another codec than the
  sender's. On the way out it raises in the handler, and the message is discarded
  (`processors.py:168`; `SubmitRaises`).
* The escape character is in the default alphabet's table (`codecs.py:5`), so that it can be
  sent, but is not read: it makes another character of the one that follows, and at the end
  of the octets it ends the session. `OnlyUnreadableTextsRaise` says that nothing but these
  three ends a session over a text.
* A long text in JIS that is cut where the codec is shifted comes out as another text: each
  part is decoded from the codec's first mode (`processors.py:552`; `TextRead`).
* A text that matches the pattern of delivery reports is taken for one, whatever the PDU's
  `esm_class`: it is answered and no message is made of it (`client.py:295`; `HandleReport`).
* A plain text that begins like a concatenation header and whose numbers fit is taken
  for a part: the UDH indicator of the PDU is not looked at (`processors.py:519`). The
  text of the run begins that way with numbers that do not fit.
* With UDH, a text of more parts than 255 raises `ValueError` after its reference took a
  number (`processors.py:251`; `TooManyParts`); with SAR the library's encoder raises in
  the writer, which ends the session.
* A configuration file that is empty, or has an empty section, is `None` where a
  dictionary is expected: `AttributeError` before the worker starts (`config.py:145`;
  `LoadRaises`). No file is read unless `VUMI_CONFIG_FILE` is set, although the
  docstring names a default (`config.py:170`).
* A request that arrives while the worker closes may find its publisher closed and end
  with a 500, but only once every consumer is drained (`RequestsFailOnlyAtTheEnd`).
* A message of Junebug that replies to nothing, like an expired reply that is sent as a
  message of its own (`allow_expired_replies`), names the application's connector as
  its transport. Behind a router there is no such transport: the handler raises
  `KeyError` and the message is discarded, although the client was told "message
  submitted" (`junebug_message_api.py:232`, `routers.py:109`; `OnlyTheBrokerLoses` is
  therefore stated of replies where it is about the router).

## 5. Proofs

### The HTTP transports

`HttpRpcProofs` proves, for every set of requests, of replies, and every assignment
of replies to requests that satisfies `HttpRpcAssumption`:

| Theorem | Statement |
|---|---|
| `Invariance` | `Spec => []IInv` |
| `TypeCorrect` | `Spec => []TypeOK` |
| `BaseLeavesNothing` | `Spec => []BaseNoLeak` |
| `OneAck` | `Spec => []OneAckPerRequest` |
| `AckedAnswer` | `Spec => []AckedReplyIsTheAnswer` |
| `Unmatched` | `Spec => []UnmatchedOnlyWhenSettled` |
| `Woken` | `Spec => []NoLostWakeup` |

None of these is inductive alone. That a second reply is not acknowledged needs that
a request still in the table is one no reply was acknowledged for. `TableInv` says
that a registered request's event is not set and that its task is still to run its
clean-up; `AckInv` that an acknowledged reply has set its request's event, and that
its result is not replaced. `TraceInv` says what the await a task is at implies for
the tables, `ResultInv` that a set event comes with a result until the task is over
(and, in the base class, that there are no other results), `AnswerInv` that nothing
is answered early, `NamedInv` that an unmatched reply names a request. `IInv` is
their conjunction with the properties. There is a lemma per action, with a step per
conjunct the action can disturb, and `NextPreserves` puts them together.

Assumed of the constants: replies name a request or `None`, `Aat` is a set of
requests, and replies, `None` and the fixed answers are different things.

### The worker and its connectors

`WorkerProofs` proves of `Connectors`, for every set of consumers, publishers and messages, every
concurrency, every order of the setup, every place where it may raise, and any number
of crashes:

| Theorem | Statement |
|---|---|
| `ConnectorsInvariance` | `Spec => []CInv` |
| `Publishable` | `Spec => []HandlersCanPublish` |
| `Drained` | `Spec => []ClosedIsDrained` |
| `FinishesWhatItTook` | `Spec => ShutdownFinishesWhatItTook` |

`ClosedIsDrained` is what `_active_consumers` is for: the task that stops last sets
`_closed`. It is not inductive, because nothing in it bounds what the tasks hold.
`BusyInv` does: a consumer has no more busy messages than tasks that have not stopped,
so that the last one, which is idle when it stops, leaves none. `StartInv` says that
only a started consumer has tasks, that one that was not started has no messages, and
that none starts before the setup is complete; `PhaseInv` which publishers are open in
each phase, and that publishers close only when every consumer that was created is
closed. Then a handler that runs (`HandlersCanPublish`) has a task, its consumer is
started and not closed, so that the setup was complete and no publisher has closed;
and a channel that closes (`ShutdownFinishesWhatItTook`) has nothing to hand back but
what its consumer ignored. There is a lemma per action, except that the five that move
a busy message on share one (`BusyMovesOn`).

and carries this over to the process:

| Theorem | Statement |
|---|---|
| `ImplementsConnectors` | `WSpec => Spec` |
| `WorkerInvariance` | `WSpec => [](CInv /\ WInv)` |
| `WorkerPublishes`, `WorkerDrains`, `WorkerFinishes` | the three properties, of `WSpec` |
| `RequestsOutlastConsumers` | `WSpec => RequestsFailOnlyAtTheEnd` |
| `ClosedQuietly` | `WSpec => []ClosedIsQuiet` |
| `Layers` | `WSpec => LayersOverride` |

`WInv` says that a request that runs found the routes, which were added after every
publisher was opened, so that a closed one was closed by the shutdown; and which
phases of the process have a server.

`Layers` is about `Combine` and `WalkConfigClass`. `Look` is what a dictionary has for a
field, or else a default: what it finds in two dictionaries that were combined is what it
finds in the second with the first as its default (`LookCombined`), and that holds in a
section because the sections are combined and not replaced.

Assumed of the constants: each queue has a consumer, a consumer at least one task, the
setup sets up every consumer and publisher, the routes come after the publishers (as in
`http_rpc.py:46`, `junebug_message_api.py:111`, `turn_channels_api.py:129`), and there
are finitely many messages.

### The dictionary

`TimeoutDictProofs` proves, for every timeout, all keys and values and any bound on the
clock:

| Theorem | Statement |
|---|---|
| `Invariance` | `Spec => []IInv` |
| `InsertionOrderIsTimeOrder` | `Spec => []OldestFirst` |
| `Refinement` | `Spec => ImplementsExpiringMap` |

`IInv` is `OldestFirst` with one entry per key. In `TimeoutDictLemmas`, a lemma for each
operation says what it leaves behind as a set of entries, and that it leaves them
ordered: `Cleaned` is where the order is needed, since the entries behind the first
fresh one are kept unseen.
With the dictionary a set, `LiveIsFresh` says that a key holds its one fresh entry and
`LiveLater` that all that time does to it is let it expire, so that each operation maps
to the one of the same name. Assumed of the constants: `None` is neither a value nor an
entry, and the timeout is a natural number.

### The Turn API and its cache

`TurnProofs` proves, for all messages, requests and recipients, every timeout and any
number of retries and restarts:

| Theorem | Statement |
|---|---|
| `CacheInvariant` | `Spec => []IInv` |
| `LatestTold` | `Spec => RepliesToTheLatestTold` |
| `Forwarded` | `Spec => ForwardedUnlessExpired`, if no delivery report is published |

`IInv` says that the dictionaries are ordered, as `TimeoutDictLemmas` have it; that what
was stored and has not expired is there, under its own id, until a restart
(`InboundsKept`, `OutboundsKept`); that a query that is not going to fail has found all
of the sender's messages among the entries it has passed (`Searched`); and that there is
at most one request for a query, and what Turn knew when it was made is still held or the
query will fail (`Asked`). The last two rest on `Untouched`: a cleaned dictionary that is
as long as it was is the same dictionary. The size is all that Python's iterator looks
at, and the proof shows that here it is enough, because between two steps of a query
nothing is stored. `LatestOfAll` says that `max` finds the latest. For `Forwarded` there
is nothing more to say than `OutboundsKept`; without its hypothesis the statement is the
one that finding 4 refutes.

Assumed of the constants: ids are unique (`CacheAssumption`), stamps are comparable, and
`None` is no message and no id.

### The router

`RoutingProofs` proves, for any applications, patterns (overlapping or not, with a
default application or without), messages, events, timeout and number of restarts:

| Theorem | Statement |
|---|---|
| `Invariance` | `Spec => []RInv` |
| `EventsReachTheSender` | `Spec => []EventsComeHome` |
| `OnlyTheBrokerLosesReplies` | `Spec => []OnlyTheBrokerLoses` |
| `Kept` | `Spec => [](RInv /\ KInv)` |
| `DropsOnlyForgotten` | `Spec => DroppedOnlyIfForgotten` |
| `OwnUrls` | `Spec => OwnUrlUnlessForgotten` |
| `RefusesOnlyForgotten` | `Spec => RefusedOnlyIfForgotten` |

`EventsComeHome` relates the first step of a message's way to the last, with four
queues between them, so that `RInv` has a conjunct for each stretch: an application is
only sent what its patterns match (`InboundInv`); what it sends as a reply is a reply
to that, so that the reply's sender is an address of its own (`RequestInv`); the
transport gets replies only (`SentInv`), since the router fails on anything else; and
an event is about what the transport got and is routed by the reply's sender
(`EventInv`, `PostedInv`). `FrameInv` says that a request is
answered after its frame was written, and `TakenInv` is the rest of `OnlyTheBrokerLoses`:
what the broker took stays in the queue, with the handler that stored it, or was sent on;
its step that matters is the restart, which puts back what was not settled. `HandleEffect`, `PublishEffect` and `RequeueEffect` say what
a handler, a publisher and a restart do to the queues. A restart keeps all of `RInv`
because the caches are not part of it: what is in a cache only decides whether an
event is routed and not where.

The caches are the subject of `KInv`. Each of its conjuncts says of one of them that
what some later step asks for was stored before: the sender of a reply before the reply
was sent on (`OutboundsInv`), the URLs of a reply before the router could have it
(`SubmittedInv`, `UrlsInv`), an inbound message before the application was told of it
(`InboundsInv`), each time unless a restart emptied the cache since. An entry that is
there and is not returned is then too old (`NotFresh`), which is all that the three
action properties allow; the order "store, then publish" in each handler is what the
proofs use, across all restarts and redeliveries.

Assumed of the constants: the router is not an application, every reply answers an
inbound message, and `None` is neither an application nor a moment.

### The SMPP session

`SmppSessionProofs` proves, for any messages and segments, any window and any set of
things the SMSC may do:

| Theorem | Statement |
|---|---|
| `SessionInvariant` | `Spec => []SInv` |
| `AtMostOneAtRisk` | `Spec => []OneInboundAtRisk` |
| `RequestsInvariant` | `Spec /\ []NumbersApart => [](SInv /\ FInv)` |
| `OwnNumbers` | `Spec /\ []NumbersApart => []EachAwaitsItsOwnNumber` |
| `OwnResponses` | `Spec /\ []NumbersApart => []OwnResponse` |
| `OutcomesTrue` | `Spec /\ []NumbersApart => []OutcomeIsTrue` |
| `AcksFirst` | `Spec /\ []NumbersApart => []AckBeforeReport` |
| `ReportsForwarded` | `Spec /\ []NumbersApart => EveryReportIsForwarded`, for an SMSC that sends one report of a segment |
| `NumbersSuffice` | `Spec => []NumbersApart`, if the numbers suffice |
| `ShortSession` | the four invariants from `OwnNumbers` to `AcksFirst`, if the numbers suffice |

`OneInboundAtRisk` is about every PDU that was confirmed, those of messages in parts
included. `KeptInv` says of a part whose response is offered, with the writer or sent that
it is in memory, or its message is with the forwarder or beyond. That is inductive with
`OnceInv`: each PDU is read once, so that the part that completes a message, which the
reader holds while the forwarder takes the message, was not confirmed before. Of a message
whose parts were all confirmed one is not in memory (no message is complete there), hence
the message is in the line, with the forwarder or published; it is not in the line, because
the channel has no buffer: the reader is at one channel at a time (`PduQueueInv`,
`ItemQueueInv`) and what it offers there it has not confirmed. So it is the one that the
forwarder has. How many *parts* are at risk is not bounded: the parts of messages that are
not complete are in memory only, and the theorem says that they are there.

The others need a hypothesis, since sequence numbers come round: a request that is still
pending when another takes its number is forgotten by the table. `NumbersApart` says that
the numbers of the tasks that are pending, those that a message of several segments has
taken and not used yet included, are different. It is about the sequencer and not about
the answers, and `NumbersSuffice` proves it of every session that takes no more numbers
than there are (2^31 - 1 in the code, at one for the bind, one for each enquire link and
one more than its segments for each message): the spans of numbers that the tasks took
lie one behind the other (`SpansInv`), and what was not started yet finds room after
them (`RoomInv`). In the runs the numbers do come round.

`FInv` follows a request: in the table under its number (`TableInv`); offered, with the
writer, with the SMSC or answered, once (`RequestQueueInv`, `FlightInv`); and its response
with the task that sent it (`ReplyInv`). Three invariants stand on it:

* `OInv`: what a response on its way says, the SMSC did; a message is at a segment only
  when those before it were accepted. So an ack is of all segments.
* `LInv`: an id in the cache is that of a message whose ack is in the forwarder's line or
  beyond; the reader, which finds it there, can only get in line behind.
* `EInv`: the id of an accepted segment is in a response in front of its report, with the
  handler that the reader waits for (`ReaderGoesOn`), in the cache, or was used. The
  report is read after the response, hence after the handler has stored the id.

The last does not hold for an SMSC that also sends pending reports: the first report of
a segment removes its id (section 4). Assumed of the constants (`SmppSessionAssumption`):
every message has a segment, and tasks, segments, PDUs, items and `None` are different
things; in `NumbersSuffice` also that there are finitely many messages.

### The inbound texts

`SmppInboundProofs` proves, for any texts, senders, codecs and ways to send, any length
of a message and of a part, any sizes of reads and any window, number of repetitions and
of restarts:

| Theorem | Statement |
|---|---|
| `StreamTheorem` | `Spec => [](SendInv /\ StreamInv)` |
| `FramesStayInStep` | `Spec => []FramesInStep` |
| `NoneWaits` | `Spec => []NoPduWaits` |
| `PartsAlwaysMakeTheText` | `Spec => PartsMakeTheText` |
| `CacheTheorem` | `Spec => [](CacheOK(cache) /\ CountsOK)` |
| `TypeCorrect` | `Spec => []TypeOK` |

and, if no text that is sent in one piece is taken for a part (`NoneLooksLikeAPart`):

| Theorem | Statement |
|---|---|
| `TextsCanBeRead` | `Spec => []SentTextInv` |
| `OnlyUnreadablesRaise` | `Spec => OnlyUnreadableTextsRaise` |
| `TextsTheorem` | `Spec /\ []KeysApart => []TextsInv` |
| `OriginalsOnly` | `Spec /\ []KeysApart => []OnlyOriginals` |
| `CompleteAreEmitted` | `Spec /\ []KeysApart => []CompleteIsEmitted` |

Both hypotheses are about the texts, and the code does not see to either. A text that
begins like a header, with numbers that fit, is taken for a part (section 4); and the
cache's key is the reference and the number of parts only, so that two senders can share
one: `KeysApart` says that they do not, and `smpp_inbound_shared` shows what happens if
they do. The texts of `smpp_inbound` are as supposed: the one in one piece
that begins like a part has numbers that do not fit, and of the long ones no two are cut into
as many parts under one reference. Added to the run's invariants, both predicates hold.

What these theorems say of a text, they say of every text, whatever codec it was written and
is read with. `TextRead` is what its message holds: the text, if it is `Readable` (encoded
with the codec that it is decoded with, which reads back each of its characters) and
was not cut in a shifted mode; else what the pieces it was cut into are read as one by one,
joined in their order. A text that has no codec on the receiving side is never handed on, and one that
reads as a report is excluded from `CompleteIsEmitted` only.

*The stream.* `FramesInStep` says of two sequences of octets what the PDUs that are due
make them; that the next PDU is cut out whole needs besides that each has the size of its
header at least and was sent (`DueInv`), and that the session ends only with a PDU in hand
(`ReaderInv`). `CutsWhole` is the step that matters: if the buffer and the wire begin with
the octets of a PDU, `extract_pdu` takes these and no other, or nothing while some are on
the wire.

*The parts.* `SplitWhole` says that the pieces of `_split_message` joined are what was cut,
`UdhPart`, `Csm16Part` and `SarPart` that `_extract_multipart` finds in a PDU the part
that was put there (a header of one form is none of the other, `BothHeaders`), and
`PartsMakeIt` puts this together. For a reference of more than an octet that needs what
`int.from_bytes` returns (`FromBytesType`). `FoundPart` is about every PDU, also those
that were not meant to be parts: what is found has a number between one and the number of
parts, because the code checks it. That is what `TypeOK` needs of the cache: the parts of
one key have different numbers among those (`NoMoreThanNumbers`), so that a key that is
not complete has less than all.

*The texts.* `Decode` is a fold. `DecodeIs` reduces it to the sequence of its intermediate
values (`IsRun`), of which there is one (`OneRun`). From that follow `DecodeCat` (what comes
after something decoded whole is decoded as by itself, in the mode that was reached),
`DecodeWord` (a word that the codec reads in that mode is read as that word: here it matters that
none begins with another) and `DecodeShift`; and by induction on the characters
`DecodeWritten`: any beginning of a text that is read back is decoded to that beginning, and
leaves the codec in the mode it was written in. `DecodeEncodes` is that of the whole text.
`EncodeBegins` makes it a statement about the octets up to a cut (`BoundaryEnds`), so that a
part between two cuts that leave the codec in its first mode can be decoded (`CutsDecode`):
that is `OnlyUnreadableTextsRaise`, whose other cases need no lemma, because they are the
texts that the property leaves to end a session. `DecodeParts` is the other direction: parts
that are decoded one by one, each to the end and to the first mode, are decoded together, so
that their texts joined are the text (`ReadTogether`).

*The cache.* `SentTextInv` says that what was sent of a text is its parts or one piece that
is none, of its coding. `CachedInv` says that what is in the cache was stored from the PDU of
a text that was sent. When a key is complete the parts gathered under it are as many as the
numbers there are, hence all of them (`AllNumbers`), and of one text (`OneText`, from
`KeysApart`); numbers that rise from one to as many as there are parts leave one order
(`RisingNumbers`), so that `Joined`, whichever order its definition chooses, is the text
(`CompletesText`). `CompleteIsEmitted` needs in addition what was not lost: a part that was
answered is in the cache until its text is handed on, unless the transport restarts
(`KeptInv`). If all of a text were answered and it was not handed on, the cache would have
as many parts under its key as the text has, which `CacheOK` excludes (`AllAnswered`).

`FlattenSeq` and `FoldLeft` of the community modules are recursive functions. The library's
induction theorems cannot be used (they take an operator), but that `<` is well-founded on
the naturals is a theorem without one: `Upwards` is induction stated of a set, and
`FlatExists` and `FoldExists` use it to show that these functions exist.

Assumed of the constants (`ShortMessagesAssumption`, `SmppInboundAssumption`): a codec is one
in the sense of section 2 (`IsCodec`), lengths are positive, a text is a sequence, a text sent
with SAR has no more parts than an octet counts, and `None` is no sequence, part or triple.
Nothing is assumed of how a codec's two tables go together, of the overrides, or of which
texts read as reports.

### What TLC checks only

Every invariant and action property of a run that passes is stated by a theorem, some
under a hypothesis named there. Liveness is beyond the proof system and stays with TLC:
`EveryRequestEnds`, `ShutdownCompletes`, `EveryMessageIsSettled`, `EverySubmitEnds`,
`EveryInboundIsPublished` and `SilenceIsNoticed`.

## 6. Plan

In order of importance:

1. One module of the SMPP transport, with the waits of `SmppSession` inside `SmppInbound`'s
   handling of a PDU: the session's model has parts without contents, the other has contents
   without waits.
2. The order of middlewares, if one with a state is added.

## 7. Not modelled

* **Requests** of both APIs are not parsed, nor signatures verified: no state.
* **Character tables, regular expressions of delivery reports (but for which short messages
  they match, a constant), the status table**: data.
  The encoding of a PDU's fields is a library's (`smpp.pdu`).
* **Middlewares**: functions from message to message without state, applied inside the
  handler; an exception in one is the handler's.
* **Class loading, argument parsing, conversion of values**: sequential and without
  state. The configuration is loaded again unchanged after a crash.
* **Message classes, serialisation, static reply, health check, Sentry, the AMQP
  client's construction**: no state that two steps share.
* **Expiry of the SMSC-id mapping** in `SmppSession`: a day, against seconds of a
  session; `TimeoutDict` covers it.
* **Rendering** of requests and responses (XML, JSON, query strings).
