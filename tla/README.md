# A verification project for the ChuMicro libraries

ChuMicro is a family of small libraries for microcontrollers running
CircuitPython or MicroPython: one cooperative loop (`Runner`) ticks services -
MQTT, WebSockets, HTTP, Wi-Fi, NTP, buttons, knobs - each a state machine
with a `check(now_ms)` / `handle(now_ms)` pair.  There are no threads.  What is
hard is what a single thread leaves: callbacks that call back into the object
that runs them, time that wraps, handlers that overrun, interrupts between two
bytecodes, streams that arrive cut anywhere, networks that lose, tear, delay and
repeat, and power that goes in the middle of a save.

The modules below model that system in TLA+.  TLC checks them on small instances;
TLAPS proves some of their theorems for every instance.

## 1. The system

| component | state it keeps | operations | talks to | what is hard about it | what makes it correct |
|---|---|---|---|---|---|
| `timing` (ticks, Deadline, Rate) | a millisecond tick on a ring of 2^29; a period and the next due tick | `ticks_add/diff`, `due`, `reset`, `expired`, `remaining` | everything that has a deadline | the wrap, lateness, stale reads | differences of ring ticks agree with true time; a rate stays on its grid |
| `timing.waits` (Signal, wait_for) | a flag and the deadline of its waiter | `set`, `clear`, a generator | generator tasks | a signal cleared or set again between check and resumption | a waiter is resumed by the signal or by its bound, and leaves no deadline behind |
| `runner` schedule | the entry list, each handle's schedule and count, a reused batch | `add`, `tick`, `wait`, `set_period`, `remove`, `run_until` | handlers, which may call any operation | handlers change the list and the schedules of the running batch; `wait` sleeps from a stale timestamp | never sleeps through a deadline, keeps phase, gap and quota |
| `runner` poll set | a registration per socket, the poller built on first use | `wait`, `_sync_poll_set`, `_dispatch_io_error` | services' `io_socket`, `io_interest`, `io_error` | descriptors are reused, objects wrapped, sockets shared | the poller watches exactly what is wanted |
| `runner` generators | a suspended body and what it yielded | `add_generator`, `cancel` | timing.waits, sockets | cancelled or woken by a handler of the same batch | every wait ends when it should |
| `sockets` | the DNS, TCP and TLS steps of a connector | `tick`, `cancel`, `connect`, `send_all`, `recv_until` | three runtimes | partial failure, cleanup | what failed is closed, what is cancelled is closed |
| `mqtt` client | protocol state, transmit queue, half-sent packet, in-flight table, awaited answers, subscriptions, timers, backoff | `connect`, `hold`, `disconnect`, `publish`, `subscribe`, `unsubscribe`, `handle`, `io_error` | broker, connector, the runner, six callbacks in the middle of `handle` | everything of a connection dies and comes back, callbacks re-enter, queues fill up | resources agree with the state; QoS 1 contract; acknowledgements once, in order; self-heal converges |
| `mqtt` decoder | one fixed receive buffer, skip state | `recv_into` capacity, `read_next`, the oversized drain | the client | compaction, packets larger than the buffer | the packets dispatched are the packets sent |
| `websockets` session | handshake phase, socket or connector, message being assembled, transmit queue, four timers, inbound queue | `connect`, `send_*`, `close`, `next_message`, `handle`; the server's `close` | peer, connector, runner, callbacks in the middle of `handle` | fragments, control frames in between, a full queue when it must close, sessions finalized inside a callback | a CLOSE always fits and is last; a closed session holds nothing and was reported; messages whole, once, in order; every wait ends |
| `websockets` wire | handshake parsers, a half-parsed frame | `feed`, the encoders | the session | cuts at any byte, lengths at every boundary | handshakes accepted are handshakes; frames read are frames sent |
| `websockets` server | the listener, the connection slots, the walk of a tick | `handle`, `close` (also from a session's callbacks) | kernel backlog, sessions, the runner | the list is walked while callbacks close the server or raise; a close() inside a close() | every open socket is in one slot, a closed server holds none, whoever waits is served |
| `requests` | one HTTP exchange, its handles, redirects, a window for streamed bodies | `request`, `handle`, `cancel`, `fetch`, `stream`, `BodyReader` | connector, server | a redirect replaces the connection under a live handle; every phase can fail, time out or be cancelled | a finished request carries what the server sent; nothing is held afterwards; each ends once |
| `http_server` | connection slots, a parser and a responder each | `handle`, handlers, `close`, body sources | clients | slow or cut requests, handlers that raise or close the server, body sources that misbehave | an answer reads back as what was meant or is visibly cut; slots are neither exceeded nor leaked |
| `ntp` | one query, its result, a UDP socket | `query`, `handle`, `cancel`, `close` | the network | lost, late, duplicated, malformed datagrams; the end of an era | one answer, to this query, in true time |
| `buttons` | a ring filled by an interrupt; timers per key | `check`, the interrupt, `deinit` | pins, the program | the interrupt between any two steps of the drain; a full ring; a late loop | a key reads as its pin; a click is told once |
| `knobs` | quadrature counters; a filter chain | `check`, the interrupt | shaft, wiper | interrupts that coalesce; bounds; rounding | no step lost that could be told; a bound owes nothing; every step reachable |
| `kvstore` | a dict, the last payload, dirty flags; the medium | mapping access, `commit`, `commit_if_changed`, `reload` | LittleFS, NVS, raw NVM, `msgpack` | power cuts and I/O errors at every step, values that change behind its back | saves are atomic as far as the medium lets them be; no change made through the store is forgotten |
| `msgpack` | none | `packb`, `unpackb` | `kvstore` | every width's ends, damaged bytes | what is packed is read back, and never as anything else |
| `wifi` | state, backoff, attempt budget, join deadline | `check`, `handle` | the radio adapter | late handlers, cold radios, links that drop between check and handle | backoff respected, budget exact, never restarted |
| `config`, `compat` | none to speak of | - | - | - | not modelled |

The runner calls `check`, `handle`, `next_deadline` and `io_error` of a service;
services own sockets the runner polls; MQTT, WebSockets and HTTP take a connector
from `sockets`; the Wi-Fi service gates nothing by itself - the network clients
notice a lost link through their own timers; all of them keep deadlines as ring
ticks of `timing`.

## 2. The modules

| module | models | notes |
|---|---|---|
| `TickMath` | `ticks_add`, `ticks_diff` for any even ring | the arithmetic everything relies on |
| `Cadence` | abstract: a rate and a deadline in true time | never wraps |
| `Timing` | `Deadline` and `Rate` on the ring | refines `Cadence` by `True == INSTANCE ... WITH toFire <- TicksDiff(...)` |
| `Runner` | the schedule: `Runner` and `TaskHandle` (core.py) | a tick is one step per entry checked, per handler fired and per call a handler makes |
| `PollSet` | what `wait()` polls (core.py) | a sweep is one step; services act between sweeps and while errors are told |
| `Generators` | `add_generator`, `Signal`, `wait_for`, `sleep_until`, `connect`, `send_all`, `recv_until` | a tick is one step of checks and one per resumption |
| `Connector` | `SocketConnector` on three runtimes | a record and the set of records one tick may leave; used by `Generators` and `HttpClient` |
| `MqttClient` | `MQTTClient` (client.py) | `pc` is the place in `handle()`; `cb` the callback that runs there |
| `MqttSystem` | the client with a broker and a breaking network | the properties of MQTT are here |
| `MqttPace` | `MqttSystem` with what a tick found and did | which deadlines a tick may leave in the past |
| `MqttDelivery` | abstract: the fate of a QoS 1 publish | refined by `MqttSystem` |
| `MqttWire` | `PacketDecoder`, the encoders of a stream, `topic_matches` (_wire.py) | over bytes, cut anywhere |
| `WebSocket` | a session of `_session.py` with `WebSocketClient` or the server's `Connection` | `pc` and `cb` as in `MqttClient` |
| `WebSocketSystem` | the session with a peer and a breaking network | the properties of sessions are here |
| `MessageStream` | abstract: whole messages, once and in order | refined by `WebSocketSystem` |
| `WebSocketServer` | `WebSocketServer` (server.py): accepting, slots, the walk, `close()` | a session is only how far it got; a visit, a callback and each session a `close()` ends are steps; `close()` calls under way are a stack |
| `WebSocketWire` | handshake and frame parsers and encoders (_wire.py) | over bytes, cut anywhere |
| `HttpResponse` | `ResponseParser` with its body window | operators on a parser record |
| `HttpClient` | `HttpClient`, `RequestHandle`, `fetch`, `stream`, `BodyReader` | one record holds what a tick works on |
| `HttpRequest` | `RequestParser` and the answer encoders | extends `HttpResponse`'s alphabet |
| `HttpServer` | `HttpServer`, `_Connection`, body streaming | a `handle()` is one step, computed by the functions the code has |
| `Buttons` | the interrupt and matrix sources, and the folding into presses and clicks | the interrupt may run between any two steps of the drain |
| `Knobs` | `Encoder` and `AnalogKnob` with their MicroPython sources | |
| `NtpClient` | `NTPClient` over a network of datagrams | |
| `Msgpack` | `packb`, `unpackb` | operators, with what damage may do to the bytes as actions |
| `WifiService` | `WifiService` (service.py) over a polled or a blocking adapter | the radio and access point are external |
| `DurableMap` | abstract: a dict whose saves are atomic, and what a medium that tears, or that is written in two calls, adds | refined by `KVStore` |
| `KVStore` | `KVStore` over LittleFS, NVS or NVM, with power cuts | a save is as many steps as the backend makes; a value may change in place |
| `MCMqtt`, `MCWebSocket`, `MCHttp`, `MCLoop`, `MCServices` | the instances TLC checks | section 3 |
| `TimingProofs`, `RunnerProofs`, `MqttSystemProofs`, `MqttSubscriptionProofs`, `MqttDeliveryProofs`, `MqttWireProofs`, `WebSocketSystemProofs`, `ServiceProofs` | the theorems | section 5 |

`PROJECT.json` maps every definition to its lines.  What the code fixes when an
object is built (reconnect_max, clean_session, the backend, the tasks an
application registers) is a variable chosen by `Init` from a set that is a
constant and never changed, so that one run covers several configurations.

How state and actions correspond:

* **Runner.**  `entries`, `pending`, and per handle `period`, `due`, `runs`,
  `active` are the fields of the same name (`due` is kept as the milliseconds
  left, negative when late; `DiffOfMove` of `TimingProofs` is why this loses
  nothing within half a ring).  `Tick`, `CheckPasses/Fails/Raises`, `NotReady`,
  `ChecksDone`, `Fire`, `HandlerEnds`, `Reenter` and `TickReturns` are the parts
  of `tick()`; `WaitReturns/Sleeps/Woken` of `wait()`; `Add`, `RemoveTask`,
  `SetPeriod`, `Arm` and `Spend` are what a handler or the application does,
  before a tick, after it or while a handler runs.
* **PollSet.**  `slots` is `_registered_interest`, `watched` what the kernel's
  poller holds.  `WaitWithoutPolling` and `WaitPolls` do the sweep of
  `_sync_poll_set`, the first poll builds the poller (`ReplayedPoller`);
  `DispatchError` is `_dispatch_io_error`, and what a service does about it is
  its own step.
* **Generators.**  `at` is the step a body is suspended at, `bound` the bound of
  its wait, `slot` the deadline a `Signal` holds for its waiter.  `GenTick` runs
  every `check()` and collects the batch, `Resume` resumes one task,
  `GenWaitReturns/Sleeps` and `GenWakes` are `wait()`.
* **MqttClient.**  One `handle()` is the sequence transport, deadlines, recv,
  dispatch (one step per packet), replay (one step per topic), drain.  A
  callback is the step after which `cb` names it; the application's operations
  are enabled at rest and wherever `cb` allows.  Packets are records in FIFO
  channels; timers count ticks down.  History variables record accepted,
  confirmed and excused publishes.
* **MqttWire.**  `unread` is what the network still has.  `ReadInbound(n)` is the
  `recv_into()` of a tick, of any number of bytes within the budget;
  `DispatchNext` is one round of the loop that follows it: a `read_next()` and what
  is dispatched of it into `dispatched`, until it returns None or raises (`reading`).
  A stream is given with what was sent and where each packet ends; only its last
  packet may be one the decoder must refuse.  A malformed PUBLISH that is also larger
  than the buffer is left out: its body is skipped unseen.
* **WebSocketWire.**  `coming` is what the network still has; a step is a tick that
  receives any number of bytes within the budget and parses them.  `session.got` is
  what came out.
* **WebSocket.**  One `handle()` is the handshake step of its phase, or recv (one
  step per chunk), feed (one per frame), drain (one per frame sent) and the
  automatic ping.  `_finalize_closed` is `flush` and `settle`, entered from a
  timeout, a CLOSE frame or a server that shuts down, and returns to where it was
  called from (`then`).  `inb` is the message being assembled.
* **WebSocketServer.**  `connections` is `_connections`, `stopped` is `closed`,
  `index` is `connection_index + 1`.  `AcceptPending` begins a `handle()`,
  `SessionOpens/Rejected/Tells/Ends/Waits` are what `connection.handle()` may do,
  `LeaveSession` and `SkipClosed` are what the walk does with the slot.  `running`
  is the callback that runs; in one the application may call `CloseServer` or
  `SessionCloses`, or raise.  `CloseNext` and `CloseReturns` are the loop in
  `close()` and what follows it.
* **HttpClient.**  `world.c` is the client, `world.h` its handles, `world.p` the
  server's side of the connection; `Tick` is `handle()` as the runner or a
  generator calls it, with the outcomes of the connector and of a failing factory
  or hook as a set.  `task` is the generator that drives it.
* **HttpServer.**  `server.conns` are the connections, with `s` their phase;
  `HandleServer` accepts, then ticks each connection through the phases in the
  order the code falls through them, until an exception leaves `handle()`.
* **Buttons, Knobs.**  An interrupt is an action of its own: `latched` says one is
  due, and one that fires while another is served reads the pin as it is then.
* **NtpClient.**  `wire` are datagrams under way, `inbox` what the socket holds;
  `query` drains at most `DRAIN_LIMIT` of them, and fewer when an empty one or an
  error of the socket ends the drain, as the code does.
* **WifiService.**  `pc` separates `check` from `handle` (the link may change in
  between) and a blocking `connect()` from its end.
* **KVStore.**  `StartSave` and the steps of the backend (create and truncate
  the temporary, write, sync and rename; `set_blob()` and `commit()` of NVS; one
  NVM slice) can each be cut short by `PowerCut` and, but for the NVM slice, by
  an error; `Boot` loads again.  `medium` is what `load()` reads, `unsettled` are
  the records NVS may hold in flash until a `commit()` returns.  `InPlace` is what
  the holder of a value does to it.

### Abstractions

* Runner: sleeping is exact; a `check()` is pure and takes no time (a raising
  one is modelled); a service that arms deadlines of its own is not also
  period-gated; what a removed handle keeps of its schedule is dropped because
  nothing reads it again.
* PollSet: `io_socket` and `io_interest` are pure within a sweep; a socket that is
  closed is let go of by every service that polls it; a slot keeps its socket
  object alive; the kernel hands out the lowest free descriptor.  CPython's poller
  is keyed by descriptor, the others by object.
* Generators: handlers take no time within a tick, time passes before a tick and
  in the sleep; a `Signal` has one waiter (see section 4); connects are CPython's.
* MQTT client: packets are records (a partial send is a packet of which the rest
  is owed); wills, payloads, retain flags and topics' text are left out; packet
  ids are 1..MaxId and wrap.  The on_oversized event is part of the delivery
  step.  The broker is an ordinary 3.1.1 peer: it acknowledges, grants or
  refuses, keeps a session, redelivers what was not acknowledged.  The peer and
  the network act between ticks, which is no restriction: `handle()` reads once.
* Wires: a byte is a small digit and the base of every length encoding is smaller
  (`VarBase` for 128, `Base` for 256), so that each boundary of the encoding is
  reached with streams of a dozen bytes; layouts are kept.  A handshake or header
  line is one symbol followed by CR and LF: a line, its end and a body can be cut
  anywhere, a line text only before or after.  SHA-1 and base64 of the handshake
  are the identity on the nonce.
* WebSocket: the socket carries whole frames; text and binary are one kind,
  with valid or invalid UTF-8; masks, keys, paths, close codes and reasons are
  left to the wire.  A raising callback takes the rest of its chunk along; the
  history flag `excused` records it, because what follows in the stream may then
  be torn.  The peer acts between ticks, which is no restriction: `handle()`
  reads before it writes.
* WebSocket server: each client dials once; a session's inside is `WebSocket`'s; how
  often callbacks raise, `close()` is called and `accept()` or the factory fails is
  bounded (`raises`, `closes`, `errors` of a server).
* HTTP: URLs, header dictionaries and JSON are left out; a route is which kind of
  route a request meets; a client's send is so many symbols, of which a tick may
  send some.
* Buttons, knobs: times are plain milliseconds; the runs end at a horizon or when
  the shaft and the wiper have made their moves.
* NTP: seconds wrap at `ERA`, with the fraction and the round trip left out.
* Msgpack: UTF-8 is ASCII, a float is its four bytes, integers stay below 2^31
  (TLC's integers end there).
* Wi-Fi: milliseconds are ticks of the model; adapters raise, link at once, or
  take a join time; saved history is the backoff owed and the time since.
* KVStore: a payload is the dict it encodes and its size the number of keys;
  key order and float rounding of the encoding are left out.  The flash erase
  under an NVM write is the firmware's: a cut leaves the old record, the new one,
  a torn one, or a blank slab.  After `set_blob()`, whether it returned or raised,
  flash may hold either record until a `commit()` returns, and a power cut settles
  it.  Writing NVM does not raise.  A value in place becomes another of the
  mutable ones.  A constructor that raises on an unreadable medium leaves the
  program off.

## 3. The runs

An MC module puts several components side by side.  In a behaviour one of them is
at work (`side`, or the component whose setup or stream is not empty) and the
others rest in one initial state, so a run explores the sum of their state
spaces and not the product; each property speaks of its own component.  What
interacts is composed for real: client, broker and network; session, peer and
network; HTTP client, connector, generator and server; generators and connector.

| run | question | bounds, and why they suffice |
|---|---|---|
| `mqtt` | do resources, acknowledgements, subscriptions and deliveries keep their contracts through faults; when may a tick leave a deadline in the past; are the packets read the packets sent? | five clients: clean session with keepalive and a torn send; kept session with a refusal and two inbound deliveries; a handed-over socket with queues that can just hold what the application has; one whose callbacks publish, subscribe, leave, redial and hold, and whose oversized messages disconnect; one whose answers may take two ticks of the clock while a ping is due after one, and whose queue has room for one packet beside the application's.  One topic, one publish, one subscribe, one or two control calls, one fault, ids 1..3 that wrap.  Two deliveries are needed to reorder or lose an acknowledgement, one fault and one redial to carry state across connections.  Streams of two or three packets against a buffer of 12: the least in which an oversized packet follows one that was consumed and precedes one that must still be read |
| `mqtt_live` | is a silent peer noticed, does self-heal converge? | two faults, a refusal, two control calls, no traffic |
| `mqtt_offline` | (violated) is a subscription made offline sent when the broker kept the session? | as `mqtt_live`, kept session |
| `mqtt_leave` | (violated) may on_disconnect call disconnect()? | one callback operation |
| `mqtt_drain` | (violated) is the decoder always willing to receive what is there? | two packets, the second with a topic of almost half the buffer |
| `websocket` | do closing, messages and timers of a session keep their contracts; are the handshakes and frames read those sent? | nine sessions: some assemble up to three frames of size 0, 1 and 3 against a limit of 2, in and out of place, to a callback, to the queue of one, or with the disconnect policy; a client with keepalive, a queue of 1 + 2 slots and a silent server; both roles ending in every way, also from their callbacks; both roles against frames that break the protocol.  Three frames are the least with a fragment before and after the offending one; every timer is one tick, so that each can be the first to expire.  Streams: a handshake and two frames, of every length next to a boundary, masked and not, whole and broken in each way |
| `ws_oversized` | (violated) is a message beyond the limit never delivered? | two frames, the first of which may be too large alone |
| `http` | does every request end with what the server sent, every answer read back as what the handler meant, and is nothing held afterwards? | fourteen replies (each framing, interim and redirect codes, each way to be malformed or too large) in up to seven client setups over three runtimes, driven by the runner, `fetch` or `stream`, with a window of two bytes that a body of three must pass; ten requests and nine answers (plain, raising, closing the server, and six streams that dry up, raise, exceed or miss what they declared) over one or two slots.  A receive is a byte or more than a tick's budget, cuts happen at every byte |
| `loop` | do deadlines, phase, gaps and quotas survive what handlers do; does the poller watch what is live; does every wait end; is the ring the cadence of true time; do keys follow their pins; is the store the durable map? | Runner: three programs of two or three tasks (`MCLoop`): every combination of plain, phased, delayed, counted, one-shot, gated service and polled service that shares code in `tick()`; periods 1 to 3 so that a cycle may miss several; two busy milliseconds per cycle, one escaped exception.  Poll set: two services, three socket objects, so that a descriptor is reused while its old owner's slot is still there.  Generators: three programs of two or three tasks that wait in every way, a signal waited for twice, bounded waits on both sides of a sleep, a connect.  Timing: a ring of 16, periods 1, 2, 3 and 5, stalls up to 6, so that every residue, the wrap and both sides of the refusal occur.  Keys: a ring that three edges overflow, two keys, a matrix, every timer under a prompt loop and a late one.  Store: three backends, with and without a capacity of one key; two keys; a list that changes in place, and a value too deep to encode; any number of power cuts and errors; flash undecided between at most three records (`MaxUnsettled`), which takes two saves that raise one after the other |
| `gen_connect` | (violated) is a connect() given up at its timeout? | as `loop` |
| `services` | Wi-Fi: are backoff and grace kept, does it end up connected?  NTP: is each query answered once, and in true time?  Knobs: is what is read where they are?  Codec: is what is packed read back?  WebSocket server: are slots and sockets accounted for, is everyone served? | Wi-Fi: polled and blocking adapters, no limit and a limit of 2; backoff 1 to 3 (it doubles and saturates), a join as long as the ordinary timeout and a cold one as long as the grace, two outages.  NTP: two queries, three datagrams against a drain of two, times on both sides of the era's end.  Knobs: each detent size through more than a cycle, bounds clamped and wrapped, a sweep of 16 with noise and wild readings.  Codec: values at both ends of every width and at the nesting limit, cut at every byte, run on by one, or with any byte changed to one of each class of tags.  Server: two clients; one server with a factory, one slot and one failure, one exception and one `close()`; one with a listener, two slots, one exception and two `close()`, so that a walk meets a second session after a callback closed the server, one client waits for the other's slot, and a `close()` runs inside another |
| `ntp_close` | (violated) may a closed client be queried again? | one setup |

Each property of a passing run has a mutant in `PROJECT.json`: an operator next
to the definition it would replace, a plausible mistake in that code, under
which TLC finds the property violated.  `http` does not check deadlock: its
behaviours end when the requests are answered and the clients are gone.

### Properties

* MQTT: `TransportAgrees`, `NeverCrashes`, `AcksConserved` (what the broker waits
  for is, in order, what is on the wire, half sent, queued, collected or not yet
  dispatched), `DeliverySpec` (on_publish once and only for what the broker has;
  otherwise given up in a documented way, never silently), `SubscriptionsServed` (at
  rest the broker serves what is declared, whatever it refused before),
  `NoBusyWait` (of the deadlines `next_deadline()` takes the least of, those of
  answers, pings, retransmissions and sends, a tick leaves one in the past only
  in the cases it names: a ping while the tick found a PINGRESP awaited;
  retransmissions for which the queue has no room; and the send, and
  retransmissions, when a CONNACK revived the client the same tick had failed.  The
  run meets each of them, but for the last, which takes two publishes), `PacketsAsSent`, `LossIsHealed` (a silent peer is noticed, and self-heal converges).
* WebSocket: `CloseAlwaysFits` (a closing session over a live connection has its
  CLOSE queued, half sent, on the wire or with the peer), `CloseIsLast` (over the
  whole outbound path), `ClosedHoldsNothing`, `ClosingReported`, `StreamSpec` (the
  refinement of `MessageStream`), `NoBusyWait`, `WaitsEnd`, `FramesAsSent`; of the
  server `SlotsAccounted` (every open socket is in one slot, a closed server has
  none) and `EveryoneServed` (a connection that waits is taken up, an ended session
  gives its slot back).
* HTTP: `ResponseFaithful`, `AnswersFaithful` (an answer is fed to this
  repository's own response parser), `NothingHeld`, `WorkEnds`.
* Loop: `OnSchedule` (every tick starts late by no more than the time handlers
  took, and phased tasks stay on their grid), `FiresApart`, `QuotaKept`,
  `PolledExactly`, `TasksResume`, `CadenceSpec` (the refinement), `KeysTellTrue`,
  `TimersHonest`.
* Services: `BackoffRespected` (measured against the real clock, although a
  blocking `connect()` makes `now_ms` stale), `GraceCoversColdStart`,
  `NeverRestart`; `AnsweredOnce` (a result changes at most once, to a time the
  server told, and never by a datagram that was in the socket when the query
  drained it, unless it lay beyond the limit, an empty datagram or an error);
  `KnobsReadTrue` (what is read is where knob and shaft are), `BoundsGiveBack` (what
  a bound cuts off the turning is never owed: each detent back moves the position);
  `PackedReadsBack`; `EveryoneIsSeenTo`: what the services owe whoever waits for them, which is that
  every query ends (`QueriesEnd`), a knob held at either end of its range comes to
  read as that end (`EndsReached`), and who dials is served (`EveryoneServed`).
* Store: `DurableSpec` (a start finds a whole dict: the last saved, the one the
  power cut interrupted, or one whose NVS save raised; or nothing, where the NVM
  was torn, which is told, or left erased, which is not), `LastIsStored` (what is
  compared with to skip a write is stored, or was until an NVS save raised),
  `ChangesAreOwed` (only a `reload()` that raises forgets a change, only one in
  place goes unnoticed).

### Fairness

* MQTT: the runner keeps ticking; time passes only once a live connection has
  delivered and answered what was sent (every timeout is longer than a round
  trip, or it would be useless); factory, connector, socket and broker succeed
  infinitely often when they can - self-heal cannot be promised against a
  network that is down for ever.
* WebSocket: the runner keeps calling `handle()`, and time passes again and again
  between two calls; nothing is assumed of the connector, the peer or the network.
* HTTP: the runner ticks a busy client or resumes the task that drives it, calls
  the server's `handle()`, and time passes; nothing is assumed of the peers.
* Wi-Fi: `check`/`handle` and a driver's loss report are weakly fair; the clock
  and a successful outcome of an attempt are strongly fair, since no schedule
  excludes an adapter that always raises.
* WebSocket server: `handle()` and the application's code come to their ends
  (`ServerStep`, weakly fair).  A session that is visited again and again ends
  (`SessionEnds`, strongly fair): its handshake and its closing have deadlines, and
  an open one ends when its peer leaves.  Clients, failures, exceptions and `close()`
  are not fair.
* NTP, knobs: the runner keeps ticking and time passes; nothing is assumed of the
  network, the shaft or the wiper.
* `loop` checks safety only.  "Every wait ends" is stated as what no tick may
  leave behind and no sleep may pass, which needs no fairness and is stronger.

## 4. Where the code and its documents disagree

Kept as runs (`findings` in `PROJECT.json`): a subscription declared offline is
not sent when the session is resumed (`mqtt_offline`); `disconnect()` from an
`on_disconnect` that a missed deadline fired crashes `handle()` (`mqtt_leave`); an
oversized PUBLISH with a long topic behind another packet stops the client from
receiving for good (`mqtt_drain`); the last fragment of a message whose first
fragment was too large is delivered as a message of its own (`ws_oversized`); the
loop sleeps past the time limit of a connect() (`gen_connect`); an NTP client
closed with a query in flight refuses the next one (`ntp_close`).

Met on the way and not kept as runs.  Each can be seen by giving the named
property to the named configuration:

* `HeldStaysFailed` (in `Mqtt.cfg`): a CONNACK that arrives in the tick that gave
  up on it revives a FAILED, even held, client (client.py:1184;
  mqtt/docs/guide.md:287).  `NoBusyWait` excepts what such a tick leaves behind.
* `SendDeadlineMeansUnsent` (in `Mqtt.cfg`): the send deadline stays armed after
  the last packet when a QoS 0 marker is behind it (client.py:956).
* `DeliverySpec` (in `Mqtt.cfg`, with a client of `userCap |-> 1`): a publish
  buffered before the connection is lost when replayed subscriptions have filled
  the queue (client.py:554).
* `RemovedNeverFires` (in `Loop.cfg`): a task removed by a handler of the batch it
  is in is called once more (core.py:346;
  runner/tests/test_core_scheduling.py:364).
* `StallIsSkipped` (in `Loop.cfg`): `Rate.due()` raises instead of skipping when
  the missed periods add up to half the ring, which takes periods and stalls of
  days (deadline.py:48).  `Cadence` has it as `Refuse`.
* `HoldsAreNotClicks` (in `Loop.cfg`): a press and its release that a late loop
  folds in one pass count as a click however long the press was (buttons
  core.py:236; buttons/docs/guide.md:104 says a late loop changes no duration,
  guide.md:188 that a hold is not a click).
* `PingNeverSpins` (in `Mqtt.cfg`): while a PINGRESP is awaited, a ping that falls
  due stays due, and `wait()` returns at once until the answer or its timeout
  (client.py:1285-1288; the comment at 1290-1294 tells of the full queue that it
  would "busy-spin wait()").  It takes a ping interval shorter than the
  acknowledgement timeout.
* `SkipMeansUnchanged` (in `Loop.cfg`): a value that was got from the store and
  changed in place leaves it clean, and `commit_if_changed()` skips it (kvstore
  core.py:149), although core.py:144 says that it commits "when the encoded payload
  changed" and kvstore/docs/guide.md:71 "when something actually changed".  With
  `Mutable = {}`: a `reload()` that raises marks unsaved changes clean, with the same
  result (core.py:114).  `ChangesAreOwed` says that nothing else does.
* `SkippedIsStored` (in `Loop.cfg`): after an NVS save that raised although
  `set_blob()` took effect, a dict changed back to the one before is skipped, while
  `load()` reads the other (mp_nvs.py:56-57; core.py:152; guide.md:67).
* `OnCloseOnce` (in `WebSocket.cfg`): `on_close` fires twice when a session is
  finalized with frames unsent: the failing drain finalizes inside
  `_finalize_closed`, or the drain after a CLOSE meets the closed socket
  (_session.py:657; client.py:274).
* `ReplyFlushed` (in `WebSocket.cfg`): the flush before the transport is dropped
  is one drain within the send budget, which may leave the CLOSE unsent
  (_session.py:657).
* `ClosingSleeps` (in `WebSocket.cfg`): the deadline of the automatic ping
  outlives OPEN, so `next_deadline()` stays in the past while the session closes.
* `PongAfterPing` (in `WebSocket.cfg`): an automatic ping the full queue had no
  room for still arms its PONG deadline (client.py:391).
* `LimitsAsDeclared` (in `Http.cfg` with `MaxHeaders = 6`): whether a request is
  turned down with 431 depends on how its bytes arrive, because what is buffered
  of the body counts as header (http_server _wire.py:358 against line 26).
  `AnswersFaithful` holds in `Http.cfg` because its `MaxHeaders` is 10; with 6 it
  is violated for the same reason.
* `ClosesForGood` (in `Services.cfg`): a callback that raises out of the server's
  `close()` leaves `closed` unset after the listener is gone.  With a
  `listener_factory` the next `handle()` opens the port again and accepts
  (websockets server.py:397 says "stop accepting new connections and close every
  active session"); with a listener that was given, every later `handle()` raises.
  `EveryoneServed` leaves out the second (`Stuck`).

Seen in the code, without a property:

* Two tasks that wait on one `Signal` share its deadline slot: the bound of the
  first is lost.  A signal set late in a batch is acted on at the next wake of a
  sleeping loop.
* A connector in its DNS phase makes no progress while `wait()` blocks on the
  socket of another service.
* An `Encoder` that wraps reports a delta other than zero for a turn of exactly
  its whole span.
* A 307 that answers the request after a 303 replays the original method and body.
* `packb` accepts a dict with tuple keys that `unpackb` refuses, as
  msgpack/docs/guide.md:73 does not say.
* kvstore/docs/guide.md:72 hands `commit_if_changed` to `add_periodic`, which
  calls it with an argument it does not take.
* An NVM write cut after the erase leaves a slab that reads as blank, so everything
  stored is gone with `is_corrupt` False (cp_nvm.py:39-41;
  kvstore/tests/test_cp_nvm_backend.py, `test_load_blank_0xff_slab_returns_empty`).
* `_drain_socket()` of the NTP client stops at any error of the socket, and reads no
  more than its limit: what is left is taken for the answer of the query that
  follows (core.py:226-235; the comment in `query` says it discards stale
  datagrams of an earlier one).
* A CircuitPython or LittleFS read error other than a missing file reads as a
  blank store (`Hidden` of `DurableMap`).
* With more subscriptions than the transmit queue has slots, the reconnect
  replay drops some SUBSCRIBEs and still awaits their SUBACKs (client.py:1207);
  the runs have fewer topics than slots.

## 5. What is proved

All theorems hold for every value of the constants that satisfies the named
assumptions of the modules (types of the parameters, and for the runner what
`Runner.add()` and `ticks_add()` refuse).  Five state a hypothesis besides, each
as said below: `SocketWhenRead`, `MessagesAsOffered`, `PublishesKeepPromise`,
`DecoderFaithful` and `GraceAlwaysCovers`.

* `TimingProofs`: `ticks_add` and `ticks_diff` on any even ring:
  `DiffOfMove` - moving a tick moves the difference by as much while it stays
  within half the ring.  It is what lets the other modules count milliseconds.
  And `RingImplementsCadence`, `TimingSpec => CadenceSpec`.  Invariant:
  every schedule is less than half the ring ahead of now and no further behind
  than a stall, which is where signed ring distances are exact; each action
  maps to an action of `Cadence`.
  Keys: `KeysAlwaysTellTrue` and `TimersStayHonest`, for any number of keys, timings,
  either kind of source and any ring.  Four parts: what the debounce and the timers
  make of any Button (`Sound`, `Honest`); the shape of each step of a pass; that the
  last captured edge of a key, or the level the drain has for it, is the pin's, unless
  an interrupt is due, edges were lost and the pins are still to be read again
  (`Follows`); and that under a loop that is never late a press still counts as a
  click only while it is short (`OnTime`).  The proof found a defect of the model
  that no bound had shown: `ApplyEdge` was a CASE whose arms overlapped where the
  code has an `if` with an `elif`.
* `RunnerProofs`: `QuotaAlwaysKept`.  The quota alone is not inductive: that a
  task leaves the list with its last fire needs that a batch holds a handle at
  most once and only handles that owe a fire (`Owing`), which needs that the
  list holds a handle at most once (`Listed`) and that the batch is collected
  from what the tick has passed (`Batched`).
  `AlwaysOnSchedule`: `OnTime` speaks of the start of a tick only, so `Clock` says
  what holds on the way there: what the checks have passed is not overdue, but for
  deadlines of services in the batch; the handlers' own time counts from the tick's
  timestamp; and the batch is empty when `wait()` takes the nearest of what is left,
  which is then no less than zero.  The phase is arithmetic modulo a period that is
  a variable (`OnGrid`).  `AlwaysApart`: what is left of a plain task's schedule and
  the time since its last fire make a period (`Spaced`), also for a task that is
  still to fire in this tick and one whose period a handler changes; a program has
  a longest period, since `ticks_add` refuses half a turn of the ring.
  The poller: `PolledAlwaysExact`, for any sockets, descriptors and services
  and either way of keying.  The poller is right only just after a sweep, so the
  invariant says what stays true while sockets come and go: the poller is what
  the slots recorded (`SlotsWatched`), an open socket still has the descriptor its
  slot recorded, and no two slots recorded the same (`SlotsRecorded`).  The last
  is where reuse bites: a sweep that takes up the new owner of a descriptor drops
  the slot of the old one, and must not unregister it (`DropsItsOwn`).
  Generator tasks: `TasksAlwaysResume`, for any bodies.  The three parts of `TasksResume` each speak of
  one moment of the loop; on the way there a task that is not in the rest of the
  batch is calm, that is, what it waits for had not come at the checks (`BatchHolds`),
  a signal's deadline is the bound of the one task suspended on it (`SlotsTold`), and
  while the loop sleeps each bound is at least the sleep that is left
  (`SleepBounded`).  The signals of `wait_for()` are one-slot tokens
  (`BodiesAssumption`): with two waiters the first one's deadline is lost.
* `MqttSystemProofs`: `TransportAlwaysAgrees`.  A step in the middle of
  `handle()` relies on no callback having closed the socket before it, so the
  invariant adds where callbacks may have run (`NoCallbackYet`).
  `SocketWhenRead`: `NeverCrashes` for every application that does not call
  `disconnect()` from an `on_disconnect` (`NoLeaveOnLoss`); run `mqtt_leave` shows
  that the hypothesis is needed.  When the socket is read only that callback can
  have run (`ReadsSocket`).  `OneBatchAtATime`: packets are dispatched, and
  acknowledgements collected, only while no batch is queued (`BatchInv`).
  `AcknowledgedInOrder`, on both of these.  What the broker waits
  for is the concatenation of six pieces (`Owed`), and a step moves ids from one
  piece to the next, which the lemmas on `Six` do.  That it is so needs more than the
  order says: before the broker has taken the CONNECT nothing is delivered and
  nothing acknowledged (`QuietBefore`); the CONNECT goes first, once (`ConnectFirst`);
  while the client waits for the CONNACK nothing is dispatched before it
  (`ConnackFirst`); a client that failed in the middle of `handle()` may still
  dispatch the CONNACK that revives it, so the order must hold there too
  (`Reading`); a socket that was never used is empty (`FreshSocket`); and ids of
  unacknowledged deliveries differ (`Distinct`), or the broker would drop two for one
  PUBACK.  `Flat` is recursive over data: `SetInduction` derives induction over
  the length of a sequence from the well-foundedness of `<`, and shows that `Flat` is
  defined and distributes over concatenation.
* `MqttSubscriptionProofs`: `DeclaredIsServed`, on these.  The two queues between
  client and broker are taken as wholes: what the client said and the broker has not
  read (`Outbox`), and the other way around (`Inbox`).  `Asked` is what the broker will
  serve once it has read a queue, in which a later request about a topic replaces an
  earlier one; it distributes over concatenation (`AskedConcat`), so moving a packet
  along changes nothing.  What is declared is not what the broker will serve at
  every moment: a SUBSCRIBE that found the queue full is awaited and was never sent,
  and a SUBACK that refuses ends the session when it is dispatched.  So the
  invariant (`Follows`) counts: SUBSCRIBEs and SUBACKs under way never outnumber the
  SUBACKs awaited; when they are as many, nothing was lost, and what the broker will
  serve, with what is still to replay (`todo`), is what is declared, unless a refusal is
  on its way.  At rest both counts are zero.  Until the CONNACK is read nothing else
  is under way (`GreetInv`), and the broker that accepted a clean session serves
  nothing yet.
* `MqttDeliveryProofs`: `PublishesKeepPromise`, the refinement of `MqttDelivery`, on
  these.  What is known of a message is in the client's table and in packets that
  outlive its entries, so the invariant says what a packet may be relied on for: a
  publish under way carries the message of its id, a PUBACK of a live id is the
  broker's word that it has that message (`PacketsInv`); and every message that is
  still open is, once, in flight or in the offline queue (`KeptInv`, `FlightInv`,
  `QueueInv`).  `FateMoves` maps each step to a step of the contract or to none.  It
  holds of executions with two properties.  `FreshIds`: an id is given out again only
  when no publish and no PUBACK of its last use is under way; otherwise a late
  duplicate PUBACK confirms a publish the broker has never seen, as the protocol
  allows.  The client's ids run through a cycle of 65535, and in the run, which
  publishes once, it always holds.  `FlushFits`: what was published offline
  finds room when it is flushed; the client loses it otherwise (client.py:554), as
  section 4 says how to see.
* `MqttWireProofs`: `DecoderFaithful`, that is `PacketsAsSent` for every stream, cut,
  budget, base of the length encoding, set of filters and buffer of at least eight
  bytes.  Three layers.  What is written is read back: the digits of a length, and
  that fewer of them are no length yet (`VarlenShape`, `VarlenDecodes`), a PUBLISH
  (`PublishParses`), an acknowledgement (`AckShape`), and a packet that breaks the
  protocol is refused (`JunkParses`).  `Reads` puts these together: on a buffer whose
  bytes agree with a packet as far as they go, `read_next()` waits, takes exactly that
  packet, refuses it, or begins to drain exactly what is left of it.  The invariant
  (`WireInv`) says that the buffer past `offset` and then `unread` are the stream from
  the end of the last packet dispatched, through every compaction, or that what is
  left to drain ends where that packet ends (`Keeps`); and that between ticks there
  is room unless a PUBLISH too large for the buffer is under way (`HasRoom`).  The
  last needs the hypothesis, which the constructor does not check and its default of
  256 meets: consumed bytes take less than half of the buffer, and four bytes
  of a length that is not complete must not fill the rest.  With six, TLC shows, a
  length without end that follows a PINGRESP fills it before it is known to be one.
  Where such a PUBLISH is under way the decoder may still stop receiving, which is
  what run `mqtt_drain` shows.  `LoopMatches` shows that the loop of `topic_matches`
  is MQTT's definition of a match, for every topic and filter; it goes
  along the filter by `SetInduction`.
* `WebSocketSystemProofs`: `CloseAlwaysSent`, `NothingHeldAfterClose`,
  `EveryEndReported`, `NothingAfterClose`, `OpenMaySleep`, for every session, queue size, peer and callback behaviour.
  That the CLOSE finds room needs that before the session closes the queue is
  never full (`RoomForClose`: the application's bound is below the cap, other
  internal frames leave a slot) and that a session not yet started queued nothing;
  that nothing is armed after the end needs that the automatic ping runs only
  where no callback of the tick can have closed the session (`PingsWhileOpen`).
  `MessagesAsOffered`, the refinement of `MessageStream`: the invariant (`StreamInv`)
  says that a history of the peer's side exists, which message it was writing
  (`draft`) and how many it had offered (`told`) after each frame it sent, such that
  the frames on their way and unread are in that order (`InOrder`, `Offers`), the
  session's assembly matches the draft after the last frame it read (`Reading`), and
  what was given or is queued is among the first `told` offers (`Given`).  Its
  hypothesis `WholeMessages` is needed in each part, as TLC shows: `tier3` lets
  through the last fragment of an oversized message (run `ws_oversized`), and where
  messages come in fragments, a callback that raises, or an application that closes
  an accepted connection before its handshake is over, makes `handle()` throw away
  the rest of a chunk, after which a message may be given without the lost fragment.
  The setups of run `websocket` send fragments only to sessions where that cannot
  happen.
  `SlotsAlwaysAccounted` of the server, for any clients and slots and any nesting of
  `close()` in callbacks: the invariant adds that each `close()` under way still has
  every open socket before it (`Closing`), that no callback runs between two visits
  of the walk (`Walking`), and that who waits, who has a session and whose socket is
  open are told apart (`Apart`, `Handed`).
* `ServiceProofs`, Wi-Fi: `TypeCorrect`; `StateAlwaysAgrees` (FAILED is reached by
  spending the whole budget and in no other way), which no run checks;
  `BackoffAlwaysRespected`, `GraceAlwaysCovers`.  The third needs that the scheduled
  wait never is shorter than what is left of the backoff owed.  The fourth, that a
  join the radio can make is never given up by the timeout, holds for any radio
  whose joins take no longer than the two timeouts; it needs that, until the access
  point is first lost, a join under way is over before the deadline it was given
  (`Covered`).
  The key-value store: `StoreIsDurable` (the refinement, with power cuts and errors
  in every place), `LastAlwaysStored`, `ChangesStayOwed`.  The invariant relates
  the steps of a save in progress to what a start would find, and says that only
  NVS leaves records unsettled and only NVM a torn one: a save that raises then
  maps to `HalfSave`, and an erased slab to `Torn`.
  NTP: `QueriesAnsweredOnce`.  `NtpInv` says that every datagram under way or in the
  socket carries a time the server told, as the wire holds it, and that no drain
  left what it should have discarded: `Drains` shows that only an empty datagram,
  the limit or an error stops it short.  `TimeIsTold` shows that `Unix` undoes `OnWire` on either
  side of the era's end, for the times of the one era the parser can tell.
  Knobs: `KnobsAlwaysReadTrue`, `BoundsAlwaysGiveBack`.  The encoder is an arithmetic invariant: what the
  table cannot tell is two steps or none (`TableTells`), so what was missed is even
  and detents, banked steps and missed steps add up to the shaft; the position is
  the count modulo the span of the bounds, which needs that a clamped or wrapped
  position stays in them (`low <= high`, and only bounds wrap: what the constructor
  documents, and refuses).  For the analog knob `Wild` says which slot of the window
  may hold a wild conversion, from how long ago it was: at most one of three, so
  the middle is within the noise; and the smoothed reading, which is scaled, is
  between the scaled bounds (`SmoothedStays`), which is what makes the reading
  neither drift nor lose the fraction the shift cuts off.

The theorems are about the component's own specification; an MC module that
lets it rest beside others adds only stuttering steps.

Model-checked only: all liveness properties (fairness and ENABLED are out of
the prover's reach); the byte parser of WebSockets, HTTP and the codec, whose
operators are RECURSIVE.

`NoBusyWait` of MQTT, with its exceptions, is checked and not proved.

## 6. Not modelled, and what is next

Not modelled, and why:

* `config` and `compat` keep no state that changes; test doubles (`testing.py`),
  examples and benchmarks are not the program.
* Firmware: the radio, the NVM erase, TLS, CircuitPython's debounced keys and
  counted encoders, what the runtime's `select` does.  They appear as what they
  may answer.
* UDP and listening sockets and the TLS contexts of `sockets`, which pass calls on
  to the runtime.
* URL parsing, the encoders of HTTP requests and of CONNECT, SUBSCRIBE and
  UNSUBSCRIBE, header dictionaries, JSON, settings read by `from_config`: straight
  formatting that unit tests cover.
* The HTTP client's HEAD, whose reply has a length and no body; and answers in which
  a handler sets `Content-Length` itself (http_server server.py:377) or gives a 204
  a body.

Next: a `Signal` with several waiters; the runner's poll set composed with the HTTP client
and server; MQTT with more topics than queue slots.
