------------------------------ MODULE WebSocket ------------------------------
(***************************************************************************)
(* One WebSocket session (websockets/src/chumicro_websockets): the base    *)
(* session of _session.py with either of its two sides, WebSocketClient    *)
(* and the server's Connection.  Opening handshake, frame dispatch with    *)
(* reassembly of fragmented messages, bounded transmit queue, ping/pong    *)
(* and closing handshake, driven by handle() and by the application, which *)
(* also calls in from the session's callbacks.                             *)
(*                                                                         *)
(* One handle() is several steps (pc), one per frame dispatched or sent.   *)
(* The socket carries whole frames; a chunk is any number of them.  A      *)
(* timer is the number of ticks left, 0 once expired, Off when not armed.  *)
(***************************************************************************)
EXTENDS Integers, Sequences

CONSTANTS
    Setups,            \* the sessions that are checked, see SetupType
    MaxMessage,        \* max_message_bytes
    MaxEmpty,          \* _MAX_EMPTY_FRAGMENT_RUN
    MaxInbound,        \* max_inbound_queue_size
    Window,            \* frames the kernel and the network hold for one side
    HandshakeTimeout, CloseTimeout, PongTimeout,
    PingInterval

Off == -1

Roles     == {"client", "server"}
Policies  == {"drop_silent", "drop_with_event", "disconnect"}
Methods   == {"send", "ping", "close", "shutdown", "raise"}
Callbacks == {"on_open", "on_connection", "on_message", "on_oversized", "on_ping",
              "on_pong", "on_close"}
Kinds     == {"text", "cont", "bad_text", "ping", "pong", "close", "bad_mask", "bad_close",
              "garbage"}
Faults    == {"fin", "reset", "hole"}

\* How a session is made, and the bounds on what may happen to it.
SetupType == [role     : Roles,
              userCap  : Nat \ {0},                 \* max_tx_queue_size
              headroom : Nat \ {0},                 \* _TX_QUEUE_HEADROOM
              pings    : BOOLEAN,                   \* a ping_interval_ms was given
              pongs    : BOOLEAN,                   \* pong_timeout_ms is not None
              policy   : Policies,                  \* when_oversized
              ops      : SUBSET (Callbacks \X Methods), \* application, from callbacks
              sends    : Nat,                       \* bound: send and ping calls
              closings : Nat,                       \* bound: close and shutdown calls
              blocks   : Nat,                       \* bound: sends that are cut or refused
              streams  : BOOLEAN,                   \* next_message() may be used
              kinds    : SUBSET Kinds,              \* frames the peer may send ...
              sizes    : SUBSET Nat,                \* ... and payload sizes
              frames   : Nat,                       \* bound: frames of the peer
              tier3    : BOOLEAN,                   \* a fragment alone may be too large
              faults   : SUBSET Faults]             \* ways the network may break

ASSUME WebSocketAssumption ==
    /\ Setups \subseteq SetupType
    /\ MaxMessage \in Nat /\ MaxEmpty \in Nat /\ MaxInbound \in Nat \ {0}
    /\ Window \in Nat \ {0}
    /\ HandshakeTimeout \in Nat \ {0} /\ CloseTimeout \in Nat \ {0}
    /\ PongTimeout \in Nat \ {0} /\ PingInterval \in Nat \ {0}

VARIABLES
    setup,      \* the session at hand
    state,      \* WebSocketState
    phase,      \* ConnectingPhase / ServerHandshakePhase
    called,     \* _connect_called
    connector,  \* _connector is not None
    sock,       \* _socket: "none", "open", or "closed" and still referenced
    hsAt,       \* _handshake_deadline_ticks
    closeAt,    \* _close_deadline_ticks
    pongAt,     \* _pending_ping_deadline_ticks
    pingAt,     \* _next_auto_ping_ticks
    txq,        \* _tx_queue
    partial,    \* _tx_partial_buffer: <<frame>> or <<>>
    inb,        \* the message being assembled
    latched,    \* the frame parser is in ERROR
    streaming,  \* _inbound_to_queue
    queue,      \* _inbound_queue
    rx,         \* frames of the current chunk (or handshake carry) not yet fed
    pc,         \* where handle() is
    then,       \* where _finalize_closed returns to
    carrying,   \* what is being fed is the handshake carry
    cb,         \* the application callback running at this point
    link,       \* the connection under the socket
    toPeer,     \* frames sent and not yet read by the peer
    toUs,       \* frames of the peer not yet received
    received,   \* history: messages the application was given
    excused,    \* history: a callback raised, the inbound queue overflowed, or the
                \* application closed a connection whose handshake was not over
    closes,     \* history: on_close calls since connect()
    calls       \* bound: application calls and blocked sends left

Client == setup.role = "client"
HardCap == setup.userCap + setup.headroom

life   == <<state, phase, called, connector, sock>>
timers == <<hsAt, closeAt, pongAt, pingAt>>
tx     == <<txq, partial>>
inbox  == <<inb, latched, streaming, queue>>
flow   == <<rx, pc, then, carrying, cb>>
wire   == <<link, toPeer, toUs>>
hist   == <<received, excused>>
wsvars == <<setup, life, timers, tx, inbox, flow, wire, hist, closes, calls>>

-----------------------------------------------------------------------------
(* Frames and the message being assembled                                  *)

DataFrame  == [op |-> "data"]
PingFrame  == [op |-> "ping"]
PongFrame  == [op |-> "pong"]
CloseFrame == [op |-> "close"]
Hello      == [op |-> "hello"]   \* the handshake request or response

\* _reset_inbound_state
Nothing == [first |-> 0, parts |-> <<>>, size |-> 0, oversized |-> FALSE,
            empties |-> 0, valid |-> TRUE]

Message(m) == [first |-> m.first, parts |-> m.parts]

\* Mutant of EnqueueInternal: every internal frame may fill the queue.
EnqueueFull(q, f) == IF Len(q) >= HardCap THEN q ELSE Append(q, f)
\* _enqueue_internal_frame: the last slot is for CLOSE, what does not fit is
\* dropped without a word.
EnqueueInternal(q, f) ==
    IF Len(q) >= HardCap - (IF f.op = "close" THEN 0 ELSE 1) THEN q ELSE Append(q, f)

Left(t) == IF t > 0 THEN t - 1 ELSE t

-----------------------------------------------------------------------------
(* Pieces shared by several handlers                                       *)

\* Bytes handed to the kernel reach a live peer in order.
Deliver(f) == toPeer' = IF link = "up" THEN Append(toPeer, f) ELSE toPeer
\* A peer that does not read fills the buffers in between.
HasRoom == Len(toPeer) < Window

\* _drop_transport: the socket is closed but stays referenced.
DropTransport ==
    /\ state' = "closed"
    /\ hsAt' = Off /\ closeAt' = Off /\ pongAt' = Off
    /\ sock' = IF sock = "open" THEN "closed" ELSE sock
    /\ link' = IF sock = "open" THEN "none" ELSE link
    /\ toUs' = IF sock = "open" THEN <<>> ELSE toUs

\* Mutant of OnFinalized: a connector still held is forgotten, not cancelled.
ConnectorLeaks ==
    IF Client THEN pingAt' = Off /\ phase' = "none" /\ UNCHANGED connector
    ELSE UNCHANGED <<pingAt, phase, connector>>
\* _on_finalized
OnFinalized ==
    IF Client THEN pingAt' = Off /\ phase' = "none" /\ connector' = FALSE
    ELSE UNCHANGED <<pingAt, phase, connector>>

\* The transport goes, the sides clean up and on_close reports.
Closed(next) ==
    /\ DropTransport /\ OnFinalized
    /\ closes' = closes + 1
    /\ cb' = "on_close"
    /\ pc' = next
    /\ UNCHANGED called

\* _fail_with_error
Fail(next) ==
    /\ Closed(next)
    /\ UNCHANGED <<setup, tx, inbox, rx, then, carrying, toPeer, hist, calls>>

\* Mutant of SendClose: whoever asks, a CLOSE is queued.
CloseAgain ==
    IF state = "closed" THEN UNCHANGED <<state, txq, closeAt>>
    ELSE /\ txq' = EnqueueInternal(txq, CloseFrame)
         /\ state' = "closing"
         /\ closeAt' = CloseTimeout
\* _send_close: once per session.
SendClose ==
    IF state \in {"closing", "closed"} THEN UNCHANGED <<state, txq, closeAt>>
    ELSE /\ txq' = EnqueueInternal(txq, CloseFrame)
         /\ state' = "closing"
         /\ closeAt' = CloseTimeout

\* _arm_pong_deadline keeps the deadline of the earliest ping.
ArmPong == pongAt' = IF setup.pongs /\ pongAt = Off THEN PongTimeout ELSE pongAt
ArmPing == pingAt' = IF setup.pings /\ Client THEN PingInterval ELSE Off

-----------------------------------------------------------------------------
\* A client has no socket before connect(); an accepted connection starts with
\* one and with its handshake deadline armed.
Init ==
    /\ setup \in Setups
    /\ state = "connecting" /\ connector = FALSE
    /\ called = ~Client
    /\ phase = IF Client THEN "none" ELSE "reading"
    /\ sock = IF Client THEN "none" ELSE "open"
    /\ link = IF Client THEN "none" ELSE "up"
    /\ hsAt = IF Client THEN Off ELSE HandshakeTimeout
    /\ closeAt = Off /\ pongAt = Off /\ pingAt = Off
    /\ txq = <<>> /\ partial = <<>>
    /\ inb = Nothing /\ latched = FALSE /\ streaming = FALSE /\ queue = <<>>
    /\ rx = <<>> /\ pc = "idle" /\ then = "idle" /\ carrying = FALSE /\ cb = "none"
    /\ toPeer = <<>> /\ toUs = <<>>
    /\ received = <<>> /\ excused = FALSE /\ closes = 0
    /\ calls = [send |-> setup.sends, close |-> setup.closings, block |-> setup.blocks]

-----------------------------------------------------------------------------
(* The application's calls: between two ticks, or from a callback          *)

Calls(method) == pc = "idle" \/ <<cb, method>> \in setup.ops
Spend(kind) ==
    /\ calls[kind] > 0
    /\ calls' = [calls EXCEPT ![kind] = @ - 1]

\* connect, once per client; a URL or a factory that raises leaves it called.
Connect(raises) ==
    /\ pc = "idle" /\ ~called
    /\ called' = TRUE
    /\ IF raises THEN UNCHANGED <<state, phase, connector, hsAt, closes>>
       ELSE /\ connector' = TRUE
            /\ hsAt' = HandshakeTimeout
            /\ closes' = 0
            /\ state' = "connecting" /\ phase' = "transport"
    /\ cb' = "none"
    /\ UNCHANGED <<setup, sock, closeAt, pongAt, pingAt, tx, inbox, rx, pc, then,
                   carrying, wire, hist, calls>>

\* _enqueue_user_frame raises on a full queue, with nothing changed.
UserFits == Len(txq) < setup.userCap

\* send_text / send_binary
Send ==
    /\ Calls("send") /\ state = "open" /\ UserFits /\ Spend("send")
    /\ txq' = Append(txq, DataFrame)
    /\ UNCHANGED <<setup, life, timers, partial, inbox, flow, wire, hist, closes>>

SendPing ==
    /\ Calls("ping") /\ state = "open" /\ UserFits /\ Spend("send")
    /\ txq' = Append(txq, PingFrame)
    /\ ArmPong
    /\ UNCHANGED <<setup, life, hsAt, closeAt, pingAt, partial, inbox, flow, wire, hist,
                   closes>>

\* close: an established session starts the close handshake, and so does an
\* accepted connection in the middle of its opening one ...
Close ==
    /\ Calls("close") /\ Spend("close")
    /\ state = "open" \/ (state = "connecting" /\ ~Client)
    /\ SendClose
    /\ excused' = (excused \/ state = "connecting")
    /\ UNCHANGED <<setup, phase, called, connector, sock, hsAt, pongAt, pingAt, partial,
                   inbox, flow, wire, received, closes>>

\* Mutant of Abort: on_close is not called.
AbortSilently ==
    /\ pc = "idle" /\ Client /\ state = "connecting" /\ Spend("close")
    /\ DropTransport /\ OnFinalized
    /\ UNCHANGED <<setup, called, tx, inbox, flow, toPeer, hist, closes>>
\* ... a client that is still connecting aborts, whether or not it was started.
Abort ==
    /\ pc = "idle" /\ Client /\ state = "connecting" /\ Spend("close")
    /\ Closed("idle")
    /\ UNCHANGED <<setup, tx, inbox, rx, then, carrying, toPeer, hist>>

\* WebSocketServer.close: the connection starts to close and is finalized at
\* once, from a callback in the middle of its own handle() too.
Shutdown ==
    /\ Calls("shutdown") /\ ~Client /\ state # "closed" /\ Spend("close")
    /\ IF state = "open" THEN SendClose ELSE UNCHANGED <<state, txq, closeAt>>
    /\ pc' = "flush" /\ then' = pc /\ cb' = "none"
    /\ UNCHANGED <<setup, phase, called, connector, sock, hsAt, pongAt, pingAt, partial,
                   inbox, rx, carrying, wire, hist, closes>>

\* A callback raises: the exception leaves handle(), the rest of the chunk is
\* gone; on_connection is caught and ends the session.
Raise ==
    /\ pc # "idle" /\ <<cb, "raise">> \in setup.ops
    /\ excused' = TRUE
    /\ IF cb = "on_connection"
       THEN /\ Closed("idle")
            /\ UNCHANGED <<rx, carrying, then>>
       ELSE /\ rx' = <<>> /\ pc' = "idle" /\ carrying' = FALSE /\ then' = "idle"
            /\ cb' = "none"
            /\ UNCHANGED <<life, timers, closes, link, toUs>>
    /\ UNCHANGED <<setup, tx, inbox, toPeer, received, calls>>

\* next_message: the first call diverts messages to the queue, which drops its
\* oldest when full; later calls take one.
NextMessage ==
    /\ pc = "idle" /\ setup.streams
    /\ ~streaming \/ queue # <<>>
    /\ streaming' = TRUE
    /\ IF streaming
       THEN received' = Append(received, Head(queue)) /\ queue' = Tail(queue)
       ELSE UNCHANGED <<received, queue>>
    /\ UNCHANGED <<setup, life, timers, tx, inb, latched, flow, wire, excused, closes,
                   calls>>

Application ==
    \/ \E r \in BOOLEAN : Connect(r)
    \/ Send \/ SendPing \/ Close \/ Abort \/ Shutdown \/ Raise \/ NextMessage

\* Time passes between two calls of handle().
Tick ==
    /\ pc = "idle"
    /\ hsAt' = Left(hsAt) /\ closeAt' = Left(closeAt)
    /\ pongAt' = Left(pongAt) /\ pingAt' = Left(pingAt)
    /\ UNCHANGED <<setup, life, tx, inbox, flow, wire, hist, closes, calls>>

-----------------------------------------------------------------------------
(* handle: timeouts first                                                  *)

Begins == pc = "idle" /\ called /\ state # "closed"

\* Mutant of HandshakeExpired: the deadline is not for an unfinished connector.
OnlySocketExpires == hsAt = 0 /\ phase # "transport"
HandshakeExpired == hsAt = 0
HandshakeTimesOut == Begins /\ HandshakeExpired /\ Fail("idle")

\* The peer never answered our CLOSE.
CloseTimesOut ==
    /\ Begins /\ ~HandshakeExpired /\ closeAt = 0
    /\ pc' = "flush" /\ then' = "idle" /\ cb' = "none"
    /\ UNCHANGED <<setup, life, timers, tx, inbox, rx, carrying, wire, hist, closes, calls>>

PongTimesOut ==
    Begins /\ ~HandshakeExpired /\ closeAt # 0 /\ pongAt = 0 /\ Fail("idle")

InTime == Begins /\ ~HandshakeExpired /\ closeAt # 0 /\ pongAt # 0

-----------------------------------------------------------------------------
(* The opening handshake                                                   *)

\* _advance_connector
ConnectorReady ==
    /\ InTime /\ state = "connecting" /\ phase = "transport"
    /\ connector' = FALSE /\ sock' = "open" /\ link' = "up"
    /\ phase' = "sending"
    /\ cb' = "none"
    /\ UNCHANGED <<setup, state, called, timers, tx, inbox, rx, pc, then, carrying, toPeer,
                   toUs, hist, closes, calls>>

ConnectorFails ==
    /\ InTime /\ state = "connecting" /\ phase = "transport"
    /\ Fail("idle")

Handshaking(p) == InTime /\ state = "connecting" /\ phase = p

\* _send_handshake_chunk: the last byte left.  The server opens and hands the
\* connection to the application; what came with the request is fed next.
SendHello ==
    /\ Handshaking("sending") /\ link # "reset" /\ HasRoom
    /\ Deliver(Hello)
    /\ IF Client
       THEN /\ phase' = "reading" /\ cb' = "none"
            /\ UNCHANGED <<state, hsAt, pc, carrying>>
       ELSE /\ phase' = "none" /\ hsAt' = Off /\ state' = "open"
            /\ cb' = "on_connection" /\ pc' = "feed" /\ carrying' = TRUE
    /\ UNCHANGED <<setup, called, connector, sock, closeAt, pongAt, pingAt, tx, inbox, rx,
                   then, link, toUs, hist, closes, calls>>

SendHelloFails == Handshaking("sending") /\ link \in {"fin", "reset"} /\ Fail("idle")

\* _receive_handshake_chunk: the rest of the chunk is already frames.
RecvHello(n) ==
    /\ Handshaking("reading") /\ link \in {"up", "fin"}
    /\ n \in 1..Len(toUs) /\ toUs[1].op = "hello"
    /\ rx' = SubSeq(toUs, 2, n)
    /\ toUs' = SubSeq(toUs, n + 1, Len(toUs))
    /\ IF Client
       THEN /\ phase' = "none" /\ hsAt' = Off /\ state' = "open"
            /\ ArmPing
            /\ cb' = "on_open" /\ pc' = "feed" /\ carrying' = TRUE
       ELSE /\ phase' = "sending" /\ cb' = "none"
            /\ UNCHANGED <<state, hsAt, pingAt, pc, carrying>>
    /\ UNCHANGED <<setup, called, connector, sock, closeAt, pongAt, tx, inbox, then, link,
                   toPeer, hist, closes, calls>>

\* A response that is not the one asked for fails the client; a request that is
\* malformed or for another path is turned down by the server without on_close.
Refused ==
    /\ Handshaking("reading") /\ link \in {"up", "fin"}
    /\ toUs # <<>> /\ toUs[1].op = "bad_hello"
    /\ IF Client THEN Fail("idle")
       ELSE /\ DropTransport
            /\ cb' = "none"
            /\ UNCHANGED <<setup, phase, called, connector, pingAt, tx, inbox, rx, pc, then,
                           carrying, toPeer, hist, closes, calls>>

\* The peer is gone: recv_into returns 0 or raises.
Gone == link = "reset" \/ (link = "fin" /\ toUs = <<>>)
HandshakeCut == Handshaking("reading") /\ Gone /\ Fail("idle")

-----------------------------------------------------------------------------
(* Inbound: chunks, frames, messages                                       *)

\* A session past its handshake reads until its budget is spent or the socket
\* has nothing.
BeginRecv ==
    /\ InTime /\ state \in {"open", "closing"}
    /\ pc' = "recv" /\ cb' = "none"
    /\ UNCHANGED <<setup, life, timers, tx, inbox, rx, then, carrying, wire, hist, closes,
                   calls>>

RecvChunk(n) ==
    /\ pc = "recv" /\ link \in {"up", "fin"}
    /\ n \in 1..Len(toUs)
    /\ rx' = SubSeq(toUs, 1, n)
    /\ toUs' = SubSeq(toUs, n + 1, Len(toUs))
    /\ pc' = "feed" /\ cb' = "none"
    /\ UNCHANGED <<setup, life, timers, tx, inbox, then, carrying, link, toPeer, hist,
                   closes, calls>>

RecvStops ==
    /\ pc = "recv" /\ ~Gone
    /\ pc' = "drain" /\ cb' = "none"
    /\ UNCHANGED <<setup, life, timers, tx, inbox, rx, then, carrying, wire, hist, closes,
                   calls>>

\* The peer went without a CLOSE.
RecvEnds == pc = "recv" /\ Gone /\ Fail("drain")

\* _feed_frame_bytes: one frame of the chunk; a parser in ERROR takes nothing.
Feeds(ops) ==
    /\ pc = "feed" /\ rx # <<>> /\ state # "closed" /\ ~latched
    /\ rx[1].op \in ops
    /\ rx' = Tail(rx)

\* The chunk is used up, or nothing more can come of it.
FeedDone ==
    /\ pc = "feed" /\ (rx = <<>> \/ state = "closed" \/ latched)
    /\ rx' = <<>> /\ carrying' = FALSE
    /\ pc' = IF carrying THEN "idle" ELSE IF state = "closed" THEN "drain" ELSE "recv"
    /\ cb' = "none"
    /\ UNCHANGED <<setup, life, timers, tx, inbox, then, wire, hist, closes, calls>>

\* Frames that break the protocol start the closing handshake: with the wrong
\* masking or a malformed CLOSE body the parser goes on, with an undecodable
\* header it stays in ERROR.
DispatchInvalid ==
    /\ Feeds({"bad_mask", "bad_close", "garbage", "hello", "bad_hello"})
    /\ latched' = (rx[1].op \notin {"bad_mask", "bad_close"})
    /\ SendClose
    /\ cb' = "none"
    /\ UNCHANGED <<setup, phase, called, connector, sock, hsAt, pongAt, pingAt, partial, inb,
                   streaming, queue, pc, then, carrying, wire, hist, closes, calls>>

\* _handle_ping_frame
DispatchPing ==
    /\ Feeds({"ping"})
    /\ txq' = EnqueueInternal(txq, PongFrame)
    /\ cb' = "on_ping"
    /\ UNCHANGED <<setup, life, timers, partial, inbox, pc, then, carrying, wire, hist,
                   closes, calls>>

DisarmPong == pongAt' = Off

\* _handle_pong_frame
DispatchPong ==
    /\ Feeds({"pong"})
    /\ DisarmPong
    /\ cb' = "on_pong"
    /\ UNCHANGED <<setup, life, hsAt, closeAt, pingAt, tx, inbox, pc, then, carrying, wire,
                   hist, closes, calls>>

\* _handle_close_frame: the answer to ours, or one to be echoed; either way the
\* session is finalized here.
DispatchClose ==
    /\ Feeds({"close"})
    /\ SendClose
    /\ pc' = "flush" /\ then' = "feed" /\ cb' = "none"
    /\ UNCHANGED <<setup, phase, called, connector, sock, hsAt, pongAt, pingAt, partial,
                   inbox, carrying, wire, hist, closes, calls>>

DataOps == {"text", "cont"}
Assembling == inb.first # 0

\* A continuation of nothing, or a new message inside another.
OutOfPlace(f) == (f.op = "cont") # Assembling

\* _handle_data_frame up to the size: the frame joins the message.
Joined(f) ==
    [inb EXCEPT !.first = IF Assembling THEN @ ELSE f.n,
                !.valid = @ /\ f.valid,
                !.empties = IF f.size > 0 THEN 0 ELSE IF f.fin THEN @ ELSE @ + 1]
Flood(f) == f.size = 0 /\ ~f.fin /\ Joined(f).empties > MaxEmpty

\* The message with the payload of f, as _extend_inbound_buffer keeps it: one
\* that grew too large keeps nothing more.
Extended(f) ==
    LET m == Joined(f)
        fits == ~m.oversized /\ f.size <= MaxMessage /\ m.size + f.size <= MaxMessage IN
    [m EXCEPT !.oversized = ~fits,
              !.size = IF fits THEN @ + f.size ELSE @,
              !.parts = IF fits /\ f.size > 0 THEN Append(@, f.n) ELSE @]

\* The unfragmented fast path: the reassembly buffer is empty, whatever the
\* earlier fragments were.
TakesFastPath(f) == f.fin /\ f.size <= MaxMessage /\ inb.parts = <<>>
FastMessage(f) ==
    [Joined(f) EXCEPT !.parts = IF f.size > 0 THEN <<f.n>> ELSE <<>>, !.valid = f.valid]

DispatchMisplaced ==
    /\ Feeds(DataOps)
    /\ OutOfPlace(rx[1]) \/ Flood(rx[1])
    /\ inb' = IF OutOfPlace(rx[1]) THEN inb ELSE Joined(rx[1])
    /\ SendClose
    /\ cb' = "none"
    /\ UNCHANGED <<setup, phase, called, connector, sock, hsAt, pongAt, pingAt, partial,
                   latched, streaming, queue, pc, then, carrying, wire, hist, closes, calls>>

InPlace(f) == ~OutOfPlace(f) /\ ~Flood(f)

DispatchFragment ==
    /\ Feeds(DataOps)
    /\ InPlace(rx[1]) /\ ~rx[1].fin
    /\ inb' = Extended(rx[1])
    /\ cb' = "none"
    /\ UNCHANGED <<setup, life, timers, tx, latched, streaming, queue, pc, then, carrying,
                   wire, hist, closes, calls>>

\* _deliver_message: text that is no UTF-8 closes; the rest goes to the queue
\* of next_message, which drops its oldest, or to on_text / on_binary.
DeliverMessage(m) ==
    IF ~m.valid
    THEN /\ SendClose
         /\ cb' = "none"
         /\ UNCHANGED <<queue, received, excused>>
    ELSE /\ UNCHANGED <<state, txq, closeAt>>
         /\ IF streaming
            THEN LET full == Len(queue) = MaxInbound IN
                 /\ queue' = Append(IF full THEN Tail(queue) ELSE queue, Message(m))
                 /\ excused' = (excused \/ full)
                 /\ cb' = "none"
                 /\ UNCHANGED received
            ELSE /\ received' = Append(received, Message(m))
                 /\ cb' = "on_message"
                 /\ UNCHANGED <<queue, excused>>

\* _finish_oversized_message
DropMessage ==
    /\ cb' = IF setup.policy = "drop_with_event" THEN "on_oversized" ELSE "none"
    /\ IF setup.policy = "disconnect" THEN SendClose ELSE UNCHANGED <<state, txq, closeAt>>
    /\ UNCHANGED <<queue, received, excused>>

\* Mutant of FinishMessage: the assembly is not reset after an oversized one.
FinishLeavesOversized(f) ==
    LET whole == IF TakesFastPath(f) THEN FastMessage(f) ELSE Extended(f)
        large == whole.oversized /\ ~TakesFastPath(f) IN
    /\ inb' = IF large THEN [whole EXCEPT !.first = 0, !.parts = <<>>] ELSE Nothing
    /\ IF large THEN DropMessage ELSE DeliverMessage(whole)
\* The last frame of a message: the assembly is reset before anything is told.
FinishMessage(f) ==
    LET whole == IF TakesFastPath(f) THEN FastMessage(f) ELSE Extended(f)
        large == whole.oversized /\ ~TakesFastPath(f) IN
    /\ inb' = Nothing
    /\ IF large THEN DropMessage ELSE DeliverMessage(whole)

DispatchFinal ==
    /\ Feeds(DataOps)
    /\ InPlace(rx[1]) /\ rx[1].fin
    /\ FinishMessage(rx[1])
    /\ UNCHANGED <<setup, phase, called, connector, sock, hsAt, pongAt, pingAt, partial,
                   latched, streaming, pc, then, carrying, wire, closes, calls>>

-----------------------------------------------------------------------------
(* Outbound: the queue, keepalive pings, and the end                       *)

\* _drain_outbound, in the tick's tail and inside _finalize_closed.
Drains == pc \in {"drain", "flush"}
AfterDrain ==
    IF pc = "flush" THEN "settle"
    ELSE IF state = "open" /\ Client THEN "autoping" ELSE "idle"

Unsent  == partial # <<>> \/ txq # <<>>
Current == IF partial # <<>> THEN partial[1] ELSE Head(txq)
Behind  == IF partial # <<>> THEN txq ELSE Tail(txq)
Fetch   == partial' = <<Current>> /\ txq' = Behind

DrainDone ==
    /\ Drains /\ ~Unsent
    /\ pc' = AfterDrain /\ cb' = "none"
    /\ UNCHANGED <<setup, life, timers, tx, inbox, rx, then, carrying, wire, hist, closes,
                   calls>>

\* The rest of a frame is sent; the tick's budget allows more or not.
SendFrame(more) ==
    /\ Drains /\ Unsent /\ sock = "open" /\ link # "reset" /\ HasRoom
    /\ Deliver(Current)
    /\ partial' = <<>> /\ txq' = Behind
    /\ pc' = (IF more THEN pc ELSE AfterDrain) /\ cb' = "none"
    /\ UNCHANGED <<setup, life, timers, inbox, rx, then, carrying, link, toUs, hist, closes,
                   calls>>

\* The socket takes a part of the frame, or nothing (EAGAIN): it has left the
\* queue all the same.
SendBlocked ==
    /\ Drains /\ Unsent /\ sock = "open" /\ link # "reset"
    /\ IF HasRoom THEN Spend("block") ELSE UNCHANGED calls
    /\ Fetch
    /\ pc' = AfterDrain /\ cb' = "none"
    /\ UNCHANGED <<setup, life, timers, inbox, rx, then, carrying, wire, hist, closes>>

\* send raises: the connection broke, or the socket is the one that
\* _drop_transport closed.
SendFails ==
    /\ Drains /\ Unsent
    /\ sock = "closed" \/ link \in {"fin", "reset"}
    /\ Fetch
    /\ Closed(IF pc = "flush" THEN "settle" ELSE "idle")
    /\ UNCHANGED <<setup, inbox, rx, then, carrying, toPeer, hist, calls>>

\* _finalize_closed, once its flush is over and whatever became of it.
Settle ==
    /\ pc = "settle"
    /\ Closed(then)
    /\ then' = "idle"
    /\ UNCHANGED <<setup, tx, inbox, rx, carrying, toPeer, hist, calls>>

\* Mutant of AutoPing: a ping that is due is sent but not scheduled again.
AutoPingOnce ==
    /\ pc = "autoping"
    /\ IF pingAt = 0
       THEN /\ txq' = EnqueueInternal(txq, PingFrame)
            /\ ArmPong
            /\ UNCHANGED pingAt
       ELSE UNCHANGED <<txq, pongAt, pingAt>>
    /\ pc' = "idle" /\ cb' = "none"
    /\ UNCHANGED <<setup, life, hsAt, closeAt, partial, inbox, rx, then, carrying, wire,
                   hist, closes, calls>>
\* _maybe_emit_auto_ping: the answer is awaited even when the queue had no room
\* for the ping.
AutoPing ==
    /\ pc = "autoping"
    /\ IF pingAt = 0
       THEN /\ txq' = EnqueueInternal(txq, PingFrame)
            /\ ArmPong
            /\ pingAt' = PingInterval
       ELSE UNCHANGED <<txq, pongAt, pingAt>>
    /\ pc' = "idle" /\ cb' = "none"
    /\ UNCHANGED <<setup, life, hsAt, closeAt, partial, inbox, rx, then, carrying, wire,
                   hist, closes, calls>>

-----------------------------------------------------------------------------
Handshake ==
    \/ HandshakeTimesOut
    \/ SendHello \/ SendHelloFails
    \/ \E n \in 1..Len(toUs) : RecvHello(n)
    \/ Refused \/ HandshakeCut

Receive ==
    \/ BeginRecv \/ (\E n \in 1..Len(toUs) : RecvChunk(n)) \/ RecvStops \/ RecvEnds
    \/ FeedDone

Dispatch ==
    \/ DispatchInvalid \/ DispatchPing \/ DispatchPong \/ DispatchClose
    \/ DispatchMisplaced \/ DispatchFragment \/ DispatchFinal

Transmit ==
    \/ DrainDone \/ (\E more \in BOOLEAN : SendFrame(more)) \/ SendBlocked \/ SendFails
    \/ AutoPing

Finish == CloseTimesOut \/ PongTimesOut \/ Settle

Handle == Handshake \/ Receive \/ Dispatch \/ Transmit \/ Finish

\* handle() advances the connector, which takes the time it takes.
Connector == ConnectorReady \/ ConnectorFails

SessionNext == Application \/ Tick \/ Connector \/ Handle
=============================================================================
