----------------------------- MODULE MqttClient -----------------------------
(***************************************************************************)
(* MQTTClient (mqtt/src/chumicro_mqtt/client.py): connection state         *)
(* machine, transmit queue, QoS 1 in-flight table, subscriptions,          *)
(* keepalive and self-heal, driven by the runner's check/handle pair and   *)
(* by the application, which also calls in from the client's callbacks.    *)
(*                                                                         *)
(* One handle() is several steps, in the order of the code (pc), because   *)
(* a callback in the middle of it may call the client again.  Packets are  *)
(* records; the socket is a pair of FIFO channels of packets that another  *)
(* module (a broker, a network) reads, writes, cuts or silences.  A timer  *)
(* is the number of ticks left, 0 once expired, Off when not armed.        *)
(***************************************************************************)
EXTENDS Integers, Sequences

CONSTANTS
    Setups,          \* the clients that are checked, see SetupType
    Topics,          \* topic filters of the application
    MaxId,           \* packet ids are 1..MaxId (65535 in the code)
    MaxPublish,      \* bound: publish() calls that are accepted
    SubCalls,        \* bound: subscribe() / unsubscribe() calls
    PreCap,          \* pre_connect_queue_size
    AckTimeout,      \* ack_timeout_seconds
    SendTimeout,     \* send_timeout_seconds
    PingInterval,    \* _ping_interval_ms
    RetryMax,        \* publish_retry_max
    BackoffBase,     \* _SELF_HEAL_BACKOFF_BASE_MS
    BackoffCap,      \* _SELF_HEAL_BACKOFF_CAP_MS
    HealSteps        \* doublings before the shift is clamped (6 in the code)

Ids   == 1..MaxId
Msgs  == 1..MaxPublish
Off   == -1
NoMsg == 0

Methods   == {"connect", "disconnect", "hold", "publish", "subscribe", "unsubscribe"}
Callbacks == {"on_connect", "on_disconnect", "on_message", "on_publish",
              "on_subscribe", "on_unsubscribe"}

\* How one client is made, and the bounds on what may happen to it.
SetupType == [userCap      : Nat \ {0},  \* max_tx_queue_size
              headroom     : Nat \ {0},  \* slots above it for protocol packets
              keepAlive    : BOOLEAN,    \* _keepalive_enabled
              cleanSession : BOOLEAN,    \* clean_session
              hasFactory   : BOOLEAN,    \* a transport_factory was given
              drops        : BOOLEAN,    \* when_oversized is one of the two DROP policies
              ops          : SUBSET (Callbacks \X Methods), \* application, from callbacks
              controls     : Nat,        \* connect(), disconnect() and hold() calls
              partialSends : Nat,        \* sends that accept a part of a packet
              rejections   : Nat,        \* CONNECTs, SUBSCRIBEs the broker refuses
              pushes       : Nat]        \* messages the broker sends to the client

ASSUME MqttAssumption ==
    /\ Setups \subseteq SetupType
    /\ MaxId \in Nat \ {0} /\ MaxPublish \in Nat
    /\ SubCalls \in Nat
    /\ PreCap \in Nat
    /\ AckTimeout \in Nat \ {0} /\ SendTimeout \in Nat \ {0}
    /\ PingInterval \in Nat \ {0} /\ RetryMax \in Nat
    /\ BackoffBase \in Nat \ {0} /\ BackoffCap \in Nat \ {0}
    /\ HealSteps \in 0..6

VARIABLES
    setup,       \* the client at hand
    state,       \* ProtocolState
    wants,       \* _user_wants_connected
    held,        \* _reconnect_held
    permanent,   \* _permanent_failure
    attempts,    \* _self_heal_attempts
    retryAt,     \* _self_heal_retry_at_ticks
    sock,        \* _socket is not None
    connector,   \* _connector is not None
    transportAt, \* _transport_deadline_ticks
    txq,         \* _tx_queue
    partial,     \* _partial_send: <<packet>> or <<>>
    batch,       \* _puback_batch_queued
    sendAt,      \* _send_deadline_ticks
    pending,     \* _pending_responses
    inflight,    \* _in_flight
    nextId,      \* _next_packet_id
    preq,        \* _pre_connect_queue
    subs,        \* _subscriptions: "no", "fresh" (one-shot unfired), "granted"
    pingAt,      \* _next_ping_due_ticks
    rx,          \* packets in the decoder that were not dispatched yet
    acks,        \* _pending_pubacks
    todo,        \* topics _replay_subscriptions has not reached yet
    pc,          \* where handle() is
    cb,          \* the application callback running at this point of handle()
    link,        \* the connection under _socket
    toBroker,    \* packets sent and not yet read by the peer
    toClient,    \* packets of the peer not yet received
    published,   \* publish() calls accepted so far
    accepted,    \* history: QoS 1 messages publish() took
    fired,       \* history: on_publish calls per QoS 1 message
    excused,     \* history: QoS 1 messages given up in a documented way
    calls        \* bound: application calls and partial sends left

UserCap      == setup.userCap
HardCap      == setup.userCap + setup.headroom
KeepAlive    == setup.keepAlive
CleanSession == setup.cleanSession
HasFactory   == setup.hasFactory

conn   == <<state, wants, held, permanent, attempts, retryAt>>
trans  == <<sock, connector, transportAt>>
txvars == <<txq, partial, batch, sendAt>>
ackv   == <<pending, inflight, nextId>>
app    == <<preq, subs>>
rxvars == <<rx, acks>>
wire   == <<link, toBroker, toClient>>
hist   == <<published, accepted, fired, excused>>
cvars  == <<setup, conn, trans, txvars, ackv, app, pingAt, rxvars, todo, pc, cb, wire, hist, calls>>

-----------------------------------------------------------------------------
(* Packets and tables                                                      *)

ConnectPkt      == [type |-> "connect"]
DisconnectPkt   == [type |-> "disconnect"]
GarbagePkt      == [type |-> "garbage"]   \* bytes that landed inside another packet
PingReq         == [type |-> "pingreq"]
PublishPkt(i, m, d) == [type |-> "publish", id |-> i, msg |-> m, dup |-> d]
MarkerPkt(m)    == [type |-> "marker", msg |-> m]  \* never sent: __qos0_callback__
SubscribePkt(i, t)   == [type |-> "subscribe", id |-> i, topic |-> t]
UnsubscribePkt(i, t) == [type |-> "unsubscribe", id |-> i, topic |-> t]
PubacksPkt(s)   == [type |-> "pubacks", ids |-> s]

NoEntry == [msg |-> NoMsg, left |-> Off, tries |-> 0]
Live(i) == inflight[i].msg # NoMsg
LiveIds == {i \in Ids : Live(i)}

Response(kind, i, t) == [await |-> kind, id |-> i, topic |-> t, left |-> AckTimeout]
NoTopic == "none"

Waiting(kind) == \E k \in DOMAIN pending : pending[k].await = kind
Without(s, k) == SubSeq(s, 1, k - 1) \o SubSeq(s, k + 1, Len(s))

\* _discard_pending: the queue without its first response of that kind and id.
Matches(kind, i, k) == pending[k].await = kind /\ pending[k].id = i
Discard(kind, i) ==
    IF \E k \in DOMAIN pending : Matches(kind, i, k)
    THEN Without(pending, CHOOSE k \in DOMAIN pending :
                              /\ Matches(kind, i, k)
                              /\ \A j \in 1..(k - 1) : ~Matches(kind, i, j))
    ELSE pending

\* _allocate_packet_id: the next id of the cycle that is not in flight.
After(i) == IF i = MaxId THEN 1 ELSE i + 1
Free(i) ==
    /\ i \in Ids \ LiveIds
    /\ \A j \in Ids \ LiveIds :
          (IF i >= nextId THEN i ELSE i + MaxId)
              <= (IF j >= nextId THEN j ELSE j + MaxId)

Left(t) == IF t > 0 THEN t - 1 ELSE t
\* _enqueue_user_tx takes all its items or none.
Fits(n) == Len(txq) + n <= UserCap

-----------------------------------------------------------------------------
(* Pieces shared by several handlers                                       *)

\* Mutant of ResetTransient: the responses awaited are not forgotten.
PendingSurvives ==
    /\ txq' = <<>> /\ partial' = <<>> /\ batch' = FALSE /\ sendAt' = Off
    /\ rx' = <<>>
    /\ UNCHANGED pending

\* _reset_transient_state, but for the transport deadline.
ResetTransient ==
    /\ txq' = <<>> /\ partial' = <<>> /\ batch' = FALSE /\ sendAt' = Off
    /\ pending' = <<>> /\ rx' = <<>>

\* _enter_failed: the state settles, then on_disconnect reports the end of an
\* established session.
EnterFailed ==
    /\ state' = "failed"
    /\ UNCHANGED <<wants, held, permanent, attempts, retryAt>>

\* In the middle of handle() the callback is followed by the rest of it; when
\* handle() catches an MQTTError / OSError it is the end of the tick.
FailAndGoOn(next) ==
    /\ EnterFailed
    /\ pc' = next
    /\ cb' = IF state = "connected" THEN "on_disconnect" ELSE "none"
Fault == EnterFailed /\ pc' = "idle" /\ cb' = "none"

\* Closing the socket ends the connection for both sides.
CloseSocket ==
    /\ link' = "none"
    /\ toClient' = <<>>

\* Bytes handed to the kernel: they reach a live peer in order.
Deliver(packet) ==
    toBroker' = IF link = "up" THEN Append(toBroker, packet) ELSE toBroker

InFlightMsgs == {inflight[i].msg : i \in LiveIds}
QueuedMsgs   == {preq[k].msg : k \in {j \in DOMAIN preq : preq[j].qos = 1}}

\* Mutant of SelfHealActive: the client gives up once the backoff has stopped growing.
HealsOnlySoOften == HasFactory /\ wants /\ ~permanent /\ ~held /\ attempts < HealSteps
\* _self_heal_active
SelfHealActive == HasFactory /\ wants /\ ~permanent /\ ~held

-----------------------------------------------------------------------------
Init ==
    /\ setup \in Setups
    /\ state = "disconnected" /\ wants = FALSE /\ held = FALSE
    /\ permanent = FALSE /\ attempts = 0 /\ retryAt = Off
    /\ sock \in BOOLEAN /\ (~HasFactory => sock) /\ connector = FALSE /\ transportAt = Off
    /\ txq = <<>> /\ partial = <<>> /\ batch = FALSE /\ sendAt = Off
    /\ pending = <<>> /\ inflight = [i \in Ids |-> NoEntry] /\ nextId = 1
    /\ preq = <<>> /\ subs = [t \in Topics |-> "no"]
    /\ pingAt = 0
    /\ rx = <<>> /\ acks = <<>> /\ todo = {}
    /\ pc = "idle" /\ cb = "none"
    /\ link = IF sock THEN "up" ELSE "none"
    /\ toBroker = <<>> /\ toClient = <<>>
    /\ published = 0 /\ accepted = {} /\ excused = {}
    /\ fired = [m \in Msgs |-> 0]
    /\ calls = [sub |-> SubCalls, control |-> setup.controls,
                partial |-> setup.partialSends]

-----------------------------------------------------------------------------
(* The application's calls: between two ticks, or from a callback          *)

Calls(method) == pc = "idle" \/ <<cb, method>> \in setup.ops

Spend(kind) ==
    /\ calls[kind] > 0
    /\ calls' = [calls EXCEPT ![kind] = @ - 1]

\* connect: an intent; it dials from DISCONNECTED, cancels the backoff in
\* FAILED and disturbs nothing otherwise.
Connect ==
    /\ Calls("connect") /\ Spend("control")
    /\ held' = FALSE /\ wants' = TRUE
    /\ CASE state = "disconnected" ->
              /\ permanent' = FALSE /\ attempts' = 0 /\ retryAt' = Off
              /\ IF sock
                 THEN /\ txq' = Append(txq, ConnectPkt)
                      /\ pending' = Append(pending, Response("connack", 0, NoTopic))
                      /\ state' = "connecting"
                      /\ UNCHANGED <<connector, transportAt>>
                 ELSE /\ \/ /\ HasFactory
                            /\ connector' = TRUE /\ transportAt' = AckTimeout
                            /\ state' = "awaiting_transport"
                         \/ /\ connector' = FALSE /\ transportAt' = Off
                            /\ state' = "failed"            \* the factory raised
                      /\ UNCHANGED <<txq, pending>>
         [] state = "failed" ->
              /\ permanent' = FALSE /\ attempts' = 0 /\ retryAt' = Off
              /\ UNCHANGED <<state, connector, transportAt, txq, pending>>
         [] OTHER ->
              UNCHANGED <<state, permanent, attempts, retryAt, connector,
                          transportAt, txq, pending>>
    /\ UNCHANGED <<sock, partial, batch, sendAt, inflight, nextId, app, pingAt,
                   rxvars, todo, pc, cb, wire, hist>>

\* hold: no timer-driven reconnection until the next connect().
Hold ==
    /\ Calls("hold") /\ Spend("control")
    /\ held' = TRUE
    /\ UNCHANGED <<state, wants, permanent, attempts, retryAt, trans, txvars,
                   ackv, app, pingAt, rxvars, todo, pc, cb, wire, hist>>

\* disconnect: DISCONNECT goes straight to the socket, past the queue and past
\* an unfinished packet; the rest is dropped.  The in-flight table stays.
Disconnect ==
    /\ Calls("disconnect") /\ Spend("control")
    /\ state # "disconnected"
    /\ connector' = FALSE
    /\ IF state \in {"connecting", "connected"}
       THEN \/ Deliver(IF partial = <<>> THEN DisconnectPkt ELSE GarbagePkt)
            \/ UNCHANGED toBroker                    \* EAGAIN or an error
       ELSE UNCHANGED toBroker
    /\ sock' = FALSE
    /\ CloseSocket
    /\ ResetTransient /\ transportAt' = Off
    /\ preq' = <<>>
    /\ excused' = excused \cup QueuedMsgs
    /\ state' = "disconnected" /\ wants' = FALSE /\ held' = FALSE
    /\ cb' = IF pc = "idle" THEN "none" ELSE "on_disconnect"
    /\ UNCHANGED <<permanent, attempts, retryAt, inflight, nextId, subs, pingAt,
                   acks, todo, pc, published, accepted, fired>>

\* _do_publish for message m: QoS 0 travels with its callback marker, QoS 1
\* opens an in-flight entry that is rolled back when the queue is full.
DoPublish(m, q) ==
    IF q = 0
    THEN /\ Fits(2)
         /\ txq' = txq \o <<PublishPkt(0, m, FALSE), MarkerPkt(m)>>
         /\ UNCHANGED <<inflight, nextId>>
    ELSE \E i \in Ids :
         /\ Fits(1) /\ Free(i)
         /\ nextId' = After(i)
         /\ inflight' = [inflight EXCEPT ![i] =
                            [msg |-> m, left |-> AckTimeout, tries |-> 0]]
         /\ txq' = Append(txq, PublishPkt(i, m, FALSE))

\* ... MQTTBackpressureError: nothing is queued, a packet id may be burned.
PublishOverflows(q) ==
    /\ ~Fits(2 - q)
    /\ IF q = 0 THEN UNCHANGED nextId
       ELSE \E i \in Ids : Free(i) /\ nextId' = After(i)
    /\ UNCHANGED <<txq, inflight>>

\* publish, when_disconnected = "queue": a full queue raises at the caller.
Publish(q) ==
    /\ Calls("publish") /\ published < MaxPublish
    /\ LET m == published + 1 IN
       /\ published' = m
       /\ \/ /\ state = "connected"
             /\ DoPublish(m, q)
             /\ accepted' = IF q = 1 THEN accepted \cup {m} ELSE accepted
             /\ UNCHANGED preq
          \/ /\ state = "connected"
             /\ PublishOverflows(q)
             /\ UNCHANGED <<preq, accepted>>
          \/ /\ state # "connected"
             /\ IF Len(preq) < PreCap
                THEN /\ preq' = Append(preq, [msg |-> m, qos |-> q])
                     /\ accepted' = IF q = 1 THEN accepted \cup {m} ELSE accepted
                ELSE UNCHANGED <<preq, accepted>>
             /\ UNCHANGED <<txq, inflight, nextId>>
    /\ UNCHANGED <<conn, trans, partial, batch, sendAt, pending, subs, pingAt,
                   rxvars, todo, pc, cb, wire, fired, excused, calls>>

\* subscribe: sent at once when CONNECTED (a full queue raises and records
\* nothing), otherwise only recorded.
Subscribe(t) ==
    /\ Calls("subscribe") /\ Spend("sub")
    /\ IF state = "connected"
       THEN \E i \in Ids :
            /\ Free(i) /\ nextId' = After(i)
            /\ IF Fits(1)
               THEN /\ txq' = Append(txq, SubscribePkt(i, t))
                    /\ pending' = Append(pending, Response("suback", i, t))
                    /\ subs' = [subs EXCEPT ![t] = "fresh"]
               ELSE UNCHANGED <<txq, pending, subs>>
       ELSE /\ subs' = [subs EXCEPT ![t] = "fresh"]
            /\ UNCHANGED <<txq, pending, nextId>>
    /\ UNCHANGED <<conn, trans, partial, batch, sendAt, inflight, preq, pingAt,
                   rxvars, todo, pc, cb, wire, hist>>

\* unsubscribe mirrors it.
Unsubscribe(t) ==
    /\ Calls("unsubscribe") /\ Spend("sub")
    /\ IF state = "connected"
       THEN \E i \in Ids :
            /\ Free(i) /\ nextId' = After(i)
            /\ IF Fits(1)
               THEN /\ txq' = Append(txq, UnsubscribePkt(i, t))
                    /\ pending' = Append(pending, Response("unsuback", i, t))
                    /\ subs' = [subs EXCEPT ![t] = "no"]
               ELSE UNCHANGED <<txq, pending, subs>>
       ELSE /\ subs' = [subs EXCEPT ![t] = "no"]
            /\ UNCHANGED <<txq, pending, nextId>>
    /\ UNCHANGED <<conn, trans, partial, batch, sendAt, inflight, preq, pingAt,
                   rxvars, todo, pc, cb, wire, hist>>

-----------------------------------------------------------------------------
(* handle(): self-heal and the transport                                   *)

\* Time stands still for a handler; every timer runs between two ticks.
Tick ==
    /\ pc = "idle"
    /\ retryAt' = Left(retryAt) /\ transportAt' = Left(transportAt)
    /\ sendAt' = Left(sendAt) /\ pingAt' = Left(pingAt)
    /\ pending' = [k \in DOMAIN pending |->
                      [pending[k] EXCEPT !.left = Left(@)]]
    /\ inflight' = [i \in Ids |-> [inflight[i] EXCEPT !.left = Left(@)]]
    /\ UNCHANGED <<state, wants, held, permanent, attempts, sock, connector, txq,
                   partial, batch, nextId, app, rxvars, todo, pc, cb, wire, hist,
                   calls>>

\* check() and handle() up to the protocol work of a live connection.
BeginHandle ==
    /\ pc = "idle" /\ state \in {"connecting", "connected"}
    /\ pc' = "deadlines"
    /\ cb' = "none"
    /\ UNCHANGED <<conn, trans, txvars, ackv, app, pingAt, rxvars, todo, wire,
                   hist, calls>>

Doubled == [n \in 0..5 |-> BackoffBase * <<1, 2, 4, 8, 16, 32>>[n + 1]]
Backoff == IF attempts >= HealSteps \/ Doubled[attempts] > BackoffCap
           THEN BackoffCap ELSE Doubled[attempts]

\* handle, FAILED with self-heal due: _arm_self_heal_backoff, then
\* _attempt_self_heal.  A clean session forgets what was in flight.
SelfHeal ==
    /\ pc = "idle" /\ state = "failed" /\ SelfHealActive /\ retryAt <= 0
    /\ retryAt' = Backoff
    /\ attempts' = IF attempts >= HealSteps THEN attempts ELSE attempts + 1
    /\ sock' = FALSE
    /\ CloseSocket
    /\ ResetTransient
    /\ IF CleanSession
       THEN /\ inflight' = [i \in Ids |-> NoEntry]
            /\ nextId' = 1
            /\ excused' = excused \cup InFlightMsgs
       ELSE UNCHANGED <<inflight, nextId, excused>>
    /\ \/ /\ connector' = TRUE                        \* the factory answered
          /\ transportAt' = AckTimeout
          /\ state' = "awaiting_transport"
          /\ pc' = "transport"
       \/ /\ transportAt' = Off                       \* the factory raised
          /\ UNCHANGED <<connector, state, pc>>
    /\ cb' = "none"
    /\ UNCHANGED <<wants, held, permanent, app, pingAt, acks, todo, toBroker,
                   published, accepted, fired, calls>>

BeginTransport ==
    /\ pc = "idle" /\ state = "awaiting_transport"
    /\ pc' = "transport"
    /\ cb' = "none"
    /\ UNCHANGED <<conn, trans, txvars, ackv, app, pingAt, rxvars, todo, wire,
                   hist, calls>>

\* _check_transport_deadline: a black-holed connect is cancelled.
TransportTimeout ==
    /\ pc = "transport" /\ transportAt = 0
    /\ connector' = FALSE /\ transportAt' = Off
    /\ Fault
    /\ UNCHANGED <<sock, txvars, ackv, app, pingAt, rxvars, todo, wire, hist, calls>>

\* _advance_connector: ready, CONNECT is queued on the fresh socket.
ConnectorReady ==
    /\ pc = "transport" /\ transportAt # 0
    /\ sock' = TRUE /\ connector' = FALSE /\ transportAt' = Off
    /\ link' = "up" /\ toBroker' = <<>> /\ toClient' = <<>>
    /\ txq' = Append(txq, ConnectPkt)
    /\ pending' = Append(pending, Response("connack", 0, NoTopic))
    /\ state' = "connecting"
    /\ pc' = "deadlines"
    /\ UNCHANGED <<wants, held, permanent, attempts, retryAt, partial, batch, sendAt,
                   inflight, nextId, app, pingAt, rxvars, todo, cb, hist, calls>>

\* Mutant of ConnectorPending: handle() goes on without a socket.
PendingFallsThrough ==
    /\ pc = "transport" /\ transportAt # 0
    /\ pc' = "deadlines"
    /\ UNCHANGED <<conn, trans, txvars, ackv, app, pingAt, rxvars, todo, cb, wire,
                   hist, calls>>

\* _advance_connector: still dialling, or failed.
ConnectorPending ==
    /\ pc = "transport" /\ transportAt # 0
    /\ pc' = "idle"
    /\ UNCHANGED <<conn, trans, txvars, ackv, app, pingAt, rxvars, todo, cb, wire,
                   hist, calls>>

ConnectorFailed ==
    /\ pc = "transport" /\ transportAt # 0
    /\ connector' = FALSE /\ transportAt' = Off
    /\ Fault
    /\ UNCHANGED <<sock, txvars, ackv, app, pingAt, rxvars, todo, wire, hist, calls>>

\* io_error: the runner's poll reports POLLERR / POLLHUP on the socket.
IoError ==
    /\ pc = "idle" /\ state \notin {"disconnected", "failed"}
    /\ state = "awaiting_transport" \/ link \in {"fin", "reset"}
    /\ connector' = FALSE
    /\ transportAt' = IF connector THEN Off ELSE transportAt
    /\ Fault
    /\ UNCHANGED <<sock, txvars, ackv, app, pingAt, rxvars, todo, wire, hist, calls>>

-----------------------------------------------------------------------------
(* handle(): timeouts and keepalive                                        *)

Expired(i) == Live(i) /\ inflight[i].left = 0

\* _check_deadlines: an unacknowledged PUBLISH is queued again as a duplicate.
\* With the headroom full its deadline stays and costs no retry.
RetryPublish(i) ==
    /\ pc = "deadlines" /\ Expired(i) /\ inflight[i].tries < RetryMax
    /\ Len(txq) < HardCap
    /\ txq' = Append(txq, PublishPkt(i, inflight[i].msg, TRUE))
    /\ inflight' = [inflight EXCEPT ![i].tries = @ + 1, ![i].left = AckTimeout]
    /\ UNCHANGED <<conn, trans, partial, batch, sendAt, pending, nextId, app, pingAt,
                   rxvars, todo, pc, cb, wire, hist, calls>>

\* ... or given up, which fails the connection; the loop stops there.
GiveUpPublish(i) ==
    /\ pc = "deadlines" /\ Expired(i) /\ inflight[i].tries >= RetryMax
    /\ inflight' = [inflight EXCEPT ![i] = NoEntry]
    /\ excused' = excused \cup {inflight[i].msg}
    /\ FailAndGoOn("recv")
    /\ UNCHANGED <<trans, txvars, pending, nextId, app, pingAt, rxvars, todo, wire,
                   published, accepted, fired, calls>>

\* The in-flight loop is over: nothing in it has expired, or only what the
\* full queue cannot take.
InFlightChecked ==
    \A i \in Ids : Expired(i) => inflight[i].tries < RetryMax /\ Len(txq) >= HardCap

\* Mutant of Overdue: only the CONNACK has a deadline.
OnlyConnackOverdue == {k \in DOMAIN pending : pending[k].left = 0 /\ pending[k].await = "connack"}
Overdue == {k \in DOMAIN pending : pending[k].left = 0}

\* The first overdue response is dropped and fails the connection.
ResponseTimeout ==
    /\ pc = "deadlines" /\ InFlightChecked /\ Overdue # {}
    /\ pending' = Without(pending, CHOOSE k \in Overdue : \A j \in Overdue : k <= j)
    /\ FailAndGoOn("recv")
    /\ UNCHANGED <<trans, txvars, inflight, nextId, app, pingAt, rxvars, todo, wire,
                   hist, calls>>

SendTimedOut ==
    /\ pc = "deadlines" /\ InFlightChecked /\ Overdue = {} /\ sendAt = 0
    /\ FailAndGoOn("recv")
    /\ UNCHANGED <<trans, txvars, ackv, app, pingAt, rxvars, todo, wire, hist, calls>>

\* Mutant of Keepalive: the next ping is not scheduled.
PingStaysDue ==
    /\ pc = "deadlines" /\ InFlightChecked /\ Overdue = {} /\ sendAt # 0
    /\ IF KeepAlive /\ state = "connected" /\ pingAt = 0 /\ ~Waiting("pingresp")
       THEN /\ txq' = Append(txq, PingReq)
            /\ pending' = Append(pending, Response("pingresp", 0, NoTopic))
       ELSE UNCHANGED <<txq, pending>>
    /\ pc' = "recv"
    /\ UNCHANGED <<conn, trans, partial, batch, sendAt, inflight, nextId, app, pingAt,
                   rxvars, todo, cb, wire, hist, calls>>

\* No deadline passed; _check_keepalive queues a PINGREQ when one is due, none
\* is unanswered and there is room.
Keepalive ==
    /\ pc = "deadlines" /\ InFlightChecked /\ Overdue = {} /\ sendAt # 0
    /\ IF KeepAlive /\ state = "connected" /\ pingAt = 0 /\ ~Waiting("pingresp")
       THEN /\ pingAt' = PingInterval
            /\ IF Len(txq) < HardCap
               THEN /\ txq' = Append(txq, PingReq)
                    /\ pending' = Append(pending, Response("pingresp", 0, NoTopic))
               ELSE UNCHANGED <<txq, pending>>
       ELSE UNCHANGED <<pingAt, txq, pending>>
    /\ pc' = "recv"
    /\ UNCHANGED <<conn, trans, partial, batch, sendAt, inflight, nextId, app, rxvars,
                   todo, cb, wire, hist, calls>>

-----------------------------------------------------------------------------
(* handle(): _read_inbound                                                 *)

\* _recv_suppressed: unsent acknowledgements or half a packet pause reading.
RecvSuppressed == batch \/ partial # <<>>

SkipRecv ==
    /\ pc = "recv" /\ RecvSuppressed
    /\ pc' = "drain" /\ cb' = "none"
    /\ UNCHANGED <<conn, trans, txvars, ackv, app, pingAt, rxvars, todo, wire, hist,
                   calls>>

\* The socket reference is gone: AttributeError leaves handle().
RecvWithoutSocket ==
    /\ pc = "recv" /\ ~RecvSuppressed /\ ~sock
    /\ pc' = "crashed" /\ cb' = "none"
    /\ UNCHANGED <<conn, trans, txvars, ackv, app, pingAt, rxvars, todo, wire, hist,
                   calls>>

\* recv_into returns whole packets (the decoder module deals in bytes) ...
RecvPackets(n) ==
    /\ pc = "recv" /\ ~RecvSuppressed /\ sock
    /\ link \in {"up", "fin"} /\ n \in 1..Len(toClient)
    /\ rx' = rx \o SubSeq(toClient, 1, n)
    /\ toClient' = SubSeq(toClient, n + 1, Len(toClient))
    /\ acks' = <<>>
    /\ pc' = "dispatch" /\ cb' = "none"
    /\ UNCHANGED <<conn, trans, txvars, ackv, app, pingAt, todo, link, toBroker, hist,
                   calls>>

\* ... or EAGAIN: packets of an earlier read may still be in the decoder.
RecvAgain ==
    /\ pc = "recv" /\ ~RecvSuppressed /\ sock
    /\ link \in {"up", "hole"}
    /\ acks' = <<>>
    /\ pc' = "dispatch" /\ cb' = "none"
    /\ UNCHANGED <<conn, trans, txvars, ackv, app, pingAt, rx, todo, wire, hist, calls>>

\* ... or the peer's FIN, or an error.
RecvFails ==
    /\ pc = "recv" /\ ~RecvSuppressed /\ sock
    /\ (link = "fin" /\ toClient = <<>>) \/ link = "reset"
    /\ Fault
    /\ UNCHANGED <<trans, txvars, ackv, app, pingAt, rxvars, todo, wire, hist, calls>>

\* The loop goes on while CONNECTED; before the first packet it does not ask.
Dispatching == pc = "dispatch" \/ (pc = "dispatched" /\ state = "connected")

Next1(type) == Dispatching /\ rx # <<>> /\ Head(rx).type = type
Took == rx' = Tail(rx) /\ pc' = "dispatched"
TookAndFaults == rx' = Tail(rx) /\ Fault

\* _handle_inbound_publish: on_message, then the PUBACK of a QoS 1 message.
DispatchPublish ==
    /\ Next1("publish") /\ Took
    /\ cb' = "on_message"
    /\ acks' = IF Head(rx).id = 0 THEN acks ELSE Append(acks, Head(rx).id)
    /\ UNCHANGED <<conn, trans, txvars, ackv, app, pingAt, todo, wire, hist, calls>>

\* Mutant of DispatchOversized: what was dropped is not acknowledged.
OversizedUnacknowledged ==
    /\ Next1("oversized")
    /\ IF setup.drops THEN Took /\ cb' = "on_message" /\ UNCHANGED conn ELSE TookAndFaults
    /\ UNCHANGED <<trans, txvars, ackv, app, pingAt, acks, todo, wire, hist, calls>>

\* _handle_oversized: dropped but acknowledged, or a protocol error.
DispatchOversized ==
    /\ Next1("oversized")
    /\ IF setup.drops
       THEN /\ Took /\ cb' = "on_message"
            /\ acks' = IF Head(rx).id = 0 THEN acks ELSE Append(acks, Head(rx).id)
            /\ UNCHANGED conn
       ELSE TookAndFaults /\ UNCHANGED acks
    /\ UNCHANGED <<trans, txvars, ackv, app, pingAt, todo, wire, hist, calls>>

\* Mutant of DispatchPuback: the entry stays, so a duplicate fires again.
EntryStays ==
    /\ Next1("puback") /\ Took
    /\ LET i == Head(rx).id IN
       IF Live(i)
       THEN /\ fired' = [fired EXCEPT ![inflight[i].msg] = IF @ < 2 THEN @ + 1 ELSE @]
            /\ cb' = "on_publish"
       ELSE UNCHANGED fired /\ cb' = "none"
    /\ UNCHANGED <<conn, trans, txvars, ackv, app, pingAt, acks, todo, wire,
                   published, accepted, excused, calls>>

\* _handle_ack, PUBACK: the entry goes and its callback fires once; an
\* acknowledgement of nothing is a late duplicate.
DispatchPuback ==
    /\ Next1("puback") /\ Took
    /\ LET i == Head(rx).id IN
       IF Live(i)
       THEN /\ inflight' = [inflight EXCEPT ![i] = NoEntry]
            /\ fired' = [fired EXCEPT ![inflight[i].msg] = IF @ < 2 THEN @ + 1 ELSE @]
            /\ cb' = "on_publish"
       ELSE UNCHANGED <<inflight, fired>> /\ cb' = "none"
    /\ UNCHANGED <<conn, trans, txvars, pending, nextId, app, pingAt, acks, todo, wire,
                   published, accepted, excused, calls>>

SubackTopics(i) == {pending[k].topic : k \in {j \in DOMAIN pending : Matches("suback", i, j)}}

\* _handle_ack, SUBACK: a rejected filter is evicted before the fault, a grant
\* fires the one-shot callback of its topic.
DispatchSuback ==
    /\ Next1("suback")
    /\ LET i == Head(rx).id
           topics == SubackTopics(i)
       IN
       IF ~Head(rx).granted
       THEN /\ subs' = [t \in Topics |-> IF t \in topics THEN "no" ELSE subs[t]]
            /\ TookAndFaults
            /\ UNCHANGED pending
       ELSE IF topics = {}
       THEN TookAndFaults /\ UNCHANGED <<pending, subs>>
       ELSE /\ pending' = Discard("suback", i)
            /\ Took
            /\ \E t \in topics :
                  /\ subs' = [subs EXCEPT ![t] = IF @ = "fresh" THEN "granted" ELSE @]
                  /\ cb' = IF subs[t] = "fresh" THEN "on_subscribe" ELSE "none"
            /\ UNCHANGED conn
    /\ UNCHANGED <<trans, txvars, inflight, nextId, preq, pingAt, acks, todo, wire, hist,
                   calls>>

DispatchUnsuback ==
    /\ Next1("unsuback")
    /\ IF \E k \in DOMAIN pending : Matches("unsuback", Head(rx).id, k)
       THEN /\ pending' = Discard("unsuback", Head(rx).id)
            /\ Took /\ cb' = "on_unsubscribe"
            /\ UNCHANGED conn
       ELSE TookAndFaults /\ UNCHANGED pending
    /\ UNCHANGED <<trans, txvars, inflight, nextId, app, pingAt, acks, todo, wire, hist,
                   calls>>

\* A stray PINGRESP is tolerated.
DispatchPingresp ==
    /\ Next1("pingresp") /\ Took
    /\ pending' = Discard("pingresp", 0)
    /\ cb' = "none"
    /\ UNCHANGED <<conn, trans, txvars, inflight, nextId, app, pingAt, acks, todo, wire,
                   hist, calls>>

\* Mutant of Replayed: what was granted once is taken to be still there.
OnlyUngranted(present) == {t \in Topics : subs[t] = "fresh"}
\* The subscriptions are replayed unless the broker kept the session.
Replayed(present) ==
    IF CleanSession \/ ~present THEN {t \in Topics : subs[t] # "no"} ELSE {}

\* _handle_connack, accepted: CONNECTED first, whatever the state was.
DispatchConnack ==
    /\ Next1("connack") /\ Head(rx).code = "accepted"
    /\ rx' = Tail(rx)
    /\ pending' = Discard("connack", 0)
    /\ state' = "connected"
    /\ attempts' = 0 /\ retryAt' = Off
    /\ pingAt' = PingInterval
    /\ todo' = Replayed(Head(rx).present)
    /\ pc' = "replay" /\ cb' = "none"
    /\ UNCHANGED <<wants, held, permanent, trans, txvars, inflight, nextId, app, acks,
                   wire, hist, calls>>

\* _handle_connack, rejected: FAILED, for good when retrying cannot help.
DispatchRejection ==
    /\ Next1("connack") /\ Head(rx).code # "accepted" /\ Took
    /\ pending' = Discard("connack", 0)
    /\ permanent' = (permanent \/ Head(rx).code = "permanent")
    /\ state' = "failed"
    /\ cb' = IF state = "connected" THEN "on_disconnect" ELSE "none"
    /\ UNCHANGED <<wants, held, attempts, retryAt, trans, txvars, inflight, nextId, app,
                   pingAt, acks, todo, wire, hist, calls>>

\* _replay_subscriptions, one topic: through the headroom; at the hard cap the
\* SUBSCRIBE is not queued but its SUBACK is awaited all the same.
ReplaySubscription(t) ==
    /\ pc = "replay" /\ t \in todo
    /\ \E i \in Ids :
          /\ Free(i) /\ nextId' = After(i)
          /\ txq' = IF Len(txq) < HardCap THEN Append(txq, SubscribePkt(i, t)) ELSE txq
          /\ pending' = Append(pending, Response("suback", i, t))
    /\ todo' = todo \ {t}
    /\ UNCHANGED <<conn, trans, partial, batch, sendAt, inflight, app, pingAt, rxvars,
                   pc, cb, wire, hist, calls>>

\* _drain_pre_connect_queue, one publish: taken off the queue before the
\* transmit queue has accepted it.
FlushPublish ==
    /\ pc = "replay" /\ todo = {} /\ preq # <<>>
    /\ preq' = Tail(preq)
    /\ \/ /\ DoPublish(Head(preq).msg, Head(preq).qos)
          /\ UNCHANGED <<conn, pc, cb>>
       \/ /\ PublishOverflows(Head(preq).qos)
          /\ Fault
    /\ UNCHANGED <<trans, partial, batch, sendAt, pending, subs, pingAt, rxvars, todo,
                   wire, hist, calls>>

\* ... then on_connect.
AnnounceConnect ==
    /\ pc = "replay" /\ todo = {} /\ preq = <<>>
    /\ pc' = "dispatched" /\ cb' = "on_connect"
    /\ UNCHANGED <<conn, trans, txvars, ackv, app, pingAt, rxvars, todo, wire, hist,
                   calls>>

\* The loop stops once the session is not CONNECTED: an inbound callback may
\* have disconnected.  Acknowledgements collected so far are not flushed.
StopDispatch ==
    /\ pc = "dispatched" /\ state # "connected"
    /\ pc' = "drain" /\ cb' = "none"
    /\ UNCHANGED <<conn, trans, txvars, ackv, app, pingAt, rxvars, todo, wire, hist,
                   calls>>

\* Nothing left to dispatch: this tick's acknowledgements become one entry at
\* the front of the queue.
FlushPubacks ==
    /\ Dispatching /\ rx = <<>>
    /\ acks' = <<>>
    /\ IF acks # <<>> /\ Len(txq) >= HardCap
       THEN Fault /\ UNCHANGED <<txq, batch>>
       ELSE /\ txq' = (IF acks = <<>> THEN <<>> ELSE <<PubacksPkt(acks)>>) \o txq
            /\ batch' = (batch \/ acks # <<>>)
            /\ pc' = "drain" /\ cb' = "none"
            /\ UNCHANGED conn
    /\ UNCHANGED <<trans, partial, sendAt, ackv, app, pingAt, rx, todo, wire, hist, calls>>

-----------------------------------------------------------------------------
(* handle(): _drain_tx_queue                                               *)

\* _update_send_deadline
UpdateSendDeadline(progress) ==
    sendAt' = IF txq' = <<>> /\ partial' = <<>> THEN Off
              ELSE IF progress \/ sendAt = Off THEN SendTimeout ELSE sendAt

AtMarker == txq # <<>> /\ Head(txq).type = "marker"
Draining == pc = "drain" /\ partial = <<>>
Writable == sock /\ link # "reset"

\* The rest of a short send goes first, and takes the whole tick.
FinishPartial ==
    /\ pc = "drain" /\ partial # <<>> /\ Writable
    /\ Deliver(partial[1])
    /\ partial' = <<>> /\ UNCHANGED txq
    /\ UpdateSendDeadline(TRUE)
    /\ pc' = "idle" /\ cb' = "none"
    /\ UNCHANGED <<conn, trans, batch, ackv, app, pingAt, rxvars, todo, link,
                   toClient, hist, calls>>

\* ... or stalls: some bytes or none were taken.
StallPartial(progress) ==
    /\ pc = "drain" /\ partial # <<>> /\ Writable
    /\ progress => calls.partial > 0
    /\ calls' = IF progress THEN [calls EXCEPT !.partial = @ - 1] ELSE calls
    /\ pc' = "idle" /\ cb' = "none"
    /\ UNCHANGED <<txq, partial>>
    /\ UpdateSendDeadline(progress)
    /\ UNCHANGED <<conn, trans, batch, ackv, app, pingAt, rxvars, todo, wire, hist>>

\* _drain_callback_markers: on_publish of a QoS 0 publish whose packet has left.
DrainMarker ==
    /\ pc = "drained" \/ Draining
    /\ AtMarker
    /\ txq' = Tail(txq)
    /\ cb' = "on_publish"
    /\ UNCHANGED <<conn, trans, partial, batch, sendAt, ackv, app, pingAt, rxvars, todo,
                   pc, wire, hist, calls>>

DrainEmpty ==
    /\ Draining /\ txq = <<>>
    /\ UNCHANGED <<txq, partial>>
    /\ UpdateSendDeadline(FALSE)
    /\ pc' = "idle" /\ cb' = "none"
    /\ UNCHANGED <<conn, trans, batch, ackv, app, pingAt, rxvars, todo, wire, hist, calls>>

ReadyToSend == Draining /\ txq # <<>> /\ ~AtMarker
IsBatch == Head(txq).type = "pubacks"

\* The head goes out whole: an acknowledgement batch does not use up the tick.
SendHead ==
    /\ ReadyToSend /\ Writable
    /\ Deliver(Head(txq))
    /\ txq' = Tail(txq)
    /\ UNCHANGED partial
    /\ UpdateSendDeadline(TRUE)
    /\ batch' = (batch /\ ~IsBatch)
    /\ pc' = IF IsBatch THEN "drain" ELSE "drained"
    /\ cb' = "none"
    /\ UNCHANGED <<conn, trans, ackv, app, pingAt, rxvars, todo, link, toClient, hist,
                   calls>>

\* ... in part: the rest is owed before anything else.
SendPart ==
    /\ ReadyToSend /\ Writable /\ Spend("partial")
    /\ partial' = <<Head(txq)>>
    /\ txq' = Tail(txq)
    /\ batch' = (batch /\ ~IsBatch)
    /\ UpdateSendDeadline(TRUE)
    /\ pc' = "idle" /\ cb' = "none"
    /\ UNCHANGED <<conn, trans, ackv, app, pingAt, rxvars, todo, wire, hist>>

\* ... or not at all (EAGAIN).
SendAgain ==
    /\ ReadyToSend /\ Writable
    /\ UNCHANGED <<txq, partial>>
    /\ UpdateSendDeadline(FALSE)
    /\ pc' = "idle" /\ cb' = "none"
    /\ UNCHANGED <<conn, trans, batch, ackv, app, pingAt, rxvars, todo, wire, hist, calls>>

SendFails ==
    /\ pc = "drain" /\ (partial # <<>> \/ ReadyToSend) /\ sock
    /\ link \in {"fin", "reset"}
    /\ Fault
    /\ UNCHANGED <<trans, txvars, ackv, app, pingAt, rxvars, todo, wire, hist, calls>>

\* The tick's packet is out and so are the markers behind it.
DrainDone ==
    /\ pc = "drained" /\ ~AtMarker
    /\ pc' = "idle" /\ cb' = "none"
    /\ UNCHANGED <<conn, trans, txvars, ackv, app, pingAt, rxvars, todo, wire, hist,
                   calls>>

-----------------------------------------------------------------------------
Application ==
    \/ Connect \/ Hold \/ Disconnect
    \/ \E q \in {0, 1} : Publish(q)
    \/ \E t \in Topics : Subscribe(t) \/ Unsubscribe(t)

Transport ==
    \/ BeginTransport \/ TransportTimeout \/ ConnectorReady \/ ConnectorPending
    \/ ConnectorFailed

Deadlines ==
    \/ \E i \in Ids : RetryPublish(i) \/ GiveUpPublish(i)
    \/ ResponseTimeout \/ SendTimedOut \/ Keepalive

Receive ==
    \/ SkipRecv \/ RecvWithoutSocket \/ RecvAgain \/ RecvFails
    \/ \E n \in 1..Len(toClient) : RecvPackets(n)

Dispatch ==
    \/ DispatchPublish \/ DispatchOversized \/ DispatchPuback \/ DispatchSuback
    \/ DispatchUnsuback \/ DispatchPingresp \/ DispatchConnack \/ DispatchRejection
    \/ \E t \in Topics : ReplaySubscription(t)
    \/ FlushPublish \/ AnnounceConnect \/ StopDispatch \/ FlushPubacks

Drain ==
    \/ FinishPartial \/ \E p \in BOOLEAN : StallPartial(p)
    \/ DrainMarker \/ DrainEmpty \/ SendHead \/ SendPart \/ SendAgain \/ SendFails
    \/ DrainDone

Handle == BeginHandle \/ SelfHeal \/ Transport \/ Deadlines \/ Receive \/ Dispatch \/ Drain

ClientNext == (Application \/ Tick \/ IoError \/ Handle) /\ UNCHANGED setup

\* The network and the peer, about which the client assumes nothing.
Network ==
    UNCHANGED <<setup, conn, trans, txvars, ackv, app, pingAt, rxvars, todo, pc, cb, hist, calls>>

ClientSpec == Init /\ [][ClientNext \/ Network]_cvars

=============
