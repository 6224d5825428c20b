----------------------------- MODULE MqttSystem -----------------------------
(***************************************************************************)
(* MqttClient with a broker and the network between them.  The broker is   *)
(* external: it is the MQTT 3.1.1 peer the client's handlers expect, with  *)
(* a session that survives a connection when clean_session is off.  The    *)
(* network may cut the connection (FIN or reset) or silence it.            *)
(*                                                                         *)
(* The peer and the network act between two ticks: handle() reads before   *)
(* it writes, so what they do during it is what they did before it.        *)
(***************************************************************************)
EXTENDS MqttClient, FiniteSets

CONSTANT Faults  \* bound: connections the network breaks

ASSUME SystemAssumption == Faults \in Nat

VARIABLES
    session,     \* the broker took the CONNECT of this connection
    kept,        \* the broker remembers the client's session
    bsubs,       \* subscriptions of the session
    got,         \* messages the broker received
    unacked,     \* ids of QoS 1 deliveries the client has not acknowledged
    left         \* bound: faults, rejections and pushes left

bvars == <<session, kept, bsubs, got, unacked, left>>
vars  == <<cvars, bvars>>

ClientState == <<conn, trans, txvars, ackv, app, pingAt, rxvars, todo, pc, cb, hist,
                 calls>>

SystemInit ==
    /\ Init
    /\ session = FALSE /\ kept = FALSE /\ bsubs = {} /\ got = {} /\ unacked = <<>>
    /\ left = [faults |-> Faults, rejections |-> setup.rejections,
               pushes |-> setup.pushes]

Use(kind) ==
    /\ left[kind] > 0
    /\ left' = [left EXCEPT ![kind] = @ - 1]

-----------------------------------------------------------------------------
(* The broker                                                              *)

Reply(packets) ==
    toClient' = IF link = "up" THEN toClient \o packets ELSE toClient

\* Data sent before the client closed its socket may still be read.
Reads(type) ==
    /\ pc = "idle" /\ link \in {"up", "none"}
    /\ toBroker # <<>> /\ Head(toBroker).type = type
    /\ toBroker' = Tail(toBroker)
    /\ UNCHANGED <<link, ClientState>>

Elements(s) == {s[k] : k \in DOMAIN s}

\* Several sequences of ids, one after the other.
Flat[ss \in Seq(Seq(Nat))] == IF ss = <<>> THEN <<>> ELSE Head(ss) \o Flat[Tail(ss)]
\* The ids of s that are not acknowledged.
Unacknowledged(s, ids) == Flat[[k \in DOMAIN s |-> IF s[k] \in ids THEN <<>> ELSE <<s[k]>>]]

Connack(code, present) == [type |-> "connack", code |-> code, present |-> present]
Delivery(i)            == [type |-> "publish", id |-> i]

\* A kept session resumes, with what was not acknowledged sent again.
BrokerAccepts ==
    /\ Reads("connect")
    /\ session' = TRUE
    /\ LET resume == kept /\ ~CleanSession IN
       /\ kept' = ~CleanSession
       /\ bsubs' = IF resume THEN bsubs ELSE {}
       /\ unacked' = IF resume THEN unacked ELSE <<>>
       /\ Reply(<<Connack("accepted", resume)>>
                \o [k \in DOMAIN unacked' |-> Delivery(unacked'[k])])
    /\ UNCHANGED <<got, left>>

BrokerRejects(code) ==
    /\ Reads("connect") /\ Use("rejections")
    /\ Reply(<<Connack(code, FALSE)>>)
    /\ UNCHANGED <<session, kept, bsubs, got, unacked>>

BrokerTakesPublish ==
    /\ Reads("publish") /\ session
    /\ got' = got \cup {Head(toBroker).msg}
    /\ Reply(IF Head(toBroker).id = 0 THEN <<>>
             ELSE <<[type |-> "puback", id |-> Head(toBroker).id]>>)
    /\ UNCHANGED <<session, kept, bsubs, unacked, left>>

BrokerSubscribes(granted) ==
    /\ Reads("subscribe") /\ session
    /\ IF granted THEN UNCHANGED left ELSE Use("rejections")
    /\ bsubs' = IF granted THEN bsubs \cup {Head(toBroker).topic} ELSE bsubs
    /\ Reply(<<[type |-> "suback", id |-> Head(toBroker).id, granted |-> granted]>>)
    /\ UNCHANGED <<session, kept, got, unacked>>

BrokerUnsubscribes ==
    /\ Reads("unsubscribe") /\ session
    /\ bsubs' = bsubs \ {Head(toBroker).topic}
    /\ Reply(<<[type |-> "unsuback", id |-> Head(toBroker).id]>>)
    /\ UNCHANGED <<session, kept, got, unacked, left>>

BrokerTakesPubacks ==
    /\ Reads("pubacks") /\ session
    /\ unacked' = Unacknowledged(unacked, Elements(Head(toBroker).ids))
    /\ UNCHANGED <<session, kept, bsubs, got, left, toClient>>

BrokerAnswersPing ==
    /\ Reads("pingreq") /\ session
    /\ Reply(<<[type |-> "pingresp"]>>)
    /\ UNCHANGED bvars

\* DISCONNECT, or bytes that make no sense: the session of this connection ends.
BrokerEnds ==
    /\ Reads("disconnect") \/ Reads("garbage")
    /\ session' = FALSE
    /\ UNCHANGED <<kept, bsubs, got, unacked, left, toClient>>

\* A message for the client: QoS 1 under a fresh id, QoS 0 (id 0), or one that
\* is larger than the client's receive buffer.
BrokerPushes(kind, id) ==
    /\ pc = "idle" /\ link = "up" /\ session /\ bsubs # {} /\ Use("pushes")
    /\ toClient' = Append(toClient, [type |-> kind, id |-> id])
    /\ unacked' = IF id = 0 THEN unacked ELSE Append(unacked, id)
    /\ UNCHANGED <<session, kept, bsubs, got, link, toBroker, ClientState>>

-----------------------------------------------------------------------------
(* The network                                                             *)

\* The connection ends (fin), breaks (reset) or goes silent (hole): what the
\* peer had not read is lost, what it sent still arrives only before a FIN.
Break(how) ==
    /\ pc = "idle" /\ link = "up" /\ Use("faults")
    /\ link' = how
    /\ toBroker' = <<>>
    /\ toClient' = IF how = "fin" THEN toClient ELSE <<>>
    /\ session' = FALSE
    /\ UNCHANGED <<kept, bsubs, got, unacked, ClientState>>

-----------------------------------------------------------------------------
Broker ==
    \/ BrokerAccepts \/ \E c \in {"transient", "permanent"} : BrokerRejects(c)
    \/ BrokerTakesPublish \/ \E g \in BOOLEAN : BrokerSubscribes(g)
    \/ BrokerUnsubscribes \/ BrokerTakesPubacks \/ BrokerAnswersPing \/ BrokerEnds
    \/ \E kind \in {"publish", "oversized"}, id \in {0, setup.pushes - left.pushes + 1} :
          BrokerPushes(kind, id)

\* A fresh connection starts without a session at the broker.
Peers ==
    /\ session' = (session /\ ~(link # "up" /\ link' = "up"))
    /\ UNCHANGED <<kept, bsubs, got, unacked, left>>
ClientStep == ClientNext /\ Peers

SystemNext ==
    \/ ClientStep
    \/ Broker /\ UNCHANGED setup
    \/ (\E how \in {"fin", "reset", "hole"} : Break(how)) /\ UNCHANGED setup

Spec == SystemInit /\ [][SystemNext]_vars

-----------------------------------------------------------------------------
(* Properties                                                              *)

\* The resources of a connection agree with its state: a connector and its
\* deadline exist exactly while awaiting the transport, a protocol state has a
\* socket, and without a socket nothing waits to be written or answered.
TransportAgrees ==
    /\ connector <=> state = "awaiting_transport"
    /\ transportAt # Off <=> connector
    /\ state \in {"connecting", "connected"} => sock
    /\ ~sock => txq = <<>> /\ partial = <<>> /\ pending = <<>> /\ sendAt = Off
    /\ sock <=> link # "none"

\* handle() never uses a socket that a callback took away.
NeverCrashes == pc # "crashed"

\* Batches of acknowledgements waiting in a queue.
Batches(q) == {k \in DOMAIN q : q[k].type = "pubacks"}

\* Every QoS 1 delivery of a live session is acknowledged exactly once and in
\* the order of receipt (MQTT-4.6.0-2): what the broker waits for is, in order,
\* what is on the wire, half sent, queued, collected and not yet dispatched.  And
\* the pacing flag is set exactly while one batch of acknowledgements is queued, so
\* that a second one can never overtake it.
AckIds(q) == [k \in DOMAIN q |-> IF q[k].type = "pubacks" THEN q[k].ids ELSE <<>>]
DeliveryIds(q) == [k \in DOMAIN q |-> IF q[k].type \in {"publish", "oversized"} /\ q[k].id # 0
                                      THEN <<q[k].id>> ELSE <<>>]
Collected == IF pc \in {"dispatch", "dispatched", "replay"} THEN acks ELSE <<>>
AcksInOrder ==
    link = "up" /\ session /\ state = "connected" =>
        unacked = Flat[AckIds(toBroker)] \o Flat[AckIds(partial)] \o Flat[AckIds(txq)]
                  \o Collected \o Flat[DeliveryIds(rx)] \o Flat[DeliveryIds(toClient)]
OneBatch ==
    /\ batch <=> Batches(txq) # {}
    /\ Cardinality(Batches(txq)) <= 1
AcksConserved == AcksInOrder /\ OneBatch

\* What the client promises about QoS 1 publishes, as an abstract machine.
Fate == [m \in Msgs |->
    IF m \notin accepted THEN "none"
    ELSE IF fired[m] > 1 THEN "confirmed twice"
    ELSE IF fired[m] = 1 THEN "confirmed"
    ELSE IF m \in excused THEN "excused"
    ELSE IF m \notin InFlightMsgs \cup QueuedMsgs THEN "lost"
    ELSE IF m \in got THEN "delivered" ELSE "accepted"]
Delivery1 == INSTANCE MqttDelivery WITH Messages <- Msgs, fate <- Fate
DeliverySpec == Delivery1!Spec

\* The client is connected and nothing is on its way in either direction.
AtRest ==
    /\ pc = "idle" /\ state = "connected" /\ link = "up"
    /\ txq = <<>> /\ partial = <<>> /\ pending = <<>>
    /\ rx = <<>> /\ toBroker = <<>> /\ toClient = <<>>
Served == bsubs = {t \in Topics : subs[t] # "no"}

\* The broker serves exactly the subscriptions the application declared, whatever
\* it refused before: whenever a connected client with a clean session is at rest,
\* with nothing on its way in either direction (subscribe, unsubscribe,
\* _handle_suback, _replay_subscriptions).
SubscriptionsServed == AtRest /\ CleanSession => Served

\* "the SUBSCRIBE goes on the wire immediately when already CONNECTED,
\* otherwise on the first CONNACK" (mqtt/docs/guide.md): with a kept session too.
OfflineSubscriptionsServed == AtRest /\ left.rejections = setup.rejections => Served

\* A send deadline is armed only while something is unsent (client.py:291:
\* "Max unsent time before FAILED").
SendDeadlineMeansUnsent == pc = "idle" /\ sendAt # Off => txq # <<>> \/ partial # <<>>

\* While held, a client that failed stays FAILED (guide.md:287): nothing but
\* the application brings it back, not even an answer that comes too late.
HeldStaysFailed == [][held /\ held' /\ state = "failed" => state' = "failed"]_vars

-----------------------------------------------------------------------------
(* Fairness and liveness                                                   *)

\* Every timer is longer than a round trip: time passes only when a live
\* connection has delivered and answered what was sent.
Answered ==
    link = "up" /\ state \in {"connecting", "connected"} =>
        txq = <<>> /\ partial = <<>> /\ toBroker = <<>> /\ toClient = <<>>
PromptTick == Answered /\ Tick /\ Peers /\ UNCHANGED setup

PromptNext ==
    \/ (Application \/ IoError \/ Handle) /\ Peers /\ UNCHANGED setup
    \/ PromptTick
    \/ Broker /\ UNCHANGED setup
    \/ (\E how \in {"fin", "reset", "hole"} : Break(how)) /\ UNCHANGED setup

\* The runner keeps ticking and time passes; the factory, the connector, the
\* socket and the broker, when they can succeed again and again, do succeed.
Fairness ==
    /\ WF_vars(Handle /\ Peers /\ UNCHANGED setup)
    /\ SF_vars(PromptTick)
    /\ SF_vars(SelfHeal /\ connector' /\ Peers /\ UNCHANGED setup)
    /\ SF_vars(ConnectorReady /\ Peers /\ UNCHANGED setup)
    /\ SF_vars(SendHead /\ Peers /\ UNCHANGED setup)
    /\ SF_vars((\E n \in 1..Len(toClient) : RecvPackets(n)) /\ Peers /\ UNCHANGED setup)
    /\ SF_vars(Broker /\ toBroker' # toBroker /\ UNCHANGED setup)

FairSpec == SystemInit /\ [][PromptNext]_vars /\ Fairness

\* A silent peer is noticed through keepalive and the acknowledgement timers.
DeadPeerNoticed == (state = "connected" /\ link = "hole") ~> state # "connected"

\* Self-heal converges: a client that is wanted, not held and not refused for
\* good is CONNECTED again and again.
Wanted == wants /\ ~held /\ ~permanent
SelfHealConverges == <>[]Wanted => []<>(state = "connected")

\* A lost connection is noticed and replaced: neither a peer that goes silent nor
\* a failing way back keeps a wanted client from being connected for real
\* (_check_deadlines, _self_heal_active).
LossIsHealed == DeadPeerNoticed /\ SelfHealConverges
=============================================================================
