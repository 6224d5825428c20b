-------------------------- MODULE MqttSystemProofs --------------------------
(***************************************************************************)
(* The socket, the connector and the state of MQTTClient agree in every    *)
(* reachable state, for every value of the constants, whatever the         *)
(* application calls from its callbacks and whatever the peer sends;       *)
(* handle() reads no socket that a callback took away, as long as the      *)
(* application does not leave from on_disconnect; one batch of             *)
(* acknowledgements is queued at a time; and what a live session delivers  *)
(* is acknowledged exactly once and in the order of receipt.               *)
(*                                                                         *)
(* What the broker waits for is the concatenation of six pieces: the ids   *)
(* on the wire, in the half-sent packet, in the transmit queue, collected  *)
(* in this tick, in the decoder and on their way to the client.  Each step *)
(* of the system moves ids from a piece to the one before it, drops them   *)
(* at the first or adds them at the last.  The last part first shows what  *)
(* Flat computes, then what the pieces of a queue are, then the invariant. *)
(***************************************************************************)
EXTENDS MqttSystem, TLAPS, FiniteSetTheorems, WellFoundedInduction, SequenceTheorems

\* TransportAgrees is not inductive: an operation in the middle of handle()
\* relies on where handle() is.  The steps that assume a socket run before
\* any callback of the tick, so no callback can have closed it.
NoCallbackYet == pc \in {"transport", "deadlines", "dispatch", "replay"}

ConnInv ==
    /\ transportAt \in Int /\ transportAt >= Off
    /\ connector => ~sock
    /\ NoCallbackYet => cb = "none"
    /\ NoCallbackYet /\ pc # "transport" => sock
    /\ pc = "transport" => connector

IInv == TransportAgrees /\ ConnInv

-----------------------------------------------------------------------------
\* No callback runs while cb is "none", so the application has no say then.
NoCallFromNone == \A m : <<"none", m>> \notin setup.ops

LEMMA InitNoCall == SystemInit => NoCallFromNone
  <1> SUFFICES ASSUME SystemInit PROVE NoCallFromNone
    OBVIOUS
  <1>1. setup \in SetupType
    BY MqttAssumption DEF MqttAssumption, SystemInit, Init
  <1>2. setup.ops \subseteq Callbacks \X Methods
    BY <1>1 DEF SetupType
  <1> QED
    BY <1>2 DEF NoCallFromNone, Callbacks

LEMMA NextNoCall == NoCallFromNone /\ [SystemNext]_vars => NoCallFromNone'
  <1>1. [SystemNext]_vars => setup' = setup
    BY DEF SystemNext, ClientStep, ClientNext, vars, cvars
  <1> QED
    BY <1>1 DEF NoCallFromNone

LEMMA InitConn == SystemInit => IInv
  <1> SUFFICES ASSUME SystemInit PROVE IInv
    OBVIOUS
  <1>1. /\ state = "disconnected" /\ ~connector /\ transportAt = Off /\ pc = "idle"
        /\ txq = <<>> /\ partial = <<>> /\ pending = <<>> /\ sendAt = Off
    BY DEF SystemInit, Init
  <1>2. link # "none" <=> sock
    BY DEF SystemInit, Init
  <1> QED
    BY <1>1, <1>2 DEF IInv, TransportAgrees, ConnInv, NoCallbackYet, Off

\* The application calls in at rest or from a callback, never while cb is "none".
LEMMA ApplicationKeeps == NoCallFromNone /\ IInv /\ Application => IInv'
  <1> SUFFICES ASSUME NoCallFromNone, IInv, Application PROVE IInv'
    OBVIOUS
  <1> USE MqttAssumption
      DEF NoCallFromNone, IInv, TransportAgrees, ConnInv, NoCallbackYet, Off, MqttAssumption,
          conn, trans, txvars, ackv, app, rxvars, wire, hist, Calls
  <1>1. CASE Connect
    <2>1. CASE state = "disconnected" /\ sock
      BY <1>1, <2>1 DEF Connect
    <2>2. CASE state = "disconnected" /\ ~sock
      BY <1>1, <2>2 DEF Connect
    <2>3. CASE state = "failed"
      BY <1>1, <2>3 DEF Connect
    <2>4. CASE state \notin {"disconnected", "failed"}
      BY <1>1, <2>4 DEF Connect
    <2> QED BY <2>1, <2>2, <2>3, <2>4
  <1>2. CASE Hold
    BY <1>2 DEF Hold
  <1>3. CASE Disconnect
    BY <1>3 DEF Disconnect, CloseSocket, ResetTransient, Deliver
  <1>4. ASSUME NEW q \in {0, 1}, Publish(q) PROVE IInv'
    BY <1>4 DEF Publish, DoPublish, PublishOverflows
  <1>5. ASSUME NEW t \in Topics, Subscribe(t) PROVE IInv'
    BY <1>5 DEF Subscribe
  <1>6. ASSUME NEW t \in Topics, Unsubscribe(t) PROVE IInv'
    BY <1>6 DEF Unsubscribe
  <1> QED
    BY <1>1, <1>2, <1>3, <1>4, <1>5, <1>6 DEF Application

\* The connector becomes the socket, or goes.
LEMMA TransportKeeps == NoCallFromNone /\ IInv /\ Transport => IInv'
  <1> SUFFICES ASSUME NoCallFromNone, IInv, Transport PROVE IInv'
    OBVIOUS
  <1> USE MqttAssumption
      DEF NoCallFromNone, IInv, TransportAgrees, ConnInv, NoCallbackYet, Off, MqttAssumption,
          conn, trans, txvars, ackv, app, rxvars, wire, hist
  <1>1. CASE BeginTransport
    BY <1>1 DEF BeginTransport
  <1>2. CASE TransportTimeout
    BY <1>2 DEF TransportTimeout, Fault, EnterFailed
  <1>3. CASE ConnectorReady
    BY <1>3 DEF ConnectorReady
  <1>4. CASE ConnectorPending
    BY <1>4 DEF ConnectorPending
  <1>5. CASE ConnectorFailed
    BY <1>5 DEF ConnectorFailed, Fault, EnterFailed
  <1> QED
    BY <1>1, <1>2, <1>3, <1>4, <1>5 DEF Transport

\* Before any callback of the tick the socket is still there.
LEMMA DeadlinesKeep == NoCallFromNone /\ IInv /\ Deadlines => IInv'
  <1> SUFFICES ASSUME NoCallFromNone, IInv, Deadlines PROVE IInv'
    OBVIOUS
  <1> USE MqttAssumption
      DEF NoCallFromNone, IInv, TransportAgrees, ConnInv, NoCallbackYet, Off, MqttAssumption,
          conn, trans, txvars, ackv, app, rxvars, wire, hist
  <1>1. ASSUME NEW i \in Ids, RetryPublish(i) PROVE IInv'
    BY <1>1 DEF RetryPublish
  <1>2. ASSUME NEW i \in Ids, GiveUpPublish(i) PROVE IInv'
    BY <1>2 DEF GiveUpPublish, FailAndGoOn, EnterFailed
  <1>3. CASE ResponseTimeout
    BY <1>3 DEF ResponseTimeout, FailAndGoOn, EnterFailed
  <1>4. CASE SendTimedOut
    BY <1>4 DEF SendTimedOut, FailAndGoOn, EnterFailed
  <1>5. CASE Keepalive
    BY <1>5 DEF Keepalive
  <1> QED
    BY <1>1, <1>2, <1>3, <1>4, <1>5 DEF Deadlines

\* Reading leads to dispatch only through a socket.
LEMMA ReceiveKeeps == NoCallFromNone /\ IInv /\ Receive => IInv'
  <1> SUFFICES ASSUME NoCallFromNone, IInv, Receive PROVE IInv'
    OBVIOUS
  <1> USE MqttAssumption
      DEF NoCallFromNone, IInv, TransportAgrees, ConnInv, NoCallbackYet, Off, MqttAssumption,
          conn, trans, txvars, ackv, app, rxvars, wire, hist
  <1>1. CASE SkipRecv
    BY <1>1 DEF SkipRecv
  <1>2. CASE RecvWithoutSocket
    BY <1>2 DEF RecvWithoutSocket
  <1>3. CASE RecvAgain
    BY <1>3 DEF RecvAgain
  <1>4. CASE RecvFails
    BY <1>4 DEF RecvFails, Fault, EnterFailed
  <1>5. ASSUME NEW n \in 1..Len(toClient), RecvPackets(n) PROVE IInv'
    BY <1>5 DEF RecvPackets
  <1> QED
    BY <1>1, <1>2, <1>3, <1>4, <1>5 DEF Receive

\* Dispatch goes on only before a callback or while CONNECTED.
LEMMA DispatchKeeps == NoCallFromNone /\ IInv /\ Dispatch => IInv'
  <1> SUFFICES ASSUME NoCallFromNone, IInv, Dispatch PROVE IInv'
    OBVIOUS
  <1> USE MqttAssumption
      DEF NoCallFromNone, IInv, TransportAgrees, ConnInv, NoCallbackYet, Off, MqttAssumption,
          conn, trans, txvars, ackv, app, rxvars, wire, hist
  <1>1. CASE DispatchPublish
    BY <1>1 DEF DispatchPublish, Next1, Dispatching, Took
  <1>2. CASE DispatchOversized
    BY <1>2 DEF DispatchOversized, Next1, Dispatching, Took, TookAndFaults, Fault, EnterFailed
  <1>3. CASE DispatchPuback
    BY <1>3 DEF DispatchPuback, Next1, Dispatching, Took
  <1>4. CASE DispatchSuback
    BY <1>4 DEF DispatchSuback, Next1, Dispatching, Took, TookAndFaults, Fault, EnterFailed
  <1>5. CASE DispatchUnsuback
    BY <1>5 DEF DispatchUnsuback, Next1, Dispatching, Took, TookAndFaults, Fault, EnterFailed
  <1>6. CASE DispatchPingresp
    BY <1>6 DEF DispatchPingresp, Next1, Dispatching, Took
  <1>7. CASE DispatchConnack
    BY <1>7 DEF DispatchConnack, Next1, Dispatching, Took
  <1>8. CASE DispatchRejection
    BY <1>8 DEF DispatchRejection, Next1, Dispatching, Took
  <1>9. ASSUME NEW t \in Topics, ReplaySubscription(t) PROVE IInv'
    BY <1>9 DEF ReplaySubscription
  <1>10. CASE FlushPublish
    BY <1>10 DEF FlushPublish, DoPublish, PublishOverflows, Fault, EnterFailed
  <1>11. CASE AnnounceConnect
    BY <1>11 DEF AnnounceConnect
  <1>12. CASE StopDispatch
    BY <1>12 DEF StopDispatch
  <1>13. CASE FlushPubacks
    BY <1>13 DEF FlushPubacks, Dispatching, Fault, EnterFailed
  <1> QED
    BY <1>1, <1>2, <1>3, <1>4, <1>5, <1>6, <1>7, <1>8, <1>9, <1>10, <1>11, <1>12, <1>13 DEF Dispatch

\* Without a socket the queue is empty and nothing is sent.
LEMMA DrainKeeps == NoCallFromNone /\ IInv /\ Drain => IInv'
  <1> SUFFICES ASSUME NoCallFromNone, IInv, Drain PROVE IInv'
    OBVIOUS
  <1> USE MqttAssumption
      DEF NoCallFromNone, IInv, TransportAgrees, ConnInv, NoCallbackYet, Off, MqttAssumption,
          conn, trans, txvars, ackv, app, rxvars, wire, hist
  <1>1. CASE FinishPartial
    BY <1>1 DEF FinishPartial, Draining, ReadyToSend, Writable, AtMarker, UpdateSendDeadline, Deliver
  <1>2. ASSUME NEW p \in BOOLEAN, StallPartial(p) PROVE IInv'
    BY <1>2 DEF StallPartial, Draining, ReadyToSend, Writable, AtMarker, UpdateSendDeadline, Deliver
  <1>3. CASE DrainMarker
    BY <1>3 DEF DrainMarker, Draining, ReadyToSend, Writable, AtMarker, UpdateSendDeadline, Deliver
  <1>4. CASE DrainEmpty
    BY <1>4 DEF DrainEmpty, Draining, ReadyToSend, Writable, AtMarker, UpdateSendDeadline, Deliver
  <1>5. CASE SendHead
    BY <1>5 DEF SendHead, Draining, ReadyToSend, Writable, AtMarker, UpdateSendDeadline, Deliver
  <1>6. CASE SendPart
    BY <1>6 DEF SendPart, Draining, ReadyToSend, Writable, AtMarker, UpdateSendDeadline, Deliver
  <1>7. CASE SendAgain
    BY <1>7 DEF SendAgain, Draining, ReadyToSend, Writable, AtMarker, UpdateSendDeadline, Deliver
  <1>8. CASE SendFails
    BY <1>8 DEF SendFails, Draining, ReadyToSend, Writable, AtMarker, UpdateSendDeadline, Deliver, Fault, EnterFailed
  <1>9. CASE DrainDone
    BY <1>9 DEF DrainDone, Draining, ReadyToSend, Writable, AtMarker, UpdateSendDeadline, Deliver
  <1> QED
    BY <1>1, <1>2, <1>3, <1>4, <1>5, <1>6, <1>7, <1>8, <1>9 DEF Drain

\* One step of handle().
LEMMA HandleKeeps == NoCallFromNone /\ IInv /\ Handle => IInv'
  <1> SUFFICES ASSUME NoCallFromNone, IInv, Handle PROVE IInv'
    OBVIOUS
  <1> USE MqttAssumption
      DEF NoCallFromNone, IInv, TransportAgrees, ConnInv, NoCallbackYet, Off, MqttAssumption,
          conn, trans, txvars, ackv, app, rxvars, wire, hist
  <1>1. CASE BeginHandle
    BY <1>1 DEF BeginHandle
  <1>2. CASE SelfHeal
    BY <1>2 DEF SelfHeal, CloseSocket, ResetTransient
  <1> QED
    BY <1>1, <1>2, TransportKeeps, DeadlinesKeep, ReceiveKeeps, DispatchKeeps, DrainKeeps
    DEF Handle

\* Ticks and poll errors.
LEMMA TickKeeps == IInv /\ Tick => IInv'
  BY MqttAssumption DEF IInv, TransportAgrees, ConnInv, NoCallbackYet, Off,
     MqttAssumption, Tick, Left, app, wire, hist, rxvars

LEMMA IoErrorKeeps == IInv /\ IoError => IInv'
  BY DEF IInv, TransportAgrees, ConnInv, NoCallbackYet, Off, IoError, Fault,
     EnterFailed, txvars, ackv, app, wire, hist, rxvars

\* The broker and the network touch the wire only, and never the socket's end.
LEMMA PeersOutside ==
    ASSUME Broker \/ \E how \in {"fin", "reset", "hole"} : Break(how)
    PROVE  UNCHANGED ClientState /\ (link' = "none" <=> link = "none")
  <1>1. ASSUME Broker PROVE UNCHANGED ClientState /\ link' = link
    BY <1>1 DEF Broker, BrokerAccepts, BrokerRejects, BrokerTakesPublish,
       BrokerSubscribes, BrokerUnsubscribes, BrokerTakesPubacks, BrokerAnswersPing,
       BrokerEnds, BrokerPushes, Reads
  <1>2. ASSUME NEW how \in {"fin", "reset", "hole"}, Break(how)
        PROVE  UNCHANGED ClientState /\ link' # "none" /\ link # "none"
    BY <1>2 DEF Break
  <1> QED BY <1>1, <1>2

LEMMA PeersKeep ==
    ASSUME IInv, Broker \/ \E how \in {"fin", "reset", "hole"} : Break(how)
    PROVE  IInv'
  BY PeersOutside DEF IInv, TransportAgrees, ConnInv, NoCallbackYet, ClientState, conn, trans,
     txvars, ackv

LEMMA NextConn == NoCallFromNone /\ IInv /\ [SystemNext]_vars => IInv'
  <1> SUFFICES ASSUME NoCallFromNone, IInv, [SystemNext]_vars PROVE IInv'
    OBVIOUS
  <1>1. CASE ClientStep
    BY <1>1, ApplicationKeeps, TickKeeps, IoErrorKeeps, HandleKeeps DEF ClientStep, ClientNext
  <1>2. CASE Broker
    BY <1>2, PeersKeep
  <1>3. CASE \E how \in {"fin", "reset", "hole"} : Break(how)
    BY <1>3, PeersKeep
  <1>4. CASE UNCHANGED vars
    BY <1>4 DEF vars, cvars, IInv, TransportAgrees, ConnInv, NoCallbackYet, conn, trans,
       txvars, ackv, wire
  <1> QED BY <1>1, <1>2, <1>3, <1>4 DEF SystemNext

\* The connector exists exactly while the transport is awaited, a protocol
\* state has a socket and an open connection, and a client without a socket
\* holds nothing to send and waits for no answer.
THEOREM TransportAlwaysAgrees == Spec => []TransportAgrees
  <1>1. IInv => TransportAgrees
    BY DEF IInv
  <1> QED BY <1>1, InitNoCall, NextNoCall, InitConn, NextConn, PTL DEF Spec

-----------------------------------------------------------------------------
\* The callback of a failing connection does not take the socket away.
NoLeaveOnLoss == <<"on_disconnect", "disconnect">> \notin setup.ops

\* Only on_disconnect can have run before the socket is read.
ReadsSocket == pc = "recv" => sock /\ cb \in {"none", "on_disconnect"}

LEMMA CrashStep ==
  NoLeaveOnLoss /\ NoCallFromNone /\ IInv /\ NeverCrashes /\ ReadsSocket /\ [SystemNext]_vars
    => (NeverCrashes /\ ReadsSocket)'
  <1> SUFFICES ASSUME NoLeaveOnLoss, NoCallFromNone, IInv, NeverCrashes, ReadsSocket,
                      [SystemNext]_vars
               PROVE  (NeverCrashes /\ ReadsSocket)'
    OBVIOUS
  <1> USE DEF NeverCrashes, ReadsSocket, conn, trans, txvars, ackv, app, rxvars, wire, hist
  <1>1. pc \in {"deadlines", "dispatch", "replay"} => sock /\ cb = "none"
    BY DEF IInv, ConnInv, NoCallbackYet
  <1>2. CASE Application
    <2>1. pc' = pc /\ (pc = "recv" => ~Disconnect)
      BY <1>2 DEF Application, Connect, Hold, Disconnect, Publish, Subscribe, Unsubscribe, Calls,
                  NoLeaveOnLoss, NoCallFromNone
    <2>2. ~Disconnect => sock' = sock /\ cb' = cb
      BY <1>2 DEF Application, Connect, Hold, Publish, Subscribe, Unsubscribe
    <2> QED BY <2>1, <2>2
  <1>3. CASE Tick \/ IoError \/ BeginHandle \/ SelfHeal
    BY <1>3 DEF Tick, IoError, Fault, BeginHandle, SelfHeal
  <1>4. CASE Transport
    BY <1>4 DEF Transport, BeginTransport, TransportTimeout, ConnectorReady, ConnectorPending,
                ConnectorFailed, Fault
  <1>5. CASE Deadlines
    <2>1. pc = "deadlines" /\ sock' = sock /\ pc' \in {"deadlines", "recv"}
            /\ cb' \in {"none", "on_disconnect"}
      <3>1. ASSUME NEW i \in Ids, RetryPublish(i) \/ GiveUpPublish(i)
            PROVE  pc = "deadlines" /\ sock' = sock /\ pc' \in {"deadlines", "recv"}
                     /\ cb' \in {"none", "on_disconnect"}
        BY <1>1, <3>1 DEF RetryPublish, GiveUpPublish, FailAndGoOn
      <3>2. CASE ResponseTimeout \/ SendTimedOut \/ Keepalive
        BY <1>1, <3>2 DEF ResponseTimeout, SendTimedOut, Keepalive, FailAndGoOn
      <3> QED BY <1>5, <3>1, <3>2 DEF Deadlines
    <2> QED BY <1>1, <2>1
  <1>6. CASE Receive
    <2>1. pc = "recv" /\ pc' \in {"drain", "dispatch", "idle"}
      BY <1>6 DEF Receive, SkipRecv, RecvWithoutSocket, RecvAgain, RecvFails, RecvPackets, Fault
    <2> QED BY <2>1
  <1>7. CASE Dispatch
    <2>1. pc' \in {"dispatched", "idle", "replay", "drain"}
      <3>1. ASSUME NEW t \in Topics, ReplaySubscription(t) PROVE pc' = "replay"
        BY <3>1 DEF ReplaySubscription
      <3>2. CASE FlushPublish
        BY <3>2 DEF FlushPublish, Fault
      <3>3. CASE \/ DispatchPublish \/ DispatchOversized \/ DispatchPuback \/ DispatchSuback
                 \/ DispatchUnsuback \/ DispatchPingresp \/ DispatchConnack \/ DispatchRejection
                 \/ AnnounceConnect \/ StopDispatch \/ FlushPubacks
        BY <3>3 DEF DispatchPublish, DispatchOversized, DispatchPuback, DispatchSuback,
           DispatchUnsuback, DispatchPingresp, DispatchConnack, DispatchRejection,
           AnnounceConnect, StopDispatch, FlushPubacks, Took, TookAndFaults, Fault
      <3> QED BY <1>7, <3>1, <3>2, <3>3 DEF Dispatch
    <2> QED BY <2>1
  <1>8. CASE Drain
    <2>1. pc' \in {"drain", "drained", "idle"}
      <3>1. ASSUME NEW p \in BOOLEAN, StallPartial(p) PROVE pc' = "idle"
        BY <3>1 DEF StallPartial
      <3>2. CASE FinishPartial \/ DrainMarker \/ DrainEmpty \/ SendHead \/ SendPart \/ SendAgain
                 \/ SendFails \/ DrainDone
        BY <3>2 DEF FinishPartial, DrainMarker, Draining, DrainEmpty, SendHead, SendPart,
           SendAgain, SendFails, DrainDone, Fault
      <3> QED BY <1>8, <3>1, <3>2 DEF Drain
    <2> QED BY <2>1
  <1>9. CASE \/ Broker \/ (\E how \in {"fin", "reset", "hole"} : Break(how)) \/ UNCHANGED vars
    <2>1. UNCHANGED <<pc, cb, sock>>
      BY <1>9, PeersOutside DEF ClientState, vars, cvars
    <2> QED BY <2>1
  <1> QED
    BY <1>2, <1>3, <1>4, <1>5, <1>6, <1>7, <1>8, <1>9
    DEF SystemNext, ClientStep, ClientNext, Handle

\* handle() never meets a socket that a callback took away, unless on_disconnect itself
\* calls disconnect() (_enter_failed, _read_inbound; mqtt_leave shows that one).
THEOREM SocketWhenRead == Spec /\ NoLeaveOnLoss => []NeverCrashes
  <1>1. SystemInit => NeverCrashes /\ ReadsSocket
    BY DEF SystemInit, Init, NeverCrashes, ReadsSocket
  <1>2. [SystemNext]_vars /\ NoLeaveOnLoss => NoLeaveOnLoss'
    <2>1. [SystemNext]_vars => setup' = setup
      BY DEF SystemNext, ClientStep, ClientNext, vars, cvars
    <2> QED BY <2>1 DEF NoLeaveOnLoss
  <1> QED BY <1>1, <1>2, CrashStep, InitNoCall, NextNoCall, InitConn, NextConn, PTL DEF Spec

-----------------------------------------------------------------------------
\* A queue with at most one batch of acknowledgements, which the flag tells of.
OneIn(q, flag) ==
    /\ q \in Seq(Elements(q))
    /\ flag <=> Batches(q) # {}
    /\ \A j, k \in Batches(q) : j = k

Dispatches == pc \in {"dispatch", "dispatched", "replay"}

\* Packets are dispatched, and acknowledgements collected, only while none is queued.
BatchInv ==
    /\ OneIn(txq, batch)
    /\ Dispatches => ~batch

LEMMA SeqOfElements ==
  ASSUME NEW S, NEW q \in Seq(S)
  PROVE  q \in Seq(Elements(q))
  <1>1. DOMAIN q = 1..Len(q) /\ Len(q) \in Nat /\ q = [k \in 1..Len(q) |-> q[k]]
    OBVIOUS
  <1>2. \A k \in 1..Len(q) : q[k] \in Elements(q)
    BY <1>1 DEF Elements
  <1> QED BY <1>1, <1>2

LEMMA OneInAppended ==
  ASSUME NEW q, NEW flag, NEW p, OneIn(q, flag), p.type # "pubacks"
  PROVE  OneIn(Append(q, p), flag)
  <1> DEFINE r == Append(q, p)
  <1>1. /\ DOMAIN r = 1..(Len(q) + 1) /\ DOMAIN q = 1..Len(q) /\ Len(q) \in Nat
        /\ r[Len(q) + 1] = p /\ \A k \in 1..Len(q) : r[k] = q[k]
        /\ r \in Seq(Elements(q) \cup {p})
    BY DEF OneIn
  <1>2. r \in Seq(Elements(r))
    BY <1>1, SeqOfElements
  <1> HIDE DEF r
  <1>3. \A k \in 1..(Len(q) + 1) : k \in 1..Len(q) \/ k = Len(q) + 1
    BY <1>1
  <1>4. \A k \in 1..Len(q) : k \in 1..(Len(q) + 1)
    BY <1>1
  <1>5. Batches(r) = Batches(q)
    BY <1>1, <1>3, <1>4, Zenon DEF Batches
  <1>6. OneIn(r, flag)
    BY <1>2, <1>5 DEF OneIn
  <1> QED BY <1>6 DEF r

LEMMA OneInTail ==
  ASSUME NEW q, NEW flag, OneIn(q, flag), q # <<>>
  PROVE  OneIn(Tail(q), flag /\ Head(q).type # "pubacks")
  <1> DEFINE r == Tail(q)
  <1>1. /\ DOMAIN r = 1..(Len(q) - 1) /\ DOMAIN q = 1..Len(q) /\ Len(q) \in Nat \ {0}
        /\ Head(q) = q[1] /\ \A k \in 1..(Len(q) - 1) : r[k] = q[k + 1]
        /\ r \in Seq(Elements(q))
    BY DEF OneIn
  <1>2. r \in Seq(Elements(r))
    BY <1>1, SeqOfElements
  <1> HIDE DEF r
  <1>3. /\ 1 \in 1..Len(q)
        /\ \A k \in 1..(Len(q) - 1) : k + 1 \in 1..Len(q) /\ k + 1 # 1
        /\ \A k \in 1..Len(q) : k # 1 => k - 1 \in 1..(Len(q) - 1) /\ (k - 1) + 1 = k
    BY <1>1
  <1>4. \A k : k \in Batches(r) => k + 1 \in Batches(q) /\ k + 1 # 1 /\ k \in Nat
    BY <1>1, <1>3 DEF Batches
  <1>5. \A k \in Batches(q) : k # 1 => k - 1 \in Batches(r)
    BY <1>1, <1>3 DEF Batches
  <1>6. 1 \in Batches(q) <=> Head(q).type = "pubacks"
    BY <1>1, <1>3 DEF Batches
  <1>7. \A j, k \in Batches(r) : j = k
    <2> SUFFICES ASSUME NEW j \in Batches(r), NEW k \in Batches(r) PROVE j = k
      OBVIOUS
    <2>1. j + 1 = k + 1 /\ j \in Nat /\ k \in Nat
      BY <1>4 DEF OneIn
    <2> QED BY <2>1
  <1>8. flag /\ Head(q).type # "pubacks" <=> Batches(r) # {}
    <2>1. CASE Batches(r) # {}
      <3>1. PICK k : k \in Batches(r)
        BY <2>1
      <3>2. k + 1 \in Batches(q) /\ 1 \notin Batches(q)
        BY <1>4, <3>1 DEF OneIn
      <3> QED BY <1>6, <2>1, <3>2 DEF OneIn
    <2>2. CASE Batches(r) = {}
      <3>1. \A k \in Batches(q) : k = 1
        BY <1>5, <2>2
      <3> QED BY <1>6, <2>2, <3>1 DEF OneIn
    <2> QED BY <2>1, <2>2
  <1>9. OneIn(r, flag /\ Head(q).type # "pubacks")
    BY <1>2, <1>7, <1>8 DEF OneIn
  <1> QED BY <1>9 DEF r

LEMMA OneInFront ==
  ASSUME NEW q, NEW p, OneIn(q, FALSE), p.type = "pubacks"
  PROVE  OneIn(<<p>> \o q, TRUE)
  <1> DEFINE r == <<p>> \o q
  <1>1. /\ q \in Seq(Elements(q) \cup {p}) /\ <<p>> \in Seq(Elements(q) \cup {p})
        /\ Len(<<p>>) = 1 /\ <<p>>[1] = p /\ DOMAIN q = 1..Len(q) /\ Len(q) \in Nat
    BY DEF OneIn
  <1>2. /\ r \in Seq(Elements(q) \cup {p}) /\ DOMAIN r = 1..(Len(q) + 1)
        /\ r[1] = p
    BY <1>1
  <1>3. \A k \in 2..(Len(q) + 1) : r[k] = q[k - 1]
    BY <1>1
  <1>4. r \in Seq(Elements(r))
    BY <1>2, SeqOfElements
  <1> HIDE DEF r
  <1>5. \A k \in 1..(Len(q) + 1) : k # 1 => k \in 2..(Len(q) + 1) /\ k - 1 \in 1..Len(q)
    BY <1>1
  <1>6. 1 \in 1..(Len(q) + 1)
    BY <1>1
  <1>7. \A k \in 1..Len(q) : q[k].type # "pubacks"
    BY <1>1 DEF OneIn, Batches
  <1>8. Batches(r) = {1}
    BY <1>1, <1>2, <1>3, <1>5, <1>6, <1>7 DEF Batches
  <1>9. OneIn(r, TRUE)
    BY <1>4, <1>8 DEF OneIn
  <1> QED BY <1>9 DEF r

LEMMA OneInNone == OneIn(<<>>, FALSE)
  <1>1. Elements(<<>>) = {} /\ Batches(<<>>) = {}
    BY DEF Elements, Batches
  <1> QED BY <1>1 DEF OneIn

LEMMA OneInBatch == ASSUME BatchInv PROVE OneBatch
  <1>1. (batch <=> Batches(txq) # {}) /\ \A j, k \in Batches(txq) : j = k
    BY DEF BatchInv, OneIn
  <1>2. Cardinality(Batches(txq)) <= 1
    <2>1. CASE Batches(txq) = {}
      <3>1. Cardinality({}) = 0
        BY FS_EmptySet
      <3> QED BY <2>1, <3>1
    <2>2. CASE Batches(txq) # {}
      <3>1. PICK k : k \in Batches(txq)
        BY <2>2
      <3>2. Batches(txq) = {k}
        BY <1>1, <3>1
      <3>3. Cardinality({k}) = 1
        BY FS_Singleton
      <3> QED BY <3>2, <3>3
    <2> QED BY <2>1, <2>2
  <1> QED BY <1>1, <1>2 DEF OneBatch

-----------------------------------------------------------------------------
\* What most steps do to the queue: nothing, or a packet that is no batch joins it.
Grows ==
    /\ batch' = batch
    /\ txq' = txq \/ \E p : p.type # "pubacks" /\ txq' = Append(txq, p)
Forgets == txq' = <<>> /\ batch' = FALSE

LEMMA BatchGrows ==
  ASSUME BatchInv, Grows, Dispatches' => Dispatches
  PROVE  BatchInv'
  <1>1. OneIn(txq', batch')
    <2>1. OneIn(txq, batch) /\ batch' = batch
      BY DEF BatchInv, Grows
    <2>2. CASE txq' = txq
      BY <2>1, <2>2
    <2>3. ASSUME NEW p, p.type # "pubacks", txq' = Append(txq, p) PROVE OneIn(txq', batch')
      <3>1. OneIn(Append(txq, p), batch)
        BY <2>1, <2>3, OneInAppended
      <3> QED BY <2>1, <2>3, <3>1
    <2> QED BY <2>2, <2>3 DEF Grows
  <1>2. OneIn(txq, batch)'
    BY <1>1, Zenon DEF OneIn, Batches, Elements
  <1> QED BY <1>2 DEF BatchInv, Grows, Dispatches

LEMMA BatchForgotten ==
  ASSUME Forgets
  PROVE  BatchInv'
  <1>1. OneIn(txq, batch)'
    BY OneInNone DEF Forgets, OneIn, Batches, Elements
  <1> QED BY <1>1 DEF BatchInv, Forgets

LEMMA BatchShrinks ==
  ASSUME BatchInv, txq # <<>>, txq' = Tail(txq), batch' <=> (batch /\ Head(txq).type # "pubacks"),
         Dispatches' => Dispatches
  PROVE  BatchInv'
  <1>1. OneIn(Tail(txq), batch /\ Head(txq).type # "pubacks")
    BY OneInTail DEF BatchInv
  <1>2. OneIn(txq, batch)'
    BY <1>1, Zenon DEF OneIn, Batches, Elements
  <1> QED BY <1>2 DEF BatchInv, Dispatches

\* A packet the client queues, but for the acknowledgements.
LEMMA QueuedTypes ==
  /\ ConnectPkt.type # "pubacks" /\ PingReq.type # "pubacks"
  /\ \A i, m, d : PublishPkt(i, m, d).type # "pubacks"
  /\ \A m : MarkerPkt(m).type # "pubacks"
  /\ \A i, t : SubscribePkt(i, t).type # "pubacks" /\ UnsubscribePkt(i, t).type # "pubacks"
  /\ \A s : PubacksPkt(s).type = "pubacks"
  BY DEF ConnectPkt, PingReq, PublishPkt, MarkerPkt, SubscribePkt, UnsubscribePkt, PubacksPkt

LEMMA PublishGrows ==
  ASSUME BatchInv, NEW m, NEW q, DoPublish(m, q), batch' = batch,
         Dispatches' => Dispatches
  PROVE  BatchInv'
  <1>1. CASE q # 0
    <2>1. PICK i \in Ids : txq' = Append(txq, PublishPkt(i, m, FALSE))
      BY <1>1, Zenon DEF DoPublish
    <2>2. Grows
      BY <2>1, QueuedTypes, Zenon DEF Grows
    <2> QED BY <2>2, BatchGrows
  <1>2. CASE q = 0
    <2>1. txq' = txq \o <<PublishPkt(0, m, FALSE), MarkerPkt(m)>>
      BY <1>2, Zenon DEF DoPublish
    <2>2. txq \in Seq(Elements(txq))
      BY DEF BatchInv, OneIn
    <2> DEFINE a == PublishPkt(0, m, FALSE)
               b == MarkerPkt(m)
    <2>3. a.type # "pubacks" /\ b.type # "pubacks"
      BY QueuedTypes
    <2> HIDE DEF a, b
    <2>4. txq \o <<a, b>> = Append(Append(txq, a), b)
      BY <2>2
    <2>5. OneIn(Append(txq, a), batch)
      BY <2>3, OneInAppended DEF BatchInv
    <2>6. OneIn(Append(Append(txq, a), b), batch)
      BY <2>3, <2>5, OneInAppended
    <2>7. txq' = Append(Append(txq, a), b)
      BY <2>1, <2>4 DEF a, b
    <2>8. OneIn(txq', batch')
      BY <2>6, <2>7
    <2>9. OneIn(txq, batch)'
      BY <2>8, Zenon DEF OneIn, Batches, Elements
    <2> QED BY <2>9 DEF BatchInv, Dispatches
  <1> QED BY <1>1, <1>2

LEMMA ApplicationBatch == BatchInv /\ Application => BatchInv'
  <1> SUFFICES ASSUME BatchInv, Application PROVE BatchInv'
    OBVIOUS
  <1> USE DEF conn, trans, txvars, ackv, app, rxvars, wire, hist
  <1>1. CASE Connect
    <2>1. Grows /\ pc' = pc
      BY <1>1, QueuedTypes, Zenon DEF Connect, Grows
    <2> QED BY <2>1, BatchGrows DEF Dispatches
  <1>2. CASE Hold
    BY <1>2, BatchGrows DEF Hold, Grows, Dispatches
  <1>3. CASE Disconnect
    BY <1>3, BatchForgotten DEF Disconnect, ResetTransient, Forgets
  <1>4. ASSUME NEW q \in {0, 1}, Publish(q) PROVE BatchInv'
    <2>1. batch' = batch /\ pc' = pc
      BY <1>4 DEF Publish
    <2>2. CASE txq' = txq
      BY <2>1, <2>2, BatchGrows DEF Grows, Dispatches
    <2>3. CASE DoPublish(published + 1, q)
      BY <2>1, <2>3, PublishGrows DEF Dispatches
    <2> QED BY <1>4, <2>2, <2>3, Zenon DEF Publish, PublishOverflows
  <1>5. ASSUME NEW t \in Topics, Subscribe(t) \/ Unsubscribe(t) PROVE BatchInv'
    <2>1. Grows /\ pc' = pc
      BY <1>5, QueuedTypes, Zenon DEF Subscribe, Unsubscribe, Grows
    <2> QED BY <2>1, BatchGrows DEF Dispatches
  <1> QED BY <1>1, <1>2, <1>3, <1>4, <1>5 DEF Application

LEMMA TickBatch == BatchInv /\ (Tick \/ IoError) => BatchInv'
  BY BatchGrows DEF Tick, IoError, Fault, Grows, Dispatches, txvars

LEMMA BeginBatch == BatchInv /\ (BeginHandle \/ SelfHeal \/ Transport) => BatchInv'
  <1> SUFFICES ASSUME BatchInv, BeginHandle \/ SelfHeal \/ Transport PROVE BatchInv'
    OBVIOUS
  <1> USE DEF txvars
  <1>1. CASE BeginHandle
    BY <1>1, BatchGrows DEF BeginHandle, Grows, Dispatches
  <1>2. CASE SelfHeal
    BY <1>2, BatchForgotten DEF SelfHeal, ResetTransient, Forgets
  <1>3. CASE ConnectorReady
    <2>1. Grows /\ pc' = "deadlines"
      BY <1>3, QueuedTypes, Zenon DEF ConnectorReady, Grows
    <2> QED BY <2>1, BatchGrows DEF Dispatches
  <1>4. CASE BeginTransport \/ TransportTimeout \/ ConnectorPending \/ ConnectorFailed
    BY <1>4, BatchGrows DEF BeginTransport, TransportTimeout, ConnectorPending, ConnectorFailed,
       Fault, Grows, Dispatches
  <1> QED BY <1>1, <1>2, <1>3, <1>4 DEF Transport

LEMMA DeadlinesBatch == BatchInv /\ Deadlines => BatchInv'
  <1> SUFFICES ASSUME BatchInv, Deadlines PROVE BatchInv'
    OBVIOUS
  <1> USE DEF txvars
  <1>1. ASSUME NEW i \in Ids, RetryPublish(i) PROVE BatchInv'
    <2>1. Grows /\ pc' = pc
      BY <1>1, QueuedTypes, Zenon DEF RetryPublish, Grows
    <2> QED BY <2>1, BatchGrows DEF Dispatches
  <1>2. ASSUME NEW i \in Ids, GiveUpPublish(i) PROVE BatchInv'
    BY <1>2, BatchGrows DEF GiveUpPublish, FailAndGoOn, Grows, Dispatches
  <1>3. CASE ResponseTimeout \/ SendTimedOut
    BY <1>3, BatchGrows DEF ResponseTimeout, SendTimedOut, FailAndGoOn, Grows, Dispatches
  <1>4. CASE Keepalive
    <2>1. Grows /\ pc' = "recv"
      BY <1>4, QueuedTypes, Zenon DEF Keepalive, Grows
    <2> QED BY <2>1, BatchGrows DEF Dispatches
  <1> QED BY <1>1, <1>2, <1>3, <1>4 DEF Deadlines

\* Reading is suppressed while a batch is queued.
LEMMA ReceiveBatch == BatchInv /\ Receive => BatchInv'
  <1> SUFFICES ASSUME BatchInv, Receive PROVE BatchInv'
    OBVIOUS
  <1>1. UNCHANGED <<txq, batch>> /\ (Dispatches' => ~batch)
    BY DEF Receive, SkipRecv, RecvWithoutSocket, RecvAgain, RecvFails, RecvPackets, Fault,
       RecvSuppressed, Dispatches, txvars
  <1>2. OneIn(txq, batch)'
    BY <1>1, Zenon DEF BatchInv, OneIn, Batches, Elements
  <1> QED BY <1>1, <1>2 DEF BatchInv

LEMMA DispatchBatch == BatchInv /\ Dispatch => BatchInv'
  <1> SUFFICES ASSUME BatchInv, Dispatch PROVE BatchInv'
    OBVIOUS
  <1> USE DEF txvars
  <1>1. CASE \/ DispatchPublish \/ DispatchOversized \/ DispatchPuback \/ DispatchSuback
             \/ DispatchUnsuback \/ DispatchPingresp \/ DispatchConnack \/ DispatchRejection
             \/ AnnounceConnect \/ StopDispatch
    <2>1. UNCHANGED <<txq, batch>> /\ Dispatches
      BY <1>1 DEF DispatchPublish, DispatchOversized, DispatchPuback, DispatchSuback,
         DispatchUnsuback, DispatchPingresp, DispatchConnack, DispatchRejection,
         AnnounceConnect, StopDispatch, Next1, Dispatching, Dispatches
    <2> QED BY <2>1, BatchGrows DEF Grows
  <1>2. ASSUME NEW t \in Topics, ReplaySubscription(t) PROVE BatchInv'
    <2>1. Grows /\ Dispatches
      BY <1>2, QueuedTypes, Zenon DEF ReplaySubscription, Grows, Dispatches
    <2> QED BY <2>1, BatchGrows
  <1>3. CASE FlushPublish
    <2>1. batch' = batch /\ Dispatches
      BY <1>3 DEF FlushPublish, Dispatches
    <2>2. CASE txq' = txq
      BY <2>1, <2>2, BatchGrows DEF Grows
    <2>3. CASE DoPublish(Head(preq).msg, Head(preq).qos)
      BY <2>1, <2>3, PublishGrows
    <2> QED BY <1>3, <2>2, <2>3, Zenon DEF FlushPublish, PublishOverflows
  <1>4. CASE FlushPubacks
    <2>1. Dispatches /\ ~batch /\ OneIn(txq, FALSE)
      BY <1>4 DEF FlushPubacks, Dispatching, Dispatches, BatchInv, OneIn
    <2>2. CASE UNCHANGED <<txq, batch>>
      BY <2>1, <2>2, BatchGrows DEF Grows
    <2>3. CASE txq' = <<PubacksPkt(acks)>> \o txq /\ batch' /\ pc' = "drain"
      <3>1. OneIn(<<PubacksPkt(acks)>> \o txq, TRUE)
        BY <2>1, OneInFront, QueuedTypes
      <3>2. OneIn(txq, batch)'
        BY <2>3, <3>1, Zenon DEF OneIn, Batches, Elements
      <3> QED BY <2>3, <3>2 DEF BatchInv, Dispatches
    <2>4. CASE acks = <<>>
      <3>1. txq' = <<>> \o txq /\ ~batch'
        BY <1>4, <2>1, <2>4 DEF FlushPubacks
      <3>2. txq' = txq
        BY <3>1, <2>1 DEF OneIn
      <3>3. OneIn(txq, batch)'
        BY <2>1, <3>1, <3>2, Zenon DEF OneIn, Batches, Elements
      <3> QED BY <3>1, <3>3 DEF BatchInv
    <2>5. CASE acks # <<>>
      <3>1. CASE Len(txq) >= HardCap
        BY <1>4, <2>2, <2>5, <3>1 DEF FlushPubacks
      <3>2. CASE ~(Len(txq) >= HardCap)
        BY <1>4, <2>3, <2>5, <3>2 DEF FlushPubacks
      <3> QED BY <3>1, <3>2
    <2> QED BY <2>4, <2>5
  <1> QED BY <1>1, <1>2, <1>3, <1>4 DEF Dispatch

LEMMA DrainBatch == BatchInv /\ Drain => BatchInv'
  <1> SUFFICES ASSUME BatchInv, Drain PROVE BatchInv'
    OBVIOUS
  <1> USE DEF txvars
  <1>1. ASSUME NEW p \in BOOLEAN, StallPartial(p) PROVE BatchInv'
    BY <1>1, BatchGrows DEF StallPartial, Grows, Dispatches
  <1>2. CASE FinishPartial \/ DrainEmpty \/ SendAgain \/ SendFails \/ DrainDone
    BY <1>2, BatchGrows DEF FinishPartial, DrainEmpty, SendAgain, SendFails, DrainDone, Fault,
       Grows, Dispatches
  <1>3. CASE DrainMarker
    <2>1. txq # <<>> /\ Head(txq).type # "pubacks" /\ UNCHANGED <<batch, pc>> /\ txq' = Tail(txq)
      BY <1>3 DEF DrainMarker, AtMarker
    <2> QED BY <2>1, BatchShrinks DEF Dispatches
  <1>4. CASE SendHead \/ SendPart
    BY <1>4, BatchShrinks DEF SendHead, SendPart, ReadyToSend, IsBatch, Dispatches
  <1> QED BY <1>1, <1>2, <1>3, <1>4 DEF Drain

LEMMA BatchStep == BatchInv /\ [SystemNext]_vars => BatchInv'
  <1> SUFFICES ASSUME BatchInv, [SystemNext]_vars PROVE BatchInv'
    OBVIOUS
  <1>1. CASE ClientStep
    BY <1>1, ApplicationBatch, TickBatch, BeginBatch, DeadlinesBatch, ReceiveBatch,
       DispatchBatch, DrainBatch DEF ClientStep, ClientNext, Handle
  <1>2. CASE Broker \/ (\E how \in {"fin", "reset", "hole"} : Break(how)) \/ UNCHANGED vars
    <2>1. UNCHANGED <<txq, batch, pc>>
      BY <1>2, PeersOutside DEF ClientState, vars, cvars, txvars
    <2> QED BY <2>1, BatchGrows DEF Grows, Dispatches
  <1> QED BY <1>1, <1>2 DEF SystemNext

\* The pacing flag is up exactly while a batch of acknowledgements is queued, and there
\* is never a second one that could overtake it (_flush_pubacks, _recv_suppressed).
THEOREM OneBatchAtATime == Spec => []OneBatch
  <1>1. SystemInit => BatchInv
    BY OneInNone DEF SystemInit, Init, BatchInv, Dispatches
  <1> QED BY <1>1, BatchStep, OneInBatch, PTL DEF Spec
-----------------------------------------------------------------------------
(* Flat, the concatenation of sequences of ids                             *)

\* Induction on the natural numbers, from the well-foundedness of <.
LEMMA SetInduction ==
  ASSUME NEW S, 0 \in S, \A n \in Nat : n \in S => n + 1 \in S
  PROVE  \A n \in Nat : n \in S
  <1> DEFINE R == OpToRel(<, Nat)
             T == {n \in Nat : n \notin S}
  <1> SUFFICES ASSUME T # {} PROVE FALSE
    OBVIOUS
  <1>1. IsWellFoundedOn(R, Nat)
    BY NatLessThanWellFounded
  <1>2. T \subseteq Nat
    OBVIOUS
  <1>3. PICK n \in T : \A m \in T : <<m, n>> \notin R
    <2> HIDE DEF R, T
    <2> QED BY <1>1, <1>2, WFMin
  <1>4. n \in Nat /\ n \notin S /\ n # 0
    OBVIOUS
  <1>5. n - 1 \in Nat /\ n - 1 < n /\ (n - 1) + 1 = n
    BY <1>4
  <1>6. n - 1 \notin S
    BY <1>4, <1>5
  <1>7. <<n - 1, n>> \in R
    BY <1>4, <1>5 DEF OpToRel
  <1> QED BY <1>3, <1>5, <1>6, <1>7

-----------------------------------------------------------------------------
\* Flat is the function its equation describes: one exists on the sequences up to every
\* length, and any two agree where both are defined.
IdLists == Seq(Seq(Nat))
UpTo(n) == {ss \in IdLists : Len(ss) <= n}
FlatStep(g, ss) == IF ss = <<>> THEN <<>> ELSE Head(ss) \o g[Tail(ss)]
FlatUpTo(g, n) == g = [ss \in UpTo(n) |-> FlatStep(g, ss)]

\* The tail of a sequence is shorter.
LEMMA TailUpTo ==
  ASSUME NEW n \in Nat, NEW ss \in UpTo(n), ss # <<>>
  PROVE  /\ n # 0 /\ n - 1 \in Nat /\ Tail(ss) \in UpTo(n - 1) /\ Tail(ss) \in UpTo(n)
         /\ Head(ss) \in Seq(Nat) /\ Len(Tail(ss)) = Len(ss) - 1 /\ Tail(ss) \in IdLists
  <1>1. ss \in IdLists /\ Len(ss) <= n /\ Len(ss) \in Nat \ {0}
    BY DEF UpTo, IdLists
  <1>2. Head(ss) \in Seq(Nat) /\ Tail(ss) \in IdLists /\ Len(Tail(ss)) = Len(ss) - 1
    BY <1>1 DEF IdLists
  <1> QED BY <1>1, <1>2 DEF UpTo

\* Two functions that obey the equation agree where both are defined.
LEMMA FlatsAgree ==
  ASSUME NEW g, NEW h, NEW m \in Nat, NEW n \in Nat, FlatUpTo(g, m), FlatUpTo(h, n)
  PROVE  \A ss \in UpTo(m) : ss \in UpTo(n) => g[ss] = h[ss]
  <1> DEFINE S == {k \in Nat : \A ss \in UpTo(m) : ss \in UpTo(n) /\ Len(ss) <= k => g[ss] = h[ss]}
  <1>1. \A ss \in UpTo(m) : g[ss] = FlatStep(g, ss)
    BY Zenon DEF FlatUpTo
  <1>2. \A ss \in UpTo(n) : h[ss] = FlatStep(h, ss)
    BY Zenon DEF FlatUpTo
  <1>3. 0 \in S
    <2> SUFFICES ASSUME NEW ss \in UpTo(m), ss \in UpTo(n), Len(ss) <= 0 PROVE g[ss] = h[ss]
      OBVIOUS
    <2>1. ss = <<>>
      BY DEF UpTo, IdLists
    <2> QED BY <1>1, <1>2, <2>1, Zenon DEF FlatStep
  <1>4. ASSUME NEW k \in Nat, k \in S PROVE k + 1 \in S
    <2> SUFFICES ASSUME NEW ss \in UpTo(m), ss \in UpTo(n), Len(ss) <= k + 1 PROVE g[ss] = h[ss]
      OBVIOUS
    <2>1. CASE ss = <<>>
      BY <1>1, <1>2, <2>1, Zenon DEF FlatStep
    <2>2. CASE ss # <<>>
      <3>1. Tail(ss) \in UpTo(m) /\ Tail(ss) \in UpTo(n) /\ Len(Tail(ss)) = Len(ss) - 1
        BY <2>2, TailUpTo
      <3>2. Len(ss) \in Nat
        BY DEF UpTo, IdLists
      <3>3. Len(Tail(ss)) <= k
        BY <3>1, <3>2
      <3>4. g[Tail(ss)] = h[Tail(ss)]
        BY <1>4, <3>1, <3>3
      <3> QED BY <1>1, <1>2, <2>2, <3>4, Zenon DEF FlatStep
    <2> QED BY <2>1, <2>2
  <1>5. \A k \in Nat : k \in S
    <2> HIDE DEF S
    <2> QED BY <1>3, <1>4, SetInduction
  <1> SUFFICES ASSUME NEW ss \in UpTo(m), ss \in UpTo(n) PROVE g[ss] = h[ss]
    OBVIOUS
  <1>6. Len(ss) \in Nat /\ Len(ss) <= Len(ss)
    BY DEF UpTo, IdLists
  <1> QED BY <1>5, <1>6

\* One exists on the sequences up to every length.
LEMMA FlatUpToExists == \A n \in Nat : \E g : FlatUpTo(g, n)
  <1> DEFINE S == {n \in Nat : \E g : FlatUpTo(g, n)}
  <1>1. 0 \in S
    <2> DEFINE g == [ss \in UpTo(0) |-> <<>>]
    <2>1. \A ss \in UpTo(0) : ss = <<>>
      BY DEF UpTo, IdLists
    <2>2. g = [ss \in UpTo(0) |-> FlatStep(g, ss)]
      BY <2>1, Zenon DEF FlatStep
    <2>3. FlatUpTo(g, 0)
      BY <2>2, Zenon DEF FlatUpTo
    <2> QED BY <2>3
  <1>2. ASSUME NEW n \in Nat, n \in S PROVE n + 1 \in S
    <2>1. PICK g : FlatUpTo(g, n)
      BY <1>2
    <2> DEFINE h == [ss \in UpTo(n + 1) |-> FlatStep(g, ss)]
    <2>2. \A ss \in UpTo(n) : ss \in UpTo(n + 1)
      BY DEF UpTo, IdLists
    <2>3. \A ss \in UpTo(n) : g[ss] = h[ss]
      BY <2>1, <2>2, Zenon DEF FlatUpTo
    <2>4. ASSUME NEW ss \in UpTo(n + 1) PROVE FlatStep(g, ss) = FlatStep(h, ss)
      <3>1. CASE ss = <<>>
        BY <3>1, Zenon DEF FlatStep
      <3>2. CASE ss # <<>>
        <4>1. Tail(ss) \in UpTo((n + 1) - 1)
          BY <3>2, TailUpTo
        <4>2. (n + 1) - 1 = n
          OBVIOUS
        <4>3. g[Tail(ss)] = h[Tail(ss)]
          BY <2>3, <4>1, <4>2
        <4> HIDE DEF h
        <4> QED BY <3>2, <4>3, Zenon DEF FlatStep
      <3> QED BY <3>1, <3>2
    <2>5. FlatUpTo(h, n + 1)
      BY <2>4, Zenon DEF FlatUpTo
    <2> QED BY <2>5
  <1> HIDE DEF S
  <1>3. \A n \in Nat : n \in S
    BY <1>1, <1>2, SetInduction
  <1> QED BY <1>3 DEF S

\* So Flat obeys its own equation.
LEMMA FlatDefined == Flat = [ss \in IdLists |-> FlatStep(Flat, ss)]
  <1> DEFINE G(n) == CHOOSE g : FlatUpTo(g, n)
             F == [ss \in IdLists |-> G(Len(ss))[ss]]
  <1>1. \A n \in Nat : FlatUpTo(G(n), n)
    BY FlatUpToExists, Zenon
  <1> HIDE DEF G
  <1>2. ASSUME NEW ss \in IdLists PROVE G(Len(ss))[ss] = FlatStep(F, ss)
    <2>1. Len(ss) \in Nat /\ ss \in UpTo(Len(ss))
      BY DEF UpTo, IdLists
    <2>2. G(Len(ss))[ss] = FlatStep(G(Len(ss)), ss)
      BY <1>1, <2>1, Zenon DEF FlatUpTo
    <2>3. CASE ss = <<>>
      BY <2>2, <2>3, Zenon DEF FlatStep
    <2>4. CASE ss # <<>>
      <3>1. Tail(ss) \in UpTo(Len(ss)) /\ Tail(ss) \in IdLists
        BY <2>1, <2>4, TailUpTo
      <3>2. Len(Tail(ss)) \in Nat /\ Tail(ss) \in UpTo(Len(Tail(ss)))
        BY <3>1 DEF UpTo, IdLists
      <3>3. G(Len(ss))[Tail(ss)] = G(Len(Tail(ss)))[Tail(ss)]
        BY <1>1, <2>1, <3>1, <3>2, FlatsAgree
      <3>4. F[Tail(ss)] = G(Len(Tail(ss)))[Tail(ss)]
        BY <3>1, Zenon
      <3> HIDE DEF F
      <3> QED BY <2>2, <2>4, <3>3, <3>4, Zenon DEF FlatStep
    <2> QED BY <2>3, <2>4
  <1>3. F = [ss \in IdLists |-> FlatStep(F, ss)]
    BY <1>2, Zenon
  <1> HIDE DEF F
  <1> QED BY <1>3, Zenon DEF Flat, FlatStep, IdLists

\* What Flat returns: nothing of nothing ...
LEMMA FlatEmpty == Flat[<<>>] = <<>>
  <1>1. <<>> \in IdLists
    BY DEF IdLists
  <1>2. Flat[<<>>] = FlatStep(Flat, <<>>)
    BY <1>1, FlatDefined, Zenon
  <1> QED BY <1>2, Zenon DEF FlatStep

\* ... the first sequence followed by the others ...
LEMMA FlatHead ==
  ASSUME NEW ss \in IdLists, ss # <<>>
  PROVE  Flat[ss] = Head(ss) \o Flat[Tail(ss)]
  <1>1. Flat[ss] = FlatStep(Flat, ss)
    BY FlatDefined, Zenon
  <1> QED BY <1>1, Zenon DEF FlatStep

\* ... a sequence of ids ...
LEMMA FlatType == \A ss \in IdLists : Flat[ss] \in Seq(Nat)
  <1> DEFINE S == {n \in Nat : \A ss \in IdLists : Len(ss) = n => Flat[ss] \in Seq(Nat)}
  <1>1. 0 \in S
    <2> SUFFICES ASSUME NEW ss \in IdLists, Len(ss) = 0 PROVE Flat[ss] \in Seq(Nat)
      OBVIOUS
    <2>1. ss = <<>> /\ <<>> \in Seq(Nat)
      BY DEF IdLists
    <2> QED BY <2>1, FlatEmpty
  <1>2. ASSUME NEW n \in Nat, n \in S PROVE n + 1 \in S
    <2> SUFFICES ASSUME NEW ss \in IdLists, Len(ss) = n + 1 PROVE Flat[ss] \in Seq(Nat)
      OBVIOUS
    <2>1. ss # <<>> /\ Head(ss) \in Seq(Nat) /\ Tail(ss) \in IdLists /\ Len(Tail(ss)) = n
      BY DEF IdLists
    <2>2. Flat[Tail(ss)] \in Seq(Nat)
      BY <1>2, <2>1
    <2>3. Flat[ss] = Head(ss) \o Flat[Tail(ss)]
      BY <2>1, FlatHead
    <2>4. Head(ss) \o Flat[Tail(ss)] \in Seq(Nat)
      BY <2>1, <2>2
    <2> QED BY <2>3, <2>4
  <1>3. \A n \in Nat : n \in S
    <2> HIDE DEF S
    <2> QED BY <1>1, <1>2, SetInduction
  <1> SUFFICES ASSUME NEW ss \in IdLists PROVE Flat[ss] \in Seq(Nat)
    OBVIOUS
  <1>4. Len(ss) \in Nat
    BY DEF IdLists
  <1> QED BY <1>3, <1>4

\* Concatenation is associative.
LEMMA Associative == \A a, b, c \in Seq(Nat) : (a \o b) \o c = a \o (b \o c)
  BY ConcatAssociative

\* ... the concatenation of what the two parts give ...
LEMMA FlatConcat ==
  ASSUME NEW tt \in IdLists
  PROVE  \A ss \in IdLists : Flat[ss \o tt] = Flat[ss] \o Flat[tt]
  <1> DEFINE S == {n \in Nat : \A ss \in IdLists :
                                 Len(ss) = n => Flat[ss \o tt] = Flat[ss] \o Flat[tt]}
  <1>1. 0 \in S
    <2> SUFFICES ASSUME NEW ss \in IdLists, Len(ss) = 0
                 PROVE  Flat[ss \o tt] = Flat[ss] \o Flat[tt]
      OBVIOUS
    <2>1. ss = <<>> /\ Flat[ss] = <<>>
      BY FlatEmpty DEF IdLists
    <2>2. ss \o tt = tt
      BY <2>1 DEF IdLists
    <2>3. Flat[tt] \in Seq(Nat)
      BY FlatType
    <2>4. <<>> \o Flat[tt] = Flat[tt]
      BY <2>3
    <2> QED BY <2>1, <2>2, <2>4
  <1>2. ASSUME NEW n \in Nat, n \in S PROVE n + 1 \in S
    <2> SUFFICES ASSUME NEW ss \in IdLists, Len(ss) = n + 1
                 PROVE  Flat[ss \o tt] = Flat[ss] \o Flat[tt]
      <3>1. n + 1 \in Nat
        OBVIOUS
      <3> QED BY <3>1, Zenon
    <2>1. ss # <<>> /\ Head(ss) \in Seq(Nat) /\ Tail(ss) \in IdLists /\ Len(Tail(ss)) = n
      BY DEF IdLists
    <2>2. /\ ss \o tt \in IdLists /\ ss \o tt # <<>> /\ Head(ss \o tt) = Head(ss)
          /\ Tail(ss \o tt) = Tail(ss) \o tt
      BY <2>1 DEF IdLists
    <2>3. Flat[ss \o tt] = Head(ss) \o Flat[Tail(ss) \o tt]
      BY <2>2, FlatHead
    <2>4. Flat[Tail(ss) \o tt] = Flat[Tail(ss)] \o Flat[tt]
      BY <1>2, <2>1
    <2>5. Flat[ss] = Head(ss) \o Flat[Tail(ss)]
      BY <2>1, FlatHead
    <2>6. Flat[Tail(ss)] \in Seq(Nat) /\ Flat[tt] \in Seq(Nat)
      BY <2>1, FlatType
    <2>7. Head(ss) \o (Flat[Tail(ss)] \o Flat[tt]) = (Head(ss) \o Flat[Tail(ss)]) \o Flat[tt]
      BY <2>1, <2>6, Associative
    <2> QED BY <2>3, <2>4, <2>5, <2>7
  <1>3. \A n \in Nat : n \in S
    <2> HIDE DEF S
    <2> QED BY <1>1, <1>2, SetInduction
  <1> SUFFICES ASSUME NEW ss \in IdLists PROVE Flat[ss \o tt] = Flat[ss] \o Flat[tt]
    OBVIOUS
  <1>4. Len(ss) \in Nat
    BY DEF IdLists
  <1> QED BY <1>3, <1>4

\* ... and a single sequence as it is.
LEMMA FlatSingle == ASSUME NEW s \in Seq(Nat) PROVE Flat[<<s>>] = s
  <1>1. <<s>> \in IdLists /\ <<s>> # <<>> /\ Head(<<s>>) = s /\ Tail(<<s>>) = <<>>
    BY DEF IdLists
  <1>2. Flat[<<s>>] = s \o <<>>
    BY <1>1, FlatHead, FlatEmpty
  <1> QED BY <1>2

-----------------------------------------------------------------------------
(* The ids in a sequence of packets                                        *)

\* Empty sequences give nothing.
LEMMA FlatNone ==
  \A ss \in IdLists : (\A k \in DOMAIN ss : ss[k] = <<>>) => Flat[ss] = <<>>
  <1> DEFINE None(ss) == \A k \in DOMAIN ss : ss[k] = <<>>
             S == {n \in Nat : \A ss \in IdLists : Len(ss) = n /\ None(ss) => Flat[ss] = <<>>}
  <1>1. 0 \in S
    <2> SUFFICES ASSUME NEW ss \in IdLists, Len(ss) = 0 PROVE Flat[ss] = <<>>
      OBVIOUS
    <2>1. ss = <<>>
      BY DEF IdLists
    <2> QED BY <2>1, FlatEmpty
  <1>2. ASSUME NEW n \in Nat, n \in S PROVE n + 1 \in S
    <2> SUFFICES ASSUME NEW ss \in IdLists, Len(ss) = n + 1, None(ss) PROVE Flat[ss] = <<>>
      <3>1. n + 1 \in Nat
        OBVIOUS
      <3> QED BY <3>1, Zenon
    <2>1. /\ ss # <<>> /\ Head(ss) \in Seq(Nat) /\ Tail(ss) \in IdLists /\ Len(Tail(ss)) = n
          /\ Head(ss) = ss[1] /\ 1 \in DOMAIN ss
      BY DEF IdLists
    <2>2. \A k \in DOMAIN Tail(ss) : k + 1 \in DOMAIN ss /\ Tail(ss)[k] = ss[k + 1]
      BY DEF IdLists
    <2>3. Flat[Tail(ss)] = <<>>
      BY <1>2, <2>1, <2>2
    <2>4. Flat[ss] = Head(ss) \o Flat[Tail(ss)]
      BY <2>1, FlatHead
    <2>5. Head(ss) = <<>>
      BY <2>1
    <2> QED BY <2>3, <2>4, <2>5
  <1>3. \A n \in Nat : n \in S
    <2> HIDE DEF S
    <2> QED BY <1>1, <1>2, SetInduction
  <1> SUFFICES ASSUME NEW ss \in IdLists, None(ss) PROVE Flat[ss] = <<>>
    OBVIOUS
  <1>4. Len(ss) \in Nat
    BY DEF IdLists
  <1> QED BY <1>3, <1>4

\* Sequences of one id each give these ids.
LEMMA FlatSingles ==
  \A ss \in IdLists : \A s \in Seq(Nat) :
    Len(ss) = Len(s) /\ (\A k \in 1..Len(s) : ss[k] = <<s[k]>>) => Flat[ss] = s
  <1> DEFINE Same(ss, s) == Len(ss) = Len(s) /\ (\A k \in 1..Len(s) : ss[k] = <<s[k]>>)
             S == {n \in Nat : \A ss \in IdLists : \A s \in Seq(Nat) :
                                 Len(s) = n /\ Same(ss, s) => Flat[ss] = s}
  <1>1. 0 \in S
    <2> SUFFICES ASSUME NEW ss \in IdLists, NEW s \in Seq(Nat), Len(s) = 0, Same(ss, s)
                 PROVE  Flat[ss] = s
      BY Zenon
    <2>1. ss = <<>> /\ s = <<>>
      BY DEF IdLists
    <2> QED BY <2>1, FlatEmpty
  <1>2. ASSUME NEW n \in Nat, n \in S PROVE n + 1 \in S
    <2> SUFFICES ASSUME NEW ss \in IdLists, NEW s \in Seq(Nat), Len(s) = n + 1, Same(ss, s)
                 PROVE  Flat[ss] = s
      <3>1. n + 1 \in Nat
        OBVIOUS
      <3> QED BY <3>1, Zenon
    <2>1. /\ ss # <<>> /\ Tail(ss) \in IdLists /\ Len(Tail(ss)) = n /\ Head(ss) = ss[1]
          /\ \A k \in 1..n : Tail(ss)[k] = ss[k + 1]
      BY DEF IdLists
    <2>2. /\ s # <<>> /\ Tail(s) \in Seq(Nat) /\ Len(Tail(s)) = n /\ Head(s) = s[1]
          /\ \A k \in 1..n : Tail(s)[k] = s[k + 1]
      OBVIOUS
    <2>3. 1 \in 1..Len(s) /\ \A k \in 1..n : k + 1 \in 1..Len(s)
      OBVIOUS
    <2>4. Same(Tail(ss), Tail(s))
      BY <2>1, <2>2, <2>3
    <2>5. Flat[Tail(ss)] = Tail(s)
      <3> HIDE DEF Same
      <3> QED BY <1>2, <2>1, <2>2, <2>4
    <2>6. Flat[ss] = <<s[1]>> \o Tail(s)
      <3>1. Flat[ss] = Head(ss) \o Flat[Tail(ss)]
        BY <2>1, FlatHead
      <3>2. Head(ss) = <<s[1]>>
        BY <2>1, <2>3
      <3> QED BY <2>5, <3>1, <3>2
    <2>7. <<s[1]>> \o Tail(s) = s
      OBVIOUS
    <2> QED BY <2>6, <2>7
  <1>3. \A n \in Nat : n \in S
    <2> HIDE DEF S
    <2> QED BY <1>1, <1>2, SetInduction
  <1> SUFFICES ASSUME NEW ss \in IdLists, NEW s \in Seq(Nat), Same(ss, s) PROVE Flat[ss] = s
    BY Zenon
  <1>4. Len(s) \in Nat
    OBVIOUS
  <1> QED BY <1>3, <1>4, Zenon

-----------------------------------------------------------------------------
\* The ids a packet acknowledges, and those it delivers.
AckOf(p) == IF p.type = "pubacks" THEN p.ids ELSE <<>>
DeliveryOf(p) == IF p.type \in {"publish", "oversized"} /\ p.id # 0 THEN <<p.id>> ELSE <<>>

AckSeq(q) ==
    /\ q \in Seq(Elements(q))
    /\ \A k \in DOMAIN q : AckOf(q[k]) \in Seq(Nat)
DeliverySeq(q) ==
    /\ q \in Seq(Elements(q))
    /\ \A k \in DOMAIN q : DeliveryOf(q[k]) \in Seq(Nat)
Acked(q) == Flat[AckIds(q)]
Delivered(q) == Flat[DeliveryIds(q)]

\* The entries of a concatenation.
LEMMA SeqConcat ==
  ASSUME NEW q, NEW r, q \in Seq(Elements(q)), r \in Seq(Elements(r))
  PROVE  /\ q \o r \in Seq(Elements(q \o r)) /\ DOMAIN (q \o r) = 1..(Len(q) + Len(r))
         /\ Len(q) \in Nat /\ Len(r) \in Nat /\ DOMAIN q = 1..Len(q) /\ DOMAIN r = 1..Len(r)
         /\ Len(q \o r) = Len(q) + Len(r)
         /\ \A k \in 1..Len(q) : (q \o r)[k] = q[k]
         /\ \A k \in 1..Len(r) : (q \o r)[Len(q) + k] = r[k]
         /\ \A k \in 1..(Len(q) + Len(r)) : k \in 1..Len(q) \/ k - Len(q) \in 1..Len(r)
         /\ \A k \in 1..(Len(q) + Len(r)) : Len(q) + (k - Len(q)) = k
  <1> DEFINE T == Elements(q) \cup Elements(r)
  <1>1. q \in Seq(T) /\ r \in Seq(T)
    OBVIOUS
  <1> HIDE DEF T
  <1>2. q \o r \in Seq(T)
    BY <1>1
  <1>3. q \o r \in Seq(Elements(q \o r))
    BY <1>2, SeqOfElements
  <1> QED BY <1>1, <1>3

\* AckIds gives one sequence of ids per packet.
LEMMA AckIdsType ==
  ASSUME NEW q, AckSeq(q)
  PROVE  /\ AckIds(q) \in IdLists /\ Len(AckIds(q)) = Len(q)
         /\ \A k \in 1..Len(q) : AckIds(q)[k] = AckOf(q[k])
  <1>1. DOMAIN q = 1..Len(q) /\ Len(q) \in Nat
    BY DEF AckSeq
  <1>2. AckIds(q) = [k \in 1..Len(q) |-> AckOf(q[k])]
    BY <1>1, Zenon DEF AckIds, AckOf
  <1>3. \A k \in 1..Len(q) : AckOf(q[k]) \in Seq(Nat)
    BY <1>1 DEF AckSeq
  <1> DEFINE ss == [k \in 1..Len(q) |-> AckOf(q[k])]
  <1>4. ss \in Seq(Seq(Nat)) /\ Len(ss) = Len(q)
    BY <1>1, <1>3
  <1> QED BY <1>2, <1>4 DEF IdLists

\* Sequences are equal when their entries are.
LEMMA SameList ==
  \A s, t \in IdLists : Len(s) = Len(t) /\ (\A k \in 1..Len(t) : s[k] = t[k]) => t = s
  <1> SUFFICES ASSUME NEW s \in Seq(Seq(Nat)), NEW t \in Seq(Seq(Nat)), Len(s) = Len(t),
                      \A k \in 1..Len(s) : s[k] = t[k]
               PROVE  s = t
    BY Zenon DEF IdLists
  <1> QED BY SeqEqual

\* A list that is entry by entry one list and then another.
LEMMA ListConcat ==
  ASSUME NEW a \in IdLists, NEW b \in IdLists, NEW c \in IdLists, Len(c) = Len(a) + Len(b),
         \A k \in 1..Len(a) : c[k] = a[k],
         \A k \in 1..Len(b) : c[Len(a) + k] = b[k]
  PROVE  Flat[c] = Flat[a] \o Flat[b]
  <1>1. /\ a \o b \in IdLists /\ Len(a \o b) = Len(c)
        /\ Len(a) \in Nat /\ Len(b) \in Nat
        /\ \A k \in 1..Len(a) : (a \o b)[k] = a[k]
        /\ \A k \in 1..Len(b) : (a \o b)[Len(a) + k] = b[k]
    BY DEF IdLists
  <1>2. ASSUME NEW k \in 1..Len(c) PROVE (a \o b)[k] = c[k]
    <2>1. CASE k \in 1..Len(a)
      BY <1>1, <2>1
    <2>2. CASE k \notin 1..Len(a)
      <3>1. k - Len(a) \in 1..Len(b) /\ Len(a) + (k - Len(a)) = k
        BY <1>1, <2>2
      <3>2. /\ (a \o b)[Len(a) + (k - Len(a))] = b[k - Len(a)]
            /\ c[Len(a) + (k - Len(a))] = b[k - Len(a)]
        BY <1>1, <3>1
      <3> QED BY <3>1, <3>2
    <2> QED BY <2>1, <2>2
  <1>3. c = a \o b
    BY <1>1, <1>2, SameList
  <1> QED BY <1>3, FlatConcat

\* What a queue acknowledges is a sequence of ids ...
LEMMA AckedType == ASSUME NEW q, AckSeq(q) PROVE Acked(q) \in Seq(Nat)
  BY AckIdsType, FlatType DEF Acked

\* ... that of its parts one after the other ...
LEMMA AckedConcat ==
  ASSUME NEW q, NEW r, AckSeq(q), AckSeq(r)
  PROVE  AckSeq(q \o r) /\ Acked(q \o r) = Acked(q) \o Acked(r)
  <1> DEFINE t == q \o r
  <1>1. q \in Seq(Elements(q)) /\ r \in Seq(Elements(r))
    BY DEF AckSeq
  <1>2. /\ t \in Seq(Elements(t)) /\ DOMAIN t = 1..(Len(q) + Len(r)) /\ Len(t) = Len(q) + Len(r)
        /\ Len(q) \in Nat /\ Len(r) \in Nat /\ DOMAIN q = 1..Len(q) /\ DOMAIN r = 1..Len(r)
        /\ \A k \in 1..Len(q) : t[k] = q[k]
        /\ \A k \in 1..Len(r) : t[Len(q) + k] = r[k]
        /\ \A k \in 1..(Len(q) + Len(r)) : k \in 1..Len(q) \/ k - Len(q) \in 1..Len(r)
        /\ \A k \in 1..(Len(q) + Len(r)) : Len(q) + (k - Len(q)) = k
    BY <1>1, SeqConcat
  <1> HIDE DEF t
  <1>3. ASSUME NEW k \in 1..(Len(q) + Len(r)) PROVE AckOf(t[k]) \in Seq(Nat)
    <2>1. CASE k \in 1..Len(q)
      BY <1>2, <2>1 DEF AckSeq
    <2>2. CASE k - Len(q) \in 1..Len(r)
      <3>1. t[k] = r[k - Len(q)]
        BY <1>2, <2>2
      <3> QED BY <1>2, <2>2, <3>1 DEF AckSeq
    <2> QED BY <1>2, <2>1, <2>2
  <1>4. AckSeq(t)
    BY <1>2, <1>3 DEF AckSeq
  <1>5. /\ AckIds(q) \in IdLists /\ AckIds(r) \in IdLists /\ AckIds(t) \in IdLists
        /\ Len(AckIds(q)) = Len(q) /\ Len(AckIds(r)) = Len(r)
        /\ Len(AckIds(t)) = Len(q) + Len(r)
        /\ \A k \in 1..Len(q) : AckIds(q)[k] = AckOf(q[k])
        /\ \A k \in 1..Len(r) : AckIds(r)[k] = AckOf(r[k])
        /\ \A k \in 1..(Len(q) + Len(r)) : AckIds(t)[k] = AckOf(t[k])
    BY <1>2, <1>4, AckIdsType
  <1>6. \A k \in 1..Len(q) : AckIds(t)[k] = AckIds(q)[k]
    BY <1>2, <1>5
  <1>7. \A k \in 1..Len(r) : AckIds(t)[Len(q) + k] = AckIds(r)[k]
    <2>1. \A k \in 1..Len(r) : Len(q) + k \in 1..(Len(q) + Len(r))
      BY <1>2
    <2> QED BY <1>2, <1>5, <2>1
  <1>8. Flat[AckIds(t)] = Flat[AckIds(q)] \o Flat[AckIds(r)]
    <2> DEFINE a == AckIds(q)
               b == AckIds(r)
               c == AckIds(t)
    <2>1. /\ a \in IdLists /\ b \in IdLists /\ c \in IdLists /\ Len(c) = Len(a) + Len(b)
          /\ \A k \in 1..Len(a) : c[k] = a[k]
          /\ \A k \in 1..Len(b) : c[Len(a) + k] = b[k]
      BY <1>5, <1>6, <1>7
    <2> HIDE DEF a, b, c
    <2>2. Flat[c] = Flat[a] \o Flat[b]
      BY <2>1, ListConcat
    <2> QED BY <2>2 DEF a, b, c
  <1> QED BY <1>4, <1>8 DEF Acked, t

\* ... none for no packet ...
LEMMA AckedEmpty == AckSeq(<<>>) /\ Acked(<<>>) = <<>>
  <1>1. AckIds(<<>>) = <<>>
    BY DEF AckIds
  <1>2. AckSeq(<<>>)
    BY DEF AckSeq
  <1> QED BY <1>1, <1>2, FlatEmpty DEF Acked

\* ... those of the packet for one packet ...
LEMMA AckedSingle ==
  ASSUME NEW p, AckOf(p) \in Seq(Nat)
  PROVE  AckSeq(<<p>>) /\ Acked(<<p>>) = AckOf(p)
  <1>1. <<p>> \in Seq({p}) /\ DOMAIN <<p>> = 1..1 /\ <<p>>[1] = p
    OBVIOUS
  <1>2. AckSeq(<<p>>)
    <2>1. <<p>> \in Seq(Elements(<<p>>))
      BY <1>1, SeqOfElements
    <2>2. \A k \in DOMAIN <<p>> : <<p>>[k] = p
      OBVIOUS
    <2> QED BY <2>1, <2>2, Zenon DEF AckSeq
  <1>3. AckIds(<<p>>) = <<AckOf(p)>>
    <2>1. \A k \in 1..1 : <<p>>[k] = p
      OBVIOUS
    <2>2. AckIds(<<p>>) = [k \in 1..1 |-> AckOf(p)]
      BY <1>1, <2>1, Zenon DEF AckIds, AckOf
    <2> DEFINE a == AckOf(p)
    <2>3. [k \in 1..1 |-> a] = <<a>>
      <3> HIDE DEF a
      <3> QED OBVIOUS
    <2> QED BY <2>2, <2>3
  <1> QED BY <1>2, <1>3, FlatSingle DEF Acked

\* ... those of a last packet at the end ...
LEMMA AckedAppend ==
  ASSUME NEW q, NEW p, AckSeq(q), AckOf(p) \in Seq(Nat)
  PROVE  AckSeq(Append(q, p)) /\ Acked(Append(q, p)) = Acked(q) \o AckOf(p)
  <1>1. Append(q, p) = q \o <<p>>
    BY DEF AckSeq
  <1>2. AckSeq(<<p>>) /\ Acked(<<p>>) = AckOf(p)
    BY AckedSingle
  <1>3. AckSeq(q \o <<p>>) /\ Acked(q \o <<p>>) = Acked(q) \o Acked(<<p>>)
    BY <1>2, AckedConcat
  <1> QED BY <1>1, <1>2, <1>3

\* ... those of the first packet in front.
LEMMA AckedTail ==
  ASSUME NEW q, AckSeq(q), q # <<>>
  PROVE  /\ AckSeq(Tail(q)) /\ AckOf(Head(q)) \in Seq(Nat)
         /\ Acked(q) = AckOf(Head(q)) \o Acked(Tail(q))
  <1>1. /\ DOMAIN q = 1..Len(q) /\ Len(q) \in Nat \ {0} /\ Head(q) = q[1] /\ 1 \in 1..Len(q)
        /\ DOMAIN Tail(q) = 1..(Len(q) - 1) /\ Tail(q) \in Seq(Elements(q))
        /\ \A k \in 1..(Len(q) - 1) : Tail(q)[k] = q[k + 1] /\ k + 1 \in 1..Len(q)
        /\ q = <<Head(q)>> \o Tail(q)
    BY DEF AckSeq
  <1>2. Tail(q) \in Seq(Elements(Tail(q)))
    BY <1>1, SeqOfElements
  <1>3. AckSeq(Tail(q))
    BY <1>1, <1>2 DEF AckSeq
  <1>4. AckOf(Head(q)) \in Seq(Nat)
    BY <1>1 DEF AckSeq
  <1>5. AckSeq(<<Head(q)>>) /\ Acked(<<Head(q)>>) = AckOf(Head(q))
    BY <1>4, AckedSingle
  <1>6. Acked(<<Head(q)>> \o Tail(q)) = Acked(<<Head(q)>>) \o Acked(Tail(q))
    BY <1>3, <1>5, AckedConcat
  <1> QED BY <1>1, <1>3, <1>4, <1>5, <1>6

Has(q, type) == \E k \in DOMAIN q : q[k].type = type

\* Only a batch acknowledges anything.
LEMMA AckedNone ==
  ASSUME NEW q, AckSeq(q), ~Has(q, "pubacks")
  PROVE  Acked(q) = <<>>
  <1>1. /\ AckIds(q) \in IdLists /\ Len(AckIds(q)) = Len(q)
        /\ \A k \in 1..Len(q) : AckIds(q)[k] = AckOf(q[k])
    BY AckIdsType
  <1>2. DOMAIN q = 1..Len(q)
    BY DEF AckSeq
  <1>3. DOMAIN AckIds(q) = DOMAIN q
    BY DEF AckIds
  <1>4. \A k \in DOMAIN AckIds(q) : AckIds(q)[k] = <<>>
    BY <1>1, <1>2, <1>3 DEF Has, AckOf
  <1> QED BY <1>1, <1>4, FlatNone DEF Acked

\* DeliveryIds gives one sequence of ids per packet.
LEMMA DeliveryIdsType ==
  ASSUME NEW q, DeliverySeq(q)
  PROVE  /\ DeliveryIds(q) \in IdLists /\ Len(DeliveryIds(q)) = Len(q)
         /\ \A k \in 1..Len(q) : DeliveryIds(q)[k] = DeliveryOf(q[k])
  <1>1. DOMAIN q = 1..Len(q) /\ Len(q) \in Nat
    BY DEF DeliverySeq
  <1>2. DeliveryIds(q) = [k \in 1..Len(q) |-> DeliveryOf(q[k])]
    BY <1>1, Zenon DEF DeliveryIds, DeliveryOf
  <1>3. \A k \in 1..Len(q) : DeliveryOf(q[k]) \in Seq(Nat)
    BY <1>1 DEF DeliverySeq
  <1> DEFINE ss == [k \in 1..Len(q) |-> DeliveryOf(q[k])]
  <1>4. ss \in Seq(Seq(Nat)) /\ Len(ss) = Len(q)
    BY <1>1, <1>3
  <1> QED BY <1>2, <1>4 DEF IdLists

\* What a sequence of packets delivers is a sequence of ids ...
LEMMA DeliveredType == ASSUME NEW q, DeliverySeq(q) PROVE Delivered(q) \in Seq(Nat)
  BY DeliveryIdsType, FlatType DEF Delivered

\* ... that of its parts one after the other ...
LEMMA DeliveredConcat ==
  ASSUME NEW q, NEW r, DeliverySeq(q), DeliverySeq(r)
  PROVE  DeliverySeq(q \o r) /\ Delivered(q \o r) = Delivered(q) \o Delivered(r)
  <1> DEFINE t == q \o r
  <1>1. q \in Seq(Elements(q)) /\ r \in Seq(Elements(r))
    BY DEF DeliverySeq
  <1>2. /\ t \in Seq(Elements(t)) /\ DOMAIN t = 1..(Len(q) + Len(r)) /\ Len(t) = Len(q) + Len(r)
        /\ Len(q) \in Nat /\ Len(r) \in Nat /\ DOMAIN q = 1..Len(q) /\ DOMAIN r = 1..Len(r)
        /\ \A k \in 1..Len(q) : t[k] = q[k]
        /\ \A k \in 1..Len(r) : t[Len(q) + k] = r[k]
        /\ \A k \in 1..(Len(q) + Len(r)) : k \in 1..Len(q) \/ k - Len(q) \in 1..Len(r)
        /\ \A k \in 1..(Len(q) + Len(r)) : Len(q) + (k - Len(q)) = k
    BY <1>1, SeqConcat
  <1> HIDE DEF t
  <1>3. ASSUME NEW k \in 1..(Len(q) + Len(r)) PROVE DeliveryOf(t[k]) \in Seq(Nat)
    <2>1. CASE k \in 1..Len(q)
      BY <1>2, <2>1 DEF DeliverySeq
    <2>2. CASE k - Len(q) \in 1..Len(r)
      <3>1. t[k] = r[k - Len(q)]
        BY <1>2, <2>2
      <3> QED BY <1>2, <2>2, <3>1 DEF DeliverySeq
    <2> QED BY <1>2, <2>1, <2>2
  <1>4. DeliverySeq(t)
    BY <1>2, <1>3 DEF DeliverySeq
  <1>5. /\ DeliveryIds(q) \in IdLists /\ DeliveryIds(r) \in IdLists /\ DeliveryIds(t) \in IdLists
        /\ Len(DeliveryIds(q)) = Len(q) /\ Len(DeliveryIds(r)) = Len(r)
        /\ Len(DeliveryIds(t)) = Len(q) + Len(r)
        /\ \A k \in 1..Len(q) : DeliveryIds(q)[k] = DeliveryOf(q[k])
        /\ \A k \in 1..Len(r) : DeliveryIds(r)[k] = DeliveryOf(r[k])
        /\ \A k \in 1..(Len(q) + Len(r)) : DeliveryIds(t)[k] = DeliveryOf(t[k])
    BY <1>2, <1>4, DeliveryIdsType
  <1>6. \A k \in 1..Len(q) : DeliveryIds(t)[k] = DeliveryIds(q)[k]
    BY <1>2, <1>5
  <1>7. \A k \in 1..Len(r) : DeliveryIds(t)[Len(q) + k] = DeliveryIds(r)[k]
    <2>1. \A k \in 1..Len(r) : Len(q) + k \in 1..(Len(q) + Len(r))
      BY <1>2
    <2> QED BY <1>2, <1>5, <2>1
  <1>8. Flat[DeliveryIds(t)] = Flat[DeliveryIds(q)] \o Flat[DeliveryIds(r)]
    <2> DEFINE a == DeliveryIds(q)
               b == DeliveryIds(r)
               c == DeliveryIds(t)
    <2>1. /\ a \in IdLists /\ b \in IdLists /\ c \in IdLists /\ Len(c) = Len(a) + Len(b)
          /\ \A k \in 1..Len(a) : c[k] = a[k]
          /\ \A k \in 1..Len(b) : c[Len(a) + k] = b[k]
      BY <1>5, <1>6, <1>7
    <2> HIDE DEF a, b, c
    <2>2. Flat[c] = Flat[a] \o Flat[b]
      BY <2>1, ListConcat
    <2> QED BY <2>2 DEF a, b, c
  <1> QED BY <1>4, <1>8 DEF Delivered, t

\* ... none for no packet ...
LEMMA DeliveredEmpty == DeliverySeq(<<>>) /\ Delivered(<<>>) = <<>>
  <1>1. DeliveryIds(<<>>) = <<>>
    BY DEF DeliveryIds
  <1>2. DeliverySeq(<<>>)
    BY DEF DeliverySeq
  <1> QED BY <1>1, <1>2, FlatEmpty DEF Delivered

\* ... that of the packet for one packet ...
LEMMA DeliveredSingle ==
  ASSUME NEW p, DeliveryOf(p) \in Seq(Nat)
  PROVE  DeliverySeq(<<p>>) /\ Delivered(<<p>>) = DeliveryOf(p)
  <1>1. <<p>> \in Seq({p}) /\ DOMAIN <<p>> = 1..1 /\ <<p>>[1] = p
    OBVIOUS
  <1>2. DeliverySeq(<<p>>)
    <2>1. <<p>> \in Seq(Elements(<<p>>))
      BY <1>1, SeqOfElements
    <2>2. \A k \in DOMAIN <<p>> : <<p>>[k] = p
      OBVIOUS
    <2> QED BY <2>1, <2>2, Zenon DEF DeliverySeq
  <1>3. DeliveryIds(<<p>>) = <<DeliveryOf(p)>>
    <2>1. \A k \in 1..1 : <<p>>[k] = p
      OBVIOUS
    <2>2. DeliveryIds(<<p>>) = [k \in 1..1 |-> DeliveryOf(p)]
      BY <1>1, <2>1, Zenon DEF DeliveryIds, DeliveryOf
    <2> DEFINE a == DeliveryOf(p)
    <2>3. [k \in 1..1 |-> a] = <<a>>
      <3> HIDE DEF a
      <3> QED OBVIOUS
    <2> QED BY <2>2, <2>3
  <1> QED BY <1>2, <1>3, FlatSingle DEF Delivered

\* ... that of a last packet at the end ...
LEMMA DeliveredAppend ==
  ASSUME NEW q, NEW p, DeliverySeq(q), DeliveryOf(p) \in Seq(Nat)
  PROVE  DeliverySeq(Append(q, p)) /\ Delivered(Append(q, p)) = Delivered(q) \o DeliveryOf(p)
  <1>1. Append(q, p) = q \o <<p>>
    BY DEF DeliverySeq
  <1>2. DeliverySeq(<<p>>) /\ Delivered(<<p>>) = DeliveryOf(p)
    BY DeliveredSingle
  <1>3. DeliverySeq(q \o <<p>>) /\ Delivered(q \o <<p>>) = Delivered(q) \o Delivered(<<p>>)
    BY <1>2, DeliveredConcat
  <1> QED BY <1>1, <1>2, <1>3

\* ... that of the first packet in front.
LEMMA DeliveredTail ==
  ASSUME NEW q, DeliverySeq(q), q # <<>>
  PROVE  /\ DeliverySeq(Tail(q)) /\ DeliveryOf(Head(q)) \in Seq(Nat)
         /\ Delivered(q) = DeliveryOf(Head(q)) \o Delivered(Tail(q))
  <1>1. /\ DOMAIN q = 1..Len(q) /\ Len(q) \in Nat \ {0} /\ Head(q) = q[1] /\ 1 \in 1..Len(q)
        /\ DOMAIN Tail(q) = 1..(Len(q) - 1) /\ Tail(q) \in Seq(Elements(q))
        /\ \A k \in 1..(Len(q) - 1) : Tail(q)[k] = q[k + 1] /\ k + 1 \in 1..Len(q)
        /\ q = <<Head(q)>> \o Tail(q)
    BY DEF DeliverySeq
  <1>2. Tail(q) \in Seq(Elements(Tail(q)))
    BY <1>1, SeqOfElements
  <1>3. DeliverySeq(Tail(q))
    BY <1>1, <1>2 DEF DeliverySeq
  <1>4. DeliveryOf(Head(q)) \in Seq(Nat)
    BY <1>1 DEF DeliverySeq
  <1>5. DeliverySeq(<<Head(q)>>) /\ Delivered(<<Head(q)>>) = DeliveryOf(Head(q))
    BY <1>4, DeliveredSingle
  <1>6. Delivered(<<Head(q)>> \o Tail(q)) = Delivered(<<Head(q)>>) \o Delivered(Tail(q))
    BY <1>3, <1>5, DeliveredConcat
  <1> QED BY <1>1, <1>3, <1>4, <1>5, <1>6

\* Only messages deliver anything.
LEMMA DeliveredNone ==
  ASSUME NEW q, DeliverySeq(q), ~Has(q, "publish"), ~Has(q, "oversized")
  PROVE  Delivered(q) = <<>>
  <1>1. /\ DeliveryIds(q) \in IdLists /\ Len(DeliveryIds(q)) = Len(q)
        /\ \A k \in 1..Len(q) : DeliveryIds(q)[k] = DeliveryOf(q[k])
    BY DeliveryIdsType
  <1>2. DOMAIN q = 1..Len(q)
    BY DEF DeliverySeq
  <1>3. DOMAIN DeliveryIds(q) = DOMAIN q
    BY DEF DeliveryIds
  <1>4. \A k \in DOMAIN DeliveryIds(q) : DeliveryIds(q)[k] = <<>>
    BY <1>1, <1>2, <1>3 DEF Has, DeliveryOf
  <1> QED BY <1>1, <1>4, FlatNone DEF Delivered

\* What the broker sends again is what was not acknowledged.
LEMMA DeliveredBack ==
  ASSUME NEW s \in Seq(Nat), \A k \in DOMAIN s : s[k] # 0
  PROVE  LET q == [k \in DOMAIN s |-> Delivery(s[k])] IN DeliverySeq(q) /\ Delivered(q) = s
  <1> DEFINE q == [k \in DOMAIN s |-> Delivery(s[k])]
  <1>1. /\ DOMAIN s = 1..Len(s) /\ Len(s) \in Nat /\ \A k \in 1..Len(s) : s[k] \in Nat
        /\ s \in Seq(Nat)
    OBVIOUS
  <1>2. q \in Seq(Elements(q)) /\ Len(q) = Len(s) /\ DOMAIN q = 1..Len(s)
    <2> DEFINE d(k) == Delivery(s[k])
               T == {d(k) : k \in DOMAIN s}
    <2>1. \A k \in 1..Len(s) : d(k) \in T
      BY <1>1
    <2>2. q = [k \in 1..Len(s) |-> d(k)]
      BY <1>1
    <2> HIDE DEF q, d, T
    <2>3. q \in Seq(T) /\ Len(q) = Len(s) /\ DOMAIN q = 1..Len(s)
      BY <1>1, <2>1, <2>2
    <2> QED BY <2>3, SeqOfElements
  <1>3. \A k \in 1..Len(s) : DeliveryOf(q[k]) = <<s[k]>>
    <2>1. \A i : i # 0 => DeliveryOf(Delivery(i)) = <<i>>
      BY DEF Delivery, DeliveryOf
    <2> QED BY <1>1, <2>1
  <1> HIDE DEF q
  <1>4. \A k \in 1..Len(s) : <<s[k]>> \in Seq(Nat)
    BY <1>1
  <1>5. DeliverySeq(q)
    BY <1>2, <1>3, <1>4 DEF DeliverySeq
  <1>6. /\ DeliveryIds(q) \in IdLists /\ Len(DeliveryIds(q)) = Len(s)
        /\ \A k \in 1..Len(s) : DeliveryIds(q)[k] = <<s[k]>>
    BY <1>2, <1>3, <1>5, DeliveryIdsType
  <1>7. Flat[DeliveryIds(q)] = s
    BY <1>6, FlatSingles
  <1> QED BY <1>5, <1>7 DEF Delivered, q

\* Reading moves the first packets from one sequence to another.
LEMMA DeliveredSplit ==
  ASSUME NEW q, DeliverySeq(q), NEW n \in 1..Len(q)
  PROVE  LET a == SubSeq(q, 1, n) b == SubSeq(q, n + 1, Len(q)) IN
         DeliverySeq(a) /\ DeliverySeq(b) /\ Delivered(q) = Delivered(a) \o Delivered(b)
  <1> DEFINE a == SubSeq(q, 1, n)
             b == SubSeq(q, n + 1, Len(q))
  <1>1. /\ q \in Seq(Elements(q)) /\ Len(q) \in Nat /\ DOMAIN q = 1..Len(q)
        /\ n \in Nat /\ n <= Len(q)
        /\ a \in Seq(Elements(q)) /\ b \in Seq(Elements(q))
        /\ DOMAIN a = 1..n /\ DOMAIN b = 1..(Len(q) - n) /\ Len(a) = n /\ Len(b) = Len(q) - n
        /\ \A k \in 1..n : a[k] = q[k] /\ k \in 1..Len(q)
        /\ \A k \in 1..(Len(q) - n) : b[k] = q[n + k] /\ n + k \in 1..Len(q)
    BY DEF DeliverySeq
  <1> HIDE DEF a, b
  <1>2. a \o b = q
    <2> DEFINE T == Elements(q)
    <2> HIDE DEF T
    <2>0. q \in Seq(T) /\ a \in Seq(T) /\ b \in Seq(T)
      BY <1>1 DEF T
    <2>1. /\ a \o b \in Seq(T) /\ Len(a \o b) = Len(a) + Len(b)
          /\ \A k \in 1..Len(a) : (a \o b)[k] = a[k]
          /\ \A k \in 1..Len(b) : (a \o b)[Len(a) + k] = b[k]
      BY <2>0
    <2>2. ASSUME NEW k \in 1..Len(a \o b) PROVE (a \o b)[k] = q[k]
      <3>1. CASE k <= n
        BY <1>1, <2>1, <3>1
      <3>2. CASE ~(k <= n)
        <4>1. k - n \in 1..(Len(q) - n) /\ n + (k - n) = k
          BY <1>1, <2>1, <3>2
        <4>2. (a \o b)[n + (k - n)] = b[k - n] /\ b[k - n] = q[n + (k - n)]
          BY <1>1, <2>1, <4>1
        <4> QED BY <4>1, <4>2
      <3> QED BY <3>1, <3>2
    <2> DEFINE c == a \o b
    <2>3. c \in Seq(T) /\ Len(c) = Len(q) /\ \A k \in 1..Len(c) : c[k] = q[k]
      BY <1>1, <2>1, <2>2
    <2> HIDE DEF c
    <2>4. c = q
      BY <2>0, <2>3, SeqEqual
    <2> QED BY <2>4 DEF c
  <1>3. DeliverySeq(a) /\ DeliverySeq(b)
    <2>1. a \in Seq(Elements(a)) /\ b \in Seq(Elements(b))
      BY <1>1, SeqOfElements
    <2> QED BY <1>1, <2>1 DEF DeliverySeq
  <1>4. Delivered(a \o b) = Delivered(a) \o Delivered(b)
    BY <1>3, DeliveredConcat
  <1> QED BY <1>2, <1>3, <1>4 DEF a, b

-----------------------------------------------------------------------------
(* The ids a batch of acknowledgements leaves over                         *)

Kept(s, ids) == [k \in DOMAIN s |-> IF s[k] \in ids THEN <<>> ELSE <<s[k]>>]
NoTwice(s) == \A j, k \in DOMAIN s : s[j] = s[k] => j = k

\* Unacknowledged is Flat of the ids kept.
LEMMA KeptList ==
  ASSUME NEW s \in Seq(Nat), NEW ids
  PROVE  /\ Kept(s, ids) \in IdLists /\ Len(Kept(s, ids)) = Len(s)
         /\ \A k \in 1..Len(s) : Kept(s, ids)[k] = IF s[k] \in ids THEN <<>> ELSE <<s[k]>>
         /\ Unacknowledged(s, ids) = Flat[Kept(s, ids)]
         /\ Unacknowledged(s, ids) \in Seq(Nat)
  <1>1. DOMAIN s = 1..Len(s) /\ Len(s) \in Nat
    OBVIOUS
  <1> DEFINE e(k) == IF s[k] \in ids THEN <<>> ELSE <<s[k]>>
  <1>2. \A k \in 1..Len(s) : e(k) \in Seq(Nat)
    BY <1>1
  <1>3. Kept(s, ids) = [k \in 1..Len(s) |-> e(k)]
    BY <1>1, Zenon DEF Kept
  <1>4. [k \in 1..Len(s) |-> e(k)] \in Seq(Seq(Nat)) /\ Len([k \in 1..Len(s) |-> e(k)]) = Len(s)
    <2> HIDE DEF e
    <2> QED BY <1>1, <1>2
  <1>5. Unacknowledged(s, ids) = Flat[Kept(s, ids)]
    BY Zenon DEF Unacknowledged, Kept
  <1>6. Kept(s, ids) \in IdLists /\ Len(Kept(s, ids)) = Len(s)
    BY <1>3, <1>4 DEF IdLists
  <1>7. \A k \in 1..Len(s) : Kept(s, ids)[k] = e(k)
    BY <1>3, Zenon
  <1> QED BY <1>5, <1>6, <1>7, FlatType

\* What was acknowledged first of all leaves the rest.
LEMMA KeptRest ==
  ASSUME NEW a \in Seq(Nat), NEW b \in Seq(Nat), NEW ids,
         \A k \in 1..Len(a) : a[k] \in ids, \A k \in 1..Len(b) : b[k] \notin ids
  PROVE  Unacknowledged(a \o b, ids) = b
  <1> DEFINE s == a \o b
  <1>1. /\ s \in Seq(Nat) /\ Len(s) = Len(a) + Len(b) /\ Len(a) \in Nat /\ Len(b) \in Nat
        /\ \A k \in 1..Len(a) : s[k] = a[k]
        /\ \A k \in 1..Len(b) : s[Len(a) + k] = b[k]
    OBVIOUS
  <1> HIDE DEF s
  <1> DEFINE ka == Kept(a, ids)
             kb == Kept(b, ids)
             ks == Kept(s, ids)
  <1>2. /\ ka \in IdLists /\ kb \in IdLists /\ ks \in IdLists
        /\ Len(ka) = Len(a) /\ Len(kb) = Len(b) /\ Len(ks) = Len(s)
        /\ \A k \in 1..Len(a) : ka[k] = IF a[k] \in ids THEN <<>> ELSE <<a[k]>>
        /\ \A k \in 1..Len(b) : kb[k] = IF b[k] \in ids THEN <<>> ELSE <<b[k]>>
        /\ \A k \in 1..Len(s) : ks[k] = IF s[k] \in ids THEN <<>> ELSE <<s[k]>>
        /\ Unacknowledged(s, ids) = Flat[ks]
    BY <1>1, KeptList
  <1> HIDE DEF ka, kb, ks
  <1>3. Flat[ka] = <<>>
    <2>1. \A k \in DOMAIN ka : ka[k] = <<>>
      <3>1. DOMAIN ka = 1..Len(a)
        BY <1>2 DEF IdLists
      <3> QED BY <1>2, <3>1
    <2> QED BY <1>2, <2>1, FlatNone
  <1>4. Flat[kb] = b
    <2>1. \A k \in 1..Len(b) : kb[k] = <<b[k]>>
      BY <1>2
    <2> QED BY <1>2, <2>1, FlatSingles
  <1>5. Flat[ks] = Flat[ka] \o Flat[kb]
    <2>1. \A k \in 1..Len(a) : k \in 1..Len(s)
      BY <1>1
    <2>2. \A k \in 1..Len(b) : Len(a) + k \in 1..Len(s)
      BY <1>1
    <2>3. \A k \in 1..Len(a) : ks[k] = ka[k]
      BY <1>1, <1>2, <2>1
    <2>4. ASSUME NEW k \in 1..Len(b) PROVE ks[Len(a) + k] = kb[k]
      <3>1. s[Len(a) + k] = b[k] /\ Len(a) + k \in 1..Len(s)
        BY <1>1, <2>2
      <3> QED BY <1>2, <3>1
    <2>5. /\ Len(ks) = Len(ka) + Len(kb)
          /\ \A k \in 1..Len(ka) : ks[k] = ka[k]
          /\ \A k \in 1..Len(kb) : ks[Len(ka) + k] = kb[k]
      BY <1>1, <1>2, <2>3, <2>4
    <2> QED BY <1>2, <2>5, ListConcat
  <1> QED BY <1>2, <1>3, <1>4, <1>5 DEF s

\* Whatever is acknowledged, nothing is added and nothing repeated.
LEMMA KeptNoTwice ==
  ASSUME NEW ids
  PROVE  \A s \in Seq(Nat) : NoTwice(s) =>
           /\ NoTwice(Unacknowledged(s, ids))
           /\ Elements(Unacknowledged(s, ids)) \subseteq Elements(s)
  <1> DEFINE U(s) == Unacknowledged(s, ids)
             Good(s) == NoTwice(s) => NoTwice(U(s)) /\ Elements(U(s)) \subseteq Elements(s)
             S == {n \in Nat : \A s \in Seq(Nat) : Len(s) = n => Good(s)}
  <1>1. 0 \in S
    <2> SUFFICES ASSUME NEW s \in Seq(Nat), Len(s) = 0 PROVE Good(s)
      BY Zenon
    <2>1. /\ Kept(s, ids) \in IdLists /\ Len(Kept(s, ids)) = 0 /\ U(s) = Flat[Kept(s, ids)]
      BY KeptList
    <2>2. Kept(s, ids) = <<>>
      BY <2>1 DEF IdLists
    <2>3. U(s) = <<>>
      BY <2>1, <2>2, FlatEmpty
    <2> QED BY <2>3 DEF NoTwice, Elements
  <1>2. ASSUME NEW n \in Nat, n \in S PROVE n + 1 \in S
    <2> SUFFICES ASSUME NEW s \in Seq(Nat), Len(s) = n + 1, NoTwice(s)
                 PROVE  NoTwice(U(s)) /\ Elements(U(s)) \subseteq Elements(s)
      <3>1. n + 1 \in Nat
        OBVIOUS
      <3> QED BY <3>1, Zenon
    <2> DEFINE h == Head(s)
               t == Tail(s)
    <2>1. /\ t \in Seq(Nat) /\ Len(t) = n /\ h = s[1] /\ h \in Nat /\ 1 \in DOMAIN s
          /\ DOMAIN t = 1..n /\ \A k \in 1..n : t[k] = s[k + 1] /\ k + 1 \in DOMAIN s /\ k + 1 # 1
      OBVIOUS
    <2> HIDE DEF h, t
    <2>2. NoTwice(t)
      <3> SUFFICES ASSUME NEW j \in 1..n, NEW k \in 1..n, t[j] = t[k] PROVE j = k
        BY <2>1 DEF NoTwice
      <3>1. s[j + 1] = s[k + 1] /\ j + 1 \in DOMAIN s /\ k + 1 \in DOMAIN s
        BY <2>1
      <3>2. j + 1 = k + 1
        BY <3>1 DEF NoTwice
      <3> QED BY <3>2
    <2>3. Elements(t) \subseteq Elements(s) /\ h \in Elements(s)
      BY <2>1 DEF Elements
    <2>4. h \notin Elements(t)
      <3> SUFFICES ASSUME NEW k \in 1..n, t[k] = h PROVE FALSE
        BY <2>1 DEF Elements
      <3>1. s[k + 1] = s[1] /\ k + 1 \in DOMAIN s /\ 1 \in DOMAIN s /\ k + 1 # 1
        BY <2>1
      <3> QED BY <3>1 DEF NoTwice
    <2>5. NoTwice(U(t)) /\ Elements(U(t)) \subseteq Elements(t)
      BY <1>2, <2>1, <2>2
    <2>6. U(t) \in Seq(Nat) /\ DOMAIN U(t) = 1..Len(U(t)) /\ Len(U(t)) \in Nat
      BY <2>1, KeptList
    <2>7. U(s) = U(t) \/ U(s) = <<h>> \o U(t)
      <3> DEFINE ks == Kept(s, ids)
                 kt == Kept(t, ids)
      <3>1. /\ ks \in IdLists /\ kt \in IdLists /\ Len(ks) = n + 1 /\ Len(kt) = n
            /\ \A k \in 1..(n + 1) : ks[k] = IF s[k] \in ids THEN <<>> ELSE <<s[k]>>
            /\ \A k \in 1..n : kt[k] = IF t[k] \in ids THEN <<>> ELSE <<t[k]>>
            /\ U(s) = Flat[ks] /\ U(t) = Flat[kt]
        <4>1. /\ ks \in IdLists /\ Len(ks) = Len(s)
              /\ \A k \in 1..Len(s) : ks[k] = IF s[k] \in ids THEN <<>> ELSE <<s[k]>>
              /\ U(s) = Flat[ks]
          BY KeptList
        <4>2. /\ kt \in IdLists /\ Len(kt) = Len(t)
              /\ \A k \in 1..Len(t) : kt[k] = IF t[k] \in ids THEN <<>> ELSE <<t[k]>>
              /\ U(t) = Flat[kt]
          <5>1. t \in Seq(Nat)
            BY <2>1
          <5> QED BY <5>1, KeptList
        <4> HIDE DEF ks, kt, U
        <4> QED BY <2>1, <4>1, <4>2
      <3> HIDE DEF ks, kt
      <3>2. /\ ks # <<>> /\ Head(ks) = ks[1] /\ Tail(ks) \in IdLists /\ Len(Tail(ks)) = n
            /\ \A k \in 1..n : Tail(ks)[k] = ks[k + 1]
        BY <3>1 DEF IdLists
      <3>3. \A k \in 1..n : k + 1 \in 1..(n + 1)
        OBVIOUS
      <3>4. \A k \in 1..n : Tail(ks)[k] = kt[k]
        BY <2>1, <3>1, <3>2, <3>3
      <3>5. Tail(ks) = kt
        BY <3>1, <3>2, <3>4, SameList
      <3>6. Head(ks) = <<>> \/ Head(ks) = <<h>>
        <4>1. 1 \in 1..(n + 1)
          OBVIOUS
        <4> QED BY <2>1, <3>1, <3>2, <4>1
      <3>7. Flat[ks] = Head(ks) \o Flat[kt]
        BY <3>1, <3>2, <3>5, FlatHead
      <3>8. <<>> \o U(t) = U(t)
        BY <2>6
      <3> QED BY <3>1, <3>6, <3>7, <3>8
    <2> DEFINE u == U(t)
    <2> HIDE DEF U
    <2>8. CASE U(s) = u
      BY <2>3, <2>5, <2>8
    <2>9. CASE U(s) = <<h>> \o u
      <3> DEFINE v == <<h>> \o u
      <3>1. u \in Seq(Nat) /\ DOMAIN u = 1..Len(u) /\ Len(u) \in Nat
        BY <2>6
      <3> HIDE DEF u
      <3>2. /\ DOMAIN v = 1..(Len(u) + 1) /\ v[1] = h
            /\ \A k \in 1..(Len(u) + 1) : k # 1 => v[k] = u[k - 1] /\ k - 1 \in 1..Len(u)
        BY <2>1, <3>1
      <3> HIDE DEF v
      <3>3. \A k \in DOMAIN v : k # 1 => v[k] \in Elements(t)
        <4>1. Elements(u) \subseteq Elements(t)
          BY <2>5 DEF u
        <4> QED BY <3>1, <3>2, <4>1 DEF Elements
      <3>4. Elements(v) \subseteq Elements(s)
        BY <2>3, <3>2, <3>3 DEF Elements
      <3>5. NoTwice(v)
        <4> SUFFICES ASSUME NEW j \in DOMAIN v, NEW k \in DOMAIN v, v[j] = v[k] PROVE j = k
          BY DEF NoTwice
        <4>1. CASE j = 1 \/ k = 1
          BY <2>4, <3>2, <3>3, <4>1
        <4>2. CASE j # 1 /\ k # 1
          <5>1. j - 1 = k - 1
            <6>1. NoTwice(u)
              BY <2>5 DEF u
            <6> QED BY <3>1, <3>2, <4>2, <6>1 DEF NoTwice
          <5>2. j \in Int /\ k \in Int
            BY <3>1, <3>2
          <5> QED BY <5>1, <5>2
        <4> QED BY <4>1, <4>2
      <3>6. U(s) = v
        BY <2>9 DEF v
      <3> QED BY <3>4, <3>5, <3>6
    <2> QED BY <2>7, <2>8, <2>9
  <1>3. \A n \in Nat : n \in S
    <2> HIDE DEF S
    <2> QED BY <1>1, <1>2, SetInduction
  <1> SUFFICES ASSUME NEW s \in Seq(Nat) PROVE Good(s)
    BY Zenon
  <1>4. Len(s) \in Nat
    OBVIOUS
  <1> QED BY <1>3, <1>4, Zenon

-----------------------------------------------------------------------------
(* The six pieces                                                          *)

\* Concatenation as an operator the provers do not look into.
Then(a, b) == a \o b
Nothing == <<>>

\* Then is associative and Nothing is its unit.
LEMMA ThenFacts ==
  /\ \A x, y \in Seq(Nat) : Then(x, y) \in Seq(Nat)
  /\ \A x, y, z \in Seq(Nat) : Then(Then(x, y), z) = Then(x, Then(y, z))
  /\ Nothing \in Seq(Nat)
  /\ \A x \in Seq(Nat) : Then(Nothing, x) = x /\ Then(x, Nothing) = x
  <1>1. \A x, y, z \in Seq(Nat) : Then(Then(x, y), z) = Then(x, Then(y, z))
    BY Associative DEF Then
  <1>2. \A x \in Seq(Nat) : Then(Nothing, x) = x /\ Then(x, Nothing) = x
    BY DEF Then, Nothing
  <1>3. /\ \A x, y \in Seq(Nat) : Then(x, y) \in Seq(Nat)
        /\ Nothing \in Seq(Nat)
    BY DEF Then, Nothing
  <1> QED BY <1>1, <1>2, <1>3

\* The six places an unacknowledged id can be, in the order of receipt.
Six(a, b, c, d, e, f) == Then(Then(Then(Then(Then(a, b), c), d), e), f)

\* The head of the queue becomes the packet being sent.
LEMMA SixToPart ==
  ASSUME NEW a \in Seq(Nat), NEW h \in Seq(Nat), NEW c \in Seq(Nat), NEW d \in Seq(Nat),
         NEW e \in Seq(Nat), NEW f \in Seq(Nat)
  PROVE  Six(a, Nothing, Then(h, c), d, e, f) = Six(a, h, c, d, e, f)
  <1>1. Then(Then(a, Nothing), Then(h, c)) = Then(Then(a, h), c)
    BY ThenFacts
  <1> QED BY <1>1, Zenon DEF Six

\* The packet being sent reaches the wire.
LEMMA SixToWire ==
  ASSUME NEW a \in Seq(Nat), NEW b \in Seq(Nat), NEW c \in Seq(Nat), NEW d \in Seq(Nat),
         NEW e \in Seq(Nat), NEW f \in Seq(Nat)
  PROVE  Six(a, b, c, d, e, f) = Six(Then(a, b), Nothing, c, d, e, f)
  <1>1. Then(a, b) = Then(Then(a, b), Nothing)
    BY ThenFacts
  <1> QED BY <1>1, Zenon DEF Six

\* What was collected becomes a batch in the queue.
LEMMA SixToQueue ==
  ASSUME NEW a \in Seq(Nat), NEW b \in Seq(Nat), NEW d \in Seq(Nat), NEW e \in Seq(Nat),
         NEW f \in Seq(Nat)
  PROVE  Six(a, b, Nothing, d, e, f) = Six(a, b, d, Nothing, e, f)
  <1> DEFINE ab == Then(a, b)
  <1>1. ab \in Seq(Nat)
    BY ThenFacts
  <1>2. Then(Then(ab, Nothing), d) = Then(Then(ab, d), Nothing)
    BY <1>1, ThenFacts
  <1> QED BY <1>2, Zenon DEF Six

\* From the front of one part to the back of the part before it.
LEMMA Moved ==
  ASSUME NEW p \in Seq(Nat), NEW d \in Seq(Nat), NEW h \in Seq(Nat), NEW e \in Seq(Nat)
  PROVE  Then(Then(p, d), Then(h, e)) = Then(Then(p, Then(d, h)), e)
  <1>1. Then(p, d) \in Seq(Nat)
    BY ThenFacts
  <1>2. Then(Then(p, d), Then(h, e)) = Then(Then(Then(p, d), h), e)
    BY <1>1, ThenFacts
  <1>3. Then(Then(p, d), h) = Then(p, Then(d, h))
    BY ThenFacts
  <1> QED BY <1>2, <1>3, Zenon

\* Six pieces of ids are ids.
LEMMA SixType ==
  ASSUME NEW a \in Seq(Nat), NEW b \in Seq(Nat), NEW c \in Seq(Nat), NEW d \in Seq(Nat),
         NEW e \in Seq(Nat), NEW f \in Seq(Nat)
  PROVE  Six(a, b, c, d, e, f) \in Seq(Nat)
  <1>1. Then(Then(Then(Then(Then(a, b), c), d), e), f) \in Seq(Nat)
    BY ThenFacts
  <1> QED BY <1>1, Zenon DEF Six

-----------------------------------------------------------------------------
\* A packet is the first one or one of the others.
LEMMA HasFacts ==
  ASSUME NEW q, NEW t, q \in Seq(Elements(q)), q # <<>>
  PROVE  /\ Has(q, t) <=> Head(q).type = t \/ Has(Tail(q), t)
         /\ Tail(q) \in Seq(Elements(Tail(q)))
  <1>1. /\ DOMAIN q = 1..Len(q) /\ Len(q) \in Nat \ {0} /\ Head(q) = q[1] /\ 1 \in 1..Len(q)
        /\ DOMAIN Tail(q) = 1..(Len(q) - 1) /\ Tail(q) \in Seq(Elements(q))
        /\ \A k \in 1..(Len(q) - 1) : Tail(q)[k] = q[k + 1] /\ k + 1 \in 1..Len(q)
        /\ \A k \in 1..Len(q) : k # 1 =>
             k - 1 \in 1..(Len(q) - 1) /\ Tail(q)[k - 1] = q[k]
    OBVIOUS
  <1>2. Tail(q) \in Seq(Elements(Tail(q)))
    BY <1>1, SeqOfElements
  <1>3. Has(q, t) => Head(q).type = t \/ Has(Tail(q), t)
    <2> SUFFICES ASSUME NEW k \in 1..Len(q), q[k].type = t
                 PROVE  Head(q).type = t \/ Has(Tail(q), t)
      BY <1>1 DEF Has
    <2>1. CASE k = 1
      BY <1>1, <2>1
    <2>2. CASE k # 1
      BY <1>1, <2>2 DEF Has
    <2> QED BY <2>1, <2>2
  <1>4. Head(q).type = t \/ Has(Tail(q), t) => Has(q, t)
    BY <1>1 DEF Has
  <1> QED BY <1>2, <1>3, <1>4

\* A packet of a concatenation is in one of its parts.
LEMMA HasConcat ==
  ASSUME NEW q, NEW r, NEW t, q \in Seq(Elements(q)), r \in Seq(Elements(r))
  PROVE  /\ Has(q \o r, t) <=> Has(q, t) \/ Has(r, t)
         /\ q # <<>> => Tail(q \o r) = Tail(q) \o r /\ Head(q \o r) = Head(q)
         /\ q = <<>> => q \o r = r
  <1> DEFINE s == q \o r
  <1>1. /\ DOMAIN s = 1..(Len(q) + Len(r))
        /\ Len(q) \in Nat /\ Len(r) \in Nat /\ DOMAIN q = 1..Len(q) /\ DOMAIN r = 1..Len(r)
        /\ \A k \in 1..Len(q) : s[k] = q[k]
        /\ \A k \in 1..Len(r) : s[Len(q) + k] = r[k]
        /\ \A k \in 1..(Len(q) + Len(r)) : k \in 1..Len(q) \/ k - Len(q) \in 1..Len(r)
        /\ \A k \in 1..(Len(q) + Len(r)) : Len(q) + (k - Len(q)) = k
    BY SeqConcat
  <1>2. q # <<>> => Tail(q \o r) = Tail(q) \o r /\ Head(q \o r) = Head(q)
    <2> DEFINE T == Elements(q) \cup Elements(r)
    <2>1. q \in Seq(T) /\ r \in Seq(T)
      OBVIOUS
    <2> HIDE DEF T
    <2> QED BY <2>1
  <1>3. q = <<>> => q \o r = r
    OBVIOUS
  <1> HIDE DEF s
  <1>4. ASSUME Has(s, t) PROVE Has(q, t) \/ Has(r, t)
    <2>1. PICK k \in 1..(Len(q) + Len(r)) : s[k].type = t
      BY <1>1, <1>4 DEF Has
    <2>2. CASE k \in 1..Len(q)
      BY <1>1, <2>1, <2>2 DEF Has
    <2>3. CASE k - Len(q) \in 1..Len(r)
      <3>1. r[k - Len(q)] = s[k]
        BY <1>1, <2>1, <2>3
      <3> QED BY <1>1, <2>1, <2>3, <3>1 DEF Has
    <2> QED BY <1>1, <2>1, <2>2, <2>3
  <1>5. Has(q, t) => Has(s, t)
    <2>1. \A k \in 1..Len(q) : k \in 1..(Len(q) + Len(r))
      BY <1>1
    <2> QED BY <1>1, <2>1 DEF Has
  <1>6. Has(r, t) => Has(s, t)
    <2>1. \A k \in 1..Len(r) : Len(q) + k \in 1..(Len(q) + Len(r))
      BY <1>1
    <2> QED BY <1>1, <2>1 DEF Has
  <1>7. Has(s, t) <=> Has(q, t) \/ Has(r, t)
    BY <1>4, <1>5, <1>6
  <1> QED BY <1>2, <1>3, <1>7 DEF s

\* Packets in a queue of none, one or two.
LEMMA HasFew ==
  /\ \A t : ~Has(<<>>, t)
  /\ \A p, t : Has(<<p>>, t) <=> p.type = t
  /\ \A p : <<p>> \in Seq(Elements(<<p>>))
  /\ <<>> \in Seq(Elements(<<>>))
  <1>1. \A p : DOMAIN <<p>> = {1} /\ <<p>>[1] = p
    OBVIOUS
  <1>2. \A t : ~Has(<<>>, t)
    BY DEF Has
  <1>3. \A p, t : Has(<<p>>, t) <=> p.type = t
    BY <1>1, Zenon DEF Has
  <1>4. ASSUME NEW p PROVE <<p>> \in Seq(Elements(<<p>>))
    <2>1. <<p>> \in Seq({p})
      OBVIOUS
    <2> QED BY <2>1, SeqOfElements
  <1> QED BY <1>2, <1>3, <1>4

-----------------------------------------------------------------------------
(* Packets that no order depends on                                        *)

\* The packets the order of a session depends on.
Marked == {"pubacks", "connect", "disconnect", "garbage"}
PlainPkt(p) == p.type \notin Marked
Plain(q) == AckSeq(q) /\ \A t \in Marked : ~Has(q, t)

\* A packet at the end of a queue.
LEMMA JoinsOne ==
  ASSUME NEW q, NEW p, AckSeq(q), AckOf(p) \in Seq(Nat)
  PROVE  /\ AckSeq(Append(q, p)) /\ Acked(Append(q, p)) = Acked(q) \o AckOf(p)
         /\ \A t : Has(Append(q, p), t) <=> Has(q, t) \/ p.type = t
         /\ q # <<>> => \A t : Has(Tail(Append(q, p)), t) <=> Has(Tail(q), t) \/ p.type = t
         /\ q = <<>> => \A t : ~Has(Tail(Append(q, p)), t)
         /\ Append(q, p) # <<>>
  <1>1. AckSeq(Append(q, p)) /\ Acked(Append(q, p)) = Acked(q) \o AckOf(p)
    BY AckedAppend
  <1>2. q \in Seq(Elements(q)) /\ Append(q, p) = q \o <<p>> /\ <<p>> \in Seq(Elements(<<p>>))
    BY HasFew DEF AckSeq
  <1> DEFINE r == <<p>>
             qp == Append(q, p)
  <1>r. r \in Seq(Elements(r)) /\ qp = q \o r /\ \A t : Has(r, t) <=> p.type = t
    BY <1>2, HasFew
  <1> HIDE DEF r, qp
  <1>3. \A t : Has(qp, t) <=> Has(q, t) \/ p.type = t
    <2> TAKE t
    <2>1. Has(q \o r, t) <=> Has(q, t) \/ Has(r, t)
      BY <1>2, <1>r, HasConcat
    <2> QED BY <1>r, <2>1
  <1>4. ASSUME q # <<>> PROVE \A t : Has(Tail(qp), t) <=> Has(Tail(q), t) \/ p.type = t
    <2> DEFINE u == Tail(q)
    <2>1. Tail(qp) = u \o r
      BY <1>2, <1>r, <1>4, HasConcat
    <2>2. u \in Seq(Elements(u))
      BY <1>2, <1>4, HasFacts
    <2> HIDE DEF u
    <2>3. \A t : Has(Tail(qp), t) <=> Has(u, t) \/ p.type = t
      <3> TAKE t
      <3>1. Has(u \o r, t) <=> Has(u, t) \/ Has(r, t)
        BY <1>r, <2>2, HasConcat
      <3> QED BY <1>r, <2>1, <3>1
    <2> QED BY <2>3 DEF u
  <1>5. q = <<>> => \A t : ~Has(Tail(qp), t)
    <2>1. q = <<>> => Tail(qp) = <<>>
      BY DEF qp
    <2> QED BY <2>1, HasFew, Zenon
  <1>6. qp # <<>>
    BY <1>2 DEF qp
  <1> QED BY <1>1, <1>3, <1>4, <1>5, <1>6 DEF qp

\* Plain packets at the end of a queue change nothing the order depends on.
LEMMA PlainJoins ==
  ASSUME NEW q, NEW s, AckSeq(q), Plain(s)
  PROVE  /\ AckSeq(q \o s) /\ Acked(q \o s) = Acked(q)
         /\ \A t \in Marked : Has(q \o s, t) <=> Has(q, t)
         /\ q # <<>> => \A t \in Marked : Has(Tail(q \o s), t) <=> Has(Tail(q), t)
  <1>1. q \in Seq(Elements(q)) /\ s \in Seq(Elements(s)) /\ AckSeq(s)
    BY DEF AckSeq, Plain
  <1>2. Acked(s) = <<>>
    BY <1>1, AckedNone DEF Plain, Marked
  <1>3. AckSeq(q \o s) /\ Acked(q \o s) = Acked(q) \o <<>> /\ Acked(q) \in Seq(Nat)
    BY <1>1, <1>2, AckedConcat, AckedType
  <1>4. Acked(q) \o <<>> = Acked(q)
    BY <1>3
  <1>5. \A t \in Marked : Has(q \o s, t) <=> Has(q, t)
    BY <1>1, HasConcat, Zenon DEF Plain
  <1>6. q # <<>> => \A t \in Marked : Has(Tail(q \o s), t) <=> Has(Tail(q), t)
    <2> SUFFICES ASSUME q # <<>>, NEW t \in Marked
                 PROVE  Has(Tail(q \o s), t) <=> Has(Tail(q), t)
      BY Zenon
    <2> DEFINE u == Tail(q)
    <2>1. Tail(q \o s) = u \o s /\ u \in Seq(Elements(u))
      BY <1>1, HasConcat, HasFacts
    <2> HIDE DEF u
    <2>2. Has(u \o s, t) <=> Has(u, t) \/ Has(s, t)
      BY <1>1, <2>1, HasConcat
    <2>3. Has(Tail(q \o s), t) <=> Has(u, t)
      BY <2>1, <2>2 DEF Plain
    <2> QED BY <2>3 DEF u
  <1> QED BY <1>3, <1>4, <1>5, <1>6

\* None, one and two plain packets.
LEMMA PlainFew ==
  /\ Plain(<<>>)
  /\ \A p : PlainPkt(p) => Plain(<<p>>) /\ AckOf(p) = <<>>
  /\ \A p, r : PlainPkt(p) /\ PlainPkt(r) => Plain(<<p, r>>)
  <1>1. Plain(<<>>)
    BY AckedEmpty, HasFew DEF Plain
  <1>2. ASSUME NEW p, PlainPkt(p) PROVE Plain(<<p>>) /\ AckOf(p) = <<>>
    <2>1. AckOf(p) = <<>> /\ AckOf(p) \in Seq(Nat)
      BY <1>2 DEF AckOf, PlainPkt, Marked
    <2> QED BY <1>2, <2>1, AckedSingle, HasFew DEF Plain, PlainPkt
  <1>3. ASSUME NEW p, NEW r, PlainPkt(p), PlainPkt(r) PROVE Plain(<<p, r>>)
    <2>0. <<p, r>> = <<p>> \o <<r>>
      <3>1. <<p>> \in Seq({p, r}) /\ <<r>> \in Seq({p, r}) /\ <<p, r>> \in Seq({p, r})
        OBVIOUS
      <3> DEFINE a == <<p>> \o <<r>>
      <3>2. Len(a) = 2 /\ a[1] = p /\ a[2] = r /\ a \in Seq({p, r})
        BY <3>1
      <3> HIDE DEF a
      <3>3. a = <<p, r>>
        BY <3>2
      <3> QED BY <3>3 DEF a
    <2>1. Plain(<<p>>) /\ Plain(<<r>>) /\ <<p, r>> = <<p>> \o <<r>>
      BY <1>2, <1>3, <2>0, Zenon
    <2>2. AckSeq(<<p>> \o <<r>>) /\ \A t \in Marked : Has(<<p>> \o <<r>>, t) <=> Has(<<p>>, t)
      BY <2>1, PlainJoins DEF Plain
    <2> QED BY <2>1, <2>2, Zenon DEF Plain
  <1> QED BY <1>1, <1>2, <1>3

-----------------------------------------------------------------------------
\* The acknowledgements a live session owes, wherever they are.
Owed == Six(Acked(toBroker), Acked(partial), Acked(txq), Collected, Delivered(rx),
            Delivered(toClient))

States == {"disconnected", "awaiting_transport", "connecting", "connected", "failed"}
\* While the client can still answer what it reads.
Reading == \/ state \in {"connecting", "connected"}
           \/ state = "failed" /\ pc \in {"recv", "dispatch"}

TypesInv ==
    /\ AckSeq(toBroker) /\ AckSeq(partial) /\ AckSeq(txq)
    /\ partial # <<>> => partial = <<partial[1]>>
    /\ DeliverySeq(rx) /\ DeliverySeq(toClient)
    /\ acks \in Seq(Nat) /\ unacked \in Seq(Nat)
    /\ state \in States

FreshSocket == state = "disconnected" /\ sock =>
    /\ pc = "idle" /\ ~session
    /\ txq = <<>> /\ partial = <<>> /\ toBroker = <<>> /\ rx = <<>> /\ toClient = <<>>

WhereInv ==
    /\ pc = "deadlines" => state \in {"connecting", "connected"}
    /\ ~sock => rx = <<>>
    /\ ~Has(txq, "disconnect") /\ ~Has(txq, "garbage")
    /\ ~Has(partial, "disconnect") /\ ~Has(partial, "garbage")
    /\ FreshSocket

\* A CONNECT goes first, and the session starts when the broker has taken it.
ConnectFirst ==
    /\ ~Has(toBroker, "disconnect") /\ ~Has(toBroker, "garbage")
    /\ Has(toBroker, "connect") => ~session /\ ~Has(Tail(toBroker), "connect")
    /\ Has(partial, "connect") => ~session /\ toBroker = <<>>
    /\ Has(txq, "connect") => /\ ~session /\ toBroker = <<>> /\ partial = <<>>
                              /\ ~Has(Tail(txq), "connect")

\* Before that nothing is delivered and nothing acknowledged.
QuietBefore == ~session =>
    /\ ~Has(toBroker, "pubacks") /\ ~Has(partial, "pubacks") /\ ~Has(txq, "pubacks")
    /\ Collected = <<>>
    /\ ~Has(rx, "publish") /\ ~Has(rx, "oversized")
    /\ ~Has(toClient, "publish") /\ ~Has(toClient, "oversized")

\* Then a CONNACK comes before anything else.
ConnackFirst == state = "connecting" =>
    /\ pc \notin {"dispatched", "replay"}
    /\ session => rx # <<>> \/ toClient # <<>>
    /\ rx # <<>> => Head(rx).type = "connack"
    /\ rx = <<>> /\ toClient # <<>> => Head(toClient).type = "connack"

Conserved == session /\ Reading => unacked = Owed

LiveInv == link = "up" => ConnectFirst /\ QuietBefore /\ ConnackFirst /\ Conserved

Pushed == setup.pushes - left.pushes
Distinct ==
    /\ setup.pushes \in Nat /\ left.pushes \in 0..setup.pushes
    /\ DOMAIN left = {"faults", "rejections", "pushes"}
    /\ \A k \in DOMAIN unacked : unacked[k] \in 1..Pushed
    /\ NoTwice(unacked)

AckInv == TypesInv /\ WhereInv /\ LiveInv /\ Distinct

-----------------------------------------------------------------------------
\* Steps of the client that leave the wire alone.
Wire == /\ UNCHANGED <<sock, link, toBroker, toClient, unacked, left, setup>>
        /\ session' <=> session

\* What the state may become while the packets stay where they are.
Settles ==
    /\ acks' \in {acks, <<>>} /\ Collected' \in {Collected, <<>>} /\ state' \in States
    /\ link = "up" /\ Reading' => Reading /\ Collected' = Collected
    /\ link = "up" /\ state' = "connecting" =>
          state = "connecting" /\ pc' \notin {"dispatched", "replay"}
    /\ state' = "disconnected" /\ sock => state = "disconnected" /\ pc' = pc /\ txq' = txq
    /\ pc' = "deadlines" => state' \in {"connecting", "connected"}

\* Plain packets are queued.
LEMMA Writes ==
  ASSUME AckInv, NEW s, Plain(s), txq' = txq \o s, Wire, UNCHANGED <<partial, rx>>, Settles
  PROVE  AckInv'
  <1>1. /\ AckSeq(txq') /\ Acked(txq') = Acked(txq)
        /\ \A t \in Marked : Has(txq', t) <=> Has(txq, t)
        /\ txq # <<>> => \A t \in Marked : Has(Tail(txq'), t) <=> Has(Tail(txq), t)
    BY PlainJoins DEF AckInv, TypesInv
  <1>2. \A t \in Marked : Has(txq, t) => txq # <<>>
    BY HasFew
  <1>3. TypesInv'
    <2>1. <<>> \in Seq(Nat)
      OBVIOUS
    <2> QED BY <1>1, <2>1 DEF AckInv, TypesInv, Wire, Settles
  <1>4. WhereInv'
    BY <1>1 DEF AckInv, WhereInv, FreshSocket, Wire, Settles, Marked
  <1>5. link = "up" => ConnectFirst' /\ QuietBefore' /\ ConnackFirst' /\ Conserved'
    <2> SUFFICES ASSUME link = "up"
                 PROVE  ConnectFirst' /\ QuietBefore' /\ ConnackFirst' /\ Conserved'
      OBVIOUS
    <2>1. ConnectFirst'
      BY <1>1, <1>2 DEF AckInv, LiveInv, ConnectFirst, Wire, Marked
    <2>2. QuietBefore'
      BY <1>1, <1>2 DEF AckInv, LiveInv, QuietBefore, Wire, Marked, Settles
    <2>3. ConnackFirst'
      BY <1>1, <1>2 DEF AckInv, LiveInv, ConnackFirst, Wire, Marked, Settles
    <2>4. Conserved'
      <3>1. Reading' => Owed' = Owed
        BY <1>1 DEF Owed, Settles, Wire
      <3> QED BY <3>1 DEF AckInv, LiveInv, Conserved, Wire, Settles
    <2> QED BY <2>1, <2>2, <2>3, <2>4
  <1>6. Distinct'
    BY DEF AckInv, Distinct, Pushed, Wire
  <1> QED BY <1>3, <1>4, <1>5, <1>6 DEF AckInv, LiveInv, Wire

-----------------------------------------------------------------------------
(* Sending                                                                 *)

\* The first packet of a queue, and the rest.
LEMMA HeadTail ==
  ASSUME NEW q, AckSeq(q), q # <<>>
  PROVE  /\ AckSeq(Tail(q)) /\ AckOf(Head(q)) \in Seq(Nat)
         /\ Acked(q) = Then(AckOf(Head(q)), Acked(Tail(q))) /\ Acked(Tail(q)) \in Seq(Nat)
         /\ \A t : Has(q, t) <=> Head(q).type = t \/ Has(Tail(q), t)
         /\ Head(q).type = "pubacks" <=> Head(q).type \in {"pubacks"}
         /\ Head(q).type # "pubacks" => AckOf(Head(q)) = <<>> /\ Acked(q) = Acked(Tail(q))
  <1>1. /\ AckSeq(Tail(q)) /\ AckOf(Head(q)) \in Seq(Nat)
        /\ Acked(q) = AckOf(Head(q)) \o Acked(Tail(q))
    BY AckedTail
  <1>2. Acked(Tail(q)) \in Seq(Nat)
    BY <1>1, AckedType
  <1>3. \A t : Has(q, t) <=> Head(q).type = t \/ Has(Tail(q), t)
    BY HasFacts DEF AckSeq
  <1>4. Acked(q) = Then(AckOf(Head(q)), Acked(Tail(q)))
    BY <1>1, Zenon DEF Then
  <1>5. Head(q).type # "pubacks" => AckOf(Head(q)) = <<>>
    BY DEF AckOf
  <1>6. Then(<<>>, Acked(Tail(q))) = Acked(Tail(q))
    <2>1. Then(Nothing, Acked(Tail(q))) = Acked(Tail(q))
      BY <1>2, ThenFacts
    <2> QED BY <2>1 DEF Nothing
  <1> QED BY <1>1, <1>2, <1>3, <1>4, <1>5, <1>6

\* The six pieces are sequences of ids.
LEMMA OwedParts ==
  ASSUME TypesInv
  PROVE  /\ Acked(toBroker) \in Seq(Nat) /\ Acked(partial) \in Seq(Nat) /\ Acked(txq) \in Seq(Nat)
         /\ Collected \in Seq(Nat) /\ Delivered(rx) \in Seq(Nat) /\ Delivered(toClient) \in Seq(Nat)
         /\ <<>> \in Seq(Nat)
  <1>1. <<>> \in Seq(Nat)
    OBVIOUS
  <1>2. Collected \in Seq(Nat)
    BY <1>1 DEF TypesInv, Collected
  <1> QED BY <1>1, <1>2, AckedType, DeliveredType DEF TypesInv

\* A whole packet goes out.
Sends(p) ==
    /\ toBroker' = IF link = "up" THEN Append(toBroker, p) ELSE toBroker
    /\ UNCHANGED <<sock, link, toClient, unacked, left, setup, rx, acks, state>>
    /\ session' <=> session
    /\ pc = "drain" /\ pc' \in {"drain", "drained", "idle"}

\* The head of the queue goes out whole.
LEMMA SendsHead ==
  ASSUME AckInv, txq # <<>>, partial = <<>>, partial' = <<>>, txq' = Tail(txq), Sends(Head(txq))
  PROVE  AckInv'
  <1> DEFINE h == Head(txq)
             T == Tail(txq)
             B == Append(toBroker, h)
  <1>1. /\ AckSeq(T) /\ AckOf(h) \in Seq(Nat)
        /\ Acked(txq) = Then(AckOf(h), Acked(T)) /\ Acked(T) \in Seq(Nat)
        /\ \A t : Has(txq, t) <=> h.type = t \/ Has(T, t)
    BY HeadTail DEF AckInv, TypesInv
  <1>2. /\ AckSeq(B) /\ Acked(B) = Then(Acked(toBroker), AckOf(h))
        /\ \A t : Has(B, t) <=> Has(toBroker, t) \/ h.type = t
        /\ toBroker # <<>> => \A t : Has(Tail(B), t) <=> Has(Tail(toBroker), t) \/ h.type = t
        /\ toBroker = <<>> => \A t : ~Has(Tail(B), t)
        /\ B # <<>>
    BY <1>1, JoinsOne DEF AckInv, TypesInv, Then
  <1>3. Acked(<<>>) = Nothing /\ AckSeq(<<>>) /\ \A t : ~Has(<<>>, t)
    BY AckedEmpty, HasFew DEF Nothing
  <1>4. Collected = Nothing /\ Collected' = Nothing /\ Nothing = <<>>
    BY DEF Collected, Sends, Nothing
  <1> HIDE DEF h, T, B
  <1>5. /\ txq' = T /\ partial' = <<>> /\ (link = "up" => toBroker' = B)
        /\ (link # "up" => toBroker' = toBroker)
        /\ UNCHANGED <<sock, link, toClient, unacked, left, setup, rx, acks, state>>
        /\ (session' <=> session)
        /\ pc = "drain" /\ pc' \in {"drain", "drained", "idle"}
    BY DEF Sends, h, T, B
  <1>6. TypesInv'
    BY <1>1, <1>2, <1>3, <1>5 DEF AckInv, TypesInv
  <1>7. WhereInv'
    BY <1>1, <1>3, <1>5 DEF AckInv, WhereInv, FreshSocket
  <1>8. ASSUME link = "up" PROVE ConnectFirst' /\ QuietBefore' /\ ConnackFirst' /\ Conserved'
    <2>0. TypesInv /\ WhereInv /\ ConnectFirst /\ QuietBefore /\ ConnackFirst /\ Conserved
      BY <1>8 DEF AckInv, LiveInv
    <2>1. ConnectFirst'
      <3>1. \A t : Has(toBroker, t) => toBroker # <<>>
        BY <1>3
      <3> QED BY <1>1, <1>2, <1>3, <1>5, <1>8, <2>0, <3>1 DEF ConnectFirst, WhereInv
    <2>2. QuietBefore'
      BY <1>1, <1>2, <1>3, <1>4, <1>5, <1>8, <2>0 DEF QuietBefore
    <2>3. ConnackFirst'
      BY <1>5, <2>0 DEF ConnackFirst
    <2>4. Conserved'
      <3>1. Reading' => Reading
        BY <1>5 DEF Reading
      <3>2. Owed' = Owed
        <4> DEFINE a == Acked(toBroker)
                   k == AckOf(h)
                   c == Acked(T)
                   d == Delivered(rx)
                   e == Delivered(toClient)
        <4>1. a \in Seq(Nat) /\ d \in Seq(Nat) /\ e \in Seq(Nat) /\ k \in Seq(Nat)
              /\ c \in Seq(Nat) /\ Nothing \in Seq(Nat)
          BY <1>1, <2>0, OwedParts, ThenFacts
        <4>2. Owed = Six(a, Nothing, Then(k, c), Nothing, d, e)
          BY <1>1, <1>3, <1>4, Zenon DEF Owed
        <4>3. Owed' = Six(Then(a, k), Nothing, c, Nothing, d, e)
          BY <1>2, <1>3, <1>4, <1>5, <1>8 DEF Owed
        <4> HIDE DEF a, k, c, d, e
        <4>4. Six(a, Nothing, Then(k, c), Nothing, d, e) = Six(a, k, c, Nothing, d, e)
          BY <4>1, SixToPart
        <4>5. Six(a, k, c, Nothing, d, e) = Six(Then(a, k), Nothing, c, Nothing, d, e)
          BY <4>1, SixToWire
        <4> QED BY <4>2, <4>3, <4>4, <4>5
      <3> QED BY <1>5, <2>0, <3>1, <3>2 DEF Conserved
    <2> QED BY <2>1, <2>2, <2>3, <2>4
  <1>9. Distinct'
    BY <1>5 DEF AckInv, Distinct, Pushed
  <1> QED BY <1>5, <1>6, <1>7, <1>8, <1>9 DEF AckInv, LiveInv

\* The rest of a short send goes out.
LEMMA Finishes ==
  ASSUME AckInv, partial # <<>>, partial' = <<>>, txq' = txq, Sends(partial[1])
  PROVE  AckInv'
  <1> DEFINE h == partial[1]
             B == Append(toBroker, h)
  <1>1. /\ AckOf(h) \in Seq(Nat) /\ Acked(partial) = AckOf(h)
        /\ \A t : Has(partial, t) <=> h.type = t
    <2>1. partial = <<h>> /\ AckSeq(partial)
      BY DEF AckInv, TypesInv
    <2> HIDE DEF h
    <2>2. h = Head(partial)
      BY <2>1
    <2>3. AckOf(h) \in Seq(Nat)
      BY <2>1, <2>2, HeadTail
    <2> QED BY <2>1, <2>3, AckedSingle, HasFew
  <1>2. /\ AckSeq(B) /\ Acked(B) = Then(Acked(toBroker), AckOf(h))
        /\ \A t : Has(B, t) <=> Has(toBroker, t) \/ h.type = t
        /\ toBroker # <<>> => \A t : Has(Tail(B), t) <=> Has(Tail(toBroker), t) \/ h.type = t
        /\ toBroker = <<>> => \A t : ~Has(Tail(B), t)
        /\ B # <<>>
    BY <1>1, JoinsOne DEF AckInv, TypesInv, Then
  <1>3. Acked(<<>>) = Nothing /\ AckSeq(<<>>) /\ \A t : ~Has(<<>>, t)
    BY AckedEmpty, HasFew DEF Nothing
  <1>4. Collected = Nothing /\ Collected' = Nothing /\ Nothing = <<>>
    BY DEF Collected, Sends, Nothing
  <1>5. /\ txq' = txq /\ partial' = <<>> /\ (link = "up" => toBroker' = B)
        /\ (link # "up" => toBroker' = toBroker)
        /\ UNCHANGED <<sock, link, toClient, unacked, left, setup, rx, acks, state>>
        /\ (session' <=> session)
        /\ pc = "drain" /\ pc' \in {"drain", "drained", "idle"}
    BY DEF Sends
  <1> HIDE DEF h, B
  <1>6. TypesInv'
    BY <1>1, <1>2, <1>3, <1>5 DEF AckInv, TypesInv
  <1>7. WhereInv'
    BY <1>1, <1>3, <1>5 DEF AckInv, WhereInv, FreshSocket
  <1>8. ASSUME link = "up" PROVE ConnectFirst' /\ QuietBefore' /\ ConnackFirst' /\ Conserved'
    <2>0. TypesInv /\ WhereInv /\ ConnectFirst /\ QuietBefore /\ ConnackFirst /\ Conserved
      BY <1>8 DEF AckInv, LiveInv
    <2>1. ConnectFirst'
      <3>1. \A t : Has(toBroker, t) => toBroker # <<>>
        BY <1>3
      <3> QED BY <1>1, <1>2, <1>3, <1>5, <1>8, <2>0, <3>1 DEF ConnectFirst, WhereInv
    <2>2. QuietBefore'
      BY <1>1, <1>2, <1>3, <1>4, <1>5, <1>8, <2>0 DEF QuietBefore
    <2>3. ConnackFirst'
      BY <1>5, <2>0 DEF ConnackFirst
    <2>4. Conserved'
      <3>1. Reading' => Reading
        BY <1>5 DEF Reading
      <3>2. Owed' = Owed
        <4> DEFINE a == Acked(toBroker)
                   k == AckOf(h)
                   c == Acked(txq)
                   d == Delivered(rx)
                   e == Delivered(toClient)
        <4>1. a \in Seq(Nat) /\ d \in Seq(Nat) /\ e \in Seq(Nat) /\ k \in Seq(Nat)
              /\ c \in Seq(Nat) /\ Nothing \in Seq(Nat)
          BY <1>1, <2>0, OwedParts, ThenFacts
        <4>2. Owed = Six(a, k, c, Nothing, d, e)
          BY <1>1, <1>3, <1>4, Zenon DEF Owed
        <4>3. Owed' = Six(Then(a, k), Nothing, c, Nothing, d, e)
          BY <1>2, <1>3, <1>4, <1>5, <1>8 DEF Owed
        <4> HIDE DEF a, k, c, d, e
        <4>5. Six(a, k, c, Nothing, d, e) = Six(Then(a, k), Nothing, c, Nothing, d, e)
          BY <4>1, SixToWire
        <4> QED BY <4>2, <4>3, <4>5
      <3> QED BY <1>5, <2>0, <3>1, <3>2 DEF Conserved
    <2> QED BY <2>1, <2>2, <2>3, <2>4
  <1>9. Distinct'
    BY <1>5 DEF AckInv, Distinct, Pushed
  <1> QED BY <1>5, <1>6, <1>7, <1>8, <1>9 DEF AckInv, LiveInv

\* A part of a packet goes out: the rest is owed.
LEMMA SendsPart ==
  ASSUME AckInv, txq # <<>>, partial = <<>>, partial' = <<Head(txq)>>, txq' = Tail(txq), Wire,
         UNCHANGED <<rx, acks, state>>, pc = "drain", pc' = "idle"
  PROVE  AckInv'
  <1> DEFINE h == Head(txq)
             T == Tail(txq)
             P == <<h>>
  <1>1. /\ AckSeq(T) /\ AckOf(h) \in Seq(Nat)
        /\ Acked(txq) = Then(AckOf(h), Acked(T)) /\ Acked(T) \in Seq(Nat)
        /\ \A t : Has(txq, t) <=> h.type = t \/ Has(T, t)
    BY HeadTail DEF AckInv, TypesInv
  <1>2. /\ AckSeq(P) /\ Acked(P) = AckOf(h) /\ \A t : Has(P, t) <=> h.type = t
        /\ P = <<P[1]>>
    BY <1>1, AckedSingle, HasFew
  <1>3. Acked(<<>>) = Nothing /\ AckSeq(<<>>) /\ \A t : ~Has(<<>>, t)
    BY AckedEmpty, HasFew DEF Nothing
  <1>4. Collected = Nothing /\ Collected' = Nothing /\ Nothing = <<>>
    BY DEF Collected, Nothing
  <1>5. /\ txq' = T /\ partial' = P
        /\ UNCHANGED <<sock, link, toBroker, toClient, unacked, left, setup, rx, acks, state>>
        /\ (session' <=> session)
        /\ pc = "drain" /\ pc' = "idle"
    BY DEF Wire
  <1> HIDE DEF h, T, P
  <1>6. TypesInv'
    BY <1>1, <1>2, <1>3, <1>5 DEF AckInv, TypesInv
  <1>7. WhereInv'
    BY <1>1, <1>2, <1>3, <1>5 DEF AckInv, WhereInv, FreshSocket
  <1>8. ASSUME link = "up" PROVE ConnectFirst' /\ QuietBefore' /\ ConnackFirst' /\ Conserved'
    <2>0. TypesInv /\ WhereInv /\ ConnectFirst /\ QuietBefore /\ ConnackFirst /\ Conserved
      BY <1>8 DEF AckInv, LiveInv
    <2>1. ConnectFirst'
      BY <1>1, <1>2, <1>3, <1>5, <1>8, <2>0 DEF ConnectFirst, WhereInv
    <2>2. QuietBefore'
      BY <1>1, <1>2, <1>3, <1>4, <1>5, <1>8, <2>0 DEF QuietBefore
    <2>3. ConnackFirst'
      BY <1>5, <2>0 DEF ConnackFirst
    <2>4. Conserved'
      <3>1. Reading' => Reading
        BY <1>5 DEF Reading
      <3>2. Owed' = Owed
        <4> DEFINE a == Acked(toBroker)
                   k == AckOf(h)
                   c == Acked(T)
                   d == Delivered(rx)
                   e == Delivered(toClient)
        <4>1. a \in Seq(Nat) /\ d \in Seq(Nat) /\ e \in Seq(Nat) /\ k \in Seq(Nat)
              /\ c \in Seq(Nat) /\ Nothing \in Seq(Nat)
          BY <1>1, <2>0, OwedParts, ThenFacts
        <4>2. Owed = Six(a, Nothing, Then(k, c), Nothing, d, e)
          BY <1>1, <1>3, <1>4, Zenon DEF Owed
        <4>3. Owed' = Six(a, k, c, Nothing, d, e)
          BY <1>2, <1>3, <1>4, <1>5, <1>8 DEF Owed
        <4> HIDE DEF a, k, c, d, e
        <4>4. Six(a, Nothing, Then(k, c), Nothing, d, e) = Six(a, k, c, Nothing, d, e)
          BY <4>1, SixToPart
        <4> QED BY <4>2, <4>3, <4>4
      <3> QED BY <1>5, <2>0, <3>1, <3>2 DEF Conserved
    <2> QED BY <2>1, <2>2, <2>3, <2>4
  <1>9. Distinct'
    BY <1>5 DEF AckInv, Distinct, Pushed
  <1> QED BY <1>5, <1>6, <1>7, <1>8, <1>9 DEF AckInv, LiveInv

\* A callback marker leaves the queue and goes nowhere.
LEMMA DropsMarker ==
  ASSUME AckInv, txq # <<>>, Head(txq).type = "marker", txq' = Tail(txq), Wire,
         UNCHANGED <<partial, rx, acks, state, pc>>, pc \in {"drain", "drained"}
  PROVE  AckInv'
  <1> DEFINE T == Tail(txq)
  <1>1. /\ AckSeq(T) /\ Acked(txq) = Acked(T)
        /\ \A t \in Marked : Has(txq, t) <=> Has(T, t)
    BY HeadTail DEF AckInv, TypesInv, Marked
  <1>5. /\ txq' = T
        /\ UNCHANGED <<sock, link, toBroker, toClient, unacked, left, setup, rx, acks, state,
                       partial, pc>>
        /\ (session' <=> session)
    BY DEF Wire
  <1>4. Collected' = Collected
    BY <1>5 DEF Collected
  <1> HIDE DEF T
  <1>6. TypesInv'
    BY <1>1, <1>5 DEF AckInv, TypesInv
  <1>7. WhereInv'
    BY <1>1, <1>5 DEF AckInv, WhereInv, FreshSocket, Marked
  <1>8. ASSUME link = "up" PROVE ConnectFirst' /\ QuietBefore' /\ ConnackFirst' /\ Conserved'
    <2>0. TypesInv /\ WhereInv /\ ConnectFirst /\ QuietBefore /\ ConnackFirst /\ Conserved
      BY <1>8 DEF AckInv, LiveInv
    <2>1. ConnectFirst'
      <3>1. Has(txq, "connect") => ~Has(T, "connect")
        BY <2>0 DEF ConnectFirst, T
      <3> QED BY <1>1, <1>5, <1>8, <2>0, <3>1 DEF ConnectFirst, Marked
    <2>2. QuietBefore'
      BY <1>1, <1>4, <1>5, <1>8, <2>0 DEF QuietBefore, Marked
    <2>3. ConnackFirst'
      BY <1>5, <2>0 DEF ConnackFirst
    <2>4. Conserved'
      <3>1. Reading' <=> Reading
        BY <1>5 DEF Reading
      <3>2. Owed' = Owed
        BY <1>1, <1>4, <1>5 DEF Owed
      <3> QED BY <1>5, <2>0, <3>1, <3>2 DEF Conserved
    <2> QED BY <2>1, <2>2, <2>3, <2>4
  <1>9. Distinct'
    BY <1>5 DEF AckInv, Distinct, Pushed
  <1> QED BY <1>5, <1>6, <1>7, <1>8, <1>9 DEF AckInv, LiveInv

\* What was collected becomes a packet in front of an acknowledgement-free queue.
LEMMA Flushes ==
  ASSUME AckInv, acks # <<>>, ~Has(txq, "pubacks"), txq' = <<PubacksPkt(acks)>> \o txq, Wire,
         UNCHANGED <<partial, rx, state>>, acks' = <<>>,
         pc \in {"dispatch", "dispatched"}, pc' = "drain"
  PROVE  AckInv'
  <1> DEFINE h == PubacksPkt(acks)
             P == <<h>>
             Q == P \o txq
  <1>1. h.type = "pubacks" /\ AckOf(h) = acks /\ acks \in Seq(Nat) /\ <<>> \in Seq(Nat)
    BY DEF PubacksPkt, AckOf, AckInv, TypesInv
  <1>h. h.type # "connect" /\ h.type # "disconnect" /\ h.type # "garbage"
    BY <1>1
  <1>5. /\ txq' = Q /\ acks' = <<>>
        /\ UNCHANGED <<sock, link, toBroker, toClient, unacked, left, setup, rx, state, partial>>
        /\ (session' <=> session)
        /\ pc \in {"dispatch", "dispatched"} /\ pc' = "drain"
    BY DEF Wire
  <1> HIDE DEF h
  <1>2. /\ AckSeq(P) /\ Acked(P) = acks /\ \A t : Has(P, t) <=> h.type = t
    BY <1>1, AckedSingle, HasFew
  <1>t. AckSeq(txq) /\ Acked(txq) = Nothing /\ acks \in Seq(Nat)
    BY AckedNone DEF AckInv, TypesInv, Nothing
  <1> HIDE DEF P
  <1>3. /\ AckSeq(Q) /\ Acked(Q) = acks /\ \A t : Has(Q, t) <=> Has(P, t) \/ Has(txq, t)
    <2>1. AckSeq(Q) /\ Acked(Q) = acks \o Acked(txq)
      BY <1>2, <1>t, AckedConcat
    <2>2. acks \o Acked(txq) = acks
      BY <1>t DEF Nothing
    <2>3. P \in Seq(Elements(P)) /\ txq \in Seq(Elements(txq))
      BY <1>2, <1>t DEF AckSeq
    <2>4. \A t : Has(Q, t) <=> Has(P, t) \/ Has(txq, t)
      BY <2>3, HasConcat
    <2> QED BY <2>1, <2>2, <2>4
  <1>4. Collected = acks /\ Collected' = Nothing /\ Nothing = <<>>
    BY DEF Collected, Nothing
  <1> HIDE DEF Q
  <1>6. TypesInv'
    BY <1>1, <1>3, <1>5 DEF AckInv, TypesInv
  <1>7. WhereInv'
    BY <1>h, <1>2, <1>3, <1>5 DEF AckInv, WhereInv, FreshSocket
  <1>8. ASSUME link = "up" PROVE ConnectFirst' /\ QuietBefore' /\ ConnackFirst' /\ Conserved'
    <2>0. TypesInv /\ WhereInv /\ ConnectFirst /\ QuietBefore /\ ConnackFirst /\ Conserved
      BY <1>8 DEF AckInv, LiveInv
    <2>s. session
      BY <1>4, <2>0 DEF QuietBefore
    <2>1. ConnectFirst'
      <3>1. ~Has(Q, "connect")
        BY <1>2, <1>h, <1>3, <2>0, <2>s DEF ConnectFirst
      <3> QED BY <1>5, <2>0, <3>1 DEF ConnectFirst
    <2>2. QuietBefore'
      BY <1>5, <2>s DEF QuietBefore
    <2>3. ConnackFirst'
      BY <1>5, <2>0 DEF ConnackFirst
    <2>4. Conserved'
      <3>1. Reading' => Reading
        BY <1>5 DEF Reading
      <3>2. Owed' = Owed
        <4> DEFINE a == Acked(toBroker)
                   b == Acked(partial)
                   d == Delivered(rx)
                   e == Delivered(toClient)
        <4>1. a \in Seq(Nat) /\ b \in Seq(Nat) /\ d \in Seq(Nat) /\ e \in Seq(Nat)
              /\ acks \in Seq(Nat)
          BY <1>1, <2>0, OwedParts
        <4>2. Owed = Six(a, b, Nothing, acks, d, e)
          BY <1>t, <1>4, Zenon DEF Owed
        <4>3. Owed' = Six(a, b, acks, Nothing, d, e)
          BY <1>3, <1>4, <1>5 DEF Owed
        <4> HIDE DEF a, b, d, e
        <4>4. Six(a, b, Nothing, acks, d, e) = Six(a, b, acks, Nothing, d, e)
          BY <4>1, SixToQueue
        <4> QED BY <4>2, <4>3, <4>4
      <3> QED BY <1>5, <2>0, <3>1, <3>2 DEF Conserved
    <2> QED BY <2>1, <2>2, <2>3, <2>4
  <1>9. Distinct'
    BY <1>5 DEF AckInv, Distinct, Pushed
  <1> QED BY <1>5, <1>6, <1>7, <1>8, <1>9 DEF AckInv, LiveInv

\* The next packet of the decoder, and what it may collect.
LEMMA Takes ==
  ASSUME AckInv, rx # <<>>, rx' = Tail(rx), Wire, UNCHANGED <<txq, partial>>,
         acks' \in {acks, acks \o DeliveryOf(Head(rx))},
         Collected' \in {<<>>, Collected \o DeliveryOf(Head(rx)), Collected},
         state' \in {state, "failed", "connected"}, link = "up" => state' # "connecting",
         pc' # "deadlines",
         link = "up" /\ Reading' => Reading /\ Collected' = Collected \o DeliveryOf(Head(rx))
  PROVE  AckInv'
  <1> DEFINE h == DeliveryOf(Head(rx))
             T == Tail(rx)
  <1>1. /\ DeliverySeq(T) /\ h \in Seq(Nat) /\ Delivered(rx) = Then(h, Delivered(T))
        /\ Delivered(T) \in Seq(Nat)
        /\ \A t : Has(rx, t) <=> Head(rx).type = t \/ Has(T, t)
    <2>1. DeliverySeq(rx) /\ rx \in Seq(Elements(rx))
      BY DEF AckInv, TypesInv, DeliverySeq
    <2>2. DeliverySeq(T) /\ h \in Seq(Nat) /\ Delivered(rx) = h \o Delivered(T)
      BY <2>1, DeliveredTail
    <2>3. Delivered(T) \in Seq(Nat)
      BY <2>2, DeliveredType
    <2>4. \A t : Has(rx, t) <=> Head(rx).type = t \/ Has(T, t)
      BY <2>1, HasFacts
    <2>5. Delivered(rx) = Then(h, Delivered(T))
      BY <2>2, Zenon DEF Then
    <2> QED BY <2>2, <2>3, <2>4, <2>5
  <1>2. ~Has(rx, "publish") /\ ~Has(rx, "oversized") => h = <<>>
    BY <1>1 DEF DeliveryOf
  <1>s. sock /\ state # "disconnected"
    BY DEF AckInv, WhereInv, FreshSocket
  <1>4. Collected \in Seq(Nat) /\ acks \in Seq(Nat)
    BY OwedParts DEF AckInv, TypesInv
  <1>5. /\ rx' = T /\ acks' \in {acks, acks \o h}
        /\ Collected' \in {<<>>, Collected \o h, Collected}
        /\ UNCHANGED <<sock, link, toBroker, toClient, unacked, left, setup, txq, partial>>
        /\ (session' <=> session)
        /\ state' \in {state, "failed", "connected"} /\ (link = "up" => state' # "connecting")
        /\ pc' # "deadlines"
        /\ (link = "up" /\ Reading' => Reading /\ Collected' = Then(Collected, h))
    BY DEF Wire, Then
  <1> HIDE DEF h, T
  <1>6. TypesInv'
    <2>1. acks \o h \in Seq(Nat)
      BY <1>1, <1>4
    <2>2. acks' = acks \/ acks' = acks \o h
      BY <1>5, Zenon
    <2>3. acks' \in Seq(Nat)
      BY <1>4, <2>1, <2>2, Zenon
    <2> QED BY <1>1, <1>5, <2>3 DEF AckInv, TypesInv, States
  <1>7. WhereInv'
    BY <1>5, <1>s DEF AckInv, WhereInv, FreshSocket
  <1>8. ASSUME link = "up" PROVE ConnectFirst' /\ QuietBefore' /\ ConnackFirst' /\ Conserved'
    <2>0. TypesInv /\ WhereInv /\ ConnectFirst /\ QuietBefore /\ ConnackFirst /\ Conserved
      BY <1>8 DEF AckInv, LiveInv
    <2>1. ConnectFirst'
      BY <1>5, <2>0 DEF ConnectFirst
    <2>2. QuietBefore'
      <3> SUFFICES ASSUME ~session PROVE QuietBefore'
        BY <1>5 DEF QuietBefore
      <3>1. h = <<>> /\ Collected = <<>>
        BY <1>2, <2>0 DEF QuietBefore
      <3>2. Collected' = <<>>
        BY <1>5, <3>1
      <3> QED BY <1>1, <1>5, <2>0, <3>2 DEF QuietBefore
    <2>3. ConnackFirst'
      BY <1>5, <1>8 DEF ConnackFirst
    <2>4. Conserved'
      <3> SUFFICES ASSUME session, Reading' PROVE unacked' = Owed'
        BY <1>5 DEF Conserved
      <3>1. Reading /\ Collected' = Then(Collected, h)
        BY <1>5, <1>8
      <3>2. Owed' = Owed
        <4> DEFINE a == Acked(toBroker)
                   b == Acked(partial)
                   c == Acked(txq)
                   d == Collected
                   f == Delivered(T)
                   e == Delivered(toClient)
        <4>1. a \in Seq(Nat) /\ b \in Seq(Nat) /\ c \in Seq(Nat) /\ d \in Seq(Nat)
              /\ e \in Seq(Nat) /\ f \in Seq(Nat) /\ h \in Seq(Nat)
          BY <1>1, <2>0, OwedParts
        <4>2. Owed = Six(a, b, c, d, Then(h, f), e)
          BY <1>1, Zenon DEF Owed
        <4>3. Owed' = Six(a, b, c, Then(d, h), f, e)
          BY <1>5, <3>1 DEF Owed
        <4> HIDE DEF a, b, c, d, e, f
        <4>4. Six(a, b, c, d, Then(h, f), e) = Six(a, b, c, Then(d, h), f, e)
          <5> DEFINE p == Then(Then(a, b), c)
          <5>1. p \in Seq(Nat)
            BY <4>1, ThenFacts
          <5>2. Then(Then(p, d), Then(h, f)) = Then(Then(p, Then(d, h)), f)
            BY <4>1, <5>1, Moved
          <5> QED BY <5>2, Zenon DEF Six
        <4> QED BY <4>2, <4>3, <4>4
      <3> QED BY <1>5, <2>0, <3>1, <3>2 DEF Conserved
    <2> QED BY <2>1, <2>2, <2>3, <2>4
  <1>9. Distinct'
    BY <1>5 DEF AckInv, Distinct, Pushed
  <1> QED BY <1>5, <1>6, <1>7, <1>8, <1>9 DEF AckInv, LiveInv

-----------------------------------------------------------------------------
(* The socket and the decoder                                              *)

\* The socket goes, and with it everything queued.
LEMMA Closes ==
  ASSUME AckInv, ~sock', link' = "none", toClient' = <<>>, txq' = <<>>, partial' = <<>>, rx' = <<>>,
         toBroker' = toBroker \/ \E p : AckOf(p) = <<>> /\ toBroker' = Append(toBroker, p),
         UNCHANGED <<acks, unacked, left, setup>>, state' \in States, pc' # "deadlines"
  PROVE  AckInv'
  <1>1. AckSeq(<<>>) /\ DeliverySeq(<<>>) /\ \A t : ~Has(<<>>, t)
    BY AckedEmpty, DeliveredEmpty, HasFew
  <1>2. AckSeq(toBroker')
    <2>1. <<>> \in Seq(Nat)
      OBVIOUS
    <2>2. AckSeq(toBroker)
      BY DEF AckInv, TypesInv
    <2>3. ASSUME NEW p, AckOf(p) = <<>>, toBroker' = Append(toBroker, p) PROVE AckSeq(toBroker')
      BY <2>1, <2>2, <2>3, AckedAppend
    <2> QED BY <2>2, <2>3
  <1>3. TypesInv'
    BY <1>1, <1>2 DEF AckInv, TypesInv
  <1>4. WhereInv'
    BY <1>1 DEF AckInv, WhereInv, FreshSocket
  <1>5. Distinct'
    BY DEF AckInv, Distinct, Pushed
  <1> QED BY <1>3, <1>4, <1>5 DEF AckInv, LiveInv

\* A connection starts with the CONNECT and nothing else.
LEMMA Opens ==
  ASSUME AckInv, ~session', txq' = <<ConnectPkt>>, partial' = <<>>, rx' = <<>>,
         toBroker' = <<>>, toClient' = <<>>, UNCHANGED <<acks, unacked, left, setup>>,
         state' = "connecting", pc' \in {"idle", "deadlines"}
  PROVE  AckInv'
  <1>1. AckSeq(<<>>) /\ DeliverySeq(<<>>) /\ \A t : ~Has(<<>>, t)
    BY AckedEmpty, DeliveredEmpty, HasFew
  <1>2. ConnectPkt.type = "connect"
    BY DEF ConnectPkt
  <1> DEFINE q == <<ConnectPkt>>
  <1>3. \A t : Has(q, t) <=> ConnectPkt.type = t
    BY HasFew, Zenon
  <1>4. AckSeq(q)
    <2>1. AckOf(ConnectPkt) = <<>> /\ AckOf(ConnectPkt) \in Seq(Nat)
      BY <1>2 DEF AckOf
    <2> QED BY <2>1, AckedSingle
  <1>5. Tail(q) = <<>>
    OBVIOUS
  <1>6. Collected' = <<>>
    BY DEF Collected
  <1>7. txq' = q
    OBVIOUS
  <1> HIDE DEF q
  <1>8. TypesInv'
    BY <1>1, <1>4, <1>7 DEF AckInv, TypesInv, States
  <1>9. WhereInv'
    BY <1>1, <1>2, <1>3, <1>7 DEF AckInv, WhereInv, FreshSocket
  <1>10. ConnectFirst' /\ QuietBefore' /\ ConnackFirst' /\ Conserved'
    BY <1>1, <1>2, <1>3, <1>5, <1>6, <1>7
    DEF ConnectFirst, QuietBefore, ConnackFirst, Conserved
  <1>11. Distinct'
    BY DEF AckInv, Distinct, Pushed
  <1> QED BY <1>8, <1>9, <1>10, <1>11 DEF AckInv, LiveInv

\* A received part of what is on its way, and the rest.
LEMMA SplitFacts ==
  ASSUME NEW q, DeliverySeq(q), NEW n \in 1..Len(q)
  PROVE  LET a == SubSeq(q, 1, n) b == SubSeq(q, n + 1, Len(q)) IN
         /\ a # <<>> /\ Head(a) = Head(q) /\ q # <<>>
         /\ \A t : (Has(a, t) => Has(q, t)) /\ (Has(b, t) => Has(q, t))
  <1> DEFINE a == SubSeq(q, 1, n)
             b == SubSeq(q, n + 1, Len(q))
  <1>01. q \in Seq(Elements(q)) /\ DOMAIN q = 1..Len(q) /\ Len(q) \in Nat
    BY DEF DeliverySeq
  <1>02. /\ DOMAIN a = 1..n /\ Len(a) = n /\ Head(q) = q[1] /\ Head(a) = a[1] /\ 1 \in 1..n
        /\ \A k \in 1..n : a[k] = q[k] /\ k \in 1..Len(q)
    BY <1>01
  <1>03. /\ DOMAIN b = 1..(Len(q) - n)
        /\ \A k \in 1..(Len(q) - n) : b[k] = q[n + k] /\ n + k \in 1..Len(q)
    BY <1>01
  <1>1. /\ DOMAIN q = 1..Len(q) /\ Len(q) \in Nat
        /\ DOMAIN a = 1..n /\ DOMAIN b = 1..(Len(q) - n) /\ Len(a) = n
        /\ \A k \in 1..n : a[k] = q[k] /\ k \in 1..Len(q)
        /\ \A k \in 1..(Len(q) - n) : b[k] = q[n + k] /\ n + k \in 1..Len(q)
        /\ Head(q) = q[1] /\ Head(a) = a[1] /\ 1 \in 1..n
    BY <1>01, <1>02, <1>03
  <1>2. a # <<>> /\ q # <<>>
    BY <1>1
  <1> HIDE DEF a, b
  <1>3. Head(a) = Head(q)
    BY <1>1
  <1>4. \A t : (Has(a, t) => Has(q, t)) /\ (Has(b, t) => Has(q, t))
    <2>1. ASSUME NEW t, Has(a, t) PROVE Has(q, t)
      BY <1>1, <2>1 DEF Has
    <2>2. ASSUME NEW t, Has(b, t) PROVE Has(q, t)
      BY <1>1, <2>2 DEF Has
    <2> QED BY <2>1, <2>2
  <1>5. /\ a # <<>> /\ Head(a) = Head(q) /\ q # <<>>
        /\ \A t : (Has(a, t) => Has(q, t)) /\ (Has(b, t) => Has(q, t))
    BY <1>2, <1>3, <1>4
  <1> QED BY <1>5 DEF a, b

\* Packets of the peer reach the decoder.
LEMMA Receives ==
  ASSUME AckInv, NEW n \in 1..Len(toClient), rx' = rx \o SubSeq(toClient, 1, n),
         toClient' = SubSeq(toClient, n + 1, Len(toClient)), acks' = <<>>, sock,
         UNCHANGED <<sock, link, toBroker, unacked, left, setup, txq, partial, state>>,
         session' <=> session, pc = "recv", pc' = "dispatch"
  PROVE  AckInv'
  <1> DEFINE a == SubSeq(toClient, 1, n)
             b == SubSeq(toClient, n + 1, Len(toClient))
             r == rx \o a
  <1>1. /\ DeliverySeq(a) /\ DeliverySeq(b)
        /\ Delivered(toClient) = Then(Delivered(a), Delivered(b))
        /\ a # <<>> /\ Head(a) = Head(toClient) /\ toClient # <<>>
        /\ \A t : (Has(a, t) => Has(toClient, t)) /\ (Has(b, t) => Has(toClient, t))
    <2>1. DeliverySeq(toClient)
      BY DEF AckInv, TypesInv
    <2>2. DeliverySeq(a) /\ DeliverySeq(b) /\ Delivered(toClient) = Delivered(a) \o Delivered(b)
      BY <2>1, DeliveredSplit
    <2>3. /\ a # <<>> /\ Head(a) = Head(toClient) /\ toClient # <<>>
          /\ \A t : (Has(a, t) => Has(toClient, t)) /\ (Has(b, t) => Has(toClient, t))
      BY <2>1, SplitFacts
    <2>4. Delivered(toClient) = Then(Delivered(a), Delivered(b))
      BY <2>2, Zenon DEF Then
    <2> QED BY <2>2, <2>3, <2>4
  <1>2. /\ rx' = r /\ toClient' = b /\ acks' = <<>>
        /\ UNCHANGED <<sock, link, toBroker, unacked, left, setup, txq, partial, state>>
        /\ (session' <=> session) /\ pc = "recv" /\ pc' = "dispatch"
    OBVIOUS
  <1> HIDE DEF a, b
  <1>3. /\ DeliverySeq(r) /\ Delivered(r) = Then(Delivered(rx), Delivered(a))
        /\ \A t : Has(r, t) <=> Has(rx, t) \/ Has(a, t)
        /\ rx # <<>> => Head(r) = Head(rx)
        /\ rx = <<>> => Head(r) = Head(a)
        /\ r # <<>>
    <2>1. DeliverySeq(rx) /\ rx \in Seq(Elements(rx)) /\ a \in Seq(Elements(a))
      BY <1>1 DEF AckInv, TypesInv, DeliverySeq
    <2>2. DeliverySeq(r) /\ Delivered(r) = Delivered(rx) \o Delivered(a)
      BY <1>1, <2>1, DeliveredConcat
    <2>3. Delivered(r) = Then(Delivered(rx), Delivered(a))
      BY <2>2, Zenon DEF Then
    <2>4. /\ \A t : Has(r, t) <=> Has(rx, t) \/ Has(a, t)
          /\ rx # <<>> => Head(r) = Head(rx)
          /\ rx = <<>> => r = a
      BY <2>1, HasConcat
    <2>5. r # <<>>
      <3>1. Len(r) = Len(rx) + Len(a) /\ Len(rx) \in Nat /\ Len(a) \in Nat /\ Len(a) # 0
        BY <1>1, <2>1
      <3> QED BY <3>1
    <2> QED BY <2>2, <2>3, <2>4, <2>5
  <1>4. Collected = Nothing /\ Collected' = Nothing /\ Nothing = <<>> /\ <<>> \in Seq(Nat)
    BY DEF Collected, Nothing
  <1> HIDE DEF r
  <1>5. TypesInv'
    BY <1>1, <1>2, <1>3, <1>4 DEF AckInv, TypesInv
  <1>6. WhereInv'
    BY <1>2 DEF AckInv, WhereInv, FreshSocket
  <1>7. ASSUME link = "up" PROVE ConnectFirst' /\ QuietBefore' /\ ConnackFirst' /\ Conserved'
    <2>0. TypesInv /\ ConnectFirst /\ QuietBefore /\ ConnackFirst /\ Conserved
      BY <1>7 DEF AckInv, LiveInv
    <2>1. ConnectFirst'
      BY <1>2, <2>0 DEF ConnectFirst
    <2>2. QuietBefore'
      BY <1>1, <1>2, <1>3, <1>4, <2>0 DEF QuietBefore
    <2>3. ConnackFirst'
      BY <1>1, <1>2, <1>3, <2>0 DEF ConnackFirst
    <2>4. Conserved'
      <3>1. Reading' => Reading
        BY <1>2 DEF Reading
      <3>2. Owed' = Owed
        <4> DEFINE A == Acked(toBroker)
                   B == Acked(partial)
                   C == Acked(txq)
                   E == Delivered(rx)
                   F == Delivered(b)
                   H == Delivered(a)
        <4>1. A \in Seq(Nat) /\ B \in Seq(Nat) /\ C \in Seq(Nat) /\ E \in Seq(Nat)
              /\ F \in Seq(Nat) /\ H \in Seq(Nat) /\ Nothing \in Seq(Nat)
          BY <1>1, <2>0, OwedParts, DeliveredType, ThenFacts
        <4>2. Owed = Six(A, B, C, Nothing, E, Then(H, F))
          BY <1>1, <1>4, Zenon DEF Owed
        <4>3. Owed' = Six(A, B, C, Nothing, Then(E, H), F)
          BY <1>2, <1>3, <1>4 DEF Owed
        <4> HIDE DEF A, B, C, E, F, H
        <4>4. Six(A, B, C, Nothing, E, Then(H, F)) = Six(A, B, C, Nothing, Then(E, H), F)
          <5> DEFINE p == Then(Then(Then(A, B), C), Nothing)
          <5>1. p \in Seq(Nat)
            BY <4>1, ThenFacts
          <5>2. Then(Then(p, E), Then(H, F)) = Then(Then(p, Then(E, H)), F)
            BY <4>1, <5>1, Moved
          <5> QED BY <5>2, Zenon DEF Six
        <4> QED BY <4>2, <4>3, <4>4
      <3> QED BY <1>2, <2>0, <3>1, <3>2 DEF Conserved
    <2> QED BY <2>1, <2>2, <2>3, <2>4
  <1>8. Distinct'
    BY <1>2 DEF AckInv, Distinct, Pushed
  <1> QED BY <1>2, <1>5, <1>6, <1>7, <1>8 DEF AckInv, LiveInv

-----------------------------------------------------------------------------
(* The broker                                                              *)

DeliversNothing(r) == DeliverySeq(r) /\ ~Has(r, "publish") /\ ~Has(r, "oversized")

\* What the peer appends to the packets on their way to the client.
LEMMA ReplyFacts ==
  ASSUME NEW q, NEW r, DeliverySeq(q), DeliverySeq(r)
  PROVE  /\ DeliverySeq(q \o r) /\ Delivered(q \o r) = Then(Delivered(q), Delivered(r))
         /\ \A t : Has(q \o r, t) <=> Has(q, t) \/ Has(r, t)
         /\ q # <<>> => q \o r # <<>> /\ Head(q \o r) = Head(q)
         /\ q = <<>> => q \o r = r
         /\ DeliversNothing(r) => Delivered(q \o r) = Delivered(q)
  <1>1. q \in Seq(Elements(q)) /\ r \in Seq(Elements(r))
    BY DEF DeliverySeq
  <1>2. DeliverySeq(q \o r) /\ Delivered(q \o r) = Delivered(q) \o Delivered(r)
    BY DeliveredConcat
  <1>3. Delivered(q \o r) = Then(Delivered(q), Delivered(r))
    BY <1>2, Zenon DEF Then
  <1>4. /\ \A t : Has(q \o r, t) <=> Has(q, t) \/ Has(r, t)
        /\ q # <<>> => Head(q \o r) = Head(q)
        /\ q = <<>> => q \o r = r
    BY <1>1, HasConcat
  <1>5. q # <<>> => q \o r # <<>>
    <2>1. Len(q \o r) = Len(q) + Len(r) /\ Len(q) \in Nat /\ Len(r) \in Nat
          /\ (q # <<>> => Len(q) # 0)
      BY <1>1
    <2> QED BY <2>1
  <1>6. DeliversNothing(r) => Delivered(q \o r) = Delivered(q)
    <2>1. DeliversNothing(r) => Delivered(r) = Nothing
      BY DeliveredNone DEF DeliversNothing, Nothing
    <2>2. Then(Delivered(q), Nothing) = Delivered(q)
      BY DeliveredType, ThenFacts
    <2> QED BY <1>3, <2>1, <2>2
  <1> QED BY <1>2, <1>3, <1>4, <1>5, <1>6

\* The client and the network stand still while the broker reads.
Serves == UNCHANGED <<sock, link, state, pc, txq, partial, rx, acks, setup>>

\* The broker answers a packet that neither opens a session nor acknowledges.
LEMMA Answers ==
  ASSUME AckInv, toBroker # <<>>, toBroker' = Tail(toBroker), Head(toBroker).type # "pubacks",
         Serves, session' <=> session, unacked' = unacked, pc = "idle",
         left'["pushes"] = left["pushes"], DOMAIN left' = DOMAIN left,
         NEW r, DeliversNothing(r), toClient' = (IF link = "up" THEN toClient \o r ELSE toClient),
         session \/ (r # <<>> /\ Head(r).type = "connack")
  PROVE  AckInv'
  <1> DEFINE B == Tail(toBroker)
             C == toClient \o r
  <1>1. /\ AckSeq(B) /\ Acked(toBroker) = Acked(B)
        /\ \A t : Has(B, t) => Has(toBroker, t)
    BY HeadTail DEF AckInv, TypesInv
  <1>2. /\ DeliverySeq(C) /\ Delivered(C) = Delivered(toClient)
        /\ \A t : Has(C, t) <=> Has(toClient, t) \/ Has(r, t)
        /\ toClient # <<>> => C # <<>> /\ Head(C) = Head(toClient)
        /\ toClient = <<>> => C = r
    BY ReplyFacts DEF AckInv, TypesInv, DeliversNothing
  <1>3. /\ toBroker' = B /\ (link = "up" => toClient' = C) /\ (link # "up" => toClient' = toClient)
        /\ UNCHANGED <<sock, link, state, pc, txq, partial, rx, acks, setup, unacked>>
    BY DEF Serves
  <1>4. Collected' = Collected
    BY <1>3 DEF Collected
  <1>5. Has(B, "connect") => Has(Tail(toBroker), "connect")
    OBVIOUS
  <1> HIDE DEF B, C
  <1>6. TypesInv'
    BY <1>1, <1>2, <1>3 DEF AckInv, TypesInv
  <1>7. WhereInv'
    BY <1>3 DEF AckInv, WhereInv, FreshSocket
  <1>8. ASSUME link = "up" PROVE ConnectFirst' /\ QuietBefore' /\ ConnackFirst' /\ Conserved'
    <2>0. TypesInv /\ ConnectFirst /\ QuietBefore /\ ConnackFirst /\ Conserved
      BY <1>8 DEF AckInv, LiveInv
    <2>1. ConnectFirst'
      BY <1>1, <1>3, <1>5, <2>0 DEF ConnectFirst
    <2>2. QuietBefore'
      BY <1>1, <1>2, <1>3, <1>4, <1>8, <2>0 DEF QuietBefore, DeliversNothing
    <2>3. ConnackFirst'
      BY <1>2, <1>3, <1>8, <2>0 DEF ConnackFirst
    <2>4. Conserved'
      <3>1. Reading' => Reading
        BY <1>3 DEF Reading
      <3>2. Owed' = Owed
        BY <1>1, <1>2, <1>3, <1>4, <1>8 DEF Owed
      <3> QED BY <1>3, <2>0, <3>1, <3>2 DEF Conserved
    <2> QED BY <2>1, <2>2, <2>3, <2>4
  <1>9. Distinct'
    <2>1. left'.pushes = left.pushes
      OBVIOUS
    <2> QED BY <1>3, <2>1 DEF AckInv, Distinct, Pushed
  <1> QED BY <1>3, <1>6, <1>7, <1>8, <1>9 DEF AckInv, LiveInv

\* The session starts with what the broker still waits for, sent again.
LEMMA Starts ==
  ASSUME AckInv, toBroker # <<>>, toBroker' = Tail(toBroker), Head(toBroker).type = "connect",
         Serves, session', pc = "idle", left' = left,
         unacked' = unacked \/ unacked' = <<>>, NEW present,
         toClient' = IF link = "up" THEN toClient \o (<<Connack("accepted", present)>>
                                        \o [k \in DOMAIN unacked' |-> Delivery(unacked'[k])])
                     ELSE toClient
  PROVE  AckInv'
  <1> DEFINE B == Tail(toBroker)
             h == Connack("accepted", present)
             D == [k \in DOMAIN unacked' |-> Delivery(unacked'[k])]
             R == <<h>> \o D
             C == toClient \o R
  <1>1. /\ AckSeq(B) /\ Acked(toBroker) = Acked(B)
        /\ \A t : Has(B, t) => Has(toBroker, t)
        /\ Has(toBroker, "connect")
    BY HeadTail DEF AckInv, TypesInv
  <1>u. unacked' \in Seq(Nat) /\ \A k \in DOMAIN unacked' : unacked'[k] \in 1..Pushed
    <2>1. <<>> \in Seq(Nat) /\ DOMAIN <<>> = {}
      OBVIOUS
    <2>2. unacked \in Seq(Nat) /\ \A k \in DOMAIN unacked : unacked[k] \in 1..Pushed
      BY DEF AckInv, TypesInv, Distinct
    <2> QED BY <2>1, <2>2
  <1>z. \A k \in DOMAIN unacked' : unacked'[k] # 0
    BY <1>u DEF AckInv, Distinct, Pushed
  <1>d. DeliverySeq(D) /\ Delivered(D) = unacked'
    BY <1>u, <1>z, DeliveredBack
  <1>h. h.type = "connack"
    BY DEF Connack
  <1>hd. DeliveryOf(h) = <<>> /\ <<>> \in Seq(Nat)
    BY <1>h DEF DeliveryOf
  <1> HIDE DEF h, D
  <1>p. DeliverySeq(<<h>>) /\ Delivered(<<h>>) = <<>> /\ \A t : Has(<<h>>, t) <=> h.type = t
    BY <1>hd, DeliveredSingle, HasFew
  <1>q. Head(<<h>>) = h /\ <<h>> # <<>>
    OBVIOUS
  <1>r. /\ DeliverySeq(R) /\ Delivered(R) = unacked' /\ R # <<>> /\ Head(R) = h
    <2>1. /\ DeliverySeq(R) /\ Delivered(R) = Then(Delivered(<<h>>), Delivered(D))
          /\ R # <<>> /\ Head(R) = Head(<<h>>)
      BY <1>d, <1>p, <1>q, ReplyFacts
    <2>2. Then(Nothing, unacked') = unacked'
      BY <1>u, ThenFacts
    <2> QED BY <1>d, <1>p, <1>q, <2>1, <2>2 DEF Nothing
  <1>s. /\ toBroker' = B /\ (link = "up" => toClient' = toClient \o R)
        /\ (link # "up" => toClient' = toClient)
        /\ UNCHANGED <<sock, link, state, pc, txq, partial, rx, acks, setup>>
    BY DEF Serves, D, h
  <1> HIDE DEF R
  <1>2. /\ DeliverySeq(C) /\ Delivered(C) = Then(Delivered(toClient), unacked')
        /\ toClient # <<>> => C # <<>> /\ Head(C) = Head(toClient)
        /\ toClient = <<>> => C = R
    BY <1>r, ReplyFacts DEF AckInv, TypesInv
  <1>3. (link = "up" => toClient' = C)
    BY <1>s
  <1>4. Collected' = Collected
    BY <1>s DEF Collected
  <1>5. Has(B, "connect") => Has(Tail(toBroker), "connect")
    OBVIOUS
  <1> HIDE DEF B, C
  <1>6. TypesInv'
    BY <1>1, <1>2, <1>3, <1>s, <1>u DEF AckInv, TypesInv
  <1>7. WhereInv'
    BY <1>s DEF AckInv, WhereInv, FreshSocket
  <1>8. ASSUME link = "up" PROVE ConnectFirst' /\ QuietBefore' /\ ConnackFirst' /\ Conserved'
    <2>0. TypesInv /\ ConnectFirst /\ QuietBefore /\ ConnackFirst /\ Conserved
      BY <1>8 DEF AckInv, LiveInv
    <2>s. ~session
      BY <1>1, <2>0 DEF ConnectFirst
    <2>1. ConnectFirst'
      BY <1>1, <1>s, <1>5, <2>0 DEF ConnectFirst
    <2>2. QuietBefore'
      BY DEF QuietBefore
    <2>3. ConnackFirst'
      BY <1>2, <1>3, <1>s, <1>r, <1>h, <1>8, <2>0 DEF ConnackFirst
    <2>4. Conserved'
      <3>1. /\ Acked(toBroker) = Nothing /\ Acked(partial) = Nothing /\ Acked(txq) = Nothing
            /\ Collected = Nothing /\ Delivered(rx) = Nothing /\ Delivered(toClient) = Nothing
        BY <2>0, <2>s, AckedNone, DeliveredNone DEF QuietBefore, TypesInv, Nothing
      <3>2. Then(Nothing, unacked') = unacked'
        BY <1>u, ThenFacts
      <3>3. Owed' = Six(Nothing, Nothing, Nothing, Nothing, Nothing, Then(Nothing, unacked'))
        BY <1>1, <1>2, <1>3, <1>4, <1>s, <1>8, <3>1 DEF Owed
      <3>4. Then(Nothing, Nothing) = Nothing
        BY ThenFacts
      <3>5. Owed' = unacked'
        BY <3>2, <3>3, <3>4, Zenon DEF Six
      <3> QED BY <3>5 DEF Conserved
    <2> QED BY <2>1, <2>2, <2>3, <2>4
  <1>9. Distinct'
    <2>1. NoTwice(<<>>) /\ DOMAIN <<>> = {}
      BY DEF NoTwice
    <2>2. NoTwice(unacked')
      BY <2>1 DEF AckInv, Distinct
    <2> QED BY <1>u, <1>s, <2>2 DEF AckInv, Distinct, Pushed
  <1> QED BY <1>s, <1>6, <1>7, <1>8, <1>9 DEF AckInv, LiveInv

\* No id is in both parts of a sequence without repetition.
LEMMA DistinctParts ==
  ASSUME NEW a \in Seq(Nat), NEW b \in Seq(Nat), NoTwice(a \o b)
  PROVE  \A k \in 1..Len(b) : b[k] \notin Elements(a)
  <1> SUFFICES ASSUME NEW k \in 1..Len(b), NEW j \in DOMAIN a, b[k] = a[j] PROVE FALSE
    BY Zenon DEF Elements
  <1> DEFINE s == a \o b
  <1>1. /\ DOMAIN s = 1..(Len(a) + Len(b)) /\ DOMAIN a = 1..Len(a)
        /\ Len(a) \in Nat /\ Len(b) \in Nat
        /\ s[j] = a[j] /\ s[Len(a) + k] = b[k]
    OBVIOUS
  <1>2. j \in DOMAIN s /\ Len(a) + k \in DOMAIN s /\ j # Len(a) + k
    BY <1>1
  <1>3. s[j] = s[Len(a) + k]
    BY <1>1
  <1> HIDE DEF s
  <1>4. NoTwice(s)
    BY DEF s
  <1> QED BY <1>2, <1>3, <1>4 DEF NoTwice

\* The broker reads a batch of acknowledgements.
LEMMA Acknowledged ==
  ASSUME AckInv, toBroker # <<>>, toBroker' = Tail(toBroker), Head(toBroker).type = "pubacks",
         Serves, session, session' <=> session, pc = "idle", UNCHANGED <<left, toClient>>,
         unacked' = Unacknowledged(unacked, Elements(Head(toBroker).ids))
  PROVE  AckInv'
  <1> DEFINE B == Tail(toBroker)
             s == Head(toBroker).ids
             N == Elements(s)
  <1>1. /\ AckSeq(B) /\ s \in Seq(Nat) /\ Acked(toBroker) = Then(s, Acked(B))
        /\ \A t : Has(B, t) => Has(toBroker, t)
    <2>1. AckOf(Head(toBroker)) = s
      BY DEF AckOf
    <2> QED BY <2>1, HeadTail DEF AckInv, TypesInv
  <1>3. /\ toBroker' = B /\ unacked' = Unacknowledged(unacked, N) /\ (session' <=> session)
        /\ UNCHANGED <<sock, link, state, pc, txq, partial, rx, acks, setup, left, toClient>>
    BY DEF Serves
  <1>4. Collected' = Collected
    BY <1>3 DEF Collected
  <1>5. Has(B, "connect") => Has(Tail(toBroker), "connect")
    OBVIOUS
  <1>u. /\ unacked \in Seq(Nat) /\ NoTwice(unacked)
        /\ \A k \in DOMAIN unacked : unacked[k] \in 1..Pushed
    BY DEF AckInv, TypesInv, Distinct
  <1> HIDE DEF B, N
  <1>v. /\ unacked' \in Seq(Nat) /\ NoTwice(unacked')
        /\ Elements(unacked') \subseteq Elements(unacked)
    BY <1>3, <1>u, KeptList, KeptNoTwice
  <1>6. TypesInv'
    BY <1>1, <1>3, <1>v DEF AckInv, TypesInv
  <1>7. WhereInv'
    BY <1>3 DEF AckInv, WhereInv, FreshSocket
  <1>8. ASSUME link = "up" PROVE ConnectFirst' /\ QuietBefore' /\ ConnackFirst' /\ Conserved'
    <2>0. TypesInv /\ ConnectFirst /\ QuietBefore /\ ConnackFirst /\ Conserved
      BY <1>8 DEF AckInv, LiveInv
    <2>1. ConnectFirst'
      BY <1>1, <1>3, <1>5, <2>0 DEF ConnectFirst
    <2>2. QuietBefore'
      BY <1>3 DEF QuietBefore
    <2>3. ConnackFirst'
      BY <1>3, <2>0 DEF ConnackFirst
    <2>4. Conserved'
      <3> SUFFICES ASSUME Reading' PROVE unacked' = Owed'
        BY DEF Conserved
      <3>1. unacked = Owed
        BY <1>3, <2>0 DEF Conserved, Reading
      <3> DEFINE a == Acked(B)
                 b == Acked(partial)
                 c == Acked(txq)
                 d == Collected
                 e == Delivered(rx)
                 f == Delivered(toClient)
                 w == Six(a, b, c, d, e, f)
      <3>2. a \in Seq(Nat) /\ b \in Seq(Nat) /\ c \in Seq(Nat) /\ d \in Seq(Nat)
            /\ e \in Seq(Nat) /\ f \in Seq(Nat)
        BY <1>1, <2>0, OwedParts, AckedType
      <3>3. Owed = Six(Then(s, a), b, c, d, e, f)
        BY <1>1, Zenon DEF Owed
      <3>4. Owed' = w
        BY <1>3, <1>4 DEF Owed
      <3> HIDE DEF a, b, c, d, e, f, s
      <3>5. Six(Then(s, a), b, c, d, e, f) = Then(s, w)
        <4> DEFINE ab == Then(a, b)
                   abc == Then(ab, c)
                   abcd == Then(abc, d)
                   abcde == Then(abcd, e)
        <4>1. ab \in Seq(Nat) /\ abc \in Seq(Nat) /\ abcd \in Seq(Nat) /\ abcde \in Seq(Nat)
              /\ s \in Seq(Nat)
          BY <1>1, <3>2, ThenFacts
        <4>2. /\ Then(Then(s, a), b) = Then(s, ab) /\ Then(Then(s, ab), c) = Then(s, abc)
              /\ Then(Then(s, abc), d) = Then(s, abcd) /\ Then(Then(s, abcd), e) = Then(s, abcde)
              /\ Then(Then(s, abcde), f) = Then(s, Then(abcde, f))
          BY <3>2, <4>1, ThenFacts
        <4> QED BY <4>2, Zenon DEF Six
      <3>6. w \in Seq(Nat)
        BY <3>2, SixType
      <3> HIDE DEF w
      <3>7. unacked = s \o w
        BY <3>1, <3>3, <3>5, Zenon DEF Then
      <3>8. \A k \in 1..Len(w) : w[k] \notin N
        BY <1>1, <1>u, <3>6, <3>7, DistinctParts DEF N
      <3>9. \A k \in 1..Len(s) : s[k] \in N
        <4>1. DOMAIN s = 1..Len(s)
          BY <1>1
        <4> QED BY <4>1 DEF N, Elements
      <3>10. Unacknowledged(s \o w, N) = w
        BY <1>1, <3>6, <3>8, <3>9, KeptRest
      <3> QED BY <1>3, <3>4, <3>7, <3>10
    <2> QED BY <2>1, <2>2, <2>3, <2>4
  <1>9. Distinct'
    <2>1. \A k \in DOMAIN unacked' : unacked'[k] \in 1..Pushed
      BY <1>u, <1>v, Zenon DEF Elements
    <2> QED BY <1>3, <1>v, <2>1 DEF AckInv, Distinct, Pushed
  <1> QED BY <1>3, <1>6, <1>7, <1>8, <1>9 DEF AckInv, LiveInv

\* A message for the client, under an id the broker has not used before.
LEMMA Pushes ==
  ASSUME AckInv, NEW kind \in {"publish", "oversized"}, NEW id \in {0, Pushed + 1},
         link = "up", session, session' <=> session, left["pushes"] > 0,
         left' = [left EXCEPT !["pushes"] = @ - 1], Serves, toBroker' = toBroker,
         toClient' = Append(toClient, [type |-> kind, id |-> id]),
         unacked' = IF id = 0 THEN unacked ELSE Append(unacked, id)
  PROVE  AckInv'
  <1> DEFINE p == [type |-> kind, id |-> id]
             C == Append(toClient, p)
             k == IF id = 0 THEN <<>> ELSE <<id>>
  <1>0. /\ Pushed \in Nat /\ setup.pushes \in Nat /\ left.pushes \in 1..setup.pushes
        /\ DOMAIN left = {"faults", "rejections", "pushes"}
        /\ unacked \in Seq(Nat) /\ DeliverySeq(toClient)
        /\ NoTwice(unacked) /\ \A j \in DOMAIN unacked : unacked[j] \in 1..Pushed
    BY DEF AckInv, TypesInv, Distinct, Pushed
  <1>1. left'.pushes = left.pushes - 1 /\ DOMAIN left' = DOMAIN left
    BY <1>0
  <1>k. id \in Nat /\ k \in Seq(Nat) /\ DeliveryOf(p) = k
    <2>1. p.type = kind /\ p.id = id /\ id \in Nat
      BY <1>0
    <2>2. <<>> \in Seq(Nat) /\ (id # 0 => <<id>> \in Seq(Nat))
      BY <2>1
    <2> QED BY <2>1, <2>2 DEF DeliveryOf
  <1>3. /\ toClient' = C /\ toBroker' = toBroker /\ (session' <=> session) /\ session
        /\ UNCHANGED <<sock, link, state, pc, txq, partial, rx, acks, setup>>
        /\ link = "up"
    BY DEF Serves
  <1>4. Collected' = Collected
    BY <1>3 DEF Collected
  <1>c. /\ DeliverySeq(C) /\ Delivered(C) = Then(Delivered(toClient), k)
        /\ C # <<>> /\ (toClient # <<>> => Head(C) = Head(toClient))
    <2>1. DeliverySeq(C) /\ Delivered(C) = Delivered(toClient) \o k
      <3> HIDE DEF p, k
      <3> QED BY <1>0, <1>k, DeliveredAppend
    <2>2. Delivered(C) = Then(Delivered(toClient), k)
      BY <2>1, Zenon DEF Then
    <2>3. C # <<>> /\ (toClient # <<>> => Head(C) = Head(toClient))
      <3> HIDE DEF p
      <3>1. toClient \in Seq(Elements(toClient) \cup {p})
        BY <1>0 DEF DeliverySeq
      <3> DEFINE S == Elements(toClient) \cup {p}
      <3>2. p \in S /\ toClient \in Seq(S)
        BY <3>1
      <3> HIDE DEF S
      <3> QED BY <3>2
    <2> QED BY <2>1, <2>2, <2>3
  <1>u. unacked' \in Seq(Nat) /\ unacked' = Then(unacked, k)
    <2>1. CASE id = 0
      <3>1. unacked \o <<>> = unacked
        BY <1>0
      <3> QED BY <1>0, <2>1, <3>1 DEF Then
    <2>2. CASE id # 0
      <3>1. Append(unacked, id) = unacked \o <<id>> /\ Append(unacked, id) \in Seq(Nat)
        BY <1>0, <1>k
      <3> QED BY <2>2, <3>1 DEF Then
    <2> QED BY <2>1, <2>2
  <1>9. Distinct'
    <2>1. Pushed' = Pushed + 1 /\ left'.pushes \in 0..setup.pushes
      BY <1>0, <1>1, <1>3 DEF Pushed
    <2>2. CASE id = 0
      BY <1>0, <1>1, <1>3, <2>1, <2>2 DEF Distinct
    <2>3. CASE id # 0
      <3> DEFINE n == Len(unacked)
      <3>1. /\ unacked' = Append(unacked, id) /\ id = Pushed + 1
            /\ DOMAIN unacked = 1..n /\ n \in Nat
            /\ DOMAIN unacked' = 1..(n + 1) /\ unacked'[n + 1] = id
            /\ \A j \in 1..n : unacked'[j] = unacked[j]
        BY <1>0, <2>3
      <3> HIDE DEF n
      <3>2. \A j \in 1..(n + 1) : j \in 1..n \/ j = n + 1
        BY <3>1
      <3>3. \A j \in DOMAIN unacked' : unacked'[j] \in 1..(Pushed + 1)
        BY <1>0, <3>1, <3>2
      <3>4. NoTwice(unacked')
        <4> SUFFICES ASSUME NEW i \in 1..(n + 1), NEW j \in 1..(n + 1), unacked'[i] = unacked'[j]
                     PROVE  i = j
          BY <3>1 DEF NoTwice
        <4>1. CASE i \in 1..n /\ j \in 1..n
          BY <1>0, <3>1, <4>1 DEF NoTwice
        <4>2. CASE i \in 1..n /\ j = n + 1
          BY <1>0, <3>1, <4>2
        <4>3. CASE i = n + 1 /\ j \in 1..n
          <5>1. unacked[j] \in 1..Pushed /\ unacked'[j] = unacked[j] /\ unacked'[i] = Pushed + 1
            BY <1>0, <3>1, <4>3
          <5>2. \A x \in 1..Pushed : x # Pushed + 1
            BY <1>0
          <5> QED BY <5>1, <5>2, Zenon
        <4>4. CASE i = n + 1 /\ j = n + 1
          BY <4>4
        <4> QED BY <3>2, <4>1, <4>2, <4>3, <4>4
      <3> QED BY <1>0, <1>1, <1>3, <2>1, <3>3, <3>4 DEF Distinct
    <2> QED BY <2>2, <2>3
  <1> HIDE DEF p, C, k
  <1>6. TypesInv'
    BY <1>c, <1>3, <1>u DEF AckInv, TypesInv
  <1>7. WhereInv'
    BY <1>3 DEF AckInv, WhereInv, FreshSocket
  <1>8. ConnectFirst' /\ QuietBefore' /\ ConnackFirst' /\ Conserved'
    <2>0. TypesInv /\ ConnectFirst /\ QuietBefore /\ ConnackFirst /\ Conserved
      BY DEF AckInv, LiveInv
    <2>1. ConnectFirst'
      BY <1>3, <2>0 DEF ConnectFirst
    <2>2. QuietBefore'
      BY <1>3 DEF QuietBefore
    <2>3. ConnackFirst'
      BY <1>3, <1>c, <2>0 DEF ConnackFirst
    <2>4. Conserved'
      <3> SUFFICES ASSUME Reading' PROVE unacked' = Owed'
        BY DEF Conserved
      <3>1. unacked = Owed
        BY <1>3, <2>0 DEF Conserved, Reading
      <3> DEFINE a == Acked(toBroker)
                 b == Acked(partial)
                 c == Acked(txq)
                 d == Collected
                 e == Delivered(rx)
                 f == Delivered(toClient)
      <3>2. a \in Seq(Nat) /\ b \in Seq(Nat) /\ c \in Seq(Nat) /\ d \in Seq(Nat)
            /\ e \in Seq(Nat) /\ f \in Seq(Nat) /\ k \in Seq(Nat)
        BY <1>k, <2>0, OwedParts
      <3>3. Owed = Six(a, b, c, d, e, f)
        BY Zenon DEF Owed
      <3>4. Owed' = Six(a, b, c, d, e, Then(f, k))
        BY <1>3, <1>4, <1>c DEF Owed
      <3> HIDE DEF a, b, c, d, e, f
      <3>5. Then(Six(a, b, c, d, e, f), k) = Six(a, b, c, d, e, Then(f, k))
        <4> DEFINE q == Then(Then(Then(Then(a, b), c), d), e)
        <4>1. q \in Seq(Nat)
          BY <3>2, ThenFacts
        <4>2. Then(Then(q, f), k) = Then(q, Then(f, k))
          BY <3>2, <4>1, ThenFacts
        <4> QED BY <4>2, Zenon DEF Six
      <3> QED BY <1>u, <3>1, <3>3, <3>4, <3>5
    <2> QED BY <2>1, <2>2, <2>3, <2>4
  <1> QED BY <1>3, <1>6, <1>7, <1>8, <1>9 DEF AckInv, LiveInv

\* The network takes the connection away.
LEMMA Breaks ==
  ASSUME AckInv, link = "up", link' # "up", toBroker' = <<>>, toClient' \in {toClient, <<>>},
         UNCHANGED <<sock, state, pc, txq, partial, rx, acks, setup, unacked>>,
         left'["pushes"] = left["pushes"], DOMAIN left' = DOMAIN left, ~session'
  PROVE  AckInv'
  <1>1. AckSeq(<<>>) /\ DeliverySeq(<<>>)
    BY AckedEmpty, DeliveredEmpty
  <1>2. TypesInv'
    BY <1>1 DEF AckInv, TypesInv
  <1>3. WhereInv'
    BY DEF AckInv, WhereInv, FreshSocket
  <1>4. Distinct'
    <2>1. left'.pushes = left.pushes
      OBVIOUS
    <2> QED BY <2>1 DEF AckInv, Distinct, Pushed
  <1> QED BY <1>2, <1>3, <1>4 DEF AckInv, LiveInv

-----------------------------------------------------------------------------
(* Every action of the client                                              *)

\* What a step may add to the queue: nothing, or packets no order depends on.
Queues ==
    \/ txq' = txq
    \/ \E p : PlainPkt(p) /\ txq' = Append(txq, p)
    \/ \E p, r : PlainPkt(p) /\ PlainPkt(r) /\ txq' = txq \o <<p, r>>

\* A step of the client that only queues plain packets.
LEMMA Queued ==
  ASSUME AckInv, Queues, Wire, UNCHANGED <<partial, rx>>, Settles
  PROVE  AckInv'
  <1>1. txq \in Seq(Elements(txq))
    BY DEF AckInv, TypesInv, AckSeq
  <1>2. CASE txq' = txq
    <2>1. txq \o <<>> = txq
      BY <1>1
    <2> QED BY <1>2, <2>1, PlainFew, Writes
  <1>3. ASSUME NEW p, PlainPkt(p), txq' = Append(txq, p) PROVE AckInv'
    <2>1. Append(txq, p) = txq \o <<p>>
      BY <1>1
    <2>2. Plain(<<p>>) /\ txq' = txq \o <<p>>
      BY <1>3, <2>1, PlainFew
    <2> QED BY <2>2, Writes
  <1>4. ASSUME NEW p, NEW r, PlainPkt(p), PlainPkt(r), txq' = txq \o <<p, r>> PROVE AckInv'
    <2>1. Plain(<<p, r>>)
      BY <1>4, PlainFew
    <2> QED BY <1>4, <2>1, Writes
  <1> QED BY <1>2, <1>3, <1>4 DEF Queues

\* The packets that are plain.
LEMMA PlainTypes ==
  /\ PlainPkt(PingReq)
  /\ \A i, m, d : PlainPkt(PublishPkt(i, m, d))
  /\ \A m : PlainPkt(MarkerPkt(m))
  /\ \A i, t : PlainPkt(SubscribePkt(i, t)) /\ PlainPkt(UnsubscribePkt(i, t))
  BY DEF PlainPkt, Marked, PingReq, PublishPkt, MarkerPkt, SubscribePkt, UnsubscribePkt

\* A PUBLISH and its marker are plain.
LEMMA PublishQueues == \A m, q : DoPublish(m, q) => Queues
  <1> SUFFICES ASSUME NEW m, NEW q, DoPublish(m, q) PROVE Queues
    OBVIOUS
  <1>1. CASE q = 0
    BY <1>1, PlainTypes, Zenon DEF DoPublish, Queues
  <1>2. CASE q # 0
    <2>1. PICK i \in Ids : txq' = Append(txq, PublishPkt(i, m, FALSE))
      BY <1>2, Zenon DEF DoPublish
    <2> QED BY <2>1, PlainTypes, Zenon DEF Queues
  <1> QED BY <1>1, <1>2

\* The session goes on unless the link comes up.
LEMMA PeersWire ==
  ASSUME Peers
  PROVE  /\ UNCHANGED <<unacked, left>>
         /\ link' = link => (session' <=> session)
         /\ ~session => ~session'
         /\ link # "up" /\ link' = "up" => ~session'
  BY DEF Peers

\* The state, the place in handle() and the acknowledgements stay.
LEMMA Stays ==
  ASSUME AckInv, UNCHANGED <<state, pc, acks>>, state = "disconnected" => txq' = txq
  PROVE  Settles
  <1>1. Collected' = Collected
    BY DEF Collected
  <1>2. Reading' => Reading
    BY DEF Reading
  <1> QED BY <1>1, <1>2 DEF Settles, AckInv, TypesInv, WhereInv, LiveInv, ConnackFirst

\* handle() catches an error, or fails and goes on to read.
LEMMA Faults1 ==
  ASSUME AckInv, state' = "failed", pc' = "idle", acks' \in {acks, <<>>}
  PROVE  Settles
  BY DEF Settles, Collected, Reading, States

\* A step of the client that moves no packet.
LEMMA Settled ==
  ASSUME AckInv, Settles, Peers, txq' = txq,
         UNCHANGED <<sock, link, toBroker, toClient, setup, partial, rx>>
  PROVE  AckInv'
  BY PeersWire, Queued DEF Queues, Wire

-----------------------------------------------------------------------------
\* The calls of the application keep the invariant ...
LEMMA ApplicationAcks ==
  AckInv /\ IInv /\ NoCallFromNone /\ Application /\ Peers /\ UNCHANGED setup => AckInv'
  <1> SUFFICES ASSUME AckInv, IInv, NoCallFromNone, Application, Peers, UNCHANGED setup
               PROVE  AckInv'
    OBVIOUS
  <1> USE DEF conn, trans, txvars, rxvars, wire
  <1>1. CASE Connect
    <2>1. CASE state = "disconnected" /\ sock
      <3>1. /\ pc = "idle" /\ ~session /\ txq = <<>> /\ partial = <<>> /\ toBroker = <<>>
            /\ rx = <<>> /\ toClient = <<>>
        BY <2>1 DEF AckInv, WhereInv, FreshSocket
      <3>2. /\ txq' = Append(txq, ConnectPkt) /\ state' = "connecting"
            /\ UNCHANGED <<partial, toBroker, rx, toClient, acks, pc>>
        BY <1>1, <2>1 DEF Connect
      <3>3. txq' = <<ConnectPkt>>
        BY <3>1, <3>2
      <3> QED BY <3>1, <3>2, <3>3, PeersWire, Opens
    <2>2. CASE state = "disconnected" /\ ~sock
      <3>1. /\ state' \in {"awaiting_transport", "failed"}
            /\ UNCHANGED <<txq, partial, sock, link, toBroker, rx, toClient, acks, pc>>
        BY <1>1, <2>2 DEF Connect
      <3>2. link # "up" /\ pc # "deadlines"
        BY <2>2 DEF IInv, TransportAgrees, AckInv, WhereInv
      <3>3. Settles
        BY <3>1, <3>2 DEF Settles, States, Collected
      <3> QED BY <3>1, <3>3, Settled
    <2>3. CASE state # "disconnected"
      <3>1. UNCHANGED <<state, txq, partial, sock, link, toBroker, rx, toClient, acks, pc>>
        BY <1>1, <2>3 DEF Connect
      <3> QED BY <3>1, Stays, Settled
    <2> QED BY <2>1, <2>2, <2>3
  <1>2. CASE Hold
    <2>1. UNCHANGED <<state, txq, partial, sock, link, toBroker, rx, toClient, acks, pc>>
      BY <1>2 DEF Hold
    <2> QED BY <2>1, Stays, Settled
  <1>3. CASE Disconnect
    <2>1. /\ ~sock' /\ link' = "none" /\ toClient' = <<>> /\ txq' = <<>> /\ partial' = <<>>
          /\ rx' = <<>> /\ state' = "disconnected" /\ UNCHANGED <<acks, pc>>
          /\ \/ toBroker' = toBroker
             \/ toBroker' = Append(toBroker, DisconnectPkt)
             \/ toBroker' = Append(toBroker, GarbagePkt)
      BY <1>3 DEF Disconnect, CloseSocket, ResetTransient, Deliver
    <2>2. AckOf(DisconnectPkt) = <<>> /\ AckOf(GarbagePkt) = <<>>
      BY DEF AckOf, DisconnectPkt, GarbagePkt
    <2>3. pc # "deadlines"
      BY <1>3 DEF Disconnect, Calls, NoCallFromNone, IInv, ConnInv, NoCallbackYet
    <2>4. state' \in States
      BY <2>1 DEF States
    <2>5. toBroker' = toBroker \/ \E p : AckOf(p) = <<>> /\ toBroker' = Append(toBroker, p)
      BY <2>1, <2>2, Zenon
    <2> QED BY <2>1, <2>3, <2>4, <2>5, PeersWire, Closes
  <1>4. ASSUME NEW q \in {0, 1}, Publish(q) PROVE AckInv'
    <2>1. /\ UNCHANGED <<state, partial, sock, link, toBroker, rx, toClient, acks, pc>>
          /\ state # "connected" => txq' = txq
      BY <1>4 DEF Publish
    <2>2. Queues
      <3>1. CASE DoPublish(published + 1, q)
        BY <3>1, PublishQueues
      <3>2. CASE txq' = txq
        BY <3>2 DEF Queues
      <3> QED BY <1>4, <3>1, <3>2, Zenon DEF Publish, PublishOverflows
    <2> QED BY <2>1, <2>2, Stays, PeersWire, Queued DEF Wire
  <1>5. ASSUME NEW t \in Topics, Subscribe(t) \/ Unsubscribe(t) PROVE AckInv'
    <2>1. /\ UNCHANGED <<state, partial, sock, link, toBroker, rx, toClient, acks, pc>>
          /\ state # "connected" => txq' = txq
      BY <1>5 DEF Subscribe, Unsubscribe
    <2>2. Queues
      BY <1>5, PlainTypes, Zenon DEF Subscribe, Unsubscribe, Queues
    <2> QED BY <2>1, <2>2, Stays, PeersWire, Queued DEF Wire
  <1> QED BY <1>1, <1>2, <1>3, <1>4, <1>5 DEF Application

\* ... the clock, the runner and the transport ...
LEMMA BeginAcks ==
  AckInv /\ IInv /\ (Tick \/ IoError \/ BeginHandle \/ SelfHeal \/ Transport)
    /\ Peers /\ UNCHANGED setup => AckInv'
  <1> SUFFICES ASSUME AckInv, IInv, Tick \/ IoError \/ BeginHandle \/ SelfHeal \/ Transport,
                      Peers, UNCHANGED setup
               PROVE  AckInv'
    OBVIOUS
  <1> USE DEF conn, trans, txvars, rxvars, wire
  <1>1. CASE Tick
    <2>1. UNCHANGED <<state, txq, partial, sock, link, toBroker, rx, toClient, acks, pc>>
      BY <1>1 DEF Tick
    <2> QED BY <2>1, Stays, Settled
  <1>2. CASE IoError \/ TransportTimeout \/ ConnectorFailed
    <2>1. /\ UNCHANGED <<txq, partial, sock, link, toBroker, rx, toClient, acks>>
          /\ state' = "failed" /\ pc' = "idle"
      BY <1>2 DEF IoError, TransportTimeout, ConnectorFailed, Fault, EnterFailed
    <2> QED BY <2>1, Faults1, Settled
  <1>3. CASE BeginHandle
    <2>1. /\ UNCHANGED <<state, txq, partial, sock, link, toBroker, rx, toClient, acks>>
          /\ state \in {"connecting", "connected"} /\ pc = "idle" /\ pc' = "deadlines"
      BY <1>3 DEF BeginHandle
    <2>2. Settles
      BY <2>1 DEF Settles, Collected, Reading, States
    <2> QED BY <2>1, <2>2, Settled
  <1>4. CASE SelfHeal
    <2>1. /\ ~sock' /\ link' = "none" /\ toClient' = <<>> /\ txq' = <<>> /\ partial' = <<>>
          /\ rx' = <<>> /\ UNCHANGED <<acks, toBroker>>
          /\ state' \in {"awaiting_transport", "failed"} /\ pc' \in {"transport", "idle"}
      BY <1>4 DEF SelfHeal, CloseSocket, ResetTransient
    <2>2. state' \in States /\ pc' # "deadlines"
      BY <2>1 DEF States
    <2> QED BY <2>1, <2>2, PeersWire, Closes
  <1>5. CASE BeginTransport \/ ConnectorPending
    <2>1. /\ UNCHANGED <<state, txq, partial, sock, link, toBroker, rx, toClient, acks>>
          /\ state = "awaiting_transport" /\ pc \in {"idle", "transport"}
          /\ pc' \in {"idle", "transport"}
      BY <1>5 DEF BeginTransport, ConnectorPending, IInv, TransportAgrees, ConnInv
    <2>2. Settles
      BY <2>1 DEF Settles, Collected, Reading, States
    <2> QED BY <2>1, <2>2, Settled
  <1>6. CASE ConnectorReady
    <2>1. /\ link' = "up" /\ toBroker' = <<>> /\ toClient' = <<>> /\ txq' = Append(txq, ConnectPkt)
          /\ state' = "connecting" /\ pc' = "deadlines" /\ UNCHANGED <<partial, rx, acks>>
          /\ pc = "transport"
      BY <1>6 DEF ConnectorReady
    <2>2. ~sock /\ link = "none" /\ txq = <<>> /\ partial = <<>>
      BY <2>1 DEF IInv, TransportAgrees, ConnInv
    <2>3. rx = <<>>
      BY <2>2 DEF AckInv, WhereInv
    <2>4. txq' = <<ConnectPkt>>
      BY <2>1, <2>2
    <2>5. ~session'
      BY <2>1, <2>2, PeersWire
    <2> QED BY <2>1, <2>2, <2>3, <2>4, <2>5, PeersWire, Opens
  <1> QED BY <1>1, <1>2, <1>3, <1>4, <1>5, <1>6 DEF Transport

\* ... the deadlines ...
LEMMA DeadlinesAcks ==
  AckInv /\ IInv /\ Deadlines /\ Peers /\ UNCHANGED setup => AckInv'
  <1> SUFFICES ASSUME AckInv, IInv, Deadlines, Peers, UNCHANGED setup
               PROVE  AckInv'
    OBVIOUS
  <1> USE DEF conn, trans, txvars, rxvars, wire
  <1>0. pc = "deadlines" => state \in {"connecting", "connected"}
    BY DEF AckInv, WhereInv
  <1>1. ASSUME NEW i \in Ids, RetryPublish(i) PROVE AckInv'
    <2>1. /\ UNCHANGED <<state, partial, sock, link, toBroker, rx, toClient, acks, pc>>
          /\ state # "disconnected"
      BY <1>0, <1>1 DEF RetryPublish
    <2>2. Queues
      BY <1>1, PlainTypes, Zenon DEF RetryPublish, Queues
    <2> QED BY <2>1, <2>2, Stays, PeersWire, Queued DEF Wire
  <1>2. ASSUME pc = "deadlines", FailAndGoOn("recv"), UNCHANGED trans, UNCHANGED txvars,
               UNCHANGED rxvars, UNCHANGED wire
        PROVE  AckInv'
    <2>1. /\ UNCHANGED <<txq, partial, sock, link, toBroker, rx, toClient, acks>>
          /\ state' = "failed" /\ pc' = "recv"
      BY <1>2 DEF FailAndGoOn, EnterFailed
    <2>2. Settles
      BY <1>0, <1>2, <2>1 DEF Settles, Collected, Reading, States
    <2> QED BY <2>1, <2>2, Settled
  <1>3. ASSUME NEW i \in Ids, GiveUpPublish(i) PROVE AckInv'
    BY <1>2, <1>3 DEF GiveUpPublish
  <1>4. CASE ResponseTimeout \/ SendTimedOut
    BY <1>2, <1>4 DEF ResponseTimeout, SendTimedOut
  <1>5. CASE Keepalive
    <2>1. /\ UNCHANGED <<state, partial, sock, link, toBroker, rx, toClient, acks>>
          /\ pc = "deadlines" /\ pc' = "recv"
      BY <1>5 DEF Keepalive
    <2>2. Queues
      BY <1>5, PlainTypes, Zenon DEF Keepalive, Queues
    <2>3. Settles
      BY <1>0, <2>1 DEF Settles, Collected, Reading, States
    <2> QED BY <2>1, <2>2, <2>3, PeersWire, Queued DEF Wire
  <1> QED BY <1>1, <1>3, <1>4, <1>5 DEF Deadlines

\* ... the read ...
LEMMA ReceiveAcks ==
  AckInv /\ IInv /\ Receive /\ Peers /\ UNCHANGED setup => AckInv'
  <1> SUFFICES ASSUME AckInv, IInv, Receive, Peers, UNCHANGED setup
               PROVE  AckInv'
    OBVIOUS
  <1> USE DEF conn, trans, txvars, rxvars, wire
  <1>1. CASE SkipRecv \/ RecvWithoutSocket
    <2>1. /\ UNCHANGED <<state, txq, partial, sock, link, toBroker, rx, toClient, acks>>
          /\ pc = "recv" /\ pc' \in {"drain", "crashed"}
      BY <1>1 DEF SkipRecv, RecvWithoutSocket
    <2>2. Settles
      BY <2>1 DEF Settles, Collected, Reading, AckInv, TypesInv, WhereInv, FreshSocket
    <2> QED BY <2>1, <2>2, Settled
  <1>2. CASE RecvAgain
    <2>1. /\ UNCHANGED <<state, txq, partial, sock, link, toBroker, rx, toClient>>
          /\ acks' = <<>> /\ pc = "recv" /\ pc' = "dispatch"
      BY <1>2 DEF RecvAgain
    <2>2. Settles
      BY <2>1 DEF Settles, Collected, Reading, AckInv, TypesInv, WhereInv, FreshSocket
    <2> QED BY <2>1, <2>2, Settled
  <1>3. CASE RecvFails
    <2>1. /\ UNCHANGED <<txq, partial, sock, link, toBroker, rx, toClient, acks>>
          /\ state' = "failed" /\ pc' = "idle"
      BY <1>3 DEF RecvFails, Fault, EnterFailed
    <2> QED BY <2>1, Faults1, Settled
  <1>4. ASSUME NEW n \in 1..Len(toClient), RecvPackets(n) PROVE AckInv'
    <2>1. /\ UNCHANGED <<state, txq, partial, sock, link, toBroker>> /\ sock
          /\ rx' = rx \o SubSeq(toClient, 1, n)
          /\ toClient' = SubSeq(toClient, n + 1, Len(toClient))
          /\ acks' = <<>> /\ pc = "recv" /\ pc' = "dispatch"
      BY <1>4 DEF RecvPackets
    <2>2. UNCHANGED <<unacked, left>> /\ (session' <=> session)
      BY <2>1, PeersWire
    <2> QED BY <2>1, <2>2, Receives
  <1> QED BY <1>1, <1>2, <1>3, <1>4 DEF Receive

\* ... the writes ...
LEMMA DrainAcks ==
  AckInv /\ IInv /\ Drain /\ Peers /\ UNCHANGED setup => AckInv'
  <1> SUFFICES ASSUME AckInv, IInv, Drain, Peers, UNCHANGED setup
               PROVE  AckInv'
    OBVIOUS
  <1> USE DEF conn, trans, txvars, rxvars, wire
  <1>1. CASE FinishPartial
    <2>1. /\ UNCHANGED <<state, txq, sock, link, rx, toClient, acks>>
          /\ partial # <<>> /\ partial' = <<>> /\ Deliver(partial[1])
          /\ pc = "drain" /\ pc' = "idle"
      BY <1>1 DEF FinishPartial
    <2>2. UNCHANGED <<unacked, left>> /\ (session' <=> session)
      BY <2>1, PeersWire
    <2> QED BY <2>1, <2>2, Finishes DEF Sends, Deliver
  <1>2. CASE SendHead
    <2>1. /\ UNCHANGED <<state, partial, sock, link, rx, toClient, acks>>
          /\ partial = <<>> /\ txq # <<>> /\ txq' = Tail(txq) /\ Deliver(Head(txq))
          /\ pc = "drain" /\ pc' \in {"drain", "drained"}
      BY <1>2 DEF SendHead, ReadyToSend, Draining
    <2>2. UNCHANGED <<unacked, left>> /\ (session' <=> session)
      BY <2>1, PeersWire
    <2> QED BY <2>1, <2>2, SendsHead DEF Sends, Deliver
  <1>3. CASE SendPart
    <2>1. /\ UNCHANGED <<state, sock, link, toBroker, rx, toClient, acks>>
          /\ partial = <<>> /\ txq # <<>> /\ txq' = Tail(txq) /\ partial' = <<Head(txq)>>
          /\ pc = "drain" /\ pc' = "idle"
      BY <1>3 DEF SendPart, ReadyToSend, Draining
    <2>2. UNCHANGED <<unacked, left>> /\ (session' <=> session)
      BY <2>1, PeersWire
    <2> QED BY <2>1, <2>2, SendsPart DEF Wire
  <1>4. CASE DrainMarker
    <2>1. /\ UNCHANGED <<state, partial, sock, link, toBroker, rx, toClient, acks, pc>>
          /\ txq # <<>> /\ Head(txq).type = "marker" /\ txq' = Tail(txq)
          /\ pc \in {"drain", "drained"}
      BY <1>4 DEF DrainMarker, AtMarker, Draining
    <2>2. UNCHANGED <<unacked, left>> /\ (session' <=> session)
      BY <2>1, PeersWire
    <2> QED BY <2>1, <2>2, DropsMarker DEF Wire
  <1>5. ASSUME UNCHANGED <<state, txq, partial, sock, link, toBroker, rx, toClient, acks>>,
               pc \in {"drain", "drained"}, pc' = "idle"
        PROVE  AckInv'
    <2>1. Settles
      BY <1>5 DEF Settles, Collected, Reading, AckInv, TypesInv, WhereInv, FreshSocket
    <2> QED BY <1>5, <2>1, Settled
  <1>6. ASSUME NEW p \in BOOLEAN, StallPartial(p) PROVE AckInv'
    BY <1>5, <1>6 DEF StallPartial
  <1>7. CASE DrainEmpty \/ SendAgain \/ DrainDone
    BY <1>5, <1>7 DEF DrainEmpty, SendAgain, DrainDone, ReadyToSend, Draining
  <1>8. CASE SendFails
    <2>1. /\ UNCHANGED <<txq, partial, sock, link, toBroker, rx, toClient, acks>>
          /\ state' = "failed" /\ pc' = "idle"
      BY <1>8 DEF SendFails, Fault, EnterFailed
    <2> QED BY <2>1, Faults1, Settled
  <1> QED BY <1>1, <1>2, <1>3, <1>4, <1>6, <1>7, <1>8 DEF Drain

\* The packet handle() is about to dispatch.
LEMMA NextPacket ==
  ASSUME AckInv, IInv, Dispatching, rx # <<>>
  PROVE  /\ Collected = acks /\ acks \in Seq(Nat) /\ pc \in {"dispatch", "dispatched"}
         /\ DeliveryOf(Head(rx)) = <<>> => acks \o DeliveryOf(Head(rx)) = acks
         /\ link = "up" /\ Head(rx).type # "connack" => state # "connecting"
         /\ Head(rx).type = "connack" => Reading
         /\ Head(rx).type \notin {"publish", "oversized"} => DeliveryOf(Head(rx)) = <<>>
  <1>1. Collected = acks /\ acks \in Seq(Nat) /\ pc \in {"dispatch", "dispatched"}
    BY DEF Dispatching, Collected, AckInv, TypesInv
  <1>2. DeliveryOf(Head(rx)) = <<>> => acks \o DeliveryOf(Head(rx)) = acks
    BY <1>1
  <1>3. link = "up" /\ Head(rx).type # "connack" => state # "connecting"
    BY DEF AckInv, LiveInv, ConnackFirst
  <1>4. Reading
    <2>1. sock /\ state \in States
      BY DEF AckInv, WhereInv, TypesInv
    <2>2. state # "awaiting_transport"
      BY <2>1 DEF IInv, TransportAgrees, ConnInv
    <2>3. state # "disconnected"
      BY <1>1, <2>1 DEF AckInv, WhereInv, FreshSocket
    <2> QED BY <2>1, <2>2, <2>3 DEF Dispatching, Reading, States
  <1>5. Head(rx).type \notin {"publish", "oversized"} => DeliveryOf(Head(rx)) = <<>>
    BY DEF DeliveryOf
  <1> QED BY <1>1, <1>2, <1>3, <1>4, <1>5

\* What the handler of a packet leaves alone.
Handled == rx' = Tail(rx) /\ UNCHANGED <<txq, partial, sock, link, toBroker, toClient, setup>>

\* A packet that delivers nothing is dispatched.
LEMMA TakesOther ==
  ASSUME AckInv, IInv, Peers, Dispatching, rx # <<>>, Handled, acks' = acks,
         Head(rx).type \notin {"publish", "oversized", "connack"},
         \/ state' = state /\ pc' = "dispatched"
         \/ state' = "failed" /\ pc' = "idle"
  PROVE  AckInv'
  <1>1. /\ Collected = acks /\ acks \in Seq(Nat) /\ pc \in {"dispatch", "dispatched"}
        /\ acks \o DeliveryOf(Head(rx)) = acks
        /\ link = "up" => state # "connecting"
    BY NextPacket
  <1>2. Wire
    BY PeersWire DEF Wire, Handled
  <1>3. Collected' \in {<<>>, acks}
    BY DEF Collected
  <1>4. pc' = "dispatched" => Collected' = acks
    BY DEF Collected
  <1>5. state' = "failed" => ~Reading' \/ (state' = state /\ pc' = "dispatched")
    BY DEF Reading
  <1>6. Reading' => Reading /\ Collected' = Collected \o DeliveryOf(Head(rx))
    BY <1>1, <1>4 DEF Reading
  <1> QED BY <1>1, <1>2, <1>3, <1>6, Takes DEF Handled

\* A message is dispatched, and its id collected.
LEMMA TakesDelivery ==
  ASSUME AckInv, IInv, Peers, Dispatching, rx # <<>>, Handled, state' = state,
         Head(rx).type \in {"publish", "oversized"}, pc' = "dispatched",
         acks' = IF Head(rx).id = 0 THEN acks ELSE Append(acks, Head(rx).id)
  PROVE  AckInv'
  <1>1. /\ Collected = acks /\ acks \in Seq(Nat) /\ pc \in {"dispatch", "dispatched"}
        /\ DeliveryOf(Head(rx)) = <<>> => acks \o DeliveryOf(Head(rx)) = acks
        /\ link = "up" => state # "connecting"
    BY NextPacket
  <1>2. Wire
    BY PeersWire DEF Wire, Handled
  <1>3. acks' = acks \o DeliveryOf(Head(rx))
    <2>1. CASE Head(rx).id = 0
      <3>1. DeliveryOf(Head(rx)) = <<>>
        BY <2>1 DEF DeliveryOf
      <3> QED BY <1>1, <2>1, <3>1
    <2>2. CASE Head(rx).id # 0
      <3>1. DeliveryOf(Head(rx)) = <<Head(rx).id>>
        BY <2>2 DEF DeliveryOf
      <3>2. Append(acks, Head(rx).id) = acks \o <<Head(rx).id>>
        BY <1>1
      <3> QED BY <2>2, <3>1, <3>2
    <2> QED BY <2>1, <2>2
  <1>4. Collected' = Collected \o DeliveryOf(Head(rx))
    BY <1>1, <1>3 DEF Collected
  <1>5. Reading' => Reading
    BY DEF Reading
  <1> QED BY <1>1, <1>2, <1>3, <1>4, <1>5, Takes DEF Handled

\* ... and the dispatch of what was read.
LEMMA DispatchAcks ==
  AckInv /\ IInv /\ BatchInv /\ Dispatch /\ Peers /\ UNCHANGED setup => AckInv'
  <1> SUFFICES ASSUME AckInv, IInv, BatchInv, Dispatch, Peers, UNCHANGED setup
               PROVE  AckInv'
    OBVIOUS
  <1> USE DEF conn, trans, txvars, rxvars, wire
  <1>1. CASE DispatchPublish
    <2>1. /\ Dispatching /\ rx # <<>> /\ Handled /\ state' = state /\ pc' = "dispatched"
          /\ Head(rx).type = "publish"
          /\ acks' = IF Head(rx).id = 0 THEN acks ELSE Append(acks, Head(rx).id)
      BY <1>1 DEF DispatchPublish, Next1, Took, Handled
    <2> QED BY <2>1, TakesDelivery
  <1>2. CASE DispatchOversized /\ setup.drops
    <2>1. /\ Dispatching /\ rx # <<>> /\ Handled /\ state' = state /\ pc' = "dispatched"
          /\ Head(rx).type = "oversized"
          /\ acks' = IF Head(rx).id = 0 THEN acks ELSE Append(acks, Head(rx).id)
      BY <1>2 DEF DispatchOversized, Next1, Took, Handled
    <2> QED BY <2>1, TakesDelivery
  <1>3. CASE DispatchOversized /\ ~setup.drops
    <2>1. /\ Dispatching /\ rx # <<>> /\ Handled /\ state' = "failed" /\ pc' = "idle"
          /\ Head(rx).type = "oversized" /\ acks' = acks
      BY <1>3 DEF DispatchOversized, Next1, TookAndFaults, Handled, Fault, EnterFailed
    <2>2. /\ Collected = acks /\ acks \in Seq(Nat)
      BY <2>1, NextPacket
    <2>3. Wire
      BY <2>1, PeersWire DEF Wire, Handled
    <2>4. Collected' = <<>> /\ ~Reading'
      BY <2>1 DEF Collected, Reading
    <2> QED BY <2>1, <2>2, <2>3, <2>4, Takes DEF Handled
  <1>4. CASE DispatchPuback \/ DispatchPingresp
    <2>1. /\ Dispatching /\ rx # <<>> /\ Handled /\ state' = state /\ pc' = "dispatched"
          /\ Head(rx).type \in {"puback", "pingresp"} /\ acks' = acks
      BY <1>4 DEF DispatchPuback, DispatchPingresp, Next1, Took, Handled
    <2> QED BY <2>1, TakesOther
  <1>5. CASE DispatchSuback \/ DispatchUnsuback
    <2>1. /\ Dispatching /\ rx # <<>> /\ Handled /\ acks' = acks
          /\ Head(rx).type \in {"suback", "unsuback"}
          /\ \/ state' = state /\ pc' = "dispatched"
             \/ state' = "failed" /\ pc' = "idle"
      BY <1>5 DEF DispatchSuback, DispatchUnsuback, Next1, Took, TookAndFaults, Handled, Fault,
         EnterFailed
    <2> QED BY <2>1, TakesOther
  <1>6. CASE DispatchConnack
    <2>1. /\ Dispatching /\ rx # <<>> /\ Handled /\ state' = "connected" /\ pc' = "replay"
          /\ Head(rx).type = "connack" /\ acks' = acks
      BY <1>6 DEF DispatchConnack, Next1, Handled
    <2>2. /\ Collected = acks /\ acks \in Seq(Nat) /\ Reading
          /\ acks \o DeliveryOf(Head(rx)) = acks
      BY <2>1, NextPacket
    <2>3. Wire
      BY <2>1, PeersWire DEF Wire, Handled
    <2>4. Collected' = acks
      BY <2>1 DEF Collected
    <2> QED BY <2>1, <2>2, <2>3, <2>4, Takes DEF Handled
  <1>7. CASE DispatchRejection
    <2>1. /\ Dispatching /\ rx # <<>> /\ Handled /\ state' = "failed" /\ pc' = "dispatched"
          /\ Head(rx).type = "connack" /\ acks' = acks
      BY <1>7 DEF DispatchRejection, Next1, Took, Handled
    <2>2. /\ Collected = acks /\ acks \in Seq(Nat)
          /\ acks \o DeliveryOf(Head(rx)) = acks
      BY <2>1, NextPacket
    <2>3. Wire
      BY <2>1, PeersWire DEF Wire, Handled
    <2>4. Collected' = acks /\ ~Reading'
      BY <2>1 DEF Collected, Reading
    <2> QED BY <2>1, <2>2, <2>3, <2>4, Takes DEF Handled
  <1>8. ASSUME NEW t \in Topics, ReplaySubscription(t) PROVE AckInv'
    <2>1. /\ UNCHANGED <<state, partial, sock, link, toBroker, rx, toClient, acks, pc>>
          /\ pc = "replay"
      BY <1>8 DEF ReplaySubscription
    <2>2. Queues
      BY <1>8, PlainTypes, Zenon DEF ReplaySubscription, Queues
    <2>3. state # "disconnected" \/ ~sock
      BY <2>1 DEF AckInv, WhereInv, FreshSocket
    <2>4. sock
      BY <2>1 DEF IInv, ConnInv, NoCallbackYet
    <2> QED BY <2>1, <2>2, <2>3, <2>4, Stays, PeersWire, Queued DEF Wire
  <1>9. CASE FlushPublish
    <2>1. /\ UNCHANGED <<partial, sock, link, toBroker, rx, toClient, acks>>
          /\ pc = "replay"
      BY <1>9 DEF FlushPublish
    <2>2. state # "disconnected"
      BY <2>1 DEF AckInv, WhereInv, FreshSocket, IInv, ConnInv, NoCallbackYet
    <2>3. ASSUME DoPublish(Head(preq).msg, Head(preq).qos), UNCHANGED state, UNCHANGED pc
          PROVE  AckInv'
      BY <2>1, <2>2, <2>3, PublishQueues, Stays, PeersWire, Queued DEF Wire
    <2>4. ASSUME txq' = txq, Fault PROVE AckInv'
      BY <2>1, <2>4, Faults1, Settled DEF Fault, EnterFailed
    <2> QED BY <1>9, <2>3, <2>4, Zenon DEF FlushPublish, PublishOverflows
  <1>10. CASE AnnounceConnect
    <2>1. /\ UNCHANGED <<state, txq, partial, sock, link, toBroker, rx, toClient, acks>>
          /\ pc = "replay" /\ pc' = "dispatched"
      BY <1>10 DEF AnnounceConnect
    <2>2. state # "disconnected" /\ (link = "up" => state # "connecting")
      BY <2>1 DEF AckInv, WhereInv, FreshSocket, IInv, ConnInv, NoCallbackYet, LiveInv, ConnackFirst
    <2>3. Settles
      BY <2>1, <2>2 DEF Settles, Collected, Reading, AckInv, TypesInv
    <2> QED BY <2>1, <2>3, Settled
  <1>11. CASE StopDispatch
    <2>1. /\ UNCHANGED <<state, txq, partial, sock, link, toBroker, rx, toClient, acks>>
          /\ pc = "dispatched" /\ pc' = "drain" /\ state # "connected"
      BY <1>11 DEF StopDispatch
    <2>2. state = "disconnected" => ~sock
      BY <2>1 DEF AckInv, WhereInv, FreshSocket
    <2>3. link = "up" => state # "connecting"
      BY <2>1 DEF AckInv, LiveInv, ConnackFirst
    <2>4. Settles
      BY <2>1, <2>2, <2>3 DEF Settles, Collected, Reading, AckInv, TypesInv
    <2> QED BY <2>1, <2>4, Settled
  <1>12. CASE FlushPubacks
    <2>1. /\ UNCHANGED <<partial, sock, link, toBroker, rx, toClient>>
          /\ pc \in {"dispatch", "dispatched"} /\ acks' = <<>>
          /\ state = "disconnected" => ~sock
      BY <1>12 DEF FlushPubacks, Dispatching, AckInv, WhereInv, FreshSocket
    <2>2. CASE acks = <<>>
      <3>1. /\ txq' = <<>> \o txq /\ state' = state /\ pc' = "drain"
        BY <1>12, <2>2 DEF FlushPubacks
      <3>2. txq \in Seq(Elements(txq))
        BY DEF AckInv, TypesInv, AckSeq
      <3>3. txq' = txq
        BY <3>1, <3>2
      <3>4. Settles
        BY <2>1, <2>2, <3>1 DEF Settles, Collected, Reading, AckInv, TypesInv
      <3> QED BY <2>1, <3>3, <3>4, Settled
    <2>3. CASE acks # <<>> /\ Len(txq) >= HardCap
      <3>1. txq' = txq /\ state' = "failed" /\ pc' = "idle"
        BY <1>12, <2>3 DEF FlushPubacks, Fault, EnterFailed
      <3> QED BY <2>1, <3>1, Faults1, Settled
    <2>4. CASE acks # <<>> /\ ~(Len(txq) >= HardCap)
      <3>1. txq' = <<PubacksPkt(acks)>> \o txq /\ state' = state /\ pc' = "drain"
        BY <1>12, <2>4 DEF FlushPubacks
      <3>2. ~batch /\ Batches(txq) = {}
        BY <2>1 DEF BatchInv, OneIn, Dispatches
      <3>3. ~Has(txq, "pubacks")
        BY <3>2 DEF Has, Batches
      <3> QED BY <2>1, <2>4, <3>1, <3>3, PeersWire, Flushes DEF Wire
    <2> QED BY <2>2, <2>3, <2>4
  <1> QED BY <1>1, <1>2, <1>3, <1>4, <1>5, <1>6, <1>7, <1>8, <1>9, <1>10, <1>11, <1>12 DEF Dispatch

-----------------------------------------------------------------------------
(* Every action of the broker and the network                              *)

\* An answer of the broker is no delivery.
LEMMA RepliesDeliverNothing ==
  /\ DeliversNothing(<<>>)
  /\ \A p : p.type \notin {"publish", "oversized"} =>
         DeliversNothing(<<p>>) /\ <<p>> # <<>> /\ Head(<<p>>) = p
  <1>1. DeliversNothing(<<>>)
    BY DeliveredEmpty, HasFew DEF DeliversNothing
  <1>2. ASSUME NEW p, p.type \notin {"publish", "oversized"} PROVE DeliversNothing(<<p>>)
    <2>1. DeliveryOf(p) \in Seq(Nat)
      BY <1>2 DEF DeliveryOf
    <2> QED BY <1>2, <2>1, DeliveredSingle, HasFew DEF DeliversNothing
  <1>3. \A p : <<p>> # <<>> /\ Head(<<p>>) = p
    OBVIOUS
  <1> QED BY <1>1, <1>2, <1>3

\* The broker reads a packet of the client.
LEMMA ReadsServes ==
  ASSUME NEW type, Reads(type), UNCHANGED setup
  PROVE  /\ toBroker # <<>> /\ toBroker' = Tail(toBroker) /\ Head(toBroker).type = type
         /\ Serves /\ pc = "idle"
  BY DEF Reads, ClientState, conn, trans, txvars, rxvars, Serves

\* The steps of the broker keep the invariant ...
LEMMA BrokerAcks ==
  AckInv /\ Broker /\ UNCHANGED setup => AckInv'
  <1> SUFFICES ASSUME AckInv, Broker, UNCHANGED setup
               PROVE  AckInv'
    OBVIOUS
  <1>1. CASE BrokerAccepts
    <2>1. Serves /\ pc = "idle" /\ toBroker # <<>> /\ toBroker' = Tail(toBroker)
          /\ Head(toBroker).type = "connect"
      BY <1>1, ReadsServes DEF BrokerAccepts
    <2>2. session' /\ left' = left /\ (unacked' = unacked \/ unacked' = <<>>)
      BY <1>1 DEF BrokerAccepts
    <2>3. PICK present :
            toClient' = IF link = "up" THEN toClient \o (<<Connack("accepted", present)>>
                                              \o [k \in DOMAIN unacked' |-> Delivery(unacked'[k])])
                        ELSE toClient
      BY <1>1, Zenon DEF BrokerAccepts, Reply
    <2> QED BY <2>1, <2>2, <2>3, Starts
  <1>2. ASSUME NEW code \in {"transient", "permanent"}, BrokerRejects(code) PROVE AckInv'
    <2> DEFINE p == Connack(code, FALSE)
               r == <<p>>
    <2>1. Serves /\ pc = "idle" /\ toBroker # <<>> /\ toBroker' = Tail(toBroker)
          /\ Head(toBroker).type = "connect"
      BY <1>2, ReadsServes DEF BrokerRejects
    <2>2. /\ UNCHANGED <<session, unacked>> /\ left' = [left EXCEPT !["rejections"] = @ - 1]
          /\ toClient' = IF link = "up" THEN toClient \o r ELSE toClient
      BY <1>2 DEF BrokerRejects, Use, Reply
    <2>3. left'["pushes"] = left["pushes"] /\ DOMAIN left' = DOMAIN left
      BY <2>2 DEF AckInv, Distinct
    <2>4. p.type = "connack"
      BY DEF Connack
    <2> HIDE DEF p
    <2>5. DeliversNothing(r) /\ r # <<>> /\ Head(r) = p
      BY <2>4, RepliesDeliverNothing
    <2> HIDE DEF r
    <2> QED BY <2>1, <2>2, <2>3, <2>4, <2>5, Answers
  <1>3. ASSUME NEW r, DeliversNothing(r), Serves, pc = "idle",
               toBroker # <<>>, toBroker' = Tail(toBroker), Head(toBroker).type # "pubacks",
               toClient' = IF link = "up" THEN toClient \o r ELSE toClient,
               session, UNCHANGED <<session, unacked>>,
               left' = left \/ left' = [left EXCEPT !["rejections"] = @ - 1]
        PROVE  AckInv'
    <2>1. left'["pushes"] = left["pushes"] /\ DOMAIN left' = DOMAIN left
      BY <1>3 DEF AckInv, Distinct
    <2> QED BY <1>3, <2>1, Answers
  <1>4. CASE BrokerTakesPublish
    <2>1. Serves /\ pc = "idle" /\ toBroker # <<>> /\ toBroker' = Tail(toBroker)
          /\ Head(toBroker).type = "publish"
      BY <1>4, ReadsServes DEF BrokerTakesPublish
    <2> DEFINE p == [type |-> "puback", id |-> Head(toBroker).id]
               r == IF Head(toBroker).id = 0 THEN <<>> ELSE <<p>>
    <2>2. /\ session /\ UNCHANGED <<session, unacked, left>>
          /\ toClient' = IF link = "up" THEN toClient \o r ELSE toClient
      BY <1>4 DEF BrokerTakesPublish, Reply
    <2>3. p.type = "puback"
      OBVIOUS
    <2> HIDE DEF p
    <2>4. DeliversNothing(r)
      BY <2>3, RepliesDeliverNothing
    <2> HIDE DEF r
    <2> QED BY <1>3, <2>1, <2>2, <2>4
  <1>5. ASSUME NEW granted \in BOOLEAN, BrokerSubscribes(granted) PROVE AckInv'
    <2>1. Serves /\ pc = "idle" /\ toBroker # <<>> /\ toBroker' = Tail(toBroker)
          /\ Head(toBroker).type = "subscribe"
      BY <1>5, ReadsServes DEF BrokerSubscribes
    <2> DEFINE p == [type |-> "suback", id |-> Head(toBroker).id, granted |-> granted]
               r == <<p>>
    <2>2. /\ session /\ UNCHANGED <<session, unacked>>
          /\ toClient' = IF link = "up" THEN toClient \o r ELSE toClient
          /\ left' = left \/ left' = [left EXCEPT !["rejections"] = @ - 1]
      BY <1>5 DEF BrokerSubscribes, Reply, Use
    <2>3. p.type = "suback"
      OBVIOUS
    <2> HIDE DEF p
    <2>4. DeliversNothing(r)
      BY <2>3, RepliesDeliverNothing
    <2> HIDE DEF r
    <2> QED BY <1>3, <2>1, <2>2, <2>4
  <1>6. CASE BrokerUnsubscribes
    <2>1. Serves /\ pc = "idle" /\ toBroker # <<>> /\ toBroker' = Tail(toBroker)
          /\ Head(toBroker).type = "unsubscribe"
      BY <1>6, ReadsServes DEF BrokerUnsubscribes
    <2> DEFINE p == [type |-> "unsuback", id |-> Head(toBroker).id]
               r == <<p>>
    <2>2. /\ session /\ UNCHANGED <<session, unacked, left>>
          /\ toClient' = IF link = "up" THEN toClient \o r ELSE toClient
      BY <1>6 DEF BrokerUnsubscribes, Reply
    <2>3. p.type = "unsuback"
      OBVIOUS
    <2> HIDE DEF p
    <2>4. DeliversNothing(r)
      BY <2>3, RepliesDeliverNothing
    <2> HIDE DEF r
    <2> QED BY <1>3, <2>1, <2>2, <2>4
  <1>7. CASE BrokerTakesPubacks
    <2>1. Serves /\ pc = "idle" /\ toBroker # <<>> /\ toBroker' = Tail(toBroker)
          /\ Head(toBroker).type = "pubacks"
      BY <1>7, ReadsServes DEF BrokerTakesPubacks
    <2>2. /\ session /\ UNCHANGED <<session, left, toClient>>
          /\ unacked' = Unacknowledged(unacked, Elements(Head(toBroker).ids))
      BY <1>7 DEF BrokerTakesPubacks
    <2> QED BY <2>1, <2>2, Acknowledged
  <1>8. CASE BrokerAnswersPing
    <2>1. Serves /\ pc = "idle" /\ toBroker # <<>> /\ toBroker' = Tail(toBroker)
          /\ Head(toBroker).type = "pingreq"
      BY <1>8, ReadsServes DEF BrokerAnswersPing
    <2> DEFINE p == [type |-> "pingresp"]
               r == <<p>>
    <2>2. /\ session /\ UNCHANGED <<session, unacked, left>>
          /\ toClient' = IF link = "up" THEN toClient \o r ELSE toClient
      BY <1>8 DEF BrokerAnswersPing, Reply, bvars
    <2>3. p.type = "pingresp"
      OBVIOUS
    <2> HIDE DEF p
    <2>4. DeliversNothing(r)
      BY <2>3, RepliesDeliverNothing
    <2> HIDE DEF r
    <2> QED BY <1>3, <2>1, <2>2, <2>4
  <1>9. CASE BrokerEnds
    <2>1. /\ Serves /\ pc = "idle" /\ toBroker # <<>> /\ toBroker' = Tail(toBroker)
          /\ Head(toBroker).type \in {"disconnect", "garbage"}
      BY <1>9, ReadsServes DEF BrokerEnds
    <2>2. ~session' /\ UNCHANGED <<unacked, left, toClient>>
      BY <1>9 DEF BrokerEnds
    <2>3. /\ AckSeq(Tail(toBroker))
          /\ \A t : Has(toBroker, t) <=> Head(toBroker).type = t \/ Has(Tail(toBroker), t)
      BY <2>1, HeadTail DEF AckInv, TypesInv
    <2>4. link # "up"
      BY <2>1, <2>3 DEF AckInv, LiveInv, ConnectFirst
    <2>5. TypesInv'
      BY <2>1, <2>2, <2>3 DEF Serves, AckInv, TypesInv
    <2>6. WhereInv'
      BY <2>1, <2>2 DEF Serves, AckInv, WhereInv, FreshSocket
    <2>7. Distinct'
      BY <2>1, <2>2 DEF Serves, AckInv, Distinct, Pushed
    <2> QED BY <2>1, <2>4, <2>5, <2>6, <2>7 DEF AckInv, LiveInv, Serves
  <1>10. ASSUME NEW kind \in {"publish", "oversized"},
                NEW id \in {0, setup.pushes - left.pushes + 1}, BrokerPushes(kind, id)
         PROVE  AckInv'
    <2>1. id \in {0, Pushed + 1}
      BY DEF Pushed
    <2>2. /\ link = "up" /\ session /\ UNCHANGED <<session, toBroker>>
          /\ left["pushes"] > 0 /\ left' = [left EXCEPT !["pushes"] = @ - 1]
          /\ toClient' = Append(toClient, [type |-> kind, id |-> id])
          /\ unacked' = IF id = 0 THEN unacked ELSE Append(unacked, id)
      BY <1>10 DEF BrokerPushes, Use
    <2>3. Serves
      BY <1>10 DEF BrokerPushes, Serves, ClientState, conn, trans, txvars, rxvars
    <2> QED BY <2>1, <2>2, <2>3, Pushes
  <1> QED BY <1>1, <1>2, <1>4, <1>5, <1>6, <1>7, <1>8, <1>9, <1>10 DEF Broker

\* ... and the faults of the network.
LEMMA BreakAcks ==
  ASSUME AckInv, NEW how \in {"fin", "reset", "hole"}, Break(how), UNCHANGED setup
  PROVE  AckInv'
  <1>1. /\ link = "up" /\ link' = how /\ how # "up" /\ toBroker' = <<>> /\ ~session'
        /\ toClient' \in {toClient, <<>>} /\ unacked' = unacked
        /\ left' = [left EXCEPT !["faults"] = @ - 1]
    BY DEF Break, Use
  <1>2. left'["pushes"] = left["pushes"] /\ DOMAIN left' = DOMAIN left
    BY <1>1 DEF AckInv, Distinct
  <1>3. UNCHANGED <<sock, state, pc, txq, partial, rx, acks>>
    BY DEF Break, ClientState, conn, trans, txvars, rxvars
  <1> QED BY <1>1, <1>2, <1>3, Breaks

\* AckInv is inductive, given what was proved of the connection and the batch.
LEMMA AckStep ==
  AckInv /\ IInv /\ NoCallFromNone /\ BatchInv /\ [SystemNext]_vars => AckInv'
  <1> SUFFICES ASSUME AckInv, IInv, NoCallFromNone, BatchInv, [SystemNext]_vars PROVE AckInv'
    OBVIOUS
  <1>1. CASE ClientStep
    <2>1. Peers /\ UNCHANGED setup
      BY <1>1 DEF ClientStep, ClientNext
    <2>2. CASE Application
      BY <2>1, <2>2, ApplicationAcks
    <2>3. CASE Tick \/ IoError \/ BeginHandle \/ SelfHeal \/ Transport
      BY <2>1, <2>3, BeginAcks
    <2>4. CASE Deadlines
      BY <2>1, <2>4, DeadlinesAcks
    <2>5. CASE Receive
      BY <2>1, <2>5, ReceiveAcks
    <2>6. CASE Dispatch
      BY <2>1, <2>6, DispatchAcks
    <2>7. CASE Drain
      BY <2>1, <2>7, DrainAcks
    <2> QED BY <1>1, <2>2, <2>3, <2>4, <2>5, <2>6, <2>7 DEF ClientStep, ClientNext, Handle
  <1>2. CASE Broker /\ UNCHANGED setup
    BY <1>2, BrokerAcks
  <1>3. CASE (\E how \in {"fin", "reset", "hole"} : Break(how)) /\ UNCHANGED setup
    BY <1>3, BreakAcks
  <1>4. CASE UNCHANGED vars
    <2>1. /\ UNCHANGED <<state, pc, sock, link, toBroker, toClient, txq, partial, rx, acks, setup>>
          /\ UNCHANGED <<session, unacked, left>>
      BY <1>4 DEF vars, cvars, bvars, conn, trans, txvars, rxvars, wire
    <2>2. TypesInv'
      BY <2>1 DEF AckInv, TypesInv
    <2>3. WhereInv'
      BY <2>1 DEF AckInv, WhereInv, FreshSocket
    <2>4. Distinct'
      BY <2>1 DEF AckInv, Distinct, Pushed
    <2>5. ASSUME link = "up" PROVE ConnectFirst' /\ QuietBefore' /\ ConnackFirst' /\ Conserved'
      <3>1. Owed' = Owed /\ Collected' = Collected
        BY <2>1 DEF Owed, Collected
      <3> QED BY <2>1, <2>5, <3>1 DEF AckInv, LiveInv, ConnectFirst, QuietBefore, ConnackFirst,
             Conserved, Reading
    <2> QED BY <2>1, <2>2, <2>3, <2>4, <2>5 DEF AckInv, LiveInv
  <1> QED BY <1>1, <1>2, <1>3, <1>4 DEF SystemNext

\* It holds at the start ...
LEMMA InitAcks == SystemInit => AckInv
  <1> SUFFICES ASSUME SystemInit PROVE AckInv
    OBVIOUS
  <1>1. /\ toBroker = <<>> /\ partial = <<>> /\ txq = <<>> /\ rx = <<>> /\ toClient = <<>>
        /\ acks = <<>> /\ unacked = <<>> /\ state = "disconnected" /\ pc = "idle" /\ ~session
    BY DEF SystemInit, Init
  <1>2. AckSeq(<<>>) /\ DeliverySeq(<<>>) /\ <<>> \in Seq(Nat) /\ \A t : ~Has(<<>>, t)
    BY AckedEmpty, DeliveredEmpty, HasFew
  <1>3. setup.pushes \in Nat
    BY MqttAssumption DEF MqttAssumption, SystemInit, Init, SetupType
  <1>4. left = [faults |-> Faults, rejections |-> setup.rejections, pushes |-> setup.pushes]
    BY DEF SystemInit
  <1>5. TypesInv
    BY <1>1, <1>2 DEF TypesInv, States
  <1>6. WhereInv
    BY <1>1, <1>2 DEF WhereInv, FreshSocket
  <1>7. Distinct
    <2>1. left.pushes = setup.pushes /\ DOMAIN left = {"faults", "rejections", "pushes"}
      BY <1>4
    <2>2. DOMAIN unacked = {}
      BY <1>1
    <2> QED BY <1>3, <2>1, <2>2 DEF Distinct, NoTwice
  <1>8. ConnectFirst /\ QuietBefore /\ ConnackFirst /\ Conserved
    BY <1>1, <1>2 DEF ConnectFirst, QuietBefore, ConnackFirst, Conserved, Collected
  <1> QED BY <1>5, <1>6, <1>7, <1>8 DEF AckInv, LiveInv

\* ... and says what is acknowledged.
LEMMA AckInvOrder == AckInv => AcksInOrder
  <1> SUFFICES ASSUME AckInv, link = "up", session, state = "connected"
               PROVE  unacked = Flat[AckIds(toBroker)] \o Flat[AckIds(partial)] \o Flat[AckIds(txq)]
                                \o Collected \o Flat[DeliveryIds(rx)] \o Flat[DeliveryIds(toClient)]
    BY Zenon DEF AcksInOrder
  <1>1. unacked = Owed
    BY DEF AckInv, LiveInv, Conserved, Reading
  <1> QED BY <1>1, Zenon DEF Owed, Six, Then, Acked, Delivered

\* The client acknowledges every QoS 1 delivery of a live session exactly once and in
\* the order of receipt (_handle_inbound_publish, _flush_pubacks, _recv_suppressed).
THEOREM AcknowledgedInOrder == Spec => []AcksConserved
  <1>1. AckInv /\ BatchInv => AcksConserved
    BY AckInvOrder, OneInBatch DEF AcksConserved
  <1>2. SystemInit => BatchInv
    BY OneInNone DEF SystemInit, Init, BatchInv, Dispatches
  <1> QED BY <1>1, <1>2, InitNoCall, NextNoCall, InitConn, NextConn, BatchStep, InitAcks,
         AckStep, PTL DEF Spec
=============================================================================
