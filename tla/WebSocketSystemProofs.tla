------------------------ MODULE WebSocketSystemProofs ------------------------
(***************************************************************************)
(* For every session, peer and network, and whatever the application calls *)
(* from the callbacks: a CLOSE always finds room in the transmit queue, a  *)
(* closed session holds no socket, connector or timer, every end is        *)
(* reported, nothing but answers to pings follows the CLOSE, a tick leaves *)
(* an open session no timer in the past, and the application is given the  *)
(* peer's messages as MessageStream promises.  And for every number of     *)
(* clients and slots, whatever the callbacks close or raise: the server    *)
(* loses no socket.                                                        *)
(***************************************************************************)
EXTENDS WebSocketSystem, WebSocketServer, SequencesExt, TLAPS

Frames == [op : {"data", "ping", "pong", "close", "hello"}]

Shape ==
    /\ setup \in Setups
    /\ txq \in Seq(Frames) /\ partial \in Seq(Frames) /\ toPeer \in Seq(Frames)
    /\ Len(partial) <= 1
    /\ closes \in Nat

\* Until the CLOSE is queued, whatever fills the queue leaves its slot free.
RoomForClose == state \notin {"closing", "closed"} => Len(txq) < HardCap

\* A client that was not started has done nothing, but it may have been aborted.
NotStarted ==
    ~called => Client /\ pc = "idle" /\ txq = <<>> /\ state \in {"connecting", "closed"}

\* Connector and auto-ping are the client's; it pings only while open, where no
\* callback of the tick can have closed the session.
ClientOnly == ~Client => ~connector /\ pingAt = Off
PingsWhileOpen ==
    /\ pc = "autoping" => state = "open" /\ cb = "none"
    /\ then # "autoping"

Reported == state = "closed" => closes > 0 \/ (~Client /\ phase = "reading")

IInv ==
    /\ Shape /\ RoomForClose /\ NotStarted /\ ClientOnly /\ PingsWhileOpen /\ Reported
    /\ CloseAlwaysFits /\ ClosedHoldsNothing

-----------------------------------------------------------------------------
(* Queues and the CLOSE in them                                            *)

LEMMA CloseInAppend ==
  ASSUME NEW q \in Seq(Frames), NEW f \in Frames
  PROVE  HasClose(Append(q, f)) <=> HasClose(q) \/ f.op = "close"
  <1>1. /\ DOMAIN Append(q, f) = 1..(Len(q) + 1) /\ DOMAIN q = 1..Len(q) /\ Len(q) \in Nat
        /\ Append(q, f)[Len(q) + 1] = f
        /\ \A k \in 1..Len(q) : Append(q, f)[k] = q[k]
    OBVIOUS
  <1>2. \A k \in 1..(Len(q) + 1) : k \in 1..Len(q) \/ k = Len(q) + 1
    BY <1>1
  <1>3. 1..Len(q) \subseteq 1..(Len(q) + 1) /\ Len(q) + 1 \in 1..(Len(q) + 1)
    BY <1>1
  <1> QED
    BY <1>1, <1>2, <1>3, Zenon DEF HasClose

LEMMA CloseInTail ==
  ASSUME NEW q \in Seq(Frames), q # <<>>
  PROVE  /\ Head(q) \in Frames /\ Tail(q) \in Seq(Frames)
         /\ Len(Tail(q)) = Len(q) - 1
         /\ HasClose(q) <=> Head(q).op = "close" \/ HasClose(Tail(q))
  <1>1. /\ Head(q) \in Frames /\ Tail(q) \in Seq(Frames) /\ Head(q) = q[1]
        /\ DOMAIN q = 1..Len(q) /\ Len(q) \in Nat \ {0}
        /\ DOMAIN Tail(q) = 1..(Len(q) - 1) /\ Len(Tail(q)) = Len(q) - 1
        /\ \A k \in 1..(Len(q) - 1) : Tail(q)[k] = q[k + 1]
    OBVIOUS
  <1>2. HasClose(q) => Head(q).op = "close" \/ HasClose(Tail(q))
    <2> SUFFICES ASSUME NEW k \in 1..Len(q), q[k].op = "close", k # 1
                 PROVE  HasClose(Tail(q))
      BY <1>1 DEF HasClose
    <2>1. k - 1 \in 1..(Len(q) - 1) /\ Tail(q)[k - 1] = q[k]
      BY <1>1
    <2> QED
      BY <1>1, <2>1 DEF HasClose
  <1>3. Head(q).op = "close" \/ HasClose(Tail(q)) => HasClose(q)
    <2>1. 1 \in 1..Len(q) /\ \A k \in 1..(Len(q) - 1) : k + 1 \in 1..Len(q)
      BY <1>1
    <2> QED
      BY <1>1, <2>1 DEF HasClose
  <1> QED
    BY <1>1, <1>2, <1>3

LEMMA CloseInOne ==
  ASSUME NEW f \in Frames
  PROVE  /\ <<f>> \in Seq(Frames) /\ Len(<<f>>) = 1
         /\ HasClose(<<f>>) <=> f.op = "close"
  BY DEF HasClose, Frames

LEMMA FramesTyped ==
  {DataFrame, PingFrame, PongFrame, CloseFrame, Hello} \subseteq Frames
  BY DEF DataFrame, PingFrame, PongFrame, CloseFrame, Hello, Frames

LEMMA SetupTyped ==
  ASSUME setup \in Setups
  PROVE  /\ setup.userCap \in Nat \ {0} /\ setup.headroom \in Nat \ {0}
         /\ HardCap \in Nat /\ setup.userCap < HardCap
         /\ \A m : <<"none", m>> \notin setup.ops
         /\ setup.faults \subseteq Faults
  <1>1. setup \in SetupType
    BY WebSocketAssumption DEF WebSocketAssumption
  <1>2. \A m : <<"none", m>> \notin Callbacks \X Methods
    BY DEF Callbacks
  <1>3. setup.ops \subseteq Callbacks \X Methods
    BY <1>1 DEF SetupType
  <1> QED
    BY <1>1, <1>2, <1>3 DEF SetupType, HardCap

\* A CLOSE fits before the session is closing; other internal frames leave its
\* slot free.
LEMMA InternalFrame ==
  ASSUME Shape, NEW f \in {PingFrame, PongFrame, CloseFrame}
  PROVE  /\ EnqueueInternal(txq, f) \in Seq(Frames)
         /\ HasClose(txq) => HasClose(EnqueueInternal(txq, f))
         /\ f # CloseFrame /\ Len(txq) < HardCap => Len(EnqueueInternal(txq, f)) < HardCap
         /\ f = CloseFrame /\ Len(txq) < HardCap => HasClose(EnqueueInternal(txq, f))
  <1>1. f \in Frames /\ (f = CloseFrame <=> f.op = "close")
    BY FramesTyped DEF PingFrame, PongFrame, CloseFrame
  <1>2. HardCap \in Nat /\ txq \in Seq(Frames)
    BY SetupTyped DEF Shape
  <1>3. /\ Append(txq, f) \in Seq(Frames) /\ Len(Append(txq, f)) = Len(txq) + 1
        /\ Len(txq) \in Nat
    BY <1>1, <1>2
  <1> QED
    BY <1>1, <1>2, <1>3, CloseInAppend DEF EnqueueInternal

\* The closing handshake begins at most once and its CLOSE is queued.
LEMMA ClosingBegins ==
  ASSUME IInv, SendClose
  PROVE  /\ txq' \in Seq(Frames)
         /\ HasClose(txq) => HasClose(txq')
         /\ state' \in {"closing", "closed"}
         /\ state' = "closing" => state = "closing" \/ HasClose(txq')
         /\ state' = "closed" => state = "closed" /\ closeAt' = closeAt
  BY InternalFrame DEF IInv, Shape, RoomForClose, SendClose
\* What every way to CLOSED leaves.
LEMMA ClosedKeeps ==
  ASSUME IInv, NEW next, next # "autoping", then' # "autoping", Closed(next),
         setup' = setup, txq' \in Seq(Frames), partial' \in Seq(Frames), Len(partial') <= 1,
         toPeer' = toPeer, called
  PROVE  IInv'
  <1> USE SetupTyped, FramesTyped
      DEF IInv, Shape, RoomForClose, NotStarted, ClientOnly, PingsWhileOpen, Reported,
          CloseAlwaysFits, ClosedHoldsNothing, Off, Client, HardCap,
          life, timers, tx, inbox, flow, wire, hist, peer
  <1>1. /\ state' = "closed" /\ pc' = next /\ closes' = closes + 1
        /\ hsAt' = Off /\ closeAt' = Off /\ pongAt' = Off
        /\ sock' # "open" /\ called' = called
    BY DEF Closed, DropTransport
  <1>2. pingAt' = Off /\ ~connector'
    BY DEF Closed, OnFinalized
  <1> QED
    BY <1>1, <1>2

-----------------------------------------------------------------------------
LEMMA InitHolds == SystemInit => IInv
  <1> SUFFICES ASSUME SystemInit PROVE IInv
    OBVIOUS
  <1> USE SetupTyped, FramesTyped
      DEF IInv, Shape, RoomForClose, NotStarted, ClientOnly, PingsWhileOpen, Reported,
          CloseAlwaysFits, ClosedHoldsNothing, Off, Client, HardCap,
          life, timers, tx, inbox, flow, wire, hist, peer
  <1>1. Shape
    BY DEF SystemInit, Init
  <1>2. 0 < HardCap
    BY <1>1
  <1> QED
    BY <1>1, <1>2 DEF SystemInit, Init

\* The application calls in at rest or from a callback, never while cb is "none".
LEMMA ApplicationKeeps == IInv /\ Application /\ UNCHANGED peer => IInv'
  <1> SUFFICES ASSUME IInv, Application, UNCHANGED peer PROVE IInv'
    OBVIOUS
  <1> USE SetupTyped, FramesTyped
      DEF IInv, Shape, RoomForClose, NotStarted, ClientOnly, PingsWhileOpen, Reported,
          CloseAlwaysFits, ClosedHoldsNothing, Off, Client, HardCap,
          life, timers, tx, inbox, flow, wire, hist, peer
  <1>1. ASSUME NEW r \in BOOLEAN, Connect(r) PROVE IInv'
    BY <1>1 DEF Connect
  <1>2. CASE Send
    BY <1>2, CloseInAppend DEF Send, UserFits
  <1>3. CASE SendPing
    <2>1. /\ txq' = Append(txq, PingFrame) /\ state = "open" /\ state' = state
          /\ Len(txq) < setup.userCap
      BY <1>3 DEF SendPing, UserFits
    <2>2. txq' \in Seq(Frames) /\ Len(txq') < HardCap /\ (HasClose(txq) => HasClose(txq'))
      BY <2>1, CloseInAppend
    <2> QED
      BY <1>3, <2>1, <2>2 DEF SendPing, ArmPong
  <1>4. CASE Close
    <2>1. /\ SendClose /\ state \notin {"closing", "closed"} /\ called /\ pc # "autoping"
          /\ UNCHANGED <<setup, phase, called, connector, sock, hsAt, pongAt, pingAt, partial,
                         flow, wire, closes>>
      BY <1>4 DEF Close, Calls
    <2> QED
      BY <2>1, ClosingBegins
  <1>5. CASE Abort
    BY <1>5 DEF Abort, Closed, DropTransport, OnFinalized
  <1>6. CASE Shutdown
    BY <1>6, ClosingBegins DEF Shutdown, Calls
  <1>7. CASE Raise
    <2>1. CASE cb = "on_connection"
      BY <1>7, <2>1, ClosedKeeps DEF Raise
    <2>2. CASE cb # "on_connection"
      BY <1>7, <2>2 DEF Raise
    <2> QED BY <2>1, <2>2
  <1>8. CASE NextMessage
    BY <1>8 DEF NextMessage
  <1> QED
    BY <1>1, <1>2, <1>3, <1>4, <1>5, <1>6, <1>7, <1>8 DEF Application

LEMMA TickKeeps == IInv /\ Tick /\ UNCHANGED peer => IInv'
  <1> SUFFICES ASSUME IInv, Tick, UNCHANGED peer PROVE IInv'
    OBVIOUS
  <1> USE SetupTyped, FramesTyped
      DEF IInv, Shape, RoomForClose, NotStarted, ClientOnly, PingsWhileOpen, Reported,
          CloseAlwaysFits, ClosedHoldsNothing, Off, Client, HardCap,
          life, timers, tx, inbox, flow, wire, hist, peer
  <1> QED
    BY DEF Tick, Left

LEMMA ConnectorKeeps == IInv /\ Connector /\ UNCHANGED peer => IInv'
  <1> SUFFICES ASSUME IInv, Connector, UNCHANGED peer PROVE IInv'
    OBVIOUS
  <1> USE SetupTyped, FramesTyped
      DEF IInv, Shape, RoomForClose, NotStarted, ClientOnly, PingsWhileOpen, Reported,
          CloseAlwaysFits, ClosedHoldsNothing, Off, Client, HardCap,
          life, timers, tx, inbox, flow, wire, hist, peer
  <1> USE DEF InTime, Begins
  <1>1. CASE ConnectorReady
    BY <1>1 DEF ConnectorReady
  <1>2. CASE ConnectorFails
    BY <1>2, ClosedKeeps DEF ConnectorFails, Fail
  <1> QED
    BY <1>1, <1>2 DEF Connector

LEMMA HandshakeKeeps == IInv /\ Handshake /\ UNCHANGED peer => IInv'
  <1> SUFFICES ASSUME IInv, Handshake, UNCHANGED peer PROVE IInv'
    OBVIOUS
  <1> USE SetupTyped, FramesTyped
      DEF IInv, Shape, RoomForClose, NotStarted, ClientOnly, PingsWhileOpen, Reported,
          CloseAlwaysFits, ClosedHoldsNothing, Off, Client, HardCap,
          life, timers, tx, inbox, flow, wire, hist, peer
  <1> USE DEF InTime, Begins, Handshaking
  <1>1. CASE HandshakeTimesOut
    BY <1>1, ClosedKeeps DEF HandshakeTimesOut, Fail
  <1>2. CASE SendHello
    BY <1>2 DEF SendHello, Deliver
  <1>3. CASE SendHelloFails
    BY <1>3, ClosedKeeps DEF SendHelloFails, Fail
  <1>4. ASSUME NEW n \in 1..Len(toUs), RecvHello(n) PROVE IInv'
    BY <1>4 DEF RecvHello, ArmPing
  <1>5. CASE Refused
    <2>1. CASE Client
      BY <1>5, <2>1, ClosedKeeps DEF Refused, Fail
    <2>2. CASE ~Client
      BY <1>5, <2>2 DEF Refused, DropTransport
    <2> QED BY <2>1, <2>2
  <1>6. CASE HandshakeCut
    BY <1>6, ClosedKeeps DEF HandshakeCut, Fail
  <1> QED
    BY <1>1, <1>2, <1>3, <1>4, <1>5, <1>6 DEF Handshake

LEMMA ReceiveKeeps == IInv /\ Receive /\ UNCHANGED peer => IInv'
  <1> SUFFICES ASSUME IInv, Receive, UNCHANGED peer PROVE IInv'
    OBVIOUS
  <1> USE SetupTyped, FramesTyped
      DEF IInv, Shape, RoomForClose, NotStarted, ClientOnly, PingsWhileOpen, Reported,
          CloseAlwaysFits, ClosedHoldsNothing, Off, Client, HardCap,
          life, timers, tx, inbox, flow, wire, hist, peer
  <1>1. CASE BeginRecv
    BY <1>1 DEF BeginRecv, InTime, Begins
  <1>2. ASSUME NEW n \in 1..Len(toUs), RecvChunk(n) PROVE IInv'
    BY <1>2 DEF RecvChunk
  <1>3. CASE RecvStops
    BY <1>3 DEF RecvStops
  <1>4. CASE RecvEnds
    BY <1>4, ClosedKeeps DEF RecvEnds, Fail
  <1>5. CASE FeedDone
    BY <1>5 DEF FeedDone
  <1> QED
    BY <1>1, <1>2, <1>3, <1>4, <1>5 DEF Receive

\* Dispatch: answers are queued, a message is handed over, or the session closes.
LEMMA DispatchKeeps == IInv /\ Dispatch /\ UNCHANGED peer => IInv'
  <1> SUFFICES ASSUME IInv, Dispatch, UNCHANGED peer PROVE IInv'
    OBVIOUS
  <1> USE SetupTyped, FramesTyped
      DEF IInv, Shape, RoomForClose, NotStarted, ClientOnly, PingsWhileOpen, Reported,
          CloseAlwaysFits, ClosedHoldsNothing, Off, Client, HardCap,
          life, timers, tx, inbox, flow, wire, hist, peer
  <1> USE DEF Feeds
  <1>1. CASE DispatchInvalid
    BY <1>1, ClosingBegins DEF DispatchInvalid
  <1>2. CASE DispatchPing
    BY <1>2, InternalFrame DEF DispatchPing, PongFrame, CloseFrame
  <1>3. CASE DispatchPong
    BY <1>3 DEF DispatchPong, DisarmPong
  <1>4. CASE DispatchClose
    BY <1>4, ClosingBegins DEF DispatchClose
  <1>5. CASE DispatchMisplaced
    BY <1>5, ClosingBegins DEF DispatchMisplaced
  <1>6. CASE DispatchFragment
    BY <1>6 DEF DispatchFragment
  <1>7. CASE DispatchFinal
    <2>1. SendClose \/ UNCHANGED <<state, txq, closeAt>>
      BY <1>7 DEF DispatchFinal, FinishMessage, DeliverMessage, DropMessage
    <2>2. UNCHANGED <<setup, phase, called, connector, sock, hsAt, pongAt, pingAt, partial,
                      pc, then, wire, closes>>
      BY <1>7 DEF DispatchFinal
    <2>3. pc = "feed" /\ state # "closed"
      BY <1>7 DEF DispatchFinal
    <2>4. CASE SendClose
      BY <2>2, <2>3, <2>4, ClosingBegins
    <2>5. CASE UNCHANGED <<state, txq, closeAt>>
      BY <2>2, <2>3, <2>5
    <2> QED BY <2>1, <2>4, <2>5
  <1> QED
    BY <1>1, <1>2, <1>3, <1>4, <1>5, <1>6, <1>7 DEF Dispatch

\* The frame that is sent next, and what is behind it.
LEMMA CurrentFrame ==
  ASSUME Shape, Unsent
  PROVE  /\ Current \in Frames /\ Behind \in Seq(Frames) /\ Len(Behind) <= Len(txq)
         /\ HasClose(partial) \/ HasClose(txq) =>
               Current.op = "close" \/ HasClose(Behind)
  <1>1. CASE partial # <<>>
    <2>1. Len(partial) = 1 /\ partial \in Seq(Frames) /\ partial[1] \in Frames
      BY <1>1 DEF Shape
    <2>2. HasClose(partial) => partial[1].op = "close"
      BY <2>1 DEF HasClose
    <2> QED
      BY <1>1, <2>1, <2>2 DEF Current, Behind, Shape
  <1>2. CASE partial = <<>>
    <2>1. ~HasClose(partial)
      BY <1>2 DEF HasClose
    <2> QED
      BY <1>2, <2>1, CloseInTail DEF Current, Behind, Shape, Unsent
  <1> QED BY <1>1, <1>2

\* Sending moves frames towards the peer and loses none.
LEMMA TransmitKeeps == IInv /\ Transmit /\ UNCHANGED peer => IInv'
  <1> SUFFICES ASSUME IInv, Transmit, UNCHANGED peer PROVE IInv'
    OBVIOUS
  <1> USE SetupTyped, FramesTyped
      DEF IInv, Shape, RoomForClose, NotStarted, ClientOnly, PingsWhileOpen, Reported,
          CloseAlwaysFits, ClosedHoldsNothing, Off, Client, HardCap,
          life, timers, tx, inbox, flow, wire, hist, peer
  <1> USE DEF Drains, AfterDrain
  <1>1. CASE DrainDone
    BY <1>1 DEF DrainDone
  <1>2. ASSUME NEW more \in BOOLEAN, SendFrame(more) PROVE IInv'
    <2>1. /\ toPeer' \in Seq(Frames)
          /\ link = "up" => (HasClose(toPeer') <=> HasClose(toPeer) \/ Current.op = "close")
      BY <1>2, CurrentFrame, CloseInAppend DEF SendFrame, Deliver
    <2>2. partial' = <<>> /\ txq' = Behind
      BY <1>2 DEF SendFrame
    <2> QED
      BY <1>2, <2>1, <2>2, CurrentFrame DEF SendFrame
  <1>3. CASE SendBlocked
    BY <1>3, CurrentFrame, CloseInOne DEF SendBlocked, Fetch
  <1>4. CASE SendFails
    <2>1. txq' \in Seq(Frames) /\ partial' \in Seq(Frames) /\ Len(partial') <= 1
      BY <1>4, CurrentFrame, CloseInOne DEF SendFails, Fetch
    <2> QED
      BY <1>4, <2>1, ClosedKeeps DEF SendFails
  <1>5. CASE AutoPing
    <2>1. txq' = txq \/ txq' = EnqueueInternal(txq, PingFrame)
      BY <1>5 DEF AutoPing
    <2>2. txq' \in Seq(Frames) /\ Len(txq') < HardCap
      BY <1>5, <2>1, InternalFrame DEF AutoPing, PingFrame, CloseFrame
    <2> QED
      BY <1>5, <2>2 DEF AutoPing
  <1> QED
    BY <1>1, <1>2, <1>3, <1>4, <1>5 DEF Transmit

LEMMA FinishKeeps == IInv /\ Finish /\ UNCHANGED peer => IInv'
  <1> SUFFICES ASSUME IInv, Finish, UNCHANGED peer PROVE IInv'
    OBVIOUS
  <1> USE SetupTyped, FramesTyped
      DEF IInv, Shape, RoomForClose, NotStarted, ClientOnly, PingsWhileOpen, Reported,
          CloseAlwaysFits, ClosedHoldsNothing, Off, Client, HardCap,
          life, timers, tx, inbox, flow, wire, hist, peer
  <1> USE DEF Begins
  <1>1. CASE CloseTimesOut
    BY <1>1 DEF CloseTimesOut
  <1>2. CASE PongTimesOut
    BY <1>2, ClosedKeeps DEF PongTimesOut, Fail
  <1>3. CASE Settle
    BY <1>3, ClosedKeeps DEF Settle
  <1> QED
    BY <1>1, <1>2, <1>3 DEF Finish

\* The peer takes frames off the wire, but no CLOSE without noticing it.
LEMMA PeerKeeps == IInv /\ Peer => IInv'
  <1> SUFFICES ASSUME IInv, Peer PROVE IInv'
    OBVIOUS
  <1> USE SetupTyped, FramesTyped
      DEF IInv, Shape, RoomForClose, NotStarted, ClientOnly, PingsWhileOpen, Reported,
          CloseAlwaysFits, ClosedHoldsNothing, Off, Client, HardCap,
          life, timers, tx, inbox, flow, wire, hist, peer
  <1> USE DEF Session, Says
  <1>1. ASSUME NEW op, PeerGreets(op) PROVE IInv'
    <2>1. toPeer' \in Seq(Frames) /\ (HasClose(toPeer) => HasClose(toPeer'))
      <3>1. CASE Client
        <4>1. toPeer # <<>> /\ Head(toPeer).op # "close" /\ toPeer' = Tail(toPeer)
          BY <1>1, <3>1 DEF PeerGreets
        <4> QED BY <4>1, CloseInTail
      <3>2. CASE ~Client
        BY <1>1, <3>2 DEF PeerGreets
      <3> QED BY <3>1, <3>2
    <2>2. UNCHANGED <<Session, link, sawClose>>
      BY <1>1 DEF PeerGreets
    <2> QED
      BY <2>1, <2>2
  <1>2. ASSUME NEW op, PeerControl(op) PROVE IInv'
    BY <1>2 DEF PeerControl
  <1>3. ASSUME NEW op, NEW fin, NEW size, NEW valid, PeerData(op, fin, size, valid)
        PROVE  IInv'
    BY <1>3 DEF PeerData
  <1>4. CASE PeerReads
    <2>1. /\ toPeer' \in Seq(Frames) /\ (sawClose => sawClose')
          /\ HasClose(toPeer) => HasClose(toPeer') \/ sawClose'
      BY <1>4, CloseInTail DEF PeerReads
    <2>2. UNCHANGED <<Session, link>>
      BY <1>4 DEF PeerReads
    <2> QED
      BY <2>1, <2>2
  <1>5. ASSUME NEW how, Break(how) PROVE IInv'
    BY <1>5 DEF Break, Faults
  <1> QED
    BY <1>1, <1>2, <1>3, <1>4, <1>5 DEF Peer

LEMMA StepKeeps == IInv /\ [SystemNext]_vars => IInv'
  <1> SUFFICES ASSUME IInv, [SystemNext]_vars PROVE IInv'
    OBVIOUS
  <1>1. CASE SystemNext
    BY <1>1, ApplicationKeeps, TickKeeps, ConnectorKeeps, HandshakeKeeps, ReceiveKeeps,
       DispatchKeeps, TransmitKeeps, FinishKeeps, PeerKeeps
    DEF SystemNext, Act, SessionNext, Handle
  <1>2. CASE UNCHANGED vars
    <2> USE SetupTyped, FramesTyped
      DEF IInv, Shape, RoomForClose, NotStarted, ClientOnly, PingsWhileOpen, Reported,
          CloseAlwaysFits, ClosedHoldsNothing, Off, Client, HardCap,
          life, timers, tx, inbox, flow, wire, hist, peer
    <2> QED
      BY <1>2 DEF vars, wsvars
  <1> QED BY <1>1, <1>2

-----------------------------------------------------------------------------
LEMMA IInvAlways == Spec => []IInv
  <1> QED BY InitHolds, StepKeeps, PTL DEF Spec

\* However full the transmit queue was when the session began to close, its
\* CLOSE was queued and is on its way while the connection lives
\* (_enqueue_internal_frame, _TX_QUEUE_HEADROOM).
THEOREM CloseAlwaysSent == Spec => []CloseAlwaysFits
  <1>1. IInv => CloseAlwaysFits
    BY DEF IInv
  <1> QED BY <1>1, IInvAlways, PTL

\* Nothing a session owns outlives it (_drop_transport, _on_finalized), whatever
\* callbacks, timeouts and errors ended it.
THEOREM NothingHeldAfterClose == Spec => []ClosedHoldsNothing
  <1>1. IInv => ClosedHoldsNothing
    BY DEF IInv
  <1> QED BY <1>1, IInvAlways, PTL

\* on_close was called for every session that ended, but for the request a
\* server turned down (_fail_with_error, _finalize_closed, close).
THEOREM EveryEndReported == Spec => []ClosingReported
  <1>1. IInv => ClosingReported
    BY DEF IInv, Reported, ClosingReported
  <1> QED BY <1>1, IInvAlways, PTL

-----------------------------------------------------------------------------
(* What is on its way to the peer: nothing but PONGs behind a CLOSE        *)

Ended == state \in {"closing", "closed"}

\* CloseIsLast of one part of the outbound path, saw being whether a CLOSE is ahead of it.
Ordered(saw, q) ==
    \A k \in DOMAIN q : saw \/ (\E j \in 1..(k - 1) : q[j].op = "close") => q[k].op = "pong"

OutboundOrdered ==
    /\ Ordered(sawClose, toPeer)
    /\ Ordered(sawClose \/ HasClose(toPeer), partial)
    /\ Ordered(sawClose \/ HasClose(toPeer) \/ HasClose(partial), txq)

\* The CLOSE and the end of OPEN are one step.
NoCloseYet ==
    ~Ended => ~sawClose /\ ~HasClose(toPeer) /\ ~HasClose(partial) /\ ~HasClose(txq)
NothingSent == ~called => toPeer = <<>> /\ partial = <<>> /\ txq = <<>> /\ ~sawClose

OrderInv == sawClose \in BOOLEAN /\ OutboundOrdered /\ NoCloseYet /\ NothingSent

LEMMA OrderedAppend ==
  ASSUME NEW saw \in BOOLEAN, NEW q \in Seq(Frames), NEW f \in Frames,
         Ordered(saw, q), saw \/ HasClose(q) => f.op = "pong"
  PROVE  Ordered(saw, Append(q, f))
  <1>1. /\ DOMAIN Append(q, f) = 1..(Len(q) + 1) /\ DOMAIN q = 1..Len(q) /\ Len(q) \in Nat
        /\ Append(q, f)[Len(q) + 1] = f
        /\ \A k \in 1..Len(q) : Append(q, f)[k] = q[k]
    OBVIOUS
  <1> SUFFICES ASSUME NEW k \in 1..(Len(q) + 1),
                      saw \/ (\E j \in 1..(k - 1) : Append(q, f)[j].op = "close")
               PROVE  Append(q, f)[k].op = "pong"
    BY <1>1 DEF Ordered
  <1>2. \A j \in 1..(k - 1) : j \in 1..Len(q)
    BY <1>1
  <1>3. saw \/ (\E j \in 1..(k - 1) : q[j].op = "close")
    BY <1>1, <1>2, Zenon
  <1>4. CASE k \in 1..Len(q)
    BY <1>1, <1>3, <1>4, Zenon DEF Ordered
  <1>5. CASE k = Len(q) + 1
    <2>1. saw \/ HasClose(q)
      BY <1>1, <1>2, <1>3, Zenon DEF HasClose
    <2> QED BY <1>1, <1>5, <2>1, Zenon
  <1>6. k \in 1..Len(q) \/ k = Len(q) + 1
    BY <1>1
  <1> QED BY <1>4, <1>5, <1>6

LEMMA OrderedTail ==
  ASSUME NEW saw \in BOOLEAN, NEW q \in Seq(Frames), q # <<>>, Ordered(saw, q)
  PROVE  /\ saw => Head(q).op = "pong"
         /\ Ordered(saw \/ Head(q).op = "close", Tail(q))
  <1>1. /\ Head(q) = q[1]
        /\ DOMAIN q = 1..Len(q) /\ Len(q) \in Nat \ {0}
        /\ DOMAIN Tail(q) = 1..(Len(q) - 1)
        /\ \A k \in 1..(Len(q) - 1) : Tail(q)[k] = q[k + 1]
    OBVIOUS
  <1>2. saw => q[1].op = "pong"
    BY <1>1 DEF Ordered
  <1>3. ASSUME NEW k \in 1..(Len(q) - 1),
               saw \/ q[1].op = "close" \/ (\E j \in 1..(k - 1) : Tail(q)[j].op = "close")
        PROVE  Tail(q)[k].op = "pong"
    <2>1. k + 1 \in DOMAIN q /\ Tail(q)[k] = q[k + 1]
      BY <1>1
    <2>2. saw \/ \E j \in 1..((k + 1) - 1) : q[j].op = "close"
      <3>1. CASE q[1].op = "close"
        <4>1. 1 \in 1..((k + 1) - 1)
          OBVIOUS
        <4> QED BY <3>1, <4>1
      <3>2. ASSUME NEW j \in 1..(k - 1), Tail(q)[j].op = "close"
            PROVE  \E i \in 1..((k + 1) - 1) : q[i].op = "close"
        <4>1. j + 1 \in 1..((k + 1) - 1) /\ Tail(q)[j] = q[j + 1]
          BY <1>1
        <4> QED BY <3>2, <4>1
      <3> QED BY <1>3, <3>1, <3>2
    <2> QED BY <2>1, <2>2 DEF Ordered
  <1> QED
    BY <1>1, <1>2, <1>3 DEF Ordered

LEMMA OrderedWeaker ==
  ASSUME NEW saw, NEW less, less => saw, NEW q, Ordered(saw, q)
  PROVE  Ordered(less, q)
  BY DEF Ordered

LEMMA OrderedNone == \A saw \in BOOLEAN : Ordered(saw, <<>>) /\ ~HasClose(<<>>)
  BY DEF Ordered, HasClose

LEMMA OrderedOne ==
  ASSUME NEW saw \in BOOLEAN, NEW f, saw => f.op = "pong"
  PROVE  Ordered(saw, <<f>>) /\ (HasClose(<<f>>) <=> f.op = "close")
  <1>1. DOMAIN <<f>> = {1} /\ <<f>>[1] = f /\ 1..(1 - 1) = {}
    OBVIOUS
  <1> QED BY <1>1, Zenon DEF Ordered, HasClose

LEMMA OrderedConcat ==
  ASSUME NEW saw \in BOOLEAN, NEW p \in Seq(Frames), NEW q \in Seq(Frames),
         Ordered(saw, p), Ordered(saw \/ HasClose(p), q)
  PROVE  /\ p \o q \in Seq(Frames)
         /\ Ordered(saw, p \o q)
         /\ HasClose(p \o q) <=> HasClose(p) \/ HasClose(q)
  <1> DEFINE r == p \o q
  <1>1. /\ r \in Seq(Frames) /\ DOMAIN r = 1..(Len(p) + Len(q))
        /\ DOMAIN p = 1..Len(p) /\ DOMAIN q = 1..Len(q) /\ Len(p) \in Nat /\ Len(q) \in Nat
    OBVIOUS
  <1>2. \A k \in 1..Len(p) : r[k] = p[k]
    OBVIOUS
  <1>3. \A k \in (Len(p) + 1)..(Len(p) + Len(q)) : r[k] = q[k - Len(p)]
    OBVIOUS
  <1> HIDE DEF r
  <1>4. \A k \in 1..Len(q) : r[Len(p) + k] = q[k] /\ Len(p) + k \in DOMAIN r
    <2> SUFFICES ASSUME NEW k \in 1..Len(q)
                 PROVE  r[Len(p) + k] = q[k] /\ Len(p) + k \in DOMAIN r
      OBVIOUS
    <2>1. Len(p) + k \in (Len(p) + 1)..(Len(p) + Len(q)) /\ (Len(p) + k) - Len(p) = k
      BY <1>1
    <2>2. r[Len(p) + k] = q[(Len(p) + k) - Len(p)]
      BY <1>3, <2>1
    <2> QED BY <1>1, <2>1, <2>2
  <1>5. \A k \in DOMAIN r : k \in 1..Len(p) \/ (k - Len(p) \in 1..Len(q) /\ r[k] = q[k - Len(p)])
    BY <1>1, <1>3
  <1>6. HasClose(r) <=> HasClose(p) \/ HasClose(q)
    <2>1. \A k \in 1..Len(p) : k \in DOMAIN r
      BY <1>1
    <2>2. ASSUME NEW k \in DOMAIN r, r[k].op = "close" PROVE HasClose(p) \/ HasClose(q)
      BY <1>1, <1>2, <1>5, <2>2, Zenon DEF HasClose
    <2>3. HasClose(p) => HasClose(r)
      BY <1>1, <1>2, <2>1, Zenon DEF HasClose
    <2>4. HasClose(q) => HasClose(r)
      BY <1>1, <1>4, Zenon DEF HasClose
    <2> QED BY <2>2, <2>3, <2>4, Zenon DEF HasClose
  <1>7. Ordered(saw, r)
    <2> SUFFICES ASSUME NEW k \in DOMAIN r, saw \/ (\E j \in 1..(k - 1) : r[j].op = "close")
                 PROVE  r[k].op = "pong"
      BY DEF Ordered
    <2>1. CASE k \in 1..Len(p)
      <3>1. \A j \in 1..(k - 1) : j \in 1..Len(p)
        BY <1>1, <2>1
      <3>2. saw \/ \E j \in 1..(k - 1) : p[j].op = "close"
        BY <1>2, <3>1, Zenon
      <3> QED BY <1>1, <1>2, <2>1, <3>2, Zenon DEF Ordered
    <2>2. CASE k \notin 1..Len(p)
      <3>1. k - Len(p) \in DOMAIN q /\ r[k] = q[k - Len(p)]
        BY <1>1, <1>5, <2>2
      <3>2. (saw \/ HasClose(p)) \/ \E j \in 1..((k - Len(p)) - 1) : q[j].op = "close"
        <4>1. ASSUME NEW j \in 1..(k - 1), r[j].op = "close"
              PROVE  HasClose(p) \/ \E i \in 1..((k - Len(p)) - 1) : q[i].op = "close"
          <5>1. j \in DOMAIN r
            BY <1>1
          <5>2. CASE j \in 1..Len(p)
            BY <1>1, <1>2, <4>1, <5>2 DEF HasClose
          <5>3. CASE j - Len(p) \in 1..Len(q) /\ r[j] = q[j - Len(p)]
            <6>1. j - Len(p) \in 1..((k - Len(p)) - 1)
              BY <1>1, <5>3
            <6> QED BY <4>1, <5>3, <6>1
          <5> QED BY <1>5, <5>1, <5>2, <5>3
        <4> QED BY <4>1
      <3> QED BY <3>1, <3>2 DEF Ordered
    <2> QED BY <2>1, <2>2
  <1> QED BY <1>1, <1>6, <1>7 DEF r

LEMMA OutboundLast == ASSUME Shape, sawClose \in BOOLEAN, OutboundOrdered PROVE CloseIsLast
  <1>1. toPeer \in Seq(Frames) /\ partial \in Seq(Frames) /\ txq \in Seq(Frames)
    BY DEF Shape
  <1>2. HasClose(toPeer) \in BOOLEAN /\ HasClose(partial) \in BOOLEAN
    BY DEF HasClose
  <1>3. /\ toPeer \o partial \in Seq(Frames)
        /\ Ordered(sawClose, toPeer \o partial)
        /\ HasClose(toPeer \o partial) <=> HasClose(toPeer) \/ HasClose(partial)
    BY <1>1, <1>2, OrderedConcat DEF OutboundOrdered
  <1>4. Ordered(sawClose \/ HasClose(toPeer \o partial), txq)
    BY <1>3, <1>2 DEF OutboundOrdered, Ordered
  <1>5. Ordered(sawClose, Outbound)
    BY <1>1, <1>3, <1>4, OrderedConcat DEF Outbound
  <1> QED BY <1>5 DEF Ordered, CloseIsLast

\* A step that sends nothing; a client that was closed before it was started may start.
LEMMA NothingQueued ==
  ASSUME OrderInv, IInv, UNCHANGED <<toPeer, partial, txq, sawClose>>, called => called',
         ~Ended' => ~Ended \/ ~called
  PROVE  OrderInv'
  <1> USE DEF OrderInv, OutboundOrdered, NoCloseYet, NothingSent, Ordered, HasClose
  <1>1. OutboundOrdered'
    OBVIOUS
  <1>2. NothingSent'
    OBVIOUS
  <1>3. NoCloseYet'
    OBVIOUS
  <1> QED BY <1>1, <1>2, <1>3

\* A frame joins the queue: a CLOSE ends OPEN, after it only a PONG may.
LEMMA FrameQueued ==
  ASSUME OrderInv, IInv, UNCHANGED <<toPeer, partial, sawClose, called>>, called,
         NEW f \in Frames, txq' = txq \/ txq' = Append(txq, f),
         f.op = "close" => Ended', ~Ended' => ~Ended,
         f.op = "pong" \/ ~Ended
  PROVE  OrderInv'
  <1> DEFINE saw == sawClose \/ HasClose(toPeer) \/ HasClose(partial)
  <1>1. saw \in BOOLEAN /\ txq \in Seq(Frames)
    BY DEF HasClose, IInv, Shape, OrderInv
  <1>2. saw \/ HasClose(txq) => Ended
    BY DEF OrderInv, NoCloseYet
  <1>3. Ordered(saw, txq')
    BY <1>1, <1>2, OrderedAppend DEF OrderInv, OutboundOrdered
  <1>4. OutboundOrdered'
    BY <1>3 DEF OrderInv, OutboundOrdered, Ordered, HasClose
  <1>5. HasClose(txq') => HasClose(txq) \/ f.op = "close"
    <2>1. HasClose(Append(txq, f)) <=> HasClose(txq) \/ f.op = "close"
      BY <1>1, CloseInAppend
    <2>2. txq' = txq \/ txq' = Append(txq, f)
      OBVIOUS
    <2>3. CASE txq' = txq
      BY <2>3, Zenon DEF HasClose
    <2>4. CASE txq' = Append(txq, f)
      BY <2>1, <2>4, Zenon DEF HasClose
    <2> QED BY <2>2, <2>3, <2>4
  <1>6. NoCloseYet'
    <2> SUFFICES ASSUME ~Ended' PROVE NoCloseYet'
      BY DEF NoCloseYet
    <2>1. ~sawClose /\ ~HasClose(toPeer) /\ ~HasClose(partial) /\ ~HasClose(txq')
      BY <1>5 DEF OrderInv, NoCloseYet
    <2> QED BY <2>1 DEF NoCloseYet, HasClose
  <1> QED BY <1>4, <1>6 DEF OrderInv, NothingSent

LEMMA CloseQueued ==
  ASSUME OrderInv, IInv, UNCHANGED <<toPeer, partial, sawClose, called>>, called,
         SendClose
  PROVE  OrderInv'
  <1>1. CASE Ended
    BY <1>1, NothingQueued DEF SendClose, Ended
  <1>2. CASE ~Ended
    <2>1. txq' = txq \/ txq' = Append(txq, CloseFrame)
      BY <1>2 DEF SendClose, EnqueueInternal, Ended
    <2>2. state' = "closing" /\ CloseFrame \in Frames
      BY <1>2, FramesTyped DEF SendClose, Ended
    <2> QED BY <1>2, <2>1, <2>2, FrameQueued DEF Ended
  <1> QED BY <1>1, <1>2

LEMMA ApplicationOrdered == OrderInv /\ IInv /\ Application /\ UNCHANGED peer => OrderInv'
  <1> SUFFICES ASSUME OrderInv, IInv, Application, UNCHANGED peer PROVE OrderInv'
    OBVIOUS
  <1> USE DEF life, timers, tx, inbox, flow, wire, hist, peer, Ended
  <1>0. called \/ pc = "idle"
    BY DEF IInv, NotStarted
  <1>1. ASSUME NEW r \in BOOLEAN, Connect(r) PROVE OrderInv'
    <2>1. UNCHANGED <<toPeer, partial, txq, sawClose>> /\ ~called /\ called'
      BY <1>1 DEF Connect
    <2> QED BY <2>1, NothingQueued
  <1>2. CASE Send
    <2>1. called
      BY <1>2 DEF Send, IInv, NotStarted
    <2> QED BY <1>2, <2>1, FrameQueued, FramesTyped DEF Send, DataFrame
  <1>3. CASE SendPing
    <2>1. called
      BY <1>3 DEF SendPing, IInv, NotStarted
    <2> QED BY <1>3, <2>1, FrameQueued, FramesTyped DEF SendPing, PingFrame
  <1>4. CASE Close
    <2>1. called
      BY <1>4 DEF Close, IInv, NotStarted
    <2> QED BY <1>4, <2>1, CloseQueued DEF Close
  <1>5. CASE Abort
    BY <1>5, NothingQueued DEF Abort, Closed, DropTransport, OnFinalized
  <1>6. CASE Shutdown
    <2>1. called /\ UNCHANGED <<toPeer, partial, sawClose, called>>
      BY <1>6 DEF Shutdown, IInv, NotStarted
    <2>2. SendClose \/ UNCHANGED <<state, txq>>
      BY <1>6 DEF Shutdown
    <2> QED BY <2>1, <2>2, CloseQueued, NothingQueued
  <1>7. CASE Raise
    BY <1>7, NothingQueued DEF Raise, Closed, DropTransport
  <1>8. CASE NextMessage
    BY <1>8, NothingQueued DEF NextMessage
  <1> QED
    BY <1>1, <1>2, <1>3, <1>4, <1>5, <1>6, <1>7, <1>8 DEF Application

LEMMA OpeningOrdered ==
  OrderInv /\ IInv /\ (Tick \/ Connector \/ Handshake) /\ UNCHANGED peer => OrderInv'
  <1> SUFFICES ASSUME OrderInv, IInv, Tick \/ Connector \/ Handshake, UNCHANGED peer
               PROVE  OrderInv'
    OBVIOUS
  <1> USE DEF life, timers, tx, inbox, flow, wire, hist, peer, Ended
  <1>1. CASE Tick
    BY <1>1, NothingQueued DEF Tick
  <1>2. CASE Connector
    BY <1>2, NothingQueued
       DEF Connector, ConnectorReady, ConnectorFails, Fail, Closed, DropTransport
  <1>3. CASE HandshakeTimesOut \/ SendHelloFails \/ HandshakeCut \/ Refused
    BY <1>3, NothingQueued
       DEF HandshakeTimesOut, SendHelloFails, HandshakeCut, Refused, Fail, Closed, DropTransport
  <1>4. ASSUME NEW n \in 1..Len(toUs), RecvHello(n) PROVE OrderInv'
    BY <1>4, NothingQueued DEF RecvHello, Handshaking
  <1>5. CASE SendHello
    <2>1. /\ toPeer' = toPeer \/ toPeer' = Append(toPeer, Hello)
          /\ UNCHANGED <<partial, txq, sawClose, called>>
          /\ called /\ state = "connecting" /\ ~Ended'
      BY <1>5 DEF SendHello, Deliver, Handshaking, InTime, Begins
    <2>2. ~sawClose /\ ~HasClose(toPeer)
      BY <2>1 DEF OrderInv, NoCloseYet
    <2>3. Hello \in Frames /\ Hello.op # "close" /\ toPeer \in Seq(Frames)
      BY FramesTyped DEF Hello, IInv, Shape
    <2>4. Ordered(sawClose, toPeer')
      BY <2>1, <2>2, <2>3, OrderedAppend DEF OrderInv, OutboundOrdered
    <2>5. ~HasClose(toPeer')
      <3>1. ~HasClose(Append(toPeer, Hello))
        BY <2>2, <2>3, CloseInAppend
      <3> QED BY <2>1, <2>2, <3>1 DEF HasClose
    <2> QED
      BY <2>1, <2>2, <2>4, <2>5
         DEF OrderInv, OutboundOrdered, NoCloseYet, NothingSent, Ordered, HasClose
  <1> QED
    BY <1>1, <1>2, <1>3, <1>4, <1>5 DEF Handshake

LEMMA InboundOrdered ==
  OrderInv /\ IInv /\ (Receive \/ Dispatch \/ Finish) /\ UNCHANGED peer => OrderInv'
  <1> SUFFICES ASSUME OrderInv, IInv, Receive \/ Dispatch \/ Finish, UNCHANGED peer
               PROVE  OrderInv'
    OBVIOUS
  <1> USE DEF life, timers, tx, inbox, flow, wire, hist, peer, Ended
  <1>1. CASE BeginRecv \/ RecvStops \/ RecvEnds \/ FeedDone
    BY <1>1, NothingQueued DEF BeginRecv, RecvStops, RecvEnds, FeedDone, Fail, Closed, DropTransport
  <1>2. ASSUME NEW n \in 1..Len(toUs), RecvChunk(n) PROVE OrderInv'
    BY <1>2, NothingQueued DEF RecvChunk
  <1>3. CASE Finish
    BY <1>3, NothingQueued
       DEF Finish, CloseTimesOut, PongTimesOut, Settle, Fail, Closed, DropTransport
  <1>4. CASE DispatchPong \/ DispatchFragment
    BY <1>4, NothingQueued DEF DispatchPong, DispatchFragment
  <1>5. CASE DispatchPing
    <2>1. called
      BY <1>5 DEF DispatchPing, Feeds, IInv, NotStarted
    <2>2. txq' = txq \/ txq' = Append(txq, PongFrame)
      BY <1>5 DEF DispatchPing, EnqueueInternal
    <2> QED
      BY <1>5, <2>1, <2>2, FrameQueued, FramesTyped DEF DispatchPing, PongFrame
  <1>6. CASE DispatchInvalid \/ DispatchClose \/ DispatchMisplaced \/ DispatchFinal
    <2>1. called /\ UNCHANGED <<toPeer, partial, sawClose, called>>
      BY <1>6 DEF DispatchInvalid, DispatchClose, DispatchMisplaced, DispatchFinal, Feeds,
                  IInv, NotStarted
    <2>2. SendClose \/ UNCHANGED <<state, txq>>
      BY <1>6 DEF DispatchInvalid, DispatchClose, DispatchMisplaced, DispatchFinal,
                  FinishMessage, DeliverMessage, DropMessage
    <2> QED BY <2>1, <2>2, CloseQueued, NothingQueued
  <1> QED
    BY <1>1, <1>2, <1>3, <1>4, <1>5, <1>6 DEF Receive, Dispatch

\* The frame that is sent next keeps its place before what is behind it.
LEMMA CurrentOrdered ==
  ASSUME Shape, Unsent, OutboundOrdered, sawClose \in BOOLEAN
  PROVE  /\ sawClose \/ HasClose(toPeer) => Current.op = "pong"
         /\ Ordered(sawClose \/ HasClose(toPeer) \/ Current.op = "close", Behind)
         /\ Current.op = "close" \/ HasClose(Behind) <=> HasClose(partial) \/ HasClose(txq)
  <1> DEFINE saw == sawClose \/ HasClose(toPeer)
  <1>1. saw \in BOOLEAN
    BY DEF HasClose
  <1>2. CASE partial # <<>>
    <2>1. DOMAIN partial = {1} /\ 1..(1 - 1) = {}
      <3>1. partial \in Seq(Frames) /\ Len(partial) <= 1
        BY DEF Shape
      <3>2. Len(partial) \in Nat /\ DOMAIN partial = 1..Len(partial)
        BY <3>1
      <3>3. Len(partial) # 0
        BY <1>2, <3>1
      <3>4. Len(partial) = 1
        BY <3>1, <3>2, <3>3
      <3> QED BY <3>2, <3>4
    <2>2. Current = partial[1] /\ Behind = txq
      BY <1>2 DEF Current, Behind
    <2>3. HasClose(partial) <=> Current.op = "close"
      BY <2>1, <2>2, Zenon DEF HasClose
    <2>4. Ordered(saw, partial)
      BY DEF OutboundOrdered
    <2>5. saw => Current.op = "pong"
      BY <2>1, <2>2, <2>4, Zenon DEF Ordered
    <2>6. Ordered(saw \/ HasClose(partial), txq)
      BY DEF OutboundOrdered
    <2>7. Ordered(saw \/ Current.op = "close", Behind)
      BY <2>2, <2>3, <2>6, Zenon DEF Ordered
    <2> QED BY <2>2, <2>3, <2>5, <2>7
  <1>3. CASE partial = <<>>
    <2>1. ~HasClose(partial)
      BY <1>3 DEF HasClose
    <2>2. Current = Head(txq) /\ Behind = Tail(txq) /\ txq # <<>> /\ txq \in Seq(Frames)
      BY <1>3 DEF Current, Behind, Unsent, Shape
    <2>3. Ordered(saw, txq)
      BY <2>1 DEF OutboundOrdered, Ordered
    <2>4. (saw => Current.op = "pong") /\ Ordered(saw \/ Current.op = "close", Behind)
      BY <1>1, <2>2, <2>3, OrderedTail
    <2>5. HasClose(txq) <=> Current.op = "close" \/ HasClose(Behind)
      BY <2>2, CloseInTail
    <2> QED BY <2>1, <2>4, <2>5
  <1> QED BY <1>2, <1>3

LEMMA TransmitOrdered == OrderInv /\ IInv /\ Transmit /\ UNCHANGED peer => OrderInv'
  <1> SUFFICES ASSUME OrderInv, IInv, Transmit, UNCHANGED peer PROVE OrderInv'
    OBVIOUS
  <1> USE DEF life, timers, tx, inbox, flow, wire, hist, peer
  <1> DEFINE saw == sawClose \/ HasClose(toPeer)
  <1>0. saw \in BOOLEAN /\ sawClose \in BOOLEAN
    BY DEF HasClose, OrderInv
  <1>1. CASE DrainDone
    BY <1>1, NothingQueued DEF DrainDone, Ended
  <1>2. CASE \/ \E more \in BOOLEAN : SendFrame(more)
             \/ SendBlocked \/ SendFails
    <2>1. Unsent /\ called /\ called' = called /\ sawClose' = sawClose /\ txq' = Behind
      BY <1>2 DEF SendFrame, SendBlocked, SendFails, Drains, Fetch, Closed, IInv, NotStarted
    <2>2. Ended => Ended'
      BY <1>2 DEF Ended, SendFrame, SendBlocked, SendFails, Closed, DropTransport
    <2>3. /\ saw => Current.op = "pong"
          /\ Ordered(saw \/ Current.op = "close", Behind)
          /\ Current.op = "close" \/ HasClose(Behind) <=> HasClose(partial) \/ HasClose(txq)
          /\ Current \in Frames
      BY <1>0, <2>1, CurrentOrdered, CurrentFrame DEF OrderInv, IInv
    <2>4. CASE Fetch /\ toPeer' = toPeer
      <3>1. Ordered(saw, <<Current>>) /\ (HasClose(<<Current>>) <=> Current.op = "close")
        BY <1>0, <2>3, OrderedOne
      <3>2. partial' = <<Current>>
        BY <2>4 DEF Fetch
      <3>3. Ordered(saw, partial') /\ (HasClose(partial') <=> Current.op = "close")
        BY <3>1, <3>2, Zenon DEF HasClose
      <3>4. Ordered(saw \/ HasClose(partial'), txq')
        BY <2>1, <2>3, <3>3, Zenon DEF Ordered
      <3>5. OutboundOrdered'
        BY <2>1, <2>4, <3>3, <3>4 DEF OutboundOrdered, OrderInv, Ordered, HasClose
      <3>6. HasClose(partial') \/ HasClose(txq') => HasClose(partial) \/ HasClose(txq)
        BY <2>1, <2>3, <3>3
      <3>7. NoCloseYet'
        BY <2>1, <2>2, <2>4, <3>6 DEF NoCloseYet, OrderInv, HasClose
      <3> QED BY <1>0, <2>1, <3>5, <3>7 DEF OrderInv, NothingSent
    <2>5. CASE partial' = <<>> /\ Deliver(Current)
      <3>1. toPeer' = toPeer \/ toPeer' = Append(toPeer, Current)
        BY <2>5 DEF Deliver
      <3>2. toPeer \in Seq(Frames)
        BY DEF IInv, Shape
      <3>3. /\ Ordered(sawClose, Append(toPeer, Current))
            /\ HasClose(Append(toPeer, Current)) <=> HasClose(toPeer) \/ Current.op = "close"
        BY <1>0, <2>3, <3>2, OrderedAppend, CloseInAppend DEF OrderInv, OutboundOrdered
      <3>4. Ordered(sawClose, toPeer')
        BY <3>1, <3>3 DEF OrderInv, OutboundOrdered
      <3>5. HasClose(toPeer') => HasClose(toPeer) \/ Current.op = "close"
        BY <3>1, <3>3, Zenon DEF HasClose
      <3>6. ~HasClose(partial') /\ Ordered(TRUE, partial') /\ Ordered(FALSE, partial')
        BY <2>5, Zenon, OrderedNone
      <3>7. Ordered(sawClose \/ HasClose(toPeer') \/ HasClose(partial'), txq')
        BY <2>1, <2>3, <3>5, <3>6, Zenon DEF Ordered
      <3>8. OutboundOrdered'
        BY <2>1, <3>4, <3>6, <3>7 DEF OutboundOrdered, Ordered, HasClose
      <3>9. NoCloseYet'
        BY <2>1, <2>2, <2>3, <3>5, <3>6 DEF NoCloseYet, OrderInv, HasClose
      <3> QED BY <1>0, <2>1, <3>8, <3>9 DEF OrderInv, NothingSent
    <2> QED
      BY <1>2, <2>4, <2>5 DEF SendFrame, SendBlocked, SendFails
  <1>3. CASE AutoPing
    <2>1. called /\ state = "open"
      BY <1>3 DEF AutoPing, IInv, NotStarted, PingsWhileOpen
    <2>2. txq' = txq \/ txq' = Append(txq, PingFrame)
      BY <1>3 DEF AutoPing, EnqueueInternal
    <2> QED
      BY <1>3, <2>1, <2>2, FrameQueued, FramesTyped DEF AutoPing, PingFrame, Ended
  <1> QED
    BY <1>1, <1>2, <1>3 DEF Transmit

LEMMA PeerOrdered == OrderInv /\ IInv /\ Peer => OrderInv'
  <1> SUFFICES ASSUME OrderInv, IInv, Peer PROVE OrderInv'
    OBVIOUS
  <1> USE DEF life, timers, tx, inbox, flow, hist, Session, Says
  <1>0. toPeer \in Seq(Frames) /\ sawClose \in BOOLEAN
    BY DEF IInv, Shape, OrderInv
  <1>1. ASSUME toPeer # <<>>, toPeer' = Tail(toPeer), UNCHANGED <<partial, txq, called, state>>,
               sawClose' = (sawClose \/ Head(toPeer).op = "close")
        PROVE  OrderInv'
    <2>1. HasClose(toPeer) <=> Head(toPeer).op = "close" \/ HasClose(toPeer')
      <3>1. HasClose(toPeer) <=> Head(toPeer).op = "close" \/ HasClose(Tail(toPeer))
        BY <1>0, <1>1, CloseInTail
      <3> QED BY <1>1, <3>1, Zenon DEF HasClose
    <2>2. Ordered(sawClose', toPeer')
      <3>1. Ordered(sawClose \/ Head(toPeer).op = "close", Tail(toPeer))
        BY <1>0, <1>1, OrderedTail DEF OrderInv, OutboundOrdered
      <3> QED BY <1>1, <3>1, Zenon DEF Ordered
    <2>3. sawClose' \/ HasClose(toPeer') <=> sawClose \/ HasClose(toPeer)
      BY <1>1, <2>1
    <2>4. OutboundOrdered'
      BY <1>1, <2>2, <2>3 DEF OrderInv, OutboundOrdered, Ordered, HasClose
    <2>5. NoCloseYet'
      BY <1>1, <2>1 DEF OrderInv, NoCloseYet, Ended, HasClose
    <2> QED BY <1>0, <1>1, <2>4, <2>5 DEF OrderInv, NothingSent
  <1>2. ASSUME NEW op, PeerGreets(op) PROVE OrderInv'
    <2>1. CASE Client
      <3>1. Head(toPeer).op # "close"
        BY <1>2, <2>1 DEF PeerGreets
      <3> QED BY <1>0, <1>1, <1>2, <2>1, <3>1 DEF PeerGreets
    <2>2. CASE ~Client
      BY <1>2, <2>2, NothingQueued DEF PeerGreets, Ended
    <2> QED BY <2>1, <2>2
  <1>3. ASSUME NEW op, PeerControl(op) PROVE OrderInv'
    BY <1>3, NothingQueued DEF PeerControl, Ended
  <1>4. ASSUME NEW op, NEW fin, NEW size, NEW valid, PeerData(op, fin, size, valid)
        PROVE  OrderInv'
    BY <1>4, NothingQueued DEF PeerData, Ended
  <1>5. CASE PeerReads
    BY <1>1, <1>5 DEF PeerReads
  <1>6. ASSUME NEW how, Break(how) PROVE OrderInv'
    <2>1. toPeer' = <<>> /\ UNCHANGED <<partial, txq, called, state, sawClose>>
      BY <1>6 DEF Break
    <2>2. Ordered(sawClose', toPeer') /\ ~HasClose(toPeer')
      BY <1>0, <2>1, OrderedNone, Zenon DEF HasClose
    <2> QED
      BY <1>0, <2>1, <2>2
         DEF OrderInv, OutboundOrdered, NoCloseYet, NothingSent, Ordered, Ended, HasClose
  <1> QED
    BY <1>2, <1>3, <1>4, <1>5, <1>6 DEF Peer

LEMMA OrderStep == OrderInv /\ IInv /\ [SystemNext]_vars => OrderInv'
  <1> SUFFICES ASSUME OrderInv, IInv, [SystemNext]_vars PROVE OrderInv'
    OBVIOUS
  <1>1. CASE SystemNext
    BY <1>1, ApplicationOrdered, OpeningOrdered, InboundOrdered, TransmitOrdered, PeerOrdered
    DEF SystemNext, Act, SessionNext, Handle
  <1>2. CASE UNCHANGED vars
    BY <1>2, NothingQueued DEF vars, wsvars, life, tx, wire, peer, Ended
  <1> QED BY <1>1, <1>2

\* Whatever the callbacks do and however the connection ends: after its CLOSE a session
\* sends nothing but answers to pings, and no second CLOSE (_send_close).
THEOREM NothingAfterClose == Spec => []CloseIsLast
  <1>1. SystemInit => OrderInv
    BY OrderedNone
       DEF SystemInit, Init, OrderInv, OutboundOrdered, NoCloseYet, NothingSent, HasClose
  <1>2. OrderInv /\ IInv => CloseIsLast
    BY OutboundLast DEF OrderInv, IInv
  <1> QED BY <1>1, <1>2, IInvAlways, OrderStep, PTL DEF Spec

-----------------------------------------------------------------------------
(* The timers of an open session are ahead when handle() returns           *)

\* While handle() runs, an open session's PONG deadline is ahead; so is its next ping
\* while it is fed what came with the handshake, where nothing looks at it.
DeadlineAhead == pc # "idle" /\ state = "open" => pongAt # 0
PingAhead == carrying => pingAt = Off \/ (pc \in {"feed", "flush", "settle"} /\ pingAt # 0)
CloseTimed == closeAt # Off => state = "closing"

TimerInv == DeadlineAhead /\ PingAhead /\ CloseTimed

\* What a step does to timers it does not touch.
LEMMA TimersUntouched ==
  ASSUME TimerInv, UNCHANGED <<timers, state, pc, carrying>>
  PROVE  TimerInv'
  BY DEF TimerInv, DeadlineAhead, PingAhead, CloseTimed, timers

LEMMA ClosedTimed ==
  ASSUME TimerInv, ClientOnly, NEW next, Closed(next)
  PROVE  TimerInv'
  <1>1. state' = "closed" /\ closeAt' = Off /\ (Client => pingAt' = Off)
        /\ (~Client => pingAt' = pingAt)
    BY DEF Closed, DropTransport, OnFinalized
  <1>2. pingAt' = Off
    BY <1>1 DEF ClientOnly
  <1> QED BY <1>1, <1>2 DEF TimerInv, DeadlineAhead, PingAhead, CloseTimed

LEMMA ClosingTimed ==
  ASSUME TimerInv, SendClose, UNCHANGED <<pongAt, pingAt, carrying>>,
         pc' = pc \/ (pc' = "flush" /\ pc = "feed")
  PROVE  TimerInv'
  <1>1. \/ state' = "closing"
        \/ state \in {"closing", "closed"} /\ UNCHANGED <<state, closeAt>>
    BY DEF SendClose
  <1> QED
    BY <1>1 DEF TimerInv, DeadlineAhead, PingAhead, CloseTimed

LEMMA ApplicationTimed == TimerInv /\ IInv /\ Application /\ UNCHANGED peer => TimerInv'
  <1> SUFFICES ASSUME TimerInv, IInv, Application, UNCHANGED peer PROVE TimerInv'
    OBVIOUS
  <1> USE DEF life, timers, flow
  <1>0. ClientOnly
    BY DEF IInv
  <1>1. ASSUME NEW r \in BOOLEAN, Connect(r) PROVE TimerInv'
    <2>1. /\ pc = "idle" /\ UNCHANGED <<pongAt, pingAt, closeAt, pc, carrying>>
          /\ ~called
      BY <1>1 DEF Connect
    <2>2. closeAt = Off
      BY <2>1 DEF IInv, NotStarted, TimerInv, CloseTimed
    <2> QED
      BY <2>1, <2>2 DEF TimerInv, DeadlineAhead, PingAhead, CloseTimed
  <1>2. CASE Send \/ NextMessage
    BY <1>2, TimersUntouched DEF Send, NextMessage
  <1>3. CASE SendPing
    <2>1. pongAt' = pongAt \/ pongAt' # 0
      BY <1>3, WebSocketAssumption DEF SendPing, ArmPong, WebSocketAssumption
    <2> QED
      BY <1>3, <2>1 DEF SendPing, TimerInv, DeadlineAhead, PingAhead, CloseTimed
  <1>4. CASE Close
    BY <1>4, ClosingTimed DEF Close
  <1>5. CASE Abort
    BY <1>0, <1>5, ClosedTimed DEF Abort
  <1>6. CASE Shutdown
    <2>1. /\ pingAt = Off /\ UNCHANGED <<pongAt, pingAt, carrying>> /\ state' # "open"
          /\ closeAt' = Off \/ state' = "closing"
      BY <1>0, <1>6 DEF Shutdown, SendClose, ClientOnly, TimerInv, CloseTimed
    <2> QED
      BY <2>1 DEF TimerInv, DeadlineAhead, PingAhead, CloseTimed
  <1>7. CASE Raise
    <2>1. CASE cb = "on_connection"
      BY <1>0, <1>7, <2>1, ClosedTimed DEF Raise
    <2>2. CASE cb # "on_connection"
      BY <1>7, <2>2 DEF Raise, TimerInv, DeadlineAhead, PingAhead, CloseTimed
    <2> QED BY <2>1, <2>2
  <1> QED
    BY <1>1, <1>2, <1>3, <1>4, <1>5, <1>6, <1>7 DEF Application

LEMMA OpeningTimed ==
  TimerInv /\ IInv /\ (Tick \/ Connector \/ Handshake) /\ UNCHANGED peer => TimerInv'
  <1> SUFFICES ASSUME TimerInv, IInv, Tick \/ Connector \/ Handshake, UNCHANGED peer
               PROVE  TimerInv'
    OBVIOUS
  <1> USE DEF life, timers, flow
  <1>0. ClientOnly
    BY DEF IInv
  <1>1. CASE Tick
    BY <1>1 DEF Tick, Left, Off, TimerInv, DeadlineAhead, PingAhead, CloseTimed
  <1>2. CASE ConnectorReady
    BY <1>2, TimersUntouched DEF ConnectorReady
  <1>3. CASE ConnectorFails \/ HandshakeTimesOut \/ SendHelloFails \/ HandshakeCut
    BY <1>0, <1>3, ClosedTimed
       DEF ConnectorFails, HandshakeTimesOut, SendHelloFails, HandshakeCut, Fail
  <1>4. CASE Refused
    <2>1. CASE Client
      BY <1>0, <1>4, <2>1, ClosedTimed DEF Refused, Fail
    <2>2. CASE ~Client
      BY <1>0, <1>4, <2>2
         DEF Refused, DropTransport, ClientOnly, TimerInv, DeadlineAhead, PingAhead, CloseTimed
    <2> QED BY <2>1, <2>2
  <1>5. CASE SendHello
    <2>1. /\ pc = "idle" /\ pongAt # 0 /\ state = "connecting"
          /\ UNCHANGED <<pongAt, pingAt, closeAt>>
          /\ ~Client \/ UNCHANGED <<state, pc, carrying>>
      BY <1>5 DEF SendHello, Handshaking, InTime, Begins
    <2>2. closeAt = Off
      BY <2>1 DEF TimerInv, CloseTimed
    <2> QED
      BY <1>0, <2>1, <2>2 DEF ClientOnly, TimerInv, DeadlineAhead, PingAhead, CloseTimed
  <1>6. ASSUME NEW n \in 1..Len(toUs), RecvHello(n) PROVE TimerInv'
    <2>1. /\ pc = "idle" /\ pongAt # 0 /\ state = "connecting"
          /\ UNCHANGED <<pongAt, closeAt>>
          /\ \/ Client /\ pc' = "feed" /\ ArmPing
             \/ UNCHANGED <<state, pc, carrying, pingAt>>
      BY <1>6 DEF RecvHello, Handshaking, InTime, Begins
    <2>2. closeAt = Off
      BY <2>1 DEF TimerInv, CloseTimed
    <2>3. ArmPing => pingAt' # 0
      BY WebSocketAssumption DEF WebSocketAssumption, ArmPing, Off
    <2> QED
      BY <2>1, <2>2, <2>3 DEF TimerInv, DeadlineAhead, PingAhead, CloseTimed
  <1> QED
    BY <1>1, <1>2, <1>3, <1>4, <1>5, <1>6 DEF Connector, Handshake

LEMMA InboundTimed ==
  TimerInv /\ IInv /\ (Receive \/ Dispatch) /\ UNCHANGED peer => TimerInv'
  <1> SUFFICES ASSUME TimerInv, IInv, Receive \/ Dispatch, UNCHANGED peer PROVE TimerInv'
    OBVIOUS
  <1> USE DEF life, timers, flow
  <1>0. ClientOnly
    BY DEF IInv
  <1>1. CASE BeginRecv
    BY <1>1 DEF BeginRecv, InTime, Begins, TimerInv, DeadlineAhead, PingAhead, CloseTimed
  <1>2. CASE RecvStops \/ \E n \in 1..Len(toUs) : RecvChunk(n)
    BY <1>2 DEF RecvStops, RecvChunk, TimerInv, DeadlineAhead, PingAhead, CloseTimed
  <1>3. CASE RecvEnds
    BY <1>0, <1>3, ClosedTimed DEF RecvEnds, Fail
  <1>4. CASE FeedDone
    BY <1>4 DEF FeedDone, TimerInv, DeadlineAhead, PingAhead, CloseTimed
  <1>5. CASE DispatchPing \/ DispatchFragment
    BY <1>5, TimersUntouched DEF DispatchPing, DispatchFragment
  <1>6. CASE DispatchPong
    BY <1>6 DEF DispatchPong, DisarmPong, Off, TimerInv, DeadlineAhead, PingAhead, CloseTimed
  <1>7. CASE DispatchInvalid \/ DispatchMisplaced \/ DispatchClose
    BY <1>7, ClosingTimed DEF DispatchInvalid, DispatchMisplaced, DispatchClose, Feeds
  <1>8. CASE DispatchFinal
    <2>1. SendClose \/ UNCHANGED <<state, closeAt>>
      BY <1>8 DEF DispatchFinal, FinishMessage, DeliverMessage, DropMessage
    <2> QED BY <1>8, <2>1, ClosingTimed, TimersUntouched DEF DispatchFinal
  <1> QED
    BY <1>1, <1>2, <1>3, <1>4, <1>5, <1>6, <1>7, <1>8 DEF Receive, Dispatch

LEMMA OutboundTimed ==
  TimerInv /\ IInv /\ (Transmit \/ Finish) /\ UNCHANGED peer => TimerInv'
  <1> SUFFICES ASSUME TimerInv, IInv, Transmit \/ Finish, UNCHANGED peer PROVE TimerInv'
    OBVIOUS
  <1> USE DEF life, timers, flow
  <1>0. ClientOnly
    BY DEF IInv
  <1>1. CASE SendFails \/ PongTimesOut \/ Settle
    BY <1>0, <1>1, ClosedTimed DEF SendFails, PongTimesOut, Settle, Fail
  <1>2. CASE CloseTimesOut
    <2>1. state = "closing"
      BY <1>2 DEF CloseTimesOut, TimerInv, CloseTimed, Off
    <2> QED
      BY <1>2, <2>1 DEF CloseTimesOut, Begins, TimerInv, DeadlineAhead, PingAhead, CloseTimed
  <1>3. CASE DrainDone \/ SendBlocked \/ \E more \in BOOLEAN : SendFrame(more)
    <2>1. /\ UNCHANGED <<timers, state, carrying>>
          /\ pc \in {"drain", "flush"} /\ (pc' = pc \/ pc' = AfterDrain)
      BY <1>3 DEF DrainDone, SendBlocked, SendFrame, Drains
    <2> QED
      BY <2>1 DEF AfterDrain, TimerInv, DeadlineAhead, PingAhead, CloseTimed
  <1>4. CASE AutoPing
    BY <1>4 DEF AutoPing, Off, TimerInv, DeadlineAhead, PingAhead, CloseTimed
  <1> QED
    BY <1>1, <1>2, <1>3, <1>4 DEF Transmit, Finish

LEMMA PeerOutside == Peer => UNCHANGED Session
  <1>1. \A op : PeerGreets(op) => UNCHANGED Session
    BY DEF PeerGreets
  <1>2. \A op : PeerControl(op) => UNCHANGED Session
    BY DEF PeerControl
  <1>3. \A op, fin, size, valid : PeerData(op, fin, size, valid) => UNCHANGED Session
    BY DEF PeerData
  <1>4. PeerReads => UNCHANGED Session
    BY DEF PeerReads
  <1>5. \A how : Break(how) => UNCHANGED Session
    BY DEF Break
  <1> QED BY <1>1, <1>2, <1>3, <1>4, <1>5, Zenon DEF Peer

LEMMA TimerStep == TimerInv /\ IInv /\ [SystemNext]_vars => TimerInv'
  <1> SUFFICES ASSUME TimerInv, IInv, [SystemNext]_vars PROVE TimerInv'
    OBVIOUS
  <1>1. CASE SystemNext
    <2>1. CASE Peer
      <3>1. UNCHANGED Session
        BY <2>1, PeerOutside
      <3> QED BY <3>1, TimersUntouched DEF Session, life, flow
    <2> QED
      BY <1>1, <2>1, ApplicationTimed, OpeningTimed, InboundTimed, OutboundTimed
      DEF SystemNext, Act, SessionNext, Handle
  <1>2. CASE UNCHANGED vars
    BY <1>2, TimersUntouched DEF vars, wsvars, life, flow
  <1> QED BY <1>1, <1>2

\* A handle() that leaves the session open leaves no timer in the past: the runner may
\* sleep until the next one (next_deadline, _check_timeouts, _maybe_emit_auto_ping).
THEOREM OpenMaySleep == Spec => NoBusyWait
  <1> DEFINE Rests == pc # "idle" /\ pc' = "idle" /\ state' = "open" /\ ~excused'
  <1>1. SystemInit => TimerInv
    BY DEF SystemInit, Init, TimerInv, DeadlineAhead, PingAhead, CloseTimed
  <1>2. ASSUME TimerInv, IInv, [SystemNext]_vars, Rests PROVE pingAt' # 0 /\ pongAt' # 0
    <2> USE DEF life, timers, flow
    <2>0. ClientOnly
      BY <1>2 DEF IInv
    <2>1. SystemNext /\ ~Peer
      BY <1>2, PeerOutside DEF vars, wsvars, Session
    <2>2. ~Application
      BY <1>2 DEF Application, Connect, Send, SendPing, Close, Abort, Shutdown, Raise,
                  NextMessage, hist
    <2>3. ~Tick /\ ~Connector /\ ~Handshake /\ ~Finish /\ ~SendFails
      BY <1>2 DEF Tick, Connector, ConnectorReady, ConnectorFails, Handshake,
         HandshakeTimesOut, SendHello, SendHelloFails, RecvHello, Refused, HandshakeCut,
         Handshaking, InTime, Begins, Finish, CloseTimesOut, PongTimesOut, Settle, SendFails,
         Fail, Closed, DropTransport
    <2>4. CASE Receive \/ Dispatch
      <3>1. ~BeginRecv /\ ~RecvStops /\ ~RecvEnds /\ \A n \in 1..Len(toUs) : ~RecvChunk(n)
        BY <1>2 DEF BeginRecv, RecvChunk, RecvStops, RecvEnds, Fail, Closed
      <3>2. ~Dispatch
        BY <1>2 DEF Dispatch, DispatchInvalid, DispatchPing, DispatchPong, DispatchClose,
           DispatchMisplaced, DispatchFragment, DispatchFinal, Feeds
      <3>3. FeedDone
        BY <2>4, <3>1, <3>2 DEF Receive
      <3> QED
        BY <1>2, <3>3 DEF FeedDone, TimerInv, DeadlineAhead, PingAhead, Off
    <2>5. CASE DrainDone \/ SendBlocked \/ \E more \in BOOLEAN : SendFrame(more)
      <3>1. UNCHANGED <<timers, state, setup>> /\ pc' \in {pc, AfterDrain}
        BY <2>5 DEF DrainDone, SendBlocked, SendFrame
      <3> QED
        BY <1>2, <2>0, <3>1 DEF AfterDrain, ClientOnly, TimerInv, DeadlineAhead, Off
    <2>6. CASE AutoPing
      <3>1. PingInterval # 0 /\ PongTimeout # 0
        BY WebSocketAssumption DEF WebSocketAssumption
      <3> QED
        BY <1>2, <2>6, <3>1 DEF AutoPing, ArmPong, TimerInv, DeadlineAhead
    <2> QED
      BY <2>1, <2>2, <2>3, <2>4, <2>5, <2>6
      DEF SystemNext, Act, SessionNext, Handle, Transmit
  <1>3. TimerInv /\ IInv /\ [SystemNext]_vars
          => [Rests => pingAt' # 0 /\ pongAt' # 0]_vars
    BY <1>2
  <1> QED
    BY <1>1, <1>3, IInvAlways, TimerStep, PTL DEF Spec, NoBusyWait

-----------------------------------------------------------------------------
(* Inbound messages, as the abstract stream                                *)

Fragmented == "cont" \in setup.kinds

\* No fragment is too large by itself, and where messages come in fragments no
\* part of a chunk is thrown away: no callback raises, and the application does
\* not close an accepted connection before its handshake is over.
WholeMessages ==
    /\ ~setup.tier3
    /\ Fragmented =>
          /\ \A at \in Callbacks : <<at, "raise">> \notin setup.ops
          /\ Client \/ setup.closings = 0

Drafts == [first : Nat, parts : Seq(Nat), size : Nat, oversized : BOOLEAN,
           empties : Nat, valid : BOOLEAN]
DataFrames == [op : DataOps, n : Nat \ {0}, fin : BOOLEAN, size : Nat, valid : BOOLEAN]
OtherOps == {"ping", "pong", "close", "bad_mask", "bad_close", "garbage", "hello", "bad_hello"}
InFrames == DataFrames \cup [op : OtherOps]
Messages == [first : Nat, parts : Seq(Nat)]

Flight == {f \in ToSet(rx) \cup ToSet(toUs) : f.op \in DataOps}
Alive == ~(called /\ (latched \/ state = "closed"))

StreamShape ==
    /\ rx \in Seq(InFrames) /\ toUs \in Seq(InFrames)
    /\ count \in Nat /\ drafted \in Drafts /\ inb \in Drafts
    /\ offered \in Seq(Messages) /\ received \in Seq(Messages) /\ queue \in Seq(Messages)
    /\ excused \in BOOLEAN /\ streaming \in BOOLEAN /\ latched \in BOOLEAN
    /\ calls \in [send : Int, close : Int, block : Int]

\* Where the reading of a chunk stands, and what has not begun.
Unread ==
    /\ ~called => rx = <<>> /\ sock = "none"
    /\ phase = "transport" => sock = "none"
    /\ sock = "none" => count = 0
    /\ link = "up" => sock = "open"
    /\ state = "connecting" /\ (Client \/ phase = "reading") => rx = <<>>
    /\ Fragmented /\ ~Client => calls.close = 0
    /\ pc \in {"recv", "feed"} => state # "connecting"
    /\ \/ ~Fragmented /\ excused
       \/ state = "closed" \/ rx = <<>>
       \/ pc \in {"feed", "flush", "settle"}
       \/ pc = "idle" /\ state = "connecting"

IsData(f) == f.op \in DataOps
Rising(q) == \A i, j \in DOMAIN q : i < j /\ IsData(q[i]) /\ IsData(q[j]) => q[i].n < q[j].n
Before(p, q) ==
    \A i \in DOMAIN p, j \in DOMAIN q : IsData(p[i]) /\ IsData(q[j]) => p[i].n < q[j].n
InOrder == Rising(rx) /\ Rising(toUs) /\ Before(rx, toUs)

Offers ==
    /\ \A i, j \in DOMAIN offered : i < j => offered[i].first < offered[j].first
    /\ \A i \in DOMAIN offered :
          /\ offered[i].first <= count
          /\ Drafting => offered[i].first < drafted.first
    /\ drafted.first <= count

\* What a frame makes of the peer's draft.
DraftOf(d, f) ==
    [d EXCEPT !.first = IF d.first # 0 THEN @ ELSE f.n,
              !.size = @ + f.size,
              !.valid = @ /\ f.valid,
              !.parts = IF f.size > 0 THEN Append(@, f.n) ELSE @]
Placed(d, f) == (f.op = "cont") = (d.first # 0)
DraftAfter(d, f) == IF ~Placed(d, f) THEN d ELSE IF f.fin THEN Nothing ELSE DraftOf(d, f)
Offering(d, f) ==
    Placed(d, f) /\ f.fin /\ DraftOf(d, f).valid /\ DraftOf(d, f).size <= MaxMessage

DraftSound(d) ==
    /\ (d.parts = <<>>) <=> (d.size = 0)
    /\ d.size = 0 => d.valid
    /\ d.first = 0 => d = Nothing

\* A frame the peer sent, with its draft and its offers before and after.
Sent(draft, told, f) ==
    /\ f.n <= count
    /\ ~Fragmented => f.op = "text" /\ f.fin
    /\ f.size > MaxMessage => f.op = "text" /\ f.fin
    /\ ~f.valid => f.size > 0
    /\ draft[f.n] = DraftAfter(draft[f.n - 1], f)
    /\ Offering(draft[f.n - 1], f) =>
          /\ told[f.n] = told[f.n - 1] + 1
          /\ offered[told[f.n]] = Message(DraftOf(draft[f.n - 1], f))
    /\ ~Offering(draft[f.n - 1], f) => told[f.n] = told[f.n - 1]

\* draft[c] and told[c]: what the peer was writing and how many messages it had
\* offered after c frames.
Drawn(draft, told) ==
    /\ draft[count] = drafted /\ told[count] = Len(offered)
    /\ \A c, d \in 0 .. count : c <= d => told[c] <= told[d]
    /\ \A c \in 0 .. count : DraftSound(draft[c])
    /\ ~Fragmented => \A c \in 0 .. count : draft[c] = Nothing
    /\ \A f \in Flight : Sent(draft, told, f)

\* Between two data frames, of those in flight and the last one read (cur), the
\* peer sent none.
StillIn(x, cur, fl, up, n) ==
    \A a \in {cur} \cup {f.n : f \in fl} : \A c \in 0 .. n :
        a <= c /\ ((\E h \in fl : c < h.n) \/ up)
          => x[c] = x[a] \/ \E f \in fl : a < f.n /\ f.n <= c
Still(x, cur) == StillIn(x, cur, Flight, link = "up", count)

\* The session has put together what the peer has written so far.
MatchesIn(m, d) ==
    /\ m.first = d.first
    /\ m.oversized => d.size > MaxMessage /\ m.parts # <<>>
    /\ ~m.oversized =>
          m.parts = d.parts /\ m.size = d.size /\ m.valid = d.valid /\ d.size <= MaxMessage
Matches(d) == MatchesIn(inb, d)

Reading(draft, told, cur) ==
    /\ cur \in 0 .. count /\ \A f \in Flight : cur < f.n
    /\ Alive => Still(draft, cur) /\ Matches(draft[cur])
    /\ Alive /\ ~excused => Still(told, cur)

\* What the application was given or can take is of the first n messages.
Given(n) ==
    /\ n \in 0 .. Len(offered)
    /\ ~streaming => queue = <<>>
    /\ \A m \in ToSet(queue) \cup ToSet(received) : \E k \in 1 .. n : offered[k] = m
    /\ \A i, j \in DOMAIN queue : i < j => queue[i].first < queue[j].first
    /\ received # <<>> => \A m \in ToSet(queue) : received[Len(received)].first < m.first
    /\ ~excused =>
          /\ Len(received) + Len(queue) = n
          /\ \A i \in DOMAIN received : received[i] = offered[i]
          /\ \A i \in DOMAIN queue : queue[i] = offered[Len(received) + i]

History(draft, told, cur) == Drawn(draft, told) /\ Reading(draft, told, cur) /\ Given(told[cur])

Streams ==
    /\ InOrder /\ Offers
    /\ \E draft \in [Nat -> Drafts], told \in [Nat -> Nat], cur \in Nat : History(draft, told, cur)

StreamInv == StreamShape /\ Unread /\ Streams

-----------------------------------------------------------------------------
(* Frames in flight                                                        *)

LEMMA DataTyped == \A f \in InFrames : IsData(f) => f \in DataFrames
  BY DEF InFrames, DataFrames, OtherOps, IsData, DataOps

LEMMA FlightTyped ==
    ASSUME rx \in Seq(InFrames), toUs \in Seq(InFrames)
    PROVE  Flight \subseteq DataFrames /\ \A f \in Flight : f.n \in Nat /\ f.n > 0
  <1>1. ToSet(rx) \subseteq InFrames /\ ToSet(toUs) \subseteq InFrames
    BY DEF ToSet
  <1>2. Flight \subseteq DataFrames
    BY <1>1, DataTyped DEF Flight, IsData
  <1> QED BY <1>2 DEF DataFrames

\* Fewer frames, the last ones gone with the connection.
LEMMA StillTruncated ==
    ASSUME NEW x, NEW cur \in Nat, NEW fl, NEW gl \in SUBSET fl, NEW n \in Nat,
           NEW up \in BOOLEAN, NEW vp \in BOOLEAN,
           \A f \in fl : f.n \in Nat,
           \A f \in gl, g \in fl : g.n < f.n => g \in gl,
           vp => up /\ gl = fl,
           StillIn(x, cur, fl, up, n)
    PROVE  StillIn(x, cur, gl, vp, n)
  <1> SUFFICES ASSUME NEW a \in {cur} \cup {f.n : f \in gl}, NEW c \in 0 .. n, a <= c,
                      (\E h \in gl : c < h.n) \/ vp
               PROVE  x[c] = x[a] \/ \E f \in gl : a < f.n /\ f.n <= c
    BY DEF StillIn
  <1>1. a \in {cur} \cup {f.n : f \in fl} /\ ((\E h \in fl : c < h.n) \/ up)
    OBVIOUS
  <1>2. CASE x[c] = x[a]
    BY <1>2
  <1>3. ASSUME NEW f \in fl, a < f.n, f.n <= c PROVE f \in gl
    <2>1. CASE vp
      BY <2>1
    <2>2. ASSUME NEW h \in gl, c < h.n PROVE f \in gl
      <3>1. f.n < h.n
        BY <1>3, <2>2
      <3> QED BY <3>1
    <2> QED BY <2>1, <2>2
  <1> QED BY <1>1, <1>2, <1>3 DEF StillIn

\* The first frame f is read.
FirstRead(x, cur, fl, gl, f, num, n, up) ==
    /\ cur \in Nat /\ num \in Nat /\ n \in Nat /\ up \in BOOLEAN
    /\ f \in fl /\ num = f.n /\ gl = fl \ {f}
    /\ \A g \in gl : g.n \in Nat /\ num < g.n
    /\ cur < num /\ num <= n /\ StillIn(x, cur, fl, up, n)

LEMMA StillFed ==
    ASSUME NEW x, NEW cur, NEW fl, NEW gl, NEW f, NEW num, NEW n, NEW up,
           FirstRead(x, cur, fl, gl, f, num, n, up)
    PROVE  StillIn(x, num, gl, up, n) /\ x[num - 1] = x[cur]
  <1> USE DEF FirstRead
  <1>1. x[num - 1] = x[cur]
    <2>1. num - 1 \in 0 .. n /\ cur <= num - 1 /\ num - 1 < f.n
      OBVIOUS
    <2>2. x[num - 1] = x[cur] \/ \E g \in fl : cur < g.n /\ g.n <= num - 1
      BY <2>1 DEF StillIn
    <2>3. ~\E g \in fl : g.n <= num - 1
      <3> SUFFICES ASSUME NEW g \in fl, g.n <= num - 1 PROVE FALSE
        OBVIOUS
      <3>1. g = f \/ num < g.n
        OBVIOUS
      <3> QED BY <3>1
    <2> QED BY <2>2, <2>3
  <1>2. ASSUME NEW a \in {num} \cup {g.n : g \in gl}, NEW c \in 0 .. n, a <= c,
               (\E h \in gl : c < h.n) \/ up
        PROVE  x[c] = x[a] \/ \E g \in gl : a < g.n /\ g.n <= c
    <2>1. a \in {cur} \cup {g.n : g \in fl} /\ ((\E h \in fl : c < h.n) \/ up)
      <3>1. \A g \in gl : g \in fl
        OBVIOUS
      <3>2. num \in {g.n : g \in fl}
        OBVIOUS
      <3> QED BY <1>2, <3>1, <3>2
    <2>2. a >= num
      OBVIOUS
    <2>3. x[c] = x[a] \/ \E g \in fl : a < g.n /\ g.n <= c
      BY <2>1, <1>2 DEF StillIn
    <2>4. \A g \in fl : a < g.n => g \in gl
      BY <2>1, <2>2
    <2> QED BY <2>3, <2>4
  <1> QED BY <1>1, <1>2 DEF StillIn

\* A frame is sent that changes nothing the peer is writing.
LEMMA StillGrows ==
    ASSUME NEW x, NEW y, NEW cur \in Nat, NEW fl, NEW n \in Nat,
           \A g \in fl : g.n \in Nat /\ g.n <= n, cur <= n,
           \A c \in 0 .. n : y[c] = x[c], y[n + 1] = x[n],
           StillIn(x, cur, fl, TRUE, n)
    PROVE  StillIn(y, cur, fl, TRUE, n + 1)
  <1> SUFFICES ASSUME NEW a \in {cur} \cup {f.n : f \in fl}, NEW c \in 0 .. n + 1, a <= c
               PROVE  y[c] = y[a] \/ \E f \in fl : a < f.n /\ f.n <= c
    BY DEF StillIn
  <1>1. a \in 0 .. n
    OBVIOUS
  <1>2. CASE c \in 0 .. n
    BY <1>1, <1>2 DEF StillIn
  <1>3. CASE c = n + 1
    <2>1. n \in 0 .. n /\ a <= n
      BY <1>1
    <2>2. x[n] = x[a] \/ \E f \in fl : a < f.n /\ f.n <= n
      BY <2>1 DEF StillIn
    <2>3. \A f \in fl : f.n <= n => f.n <= c
      BY <1>3
    <2> QED BY <1>1, <1>3, <2>2, <2>3
  <1> QED BY <1>2, <1>3

\* A data frame is sent.
LEMMA StillSent ==
    ASSUME NEW x, NEW y, NEW cur \in Nat, NEW fl, NEW n \in Nat, NEW f, f.n = n + 1,
           \A g \in fl : g.n \in Nat /\ g.n <= n, cur <= n,
           \A c \in 0 .. n : y[c] = x[c],
           StillIn(x, cur, fl, TRUE, n)
    PROVE  StillIn(y, cur, fl \cup {f}, TRUE, n + 1)
  <1> SUFFICES ASSUME NEW a \in {cur} \cup {g.n : g \in fl \cup {f}}, NEW c \in 0 .. n + 1, a <= c
               PROVE  y[c] = y[a] \/ \E g \in fl \cup {f} : a < g.n /\ g.n <= c
    BY DEF StillIn
  <1>1. a = n + 1 \/ (a \in 0 .. n /\ a \in {cur} \cup {g.n : g \in fl})
    OBVIOUS
  <1>2. CASE a = n + 1
    <2>1. c = a
      BY <1>2
    <2> QED BY <2>1
  <1>3. CASE a \in 0 .. n /\ a \in {cur} \cup {g.n : g \in fl} /\ c \in 0 .. n
    BY <1>3 DEF StillIn
  <1>4. CASE a \in 0 .. n /\ c = n + 1
    BY <1>4
  <1> QED BY <1>1, <1>2, <1>3, <1>4

-----------------------------------------------------------------------------
(* Parts of a stream                                                       *)

LEMMA PartOf ==
    ASSUME NEW q \in Seq(InFrames), NEW m \in Nat \ {0}, NEW n \in Nat, n <= Len(q), m <= n + 1
    PROVE  /\ SubSeq(q, m, n) \in Seq(InFrames) /\ ToSet(SubSeq(q, m, n)) \subseteq ToSet(q)
           /\ DOMAIN SubSeq(q, m, n) = 1 .. (n - m + 1)
           /\ \A i \in 1 .. (n - m + 1) :
                 i + m - 1 \in DOMAIN q /\ SubSeq(q, m, n)[i] = q[i + m - 1]
           /\ Rising(q) => Rising(SubSeq(q, m, n))
  <1>1. SubSeq(q, m, n) \in Seq(InFrames) /\ DOMAIN SubSeq(q, m, n) = 1 .. (n - m + 1)
    OBVIOUS
  <1>2. \A i \in 1 .. (n - m + 1) : i + m - 1 \in DOMAIN q /\ SubSeq(q, m, n)[i] = q[i + m - 1]
    OBVIOUS
  <1>3. ToSet(SubSeq(q, m, n)) \subseteq ToSet(q)
    BY <1>1, <1>2, Zenon DEF ToSet
  <1>4. ASSUME Rising(q), NEW i \in 1 .. (n - m + 1), NEW j \in 1 .. (n - m + 1), i < j,
               IsData(SubSeq(q, m, n)[i]), IsData(SubSeq(q, m, n)[j])
        PROVE  SubSeq(q, m, n)[i].n < SubSeq(q, m, n)[j].n
    <2>1. i + m - 1 < j + m - 1
      BY <1>4
    <2> QED BY <1>2, <1>4, <2>1 DEF Rising
  <1> QED BY <1>1, <1>2, <1>3, <1>4 DEF Rising

\* A chunk, and what it leaves.
LEMMA SplitAt ==
    ASSUME NEW q \in Seq(InFrames), Rising(q), NEW n \in 0 .. Len(q), NEW m \in 1 .. n + 1,
           \A i \in 1 .. m - 1 : ~IsData(q[i])
    PROVE  /\ Before(SubSeq(q, m, n), SubSeq(q, n + 1, Len(q)))
           /\ \A f \in ToSet(q) : IsData(f) =>
                 f \in ToSet(SubSeq(q, m, n)) \cup ToSet(SubSeq(q, n + 1, Len(q)))
  <1> DEFINE p == SubSeq(q, m, n)
             r == SubSeq(q, n + 1, Len(q))
  <1>1. /\ DOMAIN p = 1 .. (n - m + 1)
        /\ \A i \in 1 .. (n - m + 1) : i + m - 1 \in DOMAIN q /\ p[i] = q[i + m - 1]
    BY PartOf
  <1>2. /\ DOMAIN r = 1 .. (Len(q) - n)
        /\ \A i \in 1 .. (Len(q) - n) : i + n \in DOMAIN q /\ r[i] = q[i + n]
    <2>1. Len(q) - (n + 1) + 1 = Len(q) - n /\ \A i \in Nat : i + (n + 1) - 1 = i + n
      OBVIOUS
    <2> QED BY <2>1, PartOf
  <1> HIDE DEF p, r
  <1>3. Before(p, r)
    <2> SUFFICES ASSUME NEW i \in DOMAIN p, NEW j \in DOMAIN r, IsData(p[i]), IsData(r[j])
                 PROVE  p[i].n < r[j].n
      BY DEF Before
    <2>1. i + m - 1 < j + n
      BY <1>1, <1>2
    <2> QED BY <1>1, <1>2, <2>1 DEF Rising
  <1>4. ASSUME NEW f \in ToSet(q), IsData(f) PROVE f \in ToSet(p) \cup ToSet(r)
    <2>1. PICK k \in 1 .. Len(q) : q[k] = f
      BY DEF ToSet
    <2>2. CASE k < m
      BY <1>4, <2>1, <2>2
    <2>3. CASE k >= m /\ k <= n
      <3>1. k - m + 1 \in 1 .. (n - m + 1) /\ (k - m + 1) + m - 1 = k
        BY <2>3
      <3>2. k - m + 1 \in DOMAIN p /\ p[k - m + 1] = f
        BY <1>1, <2>1, <3>1
      <3> QED BY <3>2 DEF ToSet
    <2>4. CASE k > n
      <3>1. k - n \in 1 .. (Len(q) - n) /\ (k - n) + n = k
        BY <2>4
      <3>2. k - n \in DOMAIN r /\ r[k - n] = f
        BY <1>2, <2>1, <3>1
      <3> QED BY <3>2 DEF ToSet
    <2> QED BY <2>2, <2>3, <2>4
  <1> QED BY <1>3, <1>4 DEF p, r

LEMMA FirstOf ==
    ASSUME NEW q \in Seq(InFrames), q # <<>>
    PROVE  /\ q[1] \in InFrames /\ Tail(q) \in Seq(InFrames) /\ 1 \in DOMAIN q
           /\ ToSet(q) = {q[1]} \cup ToSet(Tail(q))
           /\ Rising(q) => /\ Rising(Tail(q))
                           /\ IsData(q[1]) => \A g \in ToSet(Tail(q)) : IsData(g) => q[1].n < g.n
  <1>1. /\ q[1] \in InFrames /\ Tail(q) \in Seq(InFrames) /\ 1 \in DOMAIN q /\ Len(q) \in Nat \ {0}
        /\ DOMAIN q = 1 .. Len(q)
    OBVIOUS
  <1>2. DOMAIN Tail(q) = 1 .. (Len(q) - 1) /\ \A i \in 1 .. (Len(q) - 1) : Tail(q)[i] = q[i + 1]
    OBVIOUS
  <1>3. \A i \in 1 .. Len(q) : i = 1 \/ (i - 1 \in 1 .. (Len(q) - 1) /\ q[i] = Tail(q)[i - 1])
    BY <1>1, <1>2
  <1>4. ToSet(q) = {q[1]} \cup ToSet(Tail(q))
    <2>1. ASSUME NEW i \in 1 .. Len(q) PROVE q[i] \in {q[1]} \cup ToSet(Tail(q))
      <3>1. CASE i = 1
        BY <3>1
      <3>2. CASE i - 1 \in DOMAIN Tail(q) /\ q[i] = Tail(q)[i - 1]
        BY <3>2 DEF ToSet
      <3> QED BY <1>2, <1>3, <3>1, <3>2
    <2>2. ASSUME NEW i \in 1 .. (Len(q) - 1) PROVE Tail(q)[i] \in ToSet(q)
      BY <1>1, <1>2 DEF ToSet
    <2>3. q[1] \in ToSet(q)
      BY <1>1 DEF ToSet
    <2>4. ToSet(q) = {q[i] : i \in 1 .. Len(q)}
      BY <1>1 DEF ToSet
    <2>5. ToSet(Tail(q)) = {Tail(q)[i] : i \in 1 .. (Len(q) - 1)}
      BY <1>2 DEF ToSet
    <2> QED BY <2>1, <2>2, <2>3, <2>4, <2>5
  <1>5. ASSUME Rising(q) PROVE Rising(Tail(q))
    <2> SUFFICES ASSUME NEW i \in 1 .. (Len(q) - 1), NEW j \in 1 .. (Len(q) - 1), i < j,
                        IsData(q[i + 1]), IsData(q[j + 1])
                 PROVE  q[i + 1].n < q[j + 1].n
      BY <1>2 DEF Rising
    <2>1. i + 1 \in DOMAIN q /\ j + 1 \in DOMAIN q /\ i + 1 < j + 1
      BY <1>1
    <2> QED BY <1>5, <2>1 DEF Rising
  <1>6. ASSUME Rising(q), IsData(q[1]), NEW g \in ToSet(Tail(q)), IsData(g) PROVE q[1].n < g.n
    <2>1. PICK i \in 1 .. (Len(q) - 1) : g = q[i + 1]
      BY <1>2 DEF ToSet
    <2>2. i + 1 \in DOMAIN q /\ 1 < i + 1
      BY <1>1
    <2> QED BY <1>1, <1>6, <2>1, <2>2 DEF Rising
  <1> QED BY <1>1, <1>4, <1>5, <1>6

LEMMA AppendedTo ==
    ASSUME NEW q \in Seq(InFrames), NEW f \in InFrames
    PROVE  /\ Append(q, f) \in Seq(InFrames) /\ ToSet(Append(q, f)) = ToSet(q) \cup {f}
           /\ Rising(q) /\ (IsData(f) => \A g \in ToSet(q) : IsData(g) => g.n < f.n)
                => Rising(Append(q, f))
           /\ \A p \in Seq(InFrames) :
                 Before(p, q) /\ (IsData(f) => \A g \in ToSet(p) : IsData(g) => g.n < f.n)
                   => Before(p, Append(q, f))
  <1>1. /\ Append(q, f) \in Seq(InFrames) /\ DOMAIN Append(q, f) = 1 .. (Len(q) + 1)
        /\ DOMAIN q = 1 .. Len(q) /\ Len(q) \in Nat
        /\ Append(q, f)[Len(q) + 1] = f /\ \A i \in 1 .. Len(q) : Append(q, f)[i] = q[i]
    OBVIOUS
  <1>2. \A i \in 1 .. (Len(q) + 1) : i \in 1 .. Len(q) \/ i = Len(q) + 1
    BY <1>1
  <1>3. Len(q) + 1 \in 1 .. (Len(q) + 1) /\ 1 .. Len(q) \subseteq 1 .. (Len(q) + 1)
    BY <1>1
  <1>4. ToSet(Append(q, f)) = ToSet(q) \cup {f}
    BY <1>1, <1>2, <1>3, Zenon DEF ToSet
  <1>5. \A i \in DOMAIN q : q[i] \in ToSet(q)
    BY DEF ToSet
  <1>6. ASSUME Rising(q), IsData(f) => \A g \in ToSet(q) : IsData(g) => g.n < f.n,
               NEW i \in 1 .. (Len(q) + 1), NEW j \in 1 .. (Len(q) + 1), i < j,
               IsData(Append(q, f)[i]), IsData(Append(q, f)[j])
        PROVE  Append(q, f)[i].n < Append(q, f)[j].n
    <2>1. i \in 1 .. Len(q)
      BY <1>1, <1>6
    <2>2. CASE j \in 1 .. Len(q)
      BY <1>1, <1>6, <2>1, <2>2 DEF Rising
    <2>3. CASE j = Len(q) + 1
      BY <1>1, <1>5, <1>6, <2>1, <2>3
    <2> QED BY <1>2, <2>2, <2>3
  <1>7. ASSUME NEW p \in Seq(InFrames), Before(p, q),
               IsData(f) => \A g \in ToSet(p) : IsData(g) => g.n < f.n,
               NEW i \in DOMAIN p, NEW j \in 1 .. (Len(q) + 1), IsData(p[i]),
               IsData(Append(q, f)[j])
        PROVE  p[i].n < Append(q, f)[j].n
    <2>1. CASE j \in 1 .. Len(q)
      BY <1>1, <1>7, <2>1 DEF Before
    <2>2. CASE j = Len(q) + 1
      <3>1. p[i] \in ToSet(p)
        BY DEF ToSet
      <3> QED BY <1>1, <1>7, <2>2, <3>1
    <2> QED BY <1>2, <2>1, <2>2
  <1> QED BY <1>1, <1>4, <1>6, <1>7 DEF Rising, Before

-----------------------------------------------------------------------------
(* A frame of data                                                         *)

LEMMA DraftAfterSound ==
    ASSUME NEW d \in Drafts, DraftSound(d), NEW f \in DataFrames, ~f.valid => f.size > 0
    PROVE  /\ DraftOf(d, f) \in Drafts /\ DraftAfter(d, f) \in Drafts
           /\ DraftSound(DraftAfter(d, f)) /\ DraftOf(d, f).first # 0
  <1> USE DEF Drafts, DataFrames
  <1>1. Nothing \in Drafts /\ DraftSound(Nothing)
    BY DEF Nothing, DraftSound
  <1>2. f.n \in Nat /\ f.n # 0 /\ f.size \in Nat /\ f.valid \in BOOLEAN
    OBVIOUS
  <1>3. DraftOf(d, f) \in Drafts
    <2>1. (IF f.size > 0 THEN Append(d.parts, f.n) ELSE d.parts) \in Seq(Nat)
      BY <1>2
    <2>2. d.size + f.size \in Nat /\ (d.valid /\ f.valid) \in BOOLEAN
          /\ (IF d.first # 0 THEN d.first ELSE f.n) \in Nat
      BY <1>2
    <2> QED BY <2>1, <2>2 DEF DraftOf
  <1>4. /\ DraftOf(d, f).first = (IF d.first # 0 THEN d.first ELSE f.n)
        /\ DraftOf(d, f).size = d.size + f.size
        /\ DraftOf(d, f).valid = (d.valid /\ f.valid)
        /\ DraftOf(d, f).parts = IF f.size > 0 THEN Append(d.parts, f.n) ELSE d.parts
    BY DEF DraftOf
  <1>5. Append(d.parts, f.n) # <<>>
    BY <1>2
  <1>6. DraftSound(DraftOf(d, f)) /\ DraftOf(d, f).first # 0
    BY <1>2, <1>4, <1>5 DEF DraftSound
  <1> QED BY <1>1, <1>3, <1>6 DEF DraftAfter

\* The session makes of a frame what the peer made of it.
LEMMA FrameRead ==
    ASSUME NEW d \in Drafts, DraftSound(d), NEW f \in DataFrames, ~f.valid => f.size > 0,
           f.size > MaxMessage => f.op = "text" /\ f.fin, inb \in Drafts, Matches(d)
    PROVE  /\ OutOfPlace(f) => ~Placed(d, f) /\ MatchesIn(inb, DraftAfter(d, f))
           /\ ~OutOfPlace(f) /\ ~f.fin =>
                 /\ Flood(f) => MatchesIn(Joined(f), DraftAfter(d, f)) /\ Joined(f) \in Drafts
                 /\ ~Flood(f) => MatchesIn(Extended(f), DraftAfter(d, f)) /\ Extended(f) \in Drafts
           /\ ~OutOfPlace(f) /\ f.fin => MatchesIn(Nothing, DraftAfter(d, f)) /\ Placed(d, f)
           /\ ~OutOfPlace(f) /\ f.fin =>
                 IF TakesFastPath(f)
                 THEN /\ Offering(d, f) <=> FastMessage(f).valid
                      /\ Message(FastMessage(f)) = Message(DraftOf(d, f))
                 ELSE /\ Offering(d, f) <=> ~Extended(f).oversized /\ Extended(f).valid
                      /\ ~Extended(f).oversized => Message(Extended(f)) = Message(DraftOf(d, f))
  <1> USE WebSocketAssumption DEF Drafts, DataFrames
  <1>1. OutOfPlace(f) <=> ~Placed(d, f)
    BY DEF OutOfPlace, Assembling, Placed, Matches, MatchesIn
  <1>2. f.n \in Nat /\ f.n # 0 /\ f.size \in Nat /\ f.valid \in BOOLEAN /\ f.fin \in BOOLEAN
    OBVIOUS
  <1>3. /\ DraftOf(d, f).first = (IF d.first # 0 THEN d.first ELSE f.n)
        /\ DraftOf(d, f).size = d.size + f.size
        /\ DraftOf(d, f).valid = (d.valid /\ f.valid)
        /\ DraftOf(d, f).parts = IF f.size > 0 THEN Append(d.parts, f.n) ELSE d.parts
    BY DEF DraftOf
  <1>4. /\ Joined(f).first = (IF inb.first # 0 THEN inb.first ELSE f.n)
        /\ Joined(f).size = inb.size /\ Joined(f).parts = inb.parts
        /\ Joined(f).valid = (inb.valid /\ f.valid) /\ Joined(f).oversized = inb.oversized
        /\ Joined(f) \in Drafts
    <2>1. (IF Assembling THEN inb.first ELSE f.n) \in Nat /\ (inb.valid /\ f.valid) \in BOOLEAN
          /\ (IF f.size > 0 THEN 0 ELSE IF f.fin THEN inb.empties ELSE inb.empties + 1) \in Nat
      BY <1>2
    <2> QED BY <2>1 DEF Joined, Assembling
  <1> DEFINE fits == ~inb.oversized /\ f.size <= MaxMessage /\ inb.size + f.size <= MaxMessage
  <1>5. /\ Extended(f).first = Joined(f).first /\ Extended(f).valid = (inb.valid /\ f.valid)
        /\ Extended(f).oversized = ~fits
        /\ Extended(f).size = (IF fits THEN inb.size + f.size ELSE inb.size)
        /\ Extended(f).parts = IF fits /\ f.size > 0 THEN Append(inb.parts, f.n) ELSE inb.parts
        /\ Extended(f) \in Drafts
    <2>1. (IF fits /\ f.size > 0 THEN Append(inb.parts, f.n) ELSE inb.parts) \in Seq(Nat)
      BY <1>2
    <2>2. (IF fits THEN inb.size + f.size ELSE inb.size) \in Nat
      BY <1>2
    <2> DEFINE m == Joined(f)
               o == ~fits
               z == IF fits THEN inb.size + f.size ELSE inb.size
               p == IF fits /\ f.size > 0 THEN Append(inb.parts, f.n) ELSE inb.parts
    <2>3. /\ m.size = inb.size /\ m.parts = inb.parts /\ m.valid = (inb.valid /\ f.valid)
          /\ m \in Drafts
      BY <1>4
    <2>4. Extended(f) = [m EXCEPT !.oversized = o, !.size = z, !.parts = p]
      BY <1>4 DEF Extended
    <2>5. o \in BOOLEAN
      OBVIOUS
    <2>6. z \in Nat /\ p \in Seq(Nat)
      BY <2>1, <2>2
    <2>7. /\ Extended(f).first = m.first /\ Extended(f).valid = m.valid
          /\ Extended(f).oversized = o /\ Extended(f).size = z /\ Extended(f).parts = p
          /\ Extended(f) \in Drafts
      <3> HIDE DEF m, o, z, p
      <3> QED BY <2>3, <2>4, <2>5, <2>6
    <2> QED BY <2>3, <2>7
  <1>6. MaxMessage \in Nat /\ d.size \in Nat /\ inb.size \in Nat
    OBVIOUS
  <1>7. ASSUME ~OutOfPlace(f), ~f.fin PROVE DraftAfter(d, f) = DraftOf(d, f) /\ f.size <= MaxMessage
    BY <1>1, <1>2, <1>6, <1>7 DEF DraftAfter
  <1>8. ASSUME ~OutOfPlace(f), ~f.fin, Flood(f) PROVE MatchesIn(Joined(f), DraftAfter(d, f))
    BY <1>1, <1>2, <1>3, <1>4, <1>6, <1>7, <1>8 DEF Matches, MatchesIn, Flood
  <1>9. ASSUME ~OutOfPlace(f), ~f.fin PROVE MatchesIn(Extended(f), DraftAfter(d, f))
    <2>1. CASE fits
      BY <1>2, <1>3, <1>4, <1>5, <1>6, <1>7, <1>9, <2>1 DEF Matches, MatchesIn
    <2>2. CASE ~fits
      <3>1. inb.parts # <<>>
        BY <1>2, <1>6, <1>7, <1>9, <2>2 DEF Matches, MatchesIn, DraftSound
      <3>2. d.size + f.size > MaxMessage
        BY <1>2, <1>6, <1>7, <1>9, <2>2 DEF Matches, MatchesIn
      <3> QED BY <1>3, <1>4, <1>5, <1>7, <1>9, <2>2, <3>1, <3>2 DEF Matches, MatchesIn
    <2> QED BY <2>1, <2>2
  <1>10. ASSUME ~OutOfPlace(f), f.fin PROVE MatchesIn(Nothing, DraftAfter(d, f)) /\ Placed(d, f)
    <2>1. Placed(d, f)
      BY <1>1, <1>10
    <2>2. DraftAfter(d, f) = Nothing
      BY <2>1, <1>10 DEF DraftAfter
    <2>3. MatchesIn(Nothing, Nothing)
      BY <1>6 DEF MatchesIn, Nothing
    <2> QED BY <2>1, <2>2, <2>3
  <1>11. ASSUME ~OutOfPlace(f), f.fin, TakesFastPath(f)
         PROVE  /\ Offering(d, f) <=> FastMessage(f).valid
                /\ Message(FastMessage(f)) = Message(DraftOf(d, f))
    <2>1. /\ FastMessage(f).first = Joined(f).first /\ FastMessage(f).valid = f.valid
          /\ FastMessage(f).parts = IF f.size > 0 THEN <<f.n>> ELSE <<>>
      BY <1>4 DEF FastMessage
    <2>2. ~inb.oversized /\ inb.parts = <<>> /\ d.parts = <<>> /\ d.size = 0 /\ d.valid
      BY <1>11 DEF TakesFastPath, Matches, MatchesIn, DraftSound
    <2>3. Append(<<>>, f.n) = <<f.n>>
      OBVIOUS
    <2>4. f.size <= MaxMessage /\ Placed(d, f)
      BY <1>10, <1>11 DEF TakesFastPath
    <2>5. Offering(d, f) <=> FastMessage(f).valid
      BY <1>2, <1>3, <1>11, <2>1, <2>2, <2>4 DEF Offering
    <2> QED BY <1>3, <1>4, <2>1, <2>2, <2>3, <2>5 DEF Message, Matches, MatchesIn
  <1>12. ASSUME ~OutOfPlace(f), f.fin, ~TakesFastPath(f)
         PROVE  /\ Offering(d, f) <=> ~Extended(f).oversized /\ Extended(f).valid
                /\ ~Extended(f).oversized => Message(Extended(f)) = Message(DraftOf(d, f))
    <2>1. CASE fits
      <3>1. d.parts = inb.parts /\ d.size = inb.size /\ d.valid = inb.valid /\ inb.first = d.first
        BY <2>1 DEF Matches, MatchesIn
      <3>2. Offering(d, f) <=> Extended(f).valid
        BY <1>3, <1>5, <1>10, <1>12, <2>1, <3>1 DEF Offering
      <3>3. Message(Extended(f)) = Message(DraftOf(d, f))
        <4>1. Extended(f).first = DraftOf(d, f).first
          BY <1>3, <1>4, <1>5, <3>1
        <4>2. Extended(f).parts = DraftOf(d, f).parts
          BY <1>3, <1>5, <2>1, <3>1
        <4> QED BY <4>1, <4>2 DEF Message
      <3> QED BY <1>5, <2>1, <3>2, <3>3
    <2>2. CASE ~fits
      <3>1. d.size + f.size > MaxMessage
        BY <1>2, <1>6, <2>2 DEF Matches, MatchesIn
      <3> QED BY <1>3, <1>5, <1>6, <2>2, <3>1 DEF Offering
    <2> QED BY <2>1, <2>2
  <1> QED BY <1>1, <1>4, <1>5, <1>7, <1>8, <1>9, <1>10, <1>11, <1>12 DEF DraftAfter, Matches

-----------------------------------------------------------------------------
(* The history behind a stream                                             *)

Told == <<setup, inb, queue, received, streaming, count, drafted, offered>>

LEMMA DrawnOfFewer ==
    ASSUME NEW draft, NEW told, Drawn(draft, told), UNCHANGED Told, Flight' \subseteq Flight
    PROVE  Drawn(draft, told)'
  <1>1. \A f \in Flight' : Sent(draft, told, f)
    BY DEF Drawn
  <1>2. \A f : Sent(draft, told, f)' <=> Sent(draft, told, f)
    BY DEF Sent, Fragmented, Told
  <1>3. /\ (draft[count] = drafted /\ told[count] = Len(offered))'
        /\ (\A c, d \in 0 .. count : c <= d => told[c] <= told[d])'
        /\ (\A c \in 0 .. count : DraftSound(draft[c]))'
        /\ (~Fragmented => \A c \in 0 .. count : draft[c] = Nothing)'
    BY DEF Drawn, Told, Fragmented, DraftSound
  <1> QED BY <1>1, <1>2, <1>3 DEF Drawn

LEMMA GivenRests ==
    ASSUME NEW n, Given(n), UNCHANGED <<queue, received, streaming, offered>>, excused => excused',
           excused' \in BOOLEAN
    PROVE  Given(n)'
  BY DEF Given

\* No frame is lost, but with the connection.
LEMMA StreamsRest ==
    ASSUME Streams, StreamShape, InOrder', Flight' \subseteq Flight,
           \A f \in Flight', g \in Flight : g.n < f.n => g \in Flight',
           link' = "up" => (link = "up" /\ Flight' = Flight) \/ count = 0,
           UNCHANGED Told, excused => excused', excused' \in BOOLEAN, Alive' => Alive
    PROVE  Streams'
  <1>1. PICK draft \in [Nat -> Drafts], told \in [Nat -> Nat], cur \in Nat :
              History(draft, told, cur)
    BY DEF Streams
  <1>2. /\ Flight \subseteq DataFrames /\ \A f \in Flight : f.n \in Nat /\ f.n > 0
        /\ count \in Nat
    BY FlightTyped DEF StreamShape
  <1>3. Offers'
    BY DEF Streams, Offers, Drafting, Told
  <1>4. Drawn(draft, told)'
    BY <1>1, DrawnOfFewer DEF History
  <1>5. Given(told[cur])'
    BY <1>1, GivenRests DEF History, Told
  <1>6. ASSUME NEW x, Still(x, cur) PROVE Still(x, cur)'
    <2>1. count' = count
      BY DEF Told
    <2>2. CASE link' = "up" /\ count = 0
      <3>1. Flight = {} /\ cur = 0
        BY <1>1, <1>2, <2>2 DEF History, Drawn, Sent, Reading
      <3>2. Flight' = {}
        BY <3>1
      <3> QED BY <2>1, <2>2, <3>1, <3>2 DEF Still, StillIn
    <2>3. CASE link' = "up" => link = "up" /\ Flight' = Flight
      <3>1. StillIn(x, cur, Flight', link' = "up", count)
        BY <1>2, <1>6, <2>3, StillTruncated DEF Still
      <3> QED BY <2>1, <3>1 DEF Still
    <2> QED BY <2>2, <2>3
  <1>7. Reading(draft, told, cur)'
    <2>1. cur \in 0 .. count' /\ \A f \in Flight' : cur < f.n
      BY <1>1 DEF History, Reading, Told
    <2>2. Matches(draft[cur])' <=> Matches(draft[cur])
      BY DEF Matches, MatchesIn, Told
    <2> QED BY <1>1, <1>6, <2>1, <2>2 DEF History, Reading
  <1> QED BY <1>3, <1>4, <1>5, <1>7 DEF Streams, History

\* Frames are lost, but where every message is one frame or nothing is read any
\* more.
LEMMA StreamsLose ==
    ASSUME Streams, StreamShape, InOrder', Flight' \subseteq Flight,
           ~Alive' \/ (~Fragmented /\ excused'),
           UNCHANGED Told, excused => excused', excused' \in BOOLEAN, Alive' => Alive
    PROVE  Streams'
  <1>1. PICK draft \in [Nat -> Drafts], told \in [Nat -> Nat], cur \in Nat :
              History(draft, told, cur)
    BY DEF Streams
  <1>2. /\ Flight \subseteq DataFrames /\ \A f \in Flight : f.n \in Nat /\ f.n > 0
        /\ count \in Nat
    BY FlightTyped DEF StreamShape
  <1>3. Offers'
    BY DEF Streams, Offers, Drafting, Told
  <1>4. Drawn(draft, told)'
    BY <1>1, DrawnOfFewer DEF History
  <1>5. Given(told[cur])'
    BY <1>1, GivenRests DEF History, Told
  <1>6. ASSUME ~Fragmented PROVE Still(draft, cur)'
    <2>1. \A c \in 0 .. count : draft[c] = Nothing
      BY <1>1, <1>6 DEF History, Drawn
    <2>2. \A a \in {cur} \cup {f.n : f \in Flight'} : a \in 0 .. count
      BY <1>1, <1>2 DEF History, Reading, Drawn, Sent
    <2>3. count' = count
      BY DEF Told
    <2> QED BY <2>1, <2>2, <2>3 DEF Still, StillIn
  <1>7. Reading(draft, told, cur)'
    <2>1. cur \in 0 .. count' /\ \A f \in Flight' : cur < f.n
      BY <1>1 DEF History, Reading, Told
    <2>2. Matches(draft[cur])' <=> Matches(draft[cur])
      BY DEF Matches, MatchesIn, Told
    <2> QED BY <1>1, <1>6, <2>1, <2>2 DEF History, Reading
  <1> QED BY <1>3, <1>4, <1>5, <1>7 DEF Streams, History

\* The first frame of the chunk is taken.
LEMMA HeadTaken ==
    ASSUME StreamShape, InOrder, rx # <<>>, rx' = Tail(rx), toUs' = toUs
    PROVE  /\ InOrder' /\ rx[1] \in InFrames /\ rx' \in Seq(InFrames)
           /\ ~IsData(rx[1]) => Flight' = Flight
           /\ IsData(rx[1]) =>
                 /\ rx[1] \in Flight /\ Flight' = Flight \ {rx[1]}
                 /\ \A g \in Flight' : rx[1].n < g.n
  <1>1. /\ rx[1] \in InFrames /\ rx' \in Seq(InFrames) /\ 1 \in DOMAIN rx
        /\ ToSet(rx) = {rx[1]} \cup ToSet(rx') /\ Rising(rx')
        /\ IsData(rx[1]) => \A g \in ToSet(rx') : IsData(g) => rx[1].n < g.n
    BY FirstOf DEF StreamShape, InOrder
  <1>2. \A g \in ToSet(toUs) : IsData(g) /\ IsData(rx[1]) => rx[1].n < g.n
    BY <1>1 DEF InOrder, Before, ToSet
  <1>3. Before(rx', toUs)
    <2> SUFFICES ASSUME NEW i \in DOMAIN rx', NEW j \in DOMAIN toUs, IsData(rx'[i]), IsData(toUs[j])
                 PROVE  rx'[i].n < toUs[j].n
      BY DEF Before
    <2>1. rx'[i] \in ToSet(rx)
      BY <1>1 DEF ToSet
    <2>2. PICK k \in DOMAIN rx : rx[k] = rx'[i]
      BY <2>1 DEF ToSet
    <2> QED BY <2>2 DEF InOrder, Before
  <1>4. InOrder'
    BY <1>1, <1>3 DEF InOrder
  <1>5. ~IsData(rx[1]) => Flight' = Flight
    BY <1>1 DEF Flight, IsData
  <1>6. ASSUME IsData(rx[1])
        PROVE  /\ rx[1] \in Flight /\ Flight' = Flight \ {rx[1]}
               /\ \A g \in Flight' : rx[1].n < g.n
    <2>1. \A g \in Flight' : rx[1].n < g.n
      BY <1>1, <1>2, <1>6 DEF Flight, IsData
    <2>2. rx[1] \in Flight
      BY <1>1, <1>6 DEF Flight, IsData
    <2>3. rx[1].n \in Nat
      BY <2>2, FlightTyped DEF StreamShape
    <2>4. rx[1] \notin Flight'
      BY <2>1, <2>3
    <2>5. Flight \subseteq Flight' \cup {rx[1]} /\ Flight' \subseteq Flight
      BY <1>1 DEF Flight
    <2> QED BY <2>1, <2>2, <2>4, <2>5
  <1> QED BY <1>1, <1>4, <1>5, <1>6

\* A frame that is no data.
LEMMA OtherFed ==
    ASSUME Streams, StreamShape, rx # <<>>, ~IsData(rx[1]), rx' = Tail(rx),
           UNCHANGED Told, UNCHANGED <<link, toUs>>, UNCHANGED excused, Alive' => Alive
    PROVE  Streams'
  <1>1. InOrder' /\ Flight' = Flight
    BY HeadTaken DEF Streams
  <1> QED BY <1>1, StreamsRest DEF StreamShape

\* The next frame of the chunk, and its number.
HeadIs(f, num) == rx # <<>> /\ f = rx[1] /\ IsData(f) /\ num = f.n

LEMMA StillHere ==
    ASSUME NEW x, NEW cur \in Nat, NEW f \in Flight, NEW num \in Nat, num = f.n,
           \A g \in Flight \ {f} : g.n \in Nat /\ num < g.n,
           count \in Nat, cur < num, num <= count, Still(x, cur)
    PROVE  StillIn(x, num, Flight \ {f}, link = "up", count) /\ x[num - 1] = x[cur]
  <1>1. PICK fl, n : fl = Flight /\ n = count
    OBVIOUS
  <1>2. PICK up \in BOOLEAN : up <=> link = "up"
    OBVIOUS
  <1>3. StillIn(x, cur, fl, up, n) /\ f \in fl /\ n \in Nat /\ num <= n
    BY <1>1, <1>2 DEF Still, StillIn
  <1>4. PICK gl : gl = fl \ {f}
    OBVIOUS
  <1>5. \A g \in gl : g.n \in Nat /\ num < g.n
    BY <1>1, <1>4
  <1>6. FirstRead(x, cur, fl, gl, f, num, n, up)
    BY <1>3, <1>4, <1>5 DEF FirstRead
  <1>7. StillIn(x, num, gl, up, n) /\ x[num - 1] = x[cur]
    BY <1>6, StillFed
  <1> QED BY <1>1, <1>2, <1>4, <1>7 DEF StillIn

\* A data frame, seen from where the session stands.
LEMMA DataFed ==
    ASSUME NEW f, NEW num, HeadIs(f, num), Streams, StreamShape, Alive, rx' = Tail(rx),
           NEW draft \in [Nat -> Drafts], NEW told \in [Nat -> Nat], NEW cur \in Nat,
           History(draft, told, cur),
           UNCHANGED <<setup, link, toUs, count, drafted, offered>>
    PROVE  /\ f \in DataFrames /\ Sent(draft, told, f)
           /\ num \in 1 .. count
           /\ draft[num - 1] = draft[cur] /\ DraftSound(draft[cur])
           /\ told[num - 1] >= told[cur] /\ told[num] >= told[num - 1]
           /\ told[num] <= Len(offered)
           /\ ~excused => told[num - 1] = told[cur]
           /\ Matches(draft[cur])
           /\ InOrder' /\ Offers' /\ Drawn(draft, told)'
           /\ MatchesIn(inb', draft[num]) /\ (~excused' => ~excused)
                => Reading(draft, told, num)'
  <1>1. /\ InOrder' /\ f \in Flight /\ Flight' = Flight \ {f} /\ \A g \in Flight' : num < g.n
        /\ num = f.n
    BY HeadTaken DEF Streams, HeadIs
  <1>2. /\ Flight \subseteq DataFrames /\ \A g \in Flight : g.n \in Nat /\ g.n > 0
        /\ count \in Nat
    BY FlightTyped DEF StreamShape
  <1>3. Sent(draft, told, f) /\ f \in DataFrames /\ num \in 1 .. count /\ num \in Nat
    <2>1. f \in DataFrames /\ num \in Nat /\ num > 0
      BY <1>1, <1>2
    <2>2. Sent(draft, told, f)
      BY <1>1 DEF History, Drawn
    <2>3. num <= count
      BY <1>1, <2>2 DEF Sent
    <2> QED BY <1>2, <2>1, <2>2, <2>3
  <1>4. cur \in 0 .. count /\ cur < num
    BY <1>1 DEF History, Reading
  <1>5. ASSUME NEW x, Still(x, cur)
        PROVE  StillIn(x, num, Flight \ {f}, link = "up", count) /\ x[num - 1] = x[cur]
    <2>1. \A g \in Flight \ {f} : g.n \in Nat /\ num < g.n
      BY <1>1, <1>2
    <2>2. f \in Flight /\ num = f.n /\ num \in Nat /\ count \in Nat /\ num <= count /\ cur < num
      BY <1>1, <1>2, <1>3, <1>4
    <2> QED BY <1>5, <2>1, <2>2, StillHere
  <1>6. /\ draft[num - 1] = draft[cur] /\ Matches(draft[cur])
        /\ (~excused => told[num - 1] = told[cur])
    BY <1>5 DEF History, Reading
  <1>7. num - 1 \in 0 .. count /\ num \in 0 .. count /\ cur <= num - 1 /\ num - 1 <= num
        /\ count \in 0 .. count /\ num <= count
    BY <1>2, <1>3, <1>4
  <1>8. told[num - 1] >= told[cur] /\ told[num] >= told[num - 1] /\ told[num] <= Len(offered)
    <2>1. told[cur] <= told[num - 1] /\ told[num - 1] <= told[num] /\ told[num] <= told[count]
      BY <1>4, <1>7 DEF History, Drawn
    <2> QED BY <1>7, <2>1 DEF History, Drawn
  <1>9. DraftSound(draft[cur])
    BY <1>4 DEF History, Drawn
  <1>10. Offers'
    BY DEF Streams, Offers, Drafting
  <1>11. Drawn(draft, told)'
    <2>1. \A g \in Flight' : Sent(draft, told, g)
      BY <1>1 DEF History, Drawn
    <2>2. \A g : Sent(draft, told, g)' <=> Sent(draft, told, g)
      BY DEF Sent, Fragmented
    <2>3. /\ (draft[count] = drafted /\ told[count] = Len(offered))'
          /\ (\A c, d \in 0 .. count : c <= d => told[c] <= told[d])'
          /\ (\A c \in 0 .. count : DraftSound(draft[c]))'
          /\ (~Fragmented => \A c \in 0 .. count : draft[c] = Nothing)'
      BY DEF History, Drawn, Fragmented, DraftSound
    <2> QED BY <2>1, <2>2, <2>3 DEF Drawn
  <1>12. ASSUME MatchesIn(inb', draft[num]), ~excused' => ~excused PROVE Reading(draft, told, num)'
    <2>1. StillIn(draft, num, Flight', link = "up", count)
      BY <1>1, <1>5 DEF History, Reading
    <2>2. ~excused => StillIn(told, num, Flight', link = "up", count)
      BY <1>1, <1>5 DEF History, Reading
    <2>3. Still(draft, num)' /\ (~excused => Still(told, num)')
      BY <2>1, <2>2 DEF Still
    <2>4. Matches(draft[num])'
      BY <1>12 DEF Matches
    <2> QED BY <1>1, <1>7, <1>12, <2>3, <2>4 DEF Reading
  <1> QED BY <1>1, <1>3, <1>6, <1>8, <1>9, <1>10, <1>11, <1>12

-----------------------------------------------------------------------------
(* What the application is given                                           *)

LEMMA OneMore ==
    ASSUME NEW S, NEW q \in Seq(S), NEW m \in S
    PROVE  /\ Append(q, m) \in Seq(S) /\ Len(Append(q, m)) = Len(q) + 1 /\ Len(q) \in Nat
           /\ Append(q, m)[Len(q) + 1] = m
           /\ \A i \in DOMAIN q : i \in DOMAIN Append(q, m) /\ Append(q, m)[i] = q[i]
           /\ \A i \in DOMAIN Append(q, m) : i \in DOMAIN q \/ i = Len(q) + 1
           /\ \A i \in DOMAIN q : i \in Nat /\ i > 0 /\ i < Len(q) + 1 /\ q[i] \in S
           /\ ToSet(Append(q, m)) = ToSet(q) \cup {m}
           /\ Append(q, m) # <<>>
  <1>1. /\ Append(q, m) \in Seq(S) /\ Len(Append(q, m)) = Len(q) + 1 /\ Len(q) \in Nat
        /\ Append(q, m)[Len(q) + 1] = m
        /\ \A i \in DOMAIN q : i \in DOMAIN Append(q, m) /\ Append(q, m)[i] = q[i]
        /\ Len(q) + 1 \in DOMAIN Append(q, m)
    OBVIOUS
  <1>2. /\ \A i \in DOMAIN Append(q, m) : i \in DOMAIN q \/ i = Len(q) + 1
        /\ \A i \in DOMAIN q : i \in Nat /\ i > 0 /\ i < Len(q) + 1 /\ q[i] \in S
    OBVIOUS
  <1>3. ToSet(Append(q, m)) = ToSet(q) \cup {m}
    BY <1>1, <1>2, Zenon DEF ToSet
  <1>4. Append(q, m) # <<>>
    BY <1>1
  <1> QED BY <1>1, <1>2, <1>3, <1>4

LEMMA OneLess ==
    ASSUME NEW S, NEW q \in Seq(S), q # <<>>
    PROVE  /\ Head(q) \in S /\ Tail(q) \in Seq(S) /\ Head(q) = q[1] /\ 1 \in DOMAIN q
           /\ Len(Tail(q)) = Len(q) - 1 /\ Len(q) \in Nat \ {0}
           /\ \A i \in DOMAIN Tail(q) : /\ i + 1 \in DOMAIN q /\ Tail(q)[i] = q[i + 1]
                                        /\ i \in Nat /\ i > 0
           /\ ToSet(Tail(q)) \subseteq ToSet(q) /\ Head(q) \in ToSet(q)
  <1>1. /\ Head(q) \in S /\ Tail(q) \in Seq(S) /\ Head(q) = q[1] /\ 1 \in DOMAIN q
        /\ Len(Tail(q)) = Len(q) - 1 /\ Len(q) \in Nat \ {0}
        /\ \A i \in DOMAIN Tail(q) : /\ i + 1 \in DOMAIN q /\ Tail(q)[i] = q[i + 1]
                                     /\ i \in Nat /\ i > 0
    OBVIOUS
  <1>2. ToSet(Tail(q)) \subseteq ToSet(q)
    <2> SUFFICES ASSUME NEW i \in DOMAIN Tail(q) PROVE Tail(q)[i] \in ToSet(q)
      BY DEF ToSet
    <2> QED BY <1>1 DEF ToSet
  <1>3. Head(q) \in ToSet(q)
    BY <1>1 DEF ToSet
  <1> QED BY <1>1, <1>2, <1>3

GivenShape ==
    /\ offered \in Seq(Messages) /\ received \in Seq(Messages) /\ queue \in Seq(Messages)
    /\ excused \in BOOLEAN /\ streaming \in BOOLEAN

\* The order of the first frames is the order of the offers.
LEMMA OrderOfOffers ==
    ASSUME GivenShape, Offers, NEW i \in DOMAIN offered, NEW j \in DOMAIN offered
    PROVE  /\ offered[i].first \in Nat /\ i \in Nat /\ i > 0 /\ i <= Len(offered)
           /\ i < j <=> offered[i].first < offered[j].first
           /\ offered[i] = offered[j] => i = j
  <1>1. /\ i \in Nat /\ j \in Nat /\ i > 0 /\ i <= Len(offered)
        /\ offered[i] \in Messages /\ offered[j] \in Messages
    BY DEF GivenShape
  <1>2. offered[i].first \in Nat /\ offered[j].first \in Nat
    BY <1>1 DEF Messages
  <1>3. /\ i < j => offered[i].first < offered[j].first
        /\ j < i => offered[j].first < offered[i].first
    BY DEF Offers
  <1>4. i = j => offered[i].first = offered[j].first
    OBVIOUS
  <1>5. offered[i] = offered[j] => offered[i].first = offered[j].first
    OBVIOUS
  <1> QED BY <1>1, <1>2, <1>3, <1>4, <1>5

\* What was received last, and its place.
LEMMA PlaceIs ==
    ASSUME GivenShape, Offers, received # <<>>, NEW k \in DOMAIN offered,
           offered[k] = received[Len(received)]
    PROVE  Stream!Place = k
  <1>1. \A j \in DOMAIN offered : offered[j] = received[Len(received)] => j = k
    BY OrderOfOffers
  <1>2. (CHOOSE j \in DOMAIN offered : offered[j] = received[Len(received)]) = k
    BY <1>1
  <1> QED BY <1>2 DEF Stream!Place

LEMMA TakesNext ==
    ASSUME GivenShape, Offers, NEW k \in DOMAIN offered,
           received' = Append(received, offered[k]), UNCHANGED <<offered, excused>>,
           received # <<>> => \E j \in DOMAIN offered :
                                  j < k /\ offered[j] = received[Len(received)],
           ~excused => /\ k = Len(received) + 1
                       /\ \A i \in DOMAIN received : received[i] = offered[i]
    PROVE  Stream!Take
  <1>1. k \in Nat /\ k > 0 /\ k <= Len(offered) /\ Len(received) \in Nat /\ Len(offered) \in Nat
        /\ DOMAIN offered = 1 .. Len(offered)
    BY DEF GivenShape
  <1>2. CASE received = <<>>
    <2>1. Stream!Place = 0
      BY <1>2 DEF Stream!Place
    <2>2. ~excused => k = 1
      BY <1>2
    <2> QED BY <1>1, <2>1, <2>2 DEF Stream!Take
  <1>3. CASE received # <<>>
    <2>1. PICK j \in DOMAIN offered : j < k /\ offered[j] = received[Len(received)]
      BY <1>3
    <2>2. Stream!Place = j /\ j \in Nat
      BY <1>3, <2>1, PlaceIs, OrderOfOffers
    <2>3. ASSUME ~excused PROVE k = j + 1
      <3>1. Len(received) \in DOMAIN received
        BY <1>3 DEF GivenShape
      <3>2. Len(received) \in DOMAIN offered
        BY <1>1, <2>3, <3>1
      <3>3. offered[Len(received)] = received[Len(received)]
        BY <2>3, <3>1
      <3>4. j = Len(received)
        BY <2>1, <3>2, <3>3, OrderOfOffers
      <3> QED BY <2>3, <3>4
    <2>4. k \in j + 1 .. Len(offered)
      BY <1>1, <2>1, <2>2
    <2> QED BY <2>2, <2>3, <2>4 DEF Stream!Take
  <1> QED BY <1>2, <1>3

-----------------------------------------------------------------------------
LEMMA GivenGrows ==
    ASSUME NEW n, NEW k \in 0 .. Len(offered), GivenShape, Given(n), n <= k, excused \/ k = n,
           UNCHANGED <<offered, received, queue, streaming, excused>>
    PROVE  Given(k)'
  <1>1. n \in Nat /\ k \in Nat /\ 1 .. n \subseteq 1 .. k
    BY DEF Given, GivenShape
  <1>2. \A m \in ToSet(queue) \cup ToSet(received) : \E j \in 1 .. k : offered[j] = m
    BY <1>1 DEF Given
  <1> QED BY <1>1, <1>2 DEF Given

LEMMA GivenDirect ==
    ASSUME NEW n, NEW k \in DOMAIN offered, GivenShape, Offers, Given(n), n < k,
           excused \/ k = n + 1, ~streaming, received' = Append(received, offered[k]),
           UNCHANGED <<offered, queue, streaming, excused>>
    PROVE  Given(k)' /\ Stream!Take /\ GivenShape'
  <1>1. /\ n \in Nat /\ k \in Nat /\ k <= Len(offered) /\ Len(offered) \in Nat
        /\ queue = <<>> /\ offered[k] \in Messages /\ DOMAIN offered = 1 .. Len(offered)
    BY DEF Given, GivenShape
  <1>2. /\ received' \in Seq(Messages) /\ Len(received') = Len(received) + 1
        /\ Len(received) \in Nat /\ received'[Len(received) + 1] = offered[k]
        /\ \A i \in DOMAIN received : received'[i] = received[i]
        /\ \A i \in DOMAIN received' : i \in DOMAIN received \/ i = Len(received) + 1
        /\ ToSet(received') = ToSet(received) \cup {offered[k]}
    BY <1>1, OneMore DEF GivenShape
  <1>3. GivenShape'
    BY <1>2 DEF GivenShape
  <1>4. ToSet(queue) = {} /\ Len(queue) = 0 /\ DOMAIN queue = {}
    BY <1>1 DEF ToSet
  <1>5. \A m \in ToSet(queue') \cup ToSet(received') : \E j \in 1 .. k : offered'[j] = m
    <2>1. 1 .. n \subseteq 1 .. k /\ k \in 1 .. k
      BY <1>1
    <2> QED BY <1>2, <1>4, <2>1 DEF Given
  <1>6. ASSUME ~excused
        PROVE  /\ k = Len(received) + 1
               /\ \A i \in DOMAIN received : received[i] = offered[i]
    BY <1>1, <1>2, <1>4, <1>6 DEF Given
  <1>7. Given(k)'
    BY <1>1, <1>2, <1>4, <1>5, <1>6 DEF Given
  <1>8. ASSUME received # <<>>
        PROVE  \E j \in DOMAIN offered : j < k /\ offered[j] = received[Len(received)]
    <2>1. received[Len(received)] \in ToSet(received)
      BY <1>8 DEF GivenShape, ToSet
    <2>2. PICK j \in 1 .. n : offered[j] = received[Len(received)]
      BY <2>1 DEF Given
    <2> QED BY <1>1, <2>2
  <1>9. Stream!Take
    BY <1>6, <1>8, TakesNext
  <1> QED BY <1>3, <1>7, <1>9

LEMMA GivenQueued ==
    ASSUME NEW n, NEW k \in DOMAIN offered, GivenShape, Offers, Given(n), n < k,
           excused \/ k = n + 1, streaming, NEW full \in BOOLEAN, full => queue # <<>>,
           queue' = Append(IF full THEN Tail(queue) ELSE queue, offered[k]),
           excused' = (excused \/ full), UNCHANGED <<offered, received, streaming>>
    PROVE  Given(k)' /\ GivenShape'
  <1> DEFINE q == IF full THEN Tail(queue) ELSE queue
  <1>1. /\ n \in Nat /\ k \in Nat /\ k <= Len(offered) /\ Len(offered) \in Nat
        /\ offered[k] \in Messages /\ DOMAIN offered = 1 .. Len(offered)
    BY DEF Given, GivenShape
  <1>2. /\ q \in Seq(Messages) /\ ToSet(q) \subseteq ToSet(queue)
        /\ \A i, j \in DOMAIN q : i < j => q[i].first < q[j].first
        /\ ~full => q = queue
    <2>1. CASE ~full
      BY <2>1 DEF GivenShape, Given
    <2>2. CASE full
      <3>1. q = Tail(queue) /\ queue # <<>> /\ queue \in Seq(Messages)
        BY <2>2 DEF GivenShape
      <3>2. /\ q \in Seq(Messages) /\ ToSet(q) \subseteq ToSet(queue)
            /\ \A i \in DOMAIN q : i + 1 \in DOMAIN queue /\ q[i] = queue[i + 1] /\ i \in Nat
        BY <3>1, OneLess
      <3>3. ASSUME NEW i \in DOMAIN q, NEW j \in DOMAIN q, i < j PROVE q[i].first < q[j].first
        <4>1. i + 1 < j + 1
          BY <3>2, <3>3
        <4> QED BY <3>2, <4>1 DEF Given
      <3> QED BY <2>2, <3>2, <3>3
    <2> QED BY <2>1, <2>2
  <1> HIDE DEF q
  <1>3. PICK msg : msg = offered[k] /\ msg \in Messages /\ queue' = Append(q, msg)
    BY <1>1 DEF q
  <1>4. /\ queue' \in Seq(Messages) /\ Len(queue') = Len(q) + 1 /\ Len(q) \in Nat
        /\ queue'[Len(q) + 1] = offered[k]
        /\ \A i \in DOMAIN q : queue'[i] = q[i]
        /\ \A i \in DOMAIN queue' : i \in DOMAIN q \/ i = Len(q) + 1
        /\ \A i \in DOMAIN q : i \in Nat /\ i < Len(q) + 1
        /\ ToSet(queue') = ToSet(q) \cup {offered[k]}
    <2>1. /\ Append(q, msg) \in Seq(Messages) /\ Len(Append(q, msg)) = Len(q) + 1 /\ Len(q) \in Nat
          /\ Append(q, msg)[Len(q) + 1] = msg
          /\ \A i \in DOMAIN q : Append(q, msg)[i] = q[i]
          /\ \A i \in DOMAIN Append(q, msg) : i \in DOMAIN q \/ i = Len(q) + 1
          /\ \A i \in DOMAIN q : i \in Nat /\ i < Len(q) + 1
          /\ ToSet(Append(q, msg)) = ToSet(q) \cup {msg}
      BY <1>2, <1>3, OneMore
    <2> QED BY <1>3, <2>1
  <1>5. GivenShape'
    BY <1>4 DEF GivenShape
  <1>6. ASSUME NEW m \in ToSet(queue) \cup ToSet(received) PROVE m.first < offered[k].first
    <2>1. PICK j \in 1 .. n : offered[j] = m
      BY DEF Given
    <2>2. j \in DOMAIN offered /\ j < k
      BY <1>1, <2>1
    <2> QED BY <2>1, <2>2 DEF Offers
  <1>7. \A m \in ToSet(queue') \cup ToSet(received') : \E j \in 1 .. k : offered'[j] = m
    <2>1. 1 .. n \subseteq 1 .. k /\ k \in 1 .. k
      BY <1>1
    <2> QED BY <1>2, <1>4, <2>1 DEF Given
  <1>8. \A i, j \in DOMAIN queue' : i < j => queue'[i].first < queue'[j].first
    <2> SUFFICES ASSUME NEW i \in DOMAIN queue', NEW j \in DOMAIN queue', i < j
                 PROVE  queue'[i].first < queue'[j].first
      OBVIOUS
    <2>1. i \in DOMAIN q
      BY <1>4
    <2>2. CASE j \in DOMAIN q
      BY <1>2, <1>4, <2>1, <2>2
    <2>3. CASE j = Len(q) + 1
      <3>1. q[i] \in ToSet(queue)
        BY <1>2, <2>1 DEF ToSet
      <3> QED BY <1>4, <1>6, <2>1, <2>3, <3>1
    <2> QED BY <1>4, <2>2, <2>3
  <1>9. ASSUME received # <<>>, NEW m \in ToSet(queue')
        PROVE  received[Len(received)].first < m.first
    <2>1. received[Len(received)] \in ToSet(received)
      BY <1>9 DEF GivenShape, ToSet
    <2> QED BY <1>2, <1>4, <1>6, <1>9, <2>1 DEF Given
  <1>10. ASSUME ~excused'
         PROVE  /\ Len(received) + Len(queue') = k
                /\ \A i \in DOMAIN received : received[i] = offered[i]
                /\ \A i \in DOMAIN queue' : queue'[i] = offered[Len(received) + i]
    <2>1. ~full /\ ~excused /\ k = n + 1 /\ q = queue
      BY <1>2, <1>10
    <2>2. /\ Len(received) + Len(q) = n /\ Len(received) \in Nat
          /\ \A i \in DOMAIN received : received[i] = offered[i]
          /\ \A i \in DOMAIN q : q[i] = offered[Len(received) + i]
      BY <2>1 DEF Given, GivenShape
    <2>3. Len(received) + (Len(q) + 1) = k
      BY <1>4, <2>1, <2>2
    <2> QED BY <1>4, <2>2, <2>3
  <1> QED BY <1>1, <1>5, <1>7, <1>8, <1>9, <1>10 DEF Given

LEMMA GivenTaken ==
    ASSUME NEW n, GivenShape, Offers, Given(n), queue # <<>>,
           received' = Append(received, Head(queue)), queue' = Tail(queue), streaming' = TRUE,
           UNCHANGED <<offered, excused>>
    PROVE  Given(n)' /\ Stream!Take /\ GivenShape'
  <1>1. /\ n \in Nat /\ n <= Len(offered) /\ Len(offered) \in Nat
        /\ DOMAIN offered = 1 .. Len(offered)
    BY DEF Given, GivenShape
  <1>2. /\ Head(queue) \in Messages /\ queue' \in Seq(Messages)
        /\ Head(queue) = queue[1] /\ 1 \in DOMAIN queue
        /\ Len(queue') = Len(queue) - 1 /\ Len(queue) \in Nat \ {0}
        /\ \A i \in DOMAIN queue' : /\ i + 1 \in DOMAIN queue /\ queue'[i] = queue[i + 1]
                                    /\ i \in Nat /\ i > 0
        /\ ToSet(queue') \subseteq ToSet(queue) /\ Head(queue) \in ToSet(queue)
    BY OneLess DEF GivenShape
  <1>3. PICK k \in 1 .. n : offered[k] = Head(queue)
    BY <1>2 DEF Given
  <1>4. /\ received' \in Seq(Messages) /\ Len(received') = Len(received) + 1
        /\ Len(received) \in Nat /\ received'[Len(received) + 1] = offered[k]
        /\ \A i \in DOMAIN received : received'[i] = received[i]
        /\ \A i \in DOMAIN received' : i \in DOMAIN received \/ i = Len(received) + 1
        /\ ToSet(received') = ToSet(received) \cup {offered[k]}
    BY <1>2, <1>3, OneMore DEF GivenShape
  <1>5. GivenShape'
    BY <1>2, <1>4 DEF GivenShape
  <1>6. k \in DOMAIN offered /\ received' = Append(received, offered[k])
    BY <1>1, <1>3
  <1>7. ASSUME received # <<>>
        PROVE  \E j \in DOMAIN offered : j < k /\ offered[j] = received[Len(received)]
    <2>1. received[Len(received)] \in ToSet(received)
      BY <1>7 DEF GivenShape, ToSet
    <2>2. PICK j \in 1 .. n : offered[j] = received[Len(received)]
      BY <2>1 DEF Given
    <2>3. j \in DOMAIN offered /\ offered[j].first < offered[k].first
      BY <1>1, <1>2, <1>3, <1>7, <2>2 DEF Given
    <2> QED BY <1>6, <2>2, <2>3, OrderOfOffers
  <1>8. ASSUME ~excused
        PROVE  /\ k = Len(received) + 1
               /\ Len(received) + Len(queue) = n
               /\ \A i \in DOMAIN received : received[i] = offered[i]
               /\ \A i \in DOMAIN queue : queue[i] = offered[Len(received) + i]
    <2>1. /\ Len(received) + Len(queue) = n
          /\ \A i \in DOMAIN received : received[i] = offered[i]
          /\ \A i \in DOMAIN queue : queue[i] = offered[Len(received) + i]
      BY <1>8 DEF Given
    <2>2. Len(received) + 1 \in DOMAIN offered
      BY <1>1, <1>2, <1>4, <2>1
    <2>3. offered[k] = offered[Len(received) + 1]
      BY <1>2, <1>3, <2>1
    <2> QED BY <1>6, <2>1, <2>2, <2>3, OrderOfOffers
  <1>9. Stream!Take
    BY <1>6, <1>7, <1>8, TakesNext
  <1>10. \A m \in ToSet(queue') \cup ToSet(received') : \E j \in 1 .. n : offered'[j] = m
    BY <1>2, <1>3, <1>4 DEF Given
  <1>11. \A i, j \in DOMAIN queue' : i < j => queue'[i].first < queue'[j].first
    <2> SUFFICES ASSUME NEW i \in DOMAIN queue', NEW j \in DOMAIN queue', i < j
                 PROVE  queue'[i].first < queue'[j].first
      OBVIOUS
    <2>1. i + 1 < j + 1
      BY <1>2
    <2> QED BY <1>2, <2>1 DEF Given
  <1>12. ASSUME NEW m \in ToSet(queue') PROVE received'[Len(received')].first < m.first
    <2>1. PICK i \in DOMAIN queue' : m = queue'[i]
      BY DEF ToSet
    <2>2. 1 < i + 1
      BY <1>2
    <2>3. queue[1].first < queue[i + 1].first
      BY <1>2, <2>2 DEF Given
    <2> QED BY <1>2, <1>3, <1>4, <2>1, <2>3
  <1>13. ASSUME ~excused
         PROVE  /\ Len(received') + Len(queue') = n
                /\ \A i \in DOMAIN received' : received'[i] = offered[i]
                /\ \A i \in DOMAIN queue' : queue'[i] = offered[Len(received') + i]
    <2>1. Len(received') + Len(queue') = n
      BY <1>2, <1>4, <1>8, <1>13
    <2>2. \A i \in DOMAIN received' : received'[i] = offered[i]
      BY <1>4, <1>8, <1>13
    <2>3. \A i \in DOMAIN queue' : Len(received) + (i + 1) = Len(received') + i
      BY <1>2, <1>4
    <2> QED BY <1>2, <1>8, <1>13, <2>1, <2>2, <2>3
  <1>14. n \in 0 .. Len(offered)
    BY DEF Given
  <1> QED BY <1>5, <1>9, <1>10, <1>11, <1>12, <1>13, <1>14 DEF Given

LEMMA GivenOffered ==
    ASSUME NEW n, NEW m \in Messages, GivenShape, Given(n), offered' = Append(offered, m),
           UNCHANGED <<received, queue, streaming, excused>>
    PROVE  Given(n)' /\ GivenShape'
  <1>1. /\ offered' \in Seq(Messages) /\ Len(offered') = Len(offered) + 1 /\ Len(offered) \in Nat
        /\ \A i \in DOMAIN offered : offered'[i] = offered[i]
        /\ DOMAIN offered = 1 .. Len(offered) /\ n \in 0 .. Len(offered)
    BY OneMore DEF GivenShape, Given
  <1>2. \A i \in 1 .. n : offered'[i] = offered[i]
    BY <1>1
  <1>3. \A x \in ToSet(queue) \cup ToSet(received) : \E k \in 1 .. n : offered'[k] = x
    BY <1>2 DEF Given
  <1>4. ASSUME ~excused
        PROVE  /\ Len(received) + Len(queue) = n
               /\ \A i \in DOMAIN received : received[i] = offered'[i]
               /\ \A i \in DOMAIN queue : queue[i] = offered'[Len(received) + i]
    <2>1. /\ Len(received) + Len(queue) = n
          /\ \A i \in DOMAIN received : received[i] = offered[i]
          /\ \A i \in DOMAIN queue : queue[i] = offered[Len(received) + i]
      BY <1>4 DEF Given
    <2>2. /\ \A i \in DOMAIN received : i \in 1 .. n
          /\ \A i \in DOMAIN queue : Len(received) + i \in 1 .. n
      BY <1>1, <2>1 DEF GivenShape
    <2> QED BY <1>2, <2>1, <2>2
  <1> QED BY <1>1, <1>3, <1>4 DEF Given, GivenShape

-----------------------------------------------------------------------------
(* Data frames are dispatched                                              *)

StreamStep == [Stream!Next]_<<offered, received, excused>>

\* A data frame that offers nothing, or nothing that is given.
LEMMA DataRead ==
    ASSUME NEW f, NEW num, HeadIs(f, num), Streams, StreamShape, Alive, rx' = Tail(rx),
           NEW draft \in [Nat -> Drafts], NEW told \in [Nat -> Nat], NEW cur \in Nat,
           History(draft, told, cur),
           UNCHANGED <<setup, link, toUs, count, drafted, offered>>,
           MatchesIn(inb', draft[num]), ~excused' => ~excused, Given(told[num])'
    PROVE  Streams'
  <1>1. InOrder' /\ Offers' /\ Drawn(draft, told)' /\ Reading(draft, told, num)'
    BY DataFed
  <1>2. num \in Nat
    <2>1. num \in 1 .. count
      BY DataFed
    <2>2. count \in Nat
      BY DEF StreamShape
    <2> QED BY <2>1, <2>2
  <1> QED BY <1>1, <1>2 DEF Streams, History

\* The session as the peer's frame finds it.
Meets(f, num, draft, told, cur, d, n) ==
    /\ draft \in [Nat -> Drafts] /\ told \in [Nat -> Nat] /\ cur \in Nat
    /\ History(draft, told, cur)
    /\ HeadIs(f, num) /\ f \in DataFrames
    /\ d = draft[cur] /\ d \in Drafts /\ DraftSound(d) /\ Matches(d)
    /\ n = told[cur] /\ Given(n) /\ n \in Nat
    /\ ~f.valid => f.size > 0
    /\ f.size > MaxMessage => f.op = "text" /\ f.fin
    /\ draft[num] = DraftAfter(d, f)
    /\ told[num] \in n .. Len(offered)
    /\ ~Offering(d, f) => excused \/ told[num] = n
    /\ Offering(d, f) =>
          /\ told[num] \in DOMAIN offered /\ n < told[num]
          /\ offered[told[num]] = Message(DraftOf(d, f))
          /\ excused \/ told[num] = n + 1

LEMMA DataMeets ==
    ASSUME Streams, StreamShape, Alive, rx # <<>>, IsData(rx[1]), rx' = Tail(rx),
           UNCHANGED <<setup, link, toUs, count, drafted, offered>>
    PROVE  \E f, num, draft, told, cur, d, n :
              Meets(f, num, draft, told, cur, d, n) /\ f = rx[1]
  <1>1. PICK draft \in [Nat -> Drafts], told \in [Nat -> Nat], cur \in Nat :
              History(draft, told, cur)
    BY DEF Streams
  <1>2. PICK f, num : HeadIs(f, num) /\ f = rx[1]
    BY DEF HeadIs
  <1>3. /\ f \in DataFrames /\ Sent(draft, told, f)
        /\ num \in 1 .. count
        /\ draft[num - 1] = draft[cur] /\ DraftSound(draft[cur])
        /\ told[num - 1] >= told[cur] /\ told[num] >= told[num - 1]
        /\ told[num] <= Len(offered)
        /\ ~excused => told[num - 1] = told[cur]
        /\ Matches(draft[cur])
    <2>1. HeadIs(f, num)
      BY <1>2
    <2> QED BY <1>1, <2>1, DataFed
  <1>4. PICK d, n : d = draft[cur] /\ n = told[cur]
    OBVIOUS
  <1>5. d \in Drafts /\ n \in Nat /\ Given(n) /\ num \in Nat \ {0} /\ num - 1 \in Nat
        /\ Len(offered) \in Nat /\ DOMAIN offered = 1 .. Len(offered)
    <2>1. count \in Nat /\ Len(offered) \in Nat /\ DOMAIN offered = 1 .. Len(offered)
      BY DEF StreamShape
    <2>2. num \in Nat \ {0} /\ num - 1 \in Nat
      BY <1>3, <2>1
    <2>3. d \in Drafts /\ n \in Nat
      BY <1>1, <1>4
    <2>4. Given(n)
      BY <1>1, <1>4 DEF History
    <2> QED BY <2>1, <2>2, <2>3, <2>4
  <1>6. told[num] \in Nat /\ told[num - 1] \in Nat /\ told[num - 1] >= n
        /\ (~excused => told[num - 1] = n)
    BY <1>3, <1>4, <1>5
  <1>7. f.n = num
    BY <1>2 DEF HeadIs
  <1>8. /\ ~f.valid => f.size > 0
        /\ f.size > MaxMessage => f.op = "text" /\ f.fin
        /\ draft[num] = DraftAfter(d, f)
        /\ Offering(d, f) => /\ told[num] = told[num - 1] + 1
                             /\ offered[told[num]] = Message(DraftOf(d, f))
        /\ ~Offering(d, f) => told[num] = told[num - 1]
    <2>1. draft[num - 1] = d
      BY <1>3, <1>4
    <2> QED BY <1>3, <1>7, <2>1 DEF Sent
  <1>9. told[num] \in n .. Len(offered)
    BY <1>3, <1>5, <1>6
  <1>10. ASSUME Offering(d, f)
         PROVE  told[num] \in DOMAIN offered /\ n < told[num] /\ (excused \/ told[num] = n + 1)
    <2>1. told[num] = told[num - 1] + 1 /\ told[num - 1] \in Nat /\ told[num - 1] >= n
      BY <1>6, <1>8, <1>10
    <2>4. told[num] <= Len(offered) /\ Len(offered) \in Nat /\ n \in Nat
      BY <1>3, <1>5
    <2>5. DOMAIN offered = 1 .. Len(offered)
      BY <1>5
    <2>8. PICK a, b : a = told[num - 1] /\ b = told[num]
      OBVIOUS
    <2>9. b = a + 1 /\ a \in Nat /\ a >= n /\ n \in Nat
      BY <2>1, <2>4, <2>8
    <2>10. b \in Nat /\ n < b /\ b >= 1
      BY <2>9
    <2>6. told[num] \in Nat /\ n < told[num] /\ told[num] >= 1
      BY <2>8, <2>10
    <2>7. told[num] \in 1 .. Len(offered)
      BY <2>4, <2>6
    <2>2. told[num] \in DOMAIN offered /\ n < told[num]
      BY <2>5, <2>6, <2>7
    <2>3. ~excused => told[num] = n + 1
      BY <1>6, <2>1
    <2> QED BY <2>2, <2>3
  <1>11. Meets(f, num, draft, told, cur, d, n)
    BY <1>1, <1>2, <1>3, <1>4, <1>5, <1>6, <1>8, <1>9, <1>10 DEF Meets
  <1> QED BY <1>2, <1>11

\* Nothing is given.
LEMMA DataIgnored ==
    ASSUME NEW f, NEW num, NEW draft, NEW told, NEW cur, NEW d, NEW n,
           Meets(f, num, draft, told, cur, d, n), Streams, StreamShape, Alive, rx' = Tail(rx),
           UNCHANGED <<setup, link, toUs, count, drafted, offered>>,
           UNCHANGED <<queue, received, streaming, excused>>,
           MatchesIn(inb', DraftAfter(d, f)), ~Offering(d, f)
    PROVE  Streams'
  <1>1. /\ draft \in [Nat -> Drafts] /\ told \in [Nat -> Nat] /\ cur \in Nat
        /\ History(draft, told, cur) /\ HeadIs(f, num) /\ draft[num] = DraftAfter(d, f)
        /\ Given(n) /\ told[num] \in n .. Len(offered) /\ n \in Nat
        /\ excused \/ told[num] = n
    BY DEF Meets
  <1>2. PICK k : k = told[num]
    OBVIOUS
  <1>3. k \in 0 .. Len(offered) /\ n <= k /\ (excused \/ k = n) /\ GivenShape
    <2>1. Len(offered) \in Nat
      BY DEF StreamShape
    <2>4. told[num] \in n .. Len(offered) /\ n \in Nat
      BY <1>1
    <2>2. k \in 0 .. Len(offered) /\ n <= k
      BY <1>2, <2>1, <2>4
    <2>3. GivenShape
      BY DEF StreamShape, GivenShape
    <2> QED BY <1>1, <1>2, <2>2, <2>3
  <1>4. Given(k)'
    BY <1>1, <1>3, GivenGrows
  <1>5. Given(told[num])'
    BY <1>2, <1>4
  <1>6. MatchesIn(inb', draft[num])
    BY <1>1
  <1> QED BY <1>1, <1>5, <1>6, DataRead

LEMMA MisplacedStreams ==
    ASSUME StreamInv, DispatchMisplaced, UNCHANGED peer
    PROVE  Streams' /\ StreamShape' /\ StreamStep
  <1>1. /\ rx # <<>> /\ IsData(rx[1]) /\ rx' = Tail(rx) /\ Alive /\ Streams /\ StreamShape
        /\ UNCHANGED <<setup, link, toUs, count, drafted, offered>>
        /\ UNCHANGED <<queue, received, streaming, excused, latched, calls>>
    BY DEF DispatchMisplaced, Feeds, IsData, Alive, StreamInv, peer, wire, hist
  <1>2. PICK f, num, draft, told, cur, d, n :
            Meets(f, num, draft, told, cur, d, n) /\ f = rx[1]
    BY <1>1, DataMeets
  <1>3. /\ OutOfPlace(f) \/ Flood(f)
        /\ inb' = IF OutOfPlace(f) THEN inb ELSE Joined(f)
    BY <1>2 DEF DispatchMisplaced
  <1>4. /\ d \in Drafts /\ DraftSound(d) /\ f \in DataFrames /\ (~f.valid => f.size > 0)
        /\ (f.size > MaxMessage => f.op = "text" /\ f.fin) /\ inb \in Drafts /\ Matches(d)
    BY <1>1, <1>2 DEF Meets, StreamShape
  <1>5. CASE OutOfPlace(f)
    <2>1. MatchesIn(inb', DraftAfter(d, f)) /\ ~Offering(d, f) /\ inb' \in Drafts
      BY <1>3, <1>4, <1>5, FrameRead DEF Offering
    <2> QED BY <1>1, <1>2, <2>1, DataIgnored, HeadTaken DEF StreamShape, Streams, StreamStep
  <1>6. CASE ~OutOfPlace(f)
    <2>1. Flood(f) /\ ~f.fin
      BY <1>3, <1>6 DEF Flood
    <2>2. MatchesIn(inb', DraftAfter(d, f)) /\ ~Offering(d, f) /\ inb' \in Drafts
      BY <1>3, <1>4, <1>6, <2>1, FrameRead DEF Offering
    <2> QED BY <1>1, <1>2, <2>2, DataIgnored, HeadTaken DEF StreamShape, Streams, StreamStep
  <1> QED BY <1>5, <1>6

LEMMA FragmentStreams ==
    ASSUME StreamInv, DispatchFragment, UNCHANGED peer
    PROVE  Streams' /\ StreamShape' /\ StreamStep
  <1>1. /\ rx # <<>> /\ IsData(rx[1]) /\ rx' = Tail(rx) /\ Alive /\ Streams /\ StreamShape
        /\ UNCHANGED <<setup, link, toUs, count, drafted, offered>>
        /\ UNCHANGED <<queue, received, streaming, excused, latched, calls>>
    BY DEF DispatchFragment, Feeds, IsData, Alive, StreamInv, peer, wire, hist
  <1>2. PICK f, num, draft, told, cur, d, n :
            Meets(f, num, draft, told, cur, d, n) /\ f = rx[1]
    BY <1>1, DataMeets
  <1>3. ~OutOfPlace(f) /\ ~Flood(f) /\ ~f.fin /\ inb' = Extended(f)
    BY <1>2 DEF DispatchFragment, InPlace
  <1>4. /\ d \in Drafts /\ DraftSound(d) /\ f \in DataFrames /\ (~f.valid => f.size > 0)
        /\ (f.size > MaxMessage => f.op = "text" /\ f.fin) /\ inb \in Drafts /\ Matches(d)
    BY <1>1, <1>2 DEF Meets, StreamShape
  <1>5. MatchesIn(inb', DraftAfter(d, f)) /\ ~Offering(d, f) /\ inb' \in Drafts
    BY <1>3, <1>4, FrameRead DEF Offering
  <1> QED BY <1>1, <1>2, <1>5, DataIgnored, HeadTaken DEF StreamShape, Streams, StreamStep

\* A message is given.
LEMMA DataGiven ==
    ASSUME NEW f, NEW num, NEW draft, NEW told, NEW cur, NEW d, NEW n,
           Meets(f, num, draft, told, cur, d, n), Streams, StreamShape, Alive, rx' = Tail(rx),
           UNCHANGED <<setup, link, toUs, count, drafted, offered>>,
           MatchesIn(inb', DraftAfter(d, f)), Offering(d, f), UNCHANGED streaming,
           NEW m, m = Message(DraftOf(d, f)),
           IF streaming
           THEN LET full == Len(queue) = MaxInbound IN
                /\ queue' = Append(IF full THEN Tail(queue) ELSE queue, m)
                /\ excused' = (excused \/ full)
                /\ UNCHANGED received
           ELSE /\ received' = Append(received, m)
                /\ UNCHANGED <<queue, excused>>
    PROVE  Streams' /\ GivenShape' /\ StreamStep
  <1>1. /\ draft \in [Nat -> Drafts] /\ told \in [Nat -> Nat] /\ cur \in Nat
        /\ History(draft, told, cur) /\ HeadIs(f, num) /\ draft[num] = DraftAfter(d, f)
        /\ Given(n) /\ n \in Nat
        /\ told[num] \in DOMAIN offered /\ n < told[num] /\ offered[told[num]] = m
        /\ excused \/ told[num] = n + 1
    BY DEF Meets
  <1>2. PICK k : k = told[num]
    OBVIOUS
  <1>3. k \in DOMAIN offered /\ n < k /\ offered[k] = m /\ (excused \/ k = n + 1)
        /\ GivenShape /\ Offers
    BY <1>1, <1>2 DEF StreamShape, GivenShape, Streams
  <1>4. MatchesIn(inb', draft[num])
    BY <1>1
  <1>5. CASE ~streaming
    <2>1. /\ received' = Append(received, offered[k])
          /\ UNCHANGED <<offered, queue, streaming, excused>>
      BY <1>3, <1>5
    <2>2. Given(k)' /\ Stream!Take /\ GivenShape'
      BY <1>1, <1>3, <1>5, <2>1, GivenDirect
    <2>3. Given(told[num])'
      BY <1>2, <2>2
    <2>4. ~excused' => ~excused
      BY <2>1
    <2>5. Streams'
      BY <1>1, <1>4, <2>3, <2>4, DataRead
    <2> QED BY <2>2, <2>5 DEF StreamStep, Stream!Next
  <1>6. CASE streaming
    <2>1. PICK full \in BOOLEAN : full <=> Len(queue) = MaxInbound
      OBVIOUS
    <2>2. /\ queue' = Append(IF full THEN Tail(queue) ELSE queue, offered[k])
          /\ excused' = (excused \/ full) /\ UNCHANGED received
      BY <1>3, <1>6, <2>1
    <2>3. full => queue # <<>>
      BY <2>1, WebSocketAssumption DEF WebSocketAssumption
    <2>4. Given(k)' /\ GivenShape'
      BY <1>1, <1>3, <1>6, <2>2, <2>3, GivenQueued
    <2>5. Given(told[num])'
      BY <1>2, <2>4
    <2>6. ~excused' => ~excused
      BY <2>2
    <2>7. Streams'
      BY <1>1, <1>4, <2>5, <2>6, DataRead
    <2>8. StreamStep
      <3>1. excused \in BOOLEAN /\ excused' \in BOOLEAN
        BY <2>4 DEF GivenShape, StreamShape
      <3>2. excused' = excused \/ excused' = TRUE
        BY <2>2, <3>1
      <3> QED BY <2>2, <3>2 DEF StreamStep, Stream!Next, Stream!Skip
    <2> QED BY <2>4, <2>7, <2>8
  <1> QED BY <1>5, <1>6

LEMMA FinalStreams ==
    ASSUME StreamInv, DispatchFinal, UNCHANGED peer
    PROVE  Streams' /\ StreamShape' /\ StreamStep
  <1>1. /\ rx # <<>> /\ IsData(rx[1]) /\ rx' = Tail(rx) /\ Alive /\ Streams /\ StreamShape
        /\ UNCHANGED <<setup, link, toUs, count, drafted, offered>>
        /\ UNCHANGED <<streaming, latched, calls>>
    BY DEF DispatchFinal, Feeds, IsData, Alive, StreamInv, peer, wire
  <1>2. PICK f, num, draft, told, cur, d, n :
            Meets(f, num, draft, told, cur, d, n) /\ f = rx[1]
    BY <1>1, DataMeets
  <1>3. ~OutOfPlace(f) /\ ~Flood(f) /\ f.fin /\ FinishMessage(f)
    BY <1>2 DEF DispatchFinal, InPlace
  <1>4. /\ d \in Drafts /\ DraftSound(d) /\ f \in DataFrames /\ (~f.valid => f.size > 0)
        /\ (f.size > MaxMessage => f.op = "text" /\ f.fin) /\ inb \in Drafts /\ Matches(d)
    BY <1>1, <1>2 DEF Meets, StreamShape
  <1>5. inb' = Nothing /\ Nothing \in Drafts
    BY <1>3 DEF FinishMessage, Nothing, Drafts
  <1>6. MatchesIn(inb', DraftAfter(d, f))
    BY <1>3, <1>4, <1>5, FrameRead
  <1>7. rx' \in Seq(InFrames)
    BY <1>1, HeadTaken DEF Streams
  <1>8. ASSUME ~Offering(d, f), UNCHANGED <<queue, received, excused>>
        PROVE  Streams' /\ StreamShape' /\ StreamStep
    BY <1>1, <1>2, <1>5, <1>6, <1>7, <1>8, DataIgnored DEF StreamShape, StreamStep
  <1>9. ASSUME Offering(d, f), NEW whole, Message(whole) = Message(DraftOf(d, f)), whole.valid,
               DeliverMessage(whole)
        PROVE  Streams' /\ StreamShape' /\ StreamStep
    <2>1. Streams' /\ GivenShape' /\ StreamStep
      BY <1>1, <1>2, <1>6, <1>9, DataGiven DEF DeliverMessage
    <2> QED BY <1>1, <1>5, <1>7, <2>1 DEF StreamShape, GivenShape
  <1>10. CASE TakesFastPath(f)
    <2>1. DeliverMessage(FastMessage(f))
      BY <1>3, <1>10 DEF FinishMessage
    <2>2. /\ Offering(d, f) <=> FastMessage(f).valid
          /\ Message(FastMessage(f)) = Message(DraftOf(d, f))
      BY <1>3, <1>4, <1>10, FrameRead
    <2>3. CASE FastMessage(f).valid
      BY <1>9, <2>1, <2>2, <2>3
    <2>4. CASE ~FastMessage(f).valid
      BY <1>8, <2>1, <2>2, <2>4 DEF DeliverMessage
    <2> QED BY <2>3, <2>4
  <1>11. CASE ~TakesFastPath(f)
    <2>1. /\ Offering(d, f) <=> ~Extended(f).oversized /\ Extended(f).valid
          /\ ~Extended(f).oversized => Message(Extended(f)) = Message(DraftOf(d, f))
      BY <1>3, <1>4, <1>11, FrameRead
    <2>2. CASE Extended(f).oversized
      <3>1. DropMessage
        BY <1>3, <1>11, <2>2 DEF FinishMessage
      <3> QED BY <1>8, <2>1, <2>2, <3>1 DEF DropMessage
    <2>3. CASE ~Extended(f).oversized
      <3>1. DeliverMessage(Extended(f))
        BY <1>3, <1>11, <2>3 DEF FinishMessage
      <3>2. CASE Extended(f).valid
        BY <1>9, <2>1, <2>3, <3>1, <3>2
      <3>3. CASE ~Extended(f).valid
        BY <1>8, <2>1, <3>1, <3>3 DEF DeliverMessage
      <3> QED BY <3>2, <3>3
    <2> QED BY <2>2, <2>3
  <1> QED BY <1>10, <1>11

\* A step that takes no frame: the connection may go, with what was on it.
QuietStep ==
    /\ rx' = rx /\ toUs' \in {toUs, <<>>}
    /\ link' = "up" => (link = "up" /\ toUs' = toUs) \/ count = 0
    /\ UNCHANGED Told /\ UNCHANGED latched
    /\ excused' \in {excused, TRUE}
    /\ calls' \in [send : Int, close : Int, block : Int]
    /\ called => called' /\ (state = "closed" => state' = "closed")

LEMMA QuietStreams ==
    ASSUME StreamInv, QuietStep
    PROVE  Streams' /\ StreamShape' /\ StreamStep
  <1>1. Streams /\ StreamShape /\ UNCHANGED Told
    BY DEF StreamInv, QuietStep
  <1>2. rx' = rx /\ (toUs' = toUs \/ toUs' = <<>>) /\ excused' \in BOOLEAN /\ (excused => excused')
    BY <1>1 DEF StreamShape, QuietStep
  <1>3. StreamShape'
    <2>1. rx' \in Seq(InFrames)
      BY <1>1, <1>2 DEF StreamShape
    <2>2. toUs' \in Seq(InFrames)
      <3>1. toUs \in Seq(InFrames) /\ <<>> \in Seq(InFrames)
        BY <1>1 DEF StreamShape
      <3>2. toUs' \in {toUs, <<>>}
        BY DEF QuietStep
      <3> QED BY <3>1, <3>2
    <2> QED BY <1>1, <1>2, <2>1, <2>2 DEF StreamShape, QuietStep, Told
  <1>4. StreamStep
    BY <1>1 DEF StreamStep, Stream!Next, Stream!Skip, QuietStep, Told
  <1>5. InOrder'
    <2>1. CASE toUs' = toUs
      BY <1>1, <1>2, <2>1 DEF Streams, InOrder
    <2>2. CASE toUs' = <<>>
      BY <1>1, <1>2, <2>2 DEF Streams, InOrder, Rising, Before
    <2> QED BY <1>2, <2>1, <2>2
  <1>6. Flight' \subseteq Flight /\ (toUs' = toUs => Flight' = Flight)
    <2>1. CASE toUs' = toUs
      BY <1>2, <2>1 DEF Flight
    <2>2. CASE toUs' = <<>>
      <3>1. ToSet(toUs') = {}
        BY <2>2 DEF ToSet
      <3> QED BY <1>2, <2>2, <3>1 DEF Flight
    <2> QED BY <1>2, <2>1, <2>2
  <1>7. ASSUME NEW f \in Flight', NEW g \in Flight, g.n < f.n PROVE g \in Flight'
    <2>1. CASE toUs' = toUs
      BY <1>6, <2>1
    <2>2. CASE toUs' = <<>>
      <3>1. f \in ToSet(rx) /\ IsData(f)
        BY <1>2, <2>2 DEF Flight, ToSet, IsData
      <3>2. CASE g \in ToSet(rx)
        BY <1>2, <3>2 DEF Flight
      <3>3. CASE g \in ToSet(toUs)
        <4>1. f.n < g.n
          BY <1>1, <3>1, <3>3 DEF Streams, InOrder, Before, ToSet, Flight, IsData
        <4>2. f.n \in Nat /\ g.n \in Nat
          BY <1>1, <1>6, FlightTyped DEF StreamShape
        <4> QED BY <1>7, <4>1, <4>2
      <3> QED BY <3>2, <3>3 DEF Flight
    <2> QED BY <1>2, <2>1, <2>2
  <1>8. link' = "up" => (link = "up" /\ Flight' = Flight) \/ count = 0
    BY <1>6 DEF QuietStep
  <1>9. Alive' => Alive
    BY DEF Alive, QuietStep
  <1>10. Streams'
    BY <1>1, <1>2, <1>5, <1>6, <1>7, <1>8, <1>9, StreamsRest
  <1> QED BY <1>3, <1>4, <1>10

\* A frame of the peer that is no data and not of its own account.
LEMMA AnswerStreams ==
    ASSUME StreamInv, NEW f \in InFrames, ~IsData(f), toUs' = Append(toUs, f),
           UNCHANGED Told, UNCHANGED <<rx, link, latched, excused, calls, called, state>>
    PROVE  Streams' /\ StreamShape' /\ StreamStep
  <1>1. Streams /\ StreamShape
    BY DEF StreamInv
  <1>2. /\ toUs' \in Seq(InFrames) /\ ToSet(toUs') = ToSet(toUs) \cup {f} /\ Rising(toUs')
        /\ Before(rx, toUs')
    <2>1. Rising(toUs) /\ Before(rx, toUs) /\ toUs \in Seq(InFrames) /\ rx \in Seq(InFrames)
      BY <1>1 DEF Streams, InOrder, StreamShape
    <2>2. /\ Append(toUs, f) \in Seq(InFrames) /\ ToSet(Append(toUs, f)) = ToSet(toUs) \cup {f}
          /\ Rising(Append(toUs, f)) /\ Before(rx, Append(toUs, f))
      BY <2>1, AppendedTo
    <2> QED BY <2>2
  <1>3. InOrder' /\ Flight' = Flight
    BY <1>1, <1>2 DEF Streams, InOrder, Flight, IsData
  <1>4. StreamShape' /\ (excused' \in BOOLEAN)
    BY <1>1, <1>2 DEF StreamShape, Told
  <1>5. Alive' => Alive
    BY DEF Alive
  <1>6. Streams'
    BY <1>1, <1>3, <1>4, <1>5, StreamsRest
  <1> QED BY <1>4, <1>6 DEF StreamStep, Told

-----------------------------------------------------------------------------
(* The peer goes on                                                        *)

\* What a frame of the peer's own account makes of its draft and its offers.
Writes(f) ==
    /\ f \in InFrames
    /\ toUs' = Append(toUs, f) /\ count' = count + 1 /\ link = "up"
    /\ UNCHANGED <<setup, inb, queue, received, streaming, rx, link, latched, excused, calls,
                   called, state>>
    /\ IF IsData(f)
       THEN /\ f.n = count + 1
            /\ ~Fragmented => f.op = "text" /\ f.fin
            /\ f.size > MaxMessage => f.op = "text" /\ f.fin
            /\ ~f.valid => f.size > 0
            /\ drafted' = DraftAfter(drafted, f)
            /\ offered' = IF Offering(drafted, f)
                          THEN Append(offered, Message(DraftOf(drafted, f))) ELSE offered
       ELSE UNCHANGED <<drafted, offered>>

LEMMA OfferedMore ==
    ASSUME StreamShape, NEW f, Writes(f), DraftSound(drafted)
    PROVE  /\ StreamShape' /\ DraftSound(drafted') /\ StreamStep
           /\ Len(offered) \in Nat /\ Len(offered') \in Nat /\ Len(offered) <= Len(offered')
           /\ \A i \in DOMAIN offered : i \in DOMAIN offered' /\ offered'[i] = offered[i]
           /\ \A i \in DOMAIN offered' : i \in DOMAIN offered \/ i = Len(offered) + 1
           /\ \/ offered' = offered /\ ~(IsData(f) /\ Offering(drafted, f))
              \/ /\ IsData(f) /\ Offering(drafted, f) /\ Len(offered') = Len(offered) + 1
                 /\ Message(DraftOf(drafted, f)) \in Messages
                 /\ offered' = Append(offered, Message(DraftOf(drafted, f)))
                 /\ offered'[Len(offered) + 1] = Message(DraftOf(drafted, f))
  <1>1. toUs' \in Seq(InFrames)
    BY AppendedTo DEF StreamShape, Writes
  <1>2. CASE ~IsData(f)
    <2>1. UNCHANGED <<drafted, offered>>
      BY <1>2 DEF Writes
    <2>2. StreamShape'
      BY <1>1, <2>1 DEF StreamShape, Writes
    <2>3. StreamStep
      BY <2>1 DEF StreamStep, Writes
    <2>4. Len(offered) \in Nat
      BY DEF StreamShape
    <2> QED BY <1>2, <2>1, <2>2, <2>3, <2>4
  <1>3. CASE IsData(f)
    <2>1. f \in DataFrames /\ (~f.valid => f.size > 0) /\ drafted \in Drafts
      BY <1>3, DataTyped DEF Writes, StreamShape
    <2>2. /\ DraftOf(drafted, f) \in Drafts /\ DraftAfter(drafted, f) \in Drafts
          /\ DraftSound(DraftAfter(drafted, f))
      BY <2>1, DraftAfterSound
    <2>3. drafted' = DraftAfter(drafted, f)
      BY <1>3 DEF Writes
    <2>4. CASE Offering(drafted, f)
      <3>1. Message(DraftOf(drafted, f)) \in Messages
        BY <2>2 DEF Message, Messages, Drafts
      <3>2. offered' = Append(offered, Message(DraftOf(drafted, f)))
        BY <1>3, <2>4 DEF Writes
      <3>3. offered \in Seq(Messages)
        BY DEF StreamShape
      <3> DEFINE m == Message(DraftOf(drafted, f))
      <3>4. /\ Append(offered, m) \in Seq(Messages) /\ Len(Append(offered, m)) = Len(offered) + 1
            /\ Len(offered) \in Nat /\ Append(offered, m)[Len(offered) + 1] = m
            /\ \A i \in DOMAIN offered : /\ i \in DOMAIN Append(offered, m)
                                         /\ Append(offered, m)[i] = offered[i]
            /\ \A i \in DOMAIN Append(offered, m) : i \in DOMAIN offered \/ i = Len(offered) + 1
        <4>1. m \in Messages
          BY <3>1
        <4> HIDE DEF m
        <4> QED BY <3>3, <4>1, OneMore
      <3> HIDE DEF m
      <3>5. SubSeq(Append(offered, m), 1, Len(offered)) = offered
        <4>1. m \in Messages
          BY <3>1 DEF m
        <4> QED BY <3>3, <4>1
      <3>6. offered' = Append(offered, m)
        BY <3>2 DEF m
      <3>7. StreamStep
        BY <3>4, <3>5, <3>6 DEF StreamStep, Stream!Next, Stream!Offer, Writes
      <3>8. StreamShape'
        BY <1>1, <2>2, <2>3, <3>4, <3>6 DEF StreamShape, Writes
      <3>9. m = Message(DraftOf(drafted, f))
        BY DEF m
      <3>10. /\ Len(offered) <= Len(offered') /\ Len(offered') \in Nat
             /\ Len(offered') = Len(offered) + 1 /\ Len(offered) \in Nat
        BY <3>4, <3>6
      <3>11. /\ \A i \in DOMAIN offered : i \in DOMAIN offered' /\ offered'[i] = offered[i]
             /\ \A i \in DOMAIN offered' : i \in DOMAIN offered \/ i = Len(offered) + 1
             /\ offered'[Len(offered) + 1] = m
        BY <3>4, <3>6
      <3>12. DraftSound(drafted')
        BY <2>2, <2>3
      <3> QED BY <1>3, <2>4, <3>1, <3>2, <3>7, <3>8, <3>9, <3>10, <3>11, <3>12
    <2>5. CASE ~Offering(drafted, f)
      <3>1. offered' = offered
        BY <1>3, <2>5 DEF Writes
      <3>2. StreamStep
        BY <3>1 DEF StreamStep, Writes
      <3>3. StreamShape'
        BY <1>1, <2>2, <2>3, <3>1 DEF StreamShape, Writes
      <3>4. DraftSound(drafted') /\ Len(offered) \in Nat
        BY <2>2, <2>3 DEF StreamShape
      <3> QED BY <2>5, <3>1, <3>2, <3>3, <3>4
    <2> QED BY <2>4, <2>5
  <1> QED BY <1>2, <1>3

\* The history goes on with the frame.
GoesOnWith(y, x, v) == y = [x EXCEPT ![count + 1] = v]

GoneOn(draft2, told2, draft, told, f) ==
    /\ draft2 \in [Nat -> Drafts] /\ told2 \in [Nat -> Nat]
    /\ \A c \in 0 .. count : draft2[c] = draft[c] /\ told2[c] = told[c]
    /\ draft2[count + 1] = drafted' /\ told2[count + 1] = Len(offered')
    /\ ~IsData(f) => draft2[count + 1] = draft[count] /\ told2[count + 1] = told[count]

LEMMA DrawnMore ==
    ASSUME StreamShape, NEW f, Writes(f), Offers,
           NEW draft \in [Nat -> Drafts], NEW told \in [Nat -> Nat], Drawn(draft, told),
           NEW draft2, GoesOnWith(draft2, draft, drafted'),
           NEW told2, GoesOnWith(told2, told, Len(offered'))
    PROVE  GoneOn(draft2, told2, draft, told, f) /\ Drawn(draft2, told2)'
  <1>1. /\ count \in Nat /\ count + 1 \in Nat /\ Len(offered) \in Nat
        /\ rx \in Seq(InFrames) /\ toUs \in Seq(InFrames) /\ f \in InFrames
    BY DEF StreamShape, Writes
  <1>2. draft[count] = drafted /\ told[count] = Len(offered) /\ DraftSound(drafted)
    BY <1>1 DEF Drawn
  <1>3. /\ StreamShape' /\ DraftSound(drafted') /\ Len(offered') \in Nat
        /\ Len(offered) <= Len(offered')
        /\ \A i \in DOMAIN offered : offered'[i] = offered[i]
        /\ offered' = offered \/ Len(offered') = Len(offered) + 1
    BY <1>2, OfferedMore
  <1>4. draft2 \in [Nat -> Drafts] /\ told2 \in [Nat -> Nat]
    <2>1. drafted' \in Drafts
      BY <1>3 DEF StreamShape
    <2> QED BY <1>1, <1>3, <2>1 DEF GoesOnWith
  <1>5. /\ \A c \in 0 .. count : draft2[c] = draft[c] /\ told2[c] = told[c]
        /\ draft2[count + 1] = drafted' /\ told2[count + 1] = Len(offered')
    BY <1>1 DEF GoesOnWith
  <1>6. \A c \in 0 .. count + 1 : c \in 0 .. count \/ c = count + 1
    BY <1>1
  <1>7. \A c, d \in 0 .. count + 1 : c <= d => told2[c] <= told2[d]
    <2> SUFFICES ASSUME NEW c \in 0 .. count + 1, NEW d \in 0 .. count + 1, c <= d
                 PROVE  told2[c] <= told2[d]
      OBVIOUS
    <2>1. CASE d \in 0 .. count
      <3>1. c \in 0 .. count
        BY <1>1, <2>1
      <3> QED BY <1>5, <2>1, <3>1 DEF Drawn
    <2>2. CASE d = count + 1 /\ c \in 0 .. count
      <3>1. c \in Nat /\ c <= count /\ count \in 0 .. count
        BY <1>1, <2>2
      <3>2. told[c] <= Len(offered) /\ told[c] \in Nat
        BY <1>2, <2>2, <3>1 DEF Drawn
      <3>3. told2[c] = told[c] /\ told2[d] = Len(offered')
        BY <1>5, <2>2
      <3>4. Len(offered) \in Nat /\ Len(offered') \in Nat /\ Len(offered) <= Len(offered')
        BY <1>1, <1>3
      <3>5. PICK t \in Nat, l \in Nat, m \in Nat :
               t = told[c] /\ l = Len(offered) /\ m = Len(offered')
        BY <3>2, <3>4
      <3>6. t <= l /\ l <= m
        BY <3>2, <3>4, <3>5
      <3>7. t <= m
        BY <3>6
      <3>8. told2[c] = t /\ told2[d] = m
        BY <3>3, <3>5
      <3> QED BY <3>7, <3>8, Zenon
    <2>3. CASE d = count + 1 /\ c = count + 1
      <3>1. told2[c] = Len(offered') /\ told2[d] = Len(offered')
        BY <1>5, <2>3
      <3>2. PICK m \in Nat : m = Len(offered')
        BY <1>3
      <3>3. told2[c] = m /\ told2[d] = m /\ m <= m
        BY <3>1, <3>2
      <3> QED BY <3>3, Zenon
    <2> QED BY <1>6, <2>1, <2>2, <2>3
  <1>8. \A c \in 0 .. count + 1 : DraftSound(draft2[c])
    BY <1>3, <1>5, <1>6 DEF Drawn
  <1>9. ASSUME ~Fragmented PROVE \A c \in 0 .. count + 1 : draft2[c] = Nothing
    <2>1. drafted = Nothing
      BY <1>1, <1>2, <1>9 DEF Drawn
    <2>2. IsData(f) => DraftAfter(drafted, f) = Nothing
      BY <1>9, <2>1 DEF Writes, DraftAfter, Placed
    <2>3. drafted' = Nothing
      BY <2>1, <2>2 DEF Writes
    <2> QED BY <1>5, <1>6, <1>9, <2>3 DEF Drawn
  <1>10. Flight \subseteq DataFrames /\ \A g \in Flight : g.n \in Nat /\ g.n > 0 /\ g.n <= count
    BY <1>1, FlightTyped DEF Drawn, Sent
  <1>11. Flight' = Flight \cup (IF IsData(f) THEN {f} ELSE {})
    <2>1. ToSet(Append(toUs, f)) = ToSet(toUs) \cup {f}
      BY <1>1, AppendedTo
    <2>2. ToSet(toUs') = ToSet(toUs) \cup {f} /\ rx' = rx
      BY <2>1 DEF Writes
    <2> QED BY <2>2 DEF Flight, IsData
  <1>12. ASSUME NEW g \in Flight PROVE Sent(draft2, told2, g)'
    <2>6. g.n \in Nat /\ g.n > 0 /\ g.n <= count /\ count \in Nat
      BY <1>1, <1>10
    <2>7. g.n - 1 \in 0 .. count /\ g.n \in 0 .. count /\ g.n - 1 \in Nat /\ count \in 0 .. count
      <3>1. PICK m \in Nat : m = g.n
        BY <2>6
      <3>2. m > 0 /\ m <= count /\ count \in Nat
        BY <2>6, <3>1
      <3>3. m - 1 \in 0 .. count /\ m \in 0 .. count /\ m - 1 \in Nat /\ count \in 0 .. count
        BY <3>2
      <3> QED BY <3>1, <3>3
    <2>1. Sent(draft, told, g) /\ g.n \in Nat /\ g.n <= count /\ g.n - 1 \in 0 .. count
          /\ g.n \in 0 .. count
      BY <2>6, <2>7 DEF Drawn
    <2>2. /\ draft2[g.n] = draft[g.n] /\ draft2[g.n - 1] = draft[g.n - 1]
          /\ told2[g.n] = told[g.n] /\ told2[g.n - 1] = told[g.n - 1]
      BY <1>5, <2>1
    <2>3. ASSUME Offering(draft[g.n - 1], g)
          PROVE  offered'[told[g.n]] = offered[told[g.n]]
      <3>1. told[g.n] = told[g.n - 1] + 1
        BY <2>1, <2>3 DEF Sent
      <3>2. told[g.n - 1] \in Nat
        BY <2>7
      <3>4. told[g.n] <= told[count]
        BY <2>6, <2>7 DEF Drawn
      <3>5. Len(offered) \in Nat /\ told[g.n] <= Len(offered)
        BY <1>1, <1>2, <3>4
      <3>6. told[g.n] \in 1 .. Len(offered)
        <4>1. PICK t \in Nat, l \in Nat : t = told[g.n - 1] /\ l = Len(offered)
          BY <3>2, <3>5
        <4>2. told[g.n] = t + 1 /\ t + 1 <= l
          BY <3>1, <3>5, <4>1
        <4>3. t + 1 \in 1 .. l
          BY <4>2
        <4> QED BY <4>1, <4>2, <4>3
      <3>3. told[g.n] \in DOMAIN offered
        <4>1. DOMAIN offered = 1 .. Len(offered)
          BY DEF StreamShape
        <4> QED BY <3>6, <4>1
      <3> QED BY <1>3, <3>3
    <2>4. count' = count + 1 /\ setup' = setup
      BY DEF Writes
    <2>5. g.n <= count'
      <3>1. PICK m \in Nat, c \in Nat : m = g.n /\ c = count
        BY <2>6
      <3>2. m <= c + 1 /\ count' = c + 1
        BY <2>4, <2>6, <3>1
      <3> QED BY <3>1, <3>2
    <2> QED BY <2>1, <2>2, <2>3, <2>4, <2>5 DEF Sent, Fragmented
  <1>13. ASSUME IsData(f) PROVE Sent(draft2, told2, f)'
    <2>6. f.n = count + 1
      BY <1>13 DEF Writes
    <2>7. f.n - 1 = count
      BY <1>1, <2>6
    <2>1. /\ f.n = count + 1 /\ f.n - 1 = count /\ count' = count + 1 /\ setup' = setup
          /\ ~Fragmented => f.op = "text" /\ f.fin
          /\ f.size > MaxMessage => f.op = "text" /\ f.fin
          /\ ~f.valid => f.size > 0
          /\ drafted' = DraftAfter(drafted, f)
      BY <1>13, <2>7 DEF Writes
    <2>2. /\ draft2[f.n] = drafted' /\ draft2[f.n - 1] = drafted
          /\ told2[f.n] = Len(offered') /\ told2[f.n - 1] = Len(offered)
      <3>1. count \in 0 .. count
        BY <1>1
      <3> QED BY <1>2, <1>5, <2>1, <3>1
    <2>3. Offering(drafted, f) => /\ Len(offered') = Len(offered) + 1
                                  /\ offered'[Len(offered')] = Message(DraftOf(drafted, f))
      BY <1>2, <1>13, OfferedMore
    <2>4. ~Offering(drafted, f) => offered' = offered
      BY <1>13 DEF Writes
    <2>5. f.n <= count'
      BY <1>1, <2>1
    <2> QED BY <2>1, <2>2, <2>3, <2>4, <2>5 DEF Sent, Fragmented
  <1>14. Drawn(draft2, told2)'
    <2>1. \A g \in Flight' : Sent(draft2, told2, g)'
      BY <1>11, <1>12, <1>13
    <2>2. count' = count + 1 /\ setup' = setup
      BY DEF Writes
    <2> QED BY <1>5, <1>7, <1>8, <1>9, <2>1, <2>2 DEF Drawn, Fragmented, DraftSound
  <1>15. ~IsData(f) => drafted' = drafted /\ offered' = offered
    BY DEF Writes
  <1> QED BY <1>2, <1>4, <1>5, <1>14, <1>15 DEF GoneOn

LEMMA OffersMore ==
    ASSUME StreamShape, NEW f, Writes(f), Offers, DraftSound(drafted)
    PROVE  Offers'
  <1>1. /\ count \in Nat /\ count' = count + 1 /\ drafted \in Drafts
        /\ drafted.first \in Nat /\ drafted.first <= count
    BY DEF StreamShape, Writes, Offers, Drafts
  <1>2. \A i \in DOMAIN offered : offered[i].first \in Nat /\ i \in Nat /\ i < Len(offered) + 1
    <2>1. ASSUME NEW i \in DOMAIN offered
          PROVE  offered[i] \in Messages /\ i \in Nat /\ i < Len(offered) + 1
      BY DEF StreamShape
    <2> QED BY <2>1 DEF Messages
  <1>3. /\ \A i \in DOMAIN offered : i \in DOMAIN offered' /\ offered'[i] = offered[i]
        /\ \A i \in DOMAIN offered' : i \in DOMAIN offered \/ i = Len(offered) + 1
        /\ \/ offered' = offered
           \/ /\ IsData(f) /\ Offering(drafted, f)
              /\ offered'[Len(offered) + 1] = Message(DraftOf(drafted, f))
        /\ Len(offered) \in Nat
    BY OfferedMore
  <1>4. PICK m : m = IF drafted.first # 0 THEN drafted.first ELSE count + 1
    OBVIOUS
  <1>5. m \in Nat /\ m <= count + 1 /\ \A i \in DOMAIN offered : offered[i].first < m
    BY <1>1, <1>2, <1>4 DEF Offers, Drafting
  <1>6. IsData(f) => DraftOf(drafted, f).first = m /\ Message(DraftOf(drafted, f)).first = m
    BY <1>1, <1>4 DEF DraftOf, Message, Writes, Drafts
  <1>7. \A i, j \in DOMAIN offered' : i < j => offered'[i].first < offered'[j].first
    <2> SUFFICES ASSUME NEW i \in DOMAIN offered', NEW j \in DOMAIN offered', i < j
                 PROVE  offered'[i].first < offered'[j].first
      OBVIOUS
    <2>1. i \in DOMAIN offered
      BY <1>2, <1>3
    <2>2. CASE j \in DOMAIN offered
      BY <1>3, <2>1, <2>2 DEF Offers
    <2>3. CASE j \notin DOMAIN offered
      <3>1. j = Len(offered) + 1 /\ offered'[j].first = m
        BY <1>3, <1>6, <2>3
      <3> QED BY <1>3, <1>5, <2>1, <3>1
    <2> QED BY <2>2, <2>3
  <1>8. ASSUME NEW i \in DOMAIN offered' PROVE offered'[i].first <= count'
    <2>1. CASE i \in DOMAIN offered
      <3>1. offered'[i].first \in Nat /\ offered'[i].first <= count
        BY <1>2, <1>3, <2>1 DEF Offers
      <3> QED BY <1>1, <3>1
    <2>2. CASE i \notin DOMAIN offered
      BY <1>1, <1>3, <1>5, <1>6, <2>2
    <2> QED BY <2>1, <2>2
  <1>9. drafted'.first = 0 \/ drafted'.first = drafted.first
          \/ (IsData(f) /\ ~Offering(drafted, f) /\ drafted'.first = m)
    <2>1. CASE ~IsData(f)
      BY <2>1 DEF Writes
    <2>2. CASE IsData(f)
      <3>1. drafted' = DraftAfter(drafted, f)
        BY <2>2 DEF Writes
      <3>2. Nothing.first = 0
        BY DEF Nothing
      <3> QED BY <1>6, <2>2, <3>1, <3>2 DEF DraftAfter, Offering
    <2> QED BY <2>1, <2>2
  <1>10. drafted'.first <= count'
    BY <1>1, <1>5, <1>9
  <1>11. ASSUME Drafting', NEW i \in DOMAIN offered' PROVE offered'[i].first < drafted'.first
    <2>1. drafted'.first # 0
      BY <1>11 DEF Drafting
    <2>2. CASE IsData(f) /\ ~Offering(drafted, f) /\ drafted'.first = m
      <3>1. i \in DOMAIN offered /\ offered'[i] = offered[i]
        BY <1>3, <2>2
      <3> QED BY <1>5, <2>2, <3>1
    <2>3. CASE drafted'.first = drafted.first
      <3>1. drafted.first # 0
        BY <2>1, <2>3
      <3>2. m = drafted.first
        BY <1>4, <3>1
      <3>3. CASE i \in DOMAIN offered
        BY <1>3, <1>5, <2>3, <3>2, <3>3
      <3>4. CASE i \notin DOMAIN offered
        <4>1. IsData(f) /\ Offering(drafted, f)
          BY <1>3, <3>4
        <4>2. drafted' = Nothing
          BY <4>1 DEF Writes, DraftAfter, Offering
        <4> QED BY <2>1, <4>2 DEF Nothing
      <3> QED BY <3>3, <3>4
    <2> QED BY <1>9, <2>1, <2>2, <2>3
  <1> QED BY <1>7, <1>8, <1>10, <1>11 DEF Offers

LEMMA WrittenStreams ==
    ASSUME StreamInv, NEW f, Writes(f)
    PROVE  Streams' /\ StreamShape' /\ StreamStep
  <1>1. Streams /\ StreamShape /\ Offers /\ InOrder
    BY DEF StreamInv, Streams
  <1>2. PICK draft \in [Nat -> Drafts], told \in [Nat -> Nat], cur \in Nat :
              History(draft, told, cur)
    BY <1>1 DEF Streams
  <1>3. PICK draft2, told2 : /\ GoesOnWith(draft2, draft, drafted')
                             /\ GoesOnWith(told2, told, Len(offered'))
    BY DEF GoesOnWith
  <1>4. GoneOn(draft2, told2, draft, told, f) /\ Drawn(draft2, told2)'
    <2>1. Drawn(draft, told) /\ StreamShape /\ Offers
      BY <1>1, <1>2 DEF History
    <2> QED BY <1>3, <2>1, DrawnMore
  <1>5. /\ count \in Nat /\ count' = count + 1 /\ link = "up" /\ link' = "up"
        /\ rx \in Seq(InFrames) /\ toUs \in Seq(InFrames) /\ f \in InFrames
    BY <1>1 DEF StreamShape, Writes
  <1>6. DraftSound(drafted)
    BY <1>2, <1>5 DEF History, Drawn
  <1>7. StreamShape' /\ StreamStep
    BY <1>1, <1>6, OfferedMore
  <1>8. Offers'
    BY <1>1, <1>6, OffersMore
  <1>9. \A g \in Flight : g.n \in Nat /\ g.n <= count
    BY <1>2, <1>5, FlightTyped DEF History, Drawn, Sent
  <1>10. /\ ToSet(toUs') = ToSet(toUs) \cup {f} /\ InOrder' /\ rx' = rx
    <2>1. IsData(f) => f.n = count + 1
      BY DEF Writes
    <2>6. \A g \in ToSet(rx) \cup ToSet(toUs) : IsData(g) => g.n \in Nat /\ g.n <= count
      BY <1>9 DEF Flight, IsData
    <2>2. \A g \in ToSet(rx) \cup ToSet(toUs) : IsData(f) /\ IsData(g) => g.n < f.n
      <3> SUFFICES ASSUME NEW g \in ToSet(rx) \cup ToSet(toUs), IsData(f), IsData(g)
                   PROVE  g.n < f.n
        OBVIOUS
      <3>1. g.n \in Nat /\ g.n <= count /\ count \in Nat /\ f.n = count + 1
        BY <1>5, <2>1, <2>6
      <3> QED BY <3>1
    <2>3. Rising(rx) /\ Rising(toUs) /\ Before(rx, toUs)
      BY <1>1 DEF InOrder
    <2>4. /\ ToSet(Append(toUs, f)) = ToSet(toUs) \cup {f} /\ Rising(Append(toUs, f))
          /\ Before(rx, Append(toUs, f))
      BY <1>5, <2>2, <2>3, AppendedTo
    <2>5. rx' = rx /\ toUs' = Append(toUs, f)
      BY DEF Writes
    <2> QED BY <2>3, <2>4, <2>5 DEF InOrder
  <1>11. Flight' = Flight \cup (IF IsData(f) THEN {f} ELSE {})
    BY <1>10 DEF Flight, IsData
  <1>12. cur \in 0 .. count /\ \A g \in Flight : cur < g.n
    BY <1>2 DEF History, Reading
  <1>13. ASSUME NEW x, NEW y, Still(x, cur), \A c \in 0 .. count : y[c] = x[c],
                ~IsData(f) => y[count + 1] = x[count]
         PROVE  Still(y, cur)'
    <2>1. StillIn(x, cur, Flight, TRUE, count)
      BY <1>5, <1>13 DEF Still, StillIn
    <2>2. CASE IsData(f)
      <3>1. f.n = count + 1
        BY <2>2 DEF Writes
      <3>2. cur \in Nat /\ cur <= count
        BY <1>5, <1>12
      <3>3. StillIn(y, cur, Flight \cup {f}, TRUE, count + 1)
        BY <1>5, <1>9, <1>13, <2>1, <3>1, <3>2, StillSent
      <3> QED BY <1>5, <1>11, <2>2, <3>3 DEF Still, StillIn
    <2>3. CASE ~IsData(f)
      <3>2. cur \in Nat /\ cur <= count
        BY <1>5, <1>12
      <3>3. StillIn(y, cur, Flight, TRUE, count + 1)
        BY <1>5, <1>9, <1>13, <2>1, <2>3, <3>2, StillGrows
      <3> QED BY <1>5, <1>11, <2>3, <3>3 DEF Still, StillIn
    <2> QED BY <2>2, <2>3
  <1>14. Still(draft, cur) => Still(draft2, cur)'
    BY <1>4, <1>13 DEF GoneOn
  <1>15. Still(told, cur) => Still(told2, cur)'
    BY <1>4, <1>13 DEF GoneOn
  <1>16. Reading(draft2, told2, cur)'
    <2>1. cur \in 0 .. count' /\ \A g \in Flight' : cur < g.n
      <3>1. IsData(f) => cur < f.n
        <4>1. IsData(f) => f.n = count + 1
          BY DEF Writes
        <4>2. cur \in Nat /\ cur <= count /\ count \in Nat
          BY <1>5, <1>12
        <4> QED BY <4>1, <4>2
      <3> QED BY <1>5, <1>11, <1>12, <3>1
    <2>2. Matches(draft[cur]) => Matches(draft2[cur])'
      BY <1>4, <1>12 DEF GoneOn, Matches, MatchesIn, Writes
    <2>3. (Alive' => Alive) /\ excused' = excused
      BY DEF Alive, Writes
    <2> QED BY <1>2, <1>14, <1>15, <2>1, <2>2, <2>3 DEF History, Reading
  <1>17. Given(told2[cur])'
    <2>1. PICK n : n = told[cur]
      OBVIOUS
    <2>2. Given(n) /\ told2[cur] = n /\ GivenShape
      BY <1>1, <1>2, <1>4, <1>12, <2>1 DEF GoneOn, History, StreamShape, GivenShape
    <2>3. UNCHANGED <<received, queue, streaming, excused>>
      BY DEF Writes
    <2>4. Given(n)'
      <3>1. CASE offered' = offered
        BY <2>2, <2>3, <3>1, GivenRests DEF GivenShape
      <3>2. CASE offered' # offered
        <4>1. PICK m \in Messages : offered' = Append(offered, m)
          BY <1>1, <1>6, <3>2, OfferedMore
        <4> QED BY <2>2, <2>3, <4>1, GivenOffered
      <3> QED BY <3>1, <3>2
    <2> QED BY <2>2, <2>4
  <1>18. Streams'
    BY <1>4, <1>8, <1>10, <1>16, <1>17 DEF GoneOn, Streams, History
  <1> QED BY <1>7, <1>18

-----------------------------------------------------------------------------
(* Steps that take no frame                                                *)

\* Every way to CLOSED takes the connection, and what was on it, along.
LEMMA ClosedRests ==
    ASSUME StreamInv, NEW next, Closed(next), UNCHANGED <<rx, calls, latched>>, UNCHANGED Told,
           excused' \in {excused, TRUE}
    PROVE  QuietStep
  <1>1. calls \in [send : Int, close : Int, block : Int]
    BY DEF StreamInv, StreamShape
  <1>2. toUs' \in {toUs, <<>>} /\ (link' = "up" => link = "up" /\ toUs' = toUs)
    BY DEF Closed, DropTransport
  <1> QED BY <1>1, <1>2 DEF QuietStep, Closed, DropTransport

LEMMA FailRests ==
    ASSUME StreamInv, NEW next, Fail(next), UNCHANGED peer
    PROVE  QuietStep
  <1>1. UNCHANGED <<rx, calls, latched>> /\ UNCHANGED Told /\ excused' \in {excused, TRUE}
    BY DEF Fail, Told, inbox, hist, peer
  <1> QED BY <1>1, ClosedRests DEF Fail

LEMMA SpentTyped ==
    ASSUME NEW kind \in {"send", "close", "block"}, Spend(kind),
           calls \in [send : Int, close : Int, block : Int]
    PROVE  /\ calls' \in [send : Int, close : Int, block : Int]
           /\ calls.close = 0 => calls'.close = 0
  <1>1. calls' = [calls EXCEPT ![kind] = calls[kind] - 1] /\ calls[kind] > 0
    BY DEF Spend
  <1>2. calls[kind] \in Int /\ calls[kind] - 1 \in Int
    OBVIOUS
  <1> QED BY <1>1, <1>2

\* What leaves the frames read and the messages alone, and goes no further back than
\* closed.
LEMMA UntouchedRests ==
    ASSUME StreamInv, UNCHANGED <<setup, inb, latched, queue, streaming, received, rx, link, toUs>>,
           UNCHANGED peer, excused' \in {excused, TRUE},
           calls' \in [send : Int, close : Int, block : Int],
           called => called' /\ (state = "closed" => state' = "closed")
    PROVE  QuietStep
  BY DEF QuietStep, Told, peer

LEMMA ApplicationRests ==
    ASSUME StreamInv, IInv, UNCHANGED peer,
           \/ \E r \in BOOLEAN : Connect(r)
           \/ Send \/ SendPing \/ Close \/ Abort \/ Shutdown \/ (Raise /\ cb = "on_connection")
    PROVE  QuietStep
  <1> USE DEF life, inbox, hist, wire, flow
  <1>1. calls \in [send : Int, close : Int, block : Int]
    BY DEF StreamInv, StreamShape
  <1>2. ASSUME NEW r \in BOOLEAN, Connect(r) PROVE QuietStep
    <2>1. /\ UNCHANGED <<setup, inb, latched, queue, streaming, received, rx, link, toUs>>
          /\ UNCHANGED <<excused, calls>> /\ ~called
      BY <1>2 DEF Connect
    <2> QED BY <1>1, <2>1, UntouchedRests
  <1>3. CASE Send
    <2>1. /\ UNCHANGED <<setup, inb, latched, queue, streaming, received, rx, link, toUs>>
          /\ UNCHANGED <<excused, called, state>> /\ Spend("send")
      BY <1>3 DEF Send
    <2> QED BY <1>1, <2>1, SpentTyped, UntouchedRests
  <1>4. CASE SendPing
    <2>1. /\ UNCHANGED <<setup, inb, latched, queue, streaming, received, rx, link, toUs>>
          /\ UNCHANGED <<excused, called, state>> /\ Spend("send")
      BY <1>4 DEF SendPing
    <2> QED BY <1>1, <2>1, SpentTyped, UntouchedRests
  <1>5. CASE Close
    <2>1. /\ UNCHANGED <<setup, inb, latched, queue, streaming, received, rx, link, toUs, called>>
          /\ Spend("close") /\ state # "closed" /\ excused' = (excused \/ state = "connecting")
      BY <1>5 DEF Close
    <2>2. excused' \in {excused, TRUE}
      BY <2>1 DEF StreamInv, StreamShape
    <2> QED BY <1>1, <2>1, <2>2, SpentTyped, UntouchedRests
  <1>6. CASE Abort
    <2>1. /\ UNCHANGED <<setup, inb, latched, queue, streaming, received, rx, excused>>
          /\ Spend("close") /\ Closed("idle")
      BY <1>6 DEF Abort
    <2>2. toUs' \in {toUs, <<>>} /\ (link' = "up" => link = "up" /\ toUs' = toUs)
          /\ called' = called /\ state' = "closed"
      BY <2>1 DEF Closed, DropTransport
    <2> QED BY <1>1, <2>1, <2>2, SpentTyped DEF QuietStep, Told, peer
  <1>7. CASE Shutdown
    <2>1. /\ UNCHANGED <<setup, inb, latched, queue, streaming, received, rx, link, toUs, called>>
          /\ UNCHANGED excused /\ Spend("close") /\ state # "closed"
      BY <1>7 DEF Shutdown
    <2> QED BY <1>1, <2>1, SpentTyped, UntouchedRests
  <1>8. CASE Raise /\ cb = "on_connection"
    <2>1. /\ UNCHANGED <<rx, calls, latched>> /\ UNCHANGED Told /\ excused' = TRUE /\ Closed("idle")
      BY <1>8 DEF Raise, Told, peer
    <2> QED BY <2>1, ClosedRests
  <1> QED BY <1>2, <1>3, <1>4, <1>5, <1>6, <1>7, <1>8

\* Time, the connector, and what handle() does without taking a frame.
LEMMA OpeningRests ==
    ASSUME StreamInv, IInv, UNCHANGED peer,
           \/ Tick \/ Connector \/ HandshakeTimesOut \/ SendHello \/ SendHelloFails
           \/ Refused \/ HandshakeCut
    PROVE  QuietStep
  <1> USE DEF life, inbox, hist, wire, flow
  <1>1. calls \in [send : Int, close : Int, block : Int]
    BY DEF StreamInv, StreamShape
  <1>2. CASE Tick
    <2>1. /\ UNCHANGED <<setup, inb, latched, queue, streaming, received, rx, link, toUs>>
          /\ UNCHANGED <<excused, called, state, calls>>
      BY <1>2 DEF Tick
    <2> QED BY <1>1, <2>1, UntouchedRests
  <1>3. CASE ConnectorReady
    <2>1. /\ UNCHANGED <<setup, inb, latched, queue, streaming, received, rx, toUs>>
          /\ UNCHANGED <<excused, called, state, calls>> /\ phase = "transport"
      BY <1>3 DEF ConnectorReady
    <2>2. count = 0
      BY <2>1 DEF StreamInv, Unread
    <2> QED BY <1>1, <2>1, <2>2 DEF QuietStep, Told, peer
  <1>4. CASE ConnectorFails
    BY <1>4, FailRests DEF ConnectorFails
  <1>5. CASE HandshakeTimesOut
    BY <1>5, FailRests DEF HandshakeTimesOut
  <1>6. CASE SendHello
    <2>1. /\ UNCHANGED <<setup, inb, latched, queue, streaming, received, rx, link, toUs>>
          /\ UNCHANGED <<excused, called, calls>> /\ state = "connecting"
      BY <1>6 DEF SendHello, Handshaking
    <2> QED BY <1>1, <2>1, UntouchedRests
  <1>7. CASE SendHelloFails
    BY <1>7, FailRests DEF SendHelloFails
  <1>8. CASE Refused
    <2>1. CASE Client
      BY <1>8, <2>1, FailRests DEF Refused
    <2>2. CASE ~Client
      <3>1. /\ UNCHANGED <<setup, inb, latched, queue, streaming, received, rx>>
            /\ UNCHANGED <<excused, called, calls>> /\ DropTransport
        BY <1>8, <2>2 DEF Refused
      <3>2. toUs' \in {toUs, <<>>} /\ (link' = "up" => link = "up" /\ toUs' = toUs)
            /\ state' = "closed"
        BY <3>1 DEF DropTransport
      <3> QED BY <1>1, <3>1, <3>2 DEF QuietStep, Told, peer
    <2> QED BY <2>1, <2>2
  <1>9. CASE HandshakeCut
    BY <1>9, FailRests DEF HandshakeCut
  <1> QED BY <1>2, <1>3, <1>4, <1>5, <1>6, <1>7, <1>8, <1>9 DEF Connector

LEMMA OutboundRests ==
    ASSUME StreamInv, IInv, UNCHANGED peer,
           \/ BeginRecv \/ RecvStops \/ RecvEnds \/ (FeedDone /\ rx = <<>>) \/ Transmit \/ Finish
    PROVE  QuietStep
  <1> USE DEF life, inbox, hist, wire, flow
  <1>1. calls \in [send : Int, close : Int, block : Int]
    BY DEF StreamInv, StreamShape
  <1>2. CASE BeginRecv \/ RecvStops \/ (FeedDone /\ rx = <<>>) \/ DrainDone \/ AutoPing
             \/ CloseTimesOut
    <2>1. /\ UNCHANGED <<setup, inb, latched, queue, streaming, received, rx, link, toUs>>
          /\ UNCHANGED <<excused, called, state, calls>>
      BY <1>2 DEF BeginRecv, RecvStops, FeedDone, DrainDone, AutoPing, CloseTimesOut
    <2> QED BY <1>1, <2>1, UntouchedRests
  <1>3. CASE RecvEnds
    BY <1>3, FailRests DEF RecvEnds
  <1>4. ASSUME NEW more \in BOOLEAN, SendFrame(more) PROVE QuietStep
    <2>1. /\ UNCHANGED <<setup, inb, latched, queue, streaming, received, rx, link, toUs>>
          /\ UNCHANGED <<excused, called, state, calls>>
      BY <1>4 DEF SendFrame
    <2> QED BY <1>1, <2>1, UntouchedRests
  <1>5. CASE SendBlocked
    <2>1. /\ UNCHANGED <<setup, inb, latched, queue, streaming, received, rx, link, toUs>>
          /\ UNCHANGED <<excused, called, state>> /\ (calls' = calls \/ Spend("block"))
      BY <1>5 DEF SendBlocked
    <2> QED BY <1>1, <2>1, SpentTyped, UntouchedRests
  <1>6. CASE SendFails
    <2>1. /\ UNCHANGED <<rx, calls, latched>> /\ UNCHANGED Told /\ excused' = excused
          /\ \E next : Closed(next)
      BY <1>6 DEF SendFails, Told, peer
    <2> QED BY <2>1, ClosedRests
  <1>7. CASE PongTimesOut
    BY <1>7, FailRests DEF PongTimesOut
  <1>8. CASE Settle
    <2>1. /\ UNCHANGED <<rx, calls, latched>> /\ UNCHANGED Told /\ excused' = excused
          /\ Closed(then)
      BY <1>8 DEF Settle, Told, peer
    <2> QED BY <2>1, ClosedRests
  <1> QED BY <1>2, <1>3, <1>4, <1>5, <1>6, <1>7, <1>8 DEF Transmit, Finish

-----------------------------------------------------------------------------
(* Steps that take frames                                                  *)

\* Frames are taken, and at most those are lost that nobody reads any more.
LEMMA TakenStreams ==
    ASSUME StreamInv, rx' \in Seq(InFrames), toUs' \in Seq(InFrames), InOrder',
           Flight' \subseteq Flight, Flight' = Flight \/ ~Alive' \/ (~Fragmented /\ excused'),
           UNCHANGED Told, UNCHANGED <<link, calls>>, latched' \in BOOLEAN,
           excused' \in {excused, TRUE}, Alive' => Alive
    PROVE  Streams' /\ StreamShape' /\ StreamStep
  <1>1. Streams /\ StreamShape
    BY DEF StreamInv
  <1>2. excused' \in BOOLEAN /\ (excused => excused')
    BY <1>1 DEF StreamShape
  <1>3. StreamShape'
    BY <1>1, <1>2 DEF StreamShape, Told
  <1>4. StreamStep
    BY DEF StreamStep, Stream!Next, Stream!Skip, Told
  <1>5. Streams'
    <2>1. CASE Flight' = Flight
      BY <1>1, <1>2, <2>1, StreamsRest
    <2>2. CASE ~Alive' \/ (~Fragmented /\ excused')
      BY <1>1, <1>2, <2>2, StreamsLose
    <2> QED BY <2>1, <2>2
  <1> QED BY <1>3, <1>4, <1>5

\* A chunk is received: the next frames, without the handshake before them.
LEMMA ChunkTaken ==
    ASSUME StreamInv, NEW n \in 1 .. Len(toUs), NEW m \in 1 .. n + 1,
           \A i \in 1 .. m - 1 : ~IsData(toUs[i]),
           rx' = SubSeq(toUs, m, n), toUs' = SubSeq(toUs, n + 1, Len(toUs))
    PROVE  /\ rx' \in Seq(InFrames) /\ toUs' \in Seq(InFrames) /\ InOrder'
           /\ Flight' \subseteq Flight /\ (rx = <<>> => Flight' = Flight)
  <1>1. toUs \in Seq(InFrames) /\ Rising(toUs) /\ Len(toUs) \in Nat
    BY DEF StreamInv, StreamShape, Streams, InOrder
  <1>2. n \in Nat /\ n <= Len(toUs) /\ m \in Nat \ {0} /\ m <= n + 1 /\ n + 1 \in Nat \ {0}
        /\ n + 1 <= Len(toUs) + 1 /\ n \in 0 .. Len(toUs)
    BY <1>1
  <1>3. /\ rx' \in Seq(InFrames) /\ ToSet(rx') \subseteq ToSet(toUs) /\ Rising(rx')
    BY <1>1, <1>2, PartOf
  <1>4. /\ toUs' \in Seq(InFrames) /\ ToSet(toUs') \subseteq ToSet(toUs) /\ Rising(toUs')
    BY <1>1, <1>2, PartOf
  <1>5. /\ Before(rx', toUs')
        /\ \A f \in ToSet(toUs) : IsData(f) => f \in ToSet(rx') \cup ToSet(toUs')
    BY <1>1, <1>2, SplitAt
  <1>6. InOrder'
    BY <1>3, <1>4, <1>5 DEF InOrder
  <1>7. Flight' \subseteq Flight
    BY <1>3, <1>4 DEF Flight
  <1>8. ASSUME rx = <<>> PROVE Flight \subseteq Flight'
    <2>1. ToSet(rx) = {}
      BY <1>8 DEF ToSet
    <2> QED BY <1>5, <2>1 DEF Flight, IsData
  <1> QED BY <1>3, <1>4, <1>6, <1>7, <1>8

\* The chunk is dropped.
LEMMA ChunkDropped ==
    ASSUME StreamInv, rx' = <<>>, toUs' = toUs
    PROVE  rx' \in Seq(InFrames) /\ toUs' \in Seq(InFrames) /\ InOrder' /\ Flight' \subseteq Flight
  <1>1. toUs \in Seq(InFrames) /\ InOrder
    BY DEF StreamInv, StreamShape, Streams
  <1>2. InOrder'
    BY <1>1 DEF InOrder, Rising, Before
  <1>3. ToSet(rx') = {}
    BY DEF ToSet
  <1> QED BY <1>1, <1>2, <1>3 DEF Flight

LEMMA RaiseStreams ==
    ASSUME StreamInv, IInv, WholeMessages, Raise, cb # "on_connection", UNCHANGED peer
    PROVE  Streams' /\ StreamShape' /\ StreamStep
  <1>1. /\ rx' = <<>> /\ excused' = TRUE /\ <<cb, "raise">> \in setup.ops
        /\ UNCHANGED <<setup, inb, latched, streaming, queue, received, link, toUs, calls>>
        /\ UNCHANGED <<called, state>>
    BY DEF Raise, inbox, life
  <1>2. ~Fragmented
    <2>1. setup \in SetupType
      BY WebSocketAssumption DEF WebSocketAssumption, IInv, Shape
    <2>2. setup.ops \subseteq Callbacks \X Methods
      BY <2>1 DEF SetupType
    <2>3. cb \in Callbacks
      BY <1>1, <2>2
    <2> QED BY <1>1, <2>3 DEF WholeMessages
  <1>3. rx' \in Seq(InFrames) /\ toUs' \in Seq(InFrames) /\ InOrder' /\ Flight' \subseteq Flight
    BY <1>1, ChunkDropped
  <1>4. latched' \in BOOLEAN /\ UNCHANGED Told /\ (Alive' => Alive)
    BY <1>1 DEF StreamInv, StreamShape, Told, peer, Alive
  <1> QED BY <1>1, <1>2, <1>3, <1>4, TakenStreams

LEMMA DropStreams ==
    ASSUME StreamInv, IInv, FeedDone, rx # <<>>, UNCHANGED peer
    PROVE  Streams' /\ StreamShape' /\ StreamStep
  <1>1. /\ rx' = <<>> /\ (state = "closed" \/ latched) /\ pc = "feed"
        /\ UNCHANGED <<setup, inb, latched, streaming, queue, received, excused, link, toUs, calls>>
        /\ UNCHANGED <<called, state>>
    BY DEF FeedDone, inbox, life, wire, hist
  <1>2. called
    BY <1>1 DEF IInv, NotStarted
  <1>3. rx' \in Seq(InFrames) /\ toUs' \in Seq(InFrames) /\ InOrder' /\ Flight' \subseteq Flight
    BY <1>1, ChunkDropped
  <1>4. latched' \in BOOLEAN /\ UNCHANGED Told /\ (Alive' => Alive) /\ ~Alive'
    BY <1>1, <1>2 DEF StreamInv, StreamShape, Told, peer, Alive
  <1> QED BY <1>1, <1>3, <1>4, TakenStreams

LEMMA ChunkStreams ==
    ASSUME StreamInv, IInv, NEW n \in 1 .. Len(toUs), RecvChunk(n), UNCHANGED peer
    PROVE  Streams' /\ StreamShape' /\ StreamStep
  <1>1. /\ rx' = SubSeq(toUs, 1, n) /\ toUs' = SubSeq(toUs, n + 1, Len(toUs)) /\ pc = "recv"
        /\ UNCHANGED <<setup, inb, latched, streaming, queue, received, excused, link, calls>>
        /\ UNCHANGED <<called, state>>
    BY DEF RecvChunk, inbox, life, hist
  <1>2. called
    BY <1>1 DEF IInv, NotStarted
  <1>3. 1 \in 1 .. n + 1 /\ \A i \in 1 .. 1 - 1 : ~IsData(toUs[i])
    OBVIOUS
  <1>4. /\ rx' \in Seq(InFrames) /\ toUs' \in Seq(InFrames) /\ InOrder'
        /\ Flight' \subseteq Flight /\ (rx = <<>> => Flight' = Flight)
    BY <1>1, <1>3, ChunkTaken
  <1>5. latched' \in BOOLEAN /\ UNCHANGED Told /\ (Alive' => Alive)
    BY <1>1 DEF StreamInv, StreamShape, Told, peer, Alive
  <1>6. rx = <<>> \/ ~Alive' \/ (~Fragmented /\ excused')
    BY <1>1, <1>2 DEF StreamInv, Unread, Alive
  <1> QED BY <1>1, <1>4, <1>5, <1>6, TakenStreams

LEMMA HelloStreams ==
    ASSUME StreamInv, IInv, NEW n \in 1 .. Len(toUs), RecvHello(n), UNCHANGED peer
    PROVE  Streams' /\ StreamShape' /\ StreamStep
  <1>1. /\ rx' = SubSeq(toUs, 2, n) /\ toUs' = SubSeq(toUs, n + 1, Len(toUs))
        /\ toUs[1].op = "hello" /\ phase = "reading" /\ state = "connecting"
        /\ UNCHANGED <<setup, inb, latched, streaming, queue, received, excused, link, calls>>
        /\ UNCHANGED called
    BY DEF RecvHello, Handshaking, inbox, hist
  <1>2. rx = <<>>
    BY <1>1 DEF StreamInv, Unread
  <1>3. 2 \in 1 .. n + 1 /\ \A i \in 1 .. 2 - 1 : ~IsData(toUs[i])
    BY <1>1 DEF IsData, DataOps
  <1>4. /\ rx' \in Seq(InFrames) /\ toUs' \in Seq(InFrames) /\ InOrder' /\ Flight' = Flight
    BY <1>1, <1>2, <1>3, ChunkTaken
  <1>5. latched' \in BOOLEAN /\ UNCHANGED Told /\ (Alive' => Alive)
    BY <1>1 DEF StreamInv, StreamShape, Told, peer, Alive
  <1> QED BY <1>1, <1>4, <1>5, TakenStreams

\* A frame that is no data is dispatched.
LEMMA ControlStreams ==
    ASSUME StreamInv, DispatchInvalid \/ DispatchPing \/ DispatchPong \/ DispatchClose,
           UNCHANGED peer
    PROVE  Streams' /\ StreamShape' /\ StreamStep
  <1>1. /\ rx # <<>> /\ ~IsData(rx[1]) /\ rx' = Tail(rx) /\ toUs' = toUs
        /\ state # "closed" /\ ~latched /\ latched' \in BOOLEAN
        /\ UNCHANGED <<setup, inb, streaming, queue, received, excused, link, calls>>
    <2>1. latched \in BOOLEAN
      BY DEF StreamInv, StreamShape
    <2>2. /\ rx # <<>> /\ rx' = Tail(rx) /\ state # "closed" /\ ~latched
          /\ UNCHANGED <<setup, inb, streaming, queue, received, excused, link, calls, toUs>>
      BY DEF DispatchInvalid, DispatchPing, DispatchPong, DispatchClose, Feeds, inbox, wire, hist
    <2>3. ~IsData(rx[1])
      BY DEF DispatchInvalid, DispatchPing, DispatchPong, DispatchClose, Feeds, IsData, DataOps
    <2>4. latched' = latched \/ latched' \in BOOLEAN
      BY DEF DispatchInvalid, DispatchPing, DispatchPong, DispatchClose, inbox
    <2> QED BY <2>1, <2>2, <2>3, <2>4
  <1>2. rx' \in Seq(InFrames) /\ InOrder' /\ Flight' = Flight
    BY <1>1, HeadTaken DEF StreamInv, Streams
  <1>3. toUs' \in Seq(InFrames) /\ UNCHANGED Told /\ Alive
    BY <1>1 DEF StreamInv, StreamShape, Told, peer, Alive
  <1> QED BY <1>1, <1>2, <1>3, TakenStreams

\* Nothing but what the application has changes.
LEMMA GivenMoves ==
    ASSUME Streams, \A n : Given(n) => Given(n)',
           UNCHANGED <<setup, inb, count, drafted, offered, rx, toUs, link, called, latched, state,
                       excused>>
    PROVE  Streams'
  <1>1. PICK draft \in [Nat -> Drafts], told \in [Nat -> Nat], cur \in Nat :
              History(draft, told, cur)
    BY DEF Streams
  <1>2. InOrder' /\ Offers' /\ Flight' = Flight /\ (Alive' <=> Alive)
    BY DEF Streams, InOrder, Offers, Drafting, Flight, Alive
  <1>3. Drawn(draft, told)'
    <2>1. \A f : Sent(draft, told, f)' <=> Sent(draft, told, f)
      BY DEF Sent, Fragmented
    <2>2. \A f \in Flight' : Sent(draft, told, f)'
      BY <1>1, <1>2, <2>1 DEF History, Drawn
    <2> QED BY <1>1, <2>2 DEF History, Drawn, Fragmented, DraftSound
  <1>4. Reading(draft, told, cur)'
    <2>1. \A x : Still(x, cur)' <=> Still(x, cur)
      BY <1>2 DEF Still
    <2>2. Matches(draft[cur])' <=> Matches(draft[cur])
      BY DEF Matches, MatchesIn
    <2> QED BY <1>1, <1>2, <2>1, <2>2 DEF History, Reading
  <1>5. Given(told[cur])'
    BY <1>1 DEF History
  <1> QED BY <1>2, <1>3, <1>4, <1>5 DEF Streams, History

LEMMA NextStreams ==
    ASSUME StreamInv, NextMessage, UNCHANGED peer
    PROVE  Streams' /\ StreamShape' /\ StreamStep
  <1>1. /\ UNCHANGED <<setup, inb, count, drafted, offered, rx, toUs, link, called, latched, state>>
        /\ UNCHANGED <<excused, calls>> /\ streaming' = TRUE
    BY DEF NextMessage, life, flow, wire, peer
  <1>2. Streams /\ StreamShape /\ GivenShape /\ Offers /\ streaming \in BOOLEAN
    BY DEF StreamInv, Streams, StreamShape, GivenShape
  <1>3. CASE streaming
    <2>1. queue # <<>> /\ received' = Append(received, Head(queue)) /\ queue' = Tail(queue)
      BY <1>3 DEF NextMessage
    <2>2. \A n : Given(n) => Given(n)' /\ Stream!Take /\ GivenShape'
      BY <1>1, <1>2, <2>1, GivenTaken
    <2>3. PICK n : Given(n)
      BY <1>2 DEF Streams, History
    <2>4. Stream!Take /\ GivenShape'
      BY <2>2, <2>3
    <2>5. Streams'
      BY <1>1, <1>2, <2>2, GivenMoves
    <2>6. StreamShape'
      BY <1>1, <1>2, <2>4 DEF StreamShape, GivenShape
    <2> QED BY <2>4, <2>5, <2>6 DEF StreamStep, Stream!Next
  <1>4. CASE ~streaming
    <2>1. UNCHANGED <<received, queue>>
      BY <1>4 DEF NextMessage
    <2>2. \A n : Given(n) => Given(n)'
      BY <1>1, <2>1 DEF Given
    <2>3. Streams'
      BY <1>1, <1>2, <2>2, GivenMoves
    <2>4. StreamShape'
      BY <1>1, <1>2, <2>1 DEF StreamShape
    <2> QED BY <1>1, <2>1, <2>3, <2>4 DEF StreamStep
  <1> QED BY <1>3, <1>4

-----------------------------------------------------------------------------
(* Every step                                                              *)

LEMMA SessionStreams ==
    ASSUME StreamInv, IInv, WholeMessages, Act(SessionNext)
    PROVE  Streams' /\ StreamShape' /\ StreamStep
  <1>1. SessionNext /\ UNCHANGED peer
    BY DEF Act
  <1>2. CASE Application
    <2>1. \/ \E r \in BOOLEAN : Connect(r)
          \/ Send \/ SendPing \/ Close \/ Abort \/ Shutdown \/ (Raise /\ cb = "on_connection")
          \/ (Raise /\ cb # "on_connection") \/ NextMessage
      BY <1>2 DEF Application
    <2>2. CASE Raise /\ cb # "on_connection"
      BY <1>1, <2>2, RaiseStreams
    <2>3. CASE NextMessage
      BY <1>1, <2>3, NextStreams
    <2> QED BY <1>1, <2>1, <2>2, <2>3, ApplicationRests, QuietStreams
  <1>3. CASE Tick \/ Connector
    BY <1>1, <1>3, OpeningRests, QuietStreams
  <1>4. CASE Handshake
    <2>1. ASSUME NEW n \in 1 .. Len(toUs), RecvHello(n) PROVE Streams' /\ StreamShape' /\ StreamStep
      BY <1>1, <2>1, HelloStreams
    <2>2. CASE HandshakeTimesOut \/ SendHello \/ SendHelloFails \/ Refused \/ HandshakeCut
      BY <1>1, <2>2, OpeningRests, QuietStreams
    <2> QED BY <1>4, <2>1, <2>2 DEF Handshake
  <1>5. CASE Receive
    <2>1. ASSUME NEW n \in 1 .. Len(toUs), RecvChunk(n) PROVE Streams' /\ StreamShape' /\ StreamStep
      BY <1>1, <2>1, ChunkStreams
    <2>2. CASE FeedDone /\ rx # <<>>
      BY <1>1, <2>2, DropStreams
    <2>3. CASE BeginRecv \/ RecvStops \/ RecvEnds \/ (FeedDone /\ rx = <<>>)
      BY <1>1, <2>3, OutboundRests, QuietStreams
    <2> QED BY <1>5, <2>1, <2>2, <2>3 DEF Receive
  <1>6. CASE Dispatch
    BY <1>1, <1>6, ControlStreams, MisplacedStreams, FragmentStreams, FinalStreams DEF Dispatch
  <1>7. CASE Transmit \/ Finish
    BY <1>1, <1>7, OutboundRests, QuietStreams
  <1> QED BY <1>1, <1>2, <1>3, <1>4, <1>5, <1>6, <1>7 DEF SessionNext, Handle

LEMMA PeerStreams ==
    ASSUME StreamInv, IInv, WholeMessages, Peer
    PROVE  Streams' /\ StreamShape' /\ StreamStep
  <1> USE DEF Session, life, inbox, flow, hist
  <1>1. /\ calls \in [send : Int, close : Int, block : Int]
        /\ \A op \in OtherOps : [op |-> op] \in InFrames /\ ~IsData([op |-> op])
    BY DEF StreamInv, StreamShape, OtherOps, InFrames, IsData, DataOps
  <1>2. ASSUME NEW op \in {"hello", "bad_hello"}, PeerGreets(op)
        PROVE  Streams' /\ StreamShape' /\ StreamStep
    <2>1. /\ op \in OtherOps /\ toUs' = Append(toUs, [op |-> op]) /\ UNCHANGED Told
          /\ UNCHANGED <<rx, link, latched, excused, calls, called, state>>
      BY <1>2 DEF PeerGreets, Says, OtherOps, Told
    <2> QED BY <1>1, <2>1, AnswerStreams
  <1>3. ASSUME NEW op \in setup.kinds, PeerControl(op)
        PROVE  Streams' /\ StreamShape' /\ StreamStep
    <2>1. PICK f : f = [op |-> op]
      OBVIOUS
    <2>2. f \in InFrames /\ ~IsData(f)
      BY <1>1, <1>3, <2>1 DEF PeerControl, OtherOps
    <2>3. Writes(f)
      BY <1>3, <2>1, <2>2 DEF PeerControl, MaySay, Says, Writes
    <2> QED BY <2>3, WrittenStreams
  <1>4. ASSUME NEW op \in DataOps, NEW fin \in BOOLEAN, NEW valid \in BOOLEAN,
               NEW size \in setup.sizes, PeerData(op, fin, size, valid)
        PROVE  Streams' /\ StreamShape' /\ StreamStep
    <2>1. PICK f : f = [op |-> op, n |-> count + 1, fin |-> fin, size |-> size, valid |-> valid]
      OBVIOUS
    <2>2. /\ MaySay(op) /\ Says(f) /\ (~fin => "cont" \in setup.kinds) /\ (~valid => size > 0)
          /\ (size > MaxMessage /\ ~setup.tier3 => op = "text" /\ fin)
          /\ UNCHANGED <<setup, inb, queue, received, streaming, rx, link, latched, excused, calls,
                         called, state>>
      BY <1>4, <2>1 DEF PeerData
    <2>3. /\ f.op = op /\ f.n = count + 1 /\ f.fin = fin /\ f.size = size /\ f.valid = valid
      BY <2>1
    <2>4. setup \in SetupType
      BY WebSocketAssumption DEF WebSocketAssumption, IInv, Shape
    <2>5. size \in Nat /\ count + 1 \in Nat \ {0}
      BY <2>4 DEF SetupType, StreamInv, StreamShape
    <2>6. f \in InFrames /\ IsData(f)
      BY <2>1, <2>3, <2>5 DEF InFrames, DataFrames, IsData
    <2>7. /\ Draft(f) = DraftOf(drafted, f)
          /\ Placed(drafted, f) <=> ((op = "cont") = Drafting)
      BY <2>3 DEF Draft, DraftOf, Drafting, Placed
    <2>8. /\ drafted' = DraftAfter(drafted, f)
          /\ offered' = IF Offering(drafted, f)
                        THEN Append(offered, Message(DraftOf(drafted, f))) ELSE offered
      <3>1. /\ drafted' = IF ~((op = "cont") = Drafting) THEN drafted
                          ELSE IF fin THEN Nothing ELSE Draft(f)
            /\ offered' = IF ((op = "cont") = Drafting) /\ fin /\ Draft(f).valid
                              /\ Draft(f).size <= MaxMessage
                          THEN Append(offered, Message(Draft(f))) ELSE offered
        BY <1>4, <2>1 DEF PeerData
      <3> QED BY <2>3, <2>7, <3>1 DEF DraftAfter, Offering
    <2>9. ~Fragmented => f.op = "text" /\ f.fin
      BY <2>2, <2>3 DEF Fragmented, MaySay, DataOps
    <2>10. f.size > MaxMessage => f.op = "text" /\ f.fin
      BY <2>2, <2>3 DEF WholeMessages
    <2>11. Writes(f)
      BY <2>2, <2>3, <2>6, <2>8, <2>9, <2>10 DEF MaySay, Says, Writes
    <2> QED BY <2>11, WrittenStreams
  <1>5. CASE PeerReads
    <2>1. UNCHANGED Told /\ UNCHANGED <<rx, link, latched, excused, calls, called, state>>
      BY <1>5 DEF PeerReads, Told
    <2>2. CASE toUs' = toUs
      BY <1>1, <2>1, <2>2, QuietStreams DEF QuietStep
    <2>3. CASE toUs' # toUs
      <3>1. PICK f : f \in {PongFrame, CloseFrame} /\ toUs' = Append(toUs, f)
        BY <1>5, <2>3 DEF PeerReads
      <3>2. f \in InFrames /\ ~IsData(f)
        BY <1>1, <3>1 DEF PongFrame, CloseFrame, OtherOps
      <3> QED BY <2>1, <3>1, <3>2, AnswerStreams
    <2> QED BY <2>2, <2>3
  <1>6. ASSUME NEW how \in setup.faults, Break(how) PROVE Streams' /\ StreamShape' /\ StreamStep
    <2>1. how # "up"
      BY SetupTyped DEF IInv, Shape, Faults
    <2>2. /\ UNCHANGED Told /\ UNCHANGED <<rx, latched, excused, calls, called, state>>
          /\ toUs' \in {toUs, <<>>} /\ link' = how
      BY <1>6 DEF Break, Told
    <2> QED BY <1>1, <2>1, <2>2, QuietStreams DEF QuietStep
  <1> QED BY <1>2, <1>3, <1>4, <1>5, <1>6 DEF Peer

-----------------------------------------------------------------------------
(* Where the session stands with a chunk, and the promise                  *)

\* Where the session stands with its chunk, in the parts that do not look at the frames.
LEMMA ClosedUnread ==
    ASSUME Unread, NEW next, Closed(next), UNCHANGED <<setup, count, rx>>, called,
           calls.close = 0 => calls'.close = 0
    PROVE  Unread'
  BY DEF Unread, Closed, DropTransport, OnFinalized, Client, Fragmented

LEMMA ApplicationUnread ==
    ASSUME StreamInv, IInv, WholeMessages, Application, UNCHANGED peer
    PROVE  Unread'
  <1> USE DEF life, inbox, flow, wire, hist, peer, Client, Fragmented
  <1>1. Unread /\ calls \in [send : Int, close : Int, block : Int] /\ NotStarted
    BY DEF StreamInv, StreamShape, IInv
  <1>2. ASSUME NEW r \in BOOLEAN, Connect(r) PROVE Unread'
    BY <1>1, <1>2 DEF Connect, Unread, NotStarted
  <1>3. CASE Send \/ SendPing
    <2>1. /\ UNCHANGED <<setup, life, rx, pc, link, excused, count>> /\ Spend("send")
      BY <1>3 DEF Send, SendPing
    <2>2. calls.close = 0 => calls'.close = 0
      BY <1>1, <2>1, SpentTyped
    <2> QED BY <1>1, <2>1, <2>2 DEF Unread
  <1>4. CASE Close
    <2>1. /\ UNCHANGED <<setup, phase, called, connector, sock, rx, pc, link, count>>
          /\ Spend("close") /\ SendClose /\ calls.close > 0
          /\ state = "open" \/ (state = "connecting" /\ ~Client)
          /\ excused' = (excused \/ state = "connecting")
      BY <1>4 DEF Close, Spend
    <2>2. calls.close = 0 => calls'.close = 0
      BY <1>1, <2>1, SpentTyped
    <2>3. state' = "closing"
      BY <2>1 DEF SendClose
    <2>4. state = "connecting" => ~Fragmented
      BY <1>1, <2>1 DEF Unread
    <2> QED BY <1>1, <2>1, <2>2, <2>3, <2>4 DEF Unread
  <1>5. CASE Abort
    <2>1. /\ UNCHANGED <<setup, called, count, rx>> /\ Spend("close") /\ Closed("idle")
      BY <1>5 DEF Abort, Closed
    <2>2. calls.close = 0 => calls'.close = 0
      BY <1>1, <2>1, SpentTyped
    <2> QED BY <1>1, <2>1, <2>2 DEF Unread, Closed, DropTransport, OnFinalized
  <1>6. CASE Shutdown
    <2>1. /\ UNCHANGED <<setup, phase, called, sock, rx, link, count, excused>> /\ pc' = "flush"
          /\ Spend("close") /\ (state' = state \/ state' = "closing")
      BY <1>6 DEF Shutdown, SendClose
    <2>2. calls.close = 0 => calls'.close = 0
      BY <1>1, <2>1, SpentTyped
    <2> QED BY <1>1, <2>1, <2>2 DEF Unread
  <1>7. CASE Raise
    <2>1. CASE cb = "on_connection"
      BY <1>1, <1>7, <2>1, ClosedUnread DEF Raise, NotStarted
    <2>2. CASE cb # "on_connection"
      BY <1>1, <1>7, <2>2 DEF Raise, Unread
    <2> QED BY <2>1, <2>2
  <1>8. CASE NextMessage
    BY <1>1, <1>8 DEF NextMessage, Unread
  <1> QED BY <1>2, <1>3, <1>4, <1>5, <1>6, <1>7, <1>8 DEF Application

LEMMA OpeningUnread ==
    ASSUME StreamInv, IInv, Tick \/ Connector \/ Handshake, UNCHANGED peer
    PROVE  Unread'
  <1> USE DEF life, inbox, flow, wire, hist, peer, Client, Fragmented, Handshaking, InTime, Begins
  <1>1. Unread
    BY DEF StreamInv
  <1>2. CASE Tick
    BY <1>1, <1>2 DEF Tick, Unread
  <1>3. CASE ConnectorReady
    BY <1>1, <1>3 DEF ConnectorReady, Unread
  <1>4. CASE ConnectorFails \/ HandshakeTimesOut \/ SendHelloFails \/ HandshakeCut
    <2>1. \E next : Fail(next) /\ called
      BY <1>4 DEF ConnectorFails, HandshakeTimesOut, SendHelloFails, HandshakeCut
    <2> QED BY <1>1, <2>1, ClosedUnread DEF Fail
  <1>5. CASE SendHello
    BY <1>1, <1>5 DEF SendHello, Unread
  <1>6. ASSUME NEW n \in 1 .. Len(toUs), RecvHello(n) PROVE Unread'
    <2>1. CASE Client
      BY <1>1, <1>6, <2>1 DEF RecvHello, Unread
    <2>2. CASE ~Client
      BY <1>1, <1>6, <2>2 DEF RecvHello, Unread
    <2> QED BY <2>1, <2>2
  <1>7. CASE Refused
    <2>1. CASE Client
      BY <1>1, <1>7, <2>1, ClosedUnread DEF Refused, Fail
    <2>2. CASE ~Client
      BY <1>1, <1>7, <2>2 DEF Refused, DropTransport, Unread
    <2> QED BY <2>1, <2>2
  <1> QED BY <1>2, <1>3, <1>4, <1>5, <1>6, <1>7 DEF Connector, Handshake

LEMMA InboundUnread ==
    ASSUME StreamInv, IInv, Receive \/ Dispatch, UNCHANGED peer
    PROVE  Unread'
  <1> USE DEF life, inbox, flow, wire, hist, peer, Client, Fragmented
  <1>1. Unread /\ NotStarted
    BY DEF StreamInv, IInv
  <1>2. CASE BeginRecv
    BY <1>1, <1>2 DEF BeginRecv, InTime, Begins, Unread
  <1>3. ASSUME NEW n \in 1 .. Len(toUs), RecvChunk(n) PROVE Unread'
    BY <1>1, <1>3 DEF RecvChunk, Unread, NotStarted
  <1>4. CASE RecvStops
    BY <1>1, <1>4 DEF RecvStops, Unread
  <1>5. CASE RecvEnds
    BY <1>1, <1>5, ClosedUnread DEF RecvEnds, Fail, NotStarted
  <1>6. CASE FeedDone
    BY <1>1, <1>6 DEF FeedDone, Unread
  <1>7. CASE Dispatch
    <2>1. /\ pc = "feed" /\ pc' \in {"feed", "flush"}
          /\ UNCHANGED <<setup, phase, called, sock, link, calls>>
      BY <1>7 DEF Dispatch, DispatchInvalid, DispatchPing, DispatchPong, DispatchClose,
                  DispatchMisplaced, DispatchFragment, DispatchFinal, Feeds
    <2>2. state' = state \/ state' = "closing"
      BY <1>7 DEF Dispatch, DispatchInvalid, DispatchPing, DispatchPong, DispatchClose,
                  DispatchMisplaced, DispatchFragment, DispatchFinal, SendClose, FinishMessage,
                  DropMessage, DeliverMessage
    <2>3. called /\ state # "connecting"
      BY <1>1, <2>1 DEF Unread, NotStarted
    <2> QED BY <1>1, <2>1, <2>2, <2>3 DEF Unread
  <1> QED BY <1>2, <1>3, <1>4, <1>5, <1>6, <1>7 DEF Receive

LEMMA OutboundUnread ==
    ASSUME StreamInv, IInv, Transmit \/ Finish, UNCHANGED peer
    PROVE  Unread'
  <1> USE DEF life, inbox, flow, wire, hist, peer, Client, Fragmented
  <1>1. Unread /\ NotStarted /\ calls \in [send : Int, close : Int, block : Int]
        /\ (pc = "autoping" => state = "open")
    BY DEF StreamInv, StreamShape, IInv, PingsWhileOpen
  <1>2. CASE DrainDone
    BY <1>1, <1>2 DEF DrainDone, Drains, AfterDrain, Unread
  <1>3. ASSUME NEW more \in BOOLEAN, SendFrame(more) PROVE Unread'
    BY <1>1, <1>3 DEF SendFrame, Drains, AfterDrain, Unread
  <1>4. CASE SendBlocked
    <2>1. calls.close = 0 => calls'.close = 0
      BY <1>1, <1>4, SpentTyped DEF SendBlocked
    <2> QED BY <1>1, <1>4, <2>1 DEF SendBlocked, Drains, AfterDrain, Unread
  <1>5. CASE SendFails
    BY <1>1, <1>5, ClosedUnread DEF SendFails, Drains, NotStarted
  <1>6. CASE AutoPing
    BY <1>1, <1>6 DEF AutoPing, Unread
  <1>7. CASE CloseTimesOut
    BY <1>1, <1>7 DEF CloseTimesOut, Unread
  <1>8. CASE PongTimesOut
    BY <1>1, <1>8, ClosedUnread DEF PongTimesOut, Begins, Fail
  <1>9. CASE Settle
    BY <1>1, <1>9, ClosedUnread DEF Settle, NotStarted
  <1> QED BY <1>2, <1>3, <1>4, <1>5, <1>6, <1>7, <1>8, <1>9 DEF Transmit, Finish

LEMMA PeerUnread ==
    ASSUME StreamInv, IInv, Peer
    PROVE  Unread'
  <1> USE DEF Session, life, flow, hist, Client, Fragmented
  <1>1. UNCHANGED Session
    BY PeerOutside
  <1>2. Unread
    BY DEF StreamInv
  <1>3. link' = link \/ link' \in Faults
    <2>1. \A op : PeerGreets(op) => link' = link
      BY DEF PeerGreets
    <2>2. \A op : PeerControl(op) => link' = link
      BY DEF PeerControl
    <2>3. \A op, fin, size, valid : PeerData(op, fin, size, valid) => link' = link
      BY DEF PeerData
    <2>4. PeerReads => link' = link
      BY DEF PeerReads
    <2>5. \A how \in setup.faults : Break(how) => link' \in Faults
      BY SetupTyped DEF Break, IInv, Shape
    <2> QED BY <2>1, <2>2, <2>3, <2>4, <2>5, Zenon DEF Peer
  <1>4. count' = count \/ sock = "open"
    <2>1. \A op : PeerGreets(op) => count' = count
      BY DEF PeerGreets
    <2>2. \A op : PeerControl(op) => link = "up"
      BY DEF PeerControl, Says
    <2>3. \A op, fin, size, valid : PeerData(op, fin, size, valid) => link = "up"
      BY DEF PeerData, Says
    <2>4. PeerReads => count' = count
      BY DEF PeerReads
    <2>5. \A how : Break(how) => count' = count
      BY DEF Break
    <2>6. count' = count \/ link = "up"
      BY <2>1, <2>2, <2>3, <2>4, <2>5, Zenon DEF Peer
    <2> QED BY <1>2, <2>6 DEF Unread
  <1> QED BY <1>1, <1>2, <1>3, <1>4 DEF Unread, Faults

LEMMA StreamsKeep ==
    ASSUME StreamInv, IInv, WholeMessages, [SystemNext]_vars
    PROVE  StreamInv' /\ StreamStep
  <1>1. CASE Act(SessionNext)
    <2>1. SessionNext /\ UNCHANGED peer
      BY <1>1 DEF Act
    <2>2. Unread'
      BY <2>1, ApplicationUnread, OpeningUnread, InboundUnread, OutboundUnread
         DEF SessionNext, Handle
    <2> QED BY <1>1, <2>2, SessionStreams DEF StreamInv
  <1>2. CASE Peer
    BY <1>2, PeerStreams, PeerUnread DEF StreamInv
  <1>3. CASE UNCHANGED vars
    <2> USE <1>3 DEF vars, wsvars, life, inbox, flow, wire, hist, peer
    <2>1. calls \in [send : Int, close : Int, block : Int] /\ Unread
      BY DEF StreamInv, StreamShape
    <2>2. QuietStep
      BY <2>1 DEF QuietStep, Told
    <2>3. Unread'
      BY <2>1 DEF Unread, Client, Fragmented
    <2> QED BY <2>2, <2>3, QuietStreams DEF StreamInv
  <1> QED BY <1>1, <1>2, <1>3 DEF SystemNext

LEMMA StreamsBegin ==
    ASSUME SystemInit, WholeMessages
    PROVE  StreamInv
  <1>1. /\ rx = <<>> /\ toUs = <<>> /\ count = 0 /\ drafted = Nothing /\ inb = Nothing
        /\ offered = <<>> /\ received = <<>> /\ queue = <<>> /\ ~excused /\ ~streaming /\ ~latched
        /\ excused \in BOOLEAN /\ streaming \in BOOLEAN /\ latched \in BOOLEAN
        /\ calls = [send |-> setup.sends, close |-> setup.closings, block |-> setup.blocks]
    BY DEF SystemInit, Init
  <1>2. Nothing \in Drafts /\ DraftSound(Nothing) /\ Nothing.first = 0
    BY DEF Nothing, Drafts, DraftSound
  <1>3. setup \in SetupType
    BY WebSocketAssumption DEF WebSocketAssumption, SystemInit, Init
  <1>4. StreamShape
    <2>1. calls \in [send : Int, close : Int, block : Int]
      BY <1>1, <1>3 DEF SetupType
    <2> QED BY <1>1, <1>2, <2>1 DEF StreamShape
  <1>5. Unread
    <2>1. calls.close = setup.closings
      BY <1>1
    <2> QED BY <1>1, <2>1 DEF Unread, WholeMessages, SystemInit, Init, Client
  <1>6. InOrder /\ Offers
    BY <1>1, <1>2 DEF InOrder, Rising, Before, Offers, Drafting
  <1>7. Flight = {}
    BY <1>1 DEF Flight, ToSet
  <1>8. PICK draft, told : draft = [c \in Nat |-> Nothing] /\ told = [c \in Nat |-> 0]
    OBVIOUS
  <1>9. draft \in [Nat -> Drafts] /\ told \in [Nat -> Nat] /\ draft[0] = Nothing /\ told[0] = 0
    BY <1>2, <1>8
  <1>10. \A c \in 0 .. count : c = 0
    BY <1>1
  <1>11. Drawn(draft, told)
    BY <1>1, <1>2, <1>7, <1>9, <1>10 DEF Drawn
  <1>12. Reading(draft, told, 0)
    <2>1. Still(draft, 0) /\ Still(told, 0)
      BY <1>7, <1>10 DEF Still, StillIn
    <2>2. Matches(Nothing)
      BY <1>1, WebSocketAssumption DEF WebSocketAssumption, Matches, MatchesIn, Nothing
    <2> QED BY <1>1, <1>7, <1>9, <2>1, <2>2 DEF Reading
  <1>13. Given(0)
    BY <1>1 DEF Given, ToSet
  <1> QED BY <1>4, <1>5, <1>6, <1>9, <1>11, <1>12, <1>13 DEF StreamInv, Streams, History

\* Where no part of a chunk is thrown away, the application is given the peer's messages
\* as the abstract stream promises: whole, in order, each at most once, none skipped
\* without an excuse (_feed_frame_bytes, _handle_data_frame, _deliver_message,
\* next_message).
THEOREM MessagesAsOffered == Spec /\ WholeMessages => StreamSpec
  <1>1. SystemInit /\ WholeMessages => StreamInv
    BY StreamsBegin
  <1>2. SystemInit => Stream!Init
    BY DEF SystemInit, Init, Stream!Init
  <1>3. StreamInv /\ IInv /\ WholeMessages /\ [SystemNext]_vars => StreamInv' /\ StreamStep
    BY StreamsKeep
  <1>4. IInv /\ WholeMessages /\ [SystemNext]_vars => WholeMessages'
    <2>1. SessionNext => setup' = setup
      BY DEF SessionNext, Application, Connect, Send, SendPing, Close, Abort, Shutdown, Raise,
             NextMessage, Tick, Connector, ConnectorReady, ConnectorFails, Handle, Handshake,
             HandshakeTimesOut, SendHello, SendHelloFails, RecvHello, Refused, HandshakeCut,
             Receive, BeginRecv, RecvChunk, RecvStops, RecvEnds, FeedDone,
             Dispatch, DispatchInvalid, DispatchPing, DispatchPong, DispatchClose,
             DispatchMisplaced, DispatchFragment, DispatchFinal, Transmit, DrainDone, SendFrame,
             SendBlocked, SendFails, AutoPing, Finish, CloseTimesOut, PongTimesOut, Settle, Fail
    <2>2. Peer => setup' = setup
      BY PeerOutside DEF Session
    <2>3. [SystemNext]_vars => setup' = setup
      BY <2>1, <2>2 DEF SystemNext, Act, vars, wsvars
    <2> QED BY <2>3 DEF WholeMessages, Fragmented, Client
  <1> QED BY <1>1, <1>2, <1>3, <1>4, IInvAlways, PTL DEF Spec, StreamSpec, Stream!Spec, StreamStep

-----------------------------------------------------------------------------
(* The server: every open socket is in a slot                              *)

Running == [who  : Clients \cup {"nobody"},
            what : {"nothing", "on_connection", "on_message", "on_close"}]
Met(c) == c \in Clients /\ stage[c] \notin {"away", "waiting"}

ServerShape ==
    /\ server \in Servers
    /\ connections \in Seq(Clients) /\ backlog \in Seq(Clients) /\ sockets \subseteq Clients
    /\ stage \in [Clients -> Live \cup {"away", "waiting", "closed"}]
    /\ closers \in Seq([left : Seq(Clients), back : Running])
    /\ running \in Running

\* Who waits is in the backlog alone, whose socket is open is in a live session.
Apart ==
    /\ IsInjective(backlog) /\ \A c \in Range(backlog) : stage[c] = "waiting"
    /\ \A c \in Range(connections) : Met(c)
    /\ \A c \in sockets : stage[c] \in Live

\* A callback and a close() are of sessions that were accepted.
Handed ==
    /\ running # Nobody => Met(running.who)
    /\ \A k \in DOMAIN closers :
          /\ \A c \in Range(closers[k].left) : Met(c)
          /\ closers[k].back # Nobody => Met(closers[k].back.who)

\* Every close() under way still has all sockets before it, and the listener is gone.
Closing ==
    \A k \in DOMAIN closers : io_socket = "none" /\ sockets \subseteq Range(closers[k].left)

\* No callback runs between two visits; the session that is visited is where the walk
\* is, unless a callback closed the server.
Walking ==
    /\ index \in Nat
    /\ visiting = "walk" => running = Nobody /\ closers = <<>> /\ index <= Len(connections)
    /\ visiting = "visit" /\ ~stopped => index \in 1 .. Len(connections)

ServerInv == ServerShape /\ Apart /\ Handed /\ Closing /\ Walking /\ SlotsAccounted

-----------------------------------------------------------------------------
(* Sequences: what the slots and the backlog are built with                *)

LEMMA Removed ==
  ASSUME NEW S, NEW s \in Seq(S), NEW i \in 1 .. Len(s)
  PROVE  /\ RemoveAt(s, i) \in Seq(S)
         /\ Len(RemoveAt(s, i)) = Len(s) - 1
         /\ \A k \in 1 .. Len(s) - 1 :
              /\ k < i => RemoveAt(s, i)[k] = s[k]
              /\ ~(k < i) => RemoveAt(s, i)[k] = s[k + 1]
<1> DEFINE a == SubSeq(s, 1, i - 1)
           b == SubSeq(s, i + 1, Len(s))
<1>1. /\ a \in Seq(S) /\ Len(a) = i - 1 /\ \A k \in 1 .. i - 1 : a[k] = s[k]
  OBVIOUS
<1>2. /\ b \in Seq(S) /\ Len(b) = Len(s) - i /\ \A k \in 1 .. Len(s) - i : b[k] = s[i + k]
  OBVIOUS
<1>3. RemoveAt(s, i) = a \o b
  BY DEF RemoveAt
<1> HIDE DEF a, b
<1>4. a \o b \in Seq(S) /\ Len(a \o b) = Len(s) - 1
  <2>1. a \in Seq(S) /\ b \in Seq(S)
    BY <1>1, <1>2
  <2>2. a \o b \in Seq(S) /\ Len(a \o b) = Len(a) + Len(b)
    BY <2>1
  <2> QED BY <1>1, <1>2, <2>2
<1>5. ASSUME NEW k \in 1 .. Len(s) - 1
      PROVE  /\ k < i => (a \o b)[k] = s[k]
             /\ ~(k < i) => (a \o b)[k] = s[k + 1]
  <2>1. CASE k < i
    <3>1. (a \o b)[k] = a[k]
      BY <1>1, <1>2, <2>1
    <3>2. a[k] = s[k]
      BY <1>1, <2>1
    <3> QED BY <2>1, <3>1, <3>2, Zenon
  <2>2. CASE k >= i
    <3>1. k - (i - 1) \in 1 .. Len(s) - i /\ i + (k - (i - 1)) = k + 1
      BY <2>2
    <3>2. (a \o b)[k] = b[k - (i - 1)]
      BY <1>1, <1>2, <2>2
    <3>3. b[k - (i - 1)] = s[i + (k - (i - 1))]
      BY <1>2, <3>1
    <3>4. ~(k < i)
      BY <2>2
    <3>5. s[i + (k - (i - 1))] = s[k + 1]
      BY <3>1
    <3>6. (a \o b)[k] = s[k + 1]
      BY <3>2, <3>3, <3>5, Zenon
    <3> QED BY <3>4, <3>6, Zenon
  <2>3. k < i \/ k >= i
    OBVIOUS
  <2> QED BY <2>1, <2>2, <2>3, Zenon
<1> QED BY <1>3, <1>4, <1>5

LEMMA RemovedKeeps ==
  ASSUME NEW S, NEW s \in Seq(S), NEW i \in 1 .. Len(s), IsInjective(s)
  PROVE  /\ IsInjective(RemoveAt(s, i))
         /\ Range(s) \ {s[i]} \subseteq Range(RemoveAt(s, i))
         /\ Range(RemoveAt(s, i)) \subseteq Range(s)
<1> DEFINE r == RemoveAt(s, i)
<1>1. /\ r \in Seq(S)
      /\ Len(r) = Len(s) - 1
      /\ \A k \in 1 .. Len(s) - 1 :
            (k < i => r[k] = s[k]) /\ (~(k < i) => r[k] = s[k + 1])
  BY Removed
<1> HIDE DEF r
<1> DEFINE from(k) == IF k < i THEN k ELSE k + 1
<1>2. ASSUME NEW k \in 1 .. Len(s) - 1
      PROVE  from(k) \in 1 .. Len(s) /\ r[k] = s[from(k)]
  <2>1. CASE k < i
    <3>1. r[k] = s[k]
      BY <1>1, <2>1
    <3> QED BY <2>1, <3>1
  <2>2. CASE ~(k < i)
    <3>1. r[k] = s[k + 1]
      BY <1>1, <2>2
    <3> QED BY <2>2, <3>1
  <2> QED BY <2>1, <2>2
<1>3. \A j, k \in 1 .. Len(s) - 1 : from(j) = from(k) => j = k
  OBVIOUS
<1>4. \A k \in 1 .. Len(s) : k # i => \E j \in 1 .. Len(s) - 1 : from(j) = k
  <2> SUFFICES ASSUME NEW k \in 1 .. Len(s), k # i
               PROVE  \E j \in 1 .. Len(s) - 1 : from(j) = k
    OBVIOUS
  <2>1. CASE k < i
    <3>1. k \in 1 .. Len(s) - 1 /\ from(k) = k
      BY <2>1
    <3> QED BY <3>1
  <2>2. CASE k > i
    <3>1. k - 1 \in 1 .. Len(s) - 1 /\ from(k - 1) = k
      BY <2>2
    <3> QED BY <3>1
  <2> QED BY <2>1, <2>2
<1>5. DOMAIN s = 1 .. Len(s) /\ DOMAIN r = 1 .. Len(s) - 1
  BY <1>1
<1> HIDE DEF from
<1>6. IsInjective(r)
  <2> SUFFICES ASSUME NEW j \in 1 .. Len(s) - 1, NEW k \in 1 .. Len(s) - 1, r[j] = r[k]
               PROVE  j = k
    BY <1>5 DEF IsInjective
  <2>1. from(j) = from(k)
    BY <1>2, <1>5 DEF IsInjective
  <2> QED BY <1>3, <2>1
<1>7. Range(s) \ {s[i]} \subseteq Range(r)
  <2> SUFFICES ASSUME NEW k \in 1 .. Len(s), s[k] # s[i]
               PROVE  s[k] \in Range(r)
    BY <1>5 DEF Range
  <2>1. PICK j \in 1 .. Len(s) - 1 : from(j) = k
    BY <1>4
  <2>2. r[j] = s[k]
    BY <1>2, <2>1
  <2> QED BY <1>5, <2>2 DEF Range
<1>8. Range(r) \subseteq Range(s)
  BY <1>2, <1>5 DEF Range
<1> QED BY <1>6, <1>7, <1>8 DEF r

LEMMA Accepted ==
  ASSUME NEW S, NEW s \in Seq(S), NEW q \in Seq(S), NEW n \in 0 .. Len(q),
         IsInjective(s), IsInjective(q), Range(s) \cap Range(q) = {}
  PROVE  LET new == SubSeq(q, 1, n) rest == SubSeq(q, n + 1, Len(q)) IN
         /\ s \o new \in Seq(S) /\ Len(s \o new) = Len(s) + n /\ IsInjective(s \o new)
         /\ Range(s \o new) = Range(s) \cup Range(new)
         /\ rest \in Seq(S) /\ IsInjective(rest)
         /\ Range(rest) \subseteq Range(q) \ Range(new)
         /\ Range(new) \subseteq Range(q)
<1> DEFINE new == SubSeq(q, 1, n)
           rest == SubSeq(q, n + 1, Len(q))
           all == s \o new
<1>1. new \in Seq(S) /\ Len(new) = n /\ \A k \in 1 .. n : new[k] = q[k]
  OBVIOUS
<1>2. rest \in Seq(S) /\ Len(rest) = Len(q) - n /\ \A k \in 1 .. Len(q) - n : rest[k] = q[n + k]
  OBVIOUS
<1> HIDE DEF new, rest
<1>a. all \in Seq(S) /\ Len(all) = Len(s) + n
  BY <1>1
<1>b. \A k \in 1 .. Len(s) : all[k] = s[k]
  BY <1>1
<1>c. \A k \in Len(s) + 1 .. Len(s) + n : all[k] = new[k - Len(s)] /\ k - Len(s) \in 1 .. n
  BY <1>1
<1>3. /\ all \in Seq(S) /\ Len(all) = Len(s) + n
      /\ \A k \in 1 .. Len(s) : all[k] = s[k]
      /\ \A k \in Len(s) + 1 .. Len(s) + n :
            k - Len(s) \in 1 .. n /\ all[k] = q[k - Len(s)] /\ all[k] = new[k - Len(s)]
  BY <1>1, <1>a, <1>b, <1>c
<1> HIDE DEF all
<1>4. \A j \in 1 .. Len(s), k \in 1 .. Len(q) : s[j] # q[k]
  BY DEF Range
<1>5. IsInjective(all)
  <2> SUFFICES ASSUME NEW j \in 1 .. Len(s) + n, NEW k \in 1 .. Len(s) + n, j < k
               PROVE  all[j] # all[k]
    BY <1>3 DEF IsInjective
  <2>1. CASE k <= Len(s)
    BY <1>3, <2>1 DEF IsInjective
  <2>2. CASE j > Len(s)
    <3>1. all[j] = q[j - Len(s)] /\ all[k] = q[k - Len(s)]
      <4>1. j \in Len(s) + 1 .. Len(s) + n /\ k \in Len(s) + 1 .. Len(s) + n
        BY <2>2
      <4> QED BY <1>3, <4>1
    <3>2. j - Len(s) \in DOMAIN q /\ k - Len(s) \in DOMAIN q
      BY <2>2
    <3> QED BY <3>1, <3>2 DEF IsInjective
  <2>3. CASE j <= Len(s) /\ k > Len(s)
    <3>1. all[j] = s[j] /\ all[k] = q[k - Len(s)] /\ k - Len(s) \in 1 .. Len(q)
      BY <1>3, <2>3
    <3> QED BY <1>4, <2>3, <3>1
  <2> QED BY <2>1, <2>2, <2>3
<1>6. Range(all) = Range(s) \cup Range(new)
  <2>1. \A k \in 1 .. Len(s) + n : all[k] \in Range(s) \cup Range(new)
    <3> SUFFICES ASSUME NEW k \in 1 .. Len(s) + n PROVE all[k] \in Range(s) \cup Range(new)
      OBVIOUS
    <3>1. CASE k <= Len(s)
      BY <1>3, <3>1 DEF Range
    <3>2. CASE k > Len(s)
      <4>1. k - Len(s) \in 1 .. n /\ all[k] = new[k - Len(s)]
        BY <1>1, <1>3, <3>2
      <4> QED BY <1>1, <4>1 DEF Range
    <3> QED BY <3>1, <3>2
  <2>2. \A k \in 1 .. Len(s) : s[k] \in Range(all)
    BY <1>3 DEF Range
  <2>3. \A k \in 1 .. n : new[k] \in Range(all)
    <3> SUFFICES ASSUME NEW k \in 1 .. n PROVE new[k] \in Range(all)
      OBVIOUS
    <3>1. Len(s) + k \in Len(s) + 1 .. Len(s) + n /\ (Len(s) + k) - Len(s) = k
      OBVIOUS
    <3>2. Len(s) + k \in DOMAIN all /\ all[Len(s) + k] = new[k]
      <4>1. all[Len(s) + k] = new[(Len(s) + k) - Len(s)]
        BY <1>3, <3>1
      <4>2. Len(s) + k \in DOMAIN all
        BY <1>3
      <4> QED BY <3>1, <4>1, <4>2
    <3> QED BY <3>2 DEF Range
  <2>4. DOMAIN all = 1 .. Len(s) + n /\ DOMAIN new = 1 .. n /\ DOMAIN s = 1 .. Len(s)
    BY <1>1, <1>3
  <2> QED BY <2>1, <2>2, <2>3, <2>4, Zenon DEF Range
<1>7. IsInjective(rest)
  <2> SUFFICES ASSUME NEW j \in 1 .. Len(q) - n, NEW k \in 1 .. Len(q) - n, rest[j] = rest[k]
               PROVE  j = k
    BY <1>2 DEF IsInjective
  <2>1. n + j \in DOMAIN q /\ n + k \in DOMAIN q /\ q[n + j] = q[n + k]
    <3>1. rest[j] = q[n + j] /\ rest[k] = q[n + k]
      BY <1>2
    <3>2. n + j \in DOMAIN q /\ n + k \in DOMAIN q
      OBVIOUS
    <3> QED BY <3>1, <3>2, Zenon
  <2>2. n + j = n + k
    BY <2>1 DEF IsInjective
  <2> QED BY <2>2
<1>8. Range(rest) \subseteq Range(q) \ Range(new)
  <2> SUFFICES ASSUME NEW k \in 1 .. Len(q) - n
               PROVE  rest[k] \in Range(q) /\ rest[k] \notin Range(new)
    BY <1>2 DEF Range
  <2>1. n + k \in DOMAIN q /\ rest[k] = q[n + k]
    BY <1>2
  <2>2. \A j \in 1 .. n : new[j] = q[j] /\ j \in DOMAIN q /\ j # n + k
    BY <1>1
  <2> QED BY <1>1, <2>1, <2>2 DEF Range, IsInjective
<1>9. Range(new) \subseteq Range(q)
  BY <1>1 DEF Range
<1> QED BY <1>2, <1>3, <1>5, <1>6, <1>7, <1>8, <1>9 DEF new, rest, all

LEMMA Appended ==
  ASSUME NEW S, NEW s \in Seq(S), NEW e \in S, IsInjective(s), e \notin Range(s)
  PROVE  IsInjective(Append(s, e)) /\ Range(Append(s, e)) = Range(s) \cup {e}
<1> DEFINE t == Append(s, e)
<1>1. /\ DOMAIN t = 1 .. Len(s) + 1 /\ t[Len(s) + 1] = e
      /\ DOMAIN s = 1 .. Len(s) /\ \A k \in 1 .. Len(s) : t[k] = s[k]
  OBVIOUS
<1> HIDE DEF t
<1>2. \A k \in 1 .. Len(s) + 1 : k = Len(s) + 1 \/ k \in 1 .. Len(s)
  OBVIOUS
<1>3. \A k \in 1 .. Len(s) : k \in 1 .. Len(s) + 1 /\ k # Len(s) + 1
  OBVIOUS
<1>4. Len(s) + 1 \in 1 .. Len(s) + 1
  OBVIOUS
<1>5. IsInjective(t)
  BY <1>1, <1>2, <1>3 DEF IsInjective, Range
<1>6. Range(t) = Range(s) \cup {e}
  <2>1. Range(t) \subseteq Range(s) \cup {e}
    BY <1>1, <1>2 DEF Range
  <2>2. Range(s) \subseteq Range(t)
    BY <1>1, <1>3 DEF Range
  <2>3. e \in Range(t)
    BY <1>1, <1>4 DEF Range
  <2> QED BY <2>1, <2>2, <2>3
<1> QED BY <1>5, <1>6 DEF t

-----------------------------------------------------------------------------
(* The actions                                                             *)

LEMMA ServerInitInv == ServerInit => ServerInv
<1> SUFFICES ASSUME ServerInit PROVE ServerInv
  OBVIOUS
<1> USE DEF ServerInit
<1>1. Len(<<>>) = 0 /\ DOMAIN <<>> = {} /\ Range(<<>>) = {} /\ IsInjective(<<>>)
  BY DEF Range, IsInjective
<1>2. ServerShape
  <2>1. closers \in Seq([left : Seq(Clients), back : Running])
    OBVIOUS
  <2>2. running \in Running
    BY DEF Running, Nobody
  <2>3. connections \in Seq(Clients) /\ backlog \in Seq(Clients)
    OBVIOUS
  <2> QED BY <2>1, <2>2, <2>3 DEF ServerShape, Running
<1>3. Apart /\ Handed /\ Closing /\ Walking
  BY <1>1 DEF Apart, Handed, Closing, Walking
<1>4. SlotsAccounted
  BY <1>1, ServerAssumption DEF SlotsAccounted, ServerType
<1> QED BY <1>2, <1>3, <1>4 DEF ServerInv

\* What an action may do that accepts nobody and leaves the slots alone: a session moves
\* on, and its socket is closed when it ends.
Moves(c) ==
    /\ UNCHANGED <<server, io_socket, connections, backlog>>
    /\ Met(c)
    /\ \/ stage' = [stage EXCEPT ![c] = "closed"] /\ sockets' = sockets \ {c}
       \/ UNCHANGED <<stage, sockets>>
       \/ /\ stage[c] \in Live /\ UNCHANGED sockets
          /\ \E s \in Live : stage' = [stage EXCEPT ![c] = s]

LEMMA MovesKeep ==
  ASSUME ServerInv, NEW c, Moves(c), UNCHANGED stopped, closers' = closers \/ closers' = <<>>,
         running' \in Running, (running # Nobody => Met(running.who))'
  PROVE  ServerShape' /\ Apart' /\ Handed' /\ Closing' /\ SlotsAccounted'
<1> USE DEF ServerInv, Moves
<1>1. stage' \in [Clients -> Live \cup {"away", "waiting", "closed"}]
  BY DEF ServerShape, Live
<1>2. sockets' \subseteq sockets
  OBVIOUS
<1>3. \A d \in Clients : Met(d) => Met(d)'
  BY DEF ServerShape, Met, Live
<1>4. \A d \in Clients : stage[d] = "waiting" => stage'[d] = "waiting"
  BY DEF ServerShape, Met, Live
<1>5. \A d \in sockets' : stage'[d] \in Live
  BY DEF ServerShape, Apart
<1>6. Range(backlog) \subseteq Clients /\ Range(connections) \subseteq Clients
  BY DEF ServerShape, Range
<1>7. ServerShape'
  <2>1. closers' \in Seq([left : Seq(Clients), back : Running])
    <3>1. CASE closers' = closers
      BY <3>1 DEF ServerShape, Running
    <3>2. CASE closers' = <<>>
      BY <3>2
    <3> QED BY <3>1, <3>2
  <2> QED BY <1>1, <1>2, <2>1 DEF ServerShape, Running
<1>8. Apart'
  BY <1>3, <1>4, <1>5, <1>6 DEF Apart
<1>9. Handed'
  <2>1. (running # Nobody => Met(running.who))'
    OBVIOUS
  <2>2. \A k \in DOMAIN closers' : k \in DOMAIN closers /\ closers'[k] = closers[k]
    OBVIOUS
  <2>3. ASSUME NEW k \in DOMAIN closers
        PROVE  /\ \A d \in Range(closers[k].left) : Met(d)'
               /\ closers[k].back # Nobody =>
                     closers[k].back.who \in Clients
                       /\ stage'[closers[k].back.who] \notin {"away", "waiting"}
    BY <1>3 DEF Handed, Met
  <2> QED BY <2>1, <2>2, <2>3 DEF Handed, Nobody, Met
<1>10. Closing'
  BY <1>2 DEF Closing
<1>11. SlotsAccounted'
  BY <1>2 DEF SlotsAccounted
<1> QED BY <1>7, <1>8, <1>9, <1>10, <1>11

LEMMA SessionKeeps ==
  ASSUME ServerInv, NEW c \in Clients,
         \/ SessionOpens(c) \/ SessionRejected(c) \/ SessionTells(c) \/ SessionEnds(c)
         \/ SessionWaits(c)
  PROVE  ServerInv'
<1> USE DEF Visits
<1>1. Met(c)
  BY DEF Met, Live, SessionOpens, SessionRejected, SessionTells, SessionEnds, SessionWaits
<1>2. Moves(c)
  BY <1>1, Zenon DEF Moves, Live, Finalize, SessionOpens, SessionRejected, SessionTells,
     SessionEnds, SessionWaits
<1>3. UNCHANGED <<stopped, closers, index>>
  BY DEF SessionOpens, SessionRejected, SessionTells, SessionEnds, SessionWaits
<1>4. running' = running \/ \E w \in {"on_connection", "on_message", "on_close"} :
                                running' = [who |-> c, what |-> w]
  BY DEF SessionOpens, SessionRejected, SessionTells, SessionEnds, SessionWaits, Runs, Finalize,
     ServerInv, Walking
<1>5. running' \in Running
  BY <1>4 DEF ServerInv, ServerShape, Running
<1>6. running = Nobody
  BY DEF ServerInv, Walking, SessionOpens, SessionRejected, SessionTells, SessionEnds,
     SessionWaits
<1>7. Met(c)'
  BY <1>1, <1>2 DEF Moves, Met, ServerInv, ServerShape, Live
<1>8. (running # Nobody => Met(running.who))'
  BY <1>4, <1>6, <1>7 DEF Met, Nobody
<1>9. ServerShape' /\ Apart' /\ Handed' /\ Closing' /\ SlotsAccounted'
  BY <1>2, <1>3, <1>5, <1>8, MovesKeep
<1>10. Walking'
  <2>1. visiting = "walk" /\ index > 0 /\ visiting' = "visit"
    BY DEF SessionOpens, SessionRejected, SessionTells, SessionEnds, SessionWaits
  <2> QED BY <1>2, <1>3, <2>1 DEF Walking, ServerInv, ServerShape, Moves
<1> QED BY <1>9, <1>10 DEF ServerInv

\* A session that is over leaves its slot; no socket is lost with it.
LEMMA LeavesKeep ==
  ASSUME ServerInv, index \in 1 .. Len(connections), stage[Visited] = "closed",
         connections' = RemoveAt(connections, index),
         UNCHANGED <<server, io_socket, stopped, backlog, stage, sockets, running, closers>>
  PROVE  /\ ServerShape' /\ Apart' /\ Handed' /\ Closing' /\ SlotsAccounted'
         /\ Len(connections') = Len(connections) - 1
<1> USE DEF ServerInv
<1>1. connections' \in Seq(Clients) /\ Len(connections') = Len(connections) - 1
  BY Removed DEF ServerShape
<1>2. IsInjective(connections')
  BY RemovedKeeps DEF ServerShape, SlotsAccounted
<1>3. Range(connections) \ {connections[index]} \subseteq Range(connections')
  BY RemovedKeeps DEF ServerShape, SlotsAccounted
<1>4. Range(connections') \subseteq Range(connections)
  BY RemovedKeeps DEF ServerShape, SlotsAccounted
<1>5. connections[index] \notin sockets
  BY DEF Apart, Live, Visited
<1>6. ServerShape'
  BY <1>1 DEF ServerShape
<1>7. Apart' /\ Handed' /\ Closing'
  BY <1>4 DEF Apart, Handed, Closing, Met, Nobody
<1>8. Len(connections') <= server.slots
  BY <1>1, ServerAssumption DEF SlotsAccounted, ServerShape, ServerType
<1>9. SlotsAccounted'
  BY <1>2, <1>3, <1>5, <1>8 DEF SlotsAccounted
<1> QED BY <1>1, <1>6, <1>7, <1>9

LEMMA WalkKeeps ==
  ASSUME ServerInv, LeaveSession \/ EndWalk \/ \E c \in Clients : SkipClosed(c)
  PROVE  ServerInv'
<1> USE DEF ServerInv
<1>1. CASE LeaveSession /\ ~stopped /\ stage[Visited] = "closed"
  <2>1. ServerShape' /\ Apart' /\ Handed' /\ Closing' /\ SlotsAccounted'
          /\ Len(connections') = Len(connections) - 1
    BY <1>1, LeavesKeep DEF LeaveSession, Walking
  <2>2. Walking'
    BY <1>1, <2>1 DEF LeaveSession, Walking, ServerShape
  <2> QED BY <2>1, <2>2
<1>2. CASE \E c \in Clients : SkipClosed(c)
  <2>1. ServerShape' /\ Apart' /\ Handed' /\ Closing' /\ SlotsAccounted'
          /\ Len(connections') = Len(connections) - 1
    BY <1>2, LeavesKeep DEF SkipClosed, Visits, Walking
  <2>2. Walking'
    BY <1>2, <2>1 DEF SkipClosed, Visits, Walking, ServerShape
  <2> QED BY <2>1, <2>2
<1>3. CASE EndWalk \/ (LeaveSession /\ (stopped \/ stage[Visited] # "closed"))
  <2>1. UNCHANGED <<server, io_socket, stopped, connections, backlog, stage, sockets, running,
                    closers>>
    BY <1>3 DEF EndWalk, LeaveSession
  <2>2. ServerShape' /\ Apart' /\ Handed' /\ Closing' /\ SlotsAccounted'
    BY <2>1 DEF ServerShape, Apart, Handed, Closing, SlotsAccounted, Met, Nobody
  <2>3. Walking'
    BY <1>3, <2>1 DEF EndWalk, LeaveSession, Walking, ServerShape
  <2> QED BY <2>2, <2>3
<1> QED BY <1>1, <1>2, <1>3 DEF LeaveSession

LEMMA AcceptKeeps ==
  ASSUME ServerInv, AcceptPending
  PROVE  ServerInv'
<1> USE DEF ServerInv
<1>1. PICK n \in 0 .. Len(backlog) :
        LET new == SubSeq(backlog, 1, n) IN
        /\ n <= FreeSlots
        /\ connections' = connections \o new
        /\ backlog' = SubSeq(backlog, n + 1, Len(backlog))
        /\ stage' = [c \in Clients |-> IF c \in Range(new) THEN "connecting" ELSE stage[c]]
        /\ sockets' = sockets \cup Range(new)
  BY DEF AcceptPending
<1> DEFINE new == SubSeq(backlog, 1, n)
<1>2. Range(connections) \cap Range(backlog) = {}
  BY DEF Apart, Met
<1>3. /\ connections' \in Seq(Clients) /\ Len(connections') = Len(connections) + n
      /\ IsInjective(connections') /\ Range(connections') = Range(connections) \cup Range(new)
      /\ backlog' \in Seq(Clients) /\ IsInjective(backlog')
      /\ Range(backlog') \subseteq Range(backlog) \ Range(new)
      /\ Range(new) \subseteq Range(backlog)
  BY <1>1, <1>2, Accepted DEF ServerShape, Apart, SlotsAccounted
<1> HIDE DEF new
<1>4. /\ sockets' = sockets \cup Range(new)
      /\ stage' = [c \in Clients |-> IF c \in Range(new) THEN "connecting" ELSE stage[c]]
  BY <1>1 DEF new
<1>5. /\ UNCHANGED <<server, stopped, running, closers>> /\ ~stopped
      /\ running = Nobody /\ closers = <<>> /\ visiting' = "walk" /\ index' = Len(connections')
  BY DEF AcceptPending, MayTick, Resting
<1>6. Range(backlog) \subseteq Clients /\ Range(connections) \subseteq Clients
  BY DEF ServerShape, Range
<1>7. ServerShape'
  BY <1>3, <1>4, <1>5, <1>6 DEF ServerShape, Live, Running
<1>8. Apart'
  BY <1>3, <1>4, <1>6 DEF Apart, Met, Live, ServerShape
<1>9. Handed' /\ Closing' /\ Walking'
  BY <1>3, <1>5 DEF Handed, Closing, Walking, Nobody
<1>10. SlotsAccounted'
  <2>1. Len(connections) + n <= server.slots
    BY <1>1, ServerAssumption DEF FreeSlots, ServerShape, ServerType
  <2> QED BY <1>3, <1>4, <1>5, <2>1 DEF SlotsAccounted
<1> QED BY <1>7, <1>8, <1>9, <1>10

LEMMA DialsKeeps ==
  ASSUME ServerInv, NEW c \in Clients, Dials(c)
  PROVE  ServerInv'
<1> USE DEF ServerInv
<1>1. /\ UNCHANGED <<server, io_socket, stopped, connections, sockets, visiting, index, running,
                     closers>>
      /\ running = Nobody /\ closers = <<>> /\ stage[c] = "away"
      /\ stage' = [stage EXCEPT ![c] = "waiting"] /\ backlog' = Append(backlog, c)
  BY DEF Dials, Resting
<1>2. c \notin Range(backlog) /\ c \notin Range(connections) /\ c \notin sockets
  BY <1>1 DEF Apart, Met, Live
<1>3. /\ backlog' \in Seq(Clients) /\ IsInjective(backlog')
      /\ Range(backlog') = Range(backlog) \cup {c}
  BY <1>1, <1>2, Appended DEF ServerShape, Apart
<1>4. Range(backlog) \subseteq Clients /\ Range(connections) \subseteq Clients
  BY DEF ServerShape, Range
<1>5. ServerShape'
  BY <1>1, <1>3 DEF ServerShape, Running
<1>6. Apart'
  BY <1>1, <1>2, <1>3, <1>4 DEF Apart, Met, ServerShape
<1>7. Handed' /\ Closing' /\ Walking' /\ SlotsAccounted'
  BY <1>1 DEF Handed, Closing, Walking, SlotsAccounted, Nobody
<1> QED BY <1>5, <1>6, <1>7

LEMMA CloseServerKeeps ==
  ASSUME ServerInv, CloseServer
  PROVE  ServerInv'
<1> USE DEF ServerInv
<1> DEFINE frame == [left |-> connections, back |-> running]
<1>1. /\ UNCHANGED <<server, stopped, connections, sockets, visiting, index>>
      /\ io_socket' = "none" /\ backlog' = <<>> /\ running' = Nobody /\ ~stopped
      /\ stage' = [c \in Clients |-> IF stage[c] = "waiting" THEN "closed" ELSE stage[c]]
      /\ closers' = Append(closers, frame)
  BY DEF CloseServer
<1>2. frame \in [left : Seq(Clients), back : Running]
  BY DEF ServerShape, Running
<1>3. frame.left = connections /\ frame.back = running
  OBVIOUS
<1> HIDE DEF frame
<1>4. /\ closers' \in Seq([left : Seq(Clients), back : Running])
      /\ \A k \in DOMAIN closers' :
            closers'[k] = frame \/ (k \in DOMAIN closers /\ closers'[k] = closers[k])
  BY <1>1, <1>2 DEF ServerShape
<1>5. \A c \in Clients : Met(c) => Met(c)'
  BY <1>1 DEF Met
<1>6. Range(<<>>) = {} /\ IsInjective(<<>>)
  BY DEF Range, IsInjective
<1>7. ServerShape'
  BY <1>1, <1>4 DEF ServerShape, Running, Nobody
<1>8. Apart'
  BY <1>1, <1>5, <1>6 DEF Apart, Met, Live, ServerShape
<1>9. Handed'
  <2> SUFFICES ASSUME NEW k \in DOMAIN closers'
               PROVE  /\ \A c \in Range(closers'[k].left) : Met(c)'
                      /\ closers'[k].back # Nobody =>
                            closers'[k].back.who \in Clients
                              /\ stage'[closers'[k].back.who] \notin {"away", "waiting"}
    BY <1>1 DEF Handed, Met, Nobody
  <2>1. CASE closers'[k] = frame
    BY <1>3, <1>5, <2>1 DEF Apart, Handed, Met
  <2>2. CASE k \in DOMAIN closers /\ closers'[k] = closers[k]
    BY <1>5, <2>2 DEF Handed, Met
  <2> QED BY <1>4, <2>1, <2>2
<1>10. Closing'
  BY <1>1, <1>3, <1>4 DEF Closing, SlotsAccounted
<1>11. visiting # "walk"
  BY DEF CloseServer, Acting, Resting, Walking
<1>12. Walking' /\ SlotsAccounted'
  BY <1>1, <1>11 DEF Walking, SlotsAccounted
<1> QED BY <1>7, <1>8, <1>9, <1>10, <1>12

LEMMA CloseNextKeeps ==
  ASSUME ServerInv, CloseNext
  PROVE  ServerInv'
<1> USE DEF ServerInv
<1> DEFINE n == Len(closers)
           left == closers[n].left
           c == Head(left)
<1>0. closers # <<>> /\ n \in DOMAIN closers /\ Last(closers) = closers[n]
        /\ closers[n] \in [left : Seq(Clients), back : Running]
        /\ DOMAIN closers = 1 .. n /\ n \in Nat
  <2> DEFINE Frame == [left : Seq(Clients), back : Running]
  <2>1. closers \in Seq(Frame) /\ closers # <<>>
    BY DEF CloseNext, ServerShape
  <2> HIDE DEF Frame
  <2>2. n \in Nat /\ DOMAIN closers = 1 .. n /\ n \in DOMAIN closers /\ closers[n] \in Frame
    BY <2>1
  <2> QED BY <2>1, <2>2 DEF Last, Frame
<1>1. /\ n \in DOMAIN closers /\ left \in Seq(Clients) /\ left # <<>> /\ running = Nobody
      /\ closers' = [closers EXCEPT ![n].left = Tail(left)]
      /\ UNCHANGED <<server, io_socket, stopped, connections, backlog, visiting, index>>
      /\ \/ stage[c] = "closed" /\ UNCHANGED <<stage, sockets, running>>
         \/ Finalize(c)
  <2>1. left \in Seq(Clients)
    BY <1>0
  <2>2. left # <<>> /\ running = Nobody
          /\ UNCHANGED <<server, io_socket, stopped, connections, backlog, visiting, index>>
    BY <1>0 DEF CloseNext
  <2>3. closers' = [closers EXCEPT ![n].left = Tail(left)]
    BY <1>0 DEF CloseNext
  <2>4. (stage[c] = "closed" /\ UNCHANGED <<stage, sockets, running>>) \/ Finalize(c)
    BY <1>0 DEF CloseNext
  <2> QED BY <1>0, <2>1, <2>2, <2>3, <2>4
<1>2. c \in Range(left) /\ c \in Clients /\ Tail(left) \in Seq(Clients)
      /\ Range(Tail(left)) \subseteq Range(left) /\ Range(left) \subseteq Range(Tail(left)) \cup {c}
  <2>1. /\ Len(left) \in Nat \ {0} /\ c = left[1] /\ Tail(left) \in Seq(Clients)
        /\ DOMAIN left = 1 .. Len(left) /\ DOMAIN Tail(left) = 1 .. Len(left) - 1
        /\ \A k \in 1 .. Len(left) - 1 : Tail(left)[k] = left[k + 1]
    BY <1>1
  <2> HIDE DEF left, c
  <2>2. \A k \in 1 .. Len(left) : k = 1 \/ (k - 1 \in 1 .. Len(left) - 1 /\ (k - 1) + 1 = k)
    BY <2>1
  <2>3. \A k \in 1 .. Len(left) - 1 : k + 1 \in 1 .. Len(left)
    BY <2>1
  <2>4. c \in Range(left)
    BY <2>1 DEF Range
  <2>5. Range(Tail(left)) \subseteq Range(left)
    BY <2>1, <2>3 DEF Range
  <2>6. ASSUME NEW k \in 1 .. Len(left)
        PROVE  left[k] \in Range(Tail(left)) \cup {c}
    <3>1. CASE k = 1
      BY <2>1, <3>1
    <3>2. CASE k # 1
      <4>1. Tail(left)[k - 1] = left[k] /\ k - 1 \in DOMAIN Tail(left)
        BY <2>1, <2>2, <3>2
      <4> QED BY <4>1 DEF Range
    <3> QED BY <3>1, <3>2
  <2>7. Range(left) \subseteq Range(Tail(left)) \cup {c}
    BY <2>1, <2>6 DEF Range
  <2>8. c \in Clients
    BY <1>1, <2>1
  <2> QED BY <2>1, <2>4, <2>5, <2>7, <2>8
<1>3. Met(c)
  BY <1>1, <1>2 DEF Handed
<1>4. /\ DOMAIN closers' = DOMAIN closers
      /\ closers' \in Seq([left : Seq(Clients), back : Running])
      /\ \A k \in DOMAIN closers : /\ closers'[k].back = closers[k].back
                                   /\ k # n => closers'[k].left = closers[k].left
      /\ closers'[n].left = Tail(left)
  <2> DEFINE frame == [closers[n] EXCEPT !.left = Tail(left)]
  <2>1. frame \in [left : Seq(Clients), back : Running]
          /\ frame.left = Tail(left) /\ frame.back = closers[n].back
    BY <1>0, <1>2
  <2>2. closers' = [closers EXCEPT ![n] = frame]
    BY <1>1
  <2> HIDE DEF frame, left, n
  <2>3. closers' \in Seq([left : Seq(Clients), back : Running])
    BY <1>0, <2>1, <2>2 DEF ServerShape
  <2>4. /\ DOMAIN closers' = DOMAIN closers /\ closers'[n] = frame
        /\ \A k \in DOMAIN closers : k # n => closers'[k] = closers[k]
    BY <1>0, <2>2
  <2> QED BY <2>1, <2>3, <2>4
<1> HIDE DEF left, c, n
<1>5. stage' \in [Clients -> Live \cup {"away", "waiting", "closed"}]
        /\ sockets' \subseteq sockets /\ c \notin sockets'
        /\ (\A d \in Clients : d # c => stage'[d] = stage[d]) /\ stage'[c] = "closed"
  BY <1>1, <1>2 DEF Finalize, ServerShape, Apart, Live
<1>6. \A d \in Clients : Met(d) => Met(d)'
  BY <1>5 DEF Met
<1>7. running' \in Running /\ (running # Nobody => Met(running.who))'
  BY <1>1, <1>2, <1>3, <1>6 DEF Finalize, Running, Met, Nobody
<1>8. ServerShape'
  BY <1>1, <1>4, <1>5, <1>7 DEF ServerShape, Running
<1>9. Apart'
  <2>1. Range(backlog) \subseteq Clients /\ c \notin Range(backlog)
    BY <1>3 DEF Apart, Met, ServerShape, Range
  <2>2. \A d \in sockets' : stage'[d] \in Live
    BY <1>5 DEF Apart, ServerShape
  <2>3. \A d \in Range(backlog) : stage'[d] = "waiting"
    BY <1>5, <2>1 DEF Apart
  <2>4. \A d \in Range(connections) : Met(d)'
    BY <1>6 DEF Apart, Met
  <2>5. connections' = connections /\ backlog' = backlog
    BY <1>1
  <2> QED BY <2>2, <2>3, <2>4, <2>5 DEF Apart
<1>10. Handed'
  <2> SUFFICES ASSUME NEW k \in DOMAIN closers
               PROVE  /\ \A d \in Range(closers'[k].left) : Met(d)'
                      /\ closers'[k].back # Nobody =>
                            closers'[k].back.who \in Clients
                              /\ stage'[closers'[k].back.who] \notin {"away", "waiting"}
    BY <1>4, <1>7 DEF Handed, Met, Nobody
  <2>1. Range(closers'[k].left) \subseteq Range(closers[k].left)
    BY <1>2, <1>4 DEF left
  <2> QED BY <1>4, <1>6, <2>1 DEF Handed, Met
<1>11. Closing'
  <2> SUFFICES ASSUME NEW k \in DOMAIN closers
               PROVE  io_socket' = "none" /\ sockets' \subseteq Range(closers'[k].left)
    BY <1>4 DEF Closing
  <2>1. sockets \subseteq Range(closers[k].left) /\ io_socket = "none"
    BY DEF Closing
  <2>2. CASE k = n
    BY <1>1, <1>2, <1>4, <1>5, <2>1, <2>2 DEF left
  <2>3. CASE k # n
    BY <1>1, <1>4, <1>5, <2>1, <2>3
  <2> QED BY <2>2, <2>3
<1>12. Walking' /\ SlotsAccounted'
  BY <1>1, <1>5 DEF Walking, SlotsAccounted
<1> QED BY <1>8, <1>9, <1>10, <1>11, <1>12

LEMMA CloseReturnsKeeps ==
  ASSUME ServerInv, CloseReturns
  PROVE  ServerInv'
<1> USE DEF ServerInv
<1> DEFINE n == Len(closers)
<1>1. /\ n \in DOMAIN closers /\ closers[n].left = <<>>
      /\ connections' = <<>> /\ stopped' = TRUE /\ running' = closers[n].back
      /\ closers' = SubSeq(closers, 1, n - 1)
      /\ UNCHANGED <<server, io_socket, backlog, stage, sockets, visiting, index>>
  BY DEF CloseReturns, ServerShape, Last, Front
<1>2. /\ closers' \in Seq([left : Seq(Clients), back : Running])
      /\ \A k \in DOMAIN closers' : k \in DOMAIN closers /\ closers'[k] = closers[k]
      /\ closers[n].back \in Running
  <2> DEFINE Frame == [left : Seq(Clients), back : Running]
  <2>1. closers \in Seq(Frame) /\ n \in Nat \ {0} /\ DOMAIN closers = 1 .. n
    BY <1>1 DEF ServerShape
  <2> HIDE DEF Frame
  <2>2. closers[n] \in Frame
    BY <1>1, <2>1
  <2>4. closers[n].back \in Running
    BY <2>2 DEF Frame
  <2> HIDE DEF n
  <2>3. SubSeq(closers, 1, n - 1) \in Seq(Frame)
          /\ DOMAIN SubSeq(closers, 1, n - 1) = 1 .. n - 1
          /\ \A k \in 1 .. n - 1 : SubSeq(closers, 1, n - 1)[k] = closers[k]
    BY <2>1 DEF n
  <2> QED BY <1>1, <2>1, <2>3, <2>4 DEF Frame
<1> HIDE DEF n
<1>3. io_socket = "none" /\ sockets = {} /\ Range(<<>>) = {} /\ IsInjective(<<>>)
  BY <1>1 DEF Closing, Range, IsInjective
<1>4. running' \in Running
  BY <1>1, <1>2
<1>5. ServerShape'
  BY <1>1, <1>2, <1>4 DEF ServerShape, Running
<1>6. Apart'
  BY <1>1, <1>3 DEF Apart, Met
<1>7. Handed' /\ Closing'
  BY <1>1, <1>2 DEF Handed, Closing, Met, Nobody
<1>8. Walking'
  BY <1>1 DEF Walking
<1>9. SlotsAccounted'
  <2>1. Len(connections') = 0 /\ server.slots \in Nat
    BY <1>1, ServerAssumption DEF ServerShape, ServerType
  <2> QED BY <1>1, <1>3, <2>1 DEF SlotsAccounted
<1> QED BY <1>5, <1>6, <1>7, <1>8, <1>9

LEMMA CallbackRaisesKeeps ==
  ASSUME ServerInv, CallbackRaises
  PROVE  ServerInv'
<1> USE DEF ServerInv
<1> DEFINE outermost == IF closers = <<>> THEN running ELSE Head(closers).back
<1>1. /\ UNCHANGED <<server, io_socket, stopped, connections, backlog>>
      /\ closers' = <<>> /\ running # Nobody
      /\ \/ outermost.what = "on_connection" /\ Finalize(outermost.who)
              /\ UNCHANGED <<visiting, index>>
         \/ visiting' = "no" /\ index' = 0 /\ running' = Nobody /\ UNCHANGED <<stage, sockets>>
  BY DEF CallbackRaises
<1>2. outermost # Nobody => Met(outermost.who)
  <2>1. CASE closers = <<>>
    BY <2>1 DEF Handed
  <2>2. CASE closers # <<>>
    <3>1. 1 \in DOMAIN closers /\ Head(closers) = closers[1]
      BY <2>2 DEF ServerShape
    <3> QED BY <2>2, <3>1 DEF Handed
  <2> QED BY <2>1, <2>2
<1> HIDE DEF outermost
<1>3. Moves(running.who) \/ Moves(outermost.who)
  BY <1>1, <1>2 DEF Moves, Handed, Finalize, Nobody
<1>4. PICK c : Moves(c) /\ (running' = Nobody \/ running' = [who |-> c, what |-> "on_close"])
  BY <1>1, <1>2 DEF Moves, Handed, Finalize, Nobody
<1>5. Met(c)'
  BY <1>4 DEF Moves, Met, ServerShape, Live
<1>6. running' \in Running /\ (running # Nobody => Met(running.who))'
  BY <1>4, <1>5 DEF Running, Met, Nobody
<1>7. ServerShape' /\ Apart' /\ Handed' /\ Closing' /\ SlotsAccounted'
  BY <1>1, <1>4, <1>6, MovesKeep
<1>8. Walking'
  BY <1>1 DEF Walking
<1> QED BY <1>7, <1>8

\* An open socket of the server is always in one slot, and a closed server has none: a
\* close() from a callback, or a callback that raises, leaks nothing (server.py).
THEOREM SlotsAlwaysAccounted == ServerSpec => []SlotsAccounted
<1>1. ServerInit => ServerInv
  BY ServerInitInv
<1>2. ServerInv /\ [ServerNext]_serverVars => ServerInv'
  <2> SUFFICES ASSUME ServerInv, [ServerNext]_serverVars PROVE ServerInv'
    OBVIOUS
  <2>1. CASE AcceptPending
    BY <2>1, AcceptKeeps
  <2>2. CASE SessionStep
    BY <2>2, SessionKeeps, WalkKeeps DEF SessionStep
  <2>3. CASE LeaveSession \/ EndWalk
    BY <2>3, WalkKeeps
  <2>4. CASE CloseNext
    BY <2>4, CloseNextKeeps
  <2>5. CASE CloseReturns
    BY <2>5, CloseReturnsKeeps
  <2>6. CASE CallbackRaises
    BY <2>6, CallbackRaisesKeeps
  <2>7. CASE CloseServer
    BY <2>7, CloseServerKeeps
  <2>8. ASSUME NEW c \in Clients, Dials(c) PROVE ServerInv'
    BY <2>8, DialsKeeps
  <2>9. ASSUME NEW c \in Clients, SessionCloses(c) PROVE ServerInv'
    <3>1. Moves(c) /\ UNCHANGED <<stopped, closers, running, visiting, index>>
      BY <2>9 DEF SessionCloses, Moves, Met, Live
    <3>2. running' \in Running /\ (running # Nobody => Met(running.who))'
      BY <3>1 DEF ServerInv, ServerShape, Handed, Moves, Met, Live, Nobody, Running
    <3>3. ServerShape' /\ Apart' /\ Handed' /\ Closing' /\ SlotsAccounted'
      BY <3>1, <3>2, MovesKeep
    <3>4. Walking'
      BY <3>1 DEF ServerInv, Walking, Moves
    <3> QED BY <3>3, <3>4 DEF ServerInv
  <2>10. CASE CallbackReturns \/ BindFails \/ UNCHANGED serverVars
    <3>1. /\ UNCHANGED <<server, io_socket, stopped, connections, backlog, stage, sockets,
                         visiting, index, closers>>
          /\ running' = running \/ running' = Nobody
      BY <2>10 DEF CallbackReturns, BindFails, serverVars
    <3>2. running' \in Running
      BY <3>1 DEF ServerInv, ServerShape, Running, Nobody
    <3>3. ServerShape' /\ Apart' /\ Closing' /\ SlotsAccounted' /\ Walking'
      BY <3>1, <3>2 DEF ServerInv, ServerShape, Apart, Closing, SlotsAccounted, Walking, Met,
         Running
    <3>4. Handed'
      BY <3>1 DEF ServerInv, Handed, Met, Nobody
    <3> QED BY <3>3, <3>4 DEF ServerInv
  <2> QED
    BY <2>1, <2>2, <2>3, <2>4, <2>5, <2>6, <2>7, <2>8, <2>9, <2>10 DEF ServerNext, ServerStep
<1>3. ServerInv => SlotsAccounted
  BY DEF ServerInv
<1> QED BY <1>1, <1>2, <1>3, PTL DEF ServerSpec
=============================================================================
