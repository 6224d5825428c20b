--------------------------- MODULE WebSocketSystem ---------------------------
(***************************************************************************)
(* WebSocket with its peer and the network between them.  The peer is      *)
(* external: it sends any frames of its setup, in any order, conforming to *)
(* the protocol or not, answers pings and CLOSE if it likes, and reads     *)
(* when it likes.  The network may end, break or silence the connection.   *)
(***************************************************************************)
EXTENDS WebSocket

VARIABLES
    greeted,  \* the peer sent its side of the opening handshake
    count,    \* bound: frames the peer sent on its own account
    drafted,  \* the message the peer is sending, as far as it got
    offered,  \* history: messages the peer completed and the session may deliver
    sawClose, \* the peer has read a CLOSE
    broken    \* bound: the network has done its harm

peer == <<greeted, count, drafted, offered, sawClose, broken>>
vars == <<wsvars, peer>>

Session == <<setup, life, timers, tx, inbox, flow, hist, closes, calls>>

SystemInit ==
    /\ Init
    /\ greeted = FALSE /\ count = 0 /\ drafted = Nothing /\ offered = <<>>
    /\ sawClose = FALSE /\ broken = FALSE

-----------------------------------------------------------------------------
(* The peer acts between two ticks: handle() reads before it writes        *)

Says(f) ==
    /\ pc = "idle" /\ link = "up" /\ Len(toUs) < Window
    /\ toUs' = Append(toUs, f)

\* A server answers the request it has read, a client begins.
PeerGreets(op) ==
    /\ Says([op |-> op]) /\ ~greeted
    /\ IF Client
       THEN toPeer # <<>> /\ Head(toPeer).op = "hello" /\ toPeer' = Tail(toPeer)
       ELSE UNCHANGED toPeer
    /\ greeted' = TRUE
    /\ UNCHANGED <<Session, link, count, drafted, offered, sawClose, broken>>

MaySay(kind) ==
    /\ greeted /\ kind \in setup.kinds
    /\ count < setup.frames /\ count' = count + 1

PeerControl(op) ==
    /\ op \in {"ping", "pong", "close", "bad_mask", "bad_close", "garbage"}
    /\ MaySay(op)
    /\ Says([op |-> op])
    /\ UNCHANGED <<Session, link, toPeer, greeted, drafted, offered, sawClose, broken>>

\* What a receiver without limits makes of the peer's data frames: a frame out
\* of place belongs to no message.
Drafting == drafted.first # 0
Draft(f) ==
    [drafted EXCEPT !.first = IF Drafting THEN @ ELSE f.n,
                    !.size = @ + f.size,
                    !.valid = @ /\ f.valid,
                    !.parts = IF f.size > 0 THEN Append(@, f.n) ELSE @]

PeerData(op, fin, size, valid) ==
    LET f == [op |-> op, n |-> count + 1, fin |-> fin, size |-> size, valid |-> valid]
        placed == (op = "cont") = Drafting
    IN
    /\ MaySay(op) /\ size \in setup.sizes
    /\ ~fin => "cont" \in setup.kinds
    /\ ~valid => size > 0 /\ "bad_text" \in setup.kinds
    /\ size > MaxMessage /\ ~setup.tier3 => op = "text" /\ fin
    /\ Says(f)
    /\ drafted' = IF ~placed THEN drafted ELSE IF fin THEN Nothing ELSE Draft(f)
    /\ offered' = IF placed /\ fin /\ Draft(f).valid /\ Draft(f).size <= MaxMessage
                  THEN Append(offered, Message(Draft(f))) ELSE offered
    /\ UNCHANGED <<Session, link, toPeer, greeted, sawClose, broken>>

\* The peer reads a frame; a PING and a CLOSE it answers.
PeerReads ==
    /\ pc = "idle" /\ link \in {"up", "none"}
    /\ toPeer # <<>> /\ (greeted \/ Head(toPeer).op # "hello")
    /\ toPeer' = Tail(toPeer)
    /\ sawClose' = (sawClose \/ Head(toPeer).op = "close")
    /\ \/ /\ Head(toPeer).op \in {"ping", "close"} /\ link = "up" /\ Len(toUs) < Window
          /\ toUs' = Append(toUs, IF Head(toPeer).op = "ping" THEN PongFrame ELSE CloseFrame)
       \/ UNCHANGED toUs
    /\ UNCHANGED <<Session, link, greeted, count, drafted, offered, broken>>

\* The connection ends (fin), breaks (reset) or goes silent (hole).
Break(how) ==
    /\ pc = "idle" /\ link = "up" /\ how \in setup.faults /\ ~broken
    /\ broken' = TRUE
    /\ link' = how
    /\ toPeer' = <<>>
    /\ toUs' = IF how = "fin" THEN toUs ELSE <<>>
    /\ UNCHANGED <<Session, greeted, count, drafted, offered, sawClose>>

Peer ==
    \/ \E op \in {"hello", "bad_hello"} : PeerGreets(op)
    \/ \E op \in setup.kinds : PeerControl(op)
    \/ \E op \in DataOps, fin, valid \in BOOLEAN, size \in setup.sizes :
          PeerData(op, fin, size, valid)
    \/ PeerReads
    \/ \E how \in setup.faults : Break(how)

Act(A) == A /\ UNCHANGED peer
SystemNext == Act(SessionNext) \/ Peer

Spec == SystemInit /\ [][SystemNext]_vars

\* The runner keeps calling handle() and time passes; a tick that could read or
\* send does so in the end.  A connector need not ever come to a result.
FairSpec == Spec /\ WF_vars(Act(Handle)) /\ SF_vars(Act(Tick))

-----------------------------------------------------------------------------
(* Properties                                                              *)

HasClose(q) == \E k \in DOMAIN q : q[k].op = "close"

\* "a CLOSE always fits" (guide.md): a session that is closing over a live
\* connection has its CLOSE queued, half sent, on the wire or with the peer.
CloseAlwaysFits ==
    state = "closing" /\ link = "up" =>
        sawClose \/ HasClose(toPeer) \/ HasClose(partial) \/ HasClose(txq)

\* One CLOSE ends what a session sends: nothing but answers to pings follows it
\* and no second one (RFC 6455 5.5.1, _send_close).
Outbound == toPeer \o partial \o txq
CloseIsLast ==
    \A k \in DOMAIN Outbound :
        sawClose \/ (\E j \in 1..(k - 1) : Outbound[j].op = "close") => Outbound[k].op = "pong"

\* A closed session holds nothing: no socket or connector open, no timer armed.
ClosedHoldsNothing ==
    state = "closed" =>
        sock # "open" /\ ~connector /\ \A t \in {hsAt, closeAt, pongAt, pingAt} : t = Off

\* Every way to CLOSED is reported, but for a request the server turned down.
ClosingReported ==
    state = "closed" /\ pc = "idle" => closes > 0 \/ (~Client /\ phase = "reading")

\* Inbound messages, as the abstract stream.
Stream == INSTANCE MessageStream WITH excuse <- excused
StreamSpec == Stream!Spec

\* A tick that leaves the session open leaves no timer in the past, or
\* Runner.wait() would return at once (next_deadline).
NoBusyWait ==
    [][pc # "idle" /\ pc' = "idle" /\ state' = "open" /\ ~excused'
         => pingAt' # 0 /\ pongAt' # 0]_vars

\* Every wait of a session ends: a handshake and a closing have their deadlines,
\* a silent server is noticed by the pings (_check_timeouts, _arm_pong_deadline).
WaitsEnd ==
    /\ hsAt # Off ~> state # "connecting"
    /\ state = "closing" ~> state = "closed"
    /\ (state = "open" /\ link = "hole" /\ Client /\ setup.pings /\ setup.pongs) ~> state # "open"

-----------------------------------------------------------------------------
(* Statements of the documentation that the code does not keep             *)

\* "Inbound messages larger than this trigger `WhenOversized` policy" (guide.md,
\* max_message_bytes): the application is given whole messages within the limit.
OversizedDropped ==
    \A k \in DOMAIN received : \E j \in DOMAIN offered : offered[j] = received[k]

\* "The connection has reached CLOSED" (guide.md) is told once.
OnCloseOnce == closes <= 1

\* "Flush the CLOSE frame so the peer sees our reply before we drop TCP"
\* (_session.py:657): a live connection is not dropped with the CLOSE unsent.
ReplyFlushed ==
    [][state = "closing" /\ state' = "closed" /\ link = "up"
         => ~HasClose(partial) /\ ~HasClose(txq)]_vars

\* wait() sleeps while the closing handshake is under way, too.
ClosingSleeps ==
    [][pc # "idle" /\ pc' = "idle" /\ state' = "closing" /\ ~excused' => pingAt' # 0]_vars

\* The deadline for a PONG runs only after a PING was queued ("Deadline in ms
\* for a PONG after a PING", client.py:122).
PongAfterPing ==
    [][pc = "autoping" /\ pongAt = Off /\ pongAt' # Off => txq' # txq]_vars
=============================================================================
