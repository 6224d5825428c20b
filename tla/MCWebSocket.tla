----------------------------- MODULE MCWebSocket -----------------------------
(***************************************************************************)
(* Instances for TLC of WebSocketSystem, sessions with whole frames and     *)
(* what their peers do, and of WebSocketWire, the bytes of a session.  One   *)
(* run checks both: it follows a session (talk = Silent) or a stream.       *)
(***************************************************************************)
EXTENDS WebSocketSystem, WebSocketWire

Quiet == [role |-> "client", userCap |-> 1, headroom |-> 2, pings |-> FALSE,
          pongs |-> FALSE, policy |-> "drop_with_event", ops |-> {}, sends |-> 0,
          closings |-> 0, blocks |-> 0, streams |-> FALSE, kinds |-> {}, sizes |-> {},
          frames |-> 0, tier3 |-> FALSE, faults |-> {}]

\* Fragmented messages of every size, in and out of place.
Messages(frames) == [Quiet EXCEPT !.kinds = {"text", "cont", "bad_text"}, !.sizes = {0, 1, 3},
                                  !.frames = frames]

\* Keepalive and a full queue, with a server that may go silent.
Alive == [Quiet EXCEPT !.pings = TRUE, !.pongs = TRUE, !.sends = 1, !.blocks = 1,
                       !.kinds = {"ping"}, !.frames = 2, !.closings = 1,
                       !.faults = {"hole"}]

\* Every end a session can come to, also from the callbacks.
Ends(role) == [Quiet EXCEPT !.role = role, !.sends = 1, !.closings = 2, !.blocks = 1,
                  !.kinds = {"text", "close"}, !.sizes = {1}, !.frames = 2,
                  !.ops = {"on_open", "on_connection", "on_message", "on_close"}
                              \X {"close", "shutdown", "raise"},
                  !.faults = {"fin", "reset"}]

\* Frames that break the protocol, and answers nobody asked for.
Strange(role) == [Ends(role) EXCEPT !.pongs = TRUE, !.blocks = 0, !.closings = 1,
                     !.kinds = {"ping", "pong", "close", "bad_mask", "bad_close", "garbage"},
                     !.ops = {"on_ping", "on_pong"} \X {"send", "ping", "close", "raise"},
                     !.faults = {}]

AllSetups ==
    {Quiet, Messages(3), [Messages(3) EXCEPT !.policy = "disconnect"],
     [Messages(3) EXCEPT !.streams = TRUE, !.sizes = {1}], Alive}
    \cup {Ends(r) : r \in Roles} \cup {Strange(r) : r \in Roles}
LargeFragments == {[Messages(2) EXCEPT !.tier3 = TRUE]}

-----------------------------------------------------------------------------
(* Streams *)

MCTalk(role, hello, good, says) ==
    [role |-> role, hello |-> hello, good |-> good, says |-> says]
Silent == MCTalk("client", <<>>, FALSE, <<>>)
NoTalks == {Silent}

MCKeys == {<<>>, <<1, 2, 3, 0>>}
Digits(n) == [k \in 1..n |-> (k * 3 + k \div 4) % 4]
FrameOf(op, payload, key) ==
    [op |-> op, fin |-> TRUE, rsv |-> 0, key |-> key, payload |-> payload, means |-> <<>>]
SaysClose(payload, means, key) == [FrameOf(CloseOp, payload, key) EXCEPT !.means = means]

\* Lengths at every boundary: none, the longest short one, the first of two
\* bytes, the cap, above it, the first of eight bytes.
Sized(key) == {FrameOf(Text, Digits(n), key) : n \in {0, 1, 3, 4, 6, 7, 16}}
Fragments(key) == {[FrameOf(op, <<3>>, key) EXCEPT !.fin = FALSE] : op \in {Binary, Continuation}}
Controls(key) ==
    {FrameOf(Ping, Digits(3), key), FrameOf(Pong, <<>>, key), SaysClose(ClosePayload(NoCode, <<>>), <<NoCode, <<>>>>, key)}
    \cup {SaysClose(ClosePayload(c, r), <<c, r>>, key) : c \in {4, 9}, r \in {<<>>, <<1>>}}
Broken(key) ==
    {[FrameOf(Binary, <<1>>, key) EXCEPT !.rsv = 2], FrameOf(3, <<1>>, key), FrameOf(Ping, Digits(4), key),
     [FrameOf(Ping, <<>>, key) EXCEPT !.fin = FALSE], SaysClose(<<1>>, Meaningless, key),
     SaysClose(BigEndian(5, 2), Meaningless, key), SaysClose(BigEndian(4, 2) \o <<3>>, Meaningless, key)}
MCFrames(key) == Sized(key) \cup Fragments(key) \cup Controls(key) \cup Broken(key)

Hi(role) == IF role = "client" THEN ServerHandshake("nonce", <<>>) ELSE ClientHandshake(<<>>)
Upgrade == << <<"Upgrade", "websocket">>, <<"Connection", "upgrade">> >>

GoodTalks(role) ==
    UNION {{MCTalk(role, Hi(role), TRUE, <<f, FrameOf(Text, <<1, 3, 2>>, key)>>) : f \in MCFrames(key)} :
              key \in MCKeys}
CallersTalks ==
    {MCTalk("server", ClientHandshake(extra), TRUE, <<>>) :
        extra \in {<< <<"Upgrade", "h2c">> >>, << <<"Extra", "x">>, <<"Version", "8">> >>}}
    \cup {MCTalk("client", ServerHandshake("nonce", << <<"Accept", "other">> >>), TRUE, <<>>)}
BadTalks ==
    {MCTalk("client", hello, FALSE, <<>>) :
        hello \in {ServerHandshake("other", <<>>), Rejection(<<1, 2>>), Block("10x", <<>>),
                   Block("101", Upgrade), Block("101", Upgrade \o << <<"Connection", "close">> >>),
                   <<First("101")>> \o EndLine \o <<NoColon>> \o EndLine}}
    \cup {MCTalk("server", hello, FALSE, <<>>) :
        hello \in {Block(first, Upgrade \o << <<"Key", "nonce">>, <<"Version", "13">> >>) :
                       first \in {"GET /other", "POST /", "GET", "GET / HTTP/2"}}
                  \cup {Block("GET /", Upgrade \o keys) :
                       keys \in {<< <<"Key", "short">>, <<"Version", "13">> >>, << <<"Version", "13">> >>,
                                 << <<"Key", "nonce">>, <<"Version", "8">> >>}}
                  \cup {[k \in 1..(MaxHeader + 1) |-> NoColon]}}
AllTalks == NoTalks \cup GoodTalks("client") \cup GoodTalks("server") \cup CallersTalks \cup BadTalks

-----------------------------------------------------------------------------
AllVars == <<vars, wirevars>>
MCInit == SystemInit /\ WireInit /\ (talk # Silent => setup = Quiet)
\* Beside a stream, time passes for a session nobody started.
MCNext ==
    \/ talk = Silent /\ SystemNext /\ UNCHANGED wirevars
    \/ talk # Silent /\ WireNext /\ UNCHANGED vars
    \/ talk # Silent /\ Act(Tick) /\ UNCHANGED wirevars
MCSpec == MCInit /\ [][MCNext]_AllVars
MCFairSpec ==
    MCSpec /\ WF_vars(talk = Silent /\ Act(Handle)) /\ SF_vars(Act(Tick))
=============================================================================
