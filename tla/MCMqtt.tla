------------------------------- MODULE MCMqtt -------------------------------
(***************************************************************************)
(* Instances for TLC of MqttPace, a client with its broker and network,     *)
(* and of MqttWire, the bytes it receives.  One run checks both: it follows *)
(* a client (feed = NoFeed) or a stream.                                    *)
(***************************************************************************)
EXTENDS MqttPace, MqttWire

\* disconnect() from on_disconnect, which test_client_on_disconnect_link_loss.py
\* exercises for a poll error.
LeaveOnLoss == {<<"on_disconnect", "disconnect">>}

\* Publishing from on_connect and on_message, subscribing from on_connect, and
\* leaving or redialling from any callback, but for the call above.
ReentrantOps ==
    ({<<"on_connect", "publish">>, <<"on_message", "publish">>,
      <<"on_connect", "subscribe">>}
        \cup (Callbacks \X {"connect", "disconnect", "hold"})) \ LeaveOnLoss

\* A clean session, with keepalive and one send in two parts.
Clean == [userCap |-> 3, headroom |-> 2, keepAlive |-> TRUE, cleanSession |-> TRUE,
          hasFactory |-> TRUE, drops |-> TRUE, ops |-> {},
          controls |-> 1, partialSends |-> 1, rejections |-> 0, pushes |-> 1]

\* A session the broker keeps, and a broker that may refuse.
Persistent == [Clean EXCEPT !.keepAlive = FALSE, !.cleanSession = FALSE,
                            !.partialSends = 0, !.rejections = 1, !.pushes = 2]

\* A socket that was handed over and the smallest queue that holds what the
\* application has.
Tight == [Clean EXCEPT !.userCap = 2, !.headroom = 1, !.hasFactory = FALSE,
                       !.partialSends = 0, !.rejections = 1, !.pushes = 2]

\* A well-behaved network but for one fault at a time.
Plain == [Clean EXCEPT !.partialSends = 0, !.pushes = 0]

\* Calls from callbacks, and oversized messages that disconnect.
Reentrant == [Clean EXCEPT !.drops = FALSE, !.ops = ReentrantOps, !.controls = 2]

\* Its answers may take longer than the time between two pings, and its queue has
\* room for one packet beside the application's.
Patient == [Plain EXCEPT !.userCap = 2, !.headroom = 1, !.cleanSession = FALSE]

CleanSetups      == {Clean}
AllSetups        == {Clean, Persistent, Tight, Reentrant, Patient}
LiveSetups       == {[Plain EXCEPT !.rejections = 1, !.controls = 2]}
OfflineSetups    == {[Plain EXCEPT !.cleanSession = FALSE]}
LeaveSetups      == {[Plain EXCEPT !.pushes = 1, !.ops = LeaveOnLoss, !.controls = 2]}

-----------------------------------------------------------------------------
(* Streams *)

NoFeed == [bytes |-> <<>>, sent |-> <<>>, ends |-> <<>>]
NoFeeds == {NoFeed}

MCFilters == { <<Hash>>, <<Plus>>, <<<<1>>, Hash>>, <<<<1>>, Plus>>, <<Plus, <<2>>>>, <<<<1>>>>,
               <<Hash, <<1>>>>, <<<<1>>, <<2>>>>, <<<<2>>, Hash>> }

Junk(byte, body) == [is |-> "junk", byte |-> byte, body |-> body]
Endless(bytes) == [is |-> "endless", bytes |-> bytes]

Ones(n) == [k \in 1..n |-> 1]
Fitting ==
    {Published(<<1>>, <<>>, 0, 0), Published(<<1, 0, 2>>, <<5>>, 1, 9),
     Published(<<2, 0, 1>>, <<5, 6, 7>>, 0, 0), Published(<<1>>, <<5, 6, 7>>, 1, 9)}
TooLarge ==
    {Published(<<1>>, Ones(8), 0, 0), Published(<<1>>, Ones(14), 1, 9),
     Published(Ones(9), <<5>>, 1, 9), Published(Ones(8), Ones(2), 0, 0)}
\* With another packet before it, it fills the buffer before its topic is there.
LongTopic == {Published(Ones(5), Ones(5), 0, 0)}
Acks == {Ack(PubackType, 9, <<>>), Ack(PingrespType, 0, <<>>), Ack(ConnackType, 0, <<1, 0>>),
         Ack(SubackType, 3, <<1, 4>>)}
BadPackets ==
    {Junk(TypeByte(14, 0), <<>>), Junk(TypeByte(PublishType, 0), <<1>>),
     Junk(TypeByte(PublishType, 0), <<0, 3, 1>>), Junk(TypeByte(PublishType, 1), <<0, 1, 1, 0>>),
     Junk(TypeByte(ConnackType, 0), <<1>>), Junk(TypeByte(SubackType, 0), <<0, 3>>),
     Ack(SubackType, 257, Ones(BufferSize - 2)),
     Endless(<<TypeByte(PublishType, 0), 4, 4, 4, 4, 1>>)}

\* Nothing is dispatched after a packet that breaks the protocol.
MCFeed(sents) ==
    LET bad == SelectInSeq(sents, LAMBDA s : Arrives(s) = BadPacket)
        heard == IF bad = 0 THEN sents ELSE SubSeq(sents, 1, bad)
        bytes(k) == FlattenSeq([i \in 1..k |-> Encode(heard[i])])
    IN  [bytes |-> bytes(Len(heard)), sent |-> heard, ends |-> [k \in DOMAIN heard |-> Len(bytes(k))]]
AllFeeds ==
    NoFeeds \cup {MCFeed(s) : s \in (Fitting \cup Acks) \X (Fitting \cup TooLarge \cup LongTopic)
                                       \X (Fitting \cup Acks)}
            \cup {MCFeed(s) : s \in TooLarge \X (Acks \cup TooLarge)}
            \cup {MCFeed(s) : s \in Fitting \X BadPackets}
TopicFeeds == {MCFeed(s) : s \in Fitting \X LongTopic}

-----------------------------------------------------------------------------
\* The system of the patient client.
Slow == INSTANCE MqttSystem WITH AckTimeout <- 2, SendTimeout <- 2

AllVars == <<vars, tick, streamvars>>
MCInit == SystemInit /\ WireInit /\ tick = NoTick /\ (feed # NoFeed => setup = Clean)
\* Beside a stream, time passes for a client nobody connected.
MCNext ==
    \/ /\ feed = NoFeed
       /\ IF setup = Patient THEN Slow!SystemNext ELSE SystemNext
       /\ Noted
       /\ UNCHANGED streamvars
    \/ feed # NoFeed /\ WireNext /\ UNCHANGED <<vars, tick>>
    \/ feed # NoFeed /\ Tick /\ Peers /\ UNCHANGED <<setup, tick, streamvars>>
MCSpec == MCInit /\ [][MCNext]_AllVars
MCFairSpec == MCInit /\ [][PromptNext /\ UNCHANGED <<tick, streamvars>>]_AllVars /\ Fairness
=============================================================================
