------------------------------ MODULE MCServices ------------------------------
(* The services an application puts on the loop, each with the world it serves: *)
(* Wi-Fi and its radio, NTP and its network, knobs and the hand that turns them, *)
(* the codec and what becomes of its bytes, the WebSocket server and those who   *)
(* dial it.  In a behaviour one of them is at work.                              *)
EXTENDS WifiService, NtpClient, Knobs, Msgpack, WebSocketServer

--------------------------------------------------------------------------------
NtpSetup(factory, queries, kinds, errors, closes, times) ==
    [factory |-> factory, queries |-> queries, kinds |-> kinds, errors |-> errors,
     closes |-> closes, times |-> times]

NoQueries == NtpSetup(TRUE, 0, {}, FALSE, FALSE, {})
Closing   == NtpSetup(TRUE, 2, {"reply"}, FALSE, TRUE, {4})

\* Empty datagrams; short ones, socket errors and the last second of an era; answers
\* that refuse, and times on both sides of the era's end; a close in flight.
AllNtpSetups ==
    { NoQueries, Closing,
      NtpSetup(TRUE, 2, {"reply", "empty"}, FALSE, FALSE, {2}),
      NtpSetup(FALSE, 2, {"reply", "short"}, TRUE, FALSE, {0, 3}),
      NtpSetup(FALSE, 1, {"reply", "kiss", "mode"}, FALSE, FALSE, {3, 4, 7}) }
ClosingOnly == {NoQueries, Closing}

--------------------------------------------------------------------------------
EncoderSetup(detent, bounded, low, high, wrap, turns) ==
    [detent |-> detent, bounded |-> bounded, low |-> low, high |-> high, wrap |-> wrap, turns |-> turns,
     steps |-> 1, deadband |-> 0, wiper |-> {0}, moves |-> 0, noise |-> 0, wild |-> {}]
AnalogSetup(steps, deadband, at, moves, noise, wild) ==
    [detent |-> 1, bounded |-> FALSE, low |-> 0, high |-> 0, wrap |-> FALSE, turns |-> 0,
     steps |-> steps, deadband |-> deadband, wiper |-> at, moves |-> moves, noise |-> noise, wild |-> wild]

NoKnob == AnalogSetup(1, 0, {0}, 0, 0, {})

\* Each detent size, unbounded, clamped and wrapped; a wiper that moves, one with
\* noise and wild readings, one that does both.
AllKnobSetups ==
    { NoKnob,
      EncoderSetup(2, FALSE, 0, 0, FALSE, 9), EncoderSetup(2, TRUE, 1, 3, FALSE, 9),
      EncoderSetup(1, TRUE, -1, 1, TRUE, 8), EncoderSetup(4, TRUE, 0, 1, TRUE, 9),
      AnalogSetup(4, 3, {0, 7, 15}, 2, 0, {}), AnalogSetup(4, 3, {0, 6}, 0, 1, {15}),
      AnalogSetup(4, 2, {0, 5, 15}, 1, 1, {}) }
OneKnob == {NoKnob}

--------------------------------------------------------------------------------
Number32(n) == Val("int", n)
Text(n) == Val("str", [i \in 1 .. n |-> 97])
Blob16(n) == Val("bin", [i \in 1 .. n |-> 222])
List(items) == Val("array", items)
Dict(pairs) == Val("map", pairs)
Repeated(n, v) == [i \in 1 .. n |-> v]

RECURSIVE Nested(_, _)
Nested(n, v) == IF n = 0 THEN v ELSE List(<<Nested(n - 1, v)>>)

\* Every width at both of its ends, every kind, and nesting up to the limit.
WidthEnds == {0, 127, 128, 255, 256, 65535, 65536, 2147483647,
              -1, -32, -33, -128, -129, -32768, -32769, -2147483647}
AllPackedValues ==
    {Number32(n) : n \in WidthEnds}
    \cup {Text(n) : n \in {0, 31, 32, 255, 256}} \cup {Blob16(n) : n \in {0, 255, 256}}
    \cup {Nil, Val("bool", TRUE), Val("float", [single |-> <<63, 128, 0, 1>>, exact |-> FALSE])}
    \cup {List(Repeated(n, Number32(1))) : n \in {0, 15, 16}}
    \cup {Dict([i \in 1 .. n |-> <<Number32(i + 120), Nil>>]) : n \in {0, 15, 16}}
    \cup {Nested(n, v) : n \in {2, 3, 4}, v \in {Nil, Number32(300), List(<<>>)}}
    \cup {Dict(<< <<Text(1), List(<<Number32(1), Blob16(2)>>)>>,
                  <<Number32(0), Dict(<< <<Val("bool", TRUE), Nil>> >>)>>,
                  <<Number32(1), Number32(-5)>> >>),
          Dict(<< <<List(<<Number32(1)>>), Nil>> >>)}
NilOnly == {Nil}

--------------------------------------------------------------------------------
ServerSetup(lazy, slots, errors, raises, closing) ==
    [lazy |-> lazy, slots |-> slots, errors |-> errors, raises |-> raises, closes |-> closing]

NoServer == ServerSetup(TRUE, 0, 0, 0, 0)

\* A listener made on the first tick that fails, and one that was given, closed again
\* from a callback of its own closing.
AllServers == {NoServer, ServerSetup(TRUE, 1, 1, 1, 1), ServerSetup(FALSE, 2, 0, 1, 2)}
NoServers == {NoServer}

--------------------------------------------------------------------------------
VARIABLE side    \* which service is at work

wifiVars == vars
ServicesVars == <<side, wifiVars, nvars, kvars, packed, serverVars>>
Sides == {"wifi", "ntp", "knobs", "codec", "server"}

\* A service that rests is in one of its initial states.
ServicesInit ==
    /\ side \in Sides
    /\ PackInit /\ (side # "codec" => packed.value = Nil)
    /\ ServerInit /\ (side = "server" <=> server # NoServer)
    /\ KnobsInit /\ (side = "knobs" <=> kset # NoKnob)
    /\ NtpInit /\ (side = "ntp" <=> nset # NoQueries)
    /\ Init /\ (side # "wifi" => ~blocking /\ reconnectMax # NoLimit /\ apUp /\ link = "down")

\* The queries are made, the bytes are read, nobody needs the server.
Over ==
    /\ \/ side = "ntp" /\ result.id = nset.queries /\ ~Flying
       \/ side = "codec" /\ packed.done # "kept"
       \/ side = "server" /\ Resting
    /\ UNCHANGED ServicesVars

ServicesNext ==
    \/ side = "wifi" /\ Next /\ UNCHANGED <<side, nvars, kvars, packed, serverVars>>
    \/ side = "ntp" /\ NtpNext /\ UNCHANGED <<side, wifiVars, kvars, packed, serverVars>>
    \/ side = "knobs" /\ KnobsNext /\ UNCHANGED <<side, wifiVars, nvars, packed, serverVars>>
    \/ side = "codec" /\ PackNext /\ UNCHANGED <<side, wifiVars, nvars, kvars, serverVars>>
    \/ side = "server" /\ ServerNext /\ UNCHANGED <<side, wifiVars, nvars, kvars, packed>>
    \/ Over

\* The fairness each service's module states, for the one at work.
WifiFairness ==
    LET Act(A) == side = "wifi" /\ A /\ UNCHANGED config
    IN  /\ WF_wifiVars(Act(Check)) /\ WF_wifiVars(Act(Handle))
        /\ SF_wifiVars(Act(Clock)) /\ WF_wifiVars(Act(LinkLost))
        /\ SF_wifiVars(Act(AlreadyLinked \/ DispatchJoin \/ BeginBlockingConnect))

ServicesFairness ==
    /\ WifiFairness
    /\ WF_nvars(HandleNtp) /\ WF_nvars(TimeGoesBy)
    /\ WF_kvars(side = "knobs" /\ KnobsPass)
    /\ WF_serverVars(side = "server" /\ ServerStep)
    /\ \A c \in Clients : SF_serverVars(SessionEnds(c))

ServicesSpec == ServicesInit /\ [][ServicesNext]_ServicesVars /\ ServicesFairness

\* Whoever waits is seen to: a query ends, in its answer, an error or the timeout; a
\* wiper at an end of its sweep is read as the first or the last step; and who dials
\* the server is taken up, and let go, unless a callback of the application's holds
\* it all up.
EveryoneIsSeenTo == QueriesEnd /\ EndsReached /\ EveryoneServed
================================================================================
