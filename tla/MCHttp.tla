--------------------------------- MODULE MCHttp --------------------------------
(* The HTTP client and the HTTP server side by side, each with its peers: the  *)
(* replies and requests they may meet and the ways they are set up.  In a case  *)
(* one of the two is at work and the other has nothing to do.                   *)
EXTENDS HttpClient, HttpServer, TLC

Reply(name, bytes, code, body, framing) ==
    [name |-> name, bytes |-> bytes, code |-> code, body |-> body, size |-> Len(body),
     framing |-> framing, well |-> TRUE, long |-> FALSE]

Section(status, headers) == Line(status) \o headers \o CrLf

MCReplies ==
    { Reply("length", Section("s200", Line("len2")) \o <<"b1", "b2">>, 200, <<"b1", "b2">>, "length"),
      Reply("interim", Section("s100", <<>>) \o Section("s200", Line("len1")) \o <<"b1", "b2">>,
            200, <<"b1">>, "length"),
      Reply("chunked", Section("s200", Line("chunked")) \o Line("c2") \o <<"b1", "b2">> \o CrLf
                         \o Line("c1") \o <<"b3">> \o CrLf \o Line("c0") \o Line("other") \o CrLf,
            200, <<"b1", "b2", "b3">>, "chunked"),
      Reply("toClose", Section("s200", <<>>) \o <<"b1", "b2", "b3">>, 200, <<"b1", "b2", "b3">>, "close"),
      Reply("noBody", Section("s204", <<>>), 204, <<>>, "length"),
      Reply("see", Section("s302", Line("loc") \o Line("len1")) \o <<"r1">>, 302, <<"r1">>, "length"),
      Reply("again", Section("s307", Line("loc") \o Line("len1")) \o <<"r1">>, 307, <<"r1">>, "length"),
      Reply("lost", Section("s302", Line("locBad")), 302, <<>>, "close"),
      [Reply("twice", Section("s200", Line("len1") \o Line("len1")) \o <<"b1">>, 200, <<"b1">>, "length")
         EXCEPT !.well = FALSE],
      [Reply("junk", Section("other", <<>>), 200, <<>>, "length") EXCEPT !.well = FALSE],
      [Reply("badChunk", Section("s200", Line("chunked")) \o Line("c1") \o <<"b1", "b2">>,
             200, <<"b1">>, "chunked") EXCEPT !.well = FALSE],
      [Reply("huge", Section("s200", Line("len9")) \o <<"b1">>, 200, <<"b1">>, "length")
         EXCEPT !.size = 9],
      [Reply("hugeChunk", Section("s200", Line("chunked")) \o Line("c1") \o <<"b1">> \o CrLf
                            \o Line("c9") \o <<"b2">>, 200, <<"b1", "b2">>, "chunked")
         EXCEPT !.size = 10],
      [Reply("long", Line("s200") \o [n \in 1..12 |-> "other"], 200, <<>>, "length")
         EXCEPT !.well = FALSE, !.long = TRUE] }

AllReplies == {r.name : r \in MCReplies}

Setup(rt, tls, policy, drive, read, redirects, requests, replies) ==
    [rt |-> rt, tls |-> tls, policy |-> policy, drive |-> drive, read |-> read,
     redirects |-> redirects, requests |-> requests, replies |-> replies]

NoRequests == Setup("cpython", FALSE, "silent", "service", 0, 0, 0, {})

MCClientSetups ==
    { Setup("cpython", TRUE, "event", "service", 0, 2, 1, {"length", "see"}),
      Setup("circuitpython", TRUE, "event", "service", 0, 1, 1, AllReplies),
      Setup("circuitpython", FALSE, "silent", "service", 2, 1, 1, 
            {"length", "interim", "chunked", "toClose", "see", "badChunk", "huge"}),
      Setup("circuitpython", FALSE, "silent", "service", 1, 0, 2, {"length"}),
      Setup("micropython", TRUE, "disconnect", "fetch", 0, 1, 1, {"length", "see", "huge"}),
      Setup("micropython", FALSE, "disconnect", "stream", 1, 1, 1, {"chunked", "again", "junk"}),
      NoRequests }

--------------------------------------------------------------------------------
\* A request whose line is one symbol; `header` is the length of its header section.
Req(name, lines, body, ok, codes) ==
    [name |-> name, bytes |-> lines \o body, body |-> body, ok |-> ok, codes |-> codes,
     line |-> 1, header |-> Len(lines) - 3]

MCRequests ==
    { Req("plain", Line("route") \o CrLf, <<>>, TRUE, {}),
      Req("post", Line("pattern") \o Line("len2") \o CrLf, <<"b1", "b2">>, TRUE, {}),
      [Req("more", Line("route") \o Line("len1") \o CrLf, <<"b1">>, TRUE, {})
         EXCEPT !.bytes = @ \o <<"b2">>],
      Req("unknown", Line("path") \o CrLf, <<>>, TRUE, {}),
      Req("other", Line("method") \o CrLf, <<>>, TRUE, {}),
      Req("chunked", Line("route") \o Line("chunked") \o CrLf, <<>>, FALSE, {}),
      Req("junk", Line("len1"), <<>>, FALSE, {}),
      Req("huge", Line("route") \o Line("len9") \o CrLf, <<"b1">>, FALSE, {413}),
      [Req("longLine", <<"route", "route", "route">> \o CrLf, <<>>, FALSE, {414}) EXCEPT !.line = 3],
      Req("longHead", Line("route") \o Line("other") \o Line("other") \o Line("other") \o CrLf, <<>>, FALSE, {431}) }
AllRequests == {r.name : r \in MCRequests}

Answer(name, kind, code, body) ==
    [name |-> name, kind |-> kind, code |-> code, body |-> body, declared |-> -1, src |-> <<>>]
Fill(bytes) == [is |-> "fill", bytes |-> bytes]
Poll(is) == [is |-> is, bytes |-> <<>>]
Streams(name, declared, src, body) ==
    [name |-> name, kind |-> "stream", code |-> 200, body |-> body, declared |-> declared, src |-> src]

MCAnswers ==
    { Answer("ok", "plain", 200, <<"a1", "a2">>),
      Answer("fault", "fault", 500, <<>>),
      Answer("shut", "shut", 0, <<>>),
      Streams("chunks", -1, <<Fill(<<"a1", "a2">>), Poll("dry"), Fill(<<"a3">>), Poll("eof")>>, <<"a1", "a2", "a3">>),
      Streams("cut", -1, <<Fill(<<"a1">>), Poll("raise")>>, <<"a1">>),
      Streams("sized", 3, <<Fill(<<"a1", "a2">>), Fill(<<"a3">>), Poll("eof")>>, <<"a1", "a2", "a3">>),
      Streams("over", 2, <<Fill(<<"a1">>), Fill(<<"a2", "a3">>), Poll("eof")>>, <<"a1", "a2">>),
      Streams("under", 2, <<Fill(<<"a1">>), Poll("eof")>>, <<"a1">>),
      Streams("wide", -1, <<Fill(<<"a1", "a2", "a3">>), Poll("eof")>>, <<>>) }
AllAnswers == {a.name : a \in MCAnswers}

ServerSetup(clients, slots, requests, answers, buffer, rooms, arrivals, tls, fallback, shutdown) ==
    [clients |-> clients, slots |-> slots, requests |-> requests, answers |-> answers, buffer |-> buffer,
     rooms |-> rooms, arrivals |-> arrivals, tls |-> tls, fallback |-> fallback, shutdown |-> shutdown]

NoClients == ServerSetup(0, 1, {}, {}, 7, {}, {}, FALSE, FALSE, FALSE)

MCServerSetups ==
    { NoClients,
      ServerSetup(1, 1, AllRequests, {"ok", "fault"}, 7, {3, 40}, {1, 4, 40}, TRUE, FALSE, FALSE),
      ServerSetup(1, 1, {"post"}, AllAnswers, 7, {0, 1, 9, 40}, {40}, FALSE, FALSE, FALSE),
      ServerSetup(2, 2, {"plain"}, {"ok", "chunks"}, 5, {40}, {4, 40}, FALSE, FALSE, TRUE),
      ServerSetup(2, 1, {"plain", "unknown"}, {"ok", "shut", "sized"}, 7, {9, 40}, {40}, FALSE, TRUE, FALSE) }

--------------------------------------------------------------------------------
HttpVars == <<cset, world, task, clock, sset, server>>
HttpInit == ClientInit /\ ServerInit /\ (cset.requests > 0 <=> sset.clients = 0)
HttpNext ==
    \/ cset.requests > 0 /\ ClientNext /\ UNCHANGED svars
    \/ sset.clients > 0 /\ ServerNext /\ UNCHANGED cvars

\* The runner ticks a busy client, resumes a suspended generator and calls the
\* server's handle() in every tick; time passes.
HttpFairness ==
    /\ WF_cvars(Tick) /\ WF_cvars(GenResume) /\ WF_cvars(ReaderResume)
    /\ WF_cvars(cset.requests > 0 /\ TimePasses)
    /\ WF_svars(sset.clients > 0 /\ HandleServer) /\ WF_svars(TimeRuns)

HttpSpec == HttpInit /\ [][HttpNext]_HttpVars /\ HttpFairness

\* Nothing is held or lost in either program, whatever failed, was cancelled,
\* redirected or shut, and in whatever step: the client has a connection exactly
\* while a request is open and tells of each end once, and the server's slots are
\* within the limit and are exactly the connections accepted and not yet ended
\* (HttpClient._reset_socket and _fire_completion, HttpServer.handle).
NothingHeld == NothingLeaks /\ SlotsKept

\* Every request ends, with a response or an error, and every accepted connection
\* is given up, however a peer stalls, dawdles or sends without end
\* (HttpClient.handle, _Connection.tick).
WorkEnds == RequestsEnd /\ ConnectionsEnd
================================================================================
