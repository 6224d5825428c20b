------------------------------ MODULE HttpServer -------------------------------
(***************************************************************************)
(* HttpServer and its _Connections (chumicro_http_server/server.py), with   *)
(* streamed bodies (streaming.py), the application behind the routes and    *)
(* the clients in front.  One record holds what handle() works on:          *)
(*   x.conns  the connections in flight, oldest first                       *)
(*   x.up     the listener is open                                          *)
(*   x.cl     the clients: their bytes, and what became of them             *)
(*   x.room   bytes the socket at hand still takes in this tick             *)
(*   x.raised an exception has left handle() and ended its walk             *)
(***************************************************************************)
EXTENDS HttpRequest, FiniteSets

LOCAL INSTANCE SequencesExt

CONSTANTS
    ServerSetups,   \* how the server is built and called, a record per case
    Requests,       \* what a client may send
    Answers,        \* what the application's handlers do
    ServerRecv, ServerSend,      \* the per-tick budgets, in symbols
    RequestTimeout

ASSUME ServerBounds ==
    {ServerRecv, ServerSend, RequestTimeout} \subseteq Nat \ {0}

VARIABLES sset, server

svars == <<sset, server>>

NewClient == [st |-> "new", req |-> "none", todo |-> <<>>, wire |-> <<>>, half |-> FALSE,
              reset |-> FALSE, got |-> <<>>, calls |-> 0, seen |-> <<>>,
              code |-> 0, body |-> <<>>, ended |-> "no"]

ServerInit ==
    /\ sset \in ServerSetups
    /\ server = [conns |-> <<>>, up |-> FALSE, cl |-> [i \in 1..sset.clients |-> NewClient],
                 backlog |-> <<>>, room |-> 0, raised |-> FALSE]

NoStream == [src |-> <<>>, declared |-> 0, sent |-> 0, out |-> <<>>, eof |-> FALSE]
NewConnection(id) ==
    [id |-> id, s |-> "recv", left |-> RequestTimeout, parser |-> NewRequest,
     out |-> <<>>, streams |-> FALSE, stream |-> NoStream]

Min2(a, b) == IF a < b THEN a ELSE b
Peer(x, i) == x.cl[x.conns[i].id]
Gives(x, i, bytes) == [x EXCEPT !.cl[x.conns[i].id].got = @ \o bytes, !.room = @ - Len(bytes)]
FailConn(x, i) == [x EXCEPT !.conns[i].s = "error"]

--------------------------------------------------------------------------------
(* _Connection.tick, phase by phase. *)

\* _stage_response.
Stage(x, i, code, bytes) ==
    [x EXCEPT !.conns[i].out = bytes, !.conns[i].s = "send", !.cl[x.conns[i].id].code = code]

RECURSIVE RequestReceive(_, _, _)
RequestReceive(x, i, used) ==
    LET p == x.conns[i].parser
        got == Min2(ServerRecv - used, Len(Peer(x, i).wire))
        Fed(q) == RequestReceive([x EXCEPT !.conns[i].parser = q,
                                           !.cl[x.conns[i].id].wire = SubSeq(@, got + 1, Len(@))],
                                 i, used + got)
    IN  CASE used >= ServerRecv \/ ~Unparsed(p) -> x
          [] OTHER ->
               CASE got > 0 -> Once(FeedRequest(p, SubSeq(Peer(x, i).wire, 1, got)), Fed)
                 [] got = 0 /\ (Peer(x, i).half \/ Peer(x, i).reset) ->
                      [x EXCEPT !.conns[i].parser = Rejected(p, BadRequest)]
                 [] OTHER -> x

\* A limit is answered from the next tick on, anything else closes the connection.
DriveRequest(x, i) ==
    {LET p == y.conns[i].parser
     IN  CASE p.s = "done" -> [y EXCEPT !.conns[i].s = "dispatch"]
           [] p.s = "error" /\ p.err # BadRequest ->
                [Stage(y, i, p.err, ErrorPage(p.err)) EXCEPT !.conns[i].s = "refuse"]
           [] p.s = "error" /\ p.err = BadRequest -> FailConn(y, i)
           [] OTHER -> y : y \in {RequestReceive(x, i, 0)}}

\* _dispatch_request: the route table, then 405, the fallback, 404.
HandlerAnswers(line) ==
    CASE line \in {"route", "pattern"} -> {a \in Answers : a.name \in sset.answers}
      [] line = "method" -> {[kind |-> "page", code |-> 405]}
      [] line = "path" -> IF sset.fallback THEN {a \in Answers : a.name \in sset.answers}
                          ELSE {[kind |-> "page", code |-> 404]}

FillCapacity(declared) == IF declared < 0 THEN sset.buffer - 5 ELSE sset.buffer

\* HttpServer.close(): every socket and the listener, and those still queued for it.
CloseServer(x) ==
    [x EXCEPT !.conns = <<>>, !.up = FALSE, !.backlog = <<>>,
              !.cl = [i \in DOMAIN @ |->
                        IF @[i].st \in {"queued", "open"}
                          THEN [@[i] EXCEPT !.st = "closed", !.ended = "shut"] ELSE @[i]]]

\* _dispatch_handler: the parser is gone from here on, so a staging that raises
\* (a window too small for a chunk) leaves nothing to dispatch the next time.
Dispatch(x, i) ==
    LET c == x.conns[i]
        y == [x EXCEPT !.conns[i].parser = NoParser, !.cl[c.id].seen = c.parser.body,
                       !.cl[c.id].calls = @ + 1]
        Answered(a) ==
          CASE a.kind = "page" -> Stage(y, i, a.code, ErrorPage(a.code))
            [] a.kind = "plain" -> [Stage(y, i, a.code, Encoded(a.code, a.body))
                                      EXCEPT !.cl[c.id].body = a.body]
            [] a.kind = "fault" -> Stage(y, i, 500, ErrorPage(500))
            [] a.kind = "shut" -> [CloseServer(y) EXCEPT !.raised = TRUE]
            [] a.kind = "stream" /\ FillCapacity(a.declared) < 1 -> [y EXCEPT !.raised = TRUE]
            [] a.kind = "stream" /\ FillCapacity(a.declared) >= 1 ->
                  [Stage(y, i, a.code, StreamHead(a.code, a.declared))
                     EXCEPT !.conns[i].streams = TRUE, !.cl[c.id].body = a.body,
                            !.conns[i].stream = [NoStream EXCEPT !.src = a.src, !.declared = a.declared]]
    IN  IF c.parser = NoParser THEN {[x EXCEPT !.raised = TRUE]}
        ELSE {Answered(a) : a \in HandlerAnswers(c.parser.line)}

\* What the socket takes now; short of the budget it would block, or fails.
Blocked(x, i) == IF Peer(x, i).reset THEN FailConn(x, i) ELSE x

DriveResponse(x, i) ==
    LET c == x.conns[i]
        n == Min2(Min2(Len(c.out), ServerSend), x.room)
        y == [Gives(x, i, SubSeq(c.out, 1, n)) EXCEPT !.conns[i].out = SubSeq(@, n + 1, Len(@))]
    IN  CASE n = Len(c.out) -> {[y EXCEPT !.conns[i].s = IF c.streams THEN "body" ELSE "done"]}
          [] n < Len(c.out) /\ n = ServerSend -> {y}
          [] OTHER -> {Blocked(y, i)}

\* _StreamState.pull: one poll of the source, framed; a breach of the contract
\* or an exception ends the connection.
Pull(x, i) ==
    LET t == x.conns[i].stream
        item == Head(t.src)
        With(out, sent, eof) ==
          [x EXCEPT !.conns[i].stream =
             [@ EXCEPT !.src = Tail(@), !.out = out, !.sent = sent, !.eof = eof]]
        n == Len(item.bytes)
    IN  CASE item.is = "raise" -> FailConn(x, i)
          [] item.is = "dry" -> With(<<>>, t.sent, FALSE)
          [] item.is = "eof" ->
               IF t.declared < 0 THEN With(Terminator, t.sent, TRUE)
               ELSE IF t.sent = t.declared THEN With(<<>>, t.sent, TRUE) ELSE FailConn(x, i)
          [] item.is = "fill" ->
               CASE n > FillCapacity(t.declared) -> FailConn(x, i)
                 [] n <= FillCapacity(t.declared) /\ t.declared < 0 ->
                      With(Frame(item.bytes), t.sent + n, FALSE)
                 [] OTHER -> IF t.sent + n > t.declared THEN FailConn(x, i)
                             ELSE With(item.bytes, t.sent + n, FALSE)

\* drive_stream_body: send what is framed, then poll for more, up to the budget.
RECURSIVE DriveBody(_, _, _)
DriveBody(x, i, used) ==
    LET t == x.conns[i].stream
        n == Min2(Min2(Len(t.out), ServerSend - used), x.room)
        sent == [Gives(x, i, SubSeq(t.out, 1, n))
                   EXCEPT !.conns[i].stream.out = SubSeq(@, n + 1, Len(@))]
    IN  CASE used >= ServerSend \/ x.conns[i].s = "error" -> x
          [] OTHER ->
               CASE t.out # <<>> /\ n = 0 -> Blocked(x, i)
                 [] n > 0 -> Once(sent, LAMBDA y : DriveBody(y, i, used + n))
                 [] t.out = <<>> /\ t.eof -> [x EXCEPT !.conns[i].s = "done"]
                 [] t.out = <<>> /\ ~t.eof ->
                      IF Head(t.src).is = "dry" THEN Pull(x, i)
                      ELSE Once(Pull(x, i), LAMBDA y : DriveBody(y, i, used))

Phase(xs, i, st, Do(_, _)) ==
    UNION {IF ~x.raised /\ x.conns[i].s = st THEN Do(x, i) ELSE {x} : x \in xs}

\* Mutant: the deadline only guards the receiving.
StalledSendsStay(x, i) ==
    IF x.conns[i].left <= 0 /\ x.conns[i].s = "recv" THEN {FailConn(x, i)}
    ELSE Phase(Phase(Phase(Phase({x}, i, "recv", DriveRequest), i, "dispatch", Dispatch),
                     i, "send", DriveResponse),
               i, "body", LAMBDA y, j : {DriveBody(y, j, 0)})

TickConnection(x, i) ==
    IF x.conns[i].left <= 0 THEN {FailConn(x, i)}
    ELSE LET driven ==
               Phase(Phase(Phase(Phase({x}, i, "recv", DriveRequest), i, "dispatch", Dispatch),
                           i, "send", DriveResponse),
                     i, "body", LAMBDA y, j : {DriveBody(y, j, 0)})
         IN  {IF ~y.raised /\ y.conns[i].s = "refuse" THEN [y EXCEPT !.conns[i].s = "send"] ELSE y
                : y \in driven}

--------------------------------------------------------------------------------
(* HttpServer.handle. *)

\* Mutant: a failed connection keeps its slot.
ReapDone(x, i) ==
    IF x.conns[i].s # "done" THEN x
    ELSE [x EXCEPT !.cl[x.conns[i].id].st = "closed", !.cl[x.conns[i].id].ended = "done",
                   !.conns = SubSeq(@, 1, i - 1) \o SubSeq(@, i + 1, Len(@))]

\* A finished connection is closed and popped where it stands.
Reap(x, i) ==
    LET c == x.conns[i]
    IN  IF c.s \notin {"done", "error"} THEN x
        ELSE [x EXCEPT !.cl[c.id].st = "closed", !.cl[c.id].ended = c.s,
                       !.conns = SubSeq(@, 1, i - 1) \o SubSeq(@, i + 1, Len(@))]

\* The reverse walk.  How much each socket takes is the network's choice.
RECURSIVE Walk(_, _)
Walk(x, i) ==
    IF i = 0 \/ x.raised THEN {x}
    ELSE UNION {Walk(IF y.raised THEN y ELSE Reap(y, i), i - 1) :
                  y \in UNION {TickConnection([x EXCEPT !.room = r], i) : r \in sset.rooms}}

\* _try_accept: nothing queued, a client, or one whose TLS handshake failed.
Accepted(x) ==
    IF Len(x.conns) >= sset.slots \/ x.backlog = <<>> THEN {x}
    ELSE LET id == Head(x.backlog)
             y == [x EXCEPT !.backlog = Tail(@)]
         IN  {[y EXCEPT !.conns = Append(@, NewConnection(id)), !.cl[id].st = "open"]}
               \cup (IF sset.tls THEN {[y EXCEPT !.cl[id].st = "closed", !.cl[id].ended = "tls"]}
                                 ELSE {})

\* check() is always true; the listener opens on the first call, if it can.
HandleServer ==
    \/ /\ ~server.up /\ UNCHANGED svars
    \/ \E y \in UNION {Walk(z, Len(z.conns)) : z \in Accepted([server EXCEPT !.up = TRUE])} :
         /\ server' = [y EXCEPT !.room = 0, !.raised = FALSE]
         /\ UNCHANGED sset

\* The application closes the server; the runner's next tick opens it again.
Shutdown ==
    /\ sset.shutdown /\ server.up
    /\ server' = CloseServer(server)
    /\ UNCHANGED sset

--------------------------------------------------------------------------------
(* Clients and time. *)

ClientConnects ==
    \E i \in DOMAIN server.cl : \E r \in Requests :
      /\ server.up /\ server.cl[i].st = "new" /\ r.name \in sset.requests
      /\ \A j \in 1..i - 1 : server.cl[j].st # "new"
      /\ server' = [server EXCEPT !.backlog = Append(@, i), !.cl[i].st = "queued",
                                  !.cl[i].req = r.name, !.cl[i].todo = r.bytes]
      /\ UNCHANGED sset

RequestArrives ==
    \E i \in DOMAIN server.cl :
      LET c == server.cl[i] IN
      /\ c.st \in {"queued", "open"} /\ c.wire = <<>> /\ c.todo # <<>> /\ ~c.half /\ ~c.reset
      /\ \E n \in {Min2(m, Len(c.todo)) : m \in sset.arrivals} :
           server' = [server EXCEPT !.cl[i].wire = SubSeq(c.todo, 1, n),
                                    !.cl[i].todo = SubSeq(c.todo, n + 1, Len(c.todo))]
      /\ UNCHANGED sset

\* A client stops sending, or is gone altogether.
ClientLeaves ==
    \E i \in DOMAIN server.cl : \E how \in {"half", "reset"} :
      /\ server.cl[i].st \in {"queued", "open"} /\ ~server.cl[i].half /\ ~server.cl[i].reset
      /\ server' = [server EXCEPT !.cl[i][how] = TRUE]
      /\ UNCHANGED sset

\* `left` is what remains of a connection's deadline.
TimeRuns ==
    /\ \E i \in DOMAIN server.conns : server.conns[i].left > 0
    /\ server' = [server EXCEPT !.conns = [i \in DOMAIN @ |-> [@[i] EXCEPT !.left = IF @ > 0 THEN @ - 1 ELSE 0]]]
    /\ UNCHANGED sset

ServerNext ==
    \/ HandleServer \/ Shutdown
    \/ ClientConnects \/ RequestArrives \/ ClientLeaves \/ TimeRuns

--------------------------------------------------------------------------------
(* Properties. *)

RequestOf(c) == CHOOSE r \in Requests : r.name = c.req

\* What the repository's own client makes of what a client received to the end.
Decoded(c) ==
    FeedEof(FoldLeft(LAMBDA q, b : Feed(q, <<b>>), NewParser(FALSE), c.got))

\* Read back by this repository's own parser, an answer is either exactly what
\* the handler returned (the request's limit, when it broke one) or visibly
\* incomplete, and it is complete if the connection ended well.  A handler runs
\* once at most, for a well-formed request and with the very body of it; what
\* is malformed gets no byte.
AnswersFaithful ==
    \A i \in DOMAIN server.cl :
      LET c == server.cl[i]
          r == RequestOf(c)
          p == Decoded(c)
      IN  /\ c.st = "closed" =>
            /\ p.s = "done" =>
                 /\ c.code \in r.codes \/ (c.calls = 1 /\ r.ok)
                 /\ p.code = c.code
                 /\ StagedBody(p) = c.body \/ (p.code >= 400 /\ StagedBody(p) = <<"e">>)
            /\ c.ended = "done" => p.s = "done"
          /\ c.st # "new" =>
            /\ c.calls <= 1
            /\ c.calls = 1 => r.ok /\ c.seen = r.body
            /\ ~r.ok /\ r.codes = {} => c.got = <<>>

\* A request is turned down for the length of its line or of its header section
\* only when that is over the limit, however its bytes were cut into receives.
LimitsAsDeclared ==
    \A i \in DOMAIN server.cl :
      LET r == RequestOf(server.cl[i])
      IN  /\ server.cl[i].code = 414 => r.line > MaxLine
          /\ server.cl[i].code = 431 => r.header > MaxHeaders

\* Slots are never exceeded or leaked: an accepted client is closed, or held by
\* exactly one connection that is not finished, over a listener that is open.
SlotsKept ==
    /\ Len(server.conns) <= sset.slots
    /\ \A i \in DOMAIN server.cl :
         LET held == {n \in DOMAIN server.conns : server.conns[n].id = i}
         IN  Cardinality(held) = IF server.cl[i].st = "open" THEN 1 ELSE 0
    /\ \A n \in DOMAIN server.conns : server.conns[n].s \notin {"done", "error"}
    /\ server.conns # <<>> => server.up

\* Every client that reached the queue is accepted and let go in the end, however
\* it dawdles, whatever its neighbours and the handlers do.
ConnectionsEnd ==
    \A i \in 1..2 :
      LET Waits == i \in DOMAIN server.cl /\ server.cl[i].st \in {"queued", "open"}
      IN  Waits ~> ~Waits
================================================================================
