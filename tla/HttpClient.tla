------------------------------ MODULE HttpClient -------------------------------
(***************************************************************************)
(* HttpClient (chumicro_requests/client.py), the generators over it         *)
(* (generators.py), the connector it brings up and the server it talks to.  *)
(* One record per participant; `x` is the world a tick works on:            *)
(*   x.c   the client          x.h   its RequestHandles, oldest first       *)
(*   x.p   the server's side of the current connection                      *)
(***************************************************************************)
EXTENDS HttpResponse, Connector, FiniteSets

CONSTANTS
    ClientSetups,  \* how the client is built, driven and answered, a record per case
    Replies,       \* what a server may answer, one record per reply
    RecvBudget,    \* recv_budget_per_tick, in symbols
    Scratch,       \* size of the receive buffer
    TxLen,         \* symbols of an encoded request
    Timeout,       \* timeout_ms of a request
    MaxRequests, Horizon  \* bounds: requests issued (and so in each setup), clock

\* The sizes in which bytes are considered to arrive: one, and past what one
\* receive and one tick take.
Arrivals == {1, RecvBudget + 1}

ASSUME ClientBounds ==
    {RecvBudget, Scratch, TxLen, Timeout, MaxRequests, Horizon} \subseteq Nat \ {0}

VARIABLES
    cset,    \* the setup: runtime, TLS, oversized policy, what drives the client, reader's
             \* buffer (0: not streamed), redirect and request budgets, replies
    world,   \* x, as above
    task,    \* the generator driving the client, when a generator does
    clock    \* ticks_ms

cvars == <<cset, world, task, clock>>

NoConnector == [st |-> "absent"]
NoPeer == [reply |-> "none", todo |-> <<>>, wire |-> <<>>, closed |-> FALSE, reset |-> FALSE]

Idle ==
    [st |-> "idle", k |-> NoConnector, sock |-> FALSE, tx |-> 0, parser |-> NoParser,
     deadline |-> 0, h |-> 0, pend |-> 0, redirects |-> 0, stream |-> FALSE,
     method |-> "none", body |-> FALSE, transports |-> 0]

\* A handle; `hops` records the requests sent for it, `fired` the on_done calls,
\* `reply` the answer to the last of them, `got` what its reader was given and
\* `src` the parser its staged bytes are in.
NewHandle(stream) ==
    [st |-> "open", stream |-> stream, code |-> 0, body |-> <<>>, err |-> "none",
     published |-> FALSE, src |-> NoParser, got |-> <<>>, fired |-> 0,
     hops |-> <<>>, reply |-> "none"]

ClientInit ==
    /\ cset \in ClientSetups
    /\ world = [c |-> Idle, h |-> <<>>, p |-> NoPeer]
    /\ task = "none"
    /\ clock = 0

Busy == world.c.st # "idle"
RedirectCodes == {301, 302, 303, 307, 308}
MethodPreserving == {307, 308}

\* The body a handle's reader sees: the live parser's or the one it kept.
BodySource(x, i) == IF x.c.h = i THEN x.c.parser ELSE x.h[i].src

--------------------------------------------------------------------------------
(* Teardown and completion. *)

\* _close_socket_only: the connector is cancelled, the socket closed.
CloseTransport(x) ==
    [x EXCEPT !.h = [i \in DOMAIN @ |-> IF i = x.c.h /\ @[i].published
                                          THEN [@[i] EXCEPT !.src = x.c.parser] ELSE @[i]],
              !.c.transports = @ - (IF x.c.k # NoConnector /\ x.c.k.st # "failed" THEN 1 ELSE 0)
                                 - (IF x.c.sock THEN 1 ELSE 0),
              !.c.k = NoConnector, !.c.sock = FALSE, !.c.tx = 0, !.c.parser = NoParser,
              !.c.st = "idle", !.p = NoPeer]

\* Mutant: the handle is dropped with its socket.
ForgetHandle(x) == [CloseTransport(x) EXCEPT !.c.h = 0, !.c.pend = 0]

\* _reset_socket: back to idle, the finished handle left for _fire_completion.
ResetSocket(x) ==
    LET y == CloseTransport(x)
    IN  [y EXCEPT !.c = [Idle EXCEPT !.pend = IF x.c.h # 0 THEN x.c.h ELSE x.c.pend,
                                     !.transports = y.c.transports]]

SetError(x, why) ==
    [x EXCEPT !.h[x.c.h].st = "error", !.h[x.c.h].err = why]
SetResponse(x, st, body) ==
    [x EXCEPT !.h[x.c.h].st = st, !.h[x.c.h].code = x.c.parser.code, !.h[x.c.h].body = body]

Resolve(x, why) == ResetSocket(SetError(x, why))

\* _fail: an oversized body completes as a drop unless the policy disconnects;
\* an on_oversized hook that raises leaves the request as it was.
FailRequest(x, why) ==
    IF why = "oversized" /\ cset.policy # "disconnect"
      THEN {ResetSocket(SetResponse(x, "dropped", <<>>))}
             \cup (IF cset.policy = "event" THEN {x} ELSE {})
      ELSE {Resolve(x, why)}

\* _fire_completion: on_done runs once the tick is over.
FireCompletion(x) ==
    IF x.c.pend = 0 THEN x
    ELSE [x EXCEPT !.h[x.c.pend].fired = @ + 1, !.c.pend = 0]

--------------------------------------------------------------------------------
(* Hops and redirects. *)

\* _start_hop: a fresh connector, parser and (streamed) window.
StartHop(x, method, body, via) ==
    [x EXCEPT !.c.k = NewConnector(cset.rt, cset.tls), !.c.transports = @ + 1,
              !.c.tx = TxLen, !.c.parser = NewParser(x.c.stream), !.c.st = "awaiting_transport",
              !.h[x.c.h].reply = "none",
              !.h[x.c.h].hops = Append(@, [method |-> method, body |-> body, via |-> via])]

\* _follow_redirect: a bad Location, or a transport factory that raises, ends it.
FollowRedirect(x) ==
    LET code == x.c.parser.code
        keeps == code \in MethodPreserving
        y == [CloseTransport(x) EXCEPT !.c.redirects = @ - 1]
    IN  IF x.c.parser.head.loc # <<"loc">>
          THEN {Resolve(x, "url")}
          ELSE {StartHop(y, IF keeps THEN x.c.method ELSE "GET", keeps /\ x.c.body, code),
                Resolve(y, "factory")}

Followable(x) ==
    /\ x.c.redirects > 0
    /\ x.c.parser.code \in RedirectCodes
    /\ x.c.parser.head.loc # <<>>

\* _sync_stream_state: publish the final response once, drop a redirect's body.
SyncStream(x) ==
    CASE ~x.c.parser.complete \/ x.c.parser.s = "error" \/ x.h[x.c.h].published -> x
      [] x.c.parser.complete /\ x.c.parser.s # "error" /\ ~x.h[x.c.h].published /\ Followable(x) ->
            [x EXCEPT !.c.parser = DiscardBody(@)]
      [] OTHER ->
            [x EXCEPT !.h[x.c.h].published = TRUE, !.h[x.c.h].code = x.c.parser.code]

\* _complete: the parser is done.
Complete(x) ==
    LET y == IF x.c.stream THEN SyncStream(x) ELSE x
    IN  CASE x.c.stream /\ y.h[y.c.h].published ->
                {ResetSocket(SetResponse(y, "done", <<>>))}
          [] x.c.stream /\ ~y.h[y.c.h].published -> FollowRedirect(y)
          [] ~x.c.stream /\ Followable(x) -> FollowRedirect(x)
          [] OTHER -> {ResetSocket(SetResponse(x, "done", StagedBody(x.c.parser)))}

--------------------------------------------------------------------------------
(* One tick. *)

\* _drive_send: the socket takes some, refuses, or fails.
DriveSend(x) ==
    {[x EXCEPT !.c.tx = x.c.tx - n,
               !.c.st = IF n = x.c.tx THEN "receiving" ELSE "sending"] : n \in 0..x.c.tx}

Capacity(x, used) ==
    LET room == IF Scratch < RecvBudget - used THEN Scratch ELSE RecvBudget - used
    IN  IF x.c.stream /\ BodyFree(x.c.parser) < room THEN BodyFree(x.c.parser) ELSE room

\* _drive_recv: read until the budget, a would-block, the window or the end.
RECURSIVE Receive(_, _)
Receive(x, used) ==
    LET cap == Capacity(x, used)
        got == IF cap < Len(x.p.wire) THEN cap ELSE Len(x.p.wire)
        More(p) ==
          LET y == [x EXCEPT !.c.parser = p, !.p.wire = SubSeq(@, got + 1, Len(@))]
          IN  Once(IF x.c.stream THEN SyncStream(y) ELSE y, LAMBDA z : Receive(z, used + got))
    IN  CASE used >= RecvBudget \/ ~Unparsed(x.c.parser) \/ cap = 0 -> x
          [] OTHER ->
               CASE got > 0 -> Once(Feed(x.c.parser, SubSeq(x.p.wire, 1, got)), More)
                 [] got = 0 /\ x.p.closed -> [x EXCEPT !.c.parser = FeedEof(@)]
                 [] got = 0 /\ ~x.p.closed /\ x.p.reset ->
                      [x EXCEPT !.c.parser = Failed(@, "socket")]
                 [] OTHER -> x

\* What recv_into raised and what the parser failed with end the same way.
DriveReceive(x) ==
    UNION {
      CASE y.c.parser.s = "error" -> FailRequest(y, y.c.parser.err)
        [] y.c.parser.s = "done" -> Complete(y)
        [] OTHER -> {y} : y \in {Receive(x, 0)}}

\* _advance_connector: take the ready socket and go on to send in this tick.
DriveConnector(x) ==
    {CASE k.st = "ready" ->
            [x EXCEPT !.c.k = NoConnector, !.c.sock = TRUE, !.c.st = "sending"]
       [] k.st = "failed" ->
            Resolve([x EXCEPT !.c.k = NoConnector, !.c.transports = @ - 1], "connect")
       [] OTHER -> [x EXCEPT !.c.k = k] : k \in TickConnector(x.c.k)}

Then(xs, st, Do(_)) == UNION {IF x.c.st = st THEN Do(x) ELSE {x} : x \in xs}

\* Mutant: the deadline is not looked at.
NoDeadline(x) ==
    {FireCompletion(y) : y \in
       Then(Then(Then({x}, "awaiting_transport", DriveConnector), "sending", DriveSend),
            "receiving", DriveReceive)}

\* handle(): the deadline first, then each phase falls through to the next.
\* A send that raises is a fourth outcome of the sending phase.
Handle(x) ==
    LET driven ==
          IF clock >= x.c.deadline THEN {Resolve(x, "timeout")}
          ELSE Then(Then(Then({x}, "awaiting_transport", DriveConnector),
                         "sending", LAMBDA y : DriveSend(y) \cup {Resolve(y, "socket")}),
                    "receiving", DriveReceive)
    IN  {FireCompletion(y) : y \in driven}

\* _start_request: a bad URL or a factory that raises leaves nothing in flight.
Request(x, method, body, stream) ==
    LET i == Len(x.h) + 1
        y == [x EXCEPT !.h = Append(@, NewHandle(stream)),
                       !.c = [@ EXCEPT !.h = i, !.stream = stream, !.redirects = cset.redirects,
                                       !.method = method, !.body = body /\ cset.redirects > 0,
                                       !.deadline = clock + Timeout]]
    IN  StartHop(y, method, body, 0)

MayRequest == Len(world.h) < cset.requests /\ clock + Timeout < Horizon

--------------------------------------------------------------------------------
(* The application. *)

Issue ==
    /\ cset.drive = "service" /\ ~Busy /\ MayRequest
    /\ \E method \in {"GET", "POST"} :
         world' = Request(world, method, method = "POST", cset.read > 0)
    /\ UNCHANGED <<cset, task, clock>>

\* check() is true while a request is in flight, so the runner ticks it.
Tick ==
    /\ cset.drive = "service" /\ Busy
    /\ \E y \in Handle(world) : world' = y
    /\ UNCHANGED <<cset, task, clock>>

\* cancel() outside the runner's tick.
Cancelled(x) == FireCompletion(Resolve(x, "cancelled"))
Cancel ==
    /\ cset.drive = "service" /\ Busy
    /\ world' = Cancelled(world)
    /\ UNCHANGED <<cset, task, clock>>

\* RequestHandle.read_body_into, at any time after the response was published.
Read(x, i) ==
    LET src == BodySource(x, i)
        n == ReadCount(src, cset.read)
        left == AfterRead(src, cset.read)
        y == IF x.c.h = i THEN [x EXCEPT !.c.parser = left] ELSE [x EXCEPT !.h[i].src = left]
    IN  [y EXCEPT !.h[i].got = @ \o SubSeq(src.body, src.rd + 1, src.rd + n)]
Readable(x, i) == x.h[i].published /\ StagedBody(BodySource(x, i)) # <<>>

ReadBody ==
    /\ cset.drive = "service"
    /\ \E i \in DOMAIN world.h : Readable(world, i) /\ world' = Read(world, i)
    /\ UNCHANGED <<cset, task, clock>>

(* The generators.  A request is issued and handled once before the first   *)
(* yield; closing a suspended generator cancels a request still in flight.  *)

Newest == Len(world.h)
Open(x, i) == x.h[i].st = "open"

\* What fetch() or stream() does with the client's state after a handle().
AfterHandle(x) ==
    CASE ~Open(x, Len(x.h)) \/ (cset.drive = "stream" /\ x.h[Len(x.h)].published) ->
            IF x.h[Len(x.h)].st = "error" THEN "raised"
            ELSE IF cset.drive = "stream" THEN "reader" ELSE "returned"
      [] OTHER -> "waiting"

GenIssue ==
    /\ cset.drive # "service" /\ task = "none" /\ MayRequest
    /\ \E y \in Handle(Request(world, "GET", FALSE, cset.drive = "stream")) :
         world' = y /\ task' = AfterHandle(y)
    /\ UNCHANGED <<cset, clock>>

GenResume ==
    /\ task = "waiting"
    /\ \E y \in IF Busy THEN Handle(world) ELSE {world} : world' = y /\ task' = AfterHandle(y)
    /\ UNCHANGED <<cset, clock>>

\* BodyReader.read_into: raise, give bytes, report the end, or yield.
ReadInto(x) ==
    CASE x.h[Newest].st = "error" -> <<x, "raised">>
      [] x.h[Newest].st # "error" /\ Readable(x, Newest) -> <<Read(x, Newest), "reader">>
      [] x.h[Newest].st \notin {"error", "open"} /\ ~Readable(x, Newest) -> <<x, "returned">>
      [] OTHER -> <<x, "reading">>

ReaderRead ==
    /\ task = "reader"
    /\ \E r \in {ReadInto(world)} : world' = r[1] /\ task' = r[2]
    /\ UNCHANGED <<cset, clock>>

ReaderResume ==
    /\ task = "reading"
    /\ \E y \in IF Busy THEN Handle(world) ELSE {world} :
         \E r \in {ReadInto(y)} : world' = r[1] /\ task' = r[2]
    /\ UNCHANGED <<cset, clock>>

GenClose ==
    /\ task \in {"waiting", "reading", "reader"}
    /\ world' = IF Open(world, Newest) THEN Cancelled(world) ELSE world
    /\ task' = "closed"
    /\ UNCHANGED <<cset, clock>>

--------------------------------------------------------------------------------
(* The server and the clock. *)

\* A server answers a connection once, with one of the replies it may give.
ServerAnswers ==
    /\ world.c.sock /\ world.p.reply = "none"
    /\ \E r \in Replies :
         /\ r.name \in cset.replies
         /\ world' = [world EXCEPT !.p.reply = r.name, !.p.todo = r.bytes,
                                   !.h[world.c.h].reply = r.name]
    /\ UNCHANGED <<cset, task, clock>>

BytesArrive ==
    /\ ~world.p.closed /\ ~world.p.reset
    /\ world.p.wire = <<>> /\ world.p.todo # <<>>
    /\ \E n \in {IF m < Len(world.p.todo) THEN m ELSE Len(world.p.todo) : m \in Arrivals} :
         world' = [world EXCEPT !.p.wire = @ \o SubSeq(world.p.todo, 1, n),
                                   !.p.todo = SubSeq(@, n + 1, Len(@))]
    /\ UNCHANGED <<cset, task, clock>>

\* The peer closes (after its reply, or cut short) or the connection is reset.
PeerLeaves ==
    /\ world.c.sock /\ ~world.p.closed /\ ~world.p.reset
    /\ \E how \in {"closed", "reset"} : world' = [world EXCEPT !.p[how] = TRUE]
    /\ UNCHANGED <<cset, task, clock>>

TimePasses ==
    /\ clock < Horizon
    /\ clock' = clock + 1
    /\ UNCHANGED <<cset, world, task>>

ClientNext ==
    \/ Issue \/ Tick \/ Cancel \/ ReadBody
    \/ GenIssue \/ GenResume \/ ReaderRead \/ ReaderResume \/ GenClose
    \/ ServerAnswers \/ BytesArrive \/ PeerLeaves \/ TimePasses

--------------------------------------------------------------------------------
(* Properties. *)

ReplyOf(h) == CHOOSE r \in Replies : r.name = h.reply
Received(i) == LET h == world.h[i]
               IN  IF h.stream THEN h.got \o StagedBody(BodySource(world, i)) ELSE h.body
Prefix(s, t) == Len(s) <= Len(t) /\ s = SubSeq(t, 1, Len(s))

\* However the bytes of a reply are cut into receives, across hops and windows:
\* a finished request carries the status and exactly the body the server sent
\* (a prefix only where the peer's close is the end of the body); a streamed
\* one never shows a byte out of place or of a redirect's page; and a request
\* fails as malformed, oversized or cut short only when it was.
ResponseFaithful ==
    \A i \in DOMAIN world.h :
      LET h == world.h[i]
          r == ReplyOf(h)
      IN  /\ h.st = "done" =>
               /\ h.code = r.code /\ r.well
               /\ Received(i) = r.body \/ (r.framing = "close" /\ Prefix(Received(i), r.body))
          /\ h.published => h.code = r.code /\ Prefix(Received(i), r.body)
          /\ h.st = "dropped" => r.size > MaxBody /\ ~h.stream
          /\ h.err = "oversized" => r.size > MaxBody /\ ~h.stream
          /\ h.err = "protocol" => ~r.well
          /\ h.err = "unparsed" => r.long
          /\ h.err # "overflow"

\* The client holds a connection exactly while a request is open, never two,
\* and whatever ended a request (reply, redirect that failed, timeout, cancel,
\* a closed generator) its handle was resolved and on_done ran once.
NothingLeaks ==
    /\ world.c.transports = IF Busy THEN 1 ELSE 0
    /\ Busy <=> world.c.h # 0
    /\ \A i \in DOMAIN world.h :
         /\ Open(world, i) <=> world.c.h = i
         /\ world.h[i].fired = IF Open(world, i) THEN 0 ELSE 1
    /\ Len(world.h) > 0 /\ task \in {"closed", "raised", "returned"} => ~Busy

\* Every request is resolved, whatever the peer does, redirects included: by
\* its reply, its deadline or its owner, unless a BodyReader is left unread.
RequestsEnd ==
    \A i \in 1..MaxRequests :
      LET Pending == i \in DOMAIN world.h /\ Open(world, i)
      IN  Pending ~> (~Pending \/ task = "reader")
================================================================================
