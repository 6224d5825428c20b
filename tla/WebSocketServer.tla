--------------------------- MODULE WebSocketServer ---------------------------
(***************************************************************************)
(* WebSocketServer (websockets/src/chumicro_websockets/server.py): the     *)
(* listener, the connection slots, the walk over the sessions in every     *)
(* tick and close(), which the application also calls from the callbacks   *)
(* of a session.  A session is how far it got; WebSocket has its inside.   *)
(*                                                                         *)
(* The walk visits one session per step, and what a callback does are      *)
(* steps of their own.  close() may be called while a close() is finalizing*)
(* the sessions it found, so the calls under way are a stack.              *)
(***************************************************************************)
EXTENDS Integers, SequencesExt

CONSTANTS
    Clients,     \* who dials, each once
    Servers      \* the servers that are checked, see ServerType

\* How a server is made, and the bounds on what may happen to it.
ServerType == [lazy   : BOOLEAN,      \* listener_factory, not listener
               slots  : Nat,          \* max_connections
               errors : Nat,          \* bound: failures of the factory and of accept()
               raises : Nat,          \* bound: callbacks that raise
               closes : Nat]          \* bound: calls of close()

ASSUME ServerAssumption == Servers \subseteq ServerType

VARIABLES
    server,       \* the server at hand
    io_socket,    \* "none" or the "open" listener
    stopped,      \* closed
    connections,  \* _connections
    backlog,      \* connections the kernel has made and accept() not yet returned
    stage,        \* how far each client's session got
    sockets,      \* the accepted sockets that are open
    known,        \* sessions the application was handed, whose callbacks are its own
    visiting,     \* handle(): "no", "walk", or "visit" inside connection.handle()
    index,        \* connection_index + 1, 0 behind the last
    running,      \* the callback that runs
    closers,      \* close() calls under way: sessions still to close, callback to return to
    aborted,      \* history: an exception of a callback left close()
    spare         \* bound: errors, raises and closes left

serverVars == <<server, io_socket, stopped, connections, backlog, stage, sockets, known,
                visiting, index, running, closers, aborted, spare>>

Nobody == [who |-> "nobody", what |-> "nothing"]
Live == {"connecting", "open", "closing"}
Resting == visiting = "no" /\ running = Nobody /\ closers = <<>>
Visited == connections[index]
Uses(kind) ==
    /\ spare[kind] > 0
    /\ spare' = [spare EXCEPT ![kind] = @ - 1]

ServerInit ==
    /\ server \in Servers
    /\ io_socket = IF server.lazy THEN "none" ELSE "open"
    /\ stopped = FALSE /\ connections = <<>> /\ backlog = <<>>
    /\ stage = [c \in Clients |-> "away"]
    /\ sockets = {} /\ known = {}
    /\ visiting = "no" /\ index = 0 /\ running = Nobody /\ closers = <<>>
    /\ aborted = FALSE
    /\ spare = [error |-> server.errors, raise |-> server.raises, close |-> server.closes]

-----------------------------------------------------------------------------
(* The clients (external)                                                  *)

Dials(c) ==
    /\ Resting /\ io_socket = "open" /\ stage[c] = "away"
    /\ stage' = [stage EXCEPT ![c] = "waiting"]
    /\ backlog' = Append(backlog, c)
    /\ UNCHANGED <<server, io_socket, stopped, connections, sockets, known, visiting, index,
                   running, closers, aborted, spare>>

-----------------------------------------------------------------------------
(* handle(): the listener                                                  *)

\* Mutant of Progress: a session is waited for by its deadlines alone.
OnlyDeadlines == \E k \in DOMAIN connections : stage[connections[k]] \in {"connecting", "closing"}
\* next_deadline: accepted sockets are not polled, so any session keeps the loop ticking.
Progress == connections # <<>>

FreeSlots == server.slots - Len(connections)
\* io_interest and next_deadline: what ends the wait() of a runner that has nothing
\* else to do; without a socket to wait for it does not wait.
Wakes ==
    \/ io_socket = "none"
    \/ Progress
    \/ FreeSlots > 0 /\ backlog # <<>>

MayTick == Resting /\ ~stopped /\ Wakes

\* The factory raises out of handle(); the next tick tries again.
BindFails ==
    /\ MayTick /\ io_socket = "none" /\ server.lazy /\ Uses("error")
    /\ UNCHANGED <<server, io_socket, stopped, connections, backlog, stage, sockets, known,
                   visiting, index, running, closers, aborted>>

\* _accept_pending: until the slots or the backlog are used up, or accept() raises.
\* A listener that was given and closed is None, which no factory replaces: handle()
\* raises before it accepts.
AcceptPending ==
    /\ MayTick /\ (io_socket = "open" \/ server.lazy)
    /\ io_socket' = "open"
    /\ \E n \in 0 .. Len(backlog) :
          LET new == SubSeq(backlog, 1, n) IN
          /\ n <= FreeSlots
          /\ IF n = FreeSlots \/ n = Len(backlog) THEN UNCHANGED spare ELSE Uses("error")
          /\ connections' = connections \o new
          /\ backlog' = SubSeq(backlog, n + 1, Len(backlog))
          /\ stage' = [c \in Clients |-> IF c \in Range(new) THEN "connecting" ELSE stage[c]]
          /\ sockets' = sockets \cup Range(new)
    /\ visiting' = "walk"
    /\ index' = Len(connections')
    /\ UNCHANGED <<server, stopped, known, running, closers, aborted>>

-----------------------------------------------------------------------------
(* handle(): the walk, from the last session to the first                  *)

Visits(c) == visiting = "walk" /\ index > 0 /\ Visited = c

\* The session is over (_finalize_closed, _fail_with_error): its socket is closed and
\* on_close runs, the application's own once it was handed the session.
Finalize(c) ==
    /\ stage' = [stage EXCEPT ![c] = "closed"]
    /\ sockets' = sockets \ {c}
    /\ running' = IF c \in known THEN [who |-> c, what |-> "on_close"] ELSE Nobody

Runs(c, callback) == running' = [who |-> c, what |-> callback]

\* connection.handle(): the handshake is answered and the application gets the session.
SessionOpens(c) ==
    /\ Visits(c) /\ stage[c] = "connecting"
    /\ stage' = [stage EXCEPT ![c] = "open"]
    /\ known' = known \cup {c}
    /\ Runs(c, "on_connection")
    /\ visiting' = "visit"
    /\ UNCHANGED <<server, io_socket, stopped, connections, backlog, sockets, index, closers,
                   aborted, spare>>

\* connection.handle(): a request that is turned down closes without on_close.
SessionRejected(c) ==
    /\ Visits(c) /\ stage[c] = "connecting"
    /\ stage' = [stage EXCEPT ![c] = "closed"]
    /\ sockets' = sockets \ {c}
    /\ visiting' = "visit"
    /\ UNCHANGED <<server, io_socket, stopped, connections, backlog, known, index, running,
                   closers, aborted, spare>>

\* connection.handle(): a message, ping or pong is handed on.
SessionTells(c) ==
    /\ Visits(c) /\ stage[c] = "open"
    /\ Runs(c, "on_message")
    /\ visiting' = "visit"
    /\ UNCHANGED <<server, io_socket, stopped, connections, backlog, stage, sockets, known,
                   index, closers, aborted, spare>>

\* connection.handle(): a timeout, an error or the closing handshake ends the session.
SessionEnds(c) ==
    /\ Visits(c) /\ stage[c] \in Live
    /\ Finalize(c)
    /\ visiting' = "visit"
    /\ UNCHANGED <<server, io_socket, stopped, connections, backlog, known, index, closers,
                   aborted, spare>>

\* connection.handle(): nothing to do, or a broken frame that starts the close handshake.
SessionWaits(c) ==
    /\ Visits(c) /\ stage[c] \in Live
    /\ \/ UNCHANGED stage
       \/ stage[c] = "open" /\ stage' = [stage EXCEPT ![c] = "closing"]
    /\ visiting' = "visit"
    /\ UNCHANGED <<server, io_socket, stopped, connections, backlog, sockets, known, index,
                   running, closers, aborted, spare>>

\* A session that a close() cut short left finalized goes without being handled.
SkipClosed(c) ==
    /\ Visits(c) /\ stage[c] = "closed"
    /\ connections' = RemoveAt(connections, index)
    /\ index' = index - 1
    /\ UNCHANGED <<server, io_socket, stopped, backlog, stage, sockets, known, visiting,
                   running, closers, aborted, spare>>

\* Back from connection.handle(): a callback may have closed the server.
LeaveSession ==
    /\ visiting = "visit" /\ running = Nobody /\ closers = <<>>
    /\ IF stopped
       THEN visiting' = "no" /\ index' = 0 /\ UNCHANGED connections
       ELSE /\ visiting' = "walk" /\ index' = index - 1
            /\ connections' = IF stage[Visited] = "closed" THEN RemoveAt(connections, index)
                                                            ELSE connections
    /\ UNCHANGED <<server, io_socket, stopped, backlog, stage, sockets, known, running,
                   closers, aborted, spare>>

EndWalk ==
    /\ visiting = "walk" /\ index = 0
    /\ visiting' = "no"
    /\ UNCHANGED <<server, io_socket, stopped, connections, backlog, stage, sockets, known,
                   index, running, closers, aborted, spare>>

-----------------------------------------------------------------------------
(* The application: between two ticks, or in a callback                    *)

Acting == Resting \/ running # Nobody

\* Connection.close: the close handshake begins, of the session that is visited or of
\* any other.
SessionCloses(c) ==
    /\ Acting /\ stage[c] \in {"connecting", "open"}
    /\ stage' = [stage EXCEPT ![c] = "closing"]
    /\ UNCHANGED <<server, io_socket, stopped, connections, backlog, sockets, known, visiting,
                   index, running, closers, aborted, spare>>

\* close(): the listener goes, and with it who still waited; the sessions there are
\* now will be closed one by one.
CloseServer ==
    /\ Acting /\ ~stopped /\ Uses("close")
    /\ io_socket' = "none" /\ backlog' = <<>>
    /\ stage' = [c \in Clients |-> IF stage[c] = "waiting" THEN "closed" ELSE stage[c]]
    /\ closers' = Append(closers, [left |-> connections, back |-> running])
    /\ running' = Nobody
    /\ UNCHANGED <<server, stopped, connections, sockets, known, visiting, index, aborted>>

\* Mutant of CloseNext: a session still shaking hands is passed over.
SkipsHandshakes ==
    LET top == Last(closers) c == Head(top.left) IN
    /\ closers # <<>> /\ running = Nobody /\ top.left # <<>>
    /\ closers' = [closers EXCEPT ![Len(closers)].left = Tail(@)]
    /\ IF stage[c] \in {"closed", "connecting"} THEN UNCHANGED <<stage, sockets, running>>
       ELSE Finalize(c)
    /\ UNCHANGED <<server, io_socket, stopped, connections, backlog, known, visiting, index,
                   aborted, spare>>
\* close(): a session that is not over is finalized, whatever its stage.
CloseNext ==
    LET top == Last(closers) c == Head(top.left) IN
    /\ closers # <<>> /\ running = Nobody /\ top.left # <<>>
    /\ closers' = [closers EXCEPT ![Len(closers)].left = Tail(@)]
    /\ IF stage[c] = "closed" THEN UNCHANGED <<stage, sockets, running>> ELSE Finalize(c)
    /\ UNCHANGED <<server, io_socket, stopped, connections, backlog, known, visiting, index,
                   aborted, spare>>

\* close() is through: only now is the server closed.
CloseReturns ==
    /\ closers # <<>> /\ running = Nobody /\ Last(closers).left = <<>>
    /\ connections' = <<>> /\ stopped' = TRUE
    /\ running' = Last(closers).back
    /\ closers' = Front(closers)
    /\ UNCHANGED <<server, io_socket, backlog, stage, sockets, known, visiting, index, aborted,
                   spare>>

CallbackReturns ==
    /\ running # Nobody
    /\ running' = Nobody
    /\ UNCHANGED <<server, io_socket, stopped, connections, backlog, stage, sockets, known,
                   visiting, index, closers, aborted, spare>>

\* A callback raises: through every close() under way, up to on_connection, which is
\* caught and ends its session, or out of handle() or of the application's close().
CallbackRaises ==
    LET outermost == IF closers = <<>> THEN running ELSE Head(closers).back IN
    /\ running # Nobody /\ Uses("raise")
    /\ aborted' = (aborted \/ closers # <<>>)
    /\ closers' = <<>>
    /\ IF outermost.what = "on_connection"
       THEN Finalize(outermost.who) /\ UNCHANGED <<visiting, index>>
       ELSE /\ visiting' = "no" /\ index' = 0 /\ running' = Nobody
            /\ UNCHANGED <<stage, sockets>>
    /\ UNCHANGED <<server, io_socket, stopped, connections, backlog, known>>

-----------------------------------------------------------------------------
SessionStep ==
    \E c \in Clients :
        \/ SessionOpens(c) \/ SessionRejected(c) \/ SessionTells(c) \/ SessionEnds(c)
        \/ SessionWaits(c) \/ SkipClosed(c)
ServerStep ==
    AcceptPending \/ SessionStep \/ LeaveSession \/ EndWalk \/ CloseNext \/ CloseReturns
        \/ CallbackReturns

ServerNext ==
    \/ ServerStep \/ BindFails \/ CloseServer \/ CallbackRaises
    \/ \E c \in Clients : Dials(c) \/ SessionCloses(c)

\* The runner keeps calling handle(), which comes to its end; a session that is visited
\* again and again comes to its own: its handshake and its closing have deadlines, and
\* an open one ends when its peer leaves.
ServerFairness ==
    /\ WF_serverVars(ServerStep)
    /\ \A c \in Clients : SF_serverVars(SessionEnds(c))
ServerSpec == ServerInit /\ [][ServerNext]_serverVars /\ ServerFairness

-----------------------------------------------------------------------------
(* Properties                                                              *)

\* An open session is in the walk, or nobody would drive or close it; one holds one
\* slot; a closed server holds nothing.
SlotsAccounted ==
    /\ sockets \subseteq Range(connections)
    /\ IsInjective(connections) /\ Len(connections) <= server.slots
    /\ stopped => io_socket = "none" /\ sockets = {}

\* A close() that an exception left, over a listener nobody can make again.
Stuck == aborted /\ ~server.lazy

\* Left to the server: a connection nobody accepted, an ended session in its slot.
Pending(c) == stage[c] = "waiting" \/ (stage[c] = "closed" /\ c \in Range(connections))

\* Whoever dials gets a session once one of those before has ended, and the slot of an
\* ended session is free again, whatever callbacks raise or close meanwhile ("at the
\* cap the server stops calling accept()", _CONNECTION_PROGRESS_INTERVAL_MS).
EveryoneServed == \A c \in Clients : Pending(c) ~> (~Pending(c) \/ Stuck)

-----------------------------------------------------------------------------
\* "Stop accepting new connections and close every active session" (close): once it was
\* called nobody is accepted any more.  The code does not keep it.
ClosesForGood ==
    [][spare.close < server.closes => \A c \in Clients : stage[c] = "away" => stage'[c] = "away"]_serverVars
=============================================================================
