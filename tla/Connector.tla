------------------------------- MODULE Connector -------------------------------
(***************************************************************************)
(* The tick-driven connection bring-up of chumicro_sockets: one record per  *)
(* SocketConnector and, for each runtime's adapter, the set of records one  *)
(* tick() may leave.  What the network answers is the nondeterminism: every *)
(* phase may fail, and a phase that polls may find nothing yet.             *)
(*   st    awaiting_dns / awaiting_tcp / awaiting_tls / ready / failed      *)
(*   sock  what self.socket holds: nothing, a raw socket, a TLS socket or   *)
(*         the wrapper the data path uses                                   *)
(*   want  the poll interest of the handshake                               *)
(***************************************************************************)

ConnectorTerminal == {"ready", "failed"}

NewConnector(rt, tls) ==
    [rt |-> rt, tls |-> tls, st |-> "dns", sock |-> "none", want |-> {"r", "w"}]

\* _fail: whatever socket was assigned is closed before the state is terminal.
FailConnector(k) == [k EXCEPT !.st = "failed", !.sock = "none"]

\* CPython: non-blocking connect, select() for writability, stepped handshake.
CPythonTick(k) ==
    CASE k.st = "dns" -> {[k EXCEPT !.st = "tcp"]}
      [] k.st = "tcp" /\ k.sock = "none" -> {[k EXCEPT !.sock = "raw"]}
      [] k.st = "tcp" /\ k.sock = "raw" ->
            {k, IF k.tls THEN [k EXCEPT !.sock = "tls", !.st = "tls"]
                         ELSE [k EXCEPT !.st = "ready"]}
      [] k.st = "tls" ->
            {[k EXCEPT !.want = w] : w \in {{"r"}, {"w"}}}
              \cup {[k EXCEPT !.sock = "wrapped", !.st = "ready"]}

\* MicroPython: POLLOUT for the connect; the TLS wrap blocks inside one tick
\* and the next tick only promotes.
MicroPythonTick(k) ==
    CASE k.st = "dns" -> {[k EXCEPT !.st = "tcp"]}
      [] k.st = "tcp" /\ k.sock = "none" -> {[k EXCEPT !.sock = "raw"]}
      [] k.st = "tcp" /\ k.sock = "raw" ->
            {k, IF k.tls THEN [k EXCEPT !.sock = "tls", !.st = "tls"]
                         ELSE [k EXCEPT !.sock = "wrapped", !.st = "ready"]}
      [] k.st = "tls" -> {[k EXCEPT !.sock = "wrapped", !.st = "ready"]}

\* CircuitPython: connect and handshake block inside one tick.
CircuitPythonTick(k) ==
    CASE k.st = "dns" -> {[k EXCEPT !.st = "tcp"]}
      [] k.st = "tcp" -> {[k EXCEPT !.sock = IF k.tls THEN "tls" ELSE "raw", !.st = "ready"]}

TickConnector(k) ==
    IF k.st \in ConnectorTerminal THEN {k}
    ELSE {FailConnector(k)}
           \cup CASE k.rt = "cpython" -> CPythonTick(k)
                  [] k.rt = "micropython" -> MicroPythonTick(k)
                  [] k.rt = "circuitpython" -> CircuitPythonTick(k)

================================================================================
