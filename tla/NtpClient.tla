------------------------------ MODULE NtpClient ------------------------------
(***************************************************************************)
(* NTPClient (ntp/core.py): one SNTP query at a time over a UDP socket     *)
(* whose datagrams are lost, duplicated, delayed and cut short, with a     *)
(* timeout, a cancel and a factory that reopens a closed socket.           *)
(***************************************************************************)
EXTENDS Integers, Sequences, FiniteSets, FiniteSetsExt

CONSTANTS
    NtpSetups,
    ERA,            \* 2^32 seconds in the source
    NTP_TO_UNIX,    \* 2208988800 in the source
    NtpTimeout,     \* timeout_ms
    DRAIN_LIMIT,    \* 8 in the source
    MaxDatagrams    \* bound: datagrams under way and in the socket

\* The epoch is in the later half of the era, so that a second of the next era is
\* told from one of this.
ASSUME NtpAssumption ==
    /\ ERA \in Nat \ {0}
    /\ NTP_TO_UNIX \in 1 .. (ERA - 1)
    /\ NtpTimeout \in Nat \ {0}
    /\ DRAIN_LIMIT \in Nat
    /\ MaxDatagrams \in Nat

\* A setup: whether the client has a factory, how many queries are made, what the
\* server may answer, what it may do to the socket, and the Unix times it tells: those
\* of the one era that _parse_response can tell, which it starts in 1970.
NtpSetupType ==
    [factory : BOOLEAN, queries : Nat, kinds : SUBSET STRING, errors : BOOLEAN,
     closes : BOOLEAN, times : SUBSET (0 .. (ERA - 1))]

ASSUME NtpSetupsTyped == NtpSetups \subseteq NtpSetupType

VARIABLES
    nset,      \* the setup
    udp,       \* the socket: "none" | "open"
    result,    \* NTPResult of the last query: [id, status, seconds, elapsed]
    wire,      \* datagrams under way
    inbox,     \* datagrams the socket holds, oldest first
    called,    \* how the last call ended: "ok" | "busy" | "closed" | "crash"
    stale      \* history: datagrams ahead in the socket that query() should have discarded

nvars == <<nset, udp, result, wire, inbox, called, stale>>

\* Datagrams that are no reply: by their length, their mode, their stratum.
Malformed == {"short", "mode", "kiss"}
Datagram(id, kind, seconds) == [id |-> id, kind |-> kind, seconds |-> seconds]

NoResult == [id |-> 0, status |-> "none", seconds |-> 0, elapsed |-> 0]

NtpInit ==
    /\ nset \in NtpSetups
    /\ udp = IF nset.factory THEN "none" ELSE "open"
    /\ result = NoResult
    /\ wire = {}
    /\ inbox = <<>>
    /\ called = "ok"
    /\ stale = 0

Flying == result.status = "flying"

--------------------------------------------------------------------------------
(* The network and the server                                                *)

\* Seconds since 1900 as the 32 bits of the datagram hold them.
OnWire(unix) == (unix + NTP_TO_UNIX) % ERA

Answer(unix, kind) ==
    /\ result.id > 0
    /\ Cardinality(wire) + Len(inbox) < MaxDatagrams
    /\ wire' = wire \cup {Datagram(result.id, kind, OnWire(unix))}
    /\ UNCHANGED <<nset, udp, result, inbox, called, stale>>

\* Delivered, in any order; a copy may stay under way.
Arrive(d, again) ==
    /\ d \in wire
    /\ again => Cardinality(wire) + Len(inbox) < MaxDatagrams
    /\ wire' = IF again THEN wire ELSE wire \ {d}
    /\ inbox' = IF udp = "open" THEN Append(inbox, d) ELSE inbox
    /\ UNCHANGED <<nset, udp, result, called, stale>>

Lose(d) ==
    /\ d \in wire
    /\ wire' = wire \ {d}
    /\ UNCHANGED <<nset, udp, result, inbox, called, stale>>

TimeGoesBy ==
    /\ Flying
    /\ result.elapsed < NtpTimeout
    /\ result' = [result EXCEPT !.elapsed = @ + 1]
    /\ UNCHANGED <<nset, udp, wire, inbox, called, stale>>

--------------------------------------------------------------------------------
(* query, handle, cancel, close                                              *)

\* _parse_response: a second before the Unix epoch is one of the next era.
Unix(seconds) ==
    IF seconds < NTP_TO_UNIX THEN seconds + ERA - NTP_TO_UNIX ELSE seconds - NTP_TO_UNIX

Empties(held) == {i \in 1 .. Len(held) : held[i].kind = "empty"}

\* Mutant: nothing is discarded.
DrainsNothing(held, reads) == held

\* _drain_socket(), as many datagrams as can be read: DRAIN_LIMIT at most, or those
\* before an error of the socket; an empty one is the last.
Drained(held, reads) ==
    LET last == Min({Len(held), reads} \cup Empties(held))
    IN  SubSeq(held, last + 1, Len(held))

Failed(r) == [r EXCEPT !.status = "failed"]

QueryRefused ==
    /\ result.id < nset.queries
    /\ Flying \/ (udp = "none" /\ ~nset.factory)
    /\ called' = IF Flying THEN "busy" ELSE "closed"
    /\ UNCHANGED <<nset, udp, result, wire, inbox, stale>>

\* query(): open on demand, drain, send; a send that fails ends the query at once.
Query(sends, reads) ==
    LET fresh == [NoResult EXCEPT !.id = result.id + 1, !.status = "flying"]
    IN  /\ result.id < nset.queries
        /\ ~Flying
        /\ udp = "open" \/ nset.factory
        /\ ~sends \/ reads < DRAIN_LIMIT => nset.errors
        /\ udp' = "open"
        /\ inbox' = Drained(inbox, reads)
        /\ stale' = IF Len(inbox) <= reads /\ Empties(inbox) = {} THEN Len(inbox') ELSE 0
        /\ result' = IF sends THEN fresh ELSE Failed(fresh)
        /\ called' = "ok"
        /\ UNCHANGED <<nset, wire>>

\* Mutant: the timeout is judged only when a datagram came.
TimeoutNotChecked(r) == r

CheckTimeout(r) == IF r.elapsed >= NtpTimeout THEN Failed(r) ELSE r

Parsed(d) ==
    IF d.kind \in Malformed \/ d.seconds = 0 THEN Failed(result)
    ELSE [result EXCEPT !.status = "done", !.seconds = Unix(d.seconds)]

\* handle(): one datagram, no datagram, an empty one, or an error of the socket.
HandleAnswer ==
    /\ Flying /\ udp = "open"
    /\ inbox # <<>>
    /\ result' = IF Head(inbox).kind = "empty" THEN CheckTimeout(result) ELSE Parsed(Head(inbox))
    /\ inbox' = Tail(inbox)
    /\ stale' = IF stale > 0 THEN stale - 1 ELSE 0
    /\ called' = "ok"
    /\ UNCHANGED <<nset, udp, wire>>

HandleNothing ==
    /\ Flying /\ udp = "open"
    /\ inbox = <<>>
    /\ result' = CheckTimeout(result)
    /\ called' = "ok"
    /\ UNCHANGED <<nset, udp, wire, inbox, stale>>

HandleError ==
    /\ Flying /\ udp = "open"
    /\ nset.errors
    /\ result' = Failed(result)
    /\ called' = "ok"
    /\ UNCHANGED <<nset, udp, wire, inbox, stale>>

\* With the socket closed under the query recvfrom_into is called on None.
HandleClosed ==
    /\ Flying /\ udp = "none"
    /\ called' = "crash"
    /\ UNCHANGED <<nset, udp, result, wire, inbox, stale>>

Cancel ==
    /\ Flying
    /\ result' = Failed(result)
    /\ called' = "ok"
    /\ UNCHANGED <<nset, udp, wire, inbox, stale>>

\* close() leaves the query as it is; nset.closes says the application may close
\* while one is under way.
CloseClient ==
    /\ udp = "open"
    /\ Flying => nset.closes
    /\ udp' = "none"
    /\ inbox' = <<>>
    /\ called' = "ok"
    /\ UNCHANGED <<nset, result, wire, stale>>

HandleNtp == HandleAnswer \/ HandleNothing \/ HandleError \/ HandleClosed

NtpNext ==
    \/ \E unix \in nset.times, kind \in nset.kinds : Answer(unix, kind)
    \/ \E d \in wire : Lose(d) \/ \E again \in BOOLEAN : Arrive(d, again)
    \/ TimeGoesBy
    \/ QueryRefused
    \/ \E sends \in BOOLEAN, reads \in 0 .. DRAIN_LIMIT : Query(sends, reads)
    \/ HandleAnswer
    \/ HandleNothing
    \/ HandleError
    \/ HandleClosed
    \/ Cancel
    \/ CloseClient

\* A query under way is handled in every tick, and the ticks go on.
NtpSpec == NtpInit /\ [][NtpNext]_nvars /\ WF_nvars(HandleNtp) /\ WF_nvars(TimeGoesBy)
--------------------------------------------------------------------------------
\* A query is answered once and by a time the server told, on either side of the
\* era's end: its result never changes afterwards, and no datagram that was in the
\* socket when the query drained it is taken for its answer, unless there were more
\* than the drain reads, or an empty one or an error of the socket stopped it
\* (core.py:38-57, 194-275).
AnsweredOnce ==
    [][/\ result.status \in {"done", "failed"} => result' = result \/ result'.id > result.id
       /\ result.status = "flying" /\ result'.status = "done" =>
             /\ result'.seconds \in nset.times
             /\ stale = 0]_nvars

\* A query always ends, whatever the network does: in its answer, an error or the
\* timeout (core.py:245-293).
QueriesEnd == (udp = "open" /\ Flying /\ ~nset.closes) ~> ~Flying

\* "A factory-built client reopens on the next query" (core.py:298): no query is
\* refused because of one that lost its socket.
ReopensOnQuery == [][called' = "busy" /\ called # "busy" => udp = "open"]_nvars

================================================================================
