------------------------------ MODULE MqttPace ------------------------------
(***************************************************************************)
(* MqttSystem under Runner.wait(): the runner sleeps to next_deadline(),   *)
(* or not at all when that is in the past.  What a tick found when it      *)
(* began, and what it did, tells why it may leave a deadline in the past.  *)
(***************************************************************************)
EXTENDS MqttSystem

VARIABLE tick    \* history: what the tick under way found and did; NoTick between ticks

NoTick == [asked |-> FALSE, crowded |-> FALSE, failed |-> FALSE]

\* A PINGRESP was awaited; more retransmissions were due than the queue had room for.
Begun ==
    [asked   |-> Waiting("pingresp"),
     crowded |-> Cardinality({i \in Ids : Expired(i)}) > HardCap - Len(txq),
     failed  |-> FALSE]

\* The tick has failed the client.
Noted ==
    tick' = IF pc' = "idle" THEN NoTick
            ELSE IF pc = "idle" THEN Begun
            ELSE [tick EXCEPT !.failed = @ \/ state' = "failed"]

PaceSpec == SystemInit /\ tick = NoTick /\ [][SystemNext /\ Noted]_<<vars, tick>>

-----------------------------------------------------------------------------
\* next_deadline(): the timers it takes the least of in a protocol state.
InProtocol     == state \in {"connecting", "connected"}
PingIsPast     == state = "connected" /\ KeepAlive /\ pingAt = 0
ResponseIsPast == InProtocol /\ Overdue # {}
RetryIsPast    == InProtocol /\ \E i \in Ids : Expired(i)
SendIsPast     == InProtocol /\ sendAt = 0

TickEnds == pc # "idle" /\ pc' = "idle"

\* After a tick no deadline is left in the past, where Runner.wait() would return
\* at once, tick after tick (client.py:754-755, 1290-1293), but for those the code
\* leaves there: a ping while the tick found a PINGRESP awaited; a retransmission
\* for which the queue had no room; and, when a late CONNACK revived the client
\* that the same tick had failed, the retransmissions not looked at and the send
\* deadline (next_deadline, _check_deadlines, _check_keepalive).
NoBusyWait ==
    [][TickEnds =>
          /\ ~ResponseIsPast'
          /\ PingIsPast' => tick.asked
          /\ RetryIsPast' => tick.crowded \/ tick.failed
          /\ SendIsPast' => tick.failed]_<<vars, tick>>

\* "rather than leaving the due-tick in the past, which would busy-spin wait()"
\* (client.py:1292-1293): no tick leaves the ping's there.
PingNeverSpins == [][TickEnds => ~PingIsPast']_<<vars, tick>>
=============================================================================
