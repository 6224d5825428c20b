------------------------------ MODULE TickMath ------------------------------
(***************************************************************************)
(* The wrap-safe millisecond ring every library measures time on           *)
(* (timing/src/chumicro_timing/ticks.py).  The source masks with           *)
(* TICKS_PERIOD - 1, TICKS_PERIOD a power of two: that is % TICKS_PERIOD.  *)
(***************************************************************************)
EXTENDS Integers

CONSTANT TICKS_PERIOD   \* 2^29 in the source

ASSUME RingAssumption ==
    /\ TICKS_PERIOD \in Nat \ {0}
    /\ TICKS_PERIOD % 2 = 0

TICKS_HALFPERIOD == TICKS_PERIOD \div 2

Ticks == 0 .. (TICKS_PERIOD - 1)

\* ticks_add raises OverflowError for any other delta.
InReach(delta) == -TICKS_HALFPERIOD < delta /\ delta < TICKS_HALFPERIOD

TicksAdd(ticks, delta) == (ticks + delta) % TICKS_PERIOD

TicksDiff(end, start) ==
    LET diff == (end - start) % TICKS_PERIOD
    IN  ((diff + TICKS_HALFPERIOD) % TICKS_PERIOD) - TICKS_HALFPERIOD

=============================================================================
