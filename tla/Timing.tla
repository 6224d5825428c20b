------------------------------- MODULE Timing -------------------------------
(***************************************************************************)
(* A Deadline and a Rate (timing/src/chumicro_timing/deadline.py) polled   *)
(* from a loop that reads the clock once per pass.                         *)
(***************************************************************************)
EXTENDS TickMath

CONSTANTS
    RatePeriods, \* the rate's period_ms, all below TICKS_HALFPERIOD
    Spans,       \* the deadline's period_ms
    Lead,        \* how far a fresh clock read may be ahead of the pass's now_ms
    Stall        \* bound: how late, in ms, a pass may ask about a scheduled fire

\* ticks_diff answers for timestamps less than half a period apart
\* (timing/docs/guide.md): Lead, Stall and the periods keep to that.
ASSUME TimingAssumption ==
    /\ RatePeriods \subseteq 1 .. (TICKS_HALFPERIOD - 1)
    /\ Spans \subseteq 0 .. (TICKS_HALFPERIOD - 1)
    /\ Lead \in Nat
    /\ \A p \in RatePeriods \cup Spans : Lead + p < TICKS_HALFPERIOD
    /\ Stall \in Nat
    /\ Stall < TICKS_HALFPERIOD

VARIABLES
    now,          \* now_ms, the tick this pass read
    ratePeriod,   \* Rate.period_ms
    rateNext,     \* Rate._next_due_ms
    dlPeriod,     \* Deadline.period_ms
    dlDue,        \* Deadline._due_ms
    answer        \* what the last call answered

rate       == <<ratePeriod, rateNext>>
deadline   == <<dlPeriod, dlDue>>
timingVars == <<now, rate, deadline, answer>>

Said(word) == <<word, 0>>

TimingInit ==
    /\ now \in Ticks
    /\ ratePeriod \in RatePeriods
    /\ rateNext = TicksAdd(now, ratePeriod)
    /\ dlPeriod \in Spans
    /\ dlDue = TicksAdd(now, dlPeriod)
    /\ answer = Said("none")

\* The next pass reads the clock.
Pass(ms) ==
    /\ TicksDiff(rateNext, now) - ms >= -Stall
    /\ TicksDiff(dlDue, now) - ms >= -Stall
    /\ now' = TicksAdd(now, ms)
    /\ answer' = Said("none")
    /\ UNCHANGED <<rate, deadline>>

\* A plausible bug: re-phase to the boundary just missed.
BoundaryJustMissed(behind) == behind \div ratePeriod

PeriodsMissed(behind) == behind \div ratePeriod + 1

RateQuiet ==
    /\ TicksDiff(now, rateNext) < 0
    /\ answer' = Said("quiet")
    /\ UNCHANGED <<now, rate, deadline>>

RateFires ==
    LET behind == TicksDiff(now, rateNext)
        ahead  == PeriodsMissed(behind) * ratePeriod
    IN  /\ behind >= 0
        /\ InReach(ahead)
        /\ rateNext' = TicksAdd(rateNext, ahead)
        /\ answer' = Said("fired")
        /\ UNCHANGED <<now, ratePeriod, deadline>>

\* ticks_add raises out of due() and the schedule stays where it was.
RateOverflows ==
    LET behind == TicksDiff(now, rateNext)
    IN  /\ behind >= 0
        /\ ~InReach(PeriodsMissed(behind) * ratePeriod)
        /\ answer' = Said("overflow")
        /\ UNCHANGED <<now, rate, deadline>>

RateReset(lead) ==
    /\ rateNext' = TicksAdd(TicksAdd(now, lead), ratePeriod)
    /\ answer' = Said("none")
    /\ UNCHANGED <<now, ratePeriod, deadline>>

DeadlineReset(lead) ==
    /\ dlDue' = TicksAdd(TicksAdd(now, lead), dlPeriod)
    /\ answer' = Said("none")
    /\ UNCHANGED <<now, rate, dlPeriod>>

Expired == TicksDiff(now, dlDue) >= 0

Remaining ==
    LET left == TicksDiff(dlDue, now)
    IN  IF left > 0 THEN left ELSE 0

AskDeadline ==
    /\ answer' = IF Expired THEN Said("expired") ELSE <<"armed", Remaining>>
    /\ UNCHANGED <<now, rate, deadline>>

TimingNext ==
    \/ \E ms \in 1 .. (TICKS_HALFPERIOD - 1) : Pass(ms)
    \/ RateQuiet
    \/ RateFires
    \/ RateOverflows
    \/ \E lead \in 0 .. Lead : RateReset(lead) \/ DeadlineReset(lead)
    \/ AskDeadline

TimingSpec == TimingInit /\ [][TimingNext]_timingVars
-----------------------------------------------------------------------------
\* The ring as the true clock sees it: signed distances from now.
True == INSTANCE Cadence WITH
            Reach  <- TICKS_HALFPERIOD,
            period <- ratePeriod,
            toFire <- TicksDiff(rateNext, now),
            left   <- TicksDiff(dlDue, now)

\* Deadline and Rate on the ring do what they promise in true time: expired()
\* and remaining() agree with the time that really passed, every re-phase of
\* due() lands on the first grid point after now, across any number of wraps,
\* and due() raises only for a rate asked more than half the ring less one
\* period late (deadline.py, ticks.py).
CadenceSpec == True!Spec

\* "If the loop stalls for longer than one period, the missed fires are
\* skipped rather than replayed back-to-back: due(now) returns True once and
\* the schedule jumps forward" (timing/docs/guide.md): due() never raises.
StallIsSkipped == answer # Said("overflow")

=============================================================================
