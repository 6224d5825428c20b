------------------------------ MODULE Cadence -------------------------------
(***************************************************************************)
(* What Deadline and Rate promise, in true milliseconds that never wrap:   *)
(* a deadline is due when its time has run out, and a rate fires at most   *)
(* once per period, always on the grid it was anchored to, however late it *)
(* is asked.  Only when it is asked almost a Reach late may it refuse, and *)
(* then it changes nothing.                                                *)
(***************************************************************************)
EXTENDS Integers

CONSTANT Reach   \* schedules are never moved by this much or more

VARIABLES
    period,   \* of the rate
    toFire,   \* milliseconds to its next scheduled fire, negative when late
    left,     \* milliseconds to the deadline, negative when past
    answer    \* what the last call answered

Said(word) == <<word, 0>>

Init ==
    /\ period \in Nat \ {0}
    /\ toFire = period
    /\ left \in Nat
    /\ answer = Said("none")

Elapse ==
    /\ toFire' < toFire
    /\ toFire - toFire' = left - left'
    /\ answer' = Said("none")
    /\ UNCHANGED period

\* On the grid: the next fire moves by whole periods, to the first grid point
\* still ahead.
Fire ==
    /\ toFire <= 0
    /\ toFire' \in 1 .. period
    /\ (toFire' - toFire) % period = 0
    /\ answer' = Said("fired")
    /\ UNCHANGED <<period, left>>

Refuse ==
    /\ toFire <= 0
    /\ period - toFire >= Reach
    /\ answer' = Said("overflow")
    /\ UNCHANGED <<period, toFire, left>>

Quiet ==
    /\ toFire > 0
    /\ answer' = Said("quiet")
    /\ UNCHANGED <<period, toFire, left>>

\* A reset may be anchored at a clock read later than the pass's timestamp,
\* never at an earlier one.
Reset ==
    /\ toFire' >= period
    /\ answer' = Said("none")
    /\ UNCHANGED <<period, left>>

Arm ==
    /\ left' >= 0
    /\ answer' = Said("none")
    /\ UNCHANGED <<period, toFire>>

\* expired() and remaining()
Ask ==
    /\ answer' = IF left > 0 THEN <<"armed", left>> ELSE Said("expired")
    /\ UNCHANGED <<period, toFire, left>>

Next == Elapse \/ Fire \/ Refuse \/ Quiet \/ Reset \/ Arm \/ Ask

vars == <<period, toFire, left, answer>>

Spec == Init /\ [][Next]_vars

=============================================================================
