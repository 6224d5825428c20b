-------------------------------- MODULE MCLoop --------------------------------
(* What the loop schedules and what it schedules by: the runner with three      *)
(* programs, the sockets its wait() polls, tasks written as generators, a Rate   *)
(* and a Deadline on the tick ring, keys with their timers, and the key-value    *)
(* store that a task commits.  In a behaviour one of these sides is at work.     *)
EXTENDS Runner, PollSet, Generators, Timing, Buttons, KVStore

Handler3  == [service |-> FALSE, socket |-> FALSE, phased |-> FALSE,
              period |-> {3}, start |-> {}, count |-> {}]
Late2     == [Handler3 EXCEPT !.period = {2}, !.start = {1}]
Phased2   == [Handler3 EXCEPT !.phased = TRUE, !.period = {2}]
Phased3   == [Handler3 EXCEPT !.phased = TRUE, !.start = {1}]
EveryTick == [Handler3 EXCEPT !.period = {}]
Counted   == [Handler3 EXCEPT !.period = {2}, !.start = {0}, !.count = {2}]
OneShot   == [EveryTick EXCEPT !.start = {2}, !.count = {1}]
Service   == [EveryTick EXCEPT !.service = TRUE]
Polled    == [Service EXCEPT !.socket = TRUE]
GatedSvc  == [Handler3 EXCEPT !.service = TRUE]

\* Periods changed, cleared and restored, handlers that call tick().
TwoPeriodic ==
    [tasks |-> {"a", "b"},
     setup |-> "a" :> Handler3 @@ "b" :> Phased2 @@ "c" :> EveryTick,
     periods |-> {{}, {1}, {2}}, hints |-> {},
     ops |-> {"add", "remove", "set_period"}, faults |-> {"reenter"}]

\* Counted and one-shot tasks, removed and registered again.
TwoCounted ==
    [tasks |-> {"a", "b", "c"},
     setup |-> "a" :> Counted @@ "b" :> OneShot @@ "c" :> Phased3,
     periods |-> {}, hints |-> {}, ops |-> {"add", "remove"}, faults |-> {}]

\* Services with deadlines and sockets, checks that raise.
Mixed ==
    [tasks |-> {"a", "b", "c"},
     setup |-> "a" :> Late2 @@ "b" :> Polled @@ "c" :> GatedSvc,
     periods |-> {}, hints |-> {1, 3}, ops |-> {"add"}, faults |-> {"check"}]

AllPrograms == {TwoPeriodic, TwoCounted, Mixed}

--------------------------------------------------------------------------------
NoneReadBoth == {{}, {"read"}, {"read", "write"}}

Yields(op, ms, sig) == [op |-> op, ms |-> ms, sig |-> sig]
Program(others, tasks) == [task |-> tasks, others |-> others]

\* A signal waited for twice, with a bound and without, beside a task that sleeps
\* and reads; two bounded waits beside a service with a socket; a connect.
Sequential == Program(FALSE,
    << <<Yields("signal", {2}, 1), Yields("next", {}, 0), Yields("signal", {}, 1)>>,
       <<Yields("sleep", {1}, 0), Yields("transfer", {}, 0)>> >>)
Bounded == Program(TRUE,
    << <<Yields("signal", {2}, 1), Yields("sleep", {1}, 0)>>,
       <<Yields("signal", {3}, 2), Yields("next", {}, 0)>>,
       <<Yields("sleep", {2}, 0)>> >>)
Connects == Program(FALSE,
    << <<Yields("connect", {2}, 0), Yields("transfer", {}, 0)>>,
       <<Yields("sleep", {3}, 0), Yields("signal", {1}, 1)>> >>)

AllBodies == {Sequential, Bounded, Connects}

--------------------------------------------------------------------------------
KeySetup(count, matrix, ringDepth, settle, long, repeat, click, prompt, flips, horizon) ==
    [keys |-> count, matrix |-> matrix, ringDepth |-> ringDepth, settle |-> settle, long |-> long,
     repeat |-> repeat, delay |-> 2, click |-> click, prompt |-> prompt, flips |-> flips, horizon |-> horizon]

\* A small ring that loses edges; every timer under a loop that keeps up; the same
\* under one that is late; two keys on a ring; two keys in a matrix; clicks alone.
Timed  == KeySetup(1, FALSE, 4, 1, 3, 2, 3, TRUE, 6, 9)
Bouncy == KeySetup(1, FALSE, 3, 2, 3, 0, 2, FALSE, 4, 6)
TwoKey == KeySetup(2, FALSE, 3, 1, 0, 0, 0, FALSE, 2, 2)
Matrix == KeySetup(2, TRUE, 3, 1, 0, 0, 2, FALSE, 3, 3)
Clicks == KeySetup(1, FALSE, 4, 0, 0, 0, 1, FALSE, 3, 4)

AllKeySetups == {Timed, Bouncy, TwoKey, Matrix, Clicks}

--------------------------------------------------------------------------------
VARIABLE side    \* which side is at work

LoopVars == <<side, vars, pollVars, genVars, timingVars, bvars, storeVars>>
Sides == {"runner", "poll", "generators", "timing", "buttons", "store"}

\* The sides that rest are in one of their initial states.
LoopInit ==
    /\ side \in Sides
    /\ Init /\ PollSetInit /\ GeneratorsInit /\ TimingInit /\ ButtonsInit /\ StoreInit
    /\ side # "runner" => program = TwoPeriodic
    /\ side # "poll" => keyedBy = "descriptor"
    /\ side # "generators" => bodies = Connects
    /\ side # "timing" => now = 0 /\ ratePeriod = Min(RatePeriods) /\ dlPeriod = Min(Spans)
    /\ side # "store" => backend = "nvm" /\ capacity = 0
    /\ side # "buttons" => bset = Clicks /\ pins[1].level = 0

\* The buttons' run is over at its horizon; nothing else stops.
Over == side = "buttons" /\ clock = bset.horizon /\ UNCHANGED LoopVars

LoopNext ==
    \/ side = "runner" /\ Next /\ UNCHANGED <<side, pollVars, genVars, timingVars, bvars, storeVars>>
    \/ side = "poll" /\ PollSetNext /\ UNCHANGED <<side, vars, genVars, timingVars, bvars, storeVars>>
    \/ side = "generators" /\ GeneratorsNext /\ UNCHANGED <<side, vars, pollVars, timingVars, bvars, storeVars>>
    \/ side = "timing" /\ TimingNext /\ UNCHANGED <<side, vars, pollVars, genVars, bvars, storeVars>>
    \/ side = "buttons" /\ ButtonsNext /\ UNCHANGED <<side, vars, pollVars, genVars, timingVars, storeVars>>
    \/ side = "store" /\ StoreNext /\ UNCHANGED <<side, vars, pollVars, genVars, timingVars, bvars>>
    \/ Over

LoopSpec == LoopInit /\ [][LoopNext]_LoopVars
================================================================================
