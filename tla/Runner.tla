------------------------------- MODULE Runner -------------------------------
(***************************************************************************)
(* The cooperative scheduler (runner/src/chumicro_runner/core.py): tick()  *)
(* collects the due entries, fires them as a batch, and wait() idles until *)
(* the nearest deadline or a socket event.                                 *)
(*                                                                         *)
(* Handlers and the application's loop run between the runner's own steps  *)
(* and may call any of its operations, so a tick is one step per entry it  *)
(* checks, one per handler it fires and one per call a handler makes.      *)
(* Checks are taken to be pure and instantaneous.                          *)
(*                                                                         *)
(* Absolute ticks are kept as the signed milliseconds left before them     *)
(* (negative when late): TimingProofs shows that the ring agrees.  What    *)
(* the source keeps as "a value or None" is a set of at most one value.    *)
(***************************************************************************)
EXTENDS Integers, SequencesExt

CONSTANTS
    Tasks,       \* the task handles that may be registered
    Programs,    \* the programs that use the runner, see ProgramType
    MaxBusy,     \* bound: milliseconds handlers and application use per cycle
    MaxAborts    \* bound: how many exceptions escape from tick()

SetupType == [service : BOOLEAN,       \* an object with check(), not a handler
              socket  : BOOLEAN,       \* a service that offers an io_socket
              phased  : BOOLEAN,       \* preserve_phase
              period  : SUBSET Nat,    \* period_ms
              start   : SUBSET Nat,    \* start_after_ms
              count   : SUBSET Nat]    \* run_count

\* A program has these tasks, each registered with its arguments; calls these
\* operations, set_period() with these arguments ({} or {p}); has services
\* that arm a next_deadline this far ahead; and fails in these ways.
ProgramType == [tasks   : SUBSET Tasks,
                setup   : [Tasks -> SetupType],
                periods : SUBSET SUBSET Nat,
                hints   : SUBSET Nat,
                ops     : SUBSET {"add", "remove", "set_period"},
                faults  : SUBSET {"reenter", "check"}]

Lengths(g) == {0} \cup UNION (g.periods \cup {g.setup[t].period : t \in Tasks})

\* Runner.add() raises ValueError for anything else, and ticks_add() for a period of half
\* the tick ring, so that a program has a longest period.
ASSUME RunnerAssumption ==
    /\ Programs \subseteq ProgramType
    /\ \A g \in Programs :
          /\ \A t \in Tasks :
                /\ \A s \in {g.setup[t].period, g.setup[t].start, g.setup[t].count} :
                      \A x, y \in s : x = y
                /\ 0 \notin g.setup[t].period \cup g.setup[t].count
                /\ g.setup[t].phased => g.setup[t].period # {}
                /\ g.setup[t].socket => g.setup[t].service
          /\ \A p \in g.periods : 0 \notin p /\ \A x, y \in p : x = y
          /\ 0 \notin g.hints
          /\ \E longest \in Lengths(g) : \A p \in Lengths(g) : p <= longest
    /\ MaxBusy \in Nat
    /\ MaxAborts \in Nat

VARIABLES
    program,    \* the program that runs
    pc,         \* what runs: tick, check, fire, handler or wait
    entries,    \* Runner._entries
    cursor,     \* the entry tick() checks next
    pending,    \* the rest of this tick's batch, the running entry first
    period,     \* TaskHandle.period_ms
    due,        \* milliseconds to TaskHandle.next_due_ms
    runs,       \* TaskHandle.run_count
    active,     \* TaskHandle.active
    hint,       \* milliseconds to what the service's next_deadline() answers
    busy,       \* milliseconds since the tick's timestamp now_ms
    aborts,     \* exceptions that have escaped from tick()
    lateBy,     \* history: how long the last cycle kept the loop from sleeping
    since,      \* history: milliseconds since the tick that last fired a task
    grid,       \* history: milliseconds since a phased task's first due, mod period
    fires       \* history: completed fires of a counted task

schedule == <<period, due, runs, active, hint>>
history  == <<lateBy, since, grid, fires>>
vars     == <<program, pc, entries, cursor, pending, schedule, busy, aborts, history>>

Setup   == program.setup
Periods == program.periods
Hints   == program.hints
Ops     == program.ops
Faults  == program.faults

Gated(t) == Setup[t].period # {} \/ Setup[t].start # {}

The(s) == CHOOSE x \in s : TRUE

Registered == ToSet(entries)

LongAgo == 1 + MaxBusy + Max(Lengths(program))

Init ==
    /\ program \in Programs
    /\ pc = "tick"
    /\ entries = <<>>
    /\ cursor = 1
    /\ pending = <<>>
    /\ period = [t \in Tasks |-> {}]
    /\ due = [t \in Tasks |-> {}]
    /\ runs = [t \in Tasks |-> {}]
    /\ active = [t \in Tasks |-> FALSE]
    /\ hint = [t \in Tasks |-> {}]
    /\ busy = 0
    /\ aborts = 0
    /\ lateBy = 0
    /\ since = [t \in Tasks |-> LongAgo]
    /\ grid = [t \in Tasks |-> 0]
    /\ fires = [t \in Tasks |-> 0]

\* The clock moves on by ms.
Elapse(ms) ==
    /\ due' = [t \in Tasks |-> {d - ms : d \in due[t]}]
    /\ hint' = [t \in Tasks |-> {h - ms : h \in hint[t]}]
    /\ since' = [t \in Tasks |-> Min({since[t] + ms, LongAgo})]
    /\ grid' = [t \in Tasks |->
                   IF Setup[t].phased /\ period[t] # {}
                   THEN (grid[t] + ms) % The(period[t]) ELSE 0]

-----------------------------------------------------------------------------
\* Operations of the runner, called by the application before and after a
\* tick and by the handler that is running.

CanCall == pc \in {"tick", "handler", "wait"}

\* _initial_next_due_ms: start_after_ms overrides the first period.
FirstDue(t) == IF Setup[t].start # {} THEN Setup[t].start ELSE Setup[t].period

\* add() makes a new handle; a slot is free once nothing refers to its handle.
Add(t) ==
    /\ "add" \in Ops
    /\ t \in program.tasks
    /\ CanCall
    /\ ~active[t]
    /\ \A i \in DOMAIN pending : pending[i] # t
    /\ entries' = Append(entries, t)
    /\ period' = [period EXCEPT ![t] = Setup[t].period]
    /\ due' = [due EXCEPT ![t] = FirstDue(t)]
    /\ runs' = [runs EXCEPT ![t] = Setup[t].count]
    /\ active' = [active EXCEPT ![t] = TRUE]
    /\ hint' = [hint EXCEPT ![t] = {}]
    /\ since' = [since EXCEPT ![t] = LongAgo]
    /\ grid' = [grid EXCEPT ![t] =
                   IF Setup[t].phased THEN (-The(FirstDue(t))) % The(period'[t]) ELSE 0]
    /\ fires' = [fires EXCEPT ![t] = 0]
    /\ UNCHANGED <<pc, cursor, pending, busy, aborts, lateBy>>

\* _remove: entries that are already collected stay in the batch.  What the
\* handle keeps of its schedule is never read again.
Unlist(t) ==
    /\ entries' = IF \E i \in DOMAIN entries : entries[i] = t
                  THEN RemoveAt(entries, CHOOSE i \in DOMAIN entries : entries[i] = t)
                  ELSE entries
    /\ active' = [active EXCEPT ![t] = FALSE]
    /\ due' = [due EXCEPT ![t] = {}]
    /\ hint' = [hint EXCEPT ![t] = {}]

RemoveTask(t) ==
    /\ "remove" \in Ops
    /\ CanCall
    /\ active[t]
    /\ Unlist(t)
    /\ UNCHANGED <<pc, cursor, pending, period, runs, busy, aborts, history>>

\* set_period(): from a fresh clock read, or from the tick's own timestamp.
\* A service that arms deadlines of its own is not given a period as well.
SetPeriod(t, p, anchor) ==
    /\ "set_period" \in Ops
    /\ CanCall
    /\ active[t]
    /\ Setup[t].service => Gated(t)
    /\ period' = [period EXCEPT ![t] = p]
    /\ due' = [due EXCEPT ![t] = {x - anchor : x \in p}]
    /\ grid' = [grid EXCEPT ![t] =
                   IF Setup[t].phased /\ p # {} THEN anchor % The(p) ELSE 0]
    /\ UNCHANGED <<pc, entries, cursor, pending, runs, active, hint, busy,
                   aborts, lateBy, since, fires>>

\* Handlers and the application take time.
Spend(ms) ==
    /\ pc \in {"handler", "wait"}
    /\ busy + ms <= MaxBusy
    /\ Elapse(ms)
    /\ busy' = busy + ms
    /\ UNCHANGED <<pc, entries, cursor, pending, period, runs, active, aborts,
                   lateBy, fires>>

-----------------------------------------------------------------------------
\* tick()

\* A plausible bug: the next fire is scheduled from the last one's due time.
FromLastDue(t) ==
    IF due[t] = {} \/ period[t] = {} THEN {}
    ELSE {The(due[t]) + The(period[t])}

Ready(t) == \A d \in due[t] : d <= 0

\* The schedule after the gate has let an entry through.
NextDue(t) ==
    IF due[t] = {} \/ period[t] = {} THEN {}
    ELSE LET p == The(period[t])
             d == The(due[t])
         IN  IF Setup[t].phased THEN {d + ((-d) \div p + 1) * p} ELSE {p}

Tick ==
    /\ pc = "tick"
    /\ pc' = "check"
    /\ cursor' = 1
    /\ busy' = 0
    /\ UNCHANGED <<entries, pending, schedule, aborts, history>>

\* The entry passes the gate and is rescheduled before its check runs.
PassGate(t) ==
    /\ pc = "check"
    /\ cursor <= Len(entries)
    /\ t = entries[cursor]
    /\ Ready(t)
    /\ due' = [due EXCEPT ![t] = NextDue(t)]

NotReady(t) ==
    /\ pc = "check"
    /\ cursor <= Len(entries)
    /\ t = entries[cursor]
    /\ ~Ready(t)
    /\ cursor' = cursor + 1
    /\ UNCHANGED <<pc, entries, pending, schedule, busy, aborts, history>>

CheckPasses(t) ==
    /\ PassGate(t)
    /\ pending' = Append(pending, t)
    /\ cursor' = cursor + 1
    /\ UNCHANGED <<pc, entries, period, runs, active, hint, busy, aborts, history>>

\* A service whose own deadline has come does not answer no.
CheckFails(t) ==
    /\ Setup[t].service
    /\ \A h \in hint[t] : h > 0
    /\ PassGate(t)
    /\ cursor' = cursor + 1
    /\ UNCHANGED <<pc, entries, pending, period, runs, active, hint, busy,
                   aborts, history>>

\* A check raises out of tick(): the entries after it are not looked at and
\* nothing that was collected fires.
CheckRaises(t) ==
    /\ "check" \in Faults
    /\ aborts < MaxAborts
    /\ Setup[t].service
    /\ PassGate(t)
    /\ aborts' = aborts + 1
    /\ pending' = <<>>
    /\ pc' = "tick"
    /\ UNCHANGED <<entries, cursor, period, runs, active, hint, busy, history>>

ChecksDone ==
    /\ pc = "check"
    /\ cursor > Len(entries)
    /\ pc' = "fire"
    /\ UNCHANGED <<entries, cursor, pending, schedule, busy, aborts, history>>

Fire ==
    /\ pc = "fire"
    /\ pending # <<>>
    /\ pc' = "handler"
    /\ since' = [since EXCEPT ![Head(pending)] = busy]
    /\ UNCHANGED <<entries, cursor, pending, schedule, busy, aborts, lateBy, grid,
                   fires>>

\* The handler of a service re-arms its own next_deadline().
Arm(h) ==
    /\ pc = "handler"
    /\ Setup[Head(pending)].service
    /\ ~Gated(Head(pending))
    /\ active[Head(pending)]
    /\ hint' = [hint EXCEPT ![Head(pending)] = h]
    /\ UNCHANGED <<pc, entries, cursor, pending, period, due, runs, active, busy,
                   aborts, history>>

\* A plausible bug: one fire too many.
SpentTooLate(t) == \E n \in runs[t] : n <= 0

Spent(t) == \E n \in runs[t] : n <= 1

\* The handler returns, or raises an Exception that the runner isolates: the
\* fire counts either way.  A service drops its deadlines that have come.
HandlerEnds ==
    LET t == Head(pending)
    IN  /\ pc = "handler"
        /\ runs' = [runs EXCEPT ![t] = {n - 1 : n \in runs[t]}]
        /\ IF Spent(t) THEN Unlist(t)
           ELSE /\ hint' = [hint EXCEPT ![t] = {h \in hint[t] : h + busy > 0}]
                /\ UNCHANGED <<entries, active, due>>
        /\ pending' = Tail(pending)
        /\ pc' = "fire"
        /\ fires' = [fires EXCEPT ![t] = IF runs[t] = {} THEN 0 ELSE fires[t] + 1]
        /\ UNCHANGED <<cursor, period, busy, aborts, lateBy, since, grid>>

\* The handler calls tick(), or is interrupted: the exception leaves tick(),
\* the rest of the batch is dropped and the fire does not count.
Reenter ==
    /\ "reenter" \in Faults
    /\ aborts < MaxAborts
    /\ pc = "handler"
    /\ aborts' = aborts + 1
    /\ pending' = <<>>
    /\ pc' = "tick"
    /\ lateBy' = lateBy + busy
    /\ busy' = 0
    /\ UNCHANGED <<entries, cursor, schedule, since, grid, fires>>

TickReturns ==
    /\ pc = "fire"
    /\ pending = <<>>
    /\ pc' = "wait"
    /\ UNCHANGED <<entries, cursor, pending, schedule, busy, aborts, history>>

-----------------------------------------------------------------------------
\* wait(now_ms), with the timestamp tick() returned

Deadlines == UNION {due[t] \cup hint[t] : t \in Registered}

\* A plausible bug: the comparison the wrong way round.
FarthestDeadline == Max({d + busy : d \in Deadlines})

\* _compute_timeout: measured from now_ms, not from the clock.
Timeout == Min({d + busy : d \in Deadlines})

HasSocket == \E t \in Registered : Setup[t].socket

\* The loop has slept for ms and goes back to tick().
Wake(ms) ==
    /\ Elapse(ms)
    /\ pc' = "tick"
    /\ lateBy' = busy
    /\ busy' = 0
    /\ UNCHANGED <<entries, cursor, pending, period, runs, active, aborts, fires>>

WaitReturns ==
    /\ pc = "wait"
    /\ IF Deadlines = {} THEN ~HasSocket ELSE Timeout <= 0
    /\ Wake(0)

WaitSleeps ==
    /\ pc = "wait"
    /\ Deadlines # {}
    /\ Timeout > 0
    /\ Wake(Timeout)

\* A socket event ends the poll early; without a deadline nothing else does.
WaitWoken(ms) ==
    /\ pc = "wait"
    /\ HasSocket
    /\ Deadlines # {} => ms < Timeout
    /\ Wake(ms)

-----------------------------------------------------------------------------
Operation ==
    \/ \E t \in Tasks : Add(t) \/ RemoveTask(t)
    \/ \E t \in Tasks, p \in Periods, anchor \in {0, busy} : SetPeriod(t, p, anchor)

Handler ==
    \/ \E ms \in 1 .. MaxBusy : Spend(ms)
    \/ \E h \in {{}} \cup {{x} : x \in Hints} : Arm(h)
    \/ HandlerEnds
    \/ Reenter

Loop ==
    \/ Tick
    \/ \E t \in Tasks :
          NotReady(t) \/ CheckPasses(t) \/ CheckFails(t) \/ CheckRaises(t)
    \/ ChecksDone
    \/ Fire
    \/ TickReturns
    \/ WaitReturns
    \/ WaitSleeps
    \/ \E ms \in 0 .. MaxBusy : WaitWoken(ms)

Next == (Operation \/ Handler \/ Loop) /\ UNCHANGED program

Spec == Init /\ [][Next]_vars

-----------------------------------------------------------------------------
\* However handlers, the application and the deadlines of other entries
\* interleave, every tick starts late by no more than the time the cycle
\* before it kept the loop busy: wait() never sleeps through a deadline
\* (_compute_timeout, wait).
OnTime ==
    pc = "tick" =>
        \A t \in Registered : \A d \in due[t] \cup hint[t] : d >= -lateBy

\* "fires stay aligned to the original schedule" under late ticks, skipped
\* fires and changed periods (preserve_phase; runner/docs/guide.md).
PhaseKept ==
    \A t \in Registered :
        Setup[t].phased /\ period[t] # {} =>
            \A d \in due[t] : (d + grid[t]) % The(period[t]) = 0

\* No schedule is slept through, whatever is armed while the tick's own time goes
\* by, and the schedule of a phased task stays on the grid of its first fire
\* however many fires are skipped (wait, _compute_timeout, tick).
OnSchedule == OnTime /\ PhaseKept

\* run_count bounds the completed fires, and a task is off the list exactly
\* when its last one is done, whoever else removed it meanwhile.
QuotaKept ==
    \A t \in Tasks : \A n \in Setup[t].count :
        /\ fires[t] <= n
        /\ active[t] => \A left \in runs[t] : fires[t] + left = n
        /\ fires[t] = n => ~active[t]

\* "fires are always at least `period_ms` apart" (runner/docs/guide.md): no
\* tick collects a plain periodic task within a period of its last fire.
FiresApart ==
    [][\A t \in Tasks :
          CheckPasses(t) /\ ~Setup[t].phased /\ due[t] # {} =>
              \A p \in period[t] : since[t] >= p]_vars

\* "Removed task should no longer be called." (runner/tests/
\* test_core_scheduling.py)
RemovedNeverFires ==
    [][pc = "fire" /\ pc' = "handler" => active[Head(pending)]]_vars

=============================================================================
