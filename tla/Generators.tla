------------------------------ MODULE Generators ------------------------------
(***************************************************************************)
(* Tasks written as generators, on the runner's loop:                       *)
(* Runner.add_generator and its wrapper (runner/.../_generator.py), and the  *)
(* waits such a task may yield: sleep_until (runner/.../generators.py), a    *)
(* Signal through wait_for (timing/.../waits.py), a socket through send_all  *)
(* and recv_until, and a connector through connect (sockets/.../generators.py). *)
(*                                                                         *)
(* A body is a list of such steps.  Runner holds the schedule itself; here a *)
(* tick checks all tasks at once, and time passes before a tick and in its   *)
(* sleep.  Deadlines are kept as the milliseconds left before them.          *)
(***************************************************************************)
EXTENDS Integers, SequencesExt, Connector

CONSTANT Bodies    \* the programs: see BodiesType

\* What a body does at a step: a bare yield, sleep_until(), wait_for(), socket
\* I/O, connect(); its bound if it has one; and the signal it waits for.
StepType == [op  : {"next", "sleep", "signal", "transfer", "connect"},
             ms  : SUBSET (Nat \ {0}),
             sig : Nat]

\* The tasks in the order they are added, and whether another service has a
\* socket registered.  A Signal is a one-slot token: one task waits on it.
BodiesType == [task : Seq(Seq(StepType)), others : BOOLEAN]

ASSUME BodiesAssumption ==
    \A b \in Bodies :
        /\ b \in BodiesType
        /\ \A g \in DOMAIN b.task : \A i \in DOMAIN b.task[g] :
              /\ b.task[g][i].op = "sleep" => b.task[g][i].ms # {}
              /\ b.task[g][i].op = "signal" =>
                    \A h \in DOMAIN b.task \ {g} : \A j \in DOMAIN b.task[h] :
                        b.task[h][j].op = "signal" => b.task[h][j].sig # b.task[g][i].sig

VARIABLES
    bodies,     \* the program that runs
    gpc,        \* tick: before a tick; fire: its batch; wait: before the sleep; asleep
    batch,      \* the rest of the tick's batch, which fires in the order of the tasks
    at,         \* the step a task is suspended at: 0 not added, past the last when done
    bound,      \* milliseconds to the end of its wait, {} for none; at most 1 past it
    conn,       \* the connector it drives
    isSet,      \* Signal.is_set
    slot,       \* milliseconds to Signal._deadline_ms
    wakeIn,     \* milliseconds of sleep left, {} when it waits for an event alone
    fresh       \* history: the signals set since the checks of the last tick

genVars == <<bodies, gpc, batch, at, bound, conn, isSet, slot, wakeIn, fresh>>
waits == <<at, bound, conn, slot>>

Final(g) == Len(bodies.task[g])
Suspended(g) == at[g] \in 1 .. Final(g)
Here(g) == bodies.task[g][at[g]]
At(g, op) == Suspended(g) /\ Here(g).op = op

SignalsOf(b) == {step.sig : step \in UNION {ToSet(b.task[g]) : g \in DOMAIN b.task}}

\* What conn holds while there is nothing to connect.
NoConnector == NewConnector("cpython", FALSE)

GeneratorsInit ==
    /\ bodies \in Bodies
    /\ gpc = "tick"
    /\ batch = {}
    /\ at = [g \in DOMAIN bodies.task |-> 0]
    /\ bound = [g \in DOMAIN bodies.task |-> {}]
    /\ conn = [g \in DOMAIN bodies.task |-> NoConnector]
    /\ isSet = [s \in SignalsOf(bodies) |-> FALSE]
    /\ slot = [s \in SignalsOf(bodies) |-> {}]
    /\ wakeIn = {}
    /\ fresh = {}

Due(deadlines) == \E d \in deadlines : d <= 0

--------------------------------------------------------------------------------
\* The bodies, as send(), throw() and close() drive them.

\* wait_for() returns without a yield when the signal is set already, I/O that
\* need not wait goes through, and a body may catch what connect() raises.
Returns(step) == step.op = "signal" /\ isSet[step.sig]
MayReturn(step) == Returns(step) \/ step.op \in {"transfer", "connect"}

\* Mutant: wait_for() without its finally.
SlotKept(g, j) ==
    [s \in DOMAIN slot |->
        IF \E step \in {bodies.task[g][i] : i \in {j} \cap (1 .. Final(g))} :
              step.op = "signal" /\ step.sig = s
        THEN bodies.task[g][j].ms ELSE slot[s]]

\* A task leaves its step for step j: wait_for()'s finally takes its deadline
\* off the signal, and the next wait_for() puts its own there.
SlotsAt(g, j) ==
    [s \in DOMAIN slot |->
        IF \E step \in {bodies.task[g][i] : i \in {j} \cap (1 .. Final(g))} :
              step.op = "signal" /\ step.sig = s
        THEN bodies.task[g][j].ms
        ELSE IF At(g, "signal") /\ Here(g).sig = s THEN {} ELSE slot[s]]

\* The body goes on from step i to the next one it suspends at.
GoesOn(g, i) ==
    \E j \in i .. Final(g) + 1 :
        /\ \A k \in i .. j - 1 : MayReturn(bodies.task[g][k])
        /\ j <= Final(g) => ~Returns(bodies.task[g][j])
        /\ at' = [at EXCEPT ![g] = j]
        /\ bound' = [bound EXCEPT ![g] = IF j <= Final(g) THEN bodies.task[g][j].ms ELSE {}]
        /\ slot' = SlotsAt(g, j)
        /\ \E k \in IF j <= Final(g) /\ bodies.task[g][j].op = "connect"
                    THEN CPythonTick(NoConnector) ELSE {NoConnector} :
              conn' = [conn EXCEPT ![g] = k]

\* return, an exception nobody catches, GeneratorExit: done, and off the list.
Ends(g) == GoesOn(g, Final(g) + 1)

\* An exception, which the body catches and goes on, or dies of.
Raises(g) == GoesOn(g, at[g] + 1) \/ Ends(g)

StaysSuspended == UNCHANGED waits

ResumeFromYield(g) == (At(g, "next") \/ At(g, "sleep")) /\ GoesOn(g, at[g] + 1)

\* wait_for(): a signal cleared since the check leaves it where it is, or ends
\* the wait if its time has come.
ResumeFromSignal(g) ==
    /\ At(g, "signal")
    /\ \/ isSet[Here(g).sig] /\ GoesOn(g, at[g] + 1)
       \/ ~isSet[Here(g).sig] /\ Due(bound[g]) /\ Raises(g)
       \/ ~isSet[Here(g).sig] /\ ~Due(bound[g]) /\ StaysSuspended

\* send_all() and recv_until(): EAGAIN again, through, or an error.
ResumeTransfer(g) ==
    At(g, "transfer") /\ (StaysSuspended \/ GoesOn(g, at[g] + 1) \/ Raises(g))

\* connect() ticks its connector and looks at its state before the time.
ResumeConnect(g) ==
    /\ At(g, "connect")
    /\ \E k \in TickConnector(conn[g]) :
          \/ k.st = "ready" /\ GoesOn(g, at[g] + 1)
          \/ k.st = "failed" /\ Raises(g)
          \/ k.st \notin ConnectorTerminal /\ Due(bound[g]) /\ Raises(g)
          \/ /\ k.st \notin ConnectorTerminal /\ ~Due(bound[g])
             /\ conn' = [conn EXCEPT ![g] = k]
             /\ UNCHANGED <<at, bound, slot>>

\* A task cancelled after the checks has ended: send() finds nothing to resume.
ResumeEnded(g) == ~Suspended(g) /\ StaysSuspended

--------------------------------------------------------------------------------
\* The wrapper, a service with the hooks of the wait its task is suspended at.

\* A connector has a socket only once its first phases are over.
IoSocket(g) ==
    At(g, "transfer") \/ (At(g, "connect") /\ conn[g].sock # "none")

\* Mutant: only sleeps bound the idle time.
SleepsOnly(g) == IF At(g, "sleep") THEN bound[g] ELSE {}

\* Socket waits and connectors name no deadline.
NextDeadline(g) ==
    IF At(g, "sleep") THEN bound[g]
    ELSE IF At(g, "signal") THEN slot[Here(g).sig]
    ELSE {}

Check(g) ==
    /\ Suspended(g)
    /\ \/ IoSocket(g)
       \/ At(g, "signal") /\ (isSet[Here(g).sig] \/ Due(NextDeadline(g)))
       \/ At(g, "sleep") /\ Due(NextDeadline(g))
       \/ At(g, "next") \/ At(g, "connect")

GenTick ==
    /\ gpc = "tick"
    /\ gpc' = "fire"
    /\ batch' = {g \in DOMAIN bodies.task : Check(g)}
    /\ fresh' = {}
    /\ UNCHANGED <<bodies, waits, isSet, wakeIn>>

Resume ==
    /\ gpc = "fire" /\ batch # {}
    /\ LET g == Min(batch)
       IN  /\ \/ ResumeFromYield(g) \/ ResumeFromSignal(g) \/ ResumeTransfer(g)
              \/ ResumeConnect(g) \/ ResumeEnded(g)
           /\ batch' = batch \ {g}
    /\ UNCHANGED <<bodies, gpc, isSet, wakeIn, fresh>>

GenTickReturns ==
    /\ gpc = "fire" /\ batch = {}
    /\ gpc' = "wait"
    /\ UNCHANGED <<bodies, batch, waits, isSet, wakeIn, fresh>>

\* What other handlers and the program's loop do.
CodeRuns == gpc # "asleep" /\ UNCHANGED <<bodies, gpc, batch, wakeIn>>

\* add_generator() runs the body to its first yield.
AddGenerator(g) ==
    /\ CodeRuns /\ at[g] = 0
    /\ \A h \in DOMAIN bodies.task : h < g => at[h] # 0
    /\ GoesOn(g, 1)
    /\ UNCHANGED <<isSet, fresh>>

\* GeneratorHandle.cancel()
Cancel(g) == CodeRuns /\ Suspended(g) /\ Ends(g) /\ UNCHANGED <<isSet, fresh>>

SetSignal(s) ==
    /\ CodeRuns
    /\ isSet' = [isSet EXCEPT ![s] = TRUE]
    /\ fresh' = fresh \cup {s}
    /\ UNCHANGED waits

ClearSignal(s) ==
    /\ CodeRuns
    /\ isSet' = [isSet EXCEPT ![s] = FALSE]
    /\ UNCHANGED <<waits, fresh>>

--------------------------------------------------------------------------------
\* The runner's wait().

NamedDeadlines == UNION {NextDeadline(g) : g \in DOMAIN bodies.task}
PollsSocket == bodies.others \/ \E g \in DOMAIN bodies.task : IoSocket(g)

\* A deadline has come, or there is nothing to wait for.
GenWaitReturns ==
    /\ gpc = "wait"
    /\ Due(NamedDeadlines) \/ (NamedDeadlines = {} /\ ~PollsSocket)
    /\ gpc' = "tick"
    /\ UNCHANGED <<bodies, batch, waits, isSet, wakeIn, fresh>>

GenWaitSleeps ==
    /\ gpc = "wait"
    /\ ~Due(NamedDeadlines) /\ (NamedDeadlines # {} \/ PollsSocket)
    /\ gpc' = "asleep"
    /\ wakeIn' = IF NamedDeadlines = {} THEN {} ELSE {Min(NamedDeadlines)}
    /\ UNCHANGED <<bodies, batch, waits, isSet, fresh>>

\* A millisecond passes, in the sleep or in the program.
Later(deadlines) == {Max({d - 1, -1}) : d \in deadlines}

Passes ==
    /\ gpc = "tick" \/ (gpc = "asleep" /\ 0 \notin wakeIn)
    /\ bound' = [g \in DOMAIN bound |-> Later(bound[g])]
    /\ slot' = [s \in DOMAIN slot |-> Later(slot[s])]
    /\ wakeIn' = Later(wakeIn)
    /\ UNCHANGED <<bodies, gpc, batch, at, conn, isSet, fresh>>

\* The time is up, or a socket has an event.
GenWakes ==
    /\ gpc = "asleep" /\ (0 \in wakeIn \/ PollsSocket)
    /\ gpc' = "tick" /\ wakeIn' = {}
    /\ UNCHANGED <<bodies, batch, waits, isSet, fresh>>

\* io_error(): an error on a task's socket is thrown into it.
GenIoError(g) ==
    /\ gpc = "asleep" /\ IoSocket(g)
    /\ gpc' = "tick" /\ wakeIn' = {}
    /\ Raises(g)
    /\ UNCHANGED <<bodies, batch, isSet, fresh>>

GeneratorsNext ==
    \/ GenTick \/ Resume \/ GenTickReturns
    \/ GenWaitReturns \/ GenWaitSleeps \/ Passes \/ GenWakes
    \/ \E g \in DOMAIN bodies.task : AddGenerator(g) \/ Cancel(g) \/ GenIoError(g)
    \/ \E s \in DOMAIN isSet : SetSignal(s) \/ ClearSignal(s)

GeneratorsSpec == GeneratorsInit /\ [][GeneratorsNext]_genVars

--------------------------------------------------------------------------------
\* A task that waits is resumed when what it waits for has come, whatever the
\* other tasks and callbacks of the same tick do.  When a tick is over no sleep
\* or bounded wait_for() is past its time, and no task waits on a signal that
\* was set before the tick; the loop never sleeps past such a bound; and a
\* signal carries a deadline only for the task that waits on it.
TasksResume ==
    /\ gpc = "wait" => \A g \in DOMAIN bodies.task :
          /\ At(g, "sleep") \/ At(g, "signal") => ~Due(bound[g])
          /\ At(g, "signal") /\ isSet[Here(g).sig] => Here(g).sig \in fresh
    /\ gpc = "asleep" => \A g \in DOMAIN bodies.task :
          At(g, "sleep") \/ At(g, "signal") => -1 \notin bound[g]
    /\ \A s \in DOMAIN slot : slot[s] # {} =>
          \E g \in DOMAIN bodies.task :
              At(g, "signal") /\ Here(g).sig = s /\ bound[g] = slot[s]

\* "timeout_ms: Deadline in ms for the whole connect" (sockets/.../generators.py:22):
\* the loop does not sleep through it.  It does: a connector names no deadline, so
\* with its socket registered and nothing else due wait() waits for an event alone.
ConnectTimesOut ==
    gpc = "asleep" =>
        \A g \in DOMAIN bodies.task : At(g, "connect") => -1 \notin bound[g]
================================================================================
