------------------------------- MODULE Buttons -------------------------------
(***************************************************************************)
(* Keys read through a capture interrupt or a matrix scan                  *)
(* (buttons/_adapters/mp.py) and folded into presses, holds and clicks     *)
(* (buttons/core.py).  The pin interrupt may run between any two steps of  *)
(* the drain; one that fires while another is being served is latched and  *)
(* reads the level the pin has by then.                                    *)
(*                                                                         *)
(* Times are milliseconds of one clock (TickMath has the ring they wrap    *)
(* on); level 1 is the level of a pressed key.                             *)
(***************************************************************************)
EXTENDS Integers, Sequences, FiniteSets, FiniteSetsExt, SequencesExt

CONSTANT ButtonSetups

\* A setup: how many keys, how they are wired, the timings (0 disables one),
\* whether a pass of the loop comes in every millisecond, and the bounds:
\* flips of each pin and the length of the run.
ButtonSetupType ==
    [keys : Nat \ {0}, matrix : BOOLEAN, ringDepth : Nat \ {0}, settle : Nat, long : Nat,
     repeat : Nat, delay : Nat, click : Nat, prompt : BOOLEAN, flips : Nat, horizon : Nat]

ASSUME ButtonsAssumption == ButtonSetups \subseteq ButtonSetupType

VARIABLES
    bset,     \* the setup
    clock,    \* the clock, in ms
    pins,     \* per key: [level, flips left, latched: an interrupt is due]
    source,   \* MpButtonSource or MpKeyMatrixSource
    step,     \* where check() is: [at, key]
    keys,     \* the Button of each key
    seen      \* history of each key, for the properties

bvars == <<bset, clock, pins, source, step, keys, seen>>

AllKeys == 1 .. bset.keys
Unknown == -1
Step(at) == [at |-> at, key |-> 1]
Idle == step.at = "idle"

NewButton ==
    [pressed |-> 0, pressMs |-> 0, heldMs |-> 0, longFired |-> FALSE, repeatNext |-> 0,
     pendingClicks |-> 0, clickDeadline |-> 0, clickPending |-> FALSE, isClick |-> FALSE,
     clickCount |-> 0, news |-> {}]

NewSource(level) ==
    [ring |-> <<>>, overflowed |-> FALSE, dropped |-> FALSE, attached |-> ~bset.matrix,
     believed |-> [k \in AllKeys |-> 0],
     pending |-> [k \in AllKeys |-> IF bset.matrix THEN 0 ELSE level[k]],
     change |-> [k \in AllKeys |-> 0], sweep |-> 1, now |-> 0]

ButtonsInit ==
    /\ bset \in ButtonSetups
    /\ clock = 0
    /\ \E level \in [AllKeys -> {0, 1}] :
          /\ pins = [k \in AllKeys |-> [level |-> level[k], flips |-> bset.flips, latched |-> FALSE]]
          /\ source = NewSource(level)
    /\ step = Step("idle")
    /\ keys = [k \in AllKeys |-> NewButton]
    /\ seen = [k \in AllKeys |-> [calm |-> Unknown, clicks |-> 0, told |-> 0, holds |-> 0]]

--------------------------------------------------------------------------------
(* The pins and the interrupt                                                *)

NoneLatched == \A k \in AllKeys : ~pins[k].latched

\* Time passes; a prompt loop gets a pass in for every millisecond.
ClockRuns ==
    /\ clock < bset.horizon
    /\ NoneLatched
    /\ bset.prompt => Idle /\ source.now = clock
    /\ clock' = clock + 1
    /\ UNCHANGED <<bset, pins, source, step, keys, seen>>

Flip(k) ==
    /\ pins[k].flips > 0
    /\ pins' = [pins EXCEPT ![k] = [level |-> 1 - @.level, flips |-> @.flips - 1,
                                    latched |-> source.attached]]
    /\ seen' = [seen EXCEPT ![k].calm = Unknown]
    /\ UNCHANGED <<bset, clock, source, step, keys>>

Full == Len(source.ring) = bset.ringDepth - 1

\* Mutant: the loss is flagged for the caller only.
LossOnlyReported(k) ==
    IF Full THEN [source EXCEPT !.overflowed = TRUE]
    ELSE [source EXCEPT !.ring = Append(@, [key |-> k, level |-> pins[k].level, at |-> clock])]

CaptureEdge(k) ==
    IF Full THEN [source EXCEPT !.overflowed = TRUE, !.dropped = TRUE]
    ELSE [source EXCEPT !.ring = Append(@, [key |-> k, level |-> pins[k].level, at |-> clock])]

Interrupt(k) ==
    /\ pins[k].latched
    /\ pins' = [pins EXCEPT ![k].latched = FALSE]
    /\ source' = CaptureEdge(k)
    /\ UNCHANGED <<bset, clock, step, keys, seen>>

--------------------------------------------------------------------------------
(* One debounced edge folded into a key                                      *)

PressedAt(button, ms) ==
    [button EXCEPT !.pressed = 1, !.pressMs = ms, !.longFired = FALSE,
                   !.repeatNext = ms + bset.delay, !.clickPending = FALSE,
                   !.isClick = TRUE, !.news = @ \cup {"pressed"}]

Counts(button) == bset.click > 0 /\ button.isClick

ReleasedAt(button, ms) ==
    LET up == [button EXCEPT !.pressed = 0, !.heldMs = Max({0, ms - button.pressMs}),
                             !.news = @ \cup {"released"}]
    IN  IF Counts(button)
        THEN [up EXCEPT !.pendingClicks = @ + 1, !.clickDeadline = ms + bset.click,
                        !.clickPending = TRUE]
        ELSE up

ApplyEdge(button, pressed, ms) ==
    IF pressed = button.pressed THEN button
    ELSE IF pressed = 1 THEN PressedAt(button, ms) ELSE ReleasedAt(button, ms)

\* What the person did with a key: a press is counted once, when it ends.
Watch(k, pressed, ms) ==
    IF keys[k].pressed = 1 /\ pressed = 0 /\ Counts(keys[k])
    THEN [seen EXCEPT ![k].clicks = @ + 1,
                      ![k].holds = @ + (IF ms - keys[k].pressMs > bset.click THEN 1 ELSE 0)]
    ELSE seen

\* next_event() returned True: check() folds the edge and asks for the next.
Publish(k, ms) ==
    /\ keys' = [keys EXCEPT ![k] = ApplyEdge(@, source'.believed[k], ms)]
    /\ seen' = Watch(k, source'.believed[k], ms)
    /\ step' = Step("drain")

NoEvent == UNCHANGED <<keys, seen>>

--------------------------------------------------------------------------------
(* check(): poll, drain, sweep, advance                                      *)

Sampled(src, k, ms) ==
    LET sample == pins[k].level
    IN  IF sample = src.pending[k] THEN src
        ELSE [src EXCEPT !.pending[k] = sample,
                         !.change[k] = IF sample # src.believed[k] THEN ms ELSE @]

\* A scan samples every key at one instant.
Scanned ==
    [source EXCEPT !.pending = [k \in AllKeys |-> Sampled(source, k, clock).pending[k]],
                   !.change = [k \in AllKeys |-> Sampled(source, k, clock).change[k]]]

\* Begin a pass: an interrupt source takes the instant, a matrix scans.
Poll ==
    /\ Idle
    /\ NoneLatched
    /\ source' = [(IF bset.matrix THEN Scanned ELSE source) EXCEPT !.now = clock]
    /\ keys' = [k \in AllKeys |-> [keys[k] EXCEPT !.news = {}]]
    /\ seen' = [k \in AllKeys |-> [seen[k] EXCEPT !.calm = IF @ = Unknown THEN clock ELSE @]]
    /\ step' = Step("drain")
    /\ UNCHANGED <<bset, clock, pins>>

\* One captured edge: it ends the window of the level before it, which is
\* published if it lasted, and may open the next one.
DrainEntry ==
    LET entry  == Head(source.ring)
        k      == entry.key
        left   == source.pending[k]
        leftMs == source.change[k]
        rest   == [source EXCEPT !.ring = Tail(@)]
        settled == left # source.believed[k] /\ entry.at - leftMs >= bset.settle
    IN  /\ step.at = "drain"
        /\ NoneLatched
        /\ source.ring # <<>>
        /\ \/ /\ entry.level = left
              /\ source' = rest
              /\ NoEvent /\ UNCHANGED step
           \/ /\ entry.level # left /\ ~settled
              /\ source' = [rest EXCEPT !.pending[k] = entry.level,
                              !.change[k] = IF entry.level # source.believed[k] THEN entry.at ELSE @]
              /\ NoEvent /\ UNCHANGED step
           \/ /\ entry.level # left /\ settled
              /\ source' = [rest EXCEPT !.pending[k] = entry.level, !.believed[k] = left,
                                        !.change[k] = entry.at]
              /\ Publish(k, leftMs)
        /\ UNCHANGED <<bset, clock, pins>>

DrainEnds ==
    /\ step.at = "drain"
    /\ NoneLatched
    /\ source.ring = <<>>
    /\ source' = [source EXCEPT !.dropped = FALSE]
    /\ step' = Step(IF source.dropped THEN "reread" ELSE "sweep")
    /\ NoEvent
    /\ UNCHANGED <<bset, clock, pins>>

\* After a loss the pins are read again, one by one.
Reread ==
    /\ step.at = "reread"
    /\ NoneLatched
    /\ source' = Sampled(source, step.key, source.now)
    /\ step' = IF step.key = bset.keys THEN Step("sweep") ELSE [step EXCEPT !.key = @ + 1]
    /\ NoEvent
    /\ UNCHANGED <<bset, clock, pins>>

\* Keys whose new level has been quiet for the whole window.
Settled ==
    {k \in AllKeys : /\ k >= source.sweep
                     /\ source.pending[k] # source.believed[k]
                     /\ source.now - source.change[k] >= bset.settle}

SweepPublishes ==
    LET k == Min(Settled)
    IN  /\ step.at = "sweep"
        /\ NoneLatched
        /\ Settled # {}
        /\ source' = [source EXCEPT !.believed[k] = source.pending[k], !.sweep = k + 1]
        /\ Publish(k, source.change[k])
        /\ UNCHANGED <<bset, clock, pins>>

\* next_event() returned False: the caller reads the overflow flag ...
SweepEnds ==
    /\ step.at = "sweep"
    /\ NoneLatched
    /\ Settled = {}
    /\ source' = [source EXCEPT !.sweep = 1]
    /\ step' = Step("flag")
    /\ NoEvent
    /\ UNCHANGED <<bset, clock, pins>>

--------------------------------------------------------------------------------
(* _advance and next_deadline                                                *)

Long(button) ==
    IF bset.long > 0 /\ ~button.longFired /\ button.heldMs >= bset.long
    THEN [button EXCEPT !.longFired = TRUE, !.news = @ \cup {"long"}] ELSE button

\* Mutant: the repeat is re-armed at the boundary just missed.
RepeatJustMissed(button) ==
    LET behind == source.now - button.repeatNext
    IN  IF bset.repeat > 0 /\ behind >= 0
        THEN [button EXCEPT !.repeatNext = @ + (behind \div bset.repeat) * bset.repeat,
                            !.news = @ \cup {"repeated"}]
        ELSE button

Repeat(button) ==
    LET behind == source.now - button.repeatNext
    IN  IF bset.repeat > 0 /\ behind >= 0
        THEN [button EXCEPT !.repeatNext = @ + (behind \div bset.repeat + 1) * bset.repeat,
                            !.news = @ \cup {"repeated"}]
        ELSE button

Close(button) ==
    [button EXCEPT !.clickCount = button.pendingClicks, !.pendingClicks = 0,
                   !.news = @ \cup {"clicked"}]

\* Mutant: the hold drops the series it interrupts.
HoldDropsSeries(button) ==
    IF Counts(button) /\ button.heldMs >= bset.click
    THEN [button EXCEPT !.isClick = FALSE, !.pendingClicks = 0] ELSE button

Hold(button) ==
    IF Counts(button) /\ button.heldMs >= bset.click
    THEN LET held == [button EXCEPT !.isClick = FALSE]
         IN  IF button.pendingClicks > 0 THEN Close(held) ELSE held
    ELSE button

Held(button) == [button EXCEPT !.heldMs = Max({0, source.now - button.pressMs})]

Series(button) ==
    IF button.clickPending /\ source.now >= button.clickDeadline
    THEN Close([button EXCEPT !.clickPending = FALSE]) ELSE button

Advanced(button) ==
    Series(IF button.pressed = 1 THEN Hold(Repeat(Long(Held(button)))) ELSE button)

\* ... clears it, whatever has happened since, and runs the timers; handle()
\* then calls back for what the pass found.
Advance ==
    /\ step.at = "flag"
    /\ NoneLatched
    /\ source' = [source EXCEPT !.overflowed = FALSE]
    /\ keys' = [k \in AllKeys |-> Advanced(keys[k])]
    /\ seen' = [k \in AllKeys |->
                  [seen[k] EXCEPT !.told = @ + (IF "clicked" \in Advanced(keys[k]).news
                                                THEN Advanced(keys[k]).clickCount ELSE 0)]]
    /\ step' = Step("idle")
    /\ UNCHANGED <<bset, clock, pins>>

\* Detach the interrupts and let go of the pins.
Deinit ==
    /\ Idle /\ NoneLatched
    /\ source.attached
    /\ clock = bset.horizon
    /\ source' = [source EXCEPT !.attached = FALSE, !.dropped = FALSE]
    /\ UNCHANGED <<bset, clock, pins, step, keys, seen>>

\* The timers next_deadline() chooses the earliest of.
Timers(button) ==
    (IF button.pressed = 1 THEN
        (IF bset.long > 0 /\ ~button.longFired THEN {button.pressMs + bset.long} ELSE {})
        \cup (IF bset.repeat > 0 THEN {button.repeatNext} ELSE {})
        \cup (IF Counts(button) THEN {button.pressMs + bset.click} ELSE {})
     ELSE {})
    \cup (IF button.clickPending THEN {button.clickDeadline} ELSE {})

ButtonsNext ==
    \/ ClockRuns
    \/ \E k \in AllKeys : Flip(k) \/ Interrupt(k)
    \/ Poll
    \/ DrainEntry
    \/ DrainEnds
    \/ Reread
    \/ SweepPublishes
    \/ SweepEnds
    \/ Advance
    \/ Deinit

ButtonsSpec == ButtonsInit /\ [][ButtonsNext]_bvars
--------------------------------------------------------------------------------
\* A key whose pin has been quiet since a pass that began settle_ms ago reads as
\* the pin does, bounce, full ring and interrupts in the middle of the drain or
\* not: "the loss costs one wrong tick rather than a key that reads pressed for
\* good" (mp.py:48-49).
KeyFollowsPin ==
    Idle => \A k \in AllKeys :
        (source.attached \/ bset.matrix) /\ seen[k].calm # Unknown
          /\ source.now - seen[k].calm >= bset.settle
        => keys[k].pressed = pins[k].level

\* Every press that counts as a click is told in exactly one series: what was told
\* and what is pending add up, nothing is pending without a timer or a press that
\* closes the series, and a loop that is never late counts no hold as a click
\* (core.py:229-293).
ClicksAccounted ==
    \A k \in AllKeys :
        /\ seen[k].told + keys[k].pendingClicks = seen[k].clicks
        /\ keys[k].pendingClicks > 0 =>
              keys[k].clickPending \/ (keys[k].pressed = 1 /\ keys[k].isClick)
        /\ bset.prompt => seen[k].holds = 0

\* What the program is told of a key is what happened to its pin: its level in the
\* end, and each click once.
KeysTellTrue == KeyFollowsPin /\ ClicksAccounted

\* A pass leaves no timer due, so wait() never spins on next_deadline(), and what
\* a timer tells in a pass without an edge was due by next_deadline(): a runner that
\* sleeps until then is not late (core.py:175-200, 241-293).
TimersHonest ==
    [][step.at = "flag" /\ step'.at = "idle" =>
         \A k \in AllKeys :
            /\ \A due \in Timers(keys'[k]) : due > source.now
            /\ keys[k].news = {} /\ keys'[k].news # {} =>
                  \E due \in Timers(keys[k]) : due <= source.now]_bvars

\* "A press held for longer than click_ms is a hold rather than a click, so it
\* does not add to the count" (buttons/docs/guide.md:188).
HoldsAreNotClicks == \A k \in AllKeys : seen[k].holds = 0

================================================================================
