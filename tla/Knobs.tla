-------------------------------- MODULE Knobs --------------------------------
(***************************************************************************)
(* A rotary encoder counted by a pin interrupt and folded into a bounded   *)
(* position (knobs/encoder.py, knobs/_adapters/mp.py), and an analog knob  *)
(* whose conversions are filtered, smoothed, held by a deadband and        *)
(* quantized (knobs/analog.py, knobs/_adapters).                           *)
(***************************************************************************)
EXTENDS Integers, Sequences, FiniteSetsExt

CONSTANTS
    KnobSetups,
    RAW_RANGE,         \* 65536 in the source
    SMOOTHING_SHIFT    \* 4 in the source

\* (The last fact follows from the one before it, by an induction.)
ASSUME KnobsAssumption ==
    /\ RAW_RANGE \in Nat \ {0}
    /\ SMOOTHING_SHIFT \in Nat
    /\ 2 ^ SMOOTHING_SHIFT \in Nat \ {0}

\* A setup has an encoder (turns > 0: the steps the shaft may make) or an analog
\* knob.  Noise is how far a conversion is off; wild ones may be anything.
KnobSetupType ==
    [detent : Nat \ {0}, bounded : BOOLEAN, low : Int, high : Int, wrap : BOOLEAN,
     turns : Nat, steps : Nat \ {0}, deadband : Nat, wiper : SUBSET Nat, moves : Nat,
     noise : Nat, wild : SUBSET Nat]

\* The source takes bounds to be (low, high) in this order; only bounds can wrap.
ASSUME KnobSetupsTyped ==
    /\ KnobSetups \subseteq KnobSetupType
    /\ \A k \in KnobSetups : (k.bounded => k.low <= k.high) /\ (k.wrap => k.bounded)

VARIABLES
    kset,      \* the setup
    shaft,     \* [at: steps turned, seen: by the last interrupt, left: steps left,
               \*  latched: an interrupt is due]
    counters,  \* MpEncoderSource._counters: [position, sub, previous]
    missed,    \* history: steps in jumps no interrupt could tell
    encoder,   \* Encoder: [position, delta, lastRaw]
    wiper,     \* [at, left: moves left]
    analog,    \* MpAnalogSource: [recent, slot, smoothed, raw, calm]
    knob       \* AnalogKnob: [raw, value]

kvars == <<kset, shaft, counters, missed, encoder, wiper, analog, knob>>
shaftVars == <<shaft, counters, missed, encoder>>
wiperVars == <<wiper, analog, knob>>

\* The two pins over one cycle of the shaft, as (pin_a << 1) | pin_b.
Pins(at) == <<0, 2, 3, 1>>[(at % 4) + 1]

\* _QUADRATURE_STEPS less one: rows are the previous state, columns the current.
QUADRATURE_STEPS == << <<0, -1, 1, 0>>, <<1, 0, 0, -1>>, <<-1, 0, 0, 1>>, <<0, 1, -1, 0>> >>

Span == kset.high - kset.low + 1
Clamped(n) == Max({kset.low, Min({kset.high, n})})

Scale == 2 ^ SMOOTHING_SHIFT

NewEncoder == [position |-> IF kset.bounded THEN Clamped(0) ELSE 0, delta |-> 0, lastRaw |-> 0]

NewAnalog(reading) ==
    [recent |-> <<reading, reading, reading>>, slot |-> 1, smoothed |-> reading * Scale,
     raw |-> reading, calm |-> 3]

KnobsInit ==
    /\ kset \in KnobSetups
    /\ shaft = [at |-> 0, seen |-> 0, left |-> kset.turns, latched |-> FALSE]
    /\ counters = [position |-> 0, sub |-> 0, previous |-> Pins(0)]
    /\ missed = 0
    /\ encoder = NewEncoder
    /\ \E at \in kset.wiper :
          /\ wiper = [at |-> at, left |-> kset.moves]
          /\ analog = NewAnalog(at)
    /\ knob = [raw |-> 0, value |-> 0]

--------------------------------------------------------------------------------
(* The shaft                                                                 *)

\* The shaft moves one step; with the interrupt of the last one still due, both
\* pins have changed by the time it reads them.
Turn(way) ==
    /\ shaft.left > 0
    /\ shaft' = [shaft EXCEPT !.at = @ + way, !.left = @ - 1, !.latched = TRUE]
    /\ UNCHANGED <<kset, counters, missed, encoder, wiperVars>>

\* Mutant: the step past the detent is kept on top of it.
CarriesOver(step) ==
    LET sub == counters.sub + step
    IN  IF sub >= kset.detent THEN [position |-> counters.position + 1, sub |-> 1]
        ELSE IF sub <= -kset.detent THEN [position |-> counters.position - 1, sub |-> -1]
        ELSE [position |-> counters.position, sub |-> sub]

Banked(step) ==
    LET sub == counters.sub + step
    IN  IF sub >= kset.detent THEN [position |-> counters.position + 1, sub |-> 0]
        ELSE IF sub <= -kset.detent THEN [position |-> counters.position - 1, sub |-> 0]
        ELSE [position |-> counters.position, sub |-> sub]

OnEdge ==
    LET state == Pins(shaft.at)
        step  == QUADRATURE_STEPS[counters.previous + 1][state + 1]
    IN  /\ shaft.latched
        /\ shaft' = [shaft EXCEPT !.seen = shaft.at, !.latched = FALSE]
        /\ counters' = [position |-> Banked(step).position, sub |-> Banked(step).sub,
                        previous |-> state]
        /\ missed' = missed + (shaft.at - shaft.seen) - step
        /\ UNCHANGED <<kset, encoder, wiperVars>>

Wrapped(position) == kset.low + ((position - kset.low) % Span)

\* Mutant: the turning that did not fit is banked, and must be turned back first.
TurnedWithBank(moved) == Clamped(0) + encoder.lastRaw + moved

Turned(moved) == encoder.position + moved

\* Encoder.check: the turning since the last pass.
CheckEncoder ==
    LET moved == counters.position - encoder.lastRaw
        position == Turned(moved)
        fits == IF ~kset.bounded THEN position
                ELSE IF kset.wrap THEN Wrapped(position) ELSE Clamped(position)
    IN  /\ kset.turns > 0
        /\ ~shaft.latched
        /\ encoder' =
              [position |-> fits, lastRaw |-> counters.position,
               delta |-> IF kset.bounded /\ ~kset.wrap THEN fits - encoder.position ELSE moved]
        /\ UNCHANGED <<kset, shaft, counters, missed, wiperVars>>

--------------------------------------------------------------------------------
(* The wiper                                                                 *)

Readings == {n \in 0 .. (RAW_RANGE - 1) : n >= wiper.at - kset.noise /\ n <= wiper.at + kset.noise}

\* The window must have seen the place it leaves, or the old one would look wild.
Move(to) ==
    /\ wiper.left > 0
    /\ wiper' = [at |-> to, left |-> wiper.left - 1]
    /\ analog' = [analog EXCEPT !.calm = 0]
    /\ UNCHANGED <<kset, shaftVars, knob>>

MiddleOfThree(first, second, third) ==
    Max({Min({first, second}), Min({Max({first, second}), third})})

Median(recent) == MiddleOfThree(recent[1], recent[2], recent[3])

\* Mutant: the fraction the shift cuts off is not carried.
FractionDropped(middle) ==
    ((analog.smoothed \div Scale) + ((middle - (analog.smoothed \div Scale)) \div Scale)) * Scale

Smoothed(middle) == analog.smoothed + middle - (analog.smoothed \div Scale)

\* MpAnalogSource.poll
Converted(reading) ==
    LET recent == [analog.recent EXCEPT ![analog.slot] = reading]
        smoothed == Smoothed(Median(recent))
    IN  [recent |-> recent, slot |-> (analog.slot % 3) + 1, smoothed |-> smoothed,
         raw |-> smoothed \div Scale,
         calm |-> IF reading \in Readings THEN Min({3, analog.calm + 1}) ELSE 0]

Distance(a, b) == IF a > b THEN a - b ELSE b - a

Quantized(raw) == (raw * kset.steps) \div RAW_RANGE

\* AnalogKnob.check: a wild conversion comes alone, never twice within three.
CheckKnob(reading) ==
    LET raw == analog'.raw
    IN  /\ kset.turns = 0
        /\ reading \in Readings \/ (reading \in kset.wild /\ analog.calm >= 2)
        /\ analog' = Converted(reading)
        /\ knob' = IF Distance(raw, knob.raw) <= kset.deadband THEN knob
                   ELSE [raw |-> raw, value |-> Quantized(raw)]
        /\ UNCHANGED <<kset, shaftVars, wiper>>

KnobsNext ==
    \/ \E way \in {-1, 1} : Turn(way)
    \/ OnEdge
    \/ CheckEncoder
    \/ \E to \in kset.wiper : Move(to)
    \/ \E reading \in Readings \cup kset.wild : CheckKnob(reading)

\* Every tick reads the knob.
KnobsPass == CheckEncoder \/ \E reading \in Readings \cup kset.wild : CheckKnob(reading)
KnobsSpec == KnobsInit /\ [][KnobsNext]_kvars /\ WF_kvars(KnobsPass)
--------------------------------------------------------------------------------
\* Nothing the interrupt saw is lost or invented, whatever way the shaft goes back
\* and forth inside a detent and around a bound: detents and banked steps add up to
\* the turn but for whole jumps of two steps (mp.py:60-81), and the position is the
\* count folded into its range (encoder.py:104-140).
TurnsKept ==
    /\ missed % 2 = 0
    /\ -kset.detent < counters.sub /\ counters.sub < kset.detent
    /\ shaft.seen = kset.detent * counters.position + counters.sub + missed
    /\ ~kset.bounded => encoder.position = encoder.lastRaw
    /\ kset.bounded => encoder.position \in kset.low .. kset.high
    /\ kset.wrap => (encoder.position - encoder.lastRaw - Clamped(0)) % Span = 0

\* A parked wiper reads as itself: once the window has seen it, conversions within
\* the noise and single wild ones keep the reading between the extremes it had and
\* the noise, and the knob within a deadband of it (knobs/_adapters/base.py:15-33,
\* analog.py:83-106).
ParkedReadsTrue ==
    kset.moves = 0 =>
        /\ Distance(analog.raw, wiper.at) <= kset.noise
        /\ Distance(knob.raw, wiper.at) <= kset.noise + kset.deadband \/ knob.raw = 0

\* What clamping has cut off the turning so far.
CutOff == encoder.lastRaw + Clamped(0) - encoder.position

\* Between bounds the position follows the shaft detent for detent, also back from
\* a bound that it was turned past: turning is cut off only by the bound it runs
\* into, and what was cut off is never owed (encoder.py:129-138).
BoundsGiveBack ==
    [][kset.bounded /\ ~kset.wrap =>
          /\ CutOff' > CutOff => encoder'.position = kset.high
          /\ CutOff' < CutOff => encoder'.position = kset.low]_kvars

\* What a knob reads is where it is.
KnobsReadTrue == TurnsKept /\ ParkedReadsTrue

\* A deadband under one step leaves every step reachable: a wiper that stays at an
\* end of its sweep without noise is read as the first or the last step
\* (analog.py:11-13, README.md:137).
EndsReached ==
    \A at \in {0, RAW_RANGE - 1} :
        <>[](wiper.at = at /\ kset.turns = 0 /\ kset.noise = 0 /\ kset.wild = {}
               /\ kset.deadband < RAW_RANGE \div kset.steps)
          => <>[](knob.value = Quantized(at))

================================================================================
