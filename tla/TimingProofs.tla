---------------------------- MODULE TimingProofs ----------------------------
(***************************************************************************)
(* The ring arithmetic is exact inside half a turn, for every even ring;   *)
(* Deadline and Rate keep true time on it, for every legal period and any  *)
(* number of wraps.  Keys, the densest use of time in the system, tell     *)
(* what happened to their pins, for any number of keys, any timings, any   *)
(* ring and either kind of source.                                         *)
(***************************************************************************)
EXTENDS Timing, Buttons, TLAPS, WellFoundedInduction

-----------------------------------------------------------------------------
(* The arithmetic of ticks.py                                              *)

\* % on the ring, in the four forms the source meets.
LEMMA ModFacts ==
    ASSUME NEW n \in Nat \ {0}, NEW x \in Int
    PROVE  /\ x % n \in 0 .. (n - 1)
           /\ x \in 0 .. (n - 1) => x % n = x
           /\ x \in n .. (2 * n - 1) => x % n = x - n
           /\ x \in -n .. -1 => x % n = x + n
  OBVIOUS

LEMMA Ring ==
    /\ TICKS_PERIOD \in Nat \ {0}
    /\ TICKS_HALFPERIOD \in Nat \ {0}
    /\ TICKS_PERIOD = 2 * TICKS_HALFPERIOD
  BY RingAssumption DEF TICKS_HALFPERIOD

\* Two integers on the same point of the ring, at most one turn apart.
SamePoint(x, y) ==
    x = y \/ x = y + TICKS_PERIOD \/ x = y - TICKS_PERIOD

\* ticks_add (ticks.py) stays on the ring and goes round at most once.
LEMMA AddWraps ==
    ASSUME NEW t \in Ticks, NEW d \in Int, InReach(d)
    PROVE  /\ TicksAdd(t, d) \in Ticks
           /\ SamePoint(TicksAdd(t, d), t + d)
  <1> DEFINE n == TICKS_PERIOD
             x == t + d
  <1>1. n \in Nat \ {0} /\ x \in Int /\ -n < x /\ x < 2 * n
    BY Ring DEF Ticks, InReach
  <1>2. /\ x % n \in 0 .. (n - 1)
        /\ x \in 0 .. (n - 1) => x % n = x
        /\ x \in n .. (2 * n - 1) => x % n = x - n
        /\ x \in -n .. -1 => x % n = x + n
    BY <1>1, ModFacts
  <1>3. x \in 0 .. (n - 1) \/ x \in n .. (2 * n - 1) \/ x \in -n .. -1
    BY <1>1
  <1> QED BY <1>1, <1>2, <1>3 DEF TicksAdd, SamePoint, Ticks

\* ticks_diff (ticks.py) is the one signed distance within half a ring.
LEMMA DiffIsNearest ==
    ASSUME NEW a \in Ticks, NEW b \in Ticks
    PROVE  /\ TicksDiff(a, b) \in -TICKS_HALFPERIOD .. (TICKS_HALFPERIOD - 1)
           /\ SamePoint(TicksDiff(a, b), a - b)
  <1> DEFINE n == TICKS_PERIOD
             h == TICKS_HALFPERIOD
             x == a - b
             y == x % n
             z == y + h
  <1>1. n \in Nat \ {0} /\ h \in Nat /\ n = 2 * h /\ x \in Int /\ x \in (1 - n) .. (n - 1)
    BY Ring DEF Ticks
  <1>2. y \in 0 .. (n - 1) /\ (y = x \/ y = x + n)
        /\ (x \in 0 .. (n - 1) => y = x)
    <2>1. /\ x % n \in 0 .. (n - 1)
          /\ x \in 0 .. (n - 1) => x % n = x
          /\ x \in -n .. -1 => x % n = x + n
      BY <1>1, ModFacts
    <2>2. x \in 0 .. (n - 1) \/ x \in -n .. -1
      BY <1>1
    <2> QED BY <2>1, <2>2
  <1>3. z \in Int /\ z \in 0 .. (2 * n - 1)
    BY <1>1, <1>2
  <1>4. z % n = z \/ z % n = z - n
    <2>1. /\ z \in 0 .. (n - 1) => z % n = z
          /\ z \in n .. (2 * n - 1) => z % n = z - n
      BY <1>1, <1>3, ModFacts
    <2>2. z \in 0 .. (n - 1) \/ z \in n .. (2 * n - 1)
      BY <1>1, <1>3
    <2> QED BY <2>1, <2>2
  <1>5. z % n \in 0 .. (n - 1)
    BY <1>1, <1>3, ModFacts
  <1>6. TicksDiff(a, b) = (z % n) - h
    BY DEF TicksDiff
  <1> QED BY <1>1, <1>2, <1>3, <1>4, <1>5, <1>6 DEF SamePoint

\* Scheduling d ahead of t and reading it back from t.
LEMMA DiffOfAdd ==
    ASSUME NEW t \in Ticks, NEW d \in Int, InReach(d)
    PROVE  TicksDiff(TicksAdd(t, d), t) = d
  <1> DEFINE a == TicksAdd(t, d)
  <1>1. a \in Ticks /\ SamePoint(a, t + d)
    BY AddWraps
  <1>2. TicksDiff(a, t) \in -TICKS_HALFPERIOD .. (TICKS_HALFPERIOD - 1)
        /\ SamePoint(TicksDiff(a, t), a - t)
    BY <1>1, DiffIsNearest
  <1> HIDE DEF a
  <1>3. TicksDiff(a, t) = d
    BY <1>1, <1>2, Ring DEF SamePoint, InReach, Ticks
  <1> QED BY <1>3 DEF a

\* A schedule moved by d from a tick that was x away from t.
LEMMA DiffOfMove ==
    ASSUME NEW t \in Ticks, NEW due \in Ticks, NEW d \in Int, InReach(d),
           InReach(TicksDiff(due, t) + d)
    PROVE  TicksDiff(TicksAdd(due, d), t) = TicksDiff(due, t) + d
  <1> DEFINE a == TicksAdd(due, d)
             y == TicksDiff(due, t)
  <1>1. a \in Ticks /\ SamePoint(a, due + d)
    BY AddWraps
  <1>2. y \in Int /\ SamePoint(y, due - t)
    BY DiffIsNearest, Ring
  <1>3. TicksDiff(a, t) \in -TICKS_HALFPERIOD .. (TICKS_HALFPERIOD - 1)
        /\ SamePoint(TicksDiff(a, t), a - t)
    BY <1>1, DiffIsNearest
  <1>4. InReach(y + d)
    OBVIOUS
  <1> HIDE DEF a, y
  <1>5. TicksDiff(a, t) = y + d
    BY <1>1, <1>2, <1>3, <1>4, Ring DEF SamePoint, InReach, Ticks
  <1> QED BY <1>5 DEF a, y

\* Reading a distance from the other side changes its sign.
LEMMA DiffIsOdd ==
    ASSUME NEW a \in Ticks, NEW b \in Ticks,
           TicksDiff(a, b) # -TICKS_HALFPERIOD
    PROVE  TicksDiff(b, a) = -TicksDiff(a, b)
  <1>1. /\ TicksDiff(a, b) \in -TICKS_HALFPERIOD .. (TICKS_HALFPERIOD - 1)
        /\ SamePoint(TicksDiff(a, b), a - b)
        /\ TicksDiff(b, a) \in -TICKS_HALFPERIOD .. (TICKS_HALFPERIOD - 1)
        /\ SamePoint(TicksDiff(b, a), b - a)
    BY DiffIsNearest
  <1> QED BY <1>1, Ring DEF SamePoint, Ticks

\* The clock advances by ms towards a scheduled tick.
LEMMA DiffOfLater ==
    ASSUME NEW t \in Ticks, NEW due \in Ticks, NEW ms \in Int, InReach(ms),
           InReach(TicksDiff(due, t) - ms)
    PROVE  TicksDiff(due, TicksAdd(t, ms)) = TicksDiff(due, t) - ms
  <1> DEFINE b == TicksAdd(t, ms)
             y == TicksDiff(due, t)
  <1>1. b \in Ticks /\ SamePoint(b, t + ms)
    BY AddWraps
  <1>2. y \in Int /\ SamePoint(y, due - t)
    BY DiffIsNearest, Ring
  <1>3. TicksDiff(due, b) \in -TICKS_HALFPERIOD .. (TICKS_HALFPERIOD - 1)
        /\ SamePoint(TicksDiff(due, b), due - b)
    BY <1>1, DiffIsNearest
  <1>4. InReach(y - ms)
    OBVIOUS
  <1> HIDE DEF b, y
  <1>5. TicksDiff(due, b) = y - ms
    BY <1>1, <1>2, <1>3, <1>4, Ring DEF SamePoint, InReach, Ticks
  <1> QED BY <1>5 DEF b, y

-----------------------------------------------------------------------------
(* Rate and Deadline                                                       *)

ToFire == TicksDiff(rateNext, now)
Left   == TicksDiff(dlDue, now)

\* Every schedule is on the ring, and neither further ahead of now than half a
\* turn nor later than the stall bound: what ticks_diff needs to be exact.
IInv ==
    /\ now \in Ticks /\ rateNext \in Ticks /\ dlDue \in Ticks
    /\ ratePeriod \in RatePeriods
    /\ dlPeriod \in Spans
    /\ ToFire \in -Stall .. (TICKS_HALFPERIOD - 1)
    /\ Left \in -Stall .. (TICKS_HALFPERIOD - 1)

LEMMA Constants ==
    /\ TICKS_HALFPERIOD \in Nat \ {0}
    /\ Lead \in Nat
    /\ Stall \in Nat /\ Stall < TICKS_HALFPERIOD
    /\ \A p \in RatePeriods : p \in Nat \ {0} /\ Lead + p < TICKS_HALFPERIOD
    /\ \A s \in Spans : s \in Nat /\ Lead + s < TICKS_HALFPERIOD
  BY TimingAssumption, Ring

\* Euclid for due()'s "behind // period + 1".
LEMMA WholePeriods ==
    ASSUME NEW b \in Nat, NEW p \in Nat \ {0}
    PROVE  LET k == b \div p + 1
           IN  /\ k \in Nat
               /\ k * p \in Nat
               /\ k * p - b \in 1 .. p
               /\ (k * p) % p = 0
  <1> DEFINE q == b \div p
             r == b % p
  <1>1. q \in Nat /\ r \in 0 .. (p - 1) /\ b = p * q + r
    OBVIOUS
  <1> HIDE DEF q, r
  <1>2. (q + 1) * p = p * q + p
    BY <1>1
  <1>3. p * q \in Nat
    BY <1>1
  <1>4. ((q + 1) * p) % p = 0
    BY <1>1
  <1> QED BY <1>1, <1>2, <1>3, <1>4 DEF q

\* Arming p ahead of a clock read that is lead ahead of now (reset()).
LEMMA ArmExact ==
    ASSUME NEW t \in Ticks, NEW lead \in 0 .. Lead,
           NEW p \in RatePeriods \cup Spans
    PROVE  LET due == TicksAdd(TicksAdd(t, lead), p)
           IN  due \in Ticks /\ TicksDiff(due, t) = lead + p
  <1> DEFINE a == TicksAdd(t, lead)
  <1>1. /\ p \in Int /\ lead \in Int
        /\ InReach(lead) /\ InReach(p) /\ InReach(lead + p)
    BY Constants DEF InReach
  <1>2. a \in Ticks /\ TicksDiff(a, t) = lead
    BY <1>1, AddWraps, DiffOfAdd
  <1> HIDE DEF a
  <1>3. TicksAdd(a, p) \in Ticks
    BY <1>1, <1>2, AddWraps
  <1>4. TicksDiff(TicksAdd(a, p), t) = lead + p
    BY <1>1, <1>2, DiffOfMove
  <1> QED BY <1>3, <1>4 DEF a

LEMMA InitExact ==
    TimingInit => IInv /\ ToFire = ratePeriod /\ Left = dlPeriod
  <1> SUFFICES ASSUME TimingInit PROVE IInv /\ ToFire = ratePeriod /\ Left = dlPeriod
    OBVIOUS
  <1>1. now \in Ticks /\ ratePeriod \in RatePeriods /\ dlPeriod \in Spans
    BY DEF TimingInit
  <1>2. /\ ratePeriod \in Int /\ InReach(ratePeriod)
        /\ dlPeriod \in Int /\ InReach(dlPeriod)
        /\ ratePeriod >= 0 /\ dlPeriod >= 0
    BY <1>1, Constants DEF InReach
  <1>3. rateNext \in Ticks /\ ToFire = ratePeriod
    BY <1>1, <1>2, AddWraps, DiffOfAdd DEF TimingInit, ToFire
  <1>4. dlDue \in Ticks /\ Left = dlPeriod
    BY <1>1, <1>2, AddWraps, DiffOfAdd DEF TimingInit, Left
  <1> QED BY <1>1, <1>2, <1>3, <1>4, Constants DEF IInv, InReach

\* A pass moves both schedules towards now by exactly the time that passed.
LEMMA PassExact ==
    ASSUME IInv, NEW ms \in 1 .. (TICKS_HALFPERIOD - 1), Pass(ms)
    PROVE  IInv' /\ ToFire' = ToFire - ms /\ Left' = Left - ms
  <1>1. /\ ms \in Int /\ InReach(ms)
        /\ InReach(ToFire - ms) /\ InReach(Left - ms)
    BY Constants DEF IInv, Pass, InReach, ToFire, Left
  <1>2. now' \in Ticks /\ now' = TicksAdd(now, ms)
        /\ rateNext' = rateNext /\ dlDue' = dlDue
        /\ ratePeriod' = ratePeriod /\ dlPeriod' = dlPeriod
    BY <1>1, AddWraps DEF IInv, Pass, rate, deadline
  <1>3. ToFire' = ToFire - ms
    BY <1>1, <1>2, DiffOfLater DEF IInv, ToFire
  <1>4. Left' = Left - ms
    BY <1>1, <1>2, DiffOfLater DEF IInv, Left
  <1> QED BY <1>2, <1>3, <1>4, Constants DEF IInv, Pass, ToFire, Left

\* What due() computes from a late schedule.
LEMMA Rephase ==
    ASSUME IInv, TicksDiff(now, rateNext) >= 0
    PROVE  LET behind == TicksDiff(now, rateNext)
               ahead  == PeriodsMissed(behind) * ratePeriod
           IN  /\ behind \in Nat /\ ToFire = -behind
               /\ ahead \in Nat /\ ahead % ratePeriod = 0
               /\ ToFire + ahead \in 1 .. ratePeriod
  <1> DEFINE behind == TicksDiff(now, rateNext)
  <1>1. ToFire \in Int /\ ToFire # -TICKS_HALFPERIOD
    BY Constants DEF IInv
  <1>2. behind = -ToFire
    BY <1>1, DiffIsOdd DEF IInv, ToFire
  <1>3. behind \in Nat /\ ToFire = -behind
    BY <1>1, <1>2
  <1>4. ratePeriod \in Nat \ {0}
    BY Constants DEF IInv
  <1> HIDE DEF behind
  <1>5. LET k == behind \div ratePeriod + 1
        IN  /\ k \in Nat
            /\ k * ratePeriod \in Nat
            /\ k * ratePeriod - behind \in 1 .. ratePeriod
            /\ (k * ratePeriod) % ratePeriod = 0
    BY <1>3, <1>4, WholePeriods
  <1>6. LET ahead == PeriodsMissed(behind) * ratePeriod
        IN  /\ behind \in Nat /\ ToFire = -behind
            /\ ahead \in Nat /\ ahead % ratePeriod = 0
            /\ ToFire + ahead \in 1 .. ratePeriod
    BY <1>3, <1>4, <1>5 DEF PeriodsMissed
  <1> QED BY <1>6 DEF behind

LEMMA FireExact ==
    ASSUME IInv, RateFires
    PROVE  /\ IInv'
           /\ ToFire <= 0 /\ ToFire' \in 1 .. ratePeriod
           /\ (ToFire' - ToFire) % ratePeriod = 0
           /\ Left' = Left /\ ratePeriod' = ratePeriod
  <1> DEFINE behind == TicksDiff(now, rateNext)
             ahead  == PeriodsMissed(behind) * ratePeriod
  <1>1. /\ behind >= 0 /\ InReach(ahead)
        /\ rateNext' = TicksAdd(rateNext, ahead)
        /\ now' = now /\ ratePeriod' = ratePeriod
        /\ dlDue' = dlDue /\ dlPeriod' = dlPeriod
    BY DEF RateFires, deadline
  <1>2. /\ behind \in Nat /\ ToFire = -behind
        /\ ahead \in Nat /\ ahead % ratePeriod = 0
        /\ ToFire + ahead \in 1 .. ratePeriod
    BY <1>1, Rephase
  <1>3. ratePeriod \in Nat \ {0} /\ ratePeriod < TICKS_HALFPERIOD
    BY Constants DEF IInv
  <1> HIDE DEF behind, ahead
  <1>4. rateNext' \in Ticks
    BY <1>1, <1>2, AddWraps DEF IInv
  <1>5. InReach(ToFire + ahead)
    BY <1>2, <1>3, Constants DEF InReach
  <1>6. ToFire' = ToFire + ahead
    BY <1>1, <1>2, <1>5, DiffOfMove DEF IInv, ToFire
  <1>7. Left' = Left
    BY <1>1 DEF Left
  <1>8. ToFire' - ToFire = ahead
    BY <1>2, <1>6
  <1> QED BY <1>1, <1>2, <1>3, <1>4, <1>6, <1>7, <1>8, Constants DEF IInv

LEMMA ResetExact ==
    ASSUME IInv, NEW lead \in 0 .. Lead, RateReset(lead) \/ DeadlineReset(lead)
    PROVE  /\ IInv'
           /\ ratePeriod' = ratePeriod
           /\ RateReset(lead) => ToFire' = lead + ratePeriod /\ Left' = Left
           /\ DeadlineReset(lead) => Left' = lead + dlPeriod /\ ToFire' = ToFire
  <1>1. lead \in Nat /\ lead <= Lead
    BY Constants
  <1>2. CASE RateReset(lead)
    <2>1. /\ now' = now /\ ratePeriod' = ratePeriod
          /\ dlDue' = dlDue /\ dlPeriod' = dlPeriod
          /\ rateNext' = TicksAdd(TicksAdd(now, lead), ratePeriod)
      BY <1>2 DEF RateReset, deadline
    <2>2. rateNext' \in Ticks /\ ToFire' = lead + ratePeriod
      BY <2>1, ArmExact DEF IInv, ToFire
    <2>3. Left' = Left
      BY <2>1 DEF Left
    <2>4. DeadlineReset(lead) => Left' = lead + dlPeriod /\ ToFire' = ToFire
      BY <2>1, ArmExact DEF IInv, DeadlineReset, rate, Left, ToFire
    <2> QED BY <1>1, <2>1, <2>2, <2>3, <2>4, Constants DEF IInv
  <1>3. CASE DeadlineReset(lead)
    <2>1. /\ now' = now /\ ratePeriod' = ratePeriod
          /\ rateNext' = rateNext /\ dlPeriod' = dlPeriod
          /\ dlDue' = TicksAdd(TicksAdd(now, lead), dlPeriod)
      BY <1>3 DEF DeadlineReset, rate
    <2>2. dlDue' \in Ticks /\ Left' = lead + dlPeriod
      BY <2>1, ArmExact DEF IInv, Left
    <2>3. ToFire' = ToFire
      BY <2>1 DEF ToFire
    <2>4. RateReset(lead) => ToFire' = lead + ratePeriod /\ Left' = Left
      BY <2>1, ArmExact DEF IInv, RateReset, deadline, Left, ToFire
    <2> QED BY <1>1, <2>1, <2>2, <2>3, <2>4, Constants DEF IInv
  <1> QED BY <1>2, <1>3

\* Calls that only look leave every schedule where it is.
LEMMA LookExact ==
    ASSUME IInv, RateQuiet \/ RateOverflows \/ AskDeadline \/ UNCHANGED timingVars
    PROVE  IInv' /\ ToFire' = ToFire /\ Left' = Left /\ ratePeriod' = ratePeriod
  <1>1. /\ now' = now /\ ratePeriod' = ratePeriod /\ rateNext' = rateNext
        /\ dlPeriod' = dlPeriod /\ dlDue' = dlDue
    BY DEF RateQuiet, RateOverflows, AskDeadline, timingVars, rate, deadline
  <1> QED BY <1>1 DEF IInv, ToFire, Left

LEMMA InvStep == IInv /\ [TimingNext]_timingVars => IInv'
  <1> SUFFICES ASSUME IInv, [TimingNext]_timingVars PROVE IInv'
    OBVIOUS
  <1>1. ASSUME NEW ms \in 1 .. (TICKS_HALFPERIOD - 1), Pass(ms) PROVE IInv'
    BY <1>1, PassExact
  <1>2. CASE RateFires
    BY <1>2, FireExact
  <1>3. ASSUME NEW lead \in 0 .. Lead, RateReset(lead) \/ DeadlineReset(lead)
        PROVE  IInv'
    BY <1>3, ResetExact
  <1>4. CASE RateQuiet \/ RateOverflows \/ AskDeadline \/ UNCHANGED timingVars
    BY <1>4, LookExact
  <1> QED BY <1>1, <1>2, <1>3, <1>4 DEF TimingNext

\* No schedule ever leaves the window in which ticks_diff is exact.
THEOREM SchedulesStayInReach == TimingSpec => []IInv
  <1>1. TimingInit => IInv
    BY InitExact
  <1> QED BY <1>1, InvStep, PTL DEF TimingSpec

\* Deadline and Rate on the ring implement the cadence of true time.
THEOREM RingImplementsCadence == TimingSpec => CadenceSpec
  <1>1. TimingInit => True!Init
    <2> SUFFICES ASSUME TimingInit PROVE True!Init
      OBVIOUS
    <2>1. IInv /\ ToFire = ratePeriod /\ Left = dlPeriod
      BY InitExact
    <2> QED BY <2>1, Constants DEF IInv, TimingInit, True!Init, Said, True!Said, ToFire, Left
  <1>2. IInv /\ [TimingNext]_timingVars => [True!Next]_(True!vars)
    <2> SUFFICES ASSUME IInv, [TimingNext]_timingVars
                 PROVE  True!Next \/ UNCHANGED True!vars
      OBVIOUS
    <2>0. ToFire \in Int /\ Left \in Int /\ ratePeriod \in Nat \ {0} /\ dlPeriod \in Nat
      BY Constants DEF IInv
    <2>1. ASSUME NEW ms \in 1 .. (TICKS_HALFPERIOD - 1), Pass(ms)
          PROVE  True!Elapse
      <3>1. ToFire' = ToFire - ms /\ Left' = Left - ms
        BY <2>1, PassExact
      <3>2. ratePeriod' = ratePeriod /\ answer' = Said("none")
        BY <2>1 DEF Pass, rate
      <3>3. ToFire' < ToFire /\ ToFire - ToFire' = Left - Left'
        BY <2>0, <3>1
      <3> QED BY <3>2, <3>3 DEF True!Elapse, Said, True!Said, ToFire, Left
    <2>2. CASE RateQuiet
      <3>1. TicksDiff(now, rateNext) < 0
        BY <2>2 DEF RateQuiet
      <3>2. ToFire # -TICKS_HALFPERIOD
        BY Constants DEF IInv
      <3>3. TicksDiff(now, rateNext) = -ToFire
        BY <3>2, DiffIsOdd DEF IInv, ToFire
      <3>4. ToFire > 0
        BY <2>0, <3>1, <3>3
      <3>5. ToFire' = ToFire /\ Left' = Left /\ ratePeriod' = ratePeriod
        BY <2>2, LookExact
      <3> QED BY <2>2, <3>4, <3>5
              DEF RateQuiet, True!Next, True!Quiet, Said, True!Said, ToFire, Left
    <2>3. CASE RateFires
      <3>1. /\ ToFire <= 0 /\ ToFire' \in 1 .. ratePeriod
            /\ (ToFire' - ToFire) % ratePeriod = 0
            /\ Left' = Left /\ ratePeriod' = ratePeriod
        BY <2>3, FireExact
      <3> QED BY <2>3, <3>1
              DEF RateFires, True!Next, True!Fire, Said, True!Said, ToFire, Left
    <2>4. CASE RateOverflows
      <3>1. /\ TicksDiff(now, rateNext) >= 0
            /\ ~InReach(PeriodsMissed(TicksDiff(now, rateNext)) * ratePeriod)
        BY <2>4 DEF RateOverflows
      <3> DEFINE behind == TicksDiff(now, rateNext)
                 ahead  == PeriodsMissed(behind) * ratePeriod
      <3>2. /\ behind \in Nat /\ ToFire = -behind
            /\ ahead \in Nat
            /\ ToFire + ahead \in 1 .. ratePeriod
        BY <3>1, Rephase
      <3>3. ~InReach(ahead)
        BY <3>1
      <3> HIDE DEF behind, ahead
      <3>4. ToFire <= 0 /\ ratePeriod - ToFire >= TICKS_HALFPERIOD
        BY <2>0, <3>2, <3>3, Constants DEF InReach
      <3>5. ToFire' = ToFire /\ Left' = Left /\ ratePeriod' = ratePeriod
        BY <2>4, LookExact
      <3> QED BY <2>4, <3>4, <3>5
              DEF RateOverflows, True!Next, True!Refuse, Said, True!Said, ToFire, Left
    <2>5. ASSUME NEW lead \in 0 .. Lead, RateReset(lead)
          PROVE  True!Reset
      <3>1. ToFire' = lead + ratePeriod /\ Left' = Left /\ ratePeriod' = ratePeriod
        BY <2>5, ResetExact
      <3>2. ToFire' >= ratePeriod
        BY <2>0, <3>1, Constants
      <3> QED BY <2>5, <3>1, <3>2
              DEF RateReset, True!Reset, Said, True!Said, ToFire, Left
    <2>6. ASSUME NEW lead \in 0 .. Lead, DeadlineReset(lead)
          PROVE  True!Arm
      <3>1. Left' = lead + dlPeriod /\ ToFire' = ToFire /\ ratePeriod' = ratePeriod
        BY <2>6, ResetExact
      <3>2. Left' >= 0
        BY <2>0, <3>1, Constants
      <3> QED BY <2>6, <3>1, <3>2
              DEF DeadlineReset, True!Arm, Said, True!Said, ToFire, Left
    <2>7. CASE AskDeadline
      <3>1. Left # -TICKS_HALFPERIOD
        BY Constants DEF IInv
      <3>2. TicksDiff(now, dlDue) = -Left
        BY <3>1, DiffIsOdd DEF IInv, Left
      <3>3. Expired <=> ~(Left > 0)
        BY <2>0, <3>2 DEF Expired
      <3>4. Left > 0 => Remaining = Left
        BY DEF Remaining, Left
      <3>5. ToFire' = ToFire /\ Left' = Left /\ ratePeriod' = ratePeriod
        BY <2>7, LookExact
      <3> QED BY <2>7, <3>3, <3>4, <3>5
              DEF AskDeadline, True!Next, True!Ask, Said, True!Said, ToFire, Left
    <2>8. CASE UNCHANGED timingVars
      BY <2>8 DEF timingVars, rate, deadline, True!vars
    <2> QED BY <2>1, <2>2, <2>3, <2>4, <2>5, <2>6, <2>7, <2>8
            DEF TimingNext, True!Next
  <1> QED BY <1>1, <1>2, SchedulesStayInReach, PTL DEF TimingSpec, CadenceSpec, True!Spec

\* A set of numbers has a least one.
LEMMA LeastOne ==
  ASSUME NEW S \in SUBSET Nat, S # {}
  PROVE  Min(S) \in S /\ \A y \in S : Min(S) <= y
  <1>1. IsWellFoundedOn(OpToRel(<, Nat), Nat)
    BY NatLessThanWellFounded
  <1> DEFINE R == OpToRel(<, Nat)
  <1>2. PICK m \in S : \A n \in S : <<n, m>> \notin R
    <2> HIDE DEF R
    <2> QED BY <1>1, WFMin DEF R
  <1>3. \A n \in S : m <= n
    <2>1. \A n \in S : n < m => <<n, m>> \in R
      BY DEF OpToRel
    <2> HIDE DEF R
    <2>2. SUFFICES ASSUME NEW n \in S PROVE m <= n
      OBVIOUS
    <2>3. ~(n < m)
      BY <1>2, <2>1
    <2>4. n \in Nat /\ m \in Nat
      OBVIOUS
    <2> QED BY <2>3, <2>4
  <1>4. \E x \in S : \A y \in S : x =< y
    BY <1>3
  <1> QED BY <1>4 DEF Min

-----------------------------------------------------------------------------
(* Keys                                                                    *)
(*                                                                         *)
(* The argument has four parts.  What the debounce folds into a Button and *)
(* what the timers make of it, for any Button (Sound, Honest).  The shape  *)
(* of each step of a pass.  Follows: the last captured edge of a key, or   *)
(* the level the drain has for it, is the pin's, unless an interrupt is    *)
(* due, edges were lost and the pins are still to be read again; and a key *)
(* that has been quiet since an earlier pass began has been judged by the  *)
(* end of this one.  OnTime: under a loop that is never late a press still *)
(* counts as a click only while it is short.                               *)

Entry == [key : AllKeys, level : {0, 1}, at : Nat]
PinType == [level : {0, 1}, flips : Nat, latched : BOOLEAN]
SourceType ==
    [ring : Seq(Entry), overflowed : BOOLEAN, dropped : BOOLEAN, attached : BOOLEAN,
     believed : [AllKeys -> {0, 1}], pending : [AllKeys -> {0, 1}], change : [AllKeys -> Nat],
     sweep : Nat \ {0}, now : Nat]
StepType == [at : {"idle", "drain", "reread", "sweep", "flag"}, key : AllKeys]
KeyNews == {"pressed", "released", "long", "repeated", "clicked"}
KeyType ==
    [pressed : {0, 1}, pressMs : Nat, heldMs : Nat, longFired : BOOLEAN, repeatNext : Nat,
     pendingClicks : Nat, clickDeadline : Nat, clickPending : BOOLEAN, isClick : BOOLEAN,
     clickCount : Nat, news : SUBSET KeyNews]
SeenType == [calm : Nat \cup {Unknown}, clicks : Nat, told : Nat, holds : Nat]

\* Everything has its type.
KeysTyped ==
    /\ bset \in ButtonSetupType
    /\ clock \in Nat
    /\ pins \in [AllKeys -> PinType]
    /\ source \in SourceType
    /\ step \in StepType
    /\ keys \in [AllKeys -> KeyType]
    /\ seen \in [AllKeys -> SeenType]

\* How long a key has been held, never less than nothing.
LEMMA MaxOfTwo == ASSUME NEW n \in Int
                  PROVE  Max({0, n}) = IF n > 0 THEN n ELSE 0
  <1> DEFINE m == IF n > 0 THEN n ELSE 0
  <1>1. m \in {0, n} /\ \A y \in {0, n} : m >= y
    OBVIOUS
  <1>2. \A x \in {0, n} : (\A y \in {0, n} : x >= y) => x = m
    OBVIOUS
  <1> HIDE DEF m
  <1> QED BY <1>1, <1>2 DEF Max

\* The repeat is re-armed at the first boundary past the one just told.
LEMMA NextBoundary ==
  ASSUME NEW b \in Nat, NEW r \in Nat \ {0}
  PROVE  (b \div r + 1) * r \in Nat /\ (b \div r + 1) * r > b
  <1> DEFINE q == b \div r
  <1>1. q \in Nat /\ b = (q * r) + (b % r) /\ (b % r) \in 0 .. (r - 1)
    OBVIOUS
  <1> HIDE DEF q
  <1>2. q * r \in Nat /\ (q + 1) * r = q * r + r
    BY <1>1
  <1> QED BY <1>1, <1>2 DEF q

\* What is told of a key is one of the five events.
LEMMA NewsOf ==
  ASSUME NEW b \in KeyType, NEW what \in KeyNews
  PROVE  b.news \cup {what} \in SUBSET KeyNews
  BY DEF KeyType

\* What an edge makes of a key.
FoldsTo(b, p, ms, r) ==
    /\ r \in KeyType
    /\ r.pressed = p
    /\ p = b.pressed => r = b
    /\ p = 1 /\ b.pressed = 0 =>
         /\ r.pressMs = ms /\ r.isClick = TRUE /\ r.clickPending = FALSE
         /\ r.pendingClicks = b.pendingClicks /\ r.news = b.news \cup {"pressed"}
    /\ p = 0 /\ b.pressed = 1 =>
         /\ r.pendingClicks = b.pendingClicks + (IF Counts(b) THEN 1 ELSE 0)
         /\ r.clickPending = (b.clickPending \/ Counts(b))
         /\ r.pressMs = b.pressMs /\ r.isClick = b.isClick /\ r.news = b.news \cup {"released"}

\* A debounced edge changes the level, opens or ends a press, and counts a click.
LEMMA Folded ==
  ASSUME KeysTyped, NEW b \in KeyType, NEW p \in {0, 1}, NEW ms \in Nat
  PROVE  FoldsTo(b, p, ms, ApplyEdge(b, p, ms))
  <1> USE DEF FoldsTo
  <1>1. CASE p = b.pressed
    <2>1. ApplyEdge(b, p, ms) = b
      BY <1>1 DEF ApplyEdge
    <2> QED BY <1>1, <2>1
  <1>2. CASE p = 1 /\ b.pressed = 0
    <2> DEFINE news == b.news \cup {"pressed"}
    <2>1. bset.delay \in Nat
      BY DEF KeysTyped, ButtonSetupType
    <2>2. news \in SUBSET KeyNews
      BY NewsOf DEF KeyNews
    <2>3. ApplyEdge(b, p, ms) =
            [b EXCEPT !.pressed = 1, !.pressMs = ms, !.longFired = FALSE, !.repeatNext = ms + bset.delay,
                      !.clickPending = FALSE, !.isClick = TRUE, !.news = news]
      BY <1>2 DEF ApplyEdge, PressedAt
    <2> DEFINE next == ms + bset.delay
    <2>4. next \in Nat
      BY <2>1
    <2> HIDE DEF news, next
    <2>5. [b EXCEPT !.pressed = 1, !.pressMs = ms, !.longFired = FALSE, !.repeatNext = next,
                    !.clickPending = FALSE, !.isClick = TRUE, !.news = news] \in KeyType
      BY <2>2, <2>4, Zenon DEF KeyType
    <2>6. ApplyEdge(b, p, ms) \in KeyType
      BY <2>3, <2>5, Zenon DEF next
    <2> DEFINE r == ApplyEdge(b, p, ms)
    <2>7. r.pressed = 1 /\ r.pressMs = ms /\ r.pendingClicks = b.pendingClicks /\ r.news = news
      BY <2>3 DEF KeyType
    <2>8. r.isClick = TRUE /\ r.clickPending = FALSE
      BY <2>3 DEF KeyType
    <2> HIDE DEF r
    <2>9. /\ r \in KeyType /\ r.pressed = 1 /\ r.pressMs = ms /\ r.pendingClicks = b.pendingClicks
          /\ r.news = b.news \cup {"pressed"} /\ r.isClick = TRUE /\ r.clickPending = FALSE
      BY <2>6, <2>7, <2>8 DEF r, news
    <2> QED BY <1>2, <2>9 DEF r
  <1>3. CASE p = 0 /\ b.pressed = 1
    <2> DEFINE held == Max({0, ms - b.pressMs})
               news == b.news \cup {"released"}
               due == ms + bset.click
               more == b.pendingClicks + 1
               up == [b EXCEPT !.pressed = 0, !.heldMs = held, !.news = news]
    <2>1. due \in Nat /\ more \in Nat
      BY DEF KeysTyped, ButtonSetupType, KeyType
    <2>2. news \in SUBSET KeyNews
      BY NewsOf DEF KeyNews
    <2>3. held \in Nat
      <3>1. ms - b.pressMs \in Int
        BY DEF KeyType
      <3> QED BY <3>1, MaxOfTwo
    <2>4. up.pendingClicks = b.pendingClicks
      BY DEF KeyType
    <2>5. ApplyEdge(b, p, ms) =
            IF Counts(b)
            THEN [up EXCEPT !.pendingClicks = more, !.clickDeadline = due, !.clickPending = TRUE]
            ELSE up
      BY <1>3, <2>4 DEF ApplyEdge, ReleasedAt
    <2> HIDE DEF held, news, due, more
    <2>6. up \in KeyType
      BY <2>2, <2>3 DEF KeyType
    <2>7. up.pressed = 0 /\ up.clickPending = b.clickPending /\ up.pressMs = b.pressMs /\ up.isClick = b.isClick
           /\ up.news = news
      BY DEF KeyType
    <2> HIDE DEF up
    <2> DEFINE r == ApplyEdge(b, p, ms)
    <2>8. CASE Counts(b)
      <3>1. r = [up EXCEPT !.pendingClicks = more, !.clickDeadline = due, !.clickPending = TRUE]
        BY <2>5, <2>8
      <3> HIDE DEF r
      <3>2. r \in KeyType
        BY <2>1, <2>6, <3>1 DEF KeyType
      <3>3. r.pressed = 0 /\ r.pendingClicks = more /\ r.pressMs = b.pressMs /\ r.news = news
        BY <2>6, <2>7, <3>1 DEF KeyType
      <3>4. r.isClick = b.isClick /\ r.clickPending = TRUE
        BY <2>6, <2>7, <3>1 DEF KeyType
      <3>5. /\ r.pendingClicks = b.pendingClicks + 1 /\ r.clickPending = (b.clickPending \/ Counts(b))
            /\ r.news = b.news \cup {"released"}
        BY <2>8, <3>3, <3>4 DEF more, news
      <3> QED BY <1>3, <2>8, <3>2, <3>3, <3>4, <3>5 DEF r
    <2>9. CASE ~Counts(b)
      <3>1. r = up
        BY <2>5, <2>9
      <3> HIDE DEF r
      <3>2. b.clickPending \in BOOLEAN
        BY DEF KeyType
      <3>3. /\ r.pendingClicks = b.pendingClicks + 0 /\ r.clickPending = (b.clickPending \/ Counts(b))
            /\ r.news = b.news \cup {"released"}
        BY <2>4, <2>7, <2>9, <3>1, <3>2 DEF news, KeyType
      <3> QED BY <1>3, <2>6, <2>7, <2>9, <3>1, <3>3 DEF r
    <2> QED BY <2>8, <2>9
  <1> QED BY <1>1, <1>2, <1>3 DEF KeyType

\* The pass of time over a key.
LEMMA HeldOf ==
  ASSUME KeysTyped, NEW b \in KeyType
  PROVE  \E h \in Nat : /\ h = IF source.now > b.pressMs THEN source.now - b.pressMs ELSE 0
                        /\ Held(b) = [b EXCEPT !.heldMs = h]
                        /\ Held(b) \in KeyType
  <1>1. source.now \in Nat /\ b.pressMs \in Nat
    BY DEF KeysTyped, SourceType, KeyType
  <1>2. Max({0, source.now - b.pressMs}) = IF source.now > b.pressMs THEN source.now - b.pressMs ELSE 0
    BY <1>1, MaxOfTwo
  <1> DEFINE h == Max({0, source.now - b.pressMs})
  <1>3. h \in Nat
    BY <1>1, <1>2
  <1>4. Held(b) = [b EXCEPT !.heldMs = h]
    BY DEF Held
  <1> HIDE DEF h
  <1>5. Held(b) \in KeyType
    BY <1>3, <1>4 DEF KeyType
  <1> QED BY <1>2, <1>3, <1>4, <1>5 DEF h

\* The long press is told once its time has come.
LEMMA LongOf ==
  ASSUME KeysTyped, NEW b \in KeyType
  PROVE  LET fires == bset.long > 0 /\ ~b.longFired /\ b.heldMs >= bset.long IN
         /\ Long(b) \in KeyType
         /\ Long(b) = IF fires THEN [b EXCEPT !.longFired = TRUE, !.news = @ \cup {"long"}] ELSE b
  <1> DEFINE news == b.news \cup {"long"}
  <1>1. news \in SUBSET KeyNews
    BY NewsOf DEF KeyNews
  <1>2. Long(b) = IF bset.long > 0 /\ ~b.longFired /\ b.heldMs >= bset.long
                  THEN [b EXCEPT !.longFired = TRUE, !.news = news] ELSE b
    BY DEF Long
  <1> HIDE DEF news
  <1>3. Long(b) \in KeyType
    BY <1>1, <1>2 DEF KeyType
  <1> QED BY <1>2, <1>3 DEF news

\* A repeat told leaves its timer past the present.
LEMMA RepeatOf ==
  ASSUME KeysTyped, NEW b \in KeyType
  PROVE  LET fires == bset.repeat > 0 /\ source.now >= b.repeatNext IN
         \E n \in Nat :
            /\ fires => n > source.now
            /\ ~fires => n = b.repeatNext
            /\ Repeat(b) = IF fires THEN [b EXCEPT !.repeatNext = n, !.news = @ \cup {"repeated"}] ELSE b
            /\ Repeat(b) \in KeyType
  <1> DEFINE behind == source.now - b.repeatNext
             fires == bset.repeat > 0 /\ behind >= 0
             n == b.repeatNext + (behind \div bset.repeat + 1) * bset.repeat
  <1>1. source.now \in Nat /\ b.repeatNext \in Nat /\ bset.repeat \in Nat
    BY DEF KeysTyped, SourceType, KeyType, ButtonSetupType
  <1>2. CASE fires
    <2>1. behind \in Nat /\ bset.repeat \in Nat \ {0}
      BY <1>1, <1>2
    <2> DEFINE x == (behind \div bset.repeat + 1) * bset.repeat
    <2>2. x \in Nat /\ x > behind
      BY <2>1, NextBoundary
    <2>3. Repeat(b) = [b EXCEPT !.repeatNext = b.repeatNext + x, !.news = @ \cup {"repeated"}]
      BY <1>2 DEF Repeat, KeyType
    <2> HIDE DEF x
    <2>4. b.repeatNext + x \in Nat /\ b.repeatNext + x > source.now
      BY <1>1, <2>2
    <2>5. Repeat(b) \in KeyType
      <3> DEFINE next == b.repeatNext + x
                 news == b.news \cup {"repeated"}
      <3>1. news \in SUBSET KeyNews
        BY NewsOf DEF KeyNews
      <3> HIDE DEF next, news
      <3>2. [b EXCEPT !.repeatNext = next, !.news = news] \in KeyType
        BY <2>4, <3>1 DEF KeyType, next
      <3> QED BY <2>3, <3>2 DEF next, news
    <2>6. bset.repeat > 0 /\ source.now >= b.repeatNext
      BY <1>1, <1>2
    <2> QED BY <2>3, <2>4, <2>5, <2>6
  <1>3. CASE ~fires
    <2>1. Repeat(b) = b
      BY <1>3 DEF Repeat
    <2>2. ~(bset.repeat > 0 /\ source.now >= b.repeatNext)
      BY <1>1, <1>3
    <2> QED BY <1>1, <2>1, <2>2
  <1> QED BY <1>2, <1>3

\* Closing a series tells the clicks it counted.
LEMMA CloseOf ==
  ASSUME NEW b \in KeyType
  PROVE  /\ Close(b) \in KeyType
         /\ Close(b) = [b EXCEPT !.clickCount = b.pendingClicks, !.pendingClicks = 0,
                                 !.news = @ \cup {"clicked"}]
  <1> DEFINE news == b.news \cup {"clicked"}
  <1>1. news \in SUBSET KeyNews
    BY NewsOf DEF KeyNews
  <1>2. Close(b) = [b EXCEPT !.clickCount = b.pendingClicks, !.pendingClicks = 0, !.news = news]
    BY DEF Close
  <1> HIDE DEF news
  <1> DEFINE n == b.pendingClicks
  <1>3. n \in Nat
    BY DEF KeyType
  <1> HIDE DEF n
  <1>4. [b EXCEPT !.clickCount = n, !.pendingClicks = 0, !.news = news] \in KeyType
    BY <1>1, <1>3, Zenon, 0 \in Nat DEF KeyType
  <1> QED BY <1>2, <1>4 DEF news, n

\* A press held past the click window counts no more, and closes the series before it.
LEMMA HoldOf ==
  ASSUME KeysTyped, NEW b \in KeyType
  PROVE  LET r == Hold(b)
             stops == Counts(b) /\ b.heldMs >= bset.click
         IN  /\ r \in KeyType
             /\ r.pressed = b.pressed /\ r.pressMs = b.pressMs /\ r.longFired = b.longFired
             /\ r.repeatNext = b.repeatNext /\ r.clickPending = b.clickPending
             /\ r.clickDeadline = b.clickDeadline /\ r.heldMs = b.heldMs
             /\ ~stops => r = b
             /\ stops => r.isClick = FALSE /\ r.pendingClicks = 0
             /\ stops /\ b.pendingClicks = 0 => r.news = b.news
             /\ stops /\ b.pendingClicks > 0 => r.clickCount = b.pendingClicks /\ r.news = b.news \cup {"clicked"}
  <1> DEFINE stops == Counts(b) /\ b.heldMs >= bset.click
             held == [b EXCEPT !.isClick = FALSE]
  <1>1. /\ held \in KeyType /\ held.isClick = FALSE /\ held.news = b.news
        /\ held.pressed = b.pressed /\ held.pressMs = b.pressMs /\ held.longFired = b.longFired
        /\ held.repeatNext = b.repeatNext /\ held.clickPending = b.clickPending
        /\ held.clickDeadline = b.clickDeadline /\ held.heldMs = b.heldMs
        /\ held.pendingClicks = b.pendingClicks
    BY DEF KeyType
  <1>2. Hold(b) = IF stops THEN IF b.pendingClicks > 0 THEN Close(held) ELSE held ELSE b
    BY DEF Hold
  <1> HIDE DEF held
  <1>3. b.pendingClicks \in Nat
    BY DEF KeyType
  <1>4. CASE ~stops
    <2>1. Hold(b) = b
      BY <1>2, <1>4
    <2> QED BY <1>4, <2>1
  <1>5. CASE stops /\ b.pendingClicks = 0
    <2>1. Hold(b) = held
      BY <1>2, <1>5
    <2> QED BY <1>1, <1>5, <2>1
  <1>6. CASE stops /\ b.pendingClicks > 0
    <2>1. Hold(b) = Close(held)
      BY <1>2, <1>6
    <2> DEFINE c == Close(held)
    <2>2. /\ c \in KeyType
          /\ c = [held EXCEPT !.clickCount = held.pendingClicks, !.pendingClicks = 0,
                              !.news = @ \cup {"clicked"}]
      BY <1>1, CloseOf
    <2> HIDE DEF c
    <2>3. /\ c.isClick = held.isClick /\ c.news = held.news \cup {"clicked"} /\ c.pendingClicks = 0
          /\ c.clickCount = held.pendingClicks
      BY <1>1, <2>2 DEF KeyType
    <2>4. /\ c.pressed = held.pressed /\ c.pressMs = held.pressMs /\ c.longFired = held.longFired
          /\ c.repeatNext = held.repeatNext /\ c.clickPending = held.clickPending
          /\ c.clickDeadline = held.clickDeadline /\ c.heldMs = held.heldMs
      BY <1>1, <2>2 DEF KeyType
    <2>5. Hold(b) = c
      BY <2>1 DEF c
    <2>6. /\ c \in KeyType /\ c.isClick = FALSE /\ c.news = b.news \cup {"clicked"} /\ c.pendingClicks = 0
          /\ c.clickCount = b.pendingClicks
          /\ c.pressed = b.pressed /\ c.pressMs = b.pressMs /\ c.longFired = b.longFired
          /\ c.repeatNext = b.repeatNext /\ c.clickPending = b.clickPending
          /\ c.clickDeadline = b.clickDeadline /\ c.heldMs = b.heldMs
      BY <1>1, <2>2, <2>3, <2>4
    <2>7. b.pendingClicks # 0
      BY <1>3, <1>6
    <2> QED BY <1>6, <2>5, <2>6, <2>7
  <1>7. ~stops \/ (stops /\ b.pendingClicks = 0) \/ (stops /\ b.pendingClicks > 0)
    BY <1>3
  <1> HIDE DEF stops
  <1> QED BY <1>4, <1>5, <1>6, <1>7

\* A series closes when its window has passed without a press.
LEMMA SeriesOf ==
  ASSUME KeysTyped, NEW b \in KeyType
  PROVE  LET r == Series(b)
             ends == b.clickPending /\ source.now >= b.clickDeadline
         IN  /\ r \in KeyType
             /\ r.pressed = b.pressed /\ r.pressMs = b.pressMs /\ r.longFired = b.longFired
             /\ r.repeatNext = b.repeatNext /\ r.isClick = b.isClick
             /\ r.clickDeadline = b.clickDeadline /\ r.heldMs = b.heldMs
             /\ ~ends => r = b
             /\ ends => /\ r.clickPending = FALSE /\ r.pendingClicks = 0 /\ r.clickCount = b.pendingClicks
                        /\ r.news = b.news \cup {"clicked"}
  <1> DEFINE ends == b.clickPending /\ source.now >= b.clickDeadline
             over == [b EXCEPT !.clickPending = FALSE]
             c == Close(over)
  <1>1. /\ over \in KeyType /\ over.isClick = b.isClick /\ over.news = b.news
        /\ over.pressed = b.pressed /\ over.pressMs = b.pressMs /\ over.longFired = b.longFired
        /\ over.repeatNext = b.repeatNext /\ over.clickPending = FALSE
        /\ over.clickDeadline = b.clickDeadline /\ over.heldMs = b.heldMs
        /\ over.pendingClicks = b.pendingClicks
    BY DEF KeyType
  <1>2. Series(b) = IF ends THEN c ELSE b
    BY DEF Series
  <1> HIDE DEF over
  <1>3. /\ c \in KeyType
        /\ c = [over EXCEPT !.clickCount = over.pendingClicks, !.pendingClicks = 0,
                            !.news = @ \cup {"clicked"}]
    BY <1>1, CloseOf
  <1> HIDE DEF c
  <1>4. /\ c.isClick = over.isClick /\ c.news = over.news \cup {"clicked"} /\ c.pendingClicks = 0
        /\ c.clickCount = over.pendingClicks
    BY <1>1, <1>3 DEF KeyType
  <1>5. /\ c.pressed = over.pressed /\ c.pressMs = over.pressMs /\ c.longFired = over.longFired
        /\ c.repeatNext = over.repeatNext /\ c.clickPending = over.clickPending
        /\ c.clickDeadline = over.clickDeadline /\ c.heldMs = over.heldMs
    BY <1>1, <1>3 DEF KeyType
  <1>6. CASE ends
    <2>1. Series(b) = c
      BY <1>2, <1>6
    <2> QED BY <1>1, <1>3, <1>4, <1>5, <1>6, <2>1
  <1>7. CASE ~ends
    <2>1. Series(b) = b
      BY <1>2, <1>7
    <2> QED BY <1>7, <2>1
  <1> QED BY <1>6, <1>7

\* Nothing pending without a timer or a press that closes the series; a press has
\* stopped the timer.
Sound(b) ==
    /\ b.pendingClicks > 0 => bset.click > 0 /\ (b.clickPending \/ (b.pressed = 1 /\ b.isClick))
    /\ b.pressed = 1 => ~b.clickPending

\* The timers run over a pressed key, up to the count of its clicks.
LEMMA PressedOn ==
  ASSUME KeysTyped, NEW b \in KeyType, b.pressed = 1
  PROVE  LET r == Repeat(Long(Held(b)))
         IN  /\ r \in KeyType
             /\ r.pressed = 1 /\ r.pressMs = b.pressMs /\ r.isClick = b.isClick
             /\ r.pendingClicks = b.pendingClicks /\ r.clickPending = b.clickPending
             /\ r.clickDeadline = b.clickDeadline
             /\ r.heldMs = IF source.now > b.pressMs THEN source.now - b.pressMs ELSE 0
             /\ bset.long > 0 /\ ~r.longFired => b.pressMs + bset.long > source.now
             /\ bset.repeat > 0 => r.repeatNext > source.now
             /\ r.news \subseteq b.news \cup {"long", "repeated"}
             /\ "long" \in r.news => "long" \in b.news
                                      \/ (bset.long > 0 /\ ~b.longFired /\ b.pressMs + bset.long <= source.now)
             /\ "repeated" \in r.news => "repeated" \in b.news
                                          \/ (bset.repeat > 0 /\ b.repeatNext <= source.now)
  <1> DEFINE h == Held(b)
             l == Long(h)
             r == Repeat(l)
  <1>0. /\ source.now \in Nat /\ b.pressMs \in Nat /\ bset.long \in Nat /\ bset.repeat \in Nat
        /\ b.repeatNext \in Nat /\ b.longFired \in BOOLEAN
    BY DEF KeysTyped, SourceType, KeyType, ButtonSetupType
  <1>1. PICK held \in Nat : /\ held = IF source.now > b.pressMs THEN source.now - b.pressMs ELSE 0
                            /\ h = [b EXCEPT !.heldMs = held]
                            /\ h \in KeyType
    BY HeldOf
  <1>2. /\ h.pressed = 1 /\ h.pressMs = b.pressMs /\ h.isClick = b.isClick
        /\ h.pendingClicks = b.pendingClicks /\ h.clickPending = b.clickPending
        /\ h.clickDeadline = b.clickDeadline /\ h.longFired = b.longFired /\ h.repeatNext = b.repeatNext
        /\ h.news = b.news /\ h.heldMs = held
    BY <1>1 DEF KeyType
  <1> DEFINE fires == bset.long > 0 /\ ~h.longFired /\ h.heldMs >= bset.long
  <1> HIDE DEF h
  <1>3. /\ l \in KeyType
        /\ l = IF fires THEN [h EXCEPT !.longFired = TRUE, !.news = @ \cup {"long"}] ELSE h
    BY <1>1, LongOf
  <1> HIDE DEF l
  <1>4. /\ l.pressed = h.pressed /\ l.pressMs = h.pressMs /\ l.isClick = h.isClick
        /\ l.pendingClicks = h.pendingClicks /\ l.clickPending = h.clickPending
        /\ l.clickDeadline = h.clickDeadline /\ l.repeatNext = h.repeatNext /\ l.heldMs = h.heldMs
    BY <1>1, <1>3 DEF KeyType
  <1>5. /\ fires => l.longFired = TRUE /\ l.news = h.news \cup {"long"}
        /\ ~fires => l = h
    BY <1>1, <1>3 DEF KeyType
  <1> DEFINE again == bset.repeat > 0 /\ source.now >= l.repeatNext
  <1>6. PICK n \in Nat :
            /\ again => n > source.now
            /\ ~again => n = l.repeatNext
            /\ r = IF again THEN [l EXCEPT !.repeatNext = n, !.news = @ \cup {"repeated"}] ELSE l
            /\ r \in KeyType
    BY <1>3, RepeatOf
  <1> HIDE DEF r
  <1>7. /\ r.pressed = l.pressed /\ r.pressMs = l.pressMs /\ r.isClick = l.isClick
        /\ r.pendingClicks = l.pendingClicks /\ r.clickPending = l.clickPending
        /\ r.clickDeadline = l.clickDeadline /\ r.longFired = l.longFired /\ r.heldMs = l.heldMs
    BY <1>3, <1>6 DEF KeyType
  <1>8. /\ again => r.repeatNext = n /\ r.news = l.news \cup {"repeated"}
        /\ ~again => r = l
    BY <1>3, <1>6 DEF KeyType
  <1>9. fires <=> (bset.long > 0 /\ ~b.longFired /\ b.pressMs + bset.long <= source.now)
    BY <1>0, <1>1, <1>2
  <1>a. again <=> (bset.repeat > 0 /\ b.repeatNext <= source.now)
    BY <1>0, <1>2, <1>4
  <1>b. bset.repeat > 0 => r.repeatNext > source.now
    BY <1>0, <1>2, <1>4, <1>6, <1>8
  <1>c. bset.long > 0 /\ ~r.longFired => b.pressMs + bset.long > source.now
    BY <1>0, <1>2, <1>5, <1>7, <1>9
  <1> HIDE DEF fires, again
  <1>d. /\ l.news = h.news \cup (IF fires THEN {"long"} ELSE {})
        /\ r.news = l.news \cup (IF again THEN {"repeated"} ELSE {})
    BY <1>5, <1>8
  <1>e. /\ r.news \subseteq b.news \cup {"long", "repeated"}
        /\ "long" \in r.news => "long" \in b.news \/ fires
        /\ "repeated" \in r.news => "repeated" \in b.news \/ again
    BY <1>2, <1>d
  <1>f. /\ r.pressed = 1 /\ r.pressMs = b.pressMs /\ r.isClick = b.isClick
        /\ r.pendingClicks = b.pendingClicks /\ r.clickPending = b.clickPending
        /\ r.clickDeadline = b.clickDeadline
        /\ r.heldMs = IF source.now > b.pressMs THEN source.now - b.pressMs ELSE 0
    BY <1>1, <1>2, <1>4, <1>7
  <1> QED BY <1>6, <1>9, <1>a, <1>b, <1>c, <1>e, <1>f DEF r, l, h

\* What a pass of time does to a key: it tells the clicks it closes, holds no press
\* for a click that is too long, and leaves no timer due that it has not served.
Honest(b, r) ==
    /\ r \in KeyType
    /\ Sound(r)
    /\ r.pressed = b.pressed /\ r.pressMs = b.pressMs
    /\ (IF "clicked" \in r.news THEN r.clickCount ELSE 0) + r.pendingClicks = b.pendingClicks
    /\ r.pressed = 1 /\ r.isClick /\ bset.click > 0 => r.pressMs + bset.click > source.now
    /\ \A due \in Timers(r) : due > source.now
    /\ b.news = {} /\ r.news # {} => \E due \in Timers(b) : due <= source.now

\* The timers of a released key: the window of its series alone.
LEMMA ReleasedOn ==
  ASSUME KeysTyped, NEW b \in KeyType, Sound(b), "clicked" \notin b.news, b.pressed = 0
  PROVE  Honest(b, Advanced(b))
  <1> DEFINE r == Series(b)
             ends == b.clickPending /\ source.now >= b.clickDeadline
  <1>1. Advanced(b) = r
    BY DEF Advanced
  <1>2. /\ r \in KeyType
        /\ r.pressed = b.pressed /\ r.pressMs = b.pressMs
        /\ r.clickDeadline = b.clickDeadline
        /\ ~ends => r = b
        /\ ends => /\ r.clickPending = FALSE /\ r.pendingClicks = 0 /\ r.clickCount = b.pendingClicks
                   /\ r.news = b.news \cup {"clicked"}
    BY SeriesOf
  <1>3. /\ source.now \in Nat /\ b.clickDeadline \in Nat /\ b.pendingClicks \in Nat
        /\ b.clickPending \in BOOLEAN
    BY DEF KeysTyped, SourceType, KeyType
  <1>4. Timers(r) = IF r.clickPending THEN {r.clickDeadline} ELSE {}
    BY <1>2 DEF Timers
  <1>5. Timers(b) = IF b.clickPending THEN {b.clickDeadline} ELSE {}
    BY DEF Timers
  <1> HIDE DEF r
  <1>6. CASE ends
    <2>1. "clicked" \in r.news /\ r.pendingClicks = 0 /\ r.clickCount = b.pendingClicks
      BY <1>2, <1>6
    <2>2. Timers(r) = {} /\ b.clickDeadline \in Timers(b) /\ b.clickDeadline <= source.now
      BY <1>2, <1>3, <1>4, <1>5, <1>6
    <2>3. Sound(r)
      BY <1>2, <2>1 DEF Sound
    <2> QED BY <1>1, <1>2, <1>3, <2>1, <2>2, <2>3 DEF Honest
  <1>7. CASE ~ends
    <2>1. r = b
      BY <1>2, <1>7
    <2>2. \A due \in Timers(r) : due > source.now
      BY <1>3, <1>5, <1>7, <2>1
    <2> QED BY <1>1, <1>3, <2>1, <2>2 DEF Honest
  <1> QED BY <1>6, <1>7

\* The timers of a pressed key: long press, repeat and hold.
LEMMA PressedIsHonest ==
  ASSUME KeysTyped, NEW b \in KeyType, Sound(b), "clicked" \notin b.news, b.pressed = 1
  PROVE  Honest(b, Advanced(b))
  <1> DEFINE p == Repeat(Long(Held(b)))
             q == Hold(p)
             r == Series(q)
             stops == Counts(p) /\ p.heldMs >= bset.click
  <1>1. Advanced(b) = r
    BY DEF Advanced
  <1>2. /\ p \in KeyType
        /\ p.pressed = 1 /\ p.pressMs = b.pressMs /\ p.isClick = b.isClick
        /\ p.pendingClicks = b.pendingClicks /\ p.clickPending = b.clickPending
        /\ p.clickDeadline = b.clickDeadline
        /\ p.heldMs = IF source.now > b.pressMs THEN source.now - b.pressMs ELSE 0
        /\ bset.long > 0 /\ ~p.longFired => b.pressMs + bset.long > source.now
        /\ bset.repeat > 0 => p.repeatNext > source.now
        /\ p.news \subseteq b.news \cup {"long", "repeated"}
        /\ "long" \in p.news => "long" \in b.news
                                 \/ (bset.long > 0 /\ ~b.longFired /\ b.pressMs + bset.long <= source.now)
        /\ "repeated" \in p.news => "repeated" \in b.news
                                     \/ (bset.repeat > 0 /\ b.repeatNext <= source.now)
    BY PressedOn
  <1> HIDE DEF p
  <1>3. /\ q \in KeyType
        /\ q.pressed = p.pressed /\ q.pressMs = p.pressMs /\ q.longFired = p.longFired
        /\ q.repeatNext = p.repeatNext /\ q.clickPending = p.clickPending
        /\ q.clickDeadline = p.clickDeadline /\ q.heldMs = p.heldMs
        /\ ~stops => q = p
        /\ stops => q.isClick = FALSE /\ q.pendingClicks = 0
        /\ stops /\ p.pendingClicks = 0 => q.news = p.news
        /\ stops /\ p.pendingClicks > 0 => q.clickCount = p.pendingClicks /\ q.news = p.news \cup {"clicked"}
    BY <1>2, HoldOf
  <1> HIDE DEF q
  <1>4. ~b.clickPending /\ ~q.clickPending
    BY <1>2, <1>3 DEF Sound
  <1>5. r = q
    BY <1>3, <1>4, SeriesOf
  <1> HIDE DEF r
  <1>6. /\ source.now \in Nat /\ b.pressMs \in Nat /\ bset.long \in Nat /\ bset.repeat \in Nat
        /\ b.pendingClicks \in Nat /\ bset.click \in Nat
    BY DEF KeysTyped, SourceType, KeyType, ButtonSetupType
  <1>7. /\ q.pressed = 1 /\ q.pressMs = b.pressMs /\ p.pendingClicks \in Nat
        /\ "clicked" \notin p.news
    BY <1>2, <1>3, <1>6
  <1>8. stops <=> (bset.click > 0 /\ b.isClick /\ b.pressMs + bset.click <= source.now)
    BY <1>2, <1>6 DEF Counts
  <1>9. (IF "clicked" \in q.news THEN q.clickCount ELSE 0) + q.pendingClicks = b.pendingClicks
    <2>1. CASE ~stops
      <3>1. q = p
        BY <1>3, <2>1
      <3> QED BY <1>2, <1>6, <1>7, <3>1
    <2>2. CASE stops /\ p.pendingClicks = 0
      BY <1>2, <1>3, <1>6, <1>7, <2>2
    <2>3. CASE stops /\ p.pendingClicks > 0
      BY <1>2, <1>3, <1>6, <1>7, <2>3
    <2> QED BY <1>7, <2>1, <2>2, <2>3
  <1>a. q.isClick /\ bset.click > 0 => q.pressMs + bset.click > source.now
    BY <1>2, <1>3, <1>6, <1>7, <1>8
  <1>b. Sound(q)
    <2>1. CASE ~stops
      <3>1. q = p
        BY <1>3, <2>1
      <3> QED BY <1>2, <1>4, <3>1 DEF Sound
    <2>2. CASE stops
      BY <1>3, <1>4, <2>2 DEF Sound
    <2> QED BY <2>1, <2>2
  <1>c. ASSUME NEW due \in Timers(q) PROVE due > source.now
    <2>1. \/ due = q.pressMs + bset.long /\ bset.long > 0 /\ ~q.longFired
          \/ due = q.repeatNext /\ bset.repeat > 0
          \/ due = q.pressMs + bset.click /\ bset.click > 0 /\ q.isClick
      BY <1>4, <1>c DEF Timers, Counts
    <2> QED BY <1>2, <1>3, <1>7, <1>a, <2>1
  <1>d. ASSUME b.news = {}, q.news # {} PROVE \E due \in Timers(b) : due <= source.now
    <2>1. /\ bset.long > 0 /\ ~b.longFired => b.pressMs + bset.long \in Timers(b)
          /\ bset.repeat > 0 => b.repeatNext \in Timers(b)
          /\ bset.click > 0 /\ b.isClick => b.pressMs + bset.click \in Timers(b)
      BY DEF Timers, Counts
    <2>2. CASE stops
      BY <1>8, <2>1, <2>2
    <2>3. CASE ~stops
      <3>1. p.news # {}
        BY <1>3, <1>d, <2>3
      <3>2. "long" \in p.news \/ "repeated" \in p.news
        BY <1>2, <1>d, <3>1
      <3> QED BY <1>2, <1>d, <2>1, <3>2
    <2> QED BY <2>2, <2>3
  <1>e. q.pressed = b.pressed
    BY <1>7
  <1> QED BY <1>1, <1>3, <1>5, <1>7, <1>9, <1>a, <1>b, <1>c, <1>d, <1>e DEF Honest

\* Together: every key the timers run over.
LEMMA AdvancesHonestly ==
  ASSUME KeysTyped, NEW b \in KeyType, Sound(b), "clicked" \notin b.news
  PROVE  Honest(b, Advanced(b))
  <1>1. b.pressed = 0 \/ b.pressed = 1
    BY DEF KeyType
  <1> QED BY <1>1, ReleasedOn, PressedIsHonest

-----------------------------------------------------------------------------
(* The steps of a pass                                                     *)

\* A step that gives each variable its type keeps the typing.
LEMMA TypedNext ==
  ASSUME KeysTyped, bset' = bset, clock' \in Nat, pins' \in [AllKeys -> PinType], source' \in SourceType,
         step' \in StepType, keys' \in [AllKeys -> KeyType], seen' \in [AllKeys -> SeenType]
  PROVE  KeysTyped'
  BY DEF KeysTyped, AllKeys, PinType, SourceType, Entry, StepType

\* There is a first and a last key.
LEMMA FirstKey ==
  ASSUME KeysTyped PROVE 1 \in AllKeys /\ bset.keys \in AllKeys /\ AllKeys \subseteq Nat \ {0}
  BY DEF KeysTyped, ButtonSetupType, AllKeys

\* The places a pass goes to.
LEMMA StepTyped ==
  ASSUME KeysTyped, NEW at \in {"idle", "drain", "reread", "sweep", "flag"}
  PROVE  Step(at) \in StepType /\ Step(at).at = at /\ Step(at).key = 1
  BY FirstKey DEF Step, StepType

\* What one pin read again makes of the source.
SampledTo(k, ms, r) ==
    /\ r \in SourceType
    /\ r.ring = source.ring /\ r.dropped = source.dropped /\ r.attached = source.attached
    /\ r.believed = source.believed /\ r.sweep = source.sweep /\ r.now = source.now
    /\ r.pending[k] = pins[k].level
    /\ r.change[k] = IF pins[k].level # source.pending[k] /\ pins[k].level # source.believed[k]
                     THEN ms ELSE source.change[k]
    /\ \A j \in AllKeys : j # k => r.pending[j] = source.pending[j] /\ r.change[j] = source.change[j]

\* A sampled pin gives its level, and the instant if that is a change to settle.
LEMMA SampledOf ==
  ASSUME KeysTyped, NEW k \in AllKeys, NEW ms \in Nat
  PROVE  SampledTo(k, ms, Sampled(source, k, ms))
  <1> USE DEF SampledTo
  <1> DEFINE sample == pins[k].level
             moved == IF sample # source.believed[k] THEN ms ELSE source.change[k]
             pending == [source.pending EXCEPT ![k] = sample]
             change == [source.change EXCEPT ![k] = moved]
  <1>1. /\ sample \in {0, 1} /\ source \in SourceType
        /\ source.pending \in [AllKeys -> {0, 1}] /\ source.change \in [AllKeys -> Nat]
    BY DEF KeysTyped, PinType, SourceType
  <1>2. CASE sample = source.pending[k]
    <2>1. Sampled(source, k, ms) = source
      BY <1>2 DEF Sampled
    <2> QED BY <1>1, <1>2, <2>1
  <1>3. CASE sample # source.pending[k]
    <2>1. Sampled(source, k, ms) = [source EXCEPT !.pending = pending, !.change = change]
      BY <1>1, <1>3 DEF Sampled, SourceType
    <2>2. moved \in Nat
      BY <1>1
    <2> HIDE DEF moved
    <2>3. pending \in [AllKeys -> {0, 1}] /\ change \in [AllKeys -> Nat]
      BY <1>1, <2>2
    <2>4. /\ pending[k] = sample /\ change[k] = moved
          /\ \A j \in AllKeys : j # k => pending[j] = source.pending[j] /\ change[j] = source.change[j]
      BY <1>1
    <2> HIDE DEF pending, change
    <2> DEFINE r == Sampled(source, k, ms)
    <2> HIDE DEF r
    <2>5. r = [source EXCEPT !.pending = pending, !.change = change]
      BY <2>1 DEF r
    <2>6. r \in SourceType
      BY <1>1, <2>3, <2>5, Zenon DEF SourceType
    <2>7. /\ r.ring = source.ring /\ r.dropped = source.dropped /\ r.attached = source.attached
          /\ r.believed = source.believed /\ r.sweep = source.sweep /\ r.now = source.now
          /\ r.pending = pending /\ r.change = change
      BY <1>1, <2>5 DEF SourceType
    <2>8. moved = IF sample # source.pending[k] /\ sample # source.believed[k] THEN ms ELSE source.change[k]
      BY <1>3 DEF moved
    <2> HIDE DEF sample
    <2> QED BY <2>4, <2>6, <2>7, <2>8 DEF r, sample
  <1> QED BY <1>2, <1>3

\* A pass begins: the instant is taken, and a matrix scanned.
LEMMA PollShape ==
  ASSUME KeysTyped, Poll
  PROVE  /\ source' \in SourceType
         /\ source'.ring = source.ring /\ source'.dropped = source.dropped
         /\ source'.attached = source.attached /\ source'.believed = source.believed
         /\ source'.sweep = source.sweep /\ source'.now = clock
         /\ ~bset.matrix => source'.pending = source.pending /\ source'.change = source.change
         /\ bset.matrix => \A k \in AllKeys :
              /\ source'.pending[k] = pins[k].level
              /\ source'.change[k] = IF pins[k].level # source.pending[k] /\ pins[k].level # source.believed[k]
                                     THEN clock ELSE source.change[k]
  <1>1. clock \in Nat /\ source \in SourceType
    BY DEF KeysTyped
  <1>2. CASE ~bset.matrix
    <2>1. source' = [source EXCEPT !.now = clock]
      BY <1>2 DEF Poll
    <2>2. source' \in SourceType
      BY <1>1, <2>1 DEF SourceType
    <2>3. /\ source'.ring = source.ring /\ source'.dropped = source.dropped
          /\ source'.attached = source.attached /\ source'.believed = source.believed
          /\ source'.sweep = source.sweep /\ source'.now = clock
          /\ source'.pending = source.pending /\ source'.change = source.change
      BY <1>1, <2>1 DEF SourceType
    <2> QED BY <1>2, <2>2, <2>3
  <1>3. CASE bset.matrix
    <2> DEFINE pending == [k \in AllKeys |-> Sampled(source, k, clock).pending[k]]
               change == [k \in AllKeys |-> Sampled(source, k, clock).change[k]]
    <2>1. source' = [source EXCEPT !.pending = pending, !.change = change, !.now = clock]
      BY <1>3 DEF Poll, Scanned
    <2>2. ASSUME NEW k \in AllKeys
          PROVE  /\ pending[k] \in {0, 1} /\ change[k] \in Nat
                 /\ pending[k] = pins[k].level
                 /\ change[k] = IF pins[k].level # source.pending[k] /\ pins[k].level # source.believed[k]
                                THEN clock ELSE source.change[k]
      <3> DEFINE r == Sampled(source, k, clock)
      <3>1. /\ r \in SourceType /\ r.pending[k] = pins[k].level
            /\ r.change[k] = IF pins[k].level # source.pending[k] /\ pins[k].level # source.believed[k]
                             THEN clock ELSE source.change[k]
        <4>1. SampledTo(k, clock, r)
          BY <1>1, SampledOf
        <4> HIDE DEF r
        <4> QED BY <4>1 DEF SampledTo
      <3>2. pending[k] = r.pending[k] /\ change[k] = r.change[k]
        OBVIOUS
      <3> HIDE DEF r, pending, change
      <3>3. r.pending[k] \in {0, 1} /\ r.change[k] \in Nat
        BY <3>1 DEF SourceType
      <3> QED BY <3>1, <3>2, <3>3
    <2>3. pending \in [AllKeys -> {0, 1}] /\ change \in [AllKeys -> Nat]
      BY <2>2
    <2> HIDE DEF pending, change
    <2>4. source' \in SourceType
      BY <1>1, <2>1, <2>3, Zenon DEF SourceType
    <2>5. /\ source'.ring = source.ring /\ source'.dropped = source.dropped
          /\ source'.attached = source.attached /\ source'.believed = source.believed
          /\ source'.sweep = source.sweep /\ source'.now = clock
          /\ source'.pending = pending /\ source'.change = change
      BY <1>1, <2>1 DEF SourceType
    <2> QED BY <1>3, <2>2, <2>4, <2>5
  <1> QED BY <1>2, <1>3

\* The head of the ring taken off it.
LEMMA DrainShape ==
  ASSUME KeysTyped, DrainEntry
  PROVE  \E entry \in Entry :
         LET k == entry.key
             left == source.pending[k]
             settled == left # source.believed[k] /\ entry.at - source.change[k] >= bset.settle
         IN  /\ source.ring # <<>> /\ entry = Head(source.ring) /\ source'.ring = Tail(source.ring)
             /\ source' \in SourceType
             /\ source'.dropped = source.dropped /\ source'.attached = source.attached
             /\ source'.sweep = source.sweep /\ source'.now = source.now
             /\ \A j \in AllKeys : j # k => /\ source'.pending[j] = source.pending[j]
                                            /\ source'.change[j] = source.change[j]
                                            /\ source'.believed[j] = source.believed[j]
             /\ source'.pending[k] = entry.level
             /\ \/ /\ entry.level = left
                   /\ source'.change[k] = source.change[k] /\ source'.believed[k] = source.believed[k]
                   /\ UNCHANGED <<keys, seen, step>>
                \/ /\ entry.level # left /\ ~settled
                   /\ source'.change[k] = IF entry.level # source.believed[k] THEN entry.at ELSE source.change[k]
                   /\ source'.believed[k] = source.believed[k]
                   /\ UNCHANGED <<keys, seen, step>>
                \/ /\ entry.level # left /\ settled
                   /\ source'.change[k] = entry.at /\ source'.believed[k] = left
                   /\ Publish(k, source.change[k])
  <1> DEFINE entry == Head(source.ring)
             k == entry.key
             left == source.pending[k]
             leftMs == source.change[k]
             tail == Tail(source.ring)
             rest == [source EXCEPT !.ring = tail]
             settled == left # source.believed[k] /\ entry.at - leftMs >= bset.settle
  <1>1. /\ source \in SourceType /\ source.ring \in Seq(Entry) /\ source.ring # <<>>
        /\ source.pending \in [AllKeys -> {0, 1}] /\ source.change \in [AllKeys -> Nat]
        /\ source.believed \in [AllKeys -> {0, 1}]
    BY DEF KeysTyped, SourceType, DrainEntry
  <1>2. entry \in Entry /\ tail \in Seq(Entry)
    BY <1>1
  <1>3. \/ /\ entry.level = left /\ source' = rest /\ NoEvent /\ UNCHANGED step
        \/ /\ entry.level # left /\ ~settled
           /\ source' = [rest EXCEPT !.pending[k] = entry.level,
                                     !.change[k] = IF entry.level # source.believed[k] THEN entry.at ELSE @]
           /\ NoEvent /\ UNCHANGED step
        \/ /\ entry.level # left /\ settled
           /\ source' = [rest EXCEPT !.pending[k] = entry.level, !.believed[k] = left, !.change[k] = entry.at]
           /\ Publish(k, leftMs)
    BY DEF DrainEntry
  <1> HIDE DEF entry, tail
  <1>4. k \in AllKeys /\ entry.level \in {0, 1} /\ entry.at \in Nat /\ left \in {0, 1} /\ leftMs \in Nat
    BY <1>1, <1>2 DEF Entry
  <1> HIDE DEF k
  <1>5. /\ rest \in SourceType /\ rest.ring = tail /\ rest.dropped = source.dropped
        /\ rest.attached = source.attached /\ rest.sweep = source.sweep /\ rest.now = source.now
        /\ rest.pending = source.pending /\ rest.change = source.change /\ rest.believed = source.believed
    BY <1>1, <1>2 DEF SourceType
  <1> HIDE DEF rest
  <1>7. ASSUME entry.level # left, ~settled,
               source' = [rest EXCEPT !.pending[k] = entry.level,
                                      !.change[k] = IF entry.level # source.believed[k] THEN entry.at ELSE @],
               NoEvent, UNCHANGED step
        PROVE  /\ source' \in SourceType
               /\ source'.ring = tail
               /\ source'.dropped = source.dropped /\ source'.attached = source.attached
               /\ source'.sweep = source.sweep /\ source'.now = source.now
               /\ \A j \in AllKeys : j # k => /\ source'.pending[j] = source.pending[j]
                                              /\ source'.change[j] = source.change[j]
                                              /\ source'.believed[j] = source.believed[j]
               /\ source'.pending[k] = entry.level
               /\ source'.change[k] = IF entry.level # source.believed[k] THEN entry.at ELSE source.change[k]
               /\ source'.believed[k] = source.believed[k]
               /\ UNCHANGED <<keys, seen, step>>
    <2> DEFINE moved == IF entry.level # source.believed[k] THEN entry.at ELSE source.change[k]
               pending == [source.pending EXCEPT ![k] = entry.level]
               change == [source.change EXCEPT ![k] = moved]
    <2>1. source' = [rest EXCEPT !.pending = pending, !.change = change]
      BY <1>5, <1>7 DEF SourceType
    <2>2. pending \in [AllKeys -> {0, 1}] /\ change \in [AllKeys -> Nat]
      BY <1>1, <1>4
    <2>3. /\ pending[k] = entry.level /\ change[k] = moved
          /\ \A j \in AllKeys : j # k => pending[j] = source.pending[j] /\ change[j] = source.change[j]
      BY <1>1, <1>4
    <2> HIDE DEF pending, change
    <2>4. source' \in SourceType
      BY <1>5, <2>1, <2>2, Zenon DEF SourceType
    <2>5. /\ source'.ring = rest.ring /\ source'.dropped = rest.dropped
          /\ source'.attached = rest.attached /\ source'.believed = rest.believed
          /\ source'.sweep = rest.sweep /\ source'.now = rest.now
          /\ source'.pending = pending /\ source'.change = change
      BY <1>5, <2>1 DEF SourceType
    <2> QED BY <1>5, <1>7, <2>3, <2>4, <2>5 DEF NoEvent
  <1>8. ASSUME entry.level # left, settled,
               source' = [rest EXCEPT !.pending[k] = entry.level, !.believed[k] = left, !.change[k] = entry.at],
               Publish(k, leftMs)
        PROVE  /\ source' \in SourceType
               /\ source'.ring = tail
               /\ source'.dropped = source.dropped /\ source'.attached = source.attached
               /\ source'.sweep = source.sweep /\ source'.now = source.now
               /\ \A j \in AllKeys : j # k => /\ source'.pending[j] = source.pending[j]
                                              /\ source'.change[j] = source.change[j]
                                              /\ source'.believed[j] = source.believed[j]
               /\ source'.pending[k] = entry.level
               /\ source'.change[k] = entry.at /\ source'.believed[k] = left
    <2> DEFINE pending == [source.pending EXCEPT ![k] = entry.level]
               believed == [source.believed EXCEPT ![k] = left]
               change == [source.change EXCEPT ![k] = entry.at]
    <2>1. source' = [rest EXCEPT !.pending = pending, !.believed = believed, !.change = change]
      BY <1>5, <1>8 DEF SourceType
    <2>2. pending \in [AllKeys -> {0, 1}] /\ change \in [AllKeys -> Nat] /\ believed \in [AllKeys -> {0, 1}]
      BY <1>1, <1>4
    <2>3. /\ pending[k] = entry.level /\ change[k] = entry.at /\ believed[k] = left
          /\ \A j \in AllKeys : j # k => pending[j] = source.pending[j] /\ change[j] = source.change[j]
                                         /\ believed[j] = source.believed[j]
      BY <1>1, <1>4
    <2> HIDE DEF pending, change, believed
    <2>4. source' \in SourceType
      BY <1>5, <2>1, <2>2, Zenon DEF SourceType
    <2>5. /\ source'.ring = rest.ring /\ source'.dropped = rest.dropped
          /\ source'.attached = rest.attached /\ source'.believed = believed
          /\ source'.sweep = rest.sweep /\ source'.now = rest.now
          /\ source'.pending = pending /\ source'.change = change
      BY <1>5, <2>1 DEF SourceType
    <2> QED BY <1>5, <2>3, <2>4, <2>5
  <1> QED
    <2>1. CASE entry.level = left /\ source' = rest /\ NoEvent /\ UNCHANGED step
      BY <1>1, <1>2, <1>4, <1>5, <2>1 DEF NoEvent, entry, tail, k, rest
    <2>2. CASE /\ entry.level # left /\ ~settled
               /\ source' = [rest EXCEPT !.pending[k] = entry.level,
                                         !.change[k] = IF entry.level # source.believed[k] THEN entry.at ELSE @]
               /\ NoEvent /\ UNCHANGED step
      BY <1>1, <1>2, <1>7, <2>2, Zenon DEF entry, tail, k
    <2>3. CASE /\ entry.level # left /\ settled
               /\ source' = [rest EXCEPT !.pending[k] = entry.level, !.believed[k] = left, !.change[k] = entry.at]
               /\ Publish(k, leftMs)
      BY <1>1, <1>2, <1>8, <2>3, Zenon DEF entry, tail, k
    <2> QED BY <1>3, <2>1, <2>2, <2>3

\* The first key the sweep finds due.
LEMMA SweepShape ==
  ASSUME KeysTyped, SweepPublishes
  PROVE  \E k \in AllKeys :
         /\ k \in Settled /\ \A j \in Settled : k <= j
         /\ source' \in SourceType
         /\ source'.ring = source.ring /\ source'.dropped = source.dropped
         /\ source'.attached = source.attached /\ source'.now = source.now
         /\ source'.pending = source.pending /\ source'.change = source.change
         /\ source'.sweep = k + 1
         /\ source'.believed[k] = source.pending[k]
         /\ \A j \in AllKeys : j # k => source'.believed[j] = source.believed[j]
         /\ Publish(k, source.change[k])
  <1> DEFINE k == Min(Settled)
  <1>1. Settled \in SUBSET Nat /\ Settled # {} /\ Settled \subseteq AllKeys
    BY FirstKey DEF SweepPublishes, Settled
  <1>2. k \in Settled /\ \A j \in Settled : k <= j
    BY <1>1, LeastOne
  <1>3. /\ source' = [source EXCEPT !.believed[k] = source.pending[k], !.sweep = k + 1]
        /\ Publish(k, source.change[k])
    BY DEF SweepPublishes
  <1> HIDE DEF k
  <1>4. k \in AllKeys /\ k \in Nat \ {0} /\ k + 1 \in Nat \ {0}
    BY <1>1, <1>2, FirstKey
  <1> DEFINE believed == [source.believed EXCEPT ![k] = source.pending[k]]
             next == k + 1
  <1>5. /\ source \in SourceType /\ source.pending \in [AllKeys -> {0, 1}]
        /\ source.believed \in [AllKeys -> {0, 1}]
    BY DEF KeysTyped, SourceType
  <1>6. source' = [source EXCEPT !.believed = believed, !.sweep = next]
    BY <1>3, <1>5 DEF SourceType
  <1>7. /\ believed \in [AllKeys -> {0, 1}] /\ believed[k] = source.pending[k]
        /\ \A j \in AllKeys : j # k => believed[j] = source.believed[j]
    BY <1>4, <1>5
  <1>8. next \in Nat \ {0}
    BY <1>4
  <1> HIDE DEF believed, next
  <1>9. source' \in SourceType
    BY <1>5, <1>6, <1>7, <1>8, Zenon DEF SourceType
  <1>a. /\ source'.ring = source.ring /\ source'.dropped = source.dropped
        /\ source'.attached = source.attached /\ source'.now = source.now
        /\ source'.pending = source.pending /\ source'.change = source.change
        /\ source'.sweep = next /\ source'.believed = believed
    BY <1>5, <1>6 DEF SourceType
  <1> QED BY <1>2, <1>3, <1>4, <1>7, <1>9, <1>a DEF next

\* An edge captured, or lost in a full ring.
LEMMA InterruptShape ==
  ASSUME KeysTyped, NEW k \in AllKeys, Interrupt(k)
  PROVE  /\ pins[k].latched
         /\ source' \in SourceType /\ pins' \in [AllKeys -> PinType]
         /\ ~pins'[k].latched /\ \A j \in AllKeys : pins'[j].level = pins[j].level
         /\ \A j \in AllKeys : j # k => pins'[j].latched = pins[j].latched
         /\ source'.attached = source.attached /\ source'.now = source.now /\ source'.sweep = source.sweep
         /\ source'.pending = source.pending /\ source'.change = source.change
         /\ source'.believed = source.believed
         /\ \/ source'.ring = source.ring /\ source'.dropped
            \/ /\ source'.ring = Append(source.ring, [key |-> k, level |-> pins[k].level, at |-> clock])
               /\ source'.dropped = source.dropped
  <1>1. /\ source \in SourceType /\ pins \in [AllKeys -> PinType] /\ clock \in Nat
        /\ source.ring \in Seq(Entry) /\ pins[k].level \in {0, 1}
    BY DEF KeysTyped, SourceType, PinType
  <1> DEFINE entry == [key |-> k, level |-> pins[k].level, at |-> clock]
             ring == Append(source.ring, entry)
  <1>2. ring \in Seq(Entry)
    BY <1>1 DEF Entry
  <1>3. pins' = [pins EXCEPT ![k].latched = FALSE] /\ pins[k].latched
    BY DEF Interrupt
  <1>4. /\ pins' \in [AllKeys -> PinType] /\ ~pins'[k].latched
        /\ \A j \in AllKeys : pins'[j].level = pins[j].level
        /\ \A j \in AllKeys : j # k => pins'[j].latched = pins[j].latched
    BY <1>1, <1>3 DEF PinType
  <1>5. \/ source' = [source EXCEPT !.overflowed = TRUE, !.dropped = TRUE]
        \/ source' = [source EXCEPT !.ring = ring]
    BY DEF Interrupt, CaptureEdge
  <1> HIDE DEF ring
  <1>6. CASE source' = [source EXCEPT !.overflowed = TRUE, !.dropped = TRUE]
    <2>1. source' \in SourceType
      BY <1>1, <1>6, Zenon DEF SourceType
    <2>2. /\ source'.attached = source.attached /\ source'.now = source.now /\ source'.sweep = source.sweep
          /\ source'.pending = source.pending /\ source'.change = source.change
          /\ source'.believed = source.believed /\ source'.ring = source.ring /\ source'.dropped = TRUE
      BY <1>1, <1>6 DEF SourceType
    <2> QED BY <1>3, <1>4, <2>1, <2>2
  <1>7. CASE source' = [source EXCEPT !.ring = ring]
    <2>1. source' \in SourceType
      BY <1>1, <1>2, <1>7, Zenon DEF SourceType
    <2>2. /\ source'.attached = source.attached /\ source'.now = source.now /\ source'.sweep = source.sweep
          /\ source'.pending = source.pending /\ source'.change = source.change
          /\ source'.believed = source.believed /\ source'.ring = ring /\ source'.dropped = source.dropped
      BY <1>1, <1>7 DEF SourceType
    <2> QED BY <1>3, <1>4, <2>1, <2>2 DEF ring
  <1> QED BY <1>5, <1>6, <1>7

\* One field of the source set.
LEMMA FlipShape ==
  ASSUME KeysTyped, NEW k \in AllKeys, Flip(k)
  PROVE  /\ pins' \in [AllKeys -> PinType] /\ seen' \in [AllKeys -> SeenType]
         /\ pins'[k].latched = source.attached
         /\ \A j \in AllKeys : j # k => pins'[j] = pins[j] /\ seen'[j] = seen[j]
         /\ seen'[k].calm = Unknown /\ seen'[k].told = seen[k].told /\ seen'[k].clicks = seen[k].clicks
         /\ seen'[k].holds = seen[k].holds
         /\ UNCHANGED <<bset, clock, source, step, keys>>
  <1>1. /\ pins \in [AllKeys -> PinType] /\ source.attached \in BOOLEAN
        /\ seen \in [AllKeys -> SeenType] /\ pins[k] \in PinType
    BY DEF KeysTyped, SourceType
  <1> DEFINE pin == [level |-> 1 - pins[k].level, flips |-> pins[k].flips - 1, latched |-> source.attached]
  <1>2. pins' = [pins EXCEPT ![k] = pin]
    BY DEF Flip
  <1>3. pin \in PinType /\ pin.latched = source.attached
    BY <1>1 DEF PinType, Flip
  <1> HIDE DEF pin
  <1>4. /\ pins' \in [AllKeys -> PinType] /\ pins'[k].latched = source.attached
        /\ \A j \in AllKeys : j # k => pins'[j] = pins[j]
    BY <1>1, <1>2, <1>3
  <1>5. seen' = [seen EXCEPT ![k].calm = Unknown]
    BY DEF Flip
  <1>6. seen' \in [AllKeys -> SeenType]
    BY <1>1, <1>5 DEF SeenType
  <1>7. /\ \A j \in AllKeys : j # k => seen'[j] = seen[j]
        /\ seen'[k].calm = Unknown /\ seen'[k].told = seen[k].told /\ seen'[k].clicks = seen[k].clicks
        /\ seen'[k].holds = seen[k].holds
    BY <1>1, <1>5 DEF SeenType
  <1> QED BY <1>4, <1>6, <1>7 DEF Flip

Believes == \A k \in AllKeys : keys[k].pressed = source.believed[k]
ClicksTold == \A k \in AllKeys : /\ Sound(keys[k])
                                 /\ seen[k].told + keys[k].pendingClicks = seen[k].clicks
FreshNews == ~Idle => \A k \in AllKeys : "clicked" \notin keys[k].news

\* A settled level told to its key.
LEMMA PublishShape ==
  ASSUME KeysTyped, Believes, ClicksTold, NEW k \in AllKeys, NEW ms \in Nat, NEW level \in {0, 1},
         source'.believed[k] = level, level # source.believed[k], Publish(k, ms)
  PROVE  /\ keys' \in [AllKeys -> KeyType] /\ seen' \in [AllKeys -> SeenType] /\ step' = Step("drain")
         /\ \A j \in AllKeys : j # k => keys'[j] = keys[j] /\ seen'[j] = seen[j]
         /\ keys'[k].pressed = level
         /\ seen'[k].calm = seen[k].calm
         /\ Sound(keys'[k]) /\ seen'[k].told + keys'[k].pendingClicks = seen'[k].clicks
         /\ "clicked" \notin keys[k].news => "clicked" \notin keys'[k].news
         /\ level = 1 => keys'[k].pressMs = ms /\ seen'[k].holds = seen[k].holds
         /\ level = 0 /\ ~(Counts(keys[k]) /\ ms - keys[k].pressMs > bset.click) =>
               seen'[k].holds = seen[k].holds
  <1> DEFINE b == keys[k]
             r == ApplyEdge(b, level, ms)
  <1>1. b \in KeyType /\ keys \in [AllKeys -> KeyType] /\ seen \in [AllKeys -> SeenType]
    BY DEF KeysTyped
  <1>2. b.pressed = source.believed[k] /\ Sound(b) /\ seen[k].told + b.pendingClicks = seen[k].clicks
    BY DEF Believes, ClicksTold
  <1>3. b.pressed \in {0, 1} /\ b.pendingClicks \in Nat /\ b.clickPending \in BOOLEAN /\ b.isClick \in BOOLEAN
    BY <1>1 DEF KeyType
  <1>4. /\ r \in KeyType
        /\ r.pressed = level
        /\ level = b.pressed => r = b
        /\ level = 1 /\ b.pressed = 0 =>
             /\ r.pressMs = ms /\ r.isClick = TRUE /\ r.clickPending = FALSE
             /\ r.pendingClicks = b.pendingClicks /\ r.news = b.news \cup {"pressed"}
        /\ level = 0 /\ b.pressed = 1 =>
             /\ r.pendingClicks = b.pendingClicks + (IF Counts(b) THEN 1 ELSE 0)
             /\ r.clickPending = (b.clickPending \/ Counts(b))
             /\ r.pressMs = b.pressMs /\ r.isClick = b.isClick /\ r.news = b.news \cup {"released"}
    <2>1. FoldsTo(b, level, ms, r)
      BY <1>1, Folded
    <2> HIDE DEF b, r
    <2> QED BY <2>1 DEF FoldsTo
  <1>5. keys' = [keys EXCEPT ![k] = r] /\ step' = Step("drain") /\ seen' = Watch(k, level, ms)
    BY DEF Publish
  <1> HIDE DEF r
  <1>6. keys' \in [AllKeys -> KeyType] /\ keys'[k] = r /\ \A j \in AllKeys : j # k => keys'[j] = keys[j]
    BY <1>1, <1>4, <1>5
  <1>7. Sound(r)
    <2>1. CASE level = 1
      BY <1>2, <1>3, <1>4, <2>1 DEF Sound
    <2>2. CASE level = 0
      <3>1. b.pressed = 1 /\ r.pressed = 0
        BY <1>2, <1>3, <1>4, <2>2
      <3>2. bset.click \in Nat
        BY DEF KeysTyped, ButtonSetupType
      <3> QED BY <1>2, <1>3, <1>4, <2>2, <3>1, <3>2 DEF Sound, Counts
    <2> QED BY <2>1, <2>2
  <1> DEFINE counted == b.pressed = 1 /\ level = 0 /\ Counts(b)
             long == ms - b.pressMs > bset.click
             more == IF long THEN 1 ELSE 0
  <1>8. seen' = IF counted THEN [seen EXCEPT ![k].clicks = @ + 1, ![k].holds = @ + more] ELSE seen
    BY <1>5 DEF Watch
  <1>9. "clicked" \notin b.news => "clicked" \notin r.news
    BY <1>2, <1>3, <1>4
  <1>a. seen[k] \in SeenType /\ seen[k].told \in Nat /\ seen[k].clicks \in Nat /\ seen[k].holds \in Nat
    BY <1>1 DEF SeenType
  <1>b. CASE counted
    <2>0. more \in Nat /\ (~long => more = 0)
      OBVIOUS
    <2> HIDE DEF more, long
    <2> DEFINE clicks == seen[k].clicks + 1
               holds == seen[k].holds + more
               s == [seen[k] EXCEPT !.clicks = clicks, !.holds = holds]
    <2>1. seen' = [seen EXCEPT ![k] = s]
      BY <1>1, <1>8, <1>b DEF SeenType
    <2>2. s \in SeenType
      <3>1. clicks \in Nat /\ holds \in Nat
        BY <1>a, <2>0
      <3> HIDE DEF clicks, holds
      <3> QED BY <1>a, <3>1, Zenon DEF SeenType
    <2>3. s.calm = seen[k].calm /\ s.told = seen[k].told /\ s.clicks = seen[k].clicks + 1
          /\ s.holds = seen[k].holds + more
      BY <1>a DEF SeenType
    <2> HIDE DEF s
    <2>4. seen' \in [AllKeys -> SeenType] /\ seen'[k] = s /\ \A j \in AllKeys : j # k => seen'[j] = seen[j]
      BY <1>1, <2>1, <2>2
    <2>5. r.pendingClicks = b.pendingClicks + 1
      BY <1>4, <1>b
    <2>6. seen'[k].told + keys'[k].pendingClicks = seen'[k].clicks
      BY <1>2, <1>3, <1>6, <1>a, <2>3, <2>4, <2>5
    <2>7. level = 0 /\ ~(Counts(b) /\ long) => seen'[k].holds = seen[k].holds
      BY <1>a, <1>b, <2>0, <2>3, <2>4
    <2> QED BY <1>4, <1>5, <1>6, <1>7, <1>9, <1>b, <2>3, <2>4, <2>6, <2>7 DEF long
  <1>c. CASE ~counted
    <2>1. seen' = seen
      BY <1>8, <1>c
    <2>2. r.pendingClicks = b.pendingClicks
      BY <1>2, <1>3, <1>4, <1>c
    <2> HIDE DEF counted
    <2> QED BY <1>1, <1>2, <1>3, <1>4, <1>5, <1>6, <1>7, <1>9, <2>1, <2>2
  <1> QED BY <1>b, <1>c

\* The timers run over every key and tell each series they close.
LEMMA AdvanceShape ==
  ASSUME KeysTyped, ClicksTold, FreshNews, Advance
  PROVE  /\ keys' \in [AllKeys -> KeyType] /\ seen' \in [AllKeys -> SeenType]
         /\ step' = Step("idle") /\ source' = [source EXCEPT !.overflowed = FALSE]
         /\ \A k \in AllKeys :
              /\ Honest(keys[k], keys'[k])
              /\ seen'[k].calm = seen[k].calm /\ seen'[k].holds = seen[k].holds
              /\ seen'[k].told + keys'[k].pendingClicks = seen'[k].clicks
  <1>1. keys \in [AllKeys -> KeyType] /\ seen \in [AllKeys -> SeenType]
    BY DEF KeysTyped
  <1> DEFINE r(k) == Advanced(keys[k])
             told(k) == IF "clicked" \in r(k).news THEN r(k).clickCount ELSE 0
             s(k) == [seen[k] EXCEPT !.told = @ + told(k)]
  <1>2. /\ keys' = [k \in AllKeys |-> r(k)] /\ seen' = [k \in AllKeys |-> s(k)]
        /\ step' = Step("idle") /\ source' = [source EXCEPT !.overflowed = FALSE] /\ ~Idle
    BY DEF Advance, Idle
  <1>3. ASSUME NEW k \in AllKeys
        PROVE  /\ keys'[k] \in KeyType /\ Honest(keys[k], keys'[k])
               /\ seen'[k] \in SeenType /\ seen'[k].calm = seen[k].calm /\ seen'[k].holds = seen[k].holds
               /\ seen'[k].told + keys'[k].pendingClicks = seen'[k].clicks
    <2>1. keys[k] \in KeyType /\ Sound(keys[k]) /\ "clicked" \notin keys[k].news
      BY <1>1, <1>2 DEF ClicksTold, FreshNews
    <2>2. Honest(keys[k], r(k))
      BY <2>1, AdvancesHonestly
    <2>3. keys'[k] = r(k) /\ seen'[k] = s(k)
      BY <1>2
    <2> DEFINE q == r(k)
               n == told(k)
    <2>4. q \in KeyType /\ n + q.pendingClicks = keys[k].pendingClicks
      BY <2>2 DEF Honest
    <2>5. n \in Nat /\ q.pendingClicks \in Nat
      <3> HIDE DEF r
      <3> QED BY <2>4 DEF KeyType
    <2>6. seen[k].told + keys[k].pendingClicks = seen[k].clicks
      BY DEF ClicksTold
    <2>7. s(k) = [seen[k] EXCEPT !.told = seen[k].told + n]
      OBVIOUS
    <2>8. seen[k] \in SeenType /\ seen[k].told \in Nat /\ seen[k].clicks \in Nat
      BY <1>1 DEF SeenType
    <2> HIDE DEF q, n, r, told, s
    <2>9. /\ s(k) \in SeenType /\ s(k).told = seen[k].told + n /\ s(k).clicks = seen[k].clicks
          /\ s(k).calm = seen[k].calm /\ s(k).holds = seen[k].holds
      BY <2>5, <2>7, <2>8 DEF SeenType
    <2>a. s(k).told + q.pendingClicks = s(k).clicks
      BY <2>4, <2>5, <2>6, <2>8, <2>9
    <2>b. keys'[k] = q
      BY <2>3 DEF q
    <2>c. Honest(keys[k], keys'[k])
      BY <2>2, <2>3
    <2> QED BY <2>3, <2>4, <2>9, <2>a, <2>b, <2>c
  <1> HIDE DEF r, s
  <1>4. keys' \in [AllKeys -> KeyType] /\ seen' \in [AllKeys -> SeenType]
    BY <1>2, <1>3
  <1> QED BY <1>2, <1>3, <1>4

\* Nothing is later than the clock; the sweep starts over with each pass; a matrix
\* has no interrupts.
Timely ==
    /\ source.now <= clock
    /\ \A k \in AllKeys : source.change[k] <= clock
    /\ \A i \in 1 .. Len(source.ring) : source.ring[i].at <= clock
    /\ source.sweep > 1 => step.at \in {"drain", "reread", "sweep"}
Unwired == bset.matrix => /\ source.ring = <<>> /\ ~source.attached /\ ~source.dropped
                          /\ \A k \in AllKeys : ~pins[k].latched

Based == KeysTyped /\ Believes /\ ClicksTold /\ FreshNews /\ Timely /\ Unwired

\* The typing, part by part.
LEMMA SourceTyped ==
  ASSUME KeysTyped
  PROVE  /\ source \in SourceType /\ source.ring \in Seq(Entry) /\ source.dropped \in BOOLEAN
         /\ source.attached \in BOOLEAN /\ source.believed \in [AllKeys -> {0, 1}]
         /\ source.pending \in [AllKeys -> {0, 1}] /\ source.change \in [AllKeys -> Nat]
         /\ source.sweep \in Nat \ {0} /\ source.now \in Nat /\ clock \in Nat
         /\ step \in StepType /\ step.at \in {"idle", "drain", "reread", "sweep", "flag"}
         /\ step.key \in AllKeys
         /\ bset.settle \in Nat /\ bset.click \in Nat /\ bset.keys \in Nat \ {0}
         /\ AllKeys \subseteq Nat \ {0}
  BY FirstKey DEF KeysTyped, SourceType, StepType, ButtonSetupType

\* The steps that leave the ring, the pins and the keys alone.
LEMMA DrainEndsShape ==
  ASSUME KeysTyped, DrainEnds
  PROVE  /\ source' \in SourceType /\ step' \in StepType
         /\ source.ring = <<>> /\ source'.ring = source.ring /\ ~source'.dropped
         /\ source'.attached = source.attached /\ source'.believed = source.believed
         /\ source'.pending = source.pending /\ source'.change = source.change
         /\ source'.sweep = source.sweep /\ source'.now = source.now
         /\ step.at = "drain" /\ step' = Step(IF source.dropped THEN "reread" ELSE "sweep")
         /\ UNCHANGED <<bset, clock, pins, keys, seen>>
  <1>1. source \in SourceType
    BY DEF KeysTyped
  <1>2. source' = [source EXCEPT !.dropped = FALSE] /\ source.ring = <<>>
        /\ step' = Step(IF source.dropped THEN "reread" ELSE "sweep")
        /\ step.at = "drain" /\ UNCHANGED <<bset, clock, pins, keys, seen>>
    BY DEF DrainEnds, NoEvent
  <1>3. source' \in SourceType
    BY <1>1, <1>2 DEF SourceType
  <1>4. /\ source'.ring = source.ring /\ ~source'.dropped
        /\ source'.attached = source.attached /\ source'.believed = source.believed
        /\ source'.pending = source.pending /\ source'.change = source.change
        /\ source'.sweep = source.sweep /\ source'.now = source.now
    BY <1>1, <1>2 DEF SourceType
  <1>5. step' \in StepType
    BY <1>2, StepTyped
  <1> QED BY <1>2, <1>3, <1>4, <1>5

\* After a loss one pin is read again, then the next.
LEMMA RereadShape ==
  ASSUME KeysTyped, Reread
  PROVE  /\ SampledTo(step.key, source.now, source') /\ step.at = "reread"
         /\ step' \in StepType
         /\ \/ step.key = bset.keys /\ step'.at = "sweep"
            \/ step.key # bset.keys /\ step'.at = "reread" /\ step'.key = step.key + 1
         /\ UNCHANGED <<bset, clock, pins, keys, seen>>
  <1>1. /\ source' = Sampled(source, step.key, source.now) /\ step.at = "reread"
        /\ step' = IF step.key = bset.keys THEN Step("sweep") ELSE [step EXCEPT !.key = @ + 1]
        /\ UNCHANGED <<bset, clock, pins, keys, seen>>
    BY DEF Reread, NoEvent
  <1>2. step \in StepType /\ step.key \in 1 .. bset.keys /\ bset.keys \in Nat
    BY SourceTyped DEF AllKeys
  <1>5. SampledTo(step.key, source.now, source')
    BY <1>1, SourceTyped, SampledOf
  <1>3. CASE step.key = bset.keys
    BY <1>1, <1>3, <1>5, StepTyped
  <1>4. CASE step.key # bset.keys
    <2>1. step' = [step EXCEPT !.key = step.key + 1]
      BY <1>1, <1>4
    <2>2. step.key + 1 \in AllKeys
      BY <1>2, <1>4 DEF AllKeys
    <2>3. step' \in StepType /\ step'.at = step.at /\ step'.key = step.key + 1
      BY <1>2, <2>1, <2>2 DEF StepType
    <2> QED BY <1>1, <1>4, <1>5, <2>3
  <1> QED BY <1>1, <1>3, <1>4

\* A sweep that finds nothing more ends the drain.
LEMMA SweepEndsShape ==
  ASSUME KeysTyped, SweepEnds
  PROVE  /\ source' \in SourceType /\ step' \in StepType
         /\ source'.ring = source.ring /\ source'.dropped = source.dropped
         /\ source'.attached = source.attached /\ source'.believed = source.believed
         /\ source'.pending = source.pending /\ source'.change = source.change
         /\ source'.sweep = 1 /\ source'.now = source.now
         /\ step.at = "sweep" /\ step'.at = "flag" /\ Settled = {}
         /\ UNCHANGED <<bset, clock, pins, keys, seen>>
  <1>1. source \in SourceType
    BY DEF KeysTyped
  <1>2. source' = [source EXCEPT !.sweep = 1] /\ step' = Step("flag") /\ step.at = "sweep"
        /\ Settled = {} /\ UNCHANGED <<bset, clock, pins, keys, seen>>
    BY DEF SweepEnds, NoEvent
  <1>3. source' \in SourceType
    <2>1. 1 \in Nat \ {0}
      OBVIOUS
    <2> QED BY <1>1, <1>2, <2>1, Zenon DEF SourceType
  <1>4. /\ source'.ring = source.ring /\ source'.dropped = source.dropped
        /\ source'.attached = source.attached /\ source'.believed = source.believed
        /\ source'.pending = source.pending /\ source'.change = source.change
        /\ source'.sweep = 1 /\ source'.now = source.now
    BY <1>1, <1>2 DEF SourceType
  <1> QED BY <1>2, <1>3, <1>4, StepTyped

\* The flag read and the interrupts let go change nothing the drain goes by.
LEMMA FlagShape ==
  ASSUME KeysTyped, \/ source' = [source EXCEPT !.overflowed = FALSE]
                    \/ source' = [source EXCEPT !.attached = FALSE, !.dropped = FALSE]
  PROVE  /\ source' \in SourceType
         /\ source'.ring = source.ring
         /\ source'.believed = source.believed
         /\ source'.pending = source.pending /\ source'.change = source.change
         /\ source'.sweep = source.sweep /\ source'.now = source.now
         /\ \/ source'.attached = source.attached /\ source'.dropped = source.dropped
            \/ ~source'.attached /\ ~source'.dropped
  <1>1. source \in SourceType
    BY DEF KeysTyped
  <1>2. CASE source' = [source EXCEPT !.overflowed = FALSE]
    <2>1. source' \in SourceType
      BY <1>1, <1>2 DEF SourceType
    <2> QED BY <1>1, <1>2, <2>1 DEF SourceType
  <1>3. CASE source' = [source EXCEPT !.attached = FALSE, !.dropped = FALSE]
    <2>1. source' \in SourceType
      BY <1>1, <1>3, Zenon DEF SourceType
    <2> QED BY <1>1, <1>3, <2>1 DEF SourceType
  <1> QED BY <1>2, <1>3

\* Ring entries are edges.
LEMMA EntryOf ==
  ASSUME KeysTyped, NEW i \in 1 .. Len(source.ring)
  PROVE  /\ source.ring[i] \in Entry /\ source.ring[i].at \in Nat /\ source.ring[i].key \in AllKeys
         /\ source.ring[i].level \in {0, 1}
  <1>1. source.ring[i] \in Entry
    BY SourceTyped
  <1> QED BY <1>1 DEF Entry

\* What a ring holds after its head is taken ...
LEMMA TailOf ==
  ASSUME NEW S, NEW s \in Seq(S), s # <<>>
  PROVE  /\ Len(Tail(s)) = Len(s) - 1 /\ Len(s) \in Nat /\ Len(s) > 0 /\ Head(s) = s[1]
         /\ \A i \in 1 .. Len(Tail(s)) : i + 1 \in 1 .. Len(s) /\ Tail(s)[i] = s[i + 1]
  OBVIOUS

\* ... and after an edge is captured.
LEMMA AppendOf ==
  ASSUME NEW S, NEW s \in Seq(S), NEW e \in S
  PROVE  /\ Len(Append(s, e)) = Len(s) + 1 /\ Len(s) \in Nat
         /\ \A i \in 1 .. Len(s) : Append(s, e)[i] = s[i]
         /\ Append(s, e)[Len(s) + 1] = e
  OBVIOUS

\* A pass begins with no news of any key, and a quiet key is quiet from now on.
LEMMA PollKeys ==
  ASSUME KeysTyped, ClicksTold, Poll
  PROVE  /\ keys' \in [AllKeys -> KeyType] /\ seen' \in [AllKeys -> SeenType] /\ step' = Step("drain")
         /\ Idle /\ NoneLatched /\ UNCHANGED <<bset, clock, pins>>
         /\ \A k \in AllKeys :
              /\ keys'[k].pressed = keys[k].pressed /\ keys'[k].news = {}
              /\ keys'[k].pressMs = keys[k].pressMs /\ keys'[k].isClick = keys[k].isClick
              /\ Sound(keys'[k]) /\ keys'[k].pendingClicks = keys[k].pendingClicks
              /\ seen'[k].told = seen[k].told /\ seen'[k].clicks = seen[k].clicks
              /\ seen'[k].holds = seen[k].holds
              /\ seen'[k].calm = IF seen[k].calm = Unknown THEN clock ELSE seen[k].calm
  <1>1. keys \in [AllKeys -> KeyType] /\ seen \in [AllKeys -> SeenType] /\ clock \in Nat
    BY DEF KeysTyped
  <1> DEFINE b(k) == [keys[k] EXCEPT !.news = {}]
             s(k) == [seen[k] EXCEPT !.calm = IF @ = Unknown THEN clock ELSE @]
  <1>2. /\ keys' = [k \in AllKeys |-> b(k)] /\ seen' = [k \in AllKeys |-> s(k)]
        /\ step' = Step("drain") /\ Idle /\ NoneLatched /\ UNCHANGED <<bset, clock, pins>>
    BY DEF Poll
  <1>3. ASSUME NEW k \in AllKeys
        PROVE  /\ b(k) \in KeyType /\ b(k).pressed = keys[k].pressed /\ b(k).news = {}
               /\ b(k).pressMs = keys[k].pressMs /\ b(k).isClick = keys[k].isClick
               /\ b(k).clickPending = keys[k].clickPending
               /\ b(k).pendingClicks = keys[k].pendingClicks
    <2>1. keys[k] \in KeyType
      BY <1>1
    <2> QED BY <2>1 DEF KeyType
  <1>4. ASSUME NEW k \in AllKeys
        PROVE  /\ s(k) \in SeenType /\ s(k).told = seen[k].told /\ s(k).clicks = seen[k].clicks
               /\ s(k).holds = seen[k].holds
               /\ s(k).calm = IF seen[k].calm = Unknown THEN clock ELSE seen[k].calm
    <2> DEFINE calm == IF seen[k].calm = Unknown THEN clock ELSE seen[k].calm
    <2>1. seen[k] \in SeenType /\ calm \in Nat \cup {Unknown}
      BY <1>1 DEF SeenType
    <2>2. s(k) = [seen[k] EXCEPT !.calm = calm]
      OBVIOUS
    <2> HIDE DEF calm, s
    <2>3. s(k).told = seen[k].told /\ s(k).clicks = seen[k].clicks /\ s(k).holds = seen[k].holds /\ s(k).calm = calm
      BY <2>1, <2>2 DEF SeenType
    <2>4. s(k) \in SeenType
      BY <2>1, <2>2 DEF SeenType
    <2> QED BY <2>3, <2>4 DEF calm
  <1> HIDE DEF b, s
  <1>5. keys' \in [AllKeys -> KeyType] /\ seen' \in [AllKeys -> SeenType]
    BY <1>2, <1>3, <1>4
  <1>6. ASSUME NEW k \in AllKeys PROVE Sound(b(k))
    <2>1. Sound(keys[k])
      BY DEF ClicksTold
    <2> QED BY <1>3, <2>1 DEF Sound
  <1>7. \A k \in AllKeys : keys'[k] = b(k) /\ seen'[k] = s(k)
    BY <1>2
  <1> QED BY <1>2, <1>3, <1>4, <1>5, <1>6, <1>7

\* All keys start released, all pins quiet.
LEMMA InitBased == ASSUME ButtonsInit PROVE Based
  <1>0. bset \in ButtonSetupType
    BY ButtonsAssumption DEF ButtonsInit
  <1>1. 1 \in AllKeys /\ AllKeys \subseteq Nat \ {0}
    BY <1>0 DEF AllKeys, ButtonSetupType
  <1>2. PICK level \in [AllKeys -> {0, 1}] :
          /\ pins = [k \in AllKeys |-> [level |-> level[k], flips |-> bset.flips, latched |-> FALSE]]
          /\ source = NewSource(level)
    BY DEF ButtonsInit
  <1> DEFINE pending == [k \in AllKeys |-> IF bset.matrix THEN 0 ELSE level[k]]
             none == [k \in AllKeys |-> 0]
  <1>3. source = [ring |-> <<>>, overflowed |-> FALSE, dropped |-> FALSE, attached |-> ~bset.matrix,
                  believed |-> none, pending |-> pending, change |-> none, sweep |-> 1, now |-> 0]
    BY <1>2 DEF NewSource
  <1>4. /\ pending \in [AllKeys -> {0, 1}] /\ none \in [AllKeys -> {0, 1}] /\ none \in [AllKeys -> Nat]
        /\ \A k \in AllKeys : none[k] = 0
    OBVIOUS
  <1> HIDE DEF pending, none
  <1>5. source \in SourceType
    BY <1>3, <1>4 DEF SourceType
  <1>6. /\ source.ring = <<>> /\ ~source.dropped /\ source.attached = ~bset.matrix
        /\ source.believed = none /\ source.change = none /\ source.sweep = 1 /\ source.now = 0
    BY <1>3
  <1>7. pins \in [AllKeys -> PinType] /\ \A k \in AllKeys : ~pins[k].latched
    BY <1>0, <1>2 DEF PinType, ButtonSetupType
  <1>8. NewButton \in KeyType /\ Sound(NewButton) /\ NewButton.pressed = 0 /\ NewButton.pendingClicks = 0
        /\ NewButton.news = {}
    BY DEF NewButton, KeyType, Sound
  <1>9. /\ step \in StepType /\ step.at = "idle" /\ clock = 0
        /\ keys = [k \in AllKeys |-> NewButton]
        /\ seen = [k \in AllKeys |-> [calm |-> Unknown, clicks |-> 0, told |-> 0, holds |-> 0]]
    BY <1>1 DEF ButtonsInit, Step, StepType
  <1>a. keys \in [AllKeys -> KeyType] /\ \A k \in AllKeys : keys[k] = NewButton
    BY <1>8, <1>9
  <1>b. /\ seen \in [AllKeys -> SeenType]
        /\ \A k \in AllKeys : seen[k].told = 0 /\ seen[k].clicks = 0
    BY <1>9 DEF SeenType
  <1>c. KeysTyped
    BY <1>0, <1>5, <1>7, <1>9, <1>a, <1>b DEF KeysTyped
  <1>d. Believes /\ ClicksTold /\ FreshNews
    <2>1. \A k \in AllKeys : /\ keys[k].pressed = 0 /\ keys[k].pendingClicks = 0 /\ keys[k].news = {}
                             /\ source.believed[k] = 0 /\ Sound(keys[k])
      BY <1>4, <1>6, <1>8, <1>a, Zenon
    <2> QED BY <1>b, <2>1 DEF Believes, ClicksTold, FreshNews
  <1>e. Timely
    BY <1>4, <1>6, <1>9 DEF Timely
  <1>f. Unwired
    BY <1>6, <1>7 DEF Unwired
  <1> QED BY <1>c, <1>d, <1>e, <1>f DEF Based

\* The typing, what a Button is told and the times are kept by every step.
LEMMA BasedStep ==
  ASSUME Based, [ButtonsNext]_bvars
  PROVE  Based'
  <1> USE DEF Based
  <1>0. /\ source \in SourceType /\ source.ring \in Seq(Entry) /\ source.dropped \in BOOLEAN
        /\ source.attached \in BOOLEAN /\ source.believed \in [AllKeys -> {0, 1}]
        /\ source.pending \in [AllKeys -> {0, 1}] /\ source.change \in [AllKeys -> Nat]
        /\ source.sweep \in Nat \ {0} /\ source.now \in Nat /\ clock \in Nat
        /\ step \in StepType /\ step.at \in {"idle", "drain", "reread", "sweep", "flag"}
        /\ step.key \in AllKeys /\ AllKeys \subseteq Nat \ {0}
        /\ pins \in [AllKeys -> PinType] /\ keys \in [AllKeys -> KeyType] /\ seen \in [AllKeys -> SeenType]
    BY SourceTyped DEF KeysTyped
  <1>1. CASE ClockRuns
    <2>1. /\ clock' = clock + 1 /\ UNCHANGED <<bset, pins, source, step, keys, seen>>
      BY <1>1 DEF ClockRuns
    <2>2. KeysTyped'
      BY <1>0, <2>1, TypedNext
    <2>3. Timely'
      <3>1. \A i \in 1 .. Len(source.ring) : source.ring[i].at \in Nat
        BY EntryOf
      <3>2. /\ source.now <= clock /\ source.now \in Nat /\ clock \in Nat
            /\ \A k \in AllKeys : source.change[k] \in Nat /\ source.change[k] <= clock
        BY <1>0 DEF Timely
      <3>3. /\ source.now <= clock + 1
            /\ \A k \in AllKeys : source.change[k] <= clock + 1
            /\ \A i \in 1 .. Len(source.ring) : source.ring[i].at <= clock + 1
        BY <3>1, <3>2 DEF Timely
      <3> QED BY <2>1, <3>3 DEF Timely, AllKeys
    <2> QED BY <2>1, <2>2, <2>3 DEF Believes, ClicksTold, FreshNews, Unwired, AllKeys, Sound, Idle
  <1>2. ASSUME NEW k \in AllKeys, Flip(k) PROVE Based'
    <2>1. /\ pins' \in [AllKeys -> PinType] /\ seen' \in [AllKeys -> SeenType]
          /\ pins'[k].latched = source.attached
          /\ \A j \in AllKeys : j # k => pins'[j] = pins[j] /\ seen'[j] = seen[j]
          /\ seen'[k].told = seen[k].told /\ seen'[k].clicks = seen[k].clicks
          /\ UNCHANGED <<bset, clock, source, step, keys>>
      BY <1>2, FlipShape
    <2>2. KeysTyped'
      BY <1>0, <2>1, TypedNext
    <2>3. Believes' /\ FreshNews' /\ Timely'
      BY <2>1 DEF Believes, FreshNews, Timely, AllKeys, Idle
    <2>4. Unwired'
      BY <2>1 DEF Unwired, AllKeys
    <2>5. ClicksTold'
      BY <2>1 DEF ClicksTold, AllKeys, Sound
    <2> QED BY <2>2, <2>3, <2>4, <2>5
  <1>3. ASSUME NEW k \in AllKeys, Interrupt(k) PROVE Based'
    <2> DEFINE e == [key |-> k, level |-> pins[k].level, at |-> clock]
    <2>1. /\ pins[k].latched
          /\ source' \in SourceType /\ pins' \in [AllKeys -> PinType]
          /\ source'.now = source.now /\ source'.sweep = source.sweep
          /\ source'.change = source.change
          /\ source'.believed = source.believed
          /\ \/ source'.ring = source.ring
             \/ source'.ring = Append(source.ring, e)
      BY <1>3, InterruptShape
    <2>2. UNCHANGED <<bset, clock, step, keys, seen>>
      BY <1>3 DEF Interrupt
    <2>3. KeysTyped'
      BY <1>0, <2>1, <2>2, TypedNext
    <2>4. Believes' /\ FreshNews' /\ ClicksTold'
      BY <2>1, <2>2 DEF Believes, FreshNews, ClicksTold, AllKeys, Idle, Sound
    <2>5. Unwired'
      BY <2>1, <2>2 DEF Unwired, AllKeys
    <2>6. \A i \in 1 .. Len(source'.ring) : source'.ring[i].at <= clock
      <3>1. e \in Entry /\ e.at = clock
        BY <1>0 DEF Entry, PinType
      <3> HIDE DEF e
      <3>2. CASE source'.ring = source.ring
        BY <3>2 DEF Timely
      <3>3. CASE source'.ring = Append(source.ring, e)
        BY <1>0, <3>1, <3>3, AppendOf DEF Timely
      <3> QED BY <2>1, <3>2, <3>3 DEF e
    <2>7. Timely'
      BY <2>1, <2>2, <2>6 DEF Timely, AllKeys
    <2> QED BY <2>3, <2>4, <2>5, <2>7
  <1>4. CASE Poll
    <2>1. /\ keys' \in [AllKeys -> KeyType] /\ seen' \in [AllKeys -> SeenType] /\ step' = Step("drain")
          /\ Idle /\ NoneLatched /\ UNCHANGED <<bset, clock, pins>>
          /\ \A k \in AllKeys :
               /\ keys'[k].pressed = keys[k].pressed /\ keys'[k].news = {}
               /\ Sound(keys'[k]) /\ keys'[k].pendingClicks = keys[k].pendingClicks
               /\ seen'[k].told = seen[k].told /\ seen'[k].clicks = seen[k].clicks
      BY <1>4, PollKeys
    <2>2. /\ source' \in SourceType
          /\ source'.ring = source.ring /\ source'.dropped = source.dropped
          /\ source'.attached = source.attached /\ source'.believed = source.believed
          /\ source'.sweep = source.sweep /\ source'.now = clock
          /\ ~bset.matrix => source'.pending = source.pending /\ source'.change = source.change
          /\ bset.matrix => \A k \in AllKeys :
               /\ source'.change[k] = IF pins[k].level # source.pending[k] /\ pins[k].level # source.believed[k]
                                      THEN clock ELSE source.change[k]
      BY <1>4, PollShape
    <2>3. step' \in StepType /\ step'.at = "drain"
      BY <2>1, StepTyped
    <2>4. KeysTyped'
      BY <1>0, <2>1, <2>2, <2>3, TypedNext
    <2>5. Believes'
      BY <2>1, <2>2 DEF Believes, AllKeys
    <2>6. ClicksTold'
      BY <2>1 DEF ClicksTold, AllKeys, Sound
    <2>7. FreshNews'
      BY <2>1 DEF FreshNews, AllKeys
    <2>8. Timely'
      <3>1. \A k \in AllKeys : source'.change[k] <= clock
        <4>0. \A k \in AllKeys : source.change[k] <= clock /\ clock <= clock
          BY <1>0 DEF Timely
        <4>1. CASE bset.matrix
          BY <2>2, <4>0, <4>1
        <4>2. CASE ~bset.matrix
          BY <2>2, <4>2 DEF Timely
        <4> QED BY <4>1, <4>2
      <3> QED BY <1>0, <2>1, <2>2, <2>3, <3>1 DEF Timely, AllKeys
    <2>9. Unwired'
      BY <2>1, <2>2 DEF Unwired, AllKeys
    <2> QED BY <2>4, <2>5, <2>6, <2>7, <2>8, <2>9
  <1>5. CASE DrainEntry
    <2>0. /\ step.at = "drain" /\ UNCHANGED <<bset, clock, pins>>
      BY <1>5 DEF DrainEntry
    <2>1. PICK entry \in Entry :
             LET k == entry.key
                 left == source.pending[k]
                 settled == left # source.believed[k] /\ entry.at - source.change[k] >= bset.settle
             IN  /\ source.ring # <<>> /\ entry = Head(source.ring) /\ source'.ring = Tail(source.ring)
                 /\ source' \in SourceType
                 /\ source'.dropped = source.dropped /\ source'.attached = source.attached
                 /\ source'.sweep = source.sweep /\ source'.now = source.now
                 /\ \A j \in AllKeys : j # k => /\ source'.pending[j] = source.pending[j]
                                                /\ source'.change[j] = source.change[j]
                                                /\ source'.believed[j] = source.believed[j]
                 /\ source'.pending[k] = entry.level
                 /\ \/ /\ entry.level = left
                       /\ source'.change[k] = source.change[k] /\ source'.believed[k] = source.believed[k]
                       /\ UNCHANGED <<keys, seen, step>>
                    \/ /\ entry.level # left /\ ~settled
                       /\ source'.change[k] = IF entry.level # source.believed[k] THEN entry.at ELSE source.change[k]
                       /\ source'.believed[k] = source.believed[k]
                       /\ UNCHANGED <<keys, seen, step>>
                    \/ /\ entry.level # left /\ settled
                       /\ source'.change[k] = entry.at /\ source'.believed[k] = left
                       /\ Publish(k, source.change[k])
      BY <1>5, DrainShape
    <2> DEFINE k == entry.key
               left == source.pending[k]
    <2>2. k \in AllKeys /\ entry.at \in Nat /\ left \in {0, 1} /\ source.change[k] \in Nat
      BY <1>0 DEF Entry
    <2>3. /\ entry.at <= clock
          /\ \A i \in 1 .. Len(source'.ring) : source'.ring[i].at <= clock
      <3>1. /\ Len(source'.ring) = Len(source.ring) - 1 /\ Len(source.ring) \in Nat /\ Len(source.ring) > 0
            /\ entry = source.ring[1]
            /\ \A i \in 1 .. Len(source'.ring) : i + 1 \in 1 .. Len(source.ring)
                                               /\ source'.ring[i] = source.ring[i + 1]
        BY <1>0, <2>1, TailOf
      <3>2. 1 \in 1 .. Len(source.ring)
        BY <3>1
      <3>3. \A i \in 1 .. Len(source.ring) : source.ring[i].at <= clock
        BY DEF Timely
      <3> HIDE DEF Timely
      <3> QED BY <3>1, <3>2, <3>3
    <2>4. \A j \in AllKeys : source'.change[j] <= clock
      <3>1. source'.change[k] = source.change[k] \/ source'.change[k] = entry.at
        BY <2>1
      <3>2. \A j \in AllKeys : j # k => source'.change[j] = source.change[j]
        BY <2>1
      <3> QED BY <2>2, <2>3, <3>1, <3>2 DEF Timely
    <2>5. source'.sweep = source.sweep /\ source'.now = source.now /\ source' \in SourceType
      BY <2>1
    <2>6. Unwired'
      <3>1. ~bset.matrix
        BY <2>1 DEF Unwired
      <3> QED BY <2>0, <3>1 DEF Unwired
    <2>7. CASE UNCHANGED <<keys, seen, step>> /\ source'.believed[k] = source.believed[k]
      <3>1. \A j \in AllKeys : source'.believed[j] = source.believed[j]
        BY <2>1, <2>7
      <3>2. KeysTyped'
        BY <1>0, <2>0, <2>5, <2>7, TypedNext
      <3>3. Timely'
        BY <2>0, <2>3, <2>4, <2>5, <2>7 DEF Timely, AllKeys
      <3>4. Believes' /\ ClicksTold' /\ FreshNews'
        BY <2>0, <2>7, <3>1 DEF Believes, ClicksTold, FreshNews, AllKeys, Sound, Idle
      <3> QED BY <2>6, <3>2, <3>3, <3>4
    <2>8. CASE source'.believed[k] = left /\ left # source.believed[k] /\ Publish(k, source.change[k])
      <3>1. /\ keys' \in [AllKeys -> KeyType] /\ seen' \in [AllKeys -> SeenType] /\ step' = Step("drain")
            /\ \A j \in AllKeys : j # k => keys'[j] = keys[j] /\ seen'[j] = seen[j]
            /\ keys'[k].pressed = left
            /\ Sound(keys'[k]) /\ seen'[k].told + keys'[k].pendingClicks = seen'[k].clicks
            /\ "clicked" \notin keys[k].news => "clicked" \notin keys'[k].news
        BY <2>2, <2>8, PublishShape
      <3>2. step' \in StepType /\ step'.at = "drain"
        BY <3>1, StepTyped
      <3>3. KeysTyped'
        BY <1>0, <2>0, <2>5, <3>1, <3>2, TypedNext
      <3>4. Timely'
        BY <2>0, <2>3, <2>4, <2>5, <3>2 DEF Timely, AllKeys
      <3>5. Believes'
        <4>1. \A j \in AllKeys : j # k => source'.believed[j] = source.believed[j]
          BY <2>1
        <4> QED BY <2>0, <2>8, <3>1, <4>1 DEF Believes, AllKeys
      <3>6. ClicksTold'
        BY <2>0, <3>1 DEF ClicksTold, AllKeys, Sound
      <3>7. FreshNews'
        BY <2>0, <3>1 DEF FreshNews, AllKeys, Idle
      <3> QED BY <2>6, <3>3, <3>4, <3>5, <3>6, <3>7
    <2> QED BY <2>1, <2>7, <2>8
  <1>6. CASE DrainEnds
    <2>1. /\ source' \in SourceType /\ step' \in StepType
          /\ source.ring = <<>> /\ source'.ring = source.ring /\ ~source'.dropped
          /\ source'.attached = source.attached /\ source'.believed = source.believed
          /\ source'.change = source.change
          /\ source'.sweep = source.sweep /\ source'.now = source.now
          /\ step.at = "drain" /\ step' = Step(IF source.dropped THEN "reread" ELSE "sweep")
          /\ UNCHANGED <<bset, clock, pins, keys, seen>>
      BY <1>6, DrainEndsShape
    <2>2. step'.at \in {"reread", "sweep"}
      BY <2>1, StepTyped
    <2>3. KeysTyped'
      BY <1>0, <2>1, TypedNext
    <2>4. Believes' /\ ClicksTold' /\ FreshNews'
      BY <2>1, <2>2 DEF Believes, ClicksTold, FreshNews, AllKeys, Sound, Idle
    <2>5. Timely' /\ Unwired'
      BY <2>1, <2>2 DEF Timely, Unwired, AllKeys
    <2> QED BY <2>3, <2>4, <2>5
  <1>7. CASE Reread
    <2> DEFINE k == step.key
    <2>1. /\ SampledTo(k, source.now, source') /\ step.at = "reread"
          /\ step' \in StepType /\ step'.at \in {"sweep", "reread"}
          /\ UNCHANGED <<bset, clock, pins, keys, seen>>
      BY <1>7, RereadShape
    <2>2. /\ source' \in SourceType
          /\ source'.ring = source.ring /\ source'.dropped = source.dropped /\ source'.attached = source.attached
          /\ source'.believed = source.believed /\ source'.sweep = source.sweep /\ source'.now = source.now
          /\ source'.change[k] \in {source.now, source.change[k]}
          /\ \A j \in AllKeys : j # k => source'.change[j] = source.change[j]
      BY <2>1 DEF SampledTo
    <2>3. KeysTyped'
      BY <1>0, <2>1, <2>2, TypedNext
    <2>4. Believes' /\ ClicksTold' /\ FreshNews'
      BY <2>1, <2>2 DEF Believes, ClicksTold, FreshNews, AllKeys, Sound, Idle
    <2>5. \A j \in AllKeys : source'.change[j] <= clock
      BY <2>2 DEF Timely
    <2>6. Timely' /\ Unwired'
      BY <2>1, <2>2, <2>5 DEF Timely, Unwired, AllKeys
    <2> QED BY <2>3, <2>4, <2>6
  <1>8. CASE SweepPublishes
    <2>0. /\ step.at = "sweep" /\ UNCHANGED <<bset, clock, pins>>
      BY <1>8 DEF SweepPublishes
    <2>1. PICK k \in AllKeys :
             /\ k \in Settled
             /\ source' \in SourceType
             /\ source'.ring = source.ring /\ source'.dropped = source.dropped
             /\ source'.attached = source.attached /\ source'.now = source.now
             /\ source'.pending = source.pending /\ source'.change = source.change
             /\ source'.sweep = k + 1
             /\ source'.believed[k] = source.pending[k]
             /\ \A j \in AllKeys : j # k => source'.believed[j] = source.believed[j]
             /\ Publish(k, source.change[k])
      BY <1>8, SweepShape
    <2>2. source.pending[k] # source.believed[k] /\ source.pending[k] \in {0, 1} /\ source.change[k] \in Nat
      BY <1>0, <2>1 DEF Settled
    <2>3. /\ keys' \in [AllKeys -> KeyType] /\ seen' \in [AllKeys -> SeenType] /\ step' = Step("drain")
          /\ \A j \in AllKeys : j # k => keys'[j] = keys[j] /\ seen'[j] = seen[j]
          /\ keys'[k].pressed = source.pending[k]
          /\ Sound(keys'[k]) /\ seen'[k].told + keys'[k].pendingClicks = seen'[k].clicks
          /\ "clicked" \notin keys[k].news => "clicked" \notin keys'[k].news
      BY <2>1, <2>2, PublishShape
    <2>4. step' \in StepType /\ step'.at = "drain"
      BY <2>3, StepTyped
    <2>5. KeysTyped'
      BY <1>0, <2>0, <2>1, <2>3, <2>4, TypedNext
    <2>6. Timely' /\ Unwired'
      BY <2>0, <2>1, <2>4 DEF Timely, Unwired, AllKeys
    <2>7. Believes'
      BY <2>0, <2>1, <2>3 DEF Believes, AllKeys
    <2>8. ClicksTold'
      BY <2>0, <2>3 DEF ClicksTold, AllKeys, Sound
    <2>9. FreshNews'
      BY <2>0, <2>3 DEF FreshNews, AllKeys, Idle
    <2> QED BY <2>5, <2>6, <2>7, <2>8, <2>9
  <1>9. CASE SweepEnds
    <2>1. /\ source' \in SourceType /\ step' \in StepType
          /\ source'.ring = source.ring /\ source'.dropped = source.dropped
          /\ source'.attached = source.attached /\ source'.believed = source.believed
          /\ source'.change = source.change
          /\ source'.sweep = 1 /\ source'.now = source.now
          /\ step.at = "sweep" /\ step'.at = "flag"
          /\ UNCHANGED <<bset, clock, pins, keys, seen>>
      BY <1>9, SweepEndsShape
    <2>2. KeysTyped'
      BY <1>0, <2>1, TypedNext
    <2>3. Believes' /\ ClicksTold' /\ FreshNews'
      BY <2>1 DEF Believes, ClicksTold, FreshNews, AllKeys, Sound, Idle
    <2>4. Timely' /\ Unwired'
      BY <2>1 DEF Timely, Unwired, AllKeys
    <2> QED BY <2>2, <2>3, <2>4
  <1>a. CASE Advance \/ Deinit
    <2>1. /\ source' \in SourceType
          /\ source'.ring = source.ring
          /\ source'.believed = source.believed
          /\ source'.pending = source.pending /\ source'.change = source.change
          /\ source'.sweep = source.sweep /\ source'.now = source.now
          /\ \/ source'.attached = source.attached /\ source'.dropped = source.dropped
             \/ ~source'.attached /\ ~source'.dropped
      BY <1>a, FlagShape DEF Advance, Deinit
    <2>2. UNCHANGED <<bset, clock, pins>>
      BY <1>a DEF Advance, Deinit
    <2>3. step'.at = "idle" /\ step.at \in {"idle", "flag"} /\ step' \in StepType
      BY <1>0, <1>a, StepTyped DEF Advance, Deinit, Idle
    <2>4. Timely' /\ Unwired' /\ FreshNews'
      BY <2>1, <2>2, <2>3 DEF Timely, Unwired, FreshNews, AllKeys, Idle
    <2>5. CASE Deinit
      <3>1. UNCHANGED <<keys, seen, step>>
        BY <2>5 DEF Deinit
      <3>2. KeysTyped'
        BY <1>0, <2>1, <2>2, <3>1, TypedNext
      <3> QED BY <2>1, <2>2, <2>4, <3>1, <3>2 DEF Believes, ClicksTold, AllKeys, Sound
    <2>6. CASE Advance
      <3>1. /\ keys' \in [AllKeys -> KeyType] /\ seen' \in [AllKeys -> SeenType]
            /\ \A k \in AllKeys :
                 /\ Honest(keys[k], keys'[k])
                 /\ seen'[k].told + keys'[k].pendingClicks = seen'[k].clicks
        BY <2>6, AdvanceShape
      <3>2. KeysTyped'
        BY <1>0, <2>1, <2>2, <2>3, <3>1, TypedNext
      <3>3. \A k \in AllKeys : Sound(keys'[k]) /\ keys'[k].pressed = keys[k].pressed
        BY <3>1 DEF Honest
      <3> QED BY <2>1, <2>2, <2>4, <3>1, <3>2, <3>3 DEF Believes, ClicksTold, AllKeys, Sound
    <2> QED BY <1>a, <2>5, <2>6
  <1>b. CASE UNCHANGED bvars
    BY <1>b DEF bvars, KeysTyped, Believes, ClicksTold, FreshNews, Timely, Unwired, AllKeys, Sound, Idle,
                PinType, SourceType, Entry, StepType
  <1> QED BY <1>1, <1>2, <1>3, <1>4, <1>5, <1>6, <1>7, <1>8, <1>9, <1>a, <1>b DEF ButtonsNext

-----------------------------------------------------------------------------
(* The level of a quiet key                                                *)

\* No edge of the key waits in the ring.
NoEdge(k) == \A i \in 1 .. Len(source.ring) : source.ring[i].key # k

\* The last edge of the key, or the level the drain has for it, is the pin's.
LastIs(k) ==
    \/ \E i \in 1 .. Len(source.ring) :
          /\ source.ring[i].key = k /\ source.ring[i].level = pins[k].level
          /\ \A j \in 1 .. Len(source.ring) : j > i => source.ring[j].key # k
    \/ source.pending[k] = pins[k].level /\ NoEdge(k)

Recorded(k) ==
    source.attached =>
        \/ pins[k].latched
        \/ source.dropped
        \/ step.at = "reread" /\ step.key <= k /\ NoEdge(k)
        \/ LastIs(k)

\* Where a pass has the level of a quiet key, and where it has judged it.
Clean(k) == \/ step.at \in {"idle", "sweep", "flag"} \/ source.sweep > 1
            \/ step.at = "reread" /\ step.key > k
            \/ bset.matrix
Swept(k) == step.at \in {"idle", "flag"} \/ k < source.sweep

Settles(k) ==
    (source.attached \/ bset.matrix) /\ seen[k].calm # Unknown =>
        /\ ~pins[k].latched
        /\ seen[k].calm <= source.now
        /\ source.change[k] <= seen[k].calm
        /\ \A i \in 1 .. Len(source.ring) : source.ring[i].key = k => source.ring[i].at <= seen[k].calm
        /\ step.at # "drain" \/ Clean(k) \/ seen[k].calm < source.now => NoEdge(k)
        /\ Clean(k) \/ seen[k].calm < source.now => source.pending[k] = pins[k].level
        /\ Swept(k) => \/ source.pending[k] = source.believed[k]
                       \/ source.now - source.change[k] < bset.settle

Follows == \A k \in AllKeys : Recorded(k) /\ Settles(k)

\* The first levels are read from the pins.
LEMMA InitFollows == ASSUME ButtonsInit PROVE Follows
  <1>1. Based
    BY InitBased
  <1>2. PICK level \in [AllKeys -> {0, 1}] :
          /\ pins = [k \in AllKeys |-> [level |-> level[k], flips |-> bset.flips, latched |-> FALSE]]
          /\ source = NewSource(level)
    BY DEF ButtonsInit
  <1>3. source.ring = <<>> /\ source.attached = ~bset.matrix
        /\ \A k \in AllKeys : ~bset.matrix => source.pending[k] = level[k]
    BY <1>2 DEF NewSource
  <1>4. \A k \in AllKeys : pins[k].level = level[k] /\ seen[k].calm = Unknown
    BY <1>2 DEF ButtonsInit
  <1>5. \A k \in AllKeys : NoEdge(k)
    BY <1>3 DEF NoEdge
  <1> QED BY <1>3, <1>4, <1>5 DEF Follows, Recorded, Settles, LastIs

\* A step that leaves ring, levels and judgement of a key alone.
LEMMA FollowsRest ==
  ASSUME Based, NEW k \in AllKeys, Recorded(k), Settles(k),
         bset' = bset, source'.ring = source.ring, source'.pending = source.pending,
         source'.change = source.change, source'.believed = source.believed,
         source'.sweep = source.sweep, source'.now = source.now,
         \/ source'.attached = source.attached /\ source'.dropped = source.dropped
         \/ ~source'.attached,
         pins' = pins, seen'[k].calm = seen[k].calm,
         \/ step' = step
         \/ step.at = "flag" /\ step'.at = "idle"
  PROVE  Recorded(k)' /\ Settles(k)'
  <1>1. NoEdge(k)' <=> NoEdge(k)
    BY DEF NoEdge
  <1>2. LastIs(k) => LastIs(k)'
    BY <1>1 DEF LastIs
  <1>3. Recorded(k)'
    BY <1>1, <1>2 DEF Recorded
  <1>4. (Clean(k)' <=> Clean(k)) /\ (Swept(k)' <=> Swept(k))
    BY DEF Clean, Swept
  <1>5. Settles(k)'
    BY <1>1, <1>4 DEF Settles
  <1> QED BY <1>3, <1>5

\* Every step keeps the record of the pins, and a pass judges every quiet key.
LEMMA FollowsStep ==
  ASSUME Based, Follows, Timely', bset' = bset, [ButtonsNext]_bvars
  PROVE  Follows'
  <1> SUFFICES ASSUME NEW k \in AllKeys PROVE Recorded(k)' /\ Settles(k)'
    BY DEF Follows, AllKeys
  <1>0. /\ source \in SourceType /\ source.ring \in Seq(Entry) /\ source.dropped \in BOOLEAN
        /\ source.sweep \in Nat \ {0} /\ source.now \in Nat /\ clock \in Nat
        /\ step \in StepType /\ step.at \in {"idle", "drain", "reread", "sweep", "flag"}
        /\ step.key \in AllKeys /\ AllKeys \subseteq Nat \ {0} /\ KeysTyped
        /\ source.change[k] \in Nat /\ source.attached \in BOOLEAN /\ Len(source.ring) \in Nat
        /\ k \in Nat \ {0} /\ bset.settle \in Nat
    BY SourceTyped DEF Based
  <1>r. Recorded(k) /\ Settles(k)
    BY DEF Follows
  <1>c. seen[k].calm # Unknown => seen[k].calm \in Nat
    BY <1>0 DEF KeysTyped, SeenType
  <1>1. CASE ClockRuns
    BY <1>1, <1>r, FollowsRest DEF ClockRuns
  <1>2. ASSUME NEW f \in AllKeys, Flip(f) PROVE Recorded(k)' /\ Settles(k)'
    <2>1. /\ pins'[f].latched = source.attached
          /\ \A j \in AllKeys : j # f => pins'[j] = pins[j] /\ seen'[j] = seen[j]
          /\ seen'[f].calm = Unknown
          /\ UNCHANGED <<bset, clock, source, step, keys>>
      BY <1>0, <1>2, FlipShape
    <2>2. CASE k = f
      BY <2>1, <2>2 DEF Recorded, Settles
    <2>3. CASE k # f
      <3>1. pins'[k] = pins[k] /\ seen'[k] = seen[k]
        BY <2>1, <2>3
      <3> QED BY <1>r, <2>1, <3>1 DEF Recorded, Settles, LastIs, NoEdge, Clean, Swept
    <2> QED BY <2>2, <2>3
  <1>3. ASSUME NEW f \in AllKeys, Interrupt(f) PROVE Recorded(k)' /\ Settles(k)'
    <2> DEFINE e == [key |-> f, level |-> pins[f].level, at |-> clock]
    <2>1. /\ pins[f].latched
          /\ \A j \in AllKeys : pins'[j].level = pins[j].level
          /\ \A j \in AllKeys : j # f => pins'[j].latched = pins[j].latched
          /\ source'.attached = source.attached /\ source'.now = source.now /\ source'.sweep = source.sweep
          /\ source'.pending = source.pending /\ source'.change = source.change
          /\ source'.believed = source.believed
          /\ \/ source'.ring = source.ring /\ source'.dropped
             \/ source'.ring = Append(source.ring, e) /\ source'.dropped = source.dropped
      BY <1>0, <1>3, InterruptShape
    <2>2. UNCHANGED <<bset, clock, step, keys, seen>>
      BY <1>3 DEF Interrupt
    <2>3. e \in Entry /\ e.key = f /\ e.level = pins[f].level
      BY <1>0 DEF Entry, KeysTyped, PinType
    <2> HIDE DEF e
    <2>4. \/ source'.ring = source.ring
          \/ /\ Len(source'.ring) = Len(source.ring) + 1
             /\ \A i \in 1 .. Len(source.ring) : source'.ring[i] = source.ring[i]
             /\ source'.ring[Len(source.ring) + 1] = e
      BY <1>0, <2>1, <2>3, AppendOf
    <2>5. CASE k = f
      <3>1. Recorded(k)'
        <4>1. CASE source'.dropped
          BY <4>1 DEF Recorded
        <4>2. CASE source'.ring = Append(source.ring, e)
          <5>1. /\ Len(source'.ring) = Len(source.ring) + 1
                /\ source'.ring[Len(source.ring) + 1] = e
            BY <1>0, <2>3, <4>2, AppendOf
          <5>2. /\ Len(source'.ring) \in 1 .. Len(source'.ring) /\ source'.ring[Len(source'.ring)].key = k
                /\ source'.ring[Len(source'.ring)].level = pins'[k].level
                /\ \A j \in 1 .. Len(source'.ring) : ~(j > Len(source'.ring))
            BY <1>0, <2>1, <2>3, <2>5, <5>1
          <5>3. LastIs(k)'
            BY <5>2 DEF LastIs
          <5> QED BY <5>3 DEF Recorded
        <4> QED BY <2>1, <4>1, <4>2
      <3>2. Settles(k)'
        BY <1>r, <2>1, <2>2, <2>5 DEF Settles
      <3> QED BY <3>1, <3>2
    <2>6. CASE k # f
      <3>1. NoEdge(k) => NoEdge(k)'
        <4> SUFFICES ASSUME NoEdge(k), NEW i \in 1 .. Len(source'.ring) PROVE source'.ring[i].key # k
          BY DEF NoEdge
        <4>1. CASE i \in 1 .. Len(source.ring)
          <5>1. source.ring[i].key # k
            BY <4>1 DEF NoEdge
          <5> QED BY <2>4, <4>1, <5>1
        <4>2. CASE i \notin 1 .. Len(source.ring)
          <5>1. source'.ring[i] = e
            BY <1>0, <2>4, <4>2
          <5> QED BY <2>3, <2>6, <5>1
        <4> QED BY <4>1, <4>2
      <3>2. LastIs(k) => LastIs(k)'
        <4>1. ASSUME NEW i \in 1 .. Len(source.ring), source.ring[i].key = k, source.ring[i].level = pins[k].level,
                     \A j \in 1 .. Len(source.ring) : j > i => source.ring[j].key # k
              PROVE  LastIs(k)'
          <5>1. i \in 1 .. Len(source'.ring) /\ source'.ring[i] = source.ring[i]
            BY <1>0, <2>4
          <5>2. \A j \in 1 .. Len(source'.ring) : j > i => source'.ring[j].key # k
            BY <1>0, <2>3, <2>4, <2>6, <4>1
          <5> QED BY <2>1, <4>1, <5>1, <5>2 DEF LastIs
        <4>2. ASSUME source.pending[k] = pins[k].level, NoEdge(k) PROVE LastIs(k)'
          BY <2>1, <3>1, <4>2 DEF LastIs
        <4> QED BY <4>1, <4>2 DEF LastIs
      <3>3. Recorded(k)'
        BY <1>r, <2>1, <2>2, <2>6, <3>1, <3>2 DEF Recorded
      <3>4. (Clean(k)' <=> Clean(k)) /\ (Swept(k)' <=> Swept(k))
        BY <2>1, <2>2 DEF Clean, Swept
      <3>5. (\A i \in 1 .. Len(source.ring) : source.ring[i].key = k => source.ring[i].at <= seen[k].calm)
            => (\A i \in 1 .. Len(source'.ring) : source'.ring[i].key = k => source'.ring[i].at <= seen[k].calm)
        BY <1>0, <2>3, <2>4, <2>6
      <3>6. Settles(k)'
        BY <1>r, <2>1, <2>2, <2>6, <3>1, <3>4, <3>5 DEF Settles
      <3> QED BY <3>3, <3>6
    <2> QED BY <2>5, <2>6
  <1>4. CASE Poll
    <2>1. /\ step'.at = "drain" /\ Idle /\ NoneLatched /\ UNCHANGED <<bset, clock, pins>>
          /\ seen'[k].calm = IF seen[k].calm = Unknown THEN clock ELSE seen[k].calm
      BY <1>0, <1>4, PollKeys, StepTyped DEF Based
    <2>2. /\ source'.ring = source.ring /\ source'.dropped = source.dropped
          /\ source'.attached = source.attached /\ source'.believed = source.believed
          /\ source'.sweep = source.sweep /\ source'.now = clock
          /\ ~bset.matrix => source'.pending = source.pending /\ source'.change = source.change
          /\ bset.matrix =>
               /\ source'.pending[k] = pins[k].level
               /\ source'.change[k] = IF pins[k].level # source.pending[k] /\ pins[k].level # source.believed[k]
                                      THEN clock ELSE source.change[k]
      BY <1>0, <1>4, PollShape
    <2>3. source.sweep = 1 /\ ~pins[k].latched /\ (source.attached => ~bset.matrix) /\ source.now <= clock
          /\ (bset.matrix => source.ring = <<>>)
      BY <1>0, <2>1 DEF Based, Timely, Unwired, Idle, NoneLatched
    <2>4. NoEdge(k)' <=> NoEdge(k)
      BY <2>2 DEF NoEdge
    <2>5. Recorded(k)'
      <3>1. ~bset.matrix /\ LastIs(k) => LastIs(k)'
        BY <2>1, <2>2, <2>4 DEF LastIs, NoEdge
      <3> QED BY <1>r, <2>1, <2>2, <2>3, <3>1 DEF Recorded, Idle
    <2>6. (Clean(k)' <=> bset.matrix) /\ ~Swept(k)' /\ Clean(k)
      BY <1>0, <2>1, <2>2, <2>3 DEF Clean, Swept, Idle
    <2>7. ASSUME source.attached \/ bset.matrix, seen[k].calm = Unknown PROVE Settles(k)'
      <3>1. seen'[k].calm = clock /\ source'.change[k] <= clock
            /\ \A i \in 1 .. Len(source'.ring) : source'.ring[i].at <= clock
        BY <2>1, <2>2, <2>7 DEF Timely, AllKeys
      <3>2. bset.matrix => NoEdge(k)' /\ source'.pending[k] = pins[k].level
        BY <2>2, <2>3 DEF NoEdge
      <3> QED BY <1>0, <2>1, <2>2, <2>3, <2>6, <3>1, <3>2 DEF Settles
    <2>8. ASSUME source.attached \/ bset.matrix, seen[k].calm # Unknown PROVE Settles(k)'
      <3>1. /\ seen[k].calm <= source.now /\ source.change[k] <= seen[k].calm
            /\ \A i \in 1 .. Len(source.ring) : source.ring[i].key = k => source.ring[i].at <= seen[k].calm
            /\ NoEdge(k) /\ source.pending[k] = pins[k].level
        BY <1>r, <2>6, <2>8 DEF Settles
      <3>2. seen'[k].calm = seen[k].calm /\ seen[k].calm \in Nat /\ seen[k].calm <= clock
        BY <1>0, <1>c, <2>1, <2>3, <2>8, <3>1
      <3>3. source'.pending[k] = pins[k].level /\ source'.change[k] = source.change[k]
        BY <2>2, <3>1
      <3> QED BY <2>1, <2>2, <2>3, <2>4, <2>6, <3>1, <3>2, <3>3 DEF Settles
    <2>9. ~(source.attached \/ bset.matrix) => Settles(k)'
      BY <2>1, <2>2 DEF Settles
    <2> QED BY <2>5, <2>7, <2>8, <2>9
  <1>5. CASE DrainEntry
    <2>0. /\ step.at = "drain" /\ UNCHANGED <<bset, clock, pins>> /\ ~pins[k].latched
      BY <1>5 DEF DrainEntry, NoneLatched
    <2>1. PICK entry \in Entry :
             LET f == entry.key
                 left == source.pending[f]
                 settled == left # source.believed[f] /\ entry.at - source.change[f] >= bset.settle
             IN  /\ source.ring # <<>> /\ entry = Head(source.ring) /\ source'.ring = Tail(source.ring)
                 /\ source'.dropped = source.dropped /\ source'.attached = source.attached
                 /\ source'.sweep = source.sweep /\ source'.now = source.now
                 /\ \A j \in AllKeys : j # f => /\ source'.pending[j] = source.pending[j]
                                                /\ source'.change[j] = source.change[j]
                                                /\ source'.believed[j] = source.believed[j]
                 /\ source'.pending[f] = entry.level
                 /\ \/ /\ entry.level = left
                       /\ source'.change[f] = source.change[f] /\ source'.believed[f] = source.believed[f]
                       /\ UNCHANGED <<keys, seen, step>>
                    \/ /\ entry.level # left /\ ~settled
                       /\ source'.change[f] = IF entry.level # source.believed[f] THEN entry.at ELSE source.change[f]
                       /\ source'.believed[f] = source.believed[f]
                       /\ UNCHANGED <<keys, seen, step>>
                    \/ /\ entry.level # left /\ settled
                       /\ source'.change[f] = entry.at /\ source'.believed[f] = left
                       /\ Publish(f, source.change[f])
      BY <1>0, <1>5, DrainShape
    <2> DEFINE f == entry.key
    <2>2. f \in AllKeys /\ entry.at \in Nat /\ source.change[f] \in Nat /\ source.pending[f] \in {0, 1}
      BY <1>0, SourceTyped DEF Entry
    <2>3. /\ Len(source'.ring) = Len(source.ring) - 1 /\ Len(source.ring) > 0
          /\ entry = source.ring[1]
          /\ \A i \in 1 .. Len(source'.ring) : i + 1 \in 1 .. Len(source.ring)
                                             /\ source'.ring[i] = source.ring[i + 1]
      BY <1>0, <2>1, TailOf
    <2>4. 1 \in 1 .. Len(source.ring) /\ ~bset.matrix /\ (source.attached => source.attached)
      BY <1>0, <2>1, <2>3 DEF Based, Unwired
    <2>5. step'.at = "drain" /\ seen'[k].calm = seen[k].calm
      <3>1. CASE UNCHANGED <<keys, seen, step>>
        BY <2>0, <3>1
      <3>2. CASE /\ source.pending[f] # source.believed[f] /\ source'.believed[f] = source.pending[f]
                 /\ Publish(f, source.change[f])
        <4>1. /\ step' = Step("drain") /\ seen'[f].calm = seen[f].calm
              /\ \A j \in AllKeys : j # f => seen'[j] = seen[j]
          BY <2>2, <3>2, PublishShape DEF Based
        <4> QED BY <1>0, <4>1, StepTyped
      <3> QED BY <2>1, <3>1, <3>2
    <2>6. (Clean(k)' <=> Clean(k)) /\ (Swept(k)' <=> Swept(k))
      BY <2>0, <2>1, <2>5 DEF Clean, Swept
    <2>7. NoEdge(k) => NoEdge(k)'
      BY <2>3 DEF NoEdge
    <2>8. CASE k # f
      <3>1. source'.pending[k] = source.pending[k] /\ source'.change[k] = source.change[k]
            /\ source'.believed[k] = source.believed[k]
        BY <2>1, <2>8
      <3>2. NoEdge(k)' => NoEdge(k)
        <4> SUFFICES ASSUME NoEdge(k)', NEW i \in 1 .. Len(source.ring) PROVE source.ring[i].key # k
          BY DEF NoEdge
        <4>1. CASE i = 1
          BY <2>3, <2>8, <4>1
        <4>2. CASE i # 1
          <5>1. i - 1 \in 1 .. Len(source'.ring) /\ (i - 1) + 1 = i
            BY <1>0, <2>3, <4>2
          <5>2. source'.ring[i - 1] = source.ring[i]
            BY <2>3, <5>1
          <5> QED BY <5>1, <5>2 DEF NoEdge
        <4> QED BY <4>1, <4>2
      <3>3. LastIs(k) => LastIs(k)'
        <4>1. ASSUME NEW i \in 1 .. Len(source.ring), source.ring[i].key = k, source.ring[i].level = pins[k].level,
                     \A j \in 1 .. Len(source.ring) : j > i => source.ring[j].key # k
              PROVE  LastIs(k)'
          <5>1. i # 1
            BY <2>3, <2>8, <4>1
          <5>2. i - 1 \in 1 .. Len(source'.ring) /\ source'.ring[i - 1] = source.ring[i]
            BY <1>0, <2>3, <5>1
          <5>3. \A j \in 1 .. Len(source'.ring) : j > i - 1 => source'.ring[j].key # k
            BY <1>0, <2>3, <4>1
          <5>4. source'.ring[i - 1].key = k /\ source'.ring[i - 1].level = pins'[k].level
            BY <2>0, <4>1, <5>2
          <5> HIDE <4>1
          <5> QED BY <5>2, <5>3, <5>4 DEF LastIs
        <4>2. ASSUME source.pending[k] = pins[k].level, NoEdge(k) PROVE LastIs(k)'
          BY <2>0, <2>7, <3>1, <4>2 DEF LastIs
        <4> QED BY <4>1, <4>2 DEF LastIs
      <3>4. Recorded(k)'
        BY <1>r, <2>0, <2>1, <2>5, <3>3 DEF Recorded
      <3>5. (\A i \in 1 .. Len(source.ring) : source.ring[i].key = k => source.ring[i].at <= seen[k].calm)
            => (\A i \in 1 .. Len(source'.ring) : source'.ring[i].key = k => source'.ring[i].at <= seen[k].calm)
        BY <2>3
      <3>6. Settles(k)'
        BY <1>r, <2>0, <2>1, <2>5, <2>6, <2>7, <3>1, <3>5 DEF Settles
      <3> QED BY <3>4, <3>6
    <2>9. CASE k = f
      <3>1. source'.pending[k] = entry.level /\ source'.change[k] \in {source.change[k], entry.at}
        BY <2>1, <2>9
      <3>2. Recorded(k)'
        <4>1. ASSUME NEW i \in 1 .. Len(source.ring), source.ring[i].key = k, source.ring[i].level = pins[k].level,
                     \A j \in 1 .. Len(source.ring) : j > i => source.ring[j].key # k
              PROVE  LastIs(k)'
          <5>1. CASE i = 1
            <6>1. \A j \in 1 .. Len(source'.ring) : j + 1 > i /\ source'.ring[j].key # k
              BY <2>3, <4>1, <5>1
            <6>2. NoEdge(k)'
              BY <6>1 DEF NoEdge
            <6> QED BY <2>0, <2>3, <3>1, <4>1, <5>1, <6>2 DEF LastIs
          <5>2. CASE i # 1
            <6>2. i - 1 \in 1 .. Len(source'.ring) /\ source'.ring[i - 1] = source.ring[i]
              BY <1>0, <2>3, <5>2
            <6>3. \A j \in 1 .. Len(source'.ring) : j > i - 1 => source'.ring[j].key # k
              BY <1>0, <2>3, <4>1
            <6>4. source'.ring[i - 1].key = k /\ source'.ring[i - 1].level = pins'[k].level
              BY <2>0, <4>1, <6>2
            <6> QED BY <6>2, <6>3, <6>4 DEF LastIs
          <5> QED BY <5>1, <5>2
        <4>2. ~NoEdge(k)
          BY <2>3, <2>4, <2>9 DEF NoEdge
        <4>3. LastIs(k) => LastIs(k)'
          BY <4>1, <4>2 DEF LastIs
        <4> QED BY <1>r, <2>0, <2>1, <2>5, <4>3 DEF Recorded
      <3>3. Settles(k)'
        <4> SUFFICES ASSUME source.attached \/ bset.matrix, seen[k].calm # Unknown PROVE Settles(k)'
          BY <2>0, <2>1, <2>5 DEF Settles
        <4>1. /\ seen[k].calm <= source.now
              /\ source.change[k] <= seen[k].calm
              /\ \A i \in 1 .. Len(source.ring) : source.ring[i].key = k => source.ring[i].at <= seen[k].calm
              /\ ~Clean(k) /\ ~(seen[k].calm < source.now)
          BY <1>r, <2>0, <2>3, <2>4, <2>9 DEF Settles, NoEdge
        <4>2. source'.change[k] <= seen[k].calm
          BY <2>3, <2>4, <2>9, <3>1, <4>1
        <4>3. \A i \in 1 .. Len(source'.ring) : source'.ring[i].key = k => source'.ring[i].at <= seen[k].calm
          BY <2>3, <4>1
        <4>4. ~Swept(k)
          BY <1>0, <2>0, <4>1 DEF Clean, Swept
        <4> QED BY <2>0, <2>1, <2>5, <2>6, <4>1, <4>2, <4>3, <4>4 DEF Settles
      <3> QED BY <3>2, <3>3
    <2> QED BY <2>8, <2>9
  <1>6. CASE DrainEnds
    <2>1. /\ source.ring = <<>> /\ source'.ring = source.ring /\ ~source'.dropped
          /\ source'.attached = source.attached /\ source'.believed = source.believed
          /\ source'.pending = source.pending /\ source'.change = source.change
          /\ source'.sweep = source.sweep /\ source'.now = source.now
          /\ step.at = "drain" /\ step' = Step(IF source.dropped THEN "reread" ELSE "sweep")
          /\ UNCHANGED <<bset, clock, pins, keys, seen>>
      BY <1>0, <1>6, DrainEndsShape
    <2>2. NoEdge(k) /\ NoEdge(k)' /\ ~pins[k].latched
      BY <1>6, <2>1 DEF NoEdge, DrainEnds, NoneLatched
    <2>3. /\ source.dropped => step'.at = "reread" /\ step'.key = 1
          /\ ~source.dropped => step'.at = "sweep"
      BY <1>0, <2>1, StepTyped
    <2>4. source.attached /\ ~source.dropped => source.pending[k] = pins[k].level
      BY <1>r, <2>1, <2>2 DEF Recorded, LastIs, NoEdge
    <2>5. Recorded(k)'
      BY <1>0, <2>1, <2>2, <2>3, <2>4 DEF Recorded, LastIs
    <2>6. Swept(k)' => Swept(k)
      BY <2>1, <2>3 DEF Swept
    <2>7. Clean(k)' => Clean(k) \/ (~source.dropped /\ (source.attached \/ bset.matrix => source.attached \/ Clean(k)))
      BY <1>0, <2>1, <2>3 DEF Clean
    <2>8. Settles(k)'
      BY <1>r, <2>1, <2>2, <2>4, <2>6, <2>7 DEF Settles
    <2> QED BY <2>5, <2>8
  <1>7. CASE Reread
    <2> DEFINE f == step.key
    <2>1. /\ SampledTo(f, source.now, source') /\ step.at = "reread"
          /\ \/ step.key = bset.keys /\ step'.at = "sweep"
             \/ step.key # bset.keys /\ step'.at = "reread" /\ step'.key = step.key + 1
          /\ UNCHANGED <<bset, clock, pins, keys, seen>>
      BY <1>0, <1>7, RereadShape
    <2>2. /\ source'.ring = source.ring /\ source'.dropped = source.dropped /\ source'.attached = source.attached
          /\ source'.believed = source.believed /\ source'.sweep = source.sweep /\ source'.now = source.now
          /\ source'.pending[f] = pins[f].level
          /\ source'.change[f] = IF pins[f].level # source.pending[f] /\ pins[f].level # source.believed[f]
                                 THEN source.now ELSE source.change[f]
          /\ \A j \in AllKeys : j # f => source'.pending[j] = source.pending[j] /\ source'.change[j] = source.change[j]
      BY <2>1 DEF SampledTo
    <2>3. /\ f \in AllKeys /\ f \in Nat /\ k <= bset.keys /\ bset.keys \in Nat /\ ~pins[k].latched
      BY <1>0, <1>7, SourceTyped DEF AllKeys, Reread, NoneLatched
    <2>4. NoEdge(k)' <=> NoEdge(k)
      BY <2>2 DEF NoEdge
    <2>5. CASE k = f
      <3>1. Recorded(k)'
        BY <1>r, <2>1, <2>2, <2>3, <2>4, <2>5 DEF Recorded, LastIs
      <3>2. Swept(k)' => Swept(k) /\ Clean(k)
        BY <1>0, <2>1, <2>2 DEF Swept, Clean
      <3>3. Settles(k)'
        <4> SUFFICES ASSUME source.attached \/ bset.matrix, seen[k].calm # Unknown PROVE Settles(k)'
          BY <2>1, <2>2 DEF Settles
        <4>1. /\ ~pins[k].latched
              /\ seen[k].calm <= source.now
              /\ source.change[k] <= seen[k].calm
              /\ \A i \in 1 .. Len(source.ring) : source.ring[i].key = k => source.ring[i].at <= seen[k].calm
              /\ NoEdge(k)
              /\ Clean(k) \/ seen[k].calm < source.now => source.pending[k] = pins[k].level
              /\ Swept(k) => \/ source.pending[k] = source.believed[k]
                             \/ source.now - source.change[k] < bset.settle
          BY <1>r, <2>1 DEF Settles
        <4>2. source'.change[k] <= seen[k].calm
          BY <1>0, <1>c, <2>2, <2>5, <4>1
        <4>3. Swept(k)' => source'.pending[k] = source.pending[k] /\ source'.change[k] = source.change[k]
          BY <2>2, <2>5, <3>2, <4>1
        <4> QED BY <2>1, <2>2, <2>4, <2>5, <3>2, <4>1, <4>2, <4>3 DEF Settles
      <3> QED BY <3>1, <3>3
    <2>6. CASE k # f
      <3>1. source'.pending[k] = source.pending[k] /\ source'.change[k] = source.change[k]
        BY <2>2, <2>6
      <3>2. LastIs(k) => LastIs(k)'
        BY <2>1, <2>2, <2>4, <3>1 DEF LastIs
      <3>3. Recorded(k)'
        BY <1>0, <1>r, <2>1, <2>2, <2>3, <2>4, <2>6, <3>2 DEF Recorded
      <3>4. (Swept(k)' => Swept(k)) /\ (Clean(k)' => Clean(k))
        BY <1>0, <2>1, <2>2, <2>3, <2>6 DEF Swept, Clean
      <3>5. Settles(k)'
        BY <1>r, <2>1, <2>2, <2>4, <3>1, <3>4 DEF Settles
      <3> QED BY <3>3, <3>5
    <2> QED BY <2>5, <2>6
  <1>8. CASE SweepPublishes
    <2>0. /\ step.at = "sweep" /\ UNCHANGED <<bset, clock, pins>>
      BY <1>8 DEF SweepPublishes
    <2>1. PICK f \in AllKeys :
             /\ f \in Settled /\ \A j \in Settled : f <= j
             /\ source'.ring = source.ring /\ source'.dropped = source.dropped
             /\ source'.attached = source.attached /\ source'.now = source.now
             /\ source'.pending = source.pending /\ source'.change = source.change
             /\ source'.sweep = f + 1
             /\ source'.believed[f] = source.pending[f]
             /\ \A j \in AllKeys : j # f => source'.believed[j] = source.believed[j]
             /\ Publish(f, source.change[f])
      BY <1>0, <1>8, SweepShape
    <2>2. /\ source.pending[f] # source.believed[f] /\ source.pending[f] \in {0, 1} /\ source.change[f] \in Nat
          /\ f \in Nat \ {0}
      BY <1>0, <2>1, SourceTyped DEF Settled
    <2>3. /\ step' = Step("drain") /\ seen'[f].calm = seen[f].calm
          /\ \A j \in AllKeys : j # f => seen'[j] = seen[j]
      BY <2>1, <2>2, PublishShape DEF Based
    <2>4. step'.at = "drain" /\ seen'[k].calm = seen[k].calm
      BY <1>0, <2>3, StepTyped
    <2>5. NoEdge(k)' <=> NoEdge(k)
      BY <2>1 DEF NoEdge
    <2>6. Recorded(k)'
      <3>1. LastIs(k) => LastIs(k)'
        BY <2>0, <2>1, <2>5 DEF LastIs
      <3> QED BY <1>r, <2>0, <2>1, <3>1 DEF Recorded
    <2>7. Clean(k)
      BY <2>0 DEF Clean
    <2>8. Swept(k)' => \/ source.pending[k] = source'.believed[k] \/ Swept(k)
                       \/ source.now - source.change[k] < bset.settle
      <3>1. CASE k = f
        BY <2>1, <3>1
      <3>2. CASE k # f
        <4>1. k \notin Settled \/ f < k
          BY <1>0, <2>1, <2>2, <3>2
        <4>2. Swept(k)' => k < f
          BY <1>0, <2>1, <2>2, <2>4, <3>2 DEF Swept
        <4>3. k \notin Settled => \/ k < source.sweep \/ source.pending[k] = source.believed[k]
                                  \/ source.now - source.change[k] < bset.settle
          BY <1>0 DEF Settled
        <4> QED BY <1>0, <2>1, <2>2, <3>2, <4>1, <4>2, <4>3 DEF Swept
      <3> QED BY <3>1, <3>2
    <2>9. Swept(k) => k # f /\ source'.believed[k] = source.believed[k]
      <3>1. Swept(k) => k < source.sweep
        BY <2>0 DEF Swept
      <3>2. f >= source.sweep
        BY <2>1 DEF Settled
      <3> QED BY <1>0, <2>1, <2>2, <3>1, <3>2
    <2>a. Settles(k)'
      BY <1>r, <2>0, <2>1, <2>4, <2>5, <2>7, <2>8, <2>9 DEF Settles
    <2> QED BY <2>6, <2>a
  <1>9. CASE SweepEnds
    <2>1. /\ source'.ring = source.ring /\ source'.dropped = source.dropped
          /\ source'.attached = source.attached /\ source'.believed = source.believed
          /\ source'.pending = source.pending /\ source'.change = source.change
          /\ source'.sweep = 1 /\ source'.now = source.now
          /\ step.at = "sweep" /\ step'.at = "flag" /\ Settled = {}
          /\ UNCHANGED <<bset, clock, pins, keys, seen>>
      BY <1>0, <1>9, SweepEndsShape
    <2>2. NoEdge(k)' <=> NoEdge(k)
      BY <2>1 DEF NoEdge
    <2>3. LastIs(k) => LastIs(k)'
      BY <2>1, <2>2 DEF LastIs
    <2>4. Recorded(k)'
      BY <1>r, <2>1, <2>3 DEF Recorded
    <2>5. Clean(k)
      BY <2>1 DEF Clean
    <2>6. Swept(k) \/ source.pending[k] = source.believed[k] \/ source.now - source.change[k] < bset.settle
      <3>1. k \notin Settled
        BY <2>1
      <3> QED BY <1>0, <3>1 DEF Settled, Swept
    <2>7. Settles(k)'
      BY <1>r, <2>1, <2>2, <2>5, <2>6 DEF Settles
    <2> QED BY <2>4, <2>7
  <1>a. CASE Advance \/ Deinit
    <2>1. /\ source'.ring = source.ring
          /\ source'.believed = source.believed
          /\ source'.pending = source.pending /\ source'.change = source.change
          /\ source'.sweep = source.sweep /\ source'.now = source.now
          /\ \/ source'.attached = source.attached /\ source'.dropped = source.dropped
             \/ ~source'.attached
      BY <1>0, <1>a, FlagShape DEF Advance, Deinit
    <2>2. UNCHANGED <<bset, clock, pins>>
      BY <1>a DEF Advance, Deinit
    <2>3. step' = step \/ (step.at = "flag" /\ step'.at = "idle")
      BY <1>0, <1>a, StepTyped DEF Advance, Deinit
    <2>4. seen'[k].calm = seen[k].calm
      BY <1>a, AdvanceShape DEF Deinit, Based
    <2> QED BY <1>r, <2>1, <2>2, <2>3, <2>4, FollowsRest
  <1>b. CASE UNCHANGED bvars
    BY <1>b, <1>r, FollowsRest DEF bvars
  <1> QED BY <1>1, <1>2, <1>3, <1>4, <1>5, <1>6, <1>7, <1>8, <1>9, <1>a, <1>b DEF ButtonsNext

\* Between passes a quiet key reads as its pin.
LEMMA FollowsPin == ASSUME Based, Follows PROVE KeyFollowsPin
  <1> SUFFICES ASSUME Idle, NEW k \in AllKeys, source.attached \/ bset.matrix, seen[k].calm # Unknown,
                      source.now - seen[k].calm >= bset.settle
               PROVE  keys[k].pressed = pins[k].level
    BY DEF KeyFollowsPin
  <1>1. Settles(k) /\ keys[k].pressed = source.believed[k]
    BY DEF Follows, Based, Believes
  <1>2. /\ source.change[k] \in Nat /\ source.now \in Nat /\ seen[k].calm \in Nat /\ bset.settle \in Nat
    BY SourceTyped DEF Based, KeysTyped, SeenType
  <1> QED BY <1>1, <1>2 DEF Settles, Idle, Clean, Swept

-----------------------------------------------------------------------------
(* Clicks under a loop that is never late                                  *)

\* A loop that is never late has a pass in every millisecond: edges wait for the
\* next pass at most, and for this one's end once it sweeps.
Paced ==
    /\ clock <= source.now + 1
    /\ ~Idle => clock = source.now
    /\ \A i \in 1 .. Len(source.ring) :
          /\ source.ring[i].at >= source.now - 1
          /\ step.at # "drain" \/ source.sweep > 1 => source.ring[i].at >= source.now

\* A level that needs no second pass to settle is told in the one after it came.
Swift(k) ==
    bset.settle <= 1 /\ source.pending[k] # source.believed[k] =>
        /\ source.change[k] >= source.now - 1
        /\ Swept(k) => source.change[k] >= source.now

\* A press that still counts as a click is not yet held too long, or was told in
\* this pass, which is too short to tell of its end as well.
Brief(k) ==
    keys[k].pressed = 1 /\ Counts(keys[k]) =>
        \/ keys[k].pressMs + bset.click >= source.now + (IF Idle THEN 1 ELSE 0)
        \/ ~Idle /\ bset.settle >= 2 /\ (source.pending[k] = 0 => source.change[k] >= source.now - 1)

OnTime == bset.prompt => Paced /\ \A k \in AllKeys : Swift(k) /\ Brief(k) /\ seen[k].holds = 0

\* Nothing is pressed yet.
LEMMA InitOnTime == ASSUME ButtonsInit PROVE OnTime
  <1>1. Based
    BY InitBased
  <1>2. PICK level \in [AllKeys -> {0, 1}] : source = NewSource(level)
    BY DEF ButtonsInit
  <1>3. source.ring = <<>> /\ source.now = 0 /\ \A k \in AllKeys : source.change[k] = 0
    BY <1>2 DEF NewSource
  <1>4. clock = 0 /\ Idle /\ \A k \in AllKeys : keys[k].pressed = 0 /\ seen[k].holds = 0
    BY DEF ButtonsInit, Step, Idle, NewButton
  <1>5. Paced
    BY <1>3, <1>4 DEF Paced
  <1>6. ASSUME NEW k \in AllKeys PROVE Swift(k) /\ Brief(k)
    BY <1>3, <1>4 DEF Swift, Brief
  <1> QED BY <1>4, <1>5, <1>6 DEF OnTime

\* Ring, instant and place of the drain decide the pace.
LEMMA PacedStep ==
  ASSUME Based, Paced, bset.prompt, [ButtonsNext]_bvars
  PROVE  Paced'
  <1>0. /\ source.ring \in Seq(Entry) /\ source.sweep \in Nat \ {0} /\ source.now \in Nat /\ clock \in Nat
        /\ step.at \in {"idle", "drain", "reread", "sweep", "flag"}
        /\ AllKeys \subseteq Nat \ {0} /\ KeysTyped /\ Len(source.ring) \in Nat /\ source.now <= clock
        /\ \A i \in 1 .. Len(source.ring) : source.ring[i].at \in Nat
    BY SourceTyped, EntryOf DEF Based, Timely
  <1>1. CASE ClockRuns
    <2>1. clock' = source.now + 1 /\ Idle /\ UNCHANGED <<source, step>>
      BY <1>1 DEF ClockRuns
    <2> QED BY <1>0, <2>1 DEF Paced, Idle
  <1>2. ASSUME NEW f \in AllKeys, Flip(f) PROVE Paced'
    BY <1>2 DEF Flip, Paced, Idle
  <1>3. ASSUME NEW f \in AllKeys, Interrupt(f) PROVE Paced'
    <2> DEFINE e == [key |-> f, level |-> pins[f].level, at |-> clock]
    <2>1. /\ source'.now = source.now /\ source'.sweep = source.sweep
          /\ \/ source'.ring = source.ring
             \/ source'.ring = Append(source.ring, e)
      BY <1>0, <1>3, InterruptShape
    <2>2. UNCHANGED <<clock, step>>
      BY <1>3 DEF Interrupt
    <2>3. e \in Entry /\ e.at = clock
      BY <1>0 DEF Entry, KeysTyped, PinType
    <2> HIDE DEF e
    <2>4. CASE source'.ring = source.ring
      BY <2>1, <2>2, <2>4 DEF Paced, Idle
    <2>5. CASE source'.ring = Append(source.ring, e)
      <3>1. /\ Len(source'.ring) = Len(source.ring) + 1
            /\ \A i \in 1 .. Len(source.ring) : source'.ring[i] = source.ring[i]
            /\ source'.ring[Len(source.ring) + 1] = e
        BY <1>0, <2>3, <2>5, AppendOf
      <3>2. ASSUME NEW i \in 1 .. Len(source'.ring)
            PROVE  /\ source'.ring[i].at >= source.now - 1
                   /\ step.at # "drain" \/ source.sweep > 1 => source'.ring[i].at >= source.now
        <4>1. CASE i \in 1 .. Len(source.ring)
          BY <3>1, <4>1 DEF Paced
        <4>2. CASE i \notin 1 .. Len(source.ring)
          <5>1. i = Len(source.ring) + 1
            BY <1>0, <3>1, <4>2
          <5> QED BY <1>0, <2>3, <3>1, <5>1
        <4> QED BY <4>1, <4>2
      <3> QED BY <2>1, <2>2, <3>2 DEF Paced, Idle
    <2> QED BY <2>1, <2>4, <2>5
  <1>4. CASE Poll
    <2>1. step'.at = "drain" /\ Idle /\ UNCHANGED clock
      BY <1>0, <1>4, PollKeys, StepTyped DEF Based
    <2>2. source'.ring = source.ring /\ source'.sweep = source.sweep /\ source'.now = clock
      BY <1>0, <1>4, PollShape
    <2>3. source.sweep = 1
      BY <1>0, <2>1 DEF Based, Timely, Idle
    <2>4. \A i \in 1 .. Len(source.ring) : source.ring[i].at >= clock - 1
      BY <1>0, <2>1 DEF Paced, Idle
    <2> QED BY <1>0, <2>1, <2>2, <2>3, <2>4 DEF Paced, Idle
  <1>5. CASE DrainEntry
    <2>1. source.ring # <<>> /\ source'.ring = Tail(source.ring) /\ source'.sweep = source.sweep /\ source'.now = source.now
      BY <1>0, <1>5, DrainShape
    <2>2. step.at = "drain" /\ UNCHANGED clock /\ (step' = step \/ step' = Step("drain"))
      BY <1>5 DEF DrainEntry, Publish
    <2>3. step'.at = "drain"
      BY <1>0, <2>2, StepTyped
    <2>4. \A i \in 1 .. Len(source'.ring) : i + 1 \in 1 .. Len(source.ring) /\ source'.ring[i] = source.ring[i + 1]
      BY <1>0, <2>1, TailOf
    <2> QED BY <2>1, <2>2, <2>3, <2>4 DEF Paced, Idle
  <1>6. CASE DrainEnds
    <2>1. /\ source'.ring = <<>> /\ source'.now = source.now /\ step.at = "drain"
          /\ step' = Step(IF source.dropped THEN "reread" ELSE "sweep") /\ UNCHANGED clock
      BY <1>0, <1>6, DrainEndsShape
    <2> QED BY <1>0, <2>1 DEF Paced, Idle
  <1>7. CASE Reread
    <2>1. /\ SampledTo(step.key, source.now, source') /\ step.at = "reread"
          /\ step'.at \in {"sweep", "reread"} /\ UNCHANGED clock
      BY <1>0, <1>7, RereadShape
    <2>2. source'.ring = source.ring /\ source'.sweep = source.sweep /\ source'.now = source.now
      BY <2>1 DEF SampledTo
    <2> QED BY <2>1, <2>2 DEF Paced, Idle
  <1>8. CASE SweepPublishes
    <2>1. step.at = "sweep" /\ UNCHANGED clock /\ step' = Step("drain")
      BY <1>8 DEF SweepPublishes, Publish
    <2>2. step'.at = "drain"
      BY <1>0, <2>1, StepTyped
    <2>3. source'.ring = source.ring /\ source'.now = source.now
      BY <1>0, <1>8, SweepShape
    <2> QED BY <2>1, <2>2, <2>3 DEF Paced, Idle
  <1>9. CASE SweepEnds
    <2>1. /\ source'.ring = source.ring /\ source'.now = source.now
          /\ step.at = "sweep" /\ step'.at = "flag" /\ UNCHANGED clock
      BY <1>0, <1>9, SweepEndsShape
    <2> QED BY <2>1 DEF Paced, Idle
  <1>a. CASE Advance \/ Deinit
    <2>1. source'.ring = source.ring /\ source'.now = source.now
      BY <1>0, <1>a, FlagShape DEF Advance, Deinit
    <2>2. UNCHANGED clock /\ step'.at = "idle" /\ step.at \in {"idle", "flag"}
      BY <1>0, <1>a, StepTyped DEF Advance, Deinit, Idle
    <2> QED BY <1>0, <2>1, <2>2 DEF Paced, Idle
  <1>b. CASE UNCHANGED bvars
    BY <1>b DEF bvars, Paced, Idle
  <1> QED BY <1>1, <1>2, <1>3, <1>4, <1>5, <1>6, <1>7, <1>8, <1>9, <1>a, <1>b DEF ButtonsNext

\* A step that judges no level of the key and does not touch its press.
LEMMA OnTimeRest ==
  ASSUME NEW k \in AllKeys, bset' = bset, Swift(k), Brief(k), seen[k].holds = 0,
         source'.now = source.now, source'.believed[k] = source.believed[k],
         source'.pending[k] = source.pending[k], source'.change[k] = source.change[k],
         keys'[k] = keys[k], seen'[k].holds = seen[k].holds,
         Idle' <=> Idle, Swept(k)' => Swept(k)
  PROVE  Swift(k)' /\ Brief(k)' /\ seen'[k].holds = 0
  BY DEF Swift, Brief, Counts

\* A prompt loop tells a press and its end before the press has become a hold.
LEMMA OnTimeStep ==
  ASSUME Based, Based', OnTime, bset' = bset, [ButtonsNext]_bvars
  PROVE  OnTime'
  <1> SUFFICES ASSUME bset.prompt PROVE OnTime'
    BY DEF OnTime
  <1>p. Paced /\ Paced'
    BY PacedStep DEF OnTime
  <1> SUFFICES ASSUME NEW k \in AllKeys PROVE Swift(k)' /\ Brief(k)' /\ seen'[k].holds = 0
    BY <1>p DEF OnTime, AllKeys
  <1>0. /\ source.ring \in Seq(Entry) /\ source.sweep \in Nat \ {0} /\ source.now \in Nat /\ clock \in Nat
        /\ step.at \in {"idle", "drain", "reread", "sweep", "flag"}
        /\ AllKeys \subseteq Nat \ {0} /\ KeysTyped /\ source.now <= clock
        /\ source.change[k] \in Nat /\ k \in Nat \ {0} /\ bset.settle \in Nat /\ bset.click \in Nat
        /\ Len(source.ring) \in Nat /\ source.change[k] <= clock
        /\ source.pending[k] \in {0, 1} /\ source.believed[k] \in {0, 1}
    BY SourceTyped DEF Based, Timely
  <1>r. Swift(k) /\ Brief(k) /\ seen[k].holds = 0
    BY DEF OnTime
  <1>k. keys[k].pressed = source.believed[k] /\ keys[k].pressMs \in Nat /\ keys[k] \in KeyType
    BY DEF Based, Believes, KeysTyped, KeyType
  <1>1. CASE ClockRuns
    BY <1>1, <1>r, OnTimeRest DEF ClockRuns, Idle, Swept
  <1>2. ASSUME NEW f \in AllKeys, Flip(f) PROVE Swift(k)' /\ Brief(k)' /\ seen'[k].holds = 0
    <2>1. seen'[k].holds = seen[k].holds /\ UNCHANGED <<bset, source, step, keys>>
      BY <1>0, <1>2, FlipShape
    <2> QED BY <1>r, <2>1, OnTimeRest DEF Idle, Swept
  <1>3. ASSUME NEW f \in AllKeys, Interrupt(f) PROVE Swift(k)' /\ Brief(k)' /\ seen'[k].holds = 0
    <2>1. /\ source'.now = source.now /\ source'.sweep = source.sweep
          /\ source'.pending = source.pending /\ source'.change = source.change
          /\ source'.believed = source.believed
      BY <1>0, <1>3, InterruptShape
    <2>2. UNCHANGED <<bset, step, keys, seen>>
      BY <1>3 DEF Interrupt
    <2> QED BY <1>r, <2>1, <2>2, OnTimeRest DEF Idle, Swept
  <1>4. CASE Poll
    <2>1. /\ step'.at = "drain" /\ Idle
          /\ keys'[k].pressed = keys[k].pressed /\ keys'[k].pressMs = keys[k].pressMs
          /\ keys'[k].isClick = keys[k].isClick /\ seen'[k].holds = seen[k].holds
      BY <1>0, <1>4, PollKeys, StepTyped DEF Based
    <2>2. /\ source'.believed = source.believed
          /\ source'.sweep = source.sweep /\ source'.now = clock
          /\ ~bset.matrix => source'.pending = source.pending /\ source'.change = source.change
          /\ bset.matrix =>
               /\ source'.pending[k] = pins[k].level
               /\ source'.change[k] = IF pins[k].level # source.pending[k] /\ pins[k].level # source.believed[k]
                                      THEN clock ELSE source.change[k]
      BY <1>0, <1>4, PollShape
    <2>3. source.sweep = 1 /\ clock <= source.now + 1 /\ Swept(k)
      BY <1>0, <1>p, <2>1 DEF Based, Timely, Idle, Swept, Paced
    <2>4. ~Swept(k)' /\ ~Idle'
      BY <1>0, <2>1, <2>2, <2>3 DEF Swept, Idle
    <2>5. Swift(k)'
      BY <1>0, <1>r, <2>2, <2>3, <2>4 DEF Swift
    <2>6. Brief(k)'
      BY <1>0, <1>k, <1>r, <2>1, <2>2, <2>3, <2>4 DEF Brief, Counts
    <2> QED BY <1>r, <2>1, <2>5, <2>6
  <1>5. CASE DrainEntry
    <2>0. step.at = "drain" /\ clock = source.now /\ ~Idle
      BY <1>5, <1>p DEF DrainEntry, Paced, Idle
    <2>1. PICK entry \in Entry :
             LET f == entry.key
                 left == source.pending[f]
                 settled == left # source.believed[f] /\ entry.at - source.change[f] >= bset.settle
             IN  /\ source.ring # <<>> /\ entry = Head(source.ring)
                 /\ source'.sweep = source.sweep /\ source'.now = source.now
                 /\ \A j \in AllKeys : j # f => /\ source'.pending[j] = source.pending[j]
                                                /\ source'.change[j] = source.change[j]
                                                /\ source'.believed[j] = source.believed[j]
                 /\ source'.pending[f] = entry.level
                 /\ \/ /\ entry.level = left
                       /\ source'.change[f] = source.change[f] /\ source'.believed[f] = source.believed[f]
                       /\ UNCHANGED <<keys, seen, step>>
                    \/ /\ entry.level # left /\ ~settled
                       /\ source'.change[f] = IF entry.level # source.believed[f] THEN entry.at ELSE source.change[f]
                       /\ source'.believed[f] = source.believed[f]
                       /\ UNCHANGED <<keys, seen, step>>
                    \/ /\ entry.level # left /\ settled
                       /\ source'.change[f] = entry.at /\ source'.believed[f] = left
                       /\ Publish(f, source.change[f])
      BY <1>0, <1>5, DrainShape
    <2> DEFINE f == entry.key
    <2>2. f \in AllKeys /\ entry.at \in Nat /\ source.change[f] \in Nat /\ source.pending[f] \in {0, 1}
          /\ entry.level \in {0, 1}
      BY <1>0, SourceTyped DEF Entry
    <2>3. /\ entry.at >= source.now - 1 /\ entry.at <= source.now
          /\ source.sweep > 1 => entry.at >= source.now
      <3>1. entry = source.ring[1] /\ 1 \in 1 .. Len(source.ring)
        BY <1>0, <2>1, TailOf
      <3> QED BY <1>p, <2>0, <3>1 DEF Paced, Based, Timely
    <2>4. step'.at = "drain" /\ (Swept(k)' <=> Swept(k)) /\ (Swept(k) => source.sweep > 1) /\ ~Idle'
      <3>1. step' = step \/ step' = Step("drain")
        BY <2>1 DEF Publish
      <3>2. step'.at = "drain"
        BY <1>0, <2>0, <3>1, StepTyped
      <3> QED BY <1>0, <2>0, <2>1, <3>2 DEF Swept, Idle
    <2>5. CASE UNCHANGED <<keys, seen, step>> /\ source'.believed[f] = source.believed[f]
      <3>1. CASE k # f
        BY <1>r, <2>0, <2>1, <2>4, <2>5, <3>1, OnTimeRest
      <3>2. CASE k = f
        <4>1. source'.believed[k] = source.believed[k] /\ source'.now = source.now
              /\ source'.pending[k] = entry.level
          BY <2>1, <2>5, <3>2
        <4>2. \/ source'.pending[k] = source.pending[k] /\ source'.change[k] = source.change[k]
              \/ source'.pending[k] = source'.believed[k] /\ source'.change[k] = source.change[k]
              \/ source'.change[k] = entry.at
          BY <2>1, <2>5, <3>2
        <4>3. Swift(k)'
          BY <1>0, <1>r, <2>2, <2>3, <2>4, <4>1, <4>2 DEF Swift
        <4>4. Brief(k)'
          <5>1. keys[k].pressed = 1 => source'.believed[k] = 1
            BY <1>k, <4>1
          <5> QED BY <1>0, <1>k, <1>r, <2>0, <2>2, <2>3, <2>4, <2>5, <4>1, <4>2, <5>1 DEF Brief, Counts
        <4> QED BY <1>r, <2>5, <4>3, <4>4
      <3> QED BY <3>1, <3>2
    <2>6. CASE /\ source.pending[f] # source.believed[f] /\ source'.believed[f] = source.pending[f]
               /\ entry.level # source.pending[f] /\ source'.change[f] = entry.at
               /\ entry.at - source.change[f] >= bset.settle
               /\ Publish(f, source.change[f])
      <3>1. /\ \A j \in AllKeys : j # f => keys'[j] = keys[j] /\ seen'[j] = seen[j]
            /\ keys'[f].pressed = source.pending[f]
            /\ source.pending[f] = 1 => keys'[f].pressMs = source.change[f] /\ seen'[f].holds = seen[f].holds
            /\ source.pending[f] = 0 /\ ~(Counts(keys[f]) /\ source.change[f] - keys[f].pressMs > bset.click) =>
                  seen'[f].holds = seen[f].holds
        BY <2>2, <2>6, PublishShape DEF Based
      <3>2. CASE k # f
        BY <1>r, <2>0, <2>1, <2>4, <3>1, <3>2, OnTimeRest
      <3>3. CASE k = f
        <4>1. Swift(k)'
          BY <1>0, <2>1, <2>2, <2>3, <2>4, <2>6, <3>3 DEF Swift
        <4>2. CASE source.pending[k] = 1
          <5>1. bset.settle <= 1 => source.change[k] >= source.now - 1
            BY <1>r, <2>6, <3>3 DEF Swift
          <5>2. Brief(k)'
            BY <1>0, <2>0, <2>1, <2>2, <2>3, <2>4, <2>6, <3>1, <3>3, <4>2, <5>1 DEF Brief, Counts
          <5> QED BY <1>r, <3>1, <3>3, <4>1, <4>2, <5>2
        <4>3. CASE source.pending[k] = 0
          <5>1. keys[k].pressed = 1
            BY <1>0, <1>k, <2>6, <3>3, <4>3
          <5>2. ~(Counts(keys[k]) /\ source.change[k] - keys[k].pressMs > bset.click)
            <6>1. entry.at - source.change[k] >= bset.settle
              BY <2>6, <3>3
            <6>2. entry.at \in Nat /\ entry.at <= source.now /\ source.change[k] <= source.now
              BY <1>0, <2>0, <2>2, <2>3
            <6>3. Counts(keys[k]) =>
                    \/ keys[k].pressMs + bset.click >= source.now
                    \/ bset.settle >= 2 /\ source.change[k] >= source.now - 1
              BY <1>0, <1>k, <1>r, <2>0, <4>3, <5>1 DEF Brief
            <6> QED BY <1>0, <1>k, <6>1, <6>2, <6>3
          <5>3. Brief(k)'
            BY <3>1, <3>3, <4>3 DEF Brief
          <5> QED BY <1>r, <3>1, <3>3, <4>1, <4>3, <5>2, <5>3
        <4> QED BY <1>0, <4>2, <4>3
      <3> QED BY <3>2, <3>3
    <2> QED BY <2>1, <2>5, <2>6
  <1>6. CASE DrainEnds
    <2>1. /\ source'.believed = source.believed
          /\ source'.pending = source.pending /\ source'.change = source.change
          /\ source'.sweep = source.sweep /\ source'.now = source.now
          /\ step.at = "drain" /\ step' = Step(IF source.dropped THEN "reread" ELSE "sweep")
          /\ UNCHANGED <<keys, seen>>
      BY <1>0, <1>6, DrainEndsShape
    <2>2. step'.at \in {"reread", "sweep"}
      BY <1>0, <2>1, StepTyped
    <2> QED BY <1>r, <2>1, <2>2, OnTimeRest DEF Idle, Swept
  <1>7. CASE Reread
    <2> DEFINE f == step.key
    <2>1. /\ SampledTo(f, source.now, source') /\ step.at = "reread"
          /\ step'.at \in {"sweep", "reread"}
          /\ UNCHANGED <<bset, clock, pins, keys, seen>>
      BY <1>0, <1>7, RereadShape
    <2>2. /\ source'.believed = source.believed /\ source'.sweep = source.sweep /\ source'.now = source.now
          /\ source'.pending[f] = pins[f].level
          /\ source'.change[f] = IF pins[f].level # source.pending[f] /\ pins[f].level # source.believed[f]
                                 THEN source.now ELSE source.change[f]
          /\ \A j \in AllKeys : j # f => source'.pending[j] = source.pending[j] /\ source'.change[j] = source.change[j]
      BY <2>1 DEF SampledTo
    <2>3. (Idle' <=> Idle) /\ (Swept(k)' <=> Swept(k)) /\ ~Idle
      BY <2>1, <2>2 DEF Idle, Swept
    <2>4. CASE k # f
      BY <1>r, <2>1, <2>2, <2>3, <2>4, OnTimeRest
    <2>5. CASE k = f
      <3>1. Swift(k)'
        BY <1>0, <1>r, <2>2, <2>3, <2>5 DEF Swift
      <3>2. keys[k].pressed = 1 => source.believed[k] = 1
        BY <1>k
      <3>3. Brief(k)'
        BY <1>0, <1>k, <1>r, <2>1, <2>2, <2>3, <2>5, <3>2 DEF Brief, Counts
      <3> QED BY <1>r, <2>1, <3>1, <3>3
    <2> QED BY <2>4, <2>5
  <1>8. CASE SweepPublishes
    <2>0. step.at = "sweep" /\ clock = source.now /\ ~Idle
      BY <1>8, <1>p DEF SweepPublishes, Paced, Idle
    <2>1. PICK f \in AllKeys :
             /\ f \in Settled /\ \A j \in Settled : f <= j
             /\ source'.now = source.now
             /\ source'.pending = source.pending /\ source'.change = source.change
             /\ source'.sweep = f + 1
             /\ source'.believed[f] = source.pending[f]
             /\ \A j \in AllKeys : j # f => source'.believed[j] = source.believed[j]
             /\ Publish(f, source.change[f])
      BY <1>0, <1>8, SweepShape
    <2>2. /\ source.pending[f] # source.believed[f] /\ source.pending[f] \in {0, 1} /\ source.change[f] \in Nat
          /\ f \in Nat \ {0} /\ source.now - source.change[f] >= bset.settle
      BY <1>0, <2>1, SourceTyped DEF Settled
    <2>3. /\ step' = Step("drain")
          /\ \A j \in AllKeys : j # f => keys'[j] = keys[j] /\ seen'[j] = seen[j]
          /\ keys'[f].pressed = source.pending[f]
          /\ source.pending[f] = 1 => keys'[f].pressMs = source.change[f] /\ seen'[f].holds = seen[f].holds
          /\ source.pending[f] = 0 /\ ~(Counts(keys[f]) /\ source.change[f] - keys[f].pressMs > bset.click) =>
                seen'[f].holds = seen[f].holds
      BY <2>1, <2>2, PublishShape DEF Based
    <2>4. step'.at = "drain" /\ ~Idle'
      BY <1>0, <2>3, StepTyped DEF Idle
    <2>5. CASE k # f
      <3>1. keys'[k] = keys[k] /\ seen'[k] = seen[k] /\ source'.believed[k] = source.believed[k]
        BY <2>1, <2>3, <2>5
      <3>2. Swept(k)' => k < f
        BY <1>0, <2>1, <2>2, <2>4, <2>5 DEF Swept
      <3>3. k < f => k \notin Settled
        BY <1>0, <2>1, <2>2
      <3>4. k \notin Settled => \/ Swept(k) \/ source.pending[k] = source.believed[k]
                                \/ source.now - source.change[k] < bset.settle
        BY <1>0 DEF Settled, Swept
      <3>5. Swift(k)'
        BY <1>0, <1>r, <2>1, <3>1, <3>2, <3>3, <3>4 DEF Swift
      <3>6. Brief(k)'
        BY <1>r, <2>0, <2>1, <2>4, <3>1 DEF Brief, Counts
      <3> QED BY <1>r, <3>1, <3>5, <3>6
    <2>6. CASE k = f
      <3>1. Swift(k)'
        BY <2>1, <2>6 DEF Swift
      <3>2. CASE source.pending[k] = 1
        <4>1. bset.settle <= 1 => source.change[k] >= source.now - 1
          BY <1>r, <2>2, <2>6 DEF Swift
        <4>2. Brief(k)'
          BY <1>0, <2>0, <2>1, <2>2, <2>3, <2>4, <2>6, <3>2, <4>1 DEF Brief, Counts
        <4> QED BY <1>r, <2>3, <2>6, <3>1, <3>2, <4>2
      <3>3. CASE source.pending[k] = 0
        <4>1. keys[k].pressed = 1
          BY <1>0, <1>k, <2>2, <2>6, <3>3
        <4>2. ~(Counts(keys[k]) /\ source.change[k] - keys[k].pressMs > bset.click)
          <5>1. source.now - source.change[k] >= bset.settle /\ source.change[k] <= source.now
            BY <1>0, <2>0, <2>2, <2>6
          <5>2. Counts(keys[k]) =>
                  \/ keys[k].pressMs + bset.click >= source.now
                  \/ bset.settle >= 2 /\ source.change[k] >= source.now - 1
            BY <1>0, <1>k, <1>r, <2>0, <3>3, <4>1 DEF Brief
          <5> QED BY <1>0, <1>k, <5>1, <5>2
        <4>3. Brief(k)'
          BY <2>3, <2>6, <3>3 DEF Brief
        <4> QED BY <1>r, <2>3, <2>6, <3>1, <3>3, <4>2, <4>3
      <3> QED BY <1>0, <3>2, <3>3
    <2> QED BY <2>5, <2>6
  <1>9. CASE SweepEnds
    <2>1. /\ source'.believed = source.believed
          /\ source'.pending = source.pending /\ source'.change = source.change
          /\ source'.now = source.now
          /\ step.at = "sweep" /\ step'.at = "flag" /\ Settled = {}
          /\ UNCHANGED <<bset, clock, pins, keys, seen>>
      BY <1>0, <1>9, SweepEndsShape
    <2>2. \/ Swept(k) \/ source.pending[k] = source.believed[k] \/ source.now - source.change[k] < bset.settle
      <3>1. k \notin Settled
        BY <2>1
      <3> QED BY <1>0, <3>1 DEF Settled, Swept
    <2>3. Swift(k)'
      BY <1>0, <1>r, <2>1, <2>2 DEF Swift
    <2>4. Brief(k)'
      BY <1>r, <2>1 DEF Brief, Counts, Idle
    <2> QED BY <1>r, <2>1, <2>3, <2>4
  <1>a. CASE Advance
    <2>1. /\ source'.believed = source.believed
          /\ source'.pending = source.pending /\ source'.change = source.change
          /\ source'.now = source.now
      BY <1>0, <1>a, FlagShape DEF Advance
    <2>2. step.at = "flag" /\ step'.at = "idle"
      BY <1>0, <1>a, StepTyped DEF Advance
    <2>3. Honest(keys[k], keys'[k]) /\ seen'[k].holds = seen[k].holds
      BY <1>a, AdvanceShape DEF Based
    <2>4. Swift(k)'
      BY <1>r, <2>1, <2>2 DEF Swift, Swept
    <2>5. Brief(k)'
      <3>1. keys'[k].pressed = 1 /\ Counts(keys[k])' => keys'[k].pressMs + bset.click > source.now
        BY <2>3 DEF Honest, Counts
      <3>2. keys'[k].pressMs \in Nat
        BY <1>k, <2>3 DEF Honest
      <3> QED BY <1>0, <2>1, <2>2, <3>1, <3>2 DEF Brief, Idle
    <2> QED BY <1>r, <2>3, <2>4, <2>5
  <1>b. CASE Deinit
    <2>1. /\ source'.believed = source.believed
          /\ source'.pending = source.pending /\ source'.change = source.change
          /\ source'.now = source.now /\ source'.sweep = source.sweep
      BY <1>0, <1>b, FlagShape DEF Deinit
    <2>2. UNCHANGED <<step, keys, seen>>
      BY <1>b DEF Deinit
    <2> QED BY <1>r, <2>1, <2>2, OnTimeRest DEF Idle, Swept
  <1>c. CASE UNCHANGED bvars
    BY <1>c, <1>r, OnTimeRest DEF bvars, Idle, Swept
  <1> QED BY <1>1, <1>2, <1>3, <1>4, <1>5, <1>6, <1>7, <1>8, <1>9, <1>a, <1>b, <1>c DEF ButtonsNext

\* The parts give the property.
LEMMA TellsTrue == ASSUME Based, Follows, OnTime PROVE KeysTellTrue
  <1>1. KeyFollowsPin
    BY FollowsPin
  <1>2. ASSUME NEW k \in AllKeys, keys[k].pendingClicks > 0
        PROVE  keys[k].clickPending \/ (keys[k].pressed = 1 /\ keys[k].isClick)
    BY <1>2 DEF Based, ClicksTold, Sound
  <1> QED BY <1>1, <1>2 DEF KeysTellTrue, ClicksAccounted, Based, ClicksTold, OnTime

\* The time a timer tells is the one the step that ends the pass counted to.
LEMMA HonestStep ==
  ASSUME Based, [ButtonsNext]_bvars, step.at = "flag", step'.at = "idle"
  PROVE  \A k \in AllKeys :
            /\ \A due \in Timers(keys'[k]) : due > source.now
            /\ keys[k].news = {} /\ keys'[k].news # {} =>
                  \E due \in Timers(keys[k]) : due <= source.now
  <1>1. step' # step
    OBVIOUS
  <1>2. Advance
    BY <1>1 DEF ButtonsNext, bvars, ClockRuns, Flip, Interrupt, Poll, DrainEntry, DrainEnds, Reread,
                SweepPublishes, SweepEnds, Deinit, Idle
  <1>3. \A k \in AllKeys : Honest(keys[k], keys'[k])
    BY <1>2, AdvanceShape DEF Based
  <1> QED BY <1>3 DEF Honest

KeysInv == Based /\ Follows /\ OnTime

\* The invariant of the specification.
LEMMA ButtonsInv == ButtonsSpec => []KeysInv
  <1>1. ButtonsInit => KeysInv
    BY InitBased, InitFollows, InitOnTime DEF KeysInv
  <1>2. KeysInv /\ [ButtonsNext]_bvars => KeysInv'
    <2> SUFFICES ASSUME KeysInv, [ButtonsNext]_bvars PROVE KeysInv'
      OBVIOUS
    <2>1. bset' = bset
      BY DEF ButtonsNext, bvars, ClockRuns, Flip, Interrupt, Poll, DrainEntry, DrainEnds, Reread,
             SweepPublishes, SweepEnds, Advance, Deinit
    <2>2. Based'
      BY BasedStep DEF KeysInv
    <2>3. Follows'
      BY <2>1, <2>2, FollowsStep DEF KeysInv, Based
    <2>4. OnTime'
      BY <2>1, <2>2, OnTimeStep DEF KeysInv
    <2> QED BY <2>2, <2>3, <2>4 DEF KeysInv
  <1> QED BY <1>1, <1>2, PTL DEF ButtonsSpec

\* What the program is told of a key is what happened to its pin: a quiet key reads
\* as its pin does, whatever bounced, was lost or interrupted the drain; every click
\* is told in one series; and a loop that is never late counts no hold as a click
\* (core.py: _apply_edge, _advance; mp.py: next_event).
THEOREM KeysAlwaysTellTrue == ButtonsSpec => []KeysTellTrue
  <1>1. KeysInv => KeysTellTrue
    BY TellsTrue DEF KeysInv
  <1> QED BY <1>1, ButtonsInv, PTL

\* A pass leaves no timer due, and what a timer tells was due by next_deadline()
\* (core.py: _advance, next_deadline).
THEOREM TimersStayHonest == ButtonsSpec => TimersHonest
  <1>1. KeysInv /\ [ButtonsNext]_bvars =>
          [step.at = "flag" /\ step'.at = "idle" =>
             \A k \in AllKeys :
                /\ \A due \in Timers(keys'[k]) : due > source.now
                /\ keys[k].news = {} /\ keys'[k].news # {} =>
                      \E due \in Timers(keys[k]) : due <= source.now]_bvars
    BY HonestStep DEF KeysInv
  <1> QED BY <1>1, ButtonsInv, PTL DEF ButtonsSpec, TimersHonest

==============================================================================
