--------------------------- MODULE MqttWireProofs ---------------------------
(***************************************************************************)
(* The decoder of chumicro_mqtt/_wire.py returns what was sent: for every    *)
(* stream of packets, every way recv_into() cuts it, every size of the       *)
(* buffer from eight bytes on and every set of topic filters.                *)
(*                                                                          *)
(* First, what the encoders write and what the parsers read from it, from    *)
(* the digits of a length up to whole packets; then read_next() on a buffer  *)
(* that begins as a packet does; then the invariant: the buffer and what is  *)
(* not received yet are what follows the packets dispatched.                 *)
(***************************************************************************)
EXTENDS MqttWire, TLAPS, FiniteSetTheorems, SequenceTheorems, WellFoundedInduction

-----------------------------------------------------------------------------
(* Topics                                                                *)

\* Induction on the natural numbers, from the well-foundedness of <.
LEMMA SetInduction ==
  ASSUME NEW S, 0 \in S, \A n \in Nat : n \in S => n + 1 \in S
  PROVE  \A n \in Nat : n \in S
  <1> DEFINE R == OpToRel(<, Nat)
             T == {n \in Nat : n \notin S}
  <1> SUFFICES ASSUME T # {} PROVE FALSE
    OBVIOUS
  <1>1. IsWellFoundedOn(R, Nat)
    BY NatLessThanWellFounded
  <1>2. T \subseteq Nat
    OBVIOUS
  <1>3. PICK n \in T : \A m \in T : <<m, n>> \notin R
    <2> HIDE DEF R, T
    <2> QED BY <1>1, <1>2, WFMin
  <1>4. n \in Nat /\ n \notin S /\ n # 0
    OBVIOUS
  <1>5. n - 1 \in Nat /\ n - 1 < n /\ (n - 1) + 1 = n
    BY <1>4
  <1>6. n - 1 \notin S
    BY <1>4, <1>5
  <1>7. <<n - 1, n>> \in R
    BY <1>4, <1>5 DEF OpToRel
  <1> QED BY <1>3, <1>5, <1>6, <1>7

\* A topic has a number of levels.
LEMMA LevelsCount ==
  ASSUME NEW topic \in Seq(Int)
  PROVE  Len(Levels(topic)) \in Nat
  <1> DEFINE slashes == {k \in DOMAIN topic : topic[k] = Slash}
             starts == {0} \cup slashes
             c == Cardinality(starts)
  <1>1. IsFiniteSet(1..Len(topic))
    BY FS_Interval
  <1>2. IsFiniteSet(slashes)
    BY <1>1, FS_Subset
  <1>3. c \in Nat
    BY <1>2, FS_Singleton, FS_Union, FS_CardinalityType
  <1>4. \A f : f = [k \in 1..c |-> f[k]] => Len(f) = c
    <2> HIDE DEF c
    <2> QED BY <1>3
  <1> DEFINE start(k) == CHOOSE i \in starts : Cardinality({j \in starts : j < i}) = k - 1
             end(i) == CHOOSE j \in slashes \cup {Len(topic) + 1} :
                           j > i /\ \A s \in slashes : s > i => j <= s
             level(k) == SubSeq(topic, start(k) + 1, end(start(k)) - 1)
  <1>5. Levels(topic) = [k \in 1..c |-> level(k)]
    BY Zenon DEF Levels
  <1> HIDE DEF level
  <1> QED BY <1>3, <1>4, <1>5

\* What the loop returns from index k on.
Rest(levels, pattern, k) ==
    LET n == Len(pattern)
        open == n > 0 /\ pattern[n] = Hash
        fixed == IF open THEN n - 1 ELSE n
    IN  IF k = n + 1 THEN n = Len(levels)
        ELSE /\ \A j \in k..fixed :
                   j <= Len(levels) /\ pattern[j] # Hash /\ (pattern[j] = Plus \/ pattern[j] = levels[j])
             /\ open \/ n = Len(levels)

\* One turn of the loop, g being its answers further on.
LoopStep(levels, pattern, g, k) ==
    IF k > Len(pattern) THEN Len(pattern) = Len(levels)
    ELSE IF pattern[k] = Hash THEN k = Len(pattern)
    ELSE /\ k <= Len(levels)
         /\ pattern[k] = Plus \/ pattern[k] = levels[k]
         /\ g[k + 1]

\* One step of the loop of topic_matches: from the answer for the rest of the
\* pattern, the answer from here on.
LEMMA RestSteps ==
  ASSUME NEW levels, Len(levels) \in Nat, NEW pattern \in Seq(Seq(Int)), NEW g,
         NEW k \in 1..(Len(pattern) + 1),
         k <= Len(pattern) => g[k + 1] = Rest(levels, pattern, k + 1)
  PROVE  LoopStep(levels, pattern, g, k) = Rest(levels, pattern, k)
  <1> DEFINE n == Len(pattern)
             open == n > 0 /\ pattern[n] = Hash
             fixed == IF open THEN n - 1 ELSE n
             Fits(j) == /\ j <= Len(levels) /\ pattern[j] # Hash
                        /\ pattern[j] = Plus \/ pattern[j] = levels[j]
  <1>0. n \in Nat
    OBVIOUS
  <1>1. CASE k = n + 1
    <2>1. k > n
      BY <1>0, <1>1
    <2>2. LoopStep(levels, pattern, g, k) = (n = Len(levels))
      BY <2>1 DEF LoopStep
    <2>3. Rest(levels, pattern, k) = (n = Len(levels))
      BY <1>1, Zenon DEF Rest
    <2> QED BY <2>2, <2>3, Zenon
  <1>2. CASE k <= n /\ pattern[k] = Hash
    <2>1. LoopStep(levels, pattern, g, k) = (k = n)
      BY <1>0, <1>2 DEF LoopStep
    <2>2. CASE k = n
      <3>1. ~(\E j \in k..fixed : TRUE) /\ open
        BY <1>0, <1>2, <2>2
      <3>2. k # n + 1
        BY <1>0, <2>2
      <3>3. Rest(levels, pattern, k) <=> TRUE
        BY <3>1, <3>2, Zenon DEF Rest
      <3>4. Rest(levels, pattern, k) \in BOOLEAN
        BY <3>2, Zenon DEF Rest
      <3> QED BY <2>1, <2>2, <3>3, <3>4, Zenon
    <2>3. CASE k # n
      <3>1. k \in k..fixed
        BY <1>0, <1>2, <2>3
      <3>2. ~Rest(levels, pattern, k)
        BY <1>0, <1>2, <2>3, <3>1 DEF Rest
      <3> QED BY <2>1, <2>3, <3>2 DEF Rest
    <2> QED BY <2>2, <2>3
  <1>3. CASE k <= n /\ pattern[k] # Hash
    <2>1. LoopStep(levels, pattern, g, k) <=> Fits(k) /\ Rest(levels, pattern, k + 1)
      BY <1>0, <1>3 DEF LoopStep
    <2>2. k <= fixed
      BY <1>0, <1>3
    <2>3. Rest(levels, pattern, k) <=> (\A j \in k..fixed : Fits(j)) /\ (open \/ n = Len(levels))
      BY <1>0, <1>3 DEF Rest
    <2>4. (\A j \in k..fixed : Fits(j)) <=> Fits(k) /\ \A j \in (k + 1)..fixed : Fits(j)
      <3> HIDE DEF Fits
      <3>1. k \in Int /\ fixed \in Int
        BY <1>0
      <3> HIDE DEF fixed
      <3> QED BY <2>2, <3>1
    <2>5. Rest(levels, pattern, k + 1) <=> (\A j \in (k + 1)..fixed : Fits(j)) /\ (open \/ n = Len(levels))
      <3>1. CASE k = n
        BY <1>0, <1>3, <3>1 DEF Rest
      <3>2. CASE k # n
        BY <1>0, <1>3, <3>2 DEF Rest
      <3> QED BY <3>1, <3>2
    <2>6. /\ LoopStep(levels, pattern, g, k) \in BOOLEAN
          /\ Rest(levels, pattern, k) \in BOOLEAN
      BY <1>0, <1>3 DEF LoopStep, Rest
    <2> QED BY <2>1, <2>3, <2>4, <2>5, <2>6
  <1> QED BY <1>0, <1>1, <1>2, <1>3

\* The loop of topic_matches decides what the standard calls a match.
LEMMA LoopMatches ==
  ASSUME NEW levels, Len(levels) \in Nat, NEW pattern \in Seq(Seq(Int))
  PROVE  MatchFrom(levels, pattern)[1] <=> Matching(levels, pattern)
  <1> DEFINE n == Len(pattern)
             I == 1..(n + 1)
             Obeys(g) == g = [k \in I |-> LoopStep(levels, pattern, g, k)]
             r == [k \in I |-> Rest(levels, pattern, k)]
             f == MatchFrom(levels, pattern)
  <1>0. n \in Nat
    OBVIOUS
  <1>1. \A k \in I : LoopStep(levels, pattern, r, k) = r[k]
    <2> SUFFICES ASSUME NEW k \in I PROVE LoopStep(levels, pattern, r, k) = r[k]
      OBVIOUS
    <2>1. k <= n => k + 1 \in I /\ r[k + 1] = Rest(levels, pattern, k + 1)
      BY <1>0
    <2>2. r[k] = Rest(levels, pattern, k)
      OBVIOUS
    <2> HIDE DEF r
    <2> QED BY <2>1, <2>2, RestSteps
  <1>2. Obeys(r)
    BY <1>1, Zenon
  <1>3. f = CHOOSE g : Obeys(g)
    BY Zenon DEF MatchFrom, LoopStep
  <1>4. Obeys(f)
    <2> HIDE DEF Obeys, f
    <2> QED BY <1>2, <1>3
  <1>5. \A k \in I : f[k] = LoopStep(levels, pattern, f, k)
    <2> HIDE DEF f
    <2> QED BY <1>4, Zenon
  <1> DEFINE S == {m \in Nat : m <= n => f[n + 1 - m] = Rest(levels, pattern, n + 1 - m)}
  <1>6. 0 \in S
    <2>1. n + 1 \in I /\ ~(n + 1 <= n) /\ n + 1 - 0 = n + 1
      BY <1>0
    <2> HIDE DEF f
    <2>2. f[n + 1] = Rest(levels, pattern, n + 1)
      BY <1>5, <2>1, RestSteps
    <2> QED BY <2>1, <2>2
  <1>7. ASSUME NEW m \in Nat, m \in S PROVE m + 1 \in S
    <2> SUFFICES ASSUME m + 1 <= n
                 PROVE  f[n + 1 - (m + 1)] = Rest(levels, pattern, n + 1 - (m + 1))
      OBVIOUS
    <2> DEFINE k == n - m
    <2>1. k \in I /\ k + 1 = n + 1 - m /\ n + 1 - (m + 1) = k /\ m <= n
      BY <1>0
    <2> HIDE DEF f
    <2>2. f[k + 1] = Rest(levels, pattern, k + 1)
      BY <1>7, <2>1
    <2> HIDE DEF k
    <2>3. f[k] = Rest(levels, pattern, k)
      BY <1>5, <2>1, <2>2, RestSteps
    <2> QED BY <2>1, <2>3
  <1>8. f[1] = Rest(levels, pattern, 1)
    <2>1. \A m \in Nat : m \in S
      <3> HIDE DEF S
      <3> QED BY <1>6, <1>7, SetInduction
    <2>2. n \in S /\ n + 1 - n = 1 /\ n <= n
      BY <1>0, <2>1
    <2> HIDE DEF f
    <2> QED BY <2>2
  <1>9. Rest(levels, pattern, 1) <=> Matching(levels, pattern)
    <2> DEFINE open == n > 0 /\ pattern[n] = Hash
               fixed == IF open THEN n - 1 ELSE n
    <2>1. CASE n = 0
      BY <2>1 DEF Rest, Matching
    <2>2. CASE n # 0
      <3>1. fixed \in Nat /\ fixed <= n /\ 1 # n + 1
        BY <1>0, <2>2
      <3>2. Rest(levels, pattern, 1) <=>
              /\ \A j \in 1..fixed : j <= Len(levels) /\ pattern[j] # Hash
                                      /\ (pattern[j] = Plus \/ pattern[j] = levels[j])
              /\ open \/ n = Len(levels)
        BY <3>1 DEF Rest
      <3>3. Matching(levels, pattern) <=>
              /\ IF open THEN Len(levels) >= fixed ELSE Len(levels) = fixed
              /\ \A j \in 1..fixed : pattern[j] # Hash /\ (pattern[j] = Plus \/ pattern[j] = levels[j])
        BY DEF Matching
      <3>4. (\A j \in 1..fixed : j <= Len(levels)) <=> Len(levels) >= fixed
        <4> HIDE DEF fixed
        <4> QED BY <3>1
      <3>5. ~open => fixed = n
        OBVIOUS
      <3> HIDE DEF fixed, open
      <3> QED BY <1>0, <3>1, <3>2, <3>3, <3>4, <3>5
    <2> QED BY <2>1, <2>2
  <1> QED BY <1>8, <1>9

-----------------------------------------------------------------------------
(* Remaining lengths                                                        *)

\* Quotient and remainder.
LEMMA Division ==
  ASSUME NEW b \in Nat \ {0}, NEW n \in Nat
  PROVE  n \div b \in Nat /\ n % b \in 0..(b - 1) /\ n = b * (n \div b) + (n % b)
  <1> DEFINE q == n \div b
             r == n % b
  <1>1. q \in Int /\ r \in 0..(b - 1) /\ n = b * q + r
    OBVIOUS
  <1> HIDE DEF q, r
  <1>2. q \in Nat
    <2> SUFFICES ASSUME q <= -1 PROVE FALSE
      BY <1>1
    <2>1. -1 - q \in Nat /\ b * (-1 - q) \in Nat
      BY <1>1
    <2>2. b * (-1 - q) = -b - b * q
      BY <1>1
    <2> QED BY <1>1, <2>1, <2>2
  <1> QED BY <1>1, <1>2 DEF q, r

\* The base of a length is at least two.
LEMMA VarBaseType == VarBase \in Nat \ {0} /\ VarBase >= 2
  BY DecoderAssumption

\* Times zero.
LEMMA VarBaseZero == VarBase * 0 = 0
  BY DecoderAssumption

\* Quotient and remainder by the base of encode_varlen.
LEMMA Quotient ==
  ASSUME NEW n \in Nat
  PROVE  /\ n \div VarBase \in Nat /\ n % VarBase \in 0..(VarBase - 1)
         /\ n = VarBase * (n \div VarBase) + (n % VarBase)
  BY VarBaseType, Division

\* A digit of encode_varlen is found again whether it is marked or not.
LEMMA Remainder ==
  ASSUME NEW m \in 0..(VarBase - 1)
  PROVE  m % VarBase = m /\ (VarBase + m) % VarBase = m
  BY DecoderAssumption

\* A number without quotient is a single digit.
LEMMA ZeroQuotient ==
  ASSUME NEW n \in Nat, n \div VarBase = 0
  PROVE  n < VarBase
  <1>1. n % VarBase \in 0..(VarBase - 1) /\ n = VarBase * 0 + (n % VarBase)
    BY Quotient
  <1> QED BY <1>1, VarBaseType, VarBaseZero

\* The digits of a length: all but the last are marked.
LEMMA VarlenShape ==
  ASSUME NEW n \in Nat, FitsVarlen(n)
  PROVE  LET v == Varlen(n) size == Len(v)
             digit(k) == IF k <= size THEN v[k] % VarBase ELSE 0
         IN  /\ v \in Seq(Int) /\ size \in 1..4
             /\ \A k \in 1..size : v[k] \in Nat /\ (v[k] < VarBase <=> k = size)
             /\ n = digit(1) + VarBase * (digit(2) + VarBase * (digit(3) + VarBase * digit(4)))
  <1> DEFINE n1 == n \div VarBase
             n2 == n1 \div VarBase
             n3 == n2 \div VarBase
             m0 == n % VarBase
             m1 == n1 % VarBase
             m2 == n2 % VarBase
             v == Varlen(n)
             digit(k) == IF k <= Len(v) THEN v[k] % VarBase ELSE 0
             marked(m) == VarBase + (m % VarBase)
             Shape == /\ v \in Seq(Int) /\ Len(v) \in 1..4
                      /\ \A k \in 1..Len(v) : v[k] \in Nat /\ (v[k] < VarBase <=> k = Len(v))
                      /\ n = digit(1) + VarBase * (digit(2) + VarBase * (digit(3) + VarBase * digit(4)))
  <1> SUFFICES Shape
    OBVIOUS
  <1>0. VarBase \in Nat /\ VarBase >= 2
    BY VarBaseType
  <1>1. /\ n1 \in Nat /\ n2 \in Nat /\ n3 \in Nat /\ n3 < VarBase
        /\ m0 \in 0..(VarBase - 1) /\ m1 \in 0..(VarBase - 1) /\ m2 \in 0..(VarBase - 1)
        /\ n = VarBase * n1 + m0 /\ n1 = VarBase * n2 + m1 /\ n2 = VarBase * n3 + m2
    BY Quotient DEF FitsVarlen
  <1>2. /\ n1 = 0 => n < VarBase
        /\ n2 = 0 => n1 < VarBase
        /\ n3 = 0 => n2 < VarBase
    BY <1>1, ZeroQuotient
  <1>3. v = IF n1 = 0 THEN <<n>>
            ELSE IF n2 = 0 THEN <<VarBase + m0, n1>>
            ELSE IF n3 = 0 THEN <<VarBase + m0, VarBase + m1, n2>>
            ELSE <<VarBase + m0, VarBase + m1, VarBase + m2, n3>>
    BY Zenon DEF Varlen
  <1>4. /\ (VarBase + m0) % VarBase = m0 /\ (VarBase + m1) % VarBase = m1 /\ (VarBase + m2) % VarBase = m2
        /\ n1 = 0 => n % VarBase = n
        /\ n2 = 0 => n1 % VarBase = n1
        /\ n3 = 0 => n2 % VarBase = n2
        /\ n3 % VarBase = n3
    BY <1>0, <1>1, <1>2, Remainder
  <1> HIDE DEF n1, n2, n3, m0, m1, m2, v
  <1>5. CASE n1 = 0
    <2>1. v = <<n>> /\ Len(v) = 1 /\ v[1] = n
      BY <1>3, <1>5
    <2>2. digit(1) = n /\ digit(2) = 0 /\ digit(3) = 0 /\ digit(4) = 0
      BY <1>4, <1>5, <2>1
    <2> QED BY <1>0, <1>2, <1>5, <2>1, <2>2
  <1>6. CASE n1 # 0 /\ n2 = 0
    <2>1. v = <<VarBase + m0, n1>> /\ Len(v) = 2 /\ v[1] = VarBase + m0 /\ v[2] = n1
      BY <1>3, <1>6
    <2>2. digit(1) = m0 /\ digit(2) = n1 /\ digit(3) = 0 /\ digit(4) = 0
      BY <1>4, <1>6, <2>1
    <2>3. v \in Seq(Int) /\ \A k \in 1..Len(v) : v[k] \in Nat /\ (v[k] < VarBase <=> k = Len(v))
      BY <1>0, <1>1, <1>2, <1>6, <2>1
    <2> HIDE DEF digit
    <2>4. VarBase * (n1 + VarBase * (0 + VarBase * 0)) = VarBase * n1
      <3>1. n1 + VarBase * (0 + VarBase * 0) = n1
        BY <1>1, VarBaseType, VarBaseZero
      <3> QED BY <3>1
    <2>5. n = digit(1) + VarBase * (digit(2) + VarBase * (digit(3) + VarBase * digit(4)))
      <3>1. VarBase * n1 \in Nat
        BY <1>0, <1>1
      <3> QED BY <1>1, <2>2, <2>4, <3>1
    <2> QED BY <2>1, <2>3, <2>5 DEF digit
  <1>7. CASE n1 # 0 /\ n2 # 0 /\ n3 = 0
    <2>1. /\ v = <<VarBase + m0, VarBase + m1, n2>>
          /\ Len(v) = 3 /\ v[1] = VarBase + m0 /\ v[2] = VarBase + m1 /\ v[3] = n2
      BY <1>3, <1>7
    <2>2. digit(1) = m0 /\ digit(2) = m1 /\ digit(3) = n2 /\ digit(4) = 0
      BY <1>4, <1>7, <2>1
    <2>3. v \in Seq(Int) /\ \A k \in 1..Len(v) : v[k] \in Nat /\ (v[k] < VarBase <=> k = Len(v))
      BY <1>0, <1>1, <1>2, <1>7, <2>1
    <2> HIDE DEF digit
    <2>4. m1 + VarBase * (n2 + VarBase * 0) = n1
      <3>1. n2 + VarBase * 0 = n2
        BY <1>1, VarBaseType, VarBaseZero
      <3>2. VarBase * n2 \in Nat
        BY <1>0, <1>1
      <3> QED BY <1>1, <3>1, <3>2
    <2>5. n = digit(1) + VarBase * (digit(2) + VarBase * (digit(3) + VarBase * digit(4)))
      <3>1. VarBase * n1 \in Nat
        BY <1>0, <1>1
      <3> QED BY <1>1, <2>2, <2>4, <3>1
    <2> QED BY <2>1, <2>3, <2>5 DEF digit
  <1>8. CASE n1 # 0 /\ n2 # 0 /\ n3 # 0
    <2>1. /\ v = <<VarBase + m0, VarBase + m1, VarBase + m2, n3>> /\ Len(v) = 4
          /\ v[1] = VarBase + m0 /\ v[2] = VarBase + m1 /\ v[3] = VarBase + m2 /\ v[4] = n3
      BY <1>3, <1>8
    <2>2. digit(1) = m0 /\ digit(2) = m1 /\ digit(3) = m2 /\ digit(4) = n3
      BY <1>4, <1>8, <2>1
    <2>3. v \in Seq(Int) /\ \A k \in 1..Len(v) : v[k] \in Nat /\ (v[k] < VarBase <=> k = Len(v))
      BY <1>0, <1>1, <2>1
    <2> HIDE DEF digit
    <2>4. m2 + VarBase * n3 = n2
      <3>1. VarBase * n3 \in Nat
        BY <1>0, <1>1
      <3> QED BY <1>1, <3>1
    <2>5. n = digit(1) + VarBase * (digit(2) + VarBase * (digit(3) + VarBase * digit(4)))
      <3>1. VarBase * n1 \in Nat
        BY <1>0, <1>1
      <3>2. VarBase * n2 \in Nat /\ m1 + VarBase * n2 = n1
        BY <1>0, <1>1
      <3>3. n = m0 + VarBase * (m1 + VarBase * (m2 + VarBase * n3))
        <4>1. n = m0 + VarBase * n1
          BY <1>1, <3>1
        <4> QED BY <2>4, <3>2, <4>1
      <3> QED BY <2>2, <3>3
    <2> QED BY <2>1, <2>3, <2>5 DEF digit
  <1> QED BY <1>5, <1>6, <1>7, <1>8

\* Where the marked bytes end.
LastDigit(bytes) == SelectInSeq(bytes, LAMBDA b : b < VarBase)

\* Where decode_varlen stops: at the first byte that is not marked.
LEMMA FirstUnmarked ==
  ASSUME NEW bytes \in Seq(Int)
  PROVE  LET last == LastDigit(bytes) IN
         /\ \A c \in 1..Len(bytes) :
               bytes[c] < VarBase /\ (\A k \in 1..(c - 1) : bytes[k] >= VarBase) => last = c
         /\ (\A k \in 1..Len(bytes) : bytes[k] >= VarBase) => last = 0
         /\ last \in 0..Len(bytes)
         /\ \A c \in 0..Len(bytes) : (\A k \in 1..c : bytes[k] >= VarBase) => last = 0 \/ last > c
  <1> DEFINE I == {i \in 1..Len(bytes) : bytes[i] < VarBase}
             last == IF I # {} THEN Min(I) ELSE 0
  <1>0. VarBase \in Nat /\ Len(bytes) \in Nat /\ \A k \in 1..Len(bytes) : bytes[k] \in Int
    BY VarBaseType
  <1>1. LastDigit(bytes) = last
    BY Zenon DEF SelectInSeq, LastDigit
  <1>2. I # {} => Min(I) \in I /\ \A j \in I : Min(I) <= j
    <2> SUFFICES ASSUME I # {} PROVE Min(I) \in I /\ \A j \in I : Min(I) <= j
      OBVIOUS
    <2>1. \E m \in I : \A j \in I : m <= j
      <3>7. \A m, j \in I : ~(m <= j) => j < m
        BY <1>0
      <3> SUFFICES ASSUME \A m \in I : \E j \in I : j < m PROVE FALSE
        <4> HIDE DEF I
        <4> QED BY <3>7
      <3> DEFINE S == {m \in Nat : \A i \in I : i > m}
      <3>1. 0 \in S
        OBVIOUS
      <3>2. \A m \in Nat : m \in S => m + 1 \in S
        BY <1>0
      <3>3. \A m \in Nat : m \in S
        <4> HIDE DEF S
        <4> QED BY <3>1, <3>2, SetInduction
      <3>4. PICK i \in I : TRUE
        OBVIOUS
      <3>5. i \in Nat
        BY <1>0, <3>4
      <3>6. i \in S
        BY <3>3, <3>5
      <3> QED BY <3>4, <3>5, <3>6
    <2> HIDE DEF I
    <2> QED BY <2>1 DEF Min
  <1>3. \A c \in 1..Len(bytes) :
           bytes[c] < VarBase /\ (\A k \in 1..(c - 1) : bytes[k] >= VarBase) => last = c
    <2> SUFFICES ASSUME NEW c \in 1..Len(bytes), bytes[c] < VarBase,
                        \A k \in 1..(c - 1) : bytes[k] >= VarBase
                 PROVE  last = c
      OBVIOUS
    <2>1. c \in I
      OBVIOUS
    <2>2. Min(I) \in I /\ Min(I) <= c
      <3> HIDE DEF I
      <3> QED BY <1>2, <2>1
    <2>3. Min(I) \in 1..Len(bytes) /\ bytes[Min(I)] < VarBase
      BY <2>2
    <2>4. last = Min(I)
      BY <2>1
    <2> HIDE DEF last, I
    <2> QED BY <1>0, <2>2, <2>3, <2>4
  <1>4. (\A k \in 1..Len(bytes) : bytes[k] >= VarBase) => last = 0
    BY <1>0
  <1>5. last \in 0..Len(bytes)
    <2>1. I # {} => Min(I) \in 1..Len(bytes)
      BY <1>2
    <2> HIDE DEF I
    <2> QED BY <1>0, <2>1
  <1>6. \A c \in 0..Len(bytes) : (\A k \in 1..c : bytes[k] >= VarBase) => last = 0 \/ last > c
    <2>1. I # {} => Min(I) \in 1..Len(bytes) /\ bytes[Min(I)] < VarBase
      BY <1>2
    <2>2. last = 0 \/ (last \in 1..Len(bytes) /\ bytes[last] < VarBase)
      <3> HIDE DEF I
      <3> QED BY <2>1
    <2> HIDE DEF last
    <2> QED BY <1>0, <2>2
  <1> HIDE DEF last
  <1> QED BY <1>1, <1>3, <1>4, <1>5, <1>6

\* What decode_varlen reads: a length, once all its digits are there.
LEMMA VarlenDecodes ==
  ASSUME NEW n \in Nat, FitsVarlen(n), NEW bytes \in Seq(Int),
         \A k \in 1..Len(Varlen(n)) : k <= Len(bytes) => bytes[k] = Varlen(n)[k]
  PROVE  /\ Len(bytes) >= Len(Varlen(n)) => DecodeVarlen(bytes) = <<n, Len(Varlen(n))>>
         /\ Len(bytes) < Len(Varlen(n)) => DecodeVarlen(bytes) = <<0, 0>>
  <1> DEFINE v == Varlen(n)
             size == Len(v)
             last == LastDigit(bytes)
             count == IF last = 0 THEN Len(bytes) ELSE last
             digit(k) == IF k <= count THEN bytes[k] % VarBase ELSE 0
             value == digit(1) + VarBase * (digit(2) + VarBase * (digit(3) + VarBase * digit(4)))
  <1>9. VarBase \in Nat /\ VarBase >= 2
    BY VarBaseType
  <1>1. /\ v \in Seq(Int) /\ size \in 1..4
        /\ \A k \in 1..size : v[k] \in Nat /\ (v[k] < VarBase <=> k = size)
    BY VarlenShape
  <1>2. /\ \A c \in 1..Len(bytes) :
              bytes[c] < VarBase /\ (\A k \in 1..(c - 1) : bytes[k] >= VarBase) => last = c
        /\ (\A k \in 1..Len(bytes) : bytes[k] >= VarBase) => last = 0
        /\ last \in 0..Len(bytes) /\ Len(bytes) \in Nat
    BY FirstUnmarked
  <1> SUFFICES /\ Len(bytes) >= size => DecodeVarlen(bytes) = <<n, size>>
               /\ Len(bytes) < size => DecodeVarlen(bytes) = <<0, 0>>
    OBVIOUS
  <1>0. \A k \in 1..size : k <= Len(bytes) => bytes[k] = v[k]
    OBVIOUS
  <1>3. DecodeVarlen(bytes) =
          IF count > 4 \/ (count = 4 /\ last = 0) THEN Malformed
          ELSE IF last = 0 THEN <<0, 0>> ELSE <<value, count>>
    <2>1. DecodeVarlen(bytes) =
            CASE count > 4 \/ (count = 4 /\ last = 0) -> Malformed
              [] last = 0 /\ count < 4 -> <<0, 0>>
              [] OTHER -> <<value, count>>
      BY Zenon DEF DecodeVarlen, LastDigit
    <2> HIDE DEF last, value
    <2>2. count \in Nat /\ Len(bytes) \in Nat
      BY <1>9, <1>2
    <2> HIDE DEF count
    <2>3. CASE count > 4 \/ (count = 4 /\ last = 0)
      BY <2>1, <2>2, <2>3
    <2>4. CASE ~(count > 4 \/ (count = 4 /\ last = 0)) /\ last = 0
      <3>1. count < 4
        BY <2>2, <2>4
      <3> QED BY <2>1, <2>2, <2>4, <3>1
    <2>5. CASE ~(count > 4 \/ (count = 4 /\ last = 0)) /\ last # 0
      BY <2>1, <2>2, <2>5
    <2> QED BY <2>3, <2>4, <2>5
  <1>4. CASE Len(bytes) >= size
    <2>1. last = size
      <3>0. Len(bytes) \in Nat /\ \A k \in 1..Len(bytes) : bytes[k] \in Int
        OBVIOUS
      <3> HIDE DEF last, v, size
      <3>1. size \in 1..Len(bytes) /\ bytes[size] < VarBase
        BY <1>9, <1>0, <1>1, <1>4, <3>0
      <3>2. \A k \in 1..(size - 1) : bytes[k] >= VarBase
        <4> SUFFICES ASSUME NEW k \in 1..(size - 1) PROVE bytes[k] >= VarBase
          OBVIOUS
        <4>1. k \in 1..size /\ k # size /\ k <= Len(bytes)
          BY <1>1, <1>4, <3>0
        <4>2. bytes[k] = v[k] /\ v[k] \in Nat /\ ~(v[k] < VarBase)
          BY <1>0, <1>1, <4>1
        <4> QED BY <1>9, <4>2
      <3> QED BY <1>9, <1>2, <3>1, <3>2
    <2>2. \A k \in 1..4 : digit(k) = IF k <= size THEN v[k] % VarBase ELSE 0
      <3> HIDE DEF last, v, size
      <3>1. count = size
        BY <1>1, <2>1
      <3> HIDE DEF count
      <3>2. \A k \in 1..4 : k <= size => bytes[k] = v[k]
        <4> SUFFICES ASSUME NEW k \in 1..4, k <= size PROVE bytes[k] = v[k]
          OBVIOUS
        <4>1. k \in 1..size /\ k <= Len(bytes)
          <5>1. size \in Int /\ Len(bytes) \in Int
            BY <1>1, <1>2
          <5> QED BY <1>4, <5>1
        <4> QED BY <1>0, <4>1
      <3> QED BY <3>1, <3>2
    <2>3. value = n
      <3> HIDE DEF digit
      <3> QED BY <2>2, VarlenShape
    <2>4. count = size /\ last # 0 /\ ~(count > 4) /\ Len(bytes) \in Nat
      <3> HIDE DEF last, v, size
      <3> QED BY <1>9, <1>1, <1>2, <2>1
    <2> HIDE DEF last, v, value, count, size
    <2>5. DecodeVarlen(bytes) = <<value, count>>
      BY <1>9, <1>3, <2>4
    <2> QED BY <1>9, <1>1, <1>4, <2>3, <2>4, <2>5
  <1>5. CASE Len(bytes) < size
    <2> HIDE DEF last, v, value, size
    <2>1. \A k \in 1..Len(bytes) : bytes[k] >= VarBase
      BY <1>9, <1>0, <1>1, <1>5
    <2>2. last = 0
      BY <1>9, <1>2, <2>1
    <2>3. last = 0 /\ count < 4 /\ count \in Nat
      BY <1>9, <1>1, <1>2, <1>5, <2>2
    <2> HIDE DEF count
    <2> QED BY <1>9, <1>1, <1>2, <1>3, <1>5, <2>3
  <1>6. size \in Nat /\ Len(bytes) \in Nat
    BY <1>9, <1>1
  <1> QED BY <1>9, <1>4, <1>5, <1>6

\* Four marked bytes are no length, less of them none yet.
LEMMA EndlessDecodes ==
  ASSUME NEW bytes \in Seq(Int), \A k \in 1..4 : k <= Len(bytes) => bytes[k] >= VarBase
  PROVE  DecodeVarlen(bytes) = IF Len(bytes) >= 4 THEN Malformed ELSE <<0, 0>>
  <1> DEFINE last == LastDigit(bytes)
             count == IF last = 0 THEN Len(bytes) ELSE last
             digit(k) == IF k <= count THEN bytes[k] % VarBase ELSE 0
             value == digit(1) + VarBase * (digit(2) + VarBase * (digit(3) + VarBase * digit(4)))
  <1>9. VarBase \in Nat /\ VarBase >= 2
    BY VarBaseType
  <1>1. /\ (\A k \in 1..Len(bytes) : bytes[k] >= VarBase) => last = 0
        /\ last \in 0..Len(bytes) /\ Len(bytes) \in Nat
        /\ \A c \in 0..Len(bytes) : (\A k \in 1..c : bytes[k] >= VarBase) => last = 0 \/ last > c
    BY FirstUnmarked
  <1>2. DecodeVarlen(bytes) =
          IF count > 4 \/ (count = 4 /\ last = 0) THEN Malformed
          ELSE IF last = 0 THEN <<0, 0>> ELSE <<value, count>>
    <2>1. DecodeVarlen(bytes) =
            CASE count > 4 \/ (count = 4 /\ last = 0) -> Malformed
              [] last = 0 /\ count < 4 -> <<0, 0>>
              [] OTHER -> <<value, count>>
      BY Zenon DEF DecodeVarlen, LastDigit
    <2> HIDE DEF last, value
    <2>2. count \in Nat /\ Len(bytes) \in Nat
      BY <1>9, <1>1
    <2> HIDE DEF count
    <2>3. CASE count > 4 \/ (count = 4 /\ last = 0)
      BY <2>1, <2>2, <2>3
    <2>4. CASE ~(count > 4 \/ (count = 4 /\ last = 0)) /\ last = 0
      <3>1. count < 4
        BY <2>2, <2>4
      <3> QED BY <2>1, <2>2, <2>4, <3>1
    <2>5. CASE ~(count > 4 \/ (count = 4 /\ last = 0)) /\ last # 0
      BY <2>1, <2>2, <2>5
    <2> QED BY <2>3, <2>4, <2>5
  <1> HIDE DEF last, value
  <1>5. Len(bytes) \in Nat /\ last \in Nat
    BY <1>1
  <1>6. (last = 0 => count = Len(bytes)) /\ (last # 0 => count = last)
    OBVIOUS
  <1>7. count \in Nat
    BY <1>5, <1>6
  <1> HIDE DEF count
  <1>3. CASE Len(bytes) >= 4
    <2>1. last = 0 \/ last > 4
      <3>1. 4 \in 0..Len(bytes) /\ \A k \in 1..4 : bytes[k] >= VarBase
        BY <1>3, <1>5
      <3> QED BY <1>1, <3>1
    <2>2. count > 4 \/ (count = 4 /\ last = 0)
      BY <1>3, <1>5, <1>6, <1>7, <2>1
    <2> QED BY <1>9, <1>2, <1>3, <2>2
  <1>4. CASE Len(bytes) < 4
    <2>1. \A k \in 1..Len(bytes) : bytes[k] >= VarBase
      <3> SUFFICES ASSUME NEW k \in 1..Len(bytes) PROVE bytes[k] >= VarBase
        OBVIOUS
      <3>1. k \in 1..4 /\ k <= Len(bytes)
        BY <1>4, <1>5
      <3> QED BY <3>1
    <2>2. last = 0
      BY <1>9, <1>1, <2>1
    <2>3. ~(count > 4 \/ (count = 4 /\ last = 0))
      BY <1>4, <1>5, <1>6, <1>7, <2>2
    <2> QED BY <1>9, <1>2, <1>4, <1>5, <2>2, <2>3
  <1> QED BY <1>9, <1>3, <1>4, <1>5

-----------------------------------------------------------------------------
(* Packets, and what read_next() makes of the bytes of one                   *)

\* A field of two bytes is read as it was written.
LEMMA ShortReads ==
  ASSUME NEW n \in Nat, NEW bytes, NEW k, bytes[k] = Short(n)[1], bytes[k + 1] = Short(n)[2]
  PROVE  ShortAt(bytes, k) = n
  <1> DEFINE b == 2 * VarBase
             q == n \div b
             r == n % b
  <1>1. b \in Nat \ {0}
    BY VarBaseType
  <1>2. q \in Nat /\ r \in Nat /\ n = b * q + r
    <2> HIDE DEF b
    <2>1. q \in Nat /\ r \in 0..(b - 1) /\ n = b * q + r
      BY <1>1, Division, Zenon
    <2> HIDE DEF q, r
    <2> QED BY <1>1, <2>1
  <1>3. Short(n)[1] = q /\ Short(n)[2] = r
    BY DEF Short
  <1>4. ShortAt(bytes, k) = q * 2 * VarBase + r
    <2> HIDE DEF q, r
    <2> QED BY <1>3 DEF ShortAt
  <1>5. q * 2 * VarBase = b * q
    <2> HIDE DEF q
    <2> QED BY <1>2, VarBaseType
  <1> HIDE DEF q, r, b
  <1> QED BY <1>2, <1>4, <1>5

\* A field of two bytes.
LEMMA ShortType ==
  ASSUME NEW n \in Nat
  PROVE  Short(n) \in Seq(Int) /\ Len(Short(n)) = 2
  <1> DEFINE b == 2 * VarBase
  <1>1. b \in Nat \ {0}
    BY VarBaseType
  <1>2. n \div b \in Nat /\ n % b \in Nat
    <2> HIDE DEF b
    <2> QED BY <1>1, Division
  <1>3. Short(n) = <<n \div b, n % b>>
    BY DEF Short
  <1> HIDE DEF b
  <1> QED BY <1>2, <1>3

\* The type byte of a PUBLISH and of an acknowledgement.
LEMMA TypeBytes ==
  /\ \A qos \in 0..2 : /\ TypeByte(PublishType, qos) \in Int
                       /\ TypeOf(TypeByte(PublishType, qos)) = PublishType
                       /\ QosOf(TypeByte(PublishType, qos)) = qos
  /\ \A type \in Int : TypeByte(type, 0) \in Int /\ TypeOf(TypeByte(type, 0)) = type
  BY DEF TypeByte, TypeOf, QosOf, PublishType

\* Where the body of a packet begins.
HeaderOf(body) == 1 + Len(Varlen(Len(body)))

\* Sequences one after another.
LEMMA Joined ==
  ASSUME NEW a \in Seq(Int), NEW b \in Seq(Int)
  PROVE  /\ a \o b \in Seq(Int) /\ Len(a \o b) = Len(a) + Len(b)
         /\ \A k \in 1..Len(a) : (a \o b)[k] = a[k]
         /\ \A k \in 1..Len(b) : (a \o b)[Len(a) + k] = b[k]
  OBVIOUS

\* A part of a sequence, from its elements.
LEMMA PartIs ==
  ASSUME NEW s \in Seq(Int), NEW part \in Seq(Int), NEW m \in Nat,
         m + Len(part) <= Len(s), \A k \in 1..Len(part) : s[m + k] = part[k]
  PROVE  SubSeq(s, m + 1, m + Len(part)) = part
  <1> DEFINE n == Len(part)
             t == SubSeq(s, m + 1, m + n)
  <1>1. n \in Nat
    OBVIOUS
  <1>2. part = [k \in 1..n |-> part[k]]
    OBVIOUS
  <1>3. t = [k \in 1..n |-> s[m + k]]
    <2> HIDE DEF n
    <2> QED BY <1>1
  <1> HIDE DEF t, n
  <1>4. t = part
    BY <1>2, <1>3 DEF n
  <1> QED BY <1>4 DEF t, n

\* What _finalize_packet puts together: the type byte, the length, the body.
LEMMA PacketShape ==
  ASSUME NEW byte \in Int, NEW body \in Seq(Int), FitsVarlen(Len(body))
  PROVE  LET e == Packet(byte, body)
             h == HeaderOf(body)
         IN  /\ e \in Seq(Int) /\ Len(e) = h + Len(body) /\ h \in 2..5 /\ e[1] = byte
             /\ \A k \in 1..(h - 1) : e[1 + k] = Varlen(Len(body))[k]
             /\ \A k \in 1..Len(body) : e[h + k] = body[k]
  <1> DEFINE v == Varlen(Len(body))
             a == <<byte>>
             e == Packet(byte, body)
             h == HeaderOf(body)
  <1>1. Len(body) \in Nat
    OBVIOUS
  <1>2. v \in Seq(Int) /\ Len(v) \in 1..4
    BY <1>1, VarlenShape
  <1>3. a \in Seq(Int) /\ Len(a) = 1 /\ a[1] = byte
    OBVIOUS
  <1>4. e = (a \o v) \o body /\ h = 1 + Len(v)
    BY DEF Packet, HeaderOf
  <1> DEFINE av == a \o v
  <1>5. /\ av \in Seq(Int) /\ Len(av) = 1 + Len(v)
        /\ av[1] = byte
        /\ \A k \in 1..Len(v) : av[1 + k] = v[k]
    <2> HIDE DEF v, a
    <2>1. /\ a \o v \in Seq(Int) /\ Len(a \o v) = Len(a) + Len(v)
          /\ \A k \in 1..Len(a) : (a \o v)[k] = a[k]
          /\ \A k \in 1..Len(v) : (a \o v)[Len(a) + k] = v[k]
      BY <1>2, <1>3, Joined, Zenon
    <2> HIDE DEF av
    <2>2. /\ av \in Seq(Int) /\ Len(av) = Len(a) + Len(v)
          /\ \A k \in 1..Len(a) : av[k] = a[k]
          /\ \A k \in 1..Len(v) : av[Len(a) + k] = v[k]
      BY <2>1 DEF av
    <2> QED BY <1>3, <2>2
  <1> HIDE DEF av
  <1>6. /\ e \in Seq(Int) /\ Len(e) = Len(av) + Len(body)
        /\ \A k \in 1..Len(av) : e[k] = av[k]
        /\ \A k \in 1..Len(body) : e[Len(av) + k] = body[k]
    <2>1. e = av \o body
      BY <1>4 DEF av
    <2> HIDE DEF e
    <2> QED BY <1>5, <2>1, Joined
  <1> HIDE DEF e, v, h
  <1>7. h \in 2..5 /\ Len(av) = h /\ 1 \in 1..Len(av)
        /\ \A k \in 1..Len(v) : 1 + k \in 1..Len(av)
    <2> DEFINE n == Len(v)
    <2>1. n \in 1..4 /\ h = 1 + n /\ Len(av) = 1 + n
      BY <1>2, <1>4, <1>5
    <2> HIDE DEF n
    <2>2. h \in 2..5 /\ Len(av) = h
      BY <2>1
    <2>3. 1 \in 1..h /\ \A k \in 1..n : 1 + k \in 1..h
      BY <2>1
    <2> QED BY <2>2, <2>3 DEF n
  <1>8. e[1] = byte /\ \A k \in 1..Len(v) : e[1 + k] = v[k]
    <2>1. e[1] = byte
      <3>1. e[1] = av[1]
        BY <1>6, <1>7, Zenon
      <3> QED BY <1>5, <3>1, Zenon
    <2>2. ASSUME NEW k \in 1..Len(v) PROVE e[1 + k] = v[k]
      <3>1. 1 + k \in 1..Len(av) /\ av[1 + k] = v[k]
        BY <1>5, <1>7
      <3> QED BY <1>6, <3>1, Zenon
    <2> QED BY <2>1, <2>2
  <1>9. Len(v) = h - 1
    BY <1>2, <1>4
  <1> QED BY <1>6, <1>7, <1>8, <1>9 DEF e, v, h

\* The bytes in the buffer begin with the packet that was sent, or with part of it.
Agree(live, e) == \A k \in 1..Len(e) : k <= Len(live) => live[k] = e[k]

\* What decode_varlen makes of the bytes after the type byte.
LEMMA HeaderReads ==
  ASSUME NEW byte \in Int, NEW body \in Seq(Int), FitsVarlen(Len(body)),
         NEW live \in Seq(Int), Len(live) >= 2, Agree(live, Packet(byte, body))
  PROVE  LET h == HeaderOf(body) IN
         /\ live[1] = byte
         /\ Len(live) >= h => DecodeVarlen(Tail(live)) = <<Len(body), h - 1>>
         /\ Len(live) < h => DecodeVarlen(Tail(live)) = <<0, 0>>
  <1> DEFINE v == Varlen(Len(body))
             e == Packet(byte, body)
             h == HeaderOf(body)
             t == Tail(live)
  <1>1. /\ Len(e) = h + Len(body) /\ h \in 2..5 /\ e[1] = byte /\ Len(body) \in Nat
        /\ \A k \in 1..(h - 1) : e[1 + k] = v[k]
    BY PacketShape
  <1>2. Len(v) = h - 1
    <2>1. Len(v) \in 1..4
      BY <1>1, VarlenShape
    <2> HIDE DEF v
    <2> QED BY <2>1 DEF HeaderOf, v
  <1>3. t \in Seq(Int) /\ Len(t) = Len(live) - 1 /\ Len(live) \in Nat
        /\ \A k \in 1..Len(t) : t[k] = live[1 + k]
    OBVIOUS
  <1>4. \A k \in 1..Len(e) : k <= Len(live) => live[k] = e[k]
    BY DEF Agree
  <1> HIDE DEF v, e, h, t
  <1>5. live[1] = byte
    BY <1>1, <1>4
  <1>6. \A k \in 1..Len(v) : k <= Len(t) => t[k] = v[k]
    <2> SUFFICES ASSUME NEW k \in 1..Len(v), k <= Len(t) PROVE t[k] = v[k]
      OBVIOUS
    <2>1. k \in 1..(h - 1) /\ 1 + k \in 1..Len(e) /\ 1 + k <= Len(live) /\ k \in 1..Len(t)
      BY <1>1, <1>2, <1>3
    <2>2. t[k] = live[1 + k] /\ live[1 + k] = e[1 + k] /\ e[1 + k] = v[k]
      BY <1>1, <1>3, <1>4, <2>1
    <2> QED BY <2>2
  <1>7. /\ Len(t) >= Len(v) => DecodeVarlen(t) = <<Len(body), Len(v)>>
        /\ Len(t) < Len(v) => DecodeVarlen(t) = <<0, 0>>
    <2>1. \A k \in 1..Len(Varlen(Len(body))) : k <= Len(t) => t[k] = Varlen(Len(body))[k]
      BY <1>6 DEF v
    <2>2. /\ Len(t) >= Len(Varlen(Len(body))) => DecodeVarlen(t) = <<Len(body), Len(Varlen(Len(body)))>>
          /\ Len(t) < Len(Varlen(Len(body))) => DecodeVarlen(t) = <<0, 0>>
      BY <1>1, <1>3, <2>1, VarlenDecodes
    <2> QED BY <2>2 DEF v
  <1>8. /\ Len(live) >= h => DecodeVarlen(t) = <<Len(body), h - 1>>
        /\ Len(live) < h => DecodeVarlen(t) = <<0, 0>>
    BY <1>1, <1>2, <1>3, <1>7
  <1> QED BY <1>5, <1>8 DEF t, h

\* The bytes not consumed yet.
Live(d) == SubSeq(d.data, d.offset + 1, Len(d.data))

\* read_next() at the head of a packet.
LEMMA PacketReads ==
  ASSUME NEW byte \in Int, NEW body \in Seq(Int), FitsVarlen(Len(body)),
         NEW d, ~d.drain.on, NEW live \in Seq(Int), live = Live(d), Agree(live, Packet(byte, body))
  PROVE  LET h == HeaderOf(body)
             total == h + Len(body)
             packet == ParsePacket(byte, body)
         IN  /\ Len(live) < h => ReadNext(d) = <<d, NoPacket>>
             /\ Len(live) >= h /\ total > BufferSize =>
                   ReadNext(d) = EnterDrainPath(d, live, Len(body), h)
             /\ Len(live) >= h /\ total <= BufferSize /\ Len(live) < total =>
                   ReadNext(d) = <<MakeRoom(d), NoPacket>>
             /\ total <= BufferSize /\ Len(live) >= total =>
                   ReadNext(d) = <<IF packet = BadPacket THEN d ELSE Consume(d, total), packet>>
  <1> DEFINE e == Packet(byte, body)
             h == HeaderOf(body)
             total == h + Len(body)
             packet == ParsePacket(byte, body)
             varlen == DecodeVarlen(Tail(live))
             Take(first, value, header) ==
                IF header + value > BufferSize THEN EnterDrainPath(d, live, value, header)
                ELSE IF Len(live) < header + value THEN <<MakeRoom(d), NoPacket>>
                ELSE LET p == ParsePacket(first, SubSeq(live, header + 1, header + value))
                     IN  <<IF p = BadPacket THEN d ELSE Consume(d, header + value), p>>
             Go == IF varlen = Malformed THEN <<d, BadPacket>>
                   ELSE IF varlen[2] = 0 THEN <<d, NoPacket>>
                   ELSE Take(live[1], varlen[1], 1 + varlen[2])
  <1> SUFFICES /\ Len(live) < h => ReadNext(d) = <<d, NoPacket>>
               /\ Len(live) >= h /\ total > BufferSize =>
                     ReadNext(d) = EnterDrainPath(d, live, Len(body), h)
               /\ Len(live) >= h /\ total <= BufferSize /\ Len(live) < total =>
                     ReadNext(d) = <<MakeRoom(d), NoPacket>>
               /\ total <= BufferSize /\ Len(live) >= total =>
                     ReadNext(d) = <<IF packet = BadPacket THEN d ELSE Consume(d, total), packet>>
    OBVIOUS
  <1>1. /\ e \in Seq(Int) /\ Len(e) = total /\ h \in 2..5 /\ Len(body) \in Nat
        /\ \A k \in 1..Len(body) : e[h + k] = body[k]
    BY PacketShape
  <1>2. ReadNext(d) = CASE d.drain.on -> FinishOversized(d)
                        [] ~d.drain.on /\ Len(live) < 2 -> <<d, NoPacket>>
                        [] OTHER -> Go
    BY Zenon DEF ReadNext, Live
  <1>3. ReadNext(d) = IF Len(live) < 2 THEN <<d, NoPacket>> ELSE Go
    <2> HIDE DEF Go
    <2> QED BY <1>2
  <1>4. Len(live) \in Nat
    OBVIOUS
  <1>5. Len(live) >= 2 => /\ live[1] = byte
                          /\ Len(live) >= h => varlen = <<Len(body), h - 1>>
                          /\ Len(live) < h => varlen = <<0, 0>>
    BY HeaderReads
  <1>6. Malformed = <<0, -1>>
    BY DEF Malformed
  <1>7. CASE Len(live) < h
    <2>1. CASE Len(live) < 2
      <3> HIDE DEF Go
      <3> QED BY <1>1, <1>3, <1>4, <1>7, <2>1
    <2>2. CASE Len(live) >= 2
      <3>1. varlen = <<0, 0>>
        BY <1>5, <1>7, <2>2
      <3>2. varlen # Malformed /\ varlen[2] = 0
        BY <1>6, <3>1
      <3> HIDE DEF varlen
      <3>3. Go = <<d, NoPacket>>
        BY <3>2, Zenon
      <3> HIDE DEF Go
      <3> QED BY <1>1, <1>3, <1>4, <1>7, <2>2, <3>3
    <2> QED BY <1>4, <2>1, <2>2
  <1>8. CASE Len(live) >= h
    <2>1. varlen = <<Len(body), h - 1>> /\ live[1] = byte /\ ~(Len(live) < 2)
      BY <1>1, <1>4, <1>5, <1>8
    <2>2. varlen[1] = Len(body) /\ varlen[2] = h - 1 /\ varlen # Malformed /\ varlen[2] # 0
      <3> HIDE DEF varlen
      <3> QED BY <1>1, <1>6, <2>1
    <2>3. 1 + varlen[2] = h
      <3> HIDE DEF varlen
      <3> QED BY <1>1, <2>2
    <2>4. ReadNext(d) = Take(byte, Len(body), h)
      <3> HIDE DEF varlen, h, Take
      <3>1. Go = Take(byte, Len(body), h)
        BY <2>1, <2>2, <2>3
      <3> HIDE DEF Go
      <3> QED BY <1>3, <2>1, <3>1
    <2>5. Len(live) >= total => SubSeq(live, h + 1, total) = body
      <3> SUFFICES ASSUME Len(live) >= total PROVE SubSeq(live, h + 1, h + Len(body)) = body
        OBVIOUS
      <3>1. \A k \in 1..Len(body) : live[h + k] = body[k]
        <4> SUFFICES ASSUME NEW k \in 1..Len(body) PROVE live[h + k] = body[k]
          OBVIOUS
        <4> HIDE DEF e, h
        <4> DEFINE n == Len(body)
        <4>8. h \in 2..5
          BY <1>1, Zenon
        <4>5. h \in Nat
          BY <4>8
        <4>6. n \in Nat /\ k \in 1..n
          BY <1>1, Zenon
        <4>7. Len(e) = h + n /\ Len(live) >= h + n
          BY <1>1, Zenon
        <4>3. n \in Nat /\ h \in Nat /\ k \in 1..n /\ Len(e) = h + n /\ Len(live) >= h + n
          BY <4>5, <4>6, <4>7
        <4> HIDE DEF n
        <4>4. h + k \in 1..(h + n) /\ h + k <= h + n
          BY <4>3
        <4>1. h + k \in 1..Len(e) /\ h + k <= Len(live)
          BY <1>4, <4>3, <4>4
        <4>2. live[h + k] = e[h + k]
          BY <4>1 DEF Agree, e
        <4> QED BY <1>1, <4>2
      <3> HIDE DEF h
      <3> QED BY <1>1, <3>1, PartIs
    <2>6. total \in Nat /\ BufferSize \in Nat /\ h \in Nat
      <3> HIDE DEF h
      <3> QED BY <1>1, DecoderAssumption
    <2> HIDE DEF h
    <2>7. CASE total > BufferSize
      <3>1. ReadNext(d) = EnterDrainPath(d, live, Len(body), h)
        BY <2>4, <2>7
      <3> HIDE DEF Take, total
      <3> QED BY <1>4, <1>8, <2>6, <2>7, <3>1
    <2>8. CASE total <= BufferSize /\ Len(live) < total
      <3>1. ~(total > BufferSize)
        BY <2>6, <2>8
      <3>2. ReadNext(d) = <<MakeRoom(d), NoPacket>>
        BY <2>4, <2>8, <3>1
      <3> HIDE DEF Take, total
      <3> QED BY <1>4, <1>8, <2>6, <2>8, <3>1, <3>2
    <2>9. CASE total <= BufferSize /\ Len(live) >= total
      <3>1. ~(total > BufferSize) /\ ~(Len(live) < total)
        <4> HIDE DEF total
        <4> QED BY <1>4, <2>6, <2>9
      <3>2. ReadNext(d) = <<IF packet = BadPacket THEN d ELSE Consume(d, total), packet>>
        BY <2>4, <2>5, <2>9, <3>1
      <3> HIDE DEF Take, total, packet
      <3> QED BY <1>4, <1>8, <2>6, <2>9, <3>1, <3>2
    <2> QED BY <1>4, <2>6, <2>7, <2>8, <2>9
  <1> HIDE DEF h
  <1>9. h \in Nat
    BY <1>1
  <1> QED BY <1>4, <1>7, <1>8, <1>9 DEF h

-----------------------------------------------------------------------------
(* Kinds of packets                                                         *)

\* The body of a PUBLISH, field by field.
PublishBody(topic, payload, qos, id) ==
    Short(Len(topic)) \o topic \o (IF qos > 0 THEN Short(id) ELSE <<>>) \o payload

\* Where topic, packet id and payload of a PUBLISH lie in its body.
LEMMA PublishShape ==
  ASSUME NEW topic \in Seq(Int), NEW payload \in Seq(Int), NEW qos \in 0..2, NEW id \in Nat
  PROVE  LET body == PublishBody(topic, payload, qos, id)
             n == Len(topic)
             p == Prelude(n, qos)
         IN  /\ body \in Seq(Int) /\ Len(body) = p + Len(payload)
             /\ body[1] = Short(n)[1] /\ body[2] = Short(n)[2]
             /\ \A k \in 1..n : body[2 + k] = topic[k]
             /\ qos > 0 => body[n + 3] = Short(id)[1] /\ body[n + 4] = Short(id)[2]
             /\ \A k \in 1..Len(payload) : body[p + k] = payload[k]
  <1> DEFINE body == PublishBody(topic, payload, qos, id)
             n == Len(topic)
             p == Prelude(n, qos)
             m == Len(payload)
             a == Short(n)
             c == IF qos > 0 THEN Short(id) ELSE <<>>
             i == Len(c)
             at == a \o topic
             atc == at \o c
  <1>1. n \in Nat /\ m \in Nat
    OBVIOUS
  <1>2. a \in Seq(Int) /\ Len(a) = 2
    BY <1>1, ShortType
  <1>3. c \in Seq(Int) /\ i = (IF qos > 0 THEN 2 ELSE 0) /\ (qos > 0 => c = Short(id))
    <2>1. Short(id) \in Seq(Int) /\ Len(Short(id)) = 2
      BY ShortType
    <2>2. CASE qos > 0
      <3>1. c = Short(id)
        BY <2>2
      <3> HIDE DEF c
      <3> QED BY <2>1, <2>2, <3>1
    <2>3. CASE ~(qos > 0)
      <3>1. c = <<>>
        BY <2>3
      <3> HIDE DEF c
      <3> QED BY <2>3, <3>1
    <2> QED BY <2>2, <2>3
  <1>4. p = 2 + n + i
    BY <1>3 DEF Prelude
  <1>5. body = atc \o payload
    BY Zenon DEF PublishBody
  <1> HIDE DEF a, c, p, body, m
  <1>6. /\ at \in Seq(Int) /\ Len(at) = Len(a) + n
        /\ \A k \in 1..Len(a) : at[k] = a[k]
        /\ \A k \in 1..n : at[Len(a) + k] = topic[k]
    <2>1. topic \in Seq(Int)
      OBVIOUS
    <2> QED BY <1>2, <2>1, Joined, Zenon
  <1> HIDE DEF at
  <1>7. /\ atc \in Seq(Int) /\ Len(atc) = Len(at) + i
        /\ \A k \in 1..Len(at) : atc[k] = at[k]
        /\ \A k \in 1..i : atc[Len(at) + k] = c[k]
    BY <1>3, <1>6, Joined, Zenon
  <1> HIDE DEF atc
  <1>8. /\ body \in Seq(Int) /\ Len(body) = Len(atc) + m
        /\ \A k \in 1..Len(atc) : body[k] = atc[k]
        /\ \A k \in 1..m : body[Len(atc) + k] = payload[k]
    BY <1>5, <1>7, Joined, Zenon DEF m
  <1> HIDE DEF n, i
  <1>9. Len(at) = 2 + n /\ Len(atc) = 2 + n + i /\ i \in 0..2
    BY <1>1, <1>2, <1>3, <1>6, <1>7
  <1>10. body \in Seq(Int) /\ Len(body) = p + m /\ \A k \in 1..m : body[p + k] = payload[k]
    BY <1>4, <1>8, <1>9
  <1>11. \A k \in 1..2 : body[k] = a[k]
    <2> SUFFICES ASSUME NEW k \in 1..2 PROVE body[k] = a[k]
      OBVIOUS
    <2>1. k \in 1..Len(a) /\ k \in 1..Len(at) /\ k \in 1..Len(atc)
      BY <1>1, <1>2, <1>9
    <2> QED BY <1>6, <1>7, <1>8, <2>1
  <1>12. \A k \in 1..n : body[2 + k] = topic[k]
    <2> SUFFICES ASSUME NEW k \in 1..n PROVE body[2 + k] = topic[k]
      OBVIOUS
    <2>1. Len(a) + k = 2 + k /\ 2 + k \in 1..Len(at) /\ 2 + k \in 1..Len(atc)
      BY <1>1, <1>2, <1>9
    <2> QED BY <1>6, <1>7, <1>8, <2>1
  <1>13. qos > 0 => body[n + 3] = Short(id)[1] /\ body[n + 4] = Short(id)[2]
    <2> SUFFICES ASSUME qos > 0 PROVE body[n + 3] = Short(id)[1] /\ body[n + 4] = Short(id)[2]
      OBVIOUS
    <2>1. i = 2 /\ c = Short(id)
      BY <1>3
    <2>2. \A k \in 1..2 : body[n + 2 + k] = c[k]
      <3> SUFFICES ASSUME NEW k \in 1..2 PROVE body[n + 2 + k] = c[k]
        OBVIOUS
      <3>1. k \in 1..i /\ Len(at) + k = n + 2 + k /\ n + 2 + k \in 1..Len(atc)
        BY <1>1, <1>9, <2>1
      <3> QED BY <1>7, <1>8, <3>1
    <2>3. n + 2 + 1 = n + 3 /\ n + 2 + 2 = n + 4 /\ 1 \in 1..2 /\ 2 \in 1..2
      BY <1>1
    <2>4. body[n + 2 + 1] = c[1] /\ body[n + 2 + 2] = c[2]
      BY <2>2, <2>3
    <2> QED BY <2>1, <2>3, <2>4
  <1>14. 1 \in 1..2 /\ 2 \in 1..2
    OBVIOUS
  <1>15. body[1] = Short(n)[1] /\ body[2] = Short(n)[2]
    BY <1>11, <1>14 DEF a
  <1> QED BY <1>10, <1>12, <1>13, <1>15 DEF n, p, m, body

\* It is read back.
LEMMA PublishParses ==
  ASSUME NEW topic \in Seq(Int), NEW payload \in Seq(Int), NEW qos \in 0..2, NEW id \in Nat
  PROVE  ParsePublish(qos, PublishBody(topic, payload, qos, id))
           = Published(topic, payload, qos, IF qos > 0 THEN id ELSE 0)
  <1> DEFINE body == PublishBody(topic, payload, qos, id)
             n == Len(topic)
             p == Prelude(n, qos)
             m == Len(payload)
  <1>1. /\ body \in Seq(Int) /\ Len(body) = p + m
        /\ body[1] = Short(n)[1] /\ body[2] = Short(n)[2]
        /\ \A k \in 1..n : body[2 + k] = topic[k]
        /\ qos > 0 => body[n + 3] = Short(id)[1] /\ body[n + 4] = Short(id)[2]
        /\ \A k \in 1..m : body[p + k] = payload[k]
    BY PublishShape
  <1>2. n \in Nat /\ m \in Nat
    OBVIOUS
  <1>3. p = (IF qos > 0 THEN (2 + n) + 2 ELSE 2 + n) /\ p \in Nat /\ p >= 2 + n
    <2> HIDE DEF n
    <2> QED BY <1>2 DEF Prelude
  <1>4. ShortAt(body, 1) = n
    <2> HIDE DEF body, n
    <2>1. 1 + 1 = 2
      OBVIOUS
    <2>2. body[1] = Short(n)[1] /\ body[1 + 1] = Short(n)[2]
      BY <1>1, <2>1
    <2> QED BY <1>2, <2>2, ShortReads, Zenon
  <1>5. qos > 0 => ShortAt(body, (2 + n) + 1) = id
    <2> HIDE DEF body, n
    <2>1. (2 + n) + 1 = n + 3 /\ (n + 3) + 1 = n + 4
      BY <1>2
    <2>2. qos > 0 => body[(2 + n) + 1] = Short(id)[1] /\ body[((2 + n) + 1) + 1] = Short(id)[2]
      BY <1>1, <2>1
    <2> QED BY <2>2, ShortReads, Zenon
  <1>6. SubSeq(body, 3, 2 + n) = topic
    <2>1. 2 + n <= Len(body)
      <3> HIDE DEF n, m, p, body
      <3> QED BY <1>1, <1>2, <1>3
    <2>2. SubSeq(body, 2 + 1, 2 + n) = topic
      <3> HIDE DEF body
      <3> QED BY <1>1, <2>1, PartIs
    <2> QED BY <2>2
  <1>7. SubSeq(body, p + 1, Len(body)) = payload
    <2> HIDE DEF body, p
    <2>1. p + m <= Len(body)
      <3> HIDE DEF m
      <3> QED BY <1>1, <1>2, <1>3
    <2>2. SubSeq(body, p + 1, p + m) = payload
      BY <1>1, <1>3, <2>1, PartIs, Zenon
    <2> QED BY <1>1, <2>2
  <1>8. ParsePublish(qos, body) =
          IF Len(body) < 2 THEN BadPacket
          ELSE IF 2 + n > Len(body) \/ p > Len(body) THEN BadPacket
          ELSE Published(SubSeq(body, 3, 2 + n), SubSeq(body, p + 1, Len(body)), qos,
                         IF qos > 0 THEN ShortAt(body, (2 + n) + 1) ELSE 0)
    <2> DEFINE F(end, start) ==
                  IF Len(body) < 2 THEN BadPacket
                  ELSE IF end > Len(body) \/ start > Len(body) THEN BadPacket
                  ELSE Published(SubSeq(body, 3, end), SubSeq(body, start + 1, Len(body)), qos,
                                 IF qos > 0 THEN ShortAt(body, end + 1) ELSE 0)
               end == 2 + ShortAt(body, 1)
    <2>1. ParsePublish(qos, body) = F(end, IF qos > 0 THEN end + 2 ELSE end)
      BY Zenon DEF ParsePublish
    <2>2. F(end, IF qos > 0 THEN end + 2 ELSE end) = F(2 + n, p)
      <3> HIDE DEF F, body, n, p
      <3> QED BY <1>3, <1>4
    <2> QED BY <2>1, <2>2
  <1>9. ~(Len(body) < 2) /\ ~(2 + n > Len(body) \/ p > Len(body))
    <2> HIDE DEF body, n, p, m
    <2> QED BY <1>1, <1>2, <1>3
  <1> HIDE DEF body, n, p
  <1>10. ParsePublish(qos, body) = Published(topic, payload, qos, IF qos > 0 THEN id ELSE 0)
    BY <1>5, <1>6, <1>7, <1>8, <1>9
  <1> QED BY <1>10 DEF body

\* What is sent but for a length without end is a packet.
ByteOf(s) == CASE s.is = "publish" -> TypeByte(PublishType, s.qos)
               [] s.is = "ack" -> TypeByte(s.type, 0)
               [] s.is = "junk" -> s.byte
BodyOf(s) == CASE s.is = "publish" -> PublishBody(s.topic, s.payload, s.qos, s.id)
               [] s.is = "ack" -> AckBody(s)
               [] s.is = "junk" -> s.body

\* Sendable(), kind by kind.
SendablePublish(s) ==
    /\ s = Published(s.topic, s.payload, s.qos, s.id)
    /\ s.topic \in Seq(Int) /\ s.payload \in Seq(Int) /\ s.qos \in 0..2 /\ s.id \in Nat
    /\ s.qos = 0 => s.id = 0
    /\ FitsVarlen(Prelude(Len(s.topic), s.qos) + Len(s.payload))
SendableAck(s) ==
    /\ s = Ack(s.type, s.id, s.rest)
    /\ s.id \in Nat /\ s.rest \in Seq(Int) /\ FitsVarlen(Len(AckBody(s)))
    /\ \/ s.type = ConnackType /\ s.id = 0 /\ Len(s.rest) = 2 /\ s.rest[1] \in {0, 1}
       \/ s.type = PingrespType /\ s.id = 0 /\ s.rest = <<>>
       \/ s.type \in {PubackType, UnsubackType} /\ s.rest = <<>>
       \/ s.type = SubackType /\ s.rest # <<>>
SendableJunk(s) ==
    s.byte \in Int /\ s.body \in Seq(Int) /\ FitsVarlen(Len(s.body)) /\ Ill(s.byte, s.body)
SendableEndless(s) ==
    s.bytes \in Seq(Int) /\ Len(s.bytes) >= 5 /\ \A k \in 2..5 : s.bytes[k] >= VarBase

\* What a broker sends is of one of four kinds.
LEMMA SendableKinds ==
  ASSUME NEW s, Sendable(s)
  PROVE  \/ s.is = "publish" /\ SendablePublish(s)
         \/ s.is = "ack" /\ SendableAck(s)
         \/ s.is = "junk" /\ SendableJunk(s)
         \/ s.is = "endless" /\ SendableEndless(s)
  <1>1. Sendable(s) <=> CASE s.is = "publish" -> SendablePublish(s)
                        [] s.is = "ack" -> SendableAck(s)
                        [] s.is = "junk" -> SendableJunk(s)
                        [] s.is = "endless" -> SendableEndless(s)
                        [] OTHER -> FALSE
    BY Zenon DEF Sendable, SendablePublish, SendableAck, SendableJunk, SendableEndless
  <1> QED BY <1>1

\* What the decoder makes of a packet, by its type.
LEMMA ParseCases ==
  ASSUME NEW byte, NEW body, NEW type, type = TypeOf(byte)
  PROVE  /\ type = PublishType => ParsePacket(byte, body) = ParsePublish(QosOf(byte), body)
         /\ type = ConnackType /\ Len(body) = 2 =>
               ParsePacket(byte, body) = Ack(type, 0, <<body[1] % 2, body[2]>>)
         /\ type \in {PubackType, UnsubackType} /\ Len(body) = 2 =>
               ParsePacket(byte, body) = Ack(type, ShortAt(body, 1), <<>>)
         /\ type = SubackType /\ Len(body) >= 3 =>
               ParsePacket(byte, body) = Ack(type, ShortAt(body, 1), SubSeq(body, 3, Len(body)))
         /\ type = PingrespType => ParsePacket(byte, body) = Ack(type, 0, <<>>)
         /\ \/ type \notin {ConnackType, PublishType, PubackType, SubackType, UnsubackType, PingrespType}
            \/ type \in {ConnackType, PubackType, UnsubackType} /\ Len(body) # 2
            \/ type = SubackType /\ ~(Len(body) >= 3)
            => ParsePacket(byte, body) = BadPacket
  <1>1. ParsePacket(byte, body) =
          CASE type = PublishType -> ParsePublish(QosOf(byte), body)
            [] type = ConnackType /\ Len(body) = 2 -> Ack(type, 0, <<body[1] % 2, body[2]>>)
            [] type \in {PubackType, UnsubackType} /\ Len(body) = 2 -> Ack(type, ShortAt(body, 1), <<>>)
            [] type = SubackType /\ Len(body) >= 3 ->
                 Ack(type, ShortAt(body, 1), SubSeq(body, 3, Len(body)))
            [] type = PingrespType -> Ack(type, 0, <<>>)
            [] OTHER -> BadPacket
    BY Zenon DEF ParsePacket
  <1>2. /\ PublishType # ConnackType /\ PublishType # PubackType /\ PublishType # UnsubackType
        /\ PublishType # SubackType /\ PublishType # PingrespType
        /\ ConnackType # PubackType /\ ConnackType # UnsubackType /\ ConnackType # SubackType
        /\ ConnackType # PingrespType /\ PubackType # SubackType /\ PubackType # PingrespType
        /\ UnsubackType # SubackType /\ UnsubackType # PingrespType /\ SubackType # PingrespType
    BY DEF PublishType, ConnackType, PubackType, UnsubackType, SubackType, PingrespType
  <1> QED BY <1>1, <1>2

\* The body of an acknowledgement is read back.
LEMMA AckShape ==
  ASSUME NEW s, SendableAck(s)
  PROVE  /\ AckBody(s) \in Seq(Int) /\ TypeByte(s.type, 0) \in Int
         /\ ParsePacket(TypeByte(s.type, 0), AckBody(s)) = s
         /\ TypeOf(TypeByte(s.type, 0)) # PublishType
  <1> DEFINE byte == TypeByte(s.type, 0)
             body == AckBody(s)
             types == {ConnackType, PubackType, SubackType, UnsubackType, PingrespType}
  <1>1. s.type \in types
    BY Zenon DEF SendableAck
  <1>2. types \subseteq Int /\ PublishType \notin types
    BY DEF PublishType, ConnackType, PubackType, UnsubackType, SubackType, PingrespType
  <1>3. byte \in Int /\ TypeOf(byte) = s.type /\ s.type # PublishType
    BY <1>1, <1>2, TypeBytes, Zenon
  <1>4. s = Ack(s.type, s.id, s.rest) /\ s.id \in Nat /\ s.rest \in Seq(Int)
    BY Zenon DEF SendableAck
  <1>5. body = CASE s.type = ConnackType -> s.rest
                 [] s.type = PingrespType -> <<>>
                 [] OTHER -> Short(s.id) \o s.rest
    BY Zenon DEF AckBody
  <1>6. ConnackType # PingrespType /\ \A t \in {PubackType, UnsubackType, SubackType} :
                                         t # ConnackType /\ t # PingrespType
    BY DEF ConnackType, PubackType, UnsubackType, SubackType, PingrespType
  <1>7. Short(s.id) \in Seq(Int) /\ Len(Short(s.id)) = 2
    BY <1>4, ShortType
  <1> HIDE DEF byte, body, types
  <1> SUFFICES body \in Seq(Int) /\ ParsePacket(byte, body) = s
    BY <1>3 DEF byte, body
  <1>8. CASE s.type = ConnackType /\ s.id = 0 /\ Len(s.rest) = 2 /\ s.rest[1] \in {0, 1}
    <2>1. body = s.rest
      BY <1>5, <1>6, <1>8
    <2>2. s.rest[1] % 2 = s.rest[1]
      BY <1>8
    <2>3. ParsePacket(byte, body) = Ack(s.type, 0, <<body[1] % 2, body[2]>>)
      BY <1>3, <1>8, <2>1, ParseCases
    <2>4. s.rest = <<s.rest[1], s.rest[2]>>
      BY <1>4, <1>8
    <2>5. <<body[1] % 2, body[2]>> = s.rest
      BY <2>1, <2>2, <2>4, Zenon
    <2> QED BY <1>4, <1>8, <2>1, <2>3, <2>5, Zenon
  <1>9. CASE s.type = PingrespType /\ s.id = 0 /\ s.rest = <<>>
    <2>1. body = s.rest
      BY <1>5, <1>6, <1>9
    <2>2. ParsePacket(byte, body) = Ack(s.type, 0, <<>>)
      BY <1>3, <1>9, ParseCases
    <2> QED BY <1>4, <1>9, <2>1, <2>2, Zenon
  <1>10. CASE s.type \in {PubackType, UnsubackType} /\ s.rest = <<>>
    <2>1. body = Short(s.id)
      BY <1>5, <1>6, <1>7, <1>10
    <2>2. 1 + 1 = 2 /\ body[1] = Short(s.id)[1] /\ body[2] = Short(s.id)[2]
      BY <2>1
    <2>3. ShortAt(body, 1) = s.id
      BY <1>4, <2>2, ShortReads
    <2>4. ParsePacket(byte, body) = Ack(s.type, ShortAt(body, 1), <<>>)
      BY <1>3, <1>7, <1>10, <2>1, ParseCases
    <2> QED BY <1>4, <1>7, <1>10, <2>1, <2>3, <2>4, Zenon
  <1>11. CASE s.type = SubackType /\ s.rest # <<>>
    <2>1. body = Short(s.id) \o s.rest
      BY <1>5, <1>6, <1>11
    <2> DEFINE a == Short(s.id)
               r == s.rest
               n == Len(r)
    <2>2. /\ body \in Seq(Int) /\ Len(body) = Len(a) + Len(r)
          /\ \A k \in 1..Len(a) : body[k] = a[k]
          /\ \A k \in 1..Len(r) : body[Len(a) + k] = r[k]
      BY <1>4, <1>7, <2>1, Joined, Zenon
    <2>3. n \in Nat /\ n >= 1 /\ Len(a) = 2
      BY <1>4, <1>7, <1>11
    <2>4. 1 \in 1..2 /\ 2 \in 1..2 /\ 1 + 1 = 2
      OBVIOUS
    <2>5. body[1] = a[1] /\ body[2] = a[2]
      <3> HIDE DEF a
      <3> QED BY <2>2, <2>3, <2>4
    <2>6. ShortAt(body, 1) = s.id
      <3>1. body[1] = Short(s.id)[1] /\ body[1 + 1] = Short(s.id)[2]
        BY <2>4, <2>5
      <3> QED BY <1>4, <3>1, ShortReads, Zenon
    <2>7. SubSeq(body, 2 + 1, 2 + n) = r
      <3>1. 2 + n <= Len(body) /\ \A k \in 1..n : body[2 + k] = r[k]
        <4> HIDE DEF a, r
        <4>1. \A k \in 1..n : body[2 + k] = r[k]
          BY <2>2, <2>3, Zenon
        <4>2. Len(body) = 2 + n
          BY <2>2, <2>3
        <4> HIDE DEF n
        <4> QED BY <2>3, <4>1, <4>2
      <3> HIDE DEF r
      <3>2. r \in Seq(Int) /\ 2 \in Nat
        BY <1>4 DEF r
      <3> QED BY <2>2, <3>1, <3>2, PartIs, Zenon
    <2>8. Len(body) = 2 + n /\ 2 + 1 = 3
      BY <2>2, <2>3
    <2>9. SubSeq(body, 3, Len(body)) = r
      BY <2>7, <2>8
    <2>10. Len(body) >= 3
      <3> HIDE DEF n
      <3> QED BY <2>3, <2>8
    <2>11. ParsePacket(byte, body) = Ack(s.type, ShortAt(body, 1), SubSeq(body, 3, Len(body)))
      BY <1>3, <1>11, <2>10, ParseCases
    <2> QED BY <1>4, <2>2, <2>6, <2>9, <2>11, Zenon
  <1> QED BY <1>8, <1>9, <1>10, <1>11 DEF SendableAck

\* A packet that breaks the protocol is refused.
LEMMA JunkParses ==
  ASSUME NEW byte \in Int, NEW body \in Seq(Int), Ill(byte, body)
  PROVE  /\ Len(Packet(byte, body)) <= BufferSize => ParsePacket(byte, body) = BadPacket
         /\ ~(Len(Packet(byte, body)) <= BufferSize) => TypeOf(byte) # PublishType
  <1> DEFINE type == TypeOf(byte)
  <1>1. \/ type \notin {ConnackType, PublishType, PubackType, SubackType, UnsubackType, PingrespType}
        \/ type \in {ConnackType, PubackType, UnsubackType} /\ Len(body) # 2
        \/ type = SubackType /\ Len(body) < 3
        \/ /\ type = PublishType /\ Len(Packet(byte, body)) <= BufferSize
           /\ Len(body) < 2 \/ Prelude(ShortAt(body, 1), QosOf(byte)) > Len(body)
    BY Zenon DEF Ill
  <1>2. /\ PublishType # ConnackType /\ PublishType # PubackType /\ PublishType # UnsubackType
        /\ PublishType # SubackType
    BY DEF PublishType, ConnackType, PubackType, UnsubackType, SubackType
  <1>3. Len(body) \in Nat
    OBVIOUS
  <1> HIDE DEF type
  <1>4. CASE /\ type = PublishType /\ Len(Packet(byte, body)) <= BufferSize
             /\ Len(body) < 2 \/ Prelude(ShortAt(body, 1), QosOf(byte)) > Len(body)
    <2>1. ParsePacket(byte, body) = ParsePublish(QosOf(byte), body)
      BY <1>4, ParseCases DEF type
    <2> DEFINE qos == QosOf(byte)
               end == 2 + ShortAt(body, 1)
               start == IF qos > 0 THEN end + 2 ELSE end
    <2>2. ParsePublish(qos, body) =
            IF Len(body) < 2 THEN BadPacket
            ELSE IF end > Len(body) \/ start > Len(body) THEN BadPacket
            ELSE Published(SubSeq(body, 3, end), SubSeq(body, start + 1, Len(body)), qos,
                           IF qos > 0 THEN ShortAt(body, end + 1) ELSE 0)
      BY Zenon DEF ParsePublish
    <2>3. Len(body) >= 2 => start = Prelude(ShortAt(body, 1), qos)
      <3> SUFFICES ASSUME Len(body) >= 2 PROVE start = Prelude(ShortAt(body, 1), qos)
        OBVIOUS
      <3>1. ShortAt(body, 1) \in Int
        <4>1. body[1] \in Int /\ body[1 + 1] \in Int
          BY <1>3
        <4> QED BY <4>1, VarBaseType DEF ShortAt
      <3> HIDE DEF qos
      <3> QED BY <3>1 DEF Prelude
    <2>4. Len(body) < 2 \/ start > Len(body)
      <3> HIDE DEF start
      <3> QED BY <1>3, <1>4, <2>3
    <2> HIDE DEF start, end
    <2>5. ParsePublish(qos, body) = BadPacket
      BY <2>2, <2>4
    <2> QED BY <1>4, <2>1, <2>5
  <1>5. CASE \/ type \notin {ConnackType, PublishType, PubackType, SubackType, UnsubackType, PingrespType}
             \/ type \in {ConnackType, PubackType, UnsubackType} /\ Len(body) # 2
             \/ type = SubackType /\ Len(body) < 3
    <2>1. \/ type \notin {ConnackType, PublishType, PubackType, SubackType, UnsubackType, PingrespType}
          \/ type \in {ConnackType, PubackType, UnsubackType} /\ Len(body) # 2
          \/ type = SubackType /\ ~(Len(body) >= 3)
      BY <1>3, <1>5
    <2>2. ParsePacket(byte, body) = BadPacket
      BY <2>1, ParseCases DEF type
    <2>3. type # PublishType
      BY <1>2, <1>5
    <2> QED BY <2>2, <2>3 DEF type
  <1> QED BY <1>1, <1>4, <1>5

-----------------------------------------------------------------------------
(* Refused packets, and packets too large                                   *)

\* A type byte, a length and a body.
IsPacket(s) == s.is \in {"publish", "ack", "junk"}

\* Everything sent but a length without end is a packet of a type and a body.
LEMMA SentShape ==
  ASSUME NEW s, Sendable(s), IsPacket(s)
  PROVE  /\ Encode(s) = Packet(ByteOf(s), BodyOf(s))
         /\ ByteOf(s) \in Int /\ BodyOf(s) \in Seq(Int) /\ FitsVarlen(Len(BodyOf(s)))
  <1>1. CASE s.is = "publish" /\ SendablePublish(s)
    <2>1. Encode(s) = EncodePublish(s.topic, s.payload, s.qos, s.id)
      BY <1>1 DEF Encode
    <2>2. EncodePublish(s.topic, s.payload, s.qos, s.id)
            = Packet(TypeByte(PublishType, s.qos), PublishBody(s.topic, s.payload, s.qos, s.id))
      BY Zenon DEF EncodePublish, PublishBody
    <2>3. ByteOf(s) = TypeByte(PublishType, s.qos)
      BY <1>1 DEF ByteOf
    <2>4. BodyOf(s) = PublishBody(s.topic, s.payload, s.qos, s.id)
      BY <1>1 DEF BodyOf
    <2>5. s.topic \in Seq(Int) /\ s.payload \in Seq(Int) /\ s.qos \in 0..2 /\ s.id \in Nat
      BY <1>1, Zenon DEF SendablePublish
    <2>6. /\ BodyOf(s) \in Seq(Int)
          /\ Len(BodyOf(s)) = Prelude(Len(s.topic), s.qos) + Len(s.payload)
      <3> DEFINE topic == s.topic
                 payload == s.payload
                 qos == s.qos
                 id == s.id
      <3>1. topic \in Seq(Int) /\ payload \in Seq(Int) /\ qos \in 0..2 /\ id \in Nat
        BY <2>5
      <3> HIDE DEF topic, payload, qos, id
      <3>2. LET body == PublishBody(topic, payload, qos, id)
            IN  body \in Seq(Int) /\ Len(body) = Prelude(Len(topic), qos) + Len(payload)
        BY <3>1, PublishShape
      <3> QED BY <2>4, <3>2, Zenon DEF topic, payload, qos, id
    <2>7. TypeByte(PublishType, s.qos) \in Int
      BY <2>5, TypeBytes
    <2>8. FitsVarlen(Len(BodyOf(s)))
      BY <1>1, <2>6, Zenon DEF SendablePublish
    <2> QED BY <2>1, <2>2, <2>3, <2>4, <2>6, <2>7, <2>8
  <1>2. CASE s.is = "ack" /\ SendableAck(s)
    <2>1. Encode(s) = Packet(TypeByte(s.type, 0), AckBody(s))
      BY <1>2 DEF Encode
    <2>2. ByteOf(s) = TypeByte(s.type, 0)
      BY <1>2 DEF ByteOf
    <2>3. BodyOf(s) = AckBody(s)
      BY <1>2 DEF BodyOf
    <2>4. FitsVarlen(Len(AckBody(s)))
      BY <1>2, Zenon DEF SendableAck
    <2> QED BY <1>2, <2>1, <2>2, <2>3, <2>4, AckShape
  <1>3. CASE s.is = "junk" /\ SendableJunk(s)
    <2>1. Encode(s) = Packet(s.byte, s.body)
      BY <1>3 DEF Encode
    <2>2. ByteOf(s) = s.byte
      BY <1>3 DEF ByteOf
    <2>3. BodyOf(s) = s.body
      BY <1>3 DEF BodyOf
    <2> QED BY <1>3, <2>1, <2>2, <2>3 DEF SendableJunk
  <1>4. s.is # "endless"
    BY DEF IsPacket
  <1> QED BY <1>1, <1>2, <1>3, <1>4, SendableKinds

\* What arrives of a packet.
LEMMA ArrivesCases ==
  ASSUME NEW s
  PROVE  LET fits == Len(Encode(s)) <= BufferSize IN
         /\ s.is \in {"publish", "ack"} /\ fits => Arrives(s) = s
         /\ s.is = "publish" /\ ~fits =>
               Arrives(s) = IF Len(Encode(s)) - Len(s.payload) <= BufferSize
                            THEN Oversized(s.topic, Prelude(Len(s.topic), s.qos) + Len(s.payload), s.qos, s.id)
                            ELSE Oversized(TopicLost, Prelude(Len(s.topic), s.qos) + Len(s.payload), s.qos, 0)
         /\ s.is = "ack" /\ ~fits => Arrives(s) = BadPacket
         /\ s.is \in {"junk", "endless"} => Arrives(s) = BadPacket
  <1> DEFINE fits == Len(Encode(s)) <= BufferSize
             length == Prelude(Len(s.topic), s.qos) + Len(s.payload)
             over == IF Len(Encode(s)) - Len(s.payload) <= BufferSize
                     THEN Oversized(s.topic, length, s.qos, s.id)
                     ELSE Oversized(TopicLost, length, s.qos, 0)
  <1>1. Arrives(s) = CASE s.is \in {"publish", "ack"} /\ fits -> s
                       [] s.is = "publish" /\ ~fits -> over
                       [] OTHER -> BadPacket
    BY Zenon DEF Arrives
  <1> HIDE DEF fits, over
  <1>2. /\ s.is \in {"publish", "ack"} /\ fits => Arrives(s) = s
        /\ s.is = "publish" /\ ~fits => Arrives(s) = over
        /\ s.is = "ack" /\ ~fits => Arrives(s) = BadPacket
        /\ s.is \in {"junk", "endless"} => Arrives(s) = BadPacket
    BY <1>1
  <1> QED BY <1>2, Zenon DEF fits, over

\* A packet that fits is read as it was sent, unless it is to be refused.
LEMMA Parses ==
  ASSUME NEW s, Sendable(s), IsPacket(s), Len(Encode(s)) <= BufferSize
  PROVE  /\ ParsePacket(ByteOf(s), BodyOf(s)) = Arrives(s)
         /\ Arrives(s) = BadPacket \/ (Arrives(s) # BadPacket /\ Arrives(s).is \in {"publish", "ack"})
  <1>1. CASE s.is = "publish" /\ SendablePublish(s)
    <2>1. ByteOf(s) = TypeByte(PublishType, s.qos)
      BY <1>1 DEF ByteOf
    <2>2. BodyOf(s) = PublishBody(s.topic, s.payload, s.qos, s.id)
      BY <1>1 DEF BodyOf
    <2>3. /\ s.topic \in Seq(Int) /\ s.payload \in Seq(Int) /\ s.qos \in 0..2 /\ s.id \in Nat
          /\ s = Published(s.topic, s.payload, s.qos, s.id) /\ (s.qos = 0 => s.id = 0)
      BY <1>1, Zenon DEF SendablePublish
    <2>4. TypeOf(ByteOf(s)) = PublishType /\ QosOf(ByteOf(s)) = s.qos
      BY <2>1, <2>3, TypeBytes
    <2>5. ParsePacket(ByteOf(s), BodyOf(s)) = ParsePublish(s.qos, BodyOf(s))
      BY <2>4, ParseCases
    <2>6. ParsePublish(s.qos, BodyOf(s))
            = Published(s.topic, s.payload, s.qos, IF s.qos > 0 THEN s.id ELSE 0)
      BY <2>2, <2>3, PublishParses
    <2>7. (IF s.qos > 0 THEN s.id ELSE 0) = s.id
      BY <2>3
    <2>8. Arrives(s) = s
      BY <1>1, ArrivesCases
    <2>9. s # BadPacket
      BY <1>1 DEF BadPacket
    <2> QED BY <1>1, <2>3, <2>5, <2>6, <2>7, <2>8, <2>9
  <1>2. CASE s.is = "ack" /\ SendableAck(s)
    <2>1. ByteOf(s) = TypeByte(s.type, 0)
      BY <1>2 DEF ByteOf
    <2>2. BodyOf(s) = AckBody(s)
      BY <1>2 DEF BodyOf
    <2>3. Arrives(s) = s
      BY <1>2, ArrivesCases
    <2>4. s # BadPacket
      BY <1>2 DEF BadPacket
    <2> QED BY <1>2, <2>1, <2>2, <2>3, <2>4, AckShape
  <1>3. CASE s.is = "junk" /\ SendableJunk(s)
    <2>1. ByteOf(s) = s.byte
      BY <1>3 DEF ByteOf
    <2>2. BodyOf(s) = s.body
      BY <1>3 DEF BodyOf
    <2>3. Encode(s) = Packet(s.byte, s.body)
      BY <1>3 DEF Encode
    <2>4. Arrives(s) = BadPacket
      BY <1>3, ArrivesCases
    <2>5. s.byte \in Int /\ s.body \in Seq(Int) /\ Ill(s.byte, s.body)
      BY <1>3, Zenon DEF SendableJunk
    <2> QED BY <2>1, <2>2, <2>3, <2>4, <2>5, JunkParses
  <1>4. s.is # "endless"
    BY DEF IsPacket
  <1> QED BY <1>1, <1>2, <1>3, <1>4, SendableKinds

\* One that does not fit is refused, unless it is a PUBLISH.
LEMMA Refused ==
  ASSUME NEW s, Sendable(s), IsPacket(s), ~(Len(Encode(s)) <= BufferSize), s.is # "publish"
  PROVE  TypeOf(ByteOf(s)) # PublishType /\ Arrives(s) = BadPacket
  <1>1. CASE s.is = "ack" /\ SendableAck(s)
    <2>1. ByteOf(s) = TypeByte(s.type, 0)
      BY <1>1 DEF ByteOf
    <2> QED BY <1>1, <2>1, AckShape, ArrivesCases
  <1>2. CASE s.is = "junk" /\ SendableJunk(s)
    <2>1. ByteOf(s) = s.byte
      BY <1>2 DEF ByteOf
    <2>2. Encode(s) = Packet(s.byte, s.body)
      BY <1>2 DEF Encode
    <2>3. Arrives(s) = BadPacket
      BY <1>2, ArrivesCases
    <2>4. s.byte \in Int /\ s.body \in Seq(Int) /\ Ill(s.byte, s.body)
      BY <1>2, Zenon DEF SendableJunk
    <2> QED BY <2>1, <2>2, <2>3, <2>4, JunkParses
  <1>3. s.is # "endless"
    BY DEF IsPacket
  <1> QED BY <1>1, <1>2, <1>3, SendableKinds

\* A PUBLISH that does not fit: what the decoder keeps of it while the rest is
\* thrown away.
DiscardOf(s, left) ==
    [data |-> <<>>, offset |-> 0,
     drain |-> [on |-> TRUE, left |-> left, topic |-> Arrives(s).topic, qos |-> Arrives(s).qos,
                id |-> Arrives(s).id, length |-> Arrives(s).length]]

\* _enter_drain_path goes on without a packet while some of it is to come.
LEMMA DrainBegins ==
  ASSUME NEW d, NEW left \in Int, left > 0, NEW topic, NEW qos, NEW id, NEW length
  PROVE  EnterDrain(d, left, topic, qos, id, length) =
           <<[data |-> <<>>, offset |-> 0,
              drain |-> [on |-> TRUE, left |-> left, topic |-> topic, qos |-> qos, id |-> id,
                         length |-> length]], NoPacket>>
  BY DEF EnterDrain, FinishOversized

\* A PUBLISH that does not fit is thrown away as what it will be reported as, or
\* what there is of it stays until its topic and id are known.
LEMMA Discards ==
  ASSUME NEW s, Sendable(s), s.is = "publish", ~(Len(Encode(s)) <= BufferSize),
         NEW d, NEW live \in Seq(Int), Agree(live, Encode(s)), Len(live) <= BufferSize,
         Len(live) >= HeaderOf(BodyOf(s))
  PROVE  LET path == EnterDrainPath(d, live, Len(BodyOf(s)), HeaderOf(BodyOf(s)))
         IN  \/ path = <<d, NoPacket>>
             \/ path = <<DiscardOf(s, Len(Encode(s)) - Len(live)), NoPacket>>
  <1> DEFINE e == Encode(s)
             body == BodyOf(s)
             h == HeaderOf(body)
             n == Len(s.topic)
             m == Len(s.payload)
             size == Len(live)
             length == Len(body)
             p == Prelude(n, s.qos)
             path == EnterDrainPath(d, live, length, h)
             left == Len(e) - size
  <1>1. /\ s.topic \in Seq(Int) /\ s.payload \in Seq(Int) /\ s.qos \in 0..2 /\ s.id \in Nat
        /\ (s.qos = 0 => s.id = 0)
    BY SendableKinds, Zenon DEF SendablePublish
  <1>2. IsPacket(s)
    BY DEF IsPacket
  <1>3. /\ e = Packet(ByteOf(s), body)
        /\ ByteOf(s) \in Int /\ body \in Seq(Int) /\ FitsVarlen(Len(body))
    BY <1>2, SentShape
  <1>4. ByteOf(s) = TypeByte(PublishType, s.qos)
    BY DEF ByteOf
  <1>5. body = PublishBody(s.topic, s.payload, s.qos, s.id)
    BY DEF BodyOf
  <1>6. TypeOf(ByteOf(s)) = PublishType /\ QosOf(ByteOf(s)) = s.qos
    BY <1>1, <1>4, TypeBytes
  <1>7. LET b == PublishBody(s.topic, s.payload, s.qos, s.id)
        IN  /\ Len(b) = p + m
            /\ b[1] = Short(n)[1] /\ b[2] = Short(n)[2]
            /\ \A k \in 1..n : b[2 + k] = s.topic[k]
            /\ s.qos > 0 => b[n + 3] = Short(s.id)[1] /\ b[n + 4] = Short(s.id)[2]
    <2> DEFINE topic == s.topic
               payload == s.payload
               qos == s.qos
               id == s.id
    <2>1. topic \in Seq(Int) /\ payload \in Seq(Int) /\ qos \in 0..2 /\ id \in Nat
      BY <1>1
    <2> HIDE DEF topic, payload, qos, id
    <2> DEFINE b == PublishBody(topic, payload, qos, id)
    <2>2. Len(b) = Prelude(Len(topic), qos) + Len(payload)
      BY <2>1, PublishShape
    <2>3. b[1] = Short(Len(topic))[1] /\ b[2] = Short(Len(topic))[2]
      BY <2>1, PublishShape, ZenonT(60)
    <2>4. \A k \in 1..Len(topic) : b[2 + k] = topic[k]
      BY <2>1, PublishShape, ZenonT(60)
    <2>5. qos > 0 => b[Len(topic) + 3] = Short(id)[1] /\ b[Len(topic) + 4] = Short(id)[2]
      BY <2>1, PublishShape, ZenonT(60)
    <2> QED BY <2>2, <2>3, <2>4, <2>5, Zenon DEF topic, payload, qos, id
  <1>8. /\ length = p + m
        /\ body[1] = Short(n)[1] /\ body[2] = Short(n)[2]
        /\ \A k \in 1..n : body[2 + k] = s.topic[k]
        /\ s.qos > 0 => body[n + 3] = Short(s.id)[1] /\ body[n + 4] = Short(s.id)[2]
    <2> HIDE DEF n, p, m, body
    <2> QED BY <1>5, <1>7, Zenon
  <1>9. /\ Len(Packet(ByteOf(s), body)) = h + length /\ h \in 2..5
        /\ Packet(ByteOf(s), body)[1] = ByteOf(s)
        /\ \A k \in 1..length : Packet(ByteOf(s), body)[h + k] = body[k]
    <2> HIDE DEF body
    <2> QED BY <1>3, PacketShape
  <1>10. /\ Len(e) = h + length /\ h \in 2..5 /\ e[1] = ByteOf(s)
         /\ \A k \in 1..length : e[h + k] = body[k]
    <2> HIDE DEF body, h, e
    <2> QED BY <1>3, <1>9
  <1>11. n \in Nat /\ m \in Nat /\ size \in Nat /\ length \in Nat /\ BufferSize \in Nat
    BY <1>1, <1>3, DecoderAssumption
  <1>12. p = (IF s.qos > 0 THEN n + 4 ELSE n + 2) /\ p \in Nat
    <2> HIDE DEF n
    <2> QED BY <1>1, <1>11 DEF Prelude
  <1>13. ~(Len(e) <= BufferSize) /\ size <= BufferSize /\ size >= h
    OBVIOUS
  <1>14. \A k \in 1..Len(e) : k <= size => live[k] = e[k]
    BY DEF Agree
  <1> HIDE DEF e, h, n, m, size, length, p
  <1>15. \A k \in 1..length : h + k <= size => live[h + k] = body[k]
    <2> SUFFICES ASSUME NEW k \in 1..length, h + k <= size PROVE live[h + k] = body[k]
      OBVIOUS
    <2>1. h + k \in 1..(h + length)
      BY <1>10, <1>11
    <2> QED BY <1>10, <1>14, <2>1
  <1>16. live[1] = ByteOf(s)
    <2>1. 1 \in 1..(h + length) /\ 1 <= size
      BY <1>10, <1>11, <1>13
    <2> QED BY <1>10, <1>14, <2>1
  <1>17. left \in Int /\ left > 0 /\ Len(e) = h + length /\ Len(e) \in Int
    BY <1>10, <1>11, <1>13
  <1> SUFFICES path = <<d, NoPacket>> \/ path = <<DiscardOf(s, left), NoPacket>>
    BY DEF e, h, size, length
  <1> HIDE DEF body
  <1> DEFINE topicLength == ShortAt(live, h + 1)
             prelude == h + 2 + topicLength + (IF s.qos > 0 THEN 2 ELSE 0)
             topicEnd == h + 2 + topicLength
  <1>18. path = CASE TypeOf(live[1]) # PublishType -> <<d, BadPacket>>
                  [] TypeOf(live[1]) = PublishType /\ size < h + 2 -> <<d, NoPacket>>
                  [] OTHER ->
                       IF h + 2 + topicLength + (IF QosOf(live[1]) > 0 THEN 2 ELSE 0) > BufferSize
                       THEN EnterDrain(d, (h + length) - size, TopicLost, QosOf(live[1]), 0, length)
                       ELSE IF size < h + 2 + topicLength + (IF QosOf(live[1]) > 0 THEN 2 ELSE 0)
                            THEN <<d, NoPacket>>
                       ELSE EnterDrain(d, (h + length) - size, SubSeq(live, h + 3, topicEnd), QosOf(live[1]),
                                       IF QosOf(live[1]) > 0 THEN ShortAt(live, topicEnd + 1) ELSE 0, length)
    BY Zenon DEF EnterDrainPath, size
  <1>19. path = IF size < h + 2 THEN <<d, NoPacket>>
                ELSE IF prelude > BufferSize
                     THEN EnterDrain(d, left, TopicLost, s.qos, 0, length)
                     ELSE IF size < prelude THEN <<d, NoPacket>>
                     ELSE EnterDrain(d, left, SubSeq(live, h + 3, topicEnd), s.qos,
                                     IF s.qos > 0 THEN ShortAt(live, topicEnd + 1) ELSE 0, length)
    <2>1. TypeOf(live[1]) = PublishType /\ QosOf(live[1]) = s.qos /\ (h + length) - size = left
      BY <1>6, <1>10, <1>11, <1>16, <1>17
    <2> HIDE DEF path, topicLength, topicEnd, left
    <2> QED BY <1>18, <2>1
  <1>20. CASE size < h + 2
    <2> HIDE DEF path
    <2> QED BY <1>19, <1>20
  <1>21. CASE ~(size < h + 2)
    <2>1. topicLength = n
      <3>1. 1 \in 1..length /\ 2 \in 1..length /\ h + 1 <= size /\ h + 2 <= size /\ (h + 1) + 1 = h + 2
        BY <1>8, <1>10, <1>11, <1>12, <1>21
      <3>2. live[h + 1] = Short(n)[1] /\ live[(h + 1) + 1] = Short(n)[2]
        BY <1>8, <1>15, <3>1
      <3> QED BY <1>11, <3>2, ShortReads, Zenon
    <2>2. prelude = h + p /\ topicEnd = h + 2 + n
      <3> HIDE DEF topicLength
      <3> QED BY <1>10, <1>11, <1>12, <2>1
    <2>3. Len(e) - m = h + p
      BY <1>8, <1>10, <1>11, <1>12
    <2>4. Arrives(s) = IF Len(e) - m <= BufferSize
                       THEN Oversized(s.topic, p + m, s.qos, s.id)
                       ELSE Oversized(TopicLost, p + m, s.qos, 0)
      BY <1>13, ArrivesCases, Zenon DEF e, p, m, n
    <2> HIDE DEF topicLength, prelude, topicEnd, path, left
    <2>5. CASE prelude > BufferSize
      <3>1. Arrives(s) = Oversized(TopicLost, length, s.qos, 0)
        <4>1. ~(Len(e) - m <= BufferSize)
          BY <1>10, <1>11, <1>12, <2>2, <2>3, <2>5
        <4>2. p + m = length
          BY <1>8
        <4> QED BY <2>4, <4>1, <4>2
      <3>2. path = EnterDrain(d, left, TopicLost, s.qos, 0, length)
        BY <1>19, <1>21, <2>5
      <3>3. path = <<DiscardOf(s, left), NoPacket>>
        <4>1. /\ Arrives(s).topic = TopicLost /\ Arrives(s).qos = s.qos
              /\ Arrives(s).id = 0 /\ Arrives(s).length = length
          BY <3>1 DEF Oversized
        <4>2. left \in Int /\ left > 0
          BY <1>17
        <4>3. EnterDrain(d, left, TopicLost, s.qos, 0, length) =
                <<[data |-> <<>>, offset |-> 0,
                   drain |-> [on |-> TRUE, left |-> left, topic |-> TopicLost, qos |-> s.qos, id |-> 0,
                              length |-> length]], NoPacket>>
          <5> DEFINE topic == TopicLost
                     qos == s.qos
                     id == 0
          <5> HIDE DEF topic, qos, id
          <5>1. EnterDrain(d, left, topic, qos, id, length) =
                  <<[data |-> <<>>, offset |-> 0,
                     drain |-> [on |-> TRUE, left |-> left, topic |-> topic, qos |-> qos, id |-> id,
                                length |-> length]], NoPacket>>
            BY <4>2, DrainBegins
          <5> QED BY <5>1, Zenon DEF topic, qos, id
        <4> QED BY <3>2, <4>1, <4>3, Zenon DEF DiscardOf
      <3> QED BY <3>3
    <2>6. CASE ~(prelude > BufferSize) /\ size < prelude
      BY <1>19, <1>21, <2>6
    <2>7. CASE ~(prelude > BufferSize) /\ ~(size < prelude)
      <3>1. Arrives(s) = Oversized(s.topic, length, s.qos, s.id)
        <4>1. Len(e) - m <= BufferSize
          BY <1>10, <1>11, <1>12, <2>2, <2>3, <2>7
        <4>2. p + m = length
          BY <1>8
        <4> QED BY <2>4, <4>1, <4>2
      <3>2. h + p <= size
        BY <1>10, <1>11, <1>12, <2>2, <2>7
      <3>3. SubSeq(live, h + 3, topicEnd) = s.topic
        <4>1. h + 2 \in Nat /\ (h + 2) + n <= size /\ h + 3 = (h + 2) + 1
          BY <1>10, <1>11, <1>12, <3>2
        <4>2. \A k \in 1..n : live[(h + 2) + k] = s.topic[k]
          <5> SUFFICES ASSUME NEW k \in 1..n PROVE live[(h + 2) + k] = s.topic[k]
            OBVIOUS
          <5>1. 2 + k \in 1..length /\ h + (2 + k) <= size /\ h + (2 + k) = (h + 2) + k
            BY <1>8, <1>10, <1>11, <1>12, <3>2
          <5> QED BY <1>8, <1>15, <5>1
        <4>3. SubSeq(live, (h + 2) + 1, (h + 2) + n) = s.topic
          BY <1>1, <4>1, <4>2, PartIs, Zenon DEF n, size
        <4> QED BY <2>2, <4>1, <4>3
      <3>4. (IF s.qos > 0 THEN ShortAt(live, topicEnd + 1) ELSE 0) = s.id
        <4>1. CASE s.qos > 0
          <5>1. n + 3 \in 1..length /\ n + 4 \in 1..length /\ h + (n + 3) <= size /\ h + (n + 4) <= size
            BY <1>8, <1>10, <1>11, <1>12, <3>2, <4>1
          <5>2. live[h + (n + 3)] = Short(s.id)[1] /\ live[h + (n + 4)] = Short(s.id)[2]
            BY <1>8, <1>15, <4>1, <5>1
          <5>3. topicEnd + 1 = h + (n + 3) /\ (topicEnd + 1) + 1 = h + (n + 4)
            BY <1>10, <1>11, <2>2
          <5>4. live[topicEnd + 1] = Short(s.id)[1] /\ live[(topicEnd + 1) + 1] = Short(s.id)[2]
            BY <5>2, <5>3
          <5>5. ShortAt(live, topicEnd + 1) = s.id
            BY <1>1, <5>4, ShortReads, Zenon
          <5> QED BY <4>1, <5>5
        <4>2. CASE ~(s.qos > 0)
          BY <1>1, <4>2
        <4> QED BY <4>1, <4>2
      <3>5. path = EnterDrain(d, left, SubSeq(live, h + 3, topicEnd), s.qos,
                              IF s.qos > 0 THEN ShortAt(live, topicEnd + 1) ELSE 0, length)
        BY <1>19, <1>21, <2>7
      <3>6. path = EnterDrain(d, left, s.topic, s.qos, s.id, length)
        BY <3>3, <3>4, <3>5, Zenon
      <3>7. path = <<DiscardOf(s, left), NoPacket>>
        <4>1. /\ Arrives(s).topic = s.topic /\ Arrives(s).qos = s.qos
              /\ Arrives(s).id = s.id /\ Arrives(s).length = length
          BY <3>1 DEF Oversized
        <4>2. left \in Int /\ left > 0
          BY <1>17
        <4>3. EnterDrain(d, left, s.topic, s.qos, s.id, length) =
                <<[data |-> <<>>, offset |-> 0,
                   drain |-> [on |-> TRUE, left |-> left, topic |-> s.topic, qos |-> s.qos, id |-> s.id,
                              length |-> length]], NoPacket>>
          <5> DEFINE topic == s.topic
                     qos == s.qos
                     id == s.id
          <5> HIDE DEF topic, qos, id
          <5>1. EnterDrain(d, left, topic, qos, id, length) =
                  <<[data |-> <<>>, offset |-> 0,
                     drain |-> [on |-> TRUE, left |-> left, topic |-> topic, qos |-> qos, id |-> id,
                                length |-> length]], NoPacket>>
            BY <4>2, DrainBegins
          <5> QED BY <5>1, Zenon DEF topic, qos, id
        <4> QED BY <3>6, <4>1, <4>3, Zenon DEF DiscardOf
      <3> QED BY <3>7
    <2> QED BY <2>5, <2>6, <2>7
  <1> QED BY <1>20, <1>21

-----------------------------------------------------------------------------
(* read_next() at the head of what was sent                                 *)

\* read_next() on fewer than two bytes.
LEMMA FewBytes ==
  ASSUME NEW d, ~d.drain.on, Len(Live(d)) < 2
  PROVE  ReadNext(d) = <<d, NoPacket>>
  <1> DEFINE live == Live(d)
             varlen == DecodeVarlen(Tail(live))
             header == 1 + varlen[2]
             total == header + varlen[1]
             Go == IF varlen = Malformed THEN <<d, BadPacket>>
                   ELSE IF varlen[2] = 0 THEN <<d, NoPacket>>
                   ELSE IF total > BufferSize THEN EnterDrainPath(d, live, varlen[1], header)
                   ELSE IF Len(live) < total THEN <<MakeRoom(d), NoPacket>>
                   ELSE LET packet == ParsePacket(live[1], SubSeq(live, header + 1, total))
                        IN  <<IF packet = BadPacket THEN d ELSE Consume(d, total), packet>>
  <1>1. ReadNext(d) = CASE d.drain.on -> FinishOversized(d)
                        [] ~d.drain.on /\ Len(live) < 2 -> <<d, NoPacket>>
                        [] OTHER -> Go
    BY Zenon DEF ReadNext, Live
  <1> HIDE DEF Go
  <1> QED BY <1>1

\* read_next() in a length without end.
LEMMA EndlessReads ==
  ASSUME NEW d, ~d.drain.on, NEW live \in Seq(Int), live = Live(d), Len(live) >= 2,
         \A k \in 2..5 : k <= Len(live) => live[k] >= VarBase
  PROVE  ReadNext(d) = <<d, IF Len(live) >= 5 THEN BadPacket ELSE NoPacket>>
  <1> DEFINE varlen == DecodeVarlen(Tail(live))
             Take(first, value, header) ==
                IF header + value > BufferSize THEN EnterDrainPath(d, live, value, header)
                ELSE IF Len(live) < header + value THEN <<MakeRoom(d), NoPacket>>
                ELSE LET p == ParsePacket(first, SubSeq(live, header + 1, header + value))
                     IN  <<IF p = BadPacket THEN d ELSE Consume(d, header + value), p>>
             Go == IF varlen = Malformed THEN <<d, BadPacket>>
                   ELSE IF varlen[2] = 0 THEN <<d, NoPacket>>
                   ELSE Take(live[1], varlen[1], 1 + varlen[2])
             t == Tail(live)
  <1>1. ReadNext(d) = CASE d.drain.on -> FinishOversized(d)
                        [] ~d.drain.on /\ Len(live) < 2 -> <<d, NoPacket>>
                        [] OTHER -> Go
    BY Zenon DEF ReadNext, Live
  <1>2. Len(live) \in Nat
    OBVIOUS
  <1>3. ReadNext(d) = Go
    <2> HIDE DEF Go
    <2> QED BY <1>1, <1>2
  <1>4. t \in Seq(Int) /\ Len(t) = Len(live) - 1 /\ \A k \in 1..Len(t) : t[k] = live[k + 1]
    OBVIOUS
  <1>5. \A k \in 1..4 : k <= Len(t) => t[k] >= VarBase
    <2> SUFFICES ASSUME NEW k \in 1..4, k <= Len(t) PROVE t[k] >= VarBase
      OBVIOUS
    <2> HIDE DEF t
    <2>1. k + 1 \in 2..5 /\ k + 1 <= Len(live) /\ k \in 1..Len(t)
      BY <1>2, <1>4
    <2> QED BY <1>4, <2>1
  <1>6. varlen = IF Len(t) >= 4 THEN Malformed ELSE <<0, 0>>
    <2> HIDE DEF t
    <2>1. DecodeVarlen(t) = IF Len(t) >= 4 THEN Malformed ELSE <<0, 0>>
      BY <1>4, <1>5, EndlessDecodes
    <2> QED BY <2>1 DEF t
  <1>7. Malformed = <<0, -1>>
    BY DEF Malformed
  <1> HIDE DEF varlen, Take, t
  <1>8. CASE Len(live) >= 5
    <2>1. varlen = Malformed
      BY <1>2, <1>4, <1>6, <1>8
    <2>2. Go = <<d, BadPacket>>
      BY <2>1
    <2> HIDE DEF Go
    <2> QED BY <1>3, <1>8, <2>2
  <1>9. CASE ~(Len(live) >= 5)
    <2>1. varlen = <<0, 0>>
      BY <1>2, <1>4, <1>6, <1>9
    <2>2. varlen # Malformed /\ varlen[2] = 0
      BY <1>7, <2>1
    <2>3. Go = <<d, NoPacket>>
      BY <2>2, Zenon
    <2> HIDE DEF Go
    <2> QED BY <1>3, <1>9, <2>3
  <1> QED BY <1>8, <1>9

\* Of what is sent, a packet has two to five bytes before its body.
LEMMA SentSize ==
  ASSUME NEW s, Sendable(s)
  PROVE  /\ Encode(s) \in Seq(Int)
         /\ IsPacket(s) => /\ HeaderOf(BodyOf(s)) \in 2..5
                           /\ Len(Encode(s)) = HeaderOf(BodyOf(s)) + Len(BodyOf(s))
                           /\ Len(BodyOf(s)) \in Nat
         /\ ~IsPacket(s) => /\ s.is = "endless" /\ Arrives(s) = BadPacket
                            /\ Len(Encode(s)) >= 5 /\ \A k \in 2..5 : Encode(s)[k] >= VarBase
  <1>1. CASE IsPacket(s)
    <2> DEFINE e == Encode(s)
               byte == ByteOf(s)
               body == BodyOf(s)
    <2>1. e = Packet(byte, body) /\ byte \in Int /\ body \in Seq(Int) /\ FitsVarlen(Len(body))
      BY <1>1, SentShape
    <2> HIDE DEF e, byte, body
    <2>2. /\ Packet(byte, body) \in Seq(Int)
          /\ Len(Packet(byte, body)) = HeaderOf(body) + Len(body) /\ HeaderOf(body) \in 2..5
      BY <2>1, PacketShape
    <2>3. Len(body) \in Nat
      BY <2>1
    <2>4. e \in Seq(Int) /\ Len(e) = HeaderOf(body) + Len(body)
      BY <2>1, <2>2
    <2> QED BY <1>1, <2>2, <2>3, <2>4, Zenon DEF e, body
  <1>2. CASE ~IsPacket(s)
    <2>1. s.is = "endless" /\ SendableEndless(s)
      BY <1>2, SendableKinds, Zenon DEF IsPacket
    <2>2. Encode(s) = s.bytes
      BY <2>1 DEF Encode
    <2>3. Arrives(s) = BadPacket
      BY <2>1, ArrivesCases
    <2> QED BY <1>2, <2>1, <2>2, <2>3, Zenon DEF SendableEndless
  <1> QED BY <1>1, <1>2

\* What read_next() makes of a buffer that begins as a packet does.
Waits(d, s, live) ==
    /\ ReadNext(d) = <<d, NoPacket>> \/ (ReadNext(d) = <<MakeRoom(d), NoPacket>> /\ Len(Encode(s)) <= BufferSize)
    /\ Len(live) < Len(Encode(s))
    /\ ReadNext(d) = <<MakeRoom(d), NoPacket>> \/ Len(live) <= 4 \/ Len(Encode(s)) > BufferSize
Takes(d, s, live) ==
    /\ ReadNext(d) = <<Consume(d, Len(Encode(s))), Arrives(s)>>
    /\ Len(Encode(s)) <= Len(live) /\ Arrives(s) # BadPacket /\ Arrives(s).is \in {"publish", "ack"}
Refuses(d, s) == ReadNext(d) = <<d, BadPacket>> /\ Arrives(s) = BadPacket
Drains(d, s, live) ==
    /\ ReadNext(d) = <<DiscardOf(s, Len(Encode(s)) - Len(live)), NoPacket>>
    /\ s.is = "publish" /\ Len(Encode(s)) > BufferSize

\* read_next() on a buffer that begins as something that was sent does: it waits
\* for more, takes the packet, refuses it or begins to throw it away.
LEMMA Reads ==
  ASSUME NEW s, Sendable(s), NEW d, ~d.drain.on, NEW live \in Seq(Int), live = Live(d),
         Agree(live, Encode(s)), Len(live) <= BufferSize
  PROVE  Waits(d, s, live) \/ Takes(d, s, live) \/ Refuses(d, s) \/ Drains(d, s, live)
  <1> DEFINE e == Encode(s)
             body == BodyOf(s)
             h == HeaderOf(body)
             size == Len(live)
             total == Len(e)
  <1>1. Len(live) \in Nat /\ BufferSize \in Nat
    BY DecoderAssumption
  <1>2. CASE ~IsPacket(s)
    <2>1. /\ e \in Seq(Int) /\ Arrives(s) = BadPacket
          /\ Len(e) >= 5 /\ \A k \in 2..5 : e[k] >= VarBase
      BY <1>2, SentSize
    <2>2. \A k \in 2..5 : k <= Len(live) => live[k] >= VarBase
      <3> SUFFICES ASSUME NEW k \in 2..5, k <= Len(live) PROVE live[k] >= VarBase
        OBVIOUS
      <3> HIDE DEF e
      <3>1. k \in 1..Len(e)
        <4>1. Len(e) \in Nat
          BY <2>1
        <4> QED BY <2>1, <4>1
      <3>2. live[k] = e[k]
        BY <3>1 DEF Agree, e
      <3> QED BY <2>1, <3>2
    <2> HIDE DEF e
    <2>3. Len(e) \in Nat
      BY <2>1
    <2>4. CASE size < 2
      <3>1. ReadNext(d) = <<d, NoPacket>>
        BY <2>4, FewBytes
      <3>2. size < Len(e) /\ size <= 4
        BY <1>1, <2>1, <2>3, <2>4
      <3> QED BY <3>1, <3>2 DEF Waits, e
    <2>5. CASE ~(size < 2)
      <3>1. ReadNext(d) = <<d, IF Len(live) >= 5 THEN BadPacket ELSE NoPacket>>
        BY <1>1, <2>2, <2>5, EndlessReads
      <3>2. CASE size >= 5
        BY <2>1, <3>1, <3>2 DEF Refuses
      <3>3. CASE ~(size >= 5)
        <4>1. size < Len(e) /\ size <= 4
          BY <1>1, <2>1, <2>3, <3>3
        <4>2. ReadNext(d) = <<d, NoPacket>>
          BY <3>1, <3>3
        <4> QED BY <4>1, <4>2 DEF Waits, e
      <3> QED BY <3>2, <3>3
    <2> QED BY <2>4, <2>5
  <1>3. CASE IsPacket(s)
    <2>1. /\ e = Packet(ByteOf(s), body)
          /\ ByteOf(s) \in Int /\ body \in Seq(Int) /\ FitsVarlen(Len(body))
      BY <1>3, SentShape
    <2>2. h \in 2..5 /\ total = h + Len(body) /\ Len(body) \in Nat
      BY <1>3, SentSize
    <2> DEFINE byte == ByteOf(s)
               packet == ParsePacket(byte, body)
    <2>3. /\ Len(live) < h => ReadNext(d) = <<d, NoPacket>>
          /\ Len(live) >= h /\ h + Len(body) > BufferSize =>
                ReadNext(d) = EnterDrainPath(d, live, Len(body), h)
          /\ Len(live) >= h /\ h + Len(body) <= BufferSize /\ Len(live) < h + Len(body) =>
                ReadNext(d) = <<MakeRoom(d), NoPacket>>
          /\ h + Len(body) <= BufferSize /\ Len(live) >= h + Len(body) =>
                ReadNext(d) = <<IF packet = BadPacket THEN d ELSE Consume(d, h + Len(body)), packet>>
      <3>1. Agree(live, Packet(byte, body))
        BY <2>1
      <3> HIDE DEF byte, body
      <3>2. byte \in Int /\ body \in Seq(Int) /\ FitsVarlen(Len(body))
        BY <2>1 DEF byte
      <3> QED BY <3>1, <3>2, PacketReads
    <2>4. /\ size < h => ReadNext(d) = <<d, NoPacket>>
          /\ size >= h /\ total > BufferSize => ReadNext(d) = EnterDrainPath(d, live, Len(body), h)
          /\ size >= h /\ total <= BufferSize /\ size < total => ReadNext(d) = <<MakeRoom(d), NoPacket>>
          /\ total <= BufferSize /\ size >= total =>
                ReadNext(d) = <<IF packet = BadPacket THEN d ELSE Consume(d, total), packet>>
      <3> HIDE DEF total, h, packet, body
      <3> QED BY <2>2, <2>3
    <2>5. total \in Nat /\ size \in Nat /\ h \in Nat
      <3> HIDE DEF h, body, total
      <3> QED BY <1>1, <2>2
    <2>6. CASE size < h
      <3>1. size < total /\ size <= 4
        <4> HIDE DEF h, body, total, size
        <4> QED BY <2>2, <2>5, <2>6
      <3> QED BY <2>4, <2>6, <3>1 DEF Waits
    <2>7. CASE size >= h /\ total > BufferSize /\ s.is = "publish"
      <3>1. ReadNext(d) = EnterDrainPath(d, live, Len(body), h)
        BY <2>4, <2>7
      <3>2. ~(total <= BufferSize)
        <4> HIDE DEF total
        <4> QED BY <1>1, <2>5, <2>7
      <3>3. \/ ReadNext(d) = <<d, NoPacket>>
            \/ ReadNext(d) = <<DiscardOf(s, total - size), NoPacket>>
        BY <2>7, <3>1, <3>2, Discards
      <3>4. size < total
        <4> HIDE DEF total, size
        <4>1. size <= BufferSize
          BY DEF size
        <4> QED BY <1>1, <2>5, <2>7, <4>1
      <3> QED BY <2>7, <3>3, <3>4 DEF Waits, Drains
    <2>8. CASE size >= h /\ total > BufferSize /\ s.is # "publish"
      <3>1. ReadNext(d) = EnterDrainPath(d, live, Len(body), h)
        BY <2>4, <2>8
      <3>2. ~(total <= BufferSize)
        <4> HIDE DEF total
        <4> QED BY <1>1, <2>5, <2>8
      <3>3. TypeOf(ByteOf(s)) # PublishType /\ Arrives(s) = BadPacket
        BY <1>3, <2>8, <3>2, Refused
      <3>4. live[1] = ByteOf(s)
        <4>1. 1 \in 1..Len(e) /\ 1 <= Len(live)
          <5> HIDE DEF e, h
          <5> QED BY <1>1, <2>2, <2>5, <2>8
        <4>2. live[1] = e[1]
          BY <4>1 DEF Agree
        <4>3. e[1] = byte
          <5> HIDE DEF byte, body
          <5>1. Packet(byte, body)[1] = byte
            BY <2>1, PacketShape DEF byte
          <5> QED BY <2>1, <5>1 DEF byte
        <4> QED BY <4>2, <4>3
      <3>5. EnterDrainPath(d, live, Len(body), h) = <<d, BadPacket>>
        <4> DEFINE first == live[1]
                   length == Len(body)
                   t == h + length
                   n == ShortAt(live, h + 1)
                   qos == QosOf(first)
                   prelude == h + 2 + n + (IF qos > 0 THEN 2 ELSE 0)
                   topicEnd == h + 2 + n
                   Else == IF prelude > BufferSize
                           THEN EnterDrain(d, t - Len(live), TopicLost, qos, 0, length)
                           ELSE IF Len(live) < prelude THEN <<d, NoPacket>>
                           ELSE EnterDrain(d, t - Len(live), SubSeq(live, h + 3, topicEnd), qos,
                                           IF qos > 0 THEN ShortAt(live, topicEnd + 1) ELSE 0, length)
        <4>1. EnterDrainPath(d, live, length, h) =
                CASE TypeOf(first) # PublishType -> <<d, BadPacket>>
                  [] TypeOf(first) = PublishType /\ Len(live) < h + 2 -> <<d, NoPacket>>
                  [] OTHER -> Else
          BY Zenon DEF EnterDrainPath
        <4>2. TypeOf(first) # PublishType
          BY <3>3, <3>4
        <4> HIDE DEF Else, first, h, body
        <4> QED BY <4>1, <4>2
      <3> QED BY <3>1, <3>3, <3>5 DEF Refuses
    <2>9. CASE size >= h /\ total <= BufferSize /\ size < total
      BY <2>4, <2>9 DEF Waits
    <2>10. CASE total <= BufferSize /\ size >= total
      <3>1. /\ packet = Arrives(s)
            /\ Arrives(s) = BadPacket \/ (Arrives(s) # BadPacket /\ Arrives(s).is \in {"publish", "ack"})
        BY <1>3, <2>10, Parses
      <3>2. ReadNext(d) = <<IF packet = BadPacket THEN d ELSE Consume(d, total), packet>>
        BY <2>4, <2>10
      <3>3. CASE Arrives(s) = BadPacket
        <4> HIDE DEF packet
        <4>1. ReadNext(d) = <<d, BadPacket>>
          BY <3>1, <3>2, <3>3
        <4> QED BY <3>3, <4>1 DEF Refuses
      <3>4. CASE Arrives(s) # BadPacket
        <4> HIDE DEF packet
        <4>1. ReadNext(d) = <<Consume(d, total), Arrives(s)>>
          BY <3>1, <3>2, <3>4
        <4>2. total <= size
          <5> HIDE DEF total, size
          <5> QED BY <2>5, <2>10
        <4> QED BY <3>1, <3>4, <4>1, <4>2 DEF Takes
      <3> QED BY <3>3, <3>4
    <2> HIDE DEF h, size, total
    <2> QED BY <1>1, <2>5, <2>6, <2>7, <2>8, <2>9, <2>10
  <1> QED BY <1>2, <1>3

-----------------------------------------------------------------------------
(* The buffer                                                               *)

\* The loop of topic_matches finds the filters the standard says match.
LEMMA ReceivedAsSent ==
  ASSUME NEW packet, packet.is = "publish" => packet.topic \in Seq(Int)
  PROVE  Received(packet) = AsSent(packet)
  <1>1. CASE packet.is = "publish"
    <2> DEFINE topic == packet.topic
               levels == Levels(topic)
    <2>1. topic \in Seq(Int)
      BY <1>1
    <2> HIDE DEF topic
    <2>2. Len(levels) \in Nat
      BY <2>1, LevelsCount
    <2> HIDE DEF levels
    <2>3. \A f \in Filters : MatchFrom(levels, f)[1] <=> Matching(levels, f)
      <3> TAKE f \in Filters
      <3>1. f \in Seq(Seq(Int))
        BY DecoderAssumption
      <3> QED BY <2>2, <3>1, LoopMatches
    <2>4. \A f \in Filters : TopicMatches(topic, f) <=> Matching(levels, f)
      BY <2>3 DEF TopicMatches, levels
    <2>5. Routes(topic) = {f \in Filters : Matching(Levels(topic), f)}
      BY <2>4 DEF Routes, levels
    <2>6. Routes(packet.topic) = {f \in Filters : Matching(Levels(packet.topic), f)}
      BY <2>5 DEF topic
    <2> QED BY <1>1, <2>6 DEF Received, AsSent
  <1>2. CASE packet.is # "publish"
    BY <1>2 DEF Received, AsSent
  <1> QED BY <1>1, <1>2

\* Part of a sequence.
LEMMA Part ==
  ASSUME NEW s \in Seq(Int), NEW m \in Nat, NEW n \in Nat, m <= n, n <= Len(s)
  PROVE  /\ SubSeq(s, m + 1, n) \in Seq(Int) /\ Len(SubSeq(s, m + 1, n)) = n - m
         /\ \A k \in 1..(n - m) : SubSeq(s, m + 1, n)[k] = s[m + k]
  OBVIOUS

\* A buffer that is not drained.
Held(d) ==
    /\ d = [data |-> d.data, offset |-> d.offset, drain |-> NoDrain]
    /\ d.data \in Seq(Int) /\ Len(d.data) <= BufferSize
    /\ d.offset \in Nat /\ 2 * d.offset < BufferSize
    /\ d.offset <= Len(d.data)

\* What is not consumed yet of a buffer.
LEMMA HeldLive ==
  ASSUME NEW d, Held(d)
  PROVE  /\ ~d.drain.on /\ Live(d) \in Seq(Int) /\ Len(Live(d)) = Len(d.data) - d.offset
         /\ Len(d.data) \in Nat /\ Len(Live(d)) <= BufferSize /\ BufferSize \in Nat \ {0}
  <1>0. d = [data |-> d.data, offset |-> d.offset, drain |-> NoDrain]
    BY DEF Held
  <1>1. d.drain = NoDrain
    BY <1>0
  <1>2. ~d.drain.on
    BY <1>1 DEF NoDrain
  <1> DEFINE data == d.data
             o == d.offset
  <1>3. data \in Seq(Int) /\ o \in Nat /\ o <= Len(data) /\ Len(data) <= BufferSize /\ BufferSize \in Nat \ {0}
    BY DecoderAssumption DEF Held
  <1> HIDE DEF data, o
  <1>4. SubSeq(data, o + 1, Len(data)) \in Seq(Int) /\ Len(SubSeq(data, o + 1, Len(data))) = Len(data) - o
    BY <1>3
  <1>5. Live(d) = SubSeq(data, o + 1, Len(data))
    BY DEF Live, data, o
  <1>6. Len(Live(d)) <= BufferSize
    BY <1>3, <1>4, <1>5
  <1>7. Len(data) \in Nat
    BY <1>3
  <1> QED BY <1>2, <1>3, <1>4, <1>5, <1>6, <1>7, Zenon DEF data, o

\* A record of what is held.
LEMMA HeldRecord ==
  ASSUME NEW data \in Seq(Int), Len(data) <= BufferSize, NEW o \in Nat, 2 * o < BufferSize, o <= Len(data)
  PROVE  LET d == [data |-> data, offset |-> o, drain |-> NoDrain]
         IN  Held(d) /\ Live(d) = SubSeq(data, o + 1, Len(data)) /\ d.data = data /\ d.offset = o
  <1> DEFINE d == [data |-> data, offset |-> o, drain |-> NoDrain]
  <1>1. d.data = data /\ d.offset = o /\ d.drain = NoDrain
    OBVIOUS
  <1> SUFFICES Held(d) /\ Live(d) = SubSeq(data, o + 1, Len(data)) /\ d.data = data /\ d.offset = o
    OBVIOUS
  <1>2. d = [data |-> d.data, offset |-> d.offset, drain |-> NoDrain]
    BY <1>1
  <1> HIDE DEF d
  <1>3. Held(d)
    BY <1>1, <1>2 DEF Held
  <1> QED BY <1>1, <1>3 DEF Live

\* _compact() moves what is there to the front.
LEMMA Compacts ==
  ASSUME NEW data \in Seq(Int), Len(data) <= BufferSize, NEW o \in Nat, o <= Len(data)
  PROVE  LET d == [data |-> data, offset |-> o, drain |-> NoDrain]
         IN  /\ Held(Compact(d)) /\ Live(Compact(d)) = SubSeq(data, o + 1, Len(data))
             /\ Len(Compact(d).data) = Len(data) - o
  <1> DEFINE d == [data |-> data, offset |-> o, drain |-> NoDrain]
             part == SubSeq(data, o + 1, Len(data))
             c == [data |-> part, offset |-> 0, drain |-> NoDrain]
  <1>1. Compact(d) = c
    <2>1. d.data = data /\ d.offset = o
      OBVIOUS
    <2>2. Compact(d) = [d EXCEPT !.data = part, !.offset = 0]
      BY <2>1 DEF Compact
    <2> HIDE DEF part
    <2>3. [d EXCEPT !.data = part] = [data |-> part, offset |-> o, drain |-> NoDrain]
      OBVIOUS
    <2>4. [d EXCEPT !.data = part, !.offset = 0] = [[d EXCEPT !.data = part] EXCEPT !.offset = 0]
      BY Zenon
    <2>5. [[data |-> part, offset |-> o, drain |-> NoDrain] EXCEPT !.offset = 0] = c
      OBVIOUS
    <2> HIDE DEF c, d
    <2> QED BY <2>2, <2>3, <2>4, <2>5
  <1>2. part \in Seq(Int) /\ Len(part) = Len(data) - o /\ Len(data) \in Nat
    OBVIOUS
  <1> HIDE DEF part
  <1>3. Len(part) <= BufferSize /\ 2 * 0 < BufferSize /\ 0 <= Len(part) /\ 0 \in Nat
    BY <1>2, DecoderAssumption
  <1>4. Held(c) /\ Live(c) = SubSeq(part, 0 + 1, Len(part)) /\ c.data = part
    BY <1>2, <1>3, HeldRecord
  <1>5. SubSeq(part, 0 + 1, Len(part)) = part
    BY <1>2
  <1> HIDE DEF c, d
  <1>6. Held(Compact(d)) /\ Live(Compact(d)) = part /\ Len(Compact(d).data) = Len(data) - o
    BY <1>1, <1>2, <1>4, <1>5
  <1> QED BY <1>6 DEF part, d

\* consume() leaves what follows.
LEMMA Consumes ==
  ASSUME NEW d, Held(d), NEW n \in Nat, n <= Len(Live(d))
  PROVE  Held(Consume(d, n)) /\ Live(Consume(d, n)) = SubSeq(Live(d), n + 1, Len(Live(d)))
  <1> DEFINE data == d.data
             o == d.offset
             e == [data |-> data, offset |-> o + n, drain |-> NoDrain]
  <1>1. /\ d = [data |-> data, offset |-> o, drain |-> NoDrain]
        /\ data \in Seq(Int) /\ o \in Nat /\ o <= Len(data) /\ Len(data) <= BufferSize
    BY DEF Held
  <1>2. BufferSize \in Nat \ {0} /\ Len(Live(d)) = Len(data) - o
    BY HeldLive
  <1> HIDE DEF data, o
  <1>3. [d EXCEPT !.offset = @ + n] = e
    BY <1>1
  <1>4. o + n \in Nat /\ o + n <= Len(data) /\ Len(data) \in Nat
    BY <1>1, <1>2
  <1>5. Consume(d, n) = IF (o + n) * 2 >= BufferSize THEN Compact(e) ELSE e
    <2>1. e.offset = o + n
      OBVIOUS
    <2> HIDE DEF e
    <2> QED BY <1>3, <2>1 DEF Consume
  <1>6. SubSeq(data, (o + n) + 1, Len(data)) = SubSeq(Live(d), n + 1, Len(Live(d)))
    <2>1. Live(d) = SubSeq(data, o + 1, Len(data))
      BY DEF Live, data, o
    <2>2. SubSeq(SubSeq(data, o + 1, Len(data)), n + 1, Len(data) - o)
            = SubSeq(data, (o + n) + 1, Len(data))
      <3> DEFINE size == Len(data)
                 live == SubSeq(data, o + 1, size)
                 a == SubSeq(live, n + 1, size - o)
                 b == SubSeq(data, (o + n) + 1, size)
                 rest == size - (o + n)
      <3>1. size \in Nat /\ o \in Nat /\ n \in Nat /\ o + n <= size /\ o <= size
        BY <1>1, <1>4
      <3>2. live \in Seq(Int) /\ Len(live) = size - o /\ \A k \in 1..(size - o) : live[k] = data[o + k]
        BY <1>1, <3>1, Part
      <3> HIDE DEF live, size
      <3>3. size - o \in Nat /\ n <= size - o /\ rest \in Nat /\ (size - o) - n = rest
        BY <3>1
      <3>4. a \in Seq(Int) /\ Len(a) = (size - o) - n /\ \A k \in 1..((size - o) - n) : a[k] = live[n + k]
        <4> DEFINE q == size - o
        <4>1. q \in Nat /\ n <= q /\ q <= Len(live)
          BY <3>2, <3>3
        <4> HIDE DEF q
        <4>2. /\ SubSeq(live, n + 1, q) \in Seq(Int) /\ Len(SubSeq(live, n + 1, q)) = q - n
              /\ \A k \in 1..(q - n) : SubSeq(live, n + 1, q)[k] = live[n + k]
          BY <3>1, <3>2, <4>1, Part
        <4> QED BY <4>2 DEF q
      <3>5. b \in Seq(Int) /\ Len(b) = rest /\ \A k \in 1..rest : b[k] = data[(o + n) + k]
        <4>1. o + n \in Nat /\ size <= Len(data)
          BY <3>1 DEF size
        <4> QED BY <1>1, <3>1, <4>1, Part
      <3> HIDE DEF a, b, rest
      <3>6. \A k \in 1..rest : a[k] = b[k]
        <4> SUFFICES ASSUME NEW k \in 1..rest PROVE a[k] = b[k]
          OBVIOUS
        <4>1. k \in 1..((size - o) - n) /\ n + k \in 1..(size - o) /\ o + (n + k) = (o + n) + k
          BY <3>1, <3>3 DEF rest
        <4>2. a[k] = live[n + k] /\ live[n + k] = data[o + (n + k)]
          BY <3>2, <3>4, <4>1
        <4> QED BY <3>5, <4>1, <4>2
      <3>7. Len(a) = Len(b) /\ Len(b) = rest
        BY <3>3, <3>4, <3>5
      <3>8. a = b
        BY <3>4, <3>5, <3>6, <3>7, SeqEqual
      <3> QED BY <3>8 DEF a, b, live, size
    <2> QED BY <1>2, <2>1, <2>2
  <1>7. CASE (o + n) * 2 >= BufferSize
    <2>1. Held(Compact(e)) /\ Live(Compact(e)) = SubSeq(data, (o + n) + 1, Len(data))
      BY <1>1, <1>4, Compacts
    <2> HIDE DEF e
    <2> QED BY <1>5, <1>6, <1>7, <2>1
  <1>8. CASE ~((o + n) * 2 >= BufferSize)
    <2>1. 2 * (o + n) < BufferSize
      BY <1>2, <1>4, <1>8
    <2>2. Held(e) /\ Live(e) = SubSeq(data, (o + n) + 1, Len(data))
      BY <1>1, <1>4, <2>1, HeldRecord
    <2> HIDE DEF e
    <2> QED BY <1>5, <1>6, <1>8, <2>2
  <1> QED BY <1>7, <1>8

\* A full buffer is compacted, and what is there is kept.
LEMMA MakesRoom ==
  ASSUME NEW d, Held(d)
  PROVE  /\ Held(MakeRoom(d)) /\ Live(MakeRoom(d)) = Live(d)
         /\ Len(Live(d)) < BufferSize => Len(MakeRoom(d).data) # BufferSize
  <1> DEFINE data == d.data
             o == d.offset
  <1>1. /\ d = [data |-> data, offset |-> o, drain |-> NoDrain]
        /\ data \in Seq(Int) /\ o \in Nat /\ o <= Len(data) /\ Len(data) <= BufferSize
    BY DEF Held
  <1>2. BufferSize \in Nat \ {0} /\ Len(Live(d)) = Len(data) - o /\ Len(data) \in Nat
    BY HeldLive
  <1>3. Live(d) = SubSeq(data, o + 1, Len(data))
    BY DEF Live
  <1>4. CASE Len(data) = BufferSize /\ o > 0
    <2>1. MakeRoom(d) = Compact(d)
      BY <1>4 DEF MakeRoom
    <2> HIDE DEF data, o
    <2>2. Held(Compact(d)) /\ Live(Compact(d)) = Live(d) /\ Len(Compact(d).data) = Len(data) - o
      <3> DEFINE e == [data |-> data, offset |-> o, drain |-> NoDrain]
      <3>1. Held(Compact(e)) /\ Live(Compact(e)) = SubSeq(data, o + 1, Len(data)) /\ Len(Compact(e).data) = Len(data) - o
        BY <1>1, Compacts
      <3>2. d = e
        BY <1>1
      <3> HIDE DEF e
      <3> QED BY <1>3, <3>1, <3>2
    <2>3. Len(data) - o # BufferSize
      BY <1>1, <1>2, <1>4
    <2> QED BY <2>1, <2>2, <2>3
  <1>5. CASE ~(Len(data) = BufferSize /\ o > 0)
    <2>1. MakeRoom(d) = d
      BY <1>5 DEF MakeRoom
    <2>2. Len(Live(d)) < BufferSize => Len(data) # BufferSize
      <3> HIDE DEF data, o
      <3> QED BY <1>1, <1>2, <1>5
    <2> QED BY <2>1, <2>2
  <1> QED BY <1>4, <1>5

\* advance() appends.
LEMMA Advances ==
  ASSUME NEW d, Held(d), NEW bytes \in Seq(Int), Len(bytes) <= BufferSize - Len(d.data)
  PROVE  Held(Advance(d, bytes)) /\ Live(Advance(d, bytes)) = Live(d) \o bytes
  <1> DEFINE data == d.data
             o == d.offset
             e == [data |-> data \o bytes, offset |-> o, drain |-> NoDrain]
  <1>1. /\ d = [data |-> data, offset |-> o, drain |-> NoDrain] /\ d.drain = NoDrain
        /\ data \in Seq(Int) /\ o \in Nat /\ o <= Len(data) /\ 2 * o < BufferSize
    BY DEF Held
  <1>2. ~d.drain.on /\ BufferSize \in Nat \ {0} /\ Live(d) \in Seq(Int) /\ Len(Live(d)) = Len(data) - o
    BY HeldLive
  <1>3. Live(d) = SubSeq(data, o + 1, Len(data))
    BY DEF Live
  <1>4. Len(bytes) <= BufferSize - Len(data)
    OBVIOUS
  <1> HIDE DEF data, o
  <1>5. Advance(d, bytes) = e
    <2>1. CASE bytes = <<>>
      <3>1. data \o bytes = data
        BY <1>1, <2>1
      <3>2. Advance(d, bytes) = d
        BY <2>1 DEF Advance
      <3> QED BY <1>1, <3>1, <3>2
    <2>2. CASE bytes # <<>>
      <3>1. Advance(d, bytes) = [d EXCEPT !.data = @ \o bytes]
        BY <1>2, <2>2 DEF Advance
      <3> DEFINE joined == data \o bytes
      <3>2. d.data = data
        BY DEF data
      <3>3. [d EXCEPT !.data = @ \o bytes] = [d EXCEPT !.data = joined]
        BY <3>2
      <3> HIDE DEF joined
      <3>4. [d EXCEPT !.data = joined] = [data |-> joined, offset |-> o, drain |-> NoDrain]
        BY <1>1
      <3> QED BY <3>1, <3>3, <3>4 DEF joined
    <2> QED BY <2>1, <2>2
  <1>6. data \o bytes \in Seq(Int) /\ Len(data \o bytes) = Len(data) + Len(bytes) /\ Len(bytes) \in Nat /\ Len(data) \in Nat
    BY <1>1
  <1>7. Held(e) /\ Live(e) = SubSeq(data \o bytes, o + 1, Len(data \o bytes))
    <2> DEFINE joined == data \o bytes
    <2>1. joined \in Seq(Int) /\ Len(joined) = Len(data) + Len(bytes)
      BY <1>6
    <2> HIDE DEF joined
    <2>2. Len(joined) <= BufferSize /\ o <= Len(joined)
      BY <1>1, <1>2, <1>4, <1>6, <2>1
    <2> DEFINE r == [data |-> joined, offset |-> o, drain |-> NoDrain]
    <2>3. Held(r) /\ Live(r) = SubSeq(joined, o + 1, Len(joined))
      BY <1>1, <2>1, <2>2, HeldRecord
    <2>4. e = r
      BY DEF joined
    <2> HIDE DEF r, e
    <2> QED BY <2>3, <2>4 DEF joined
  <1>8. SubSeq(data \o bytes, o + 1, Len(data \o bytes)) = SubSeq(data, o + 1, Len(data)) \o bytes
    <2> DEFINE a == SubSeq(data \o bytes, o + 1, Len(data \o bytes))
               p == SubSeq(data, o + 1, Len(data))
               b == p \o bytes
               joined == data \o bytes
    <2> DEFINE n == Len(data)
               m == Len(bytes)
    <2>0. n \in Nat /\ m \in Nat /\ o \in Nat /\ o <= n
      BY <1>1, <1>6
    <2>1. p \in Seq(Int) /\ Len(p) = n - o /\ \A k \in 1..(n - o) : p[k] = data[o + k]
      <3> HIDE DEF p
      <3>1. n <= Len(data)
        BY <2>0
      <3> HIDE DEF n
      <3>2. SubSeq(data, o + 1, n) \in Seq(Int) /\ Len(SubSeq(data, o + 1, n)) = n - o
            /\ \A k \in 1..(n - o) : SubSeq(data, o + 1, n)[k] = data[o + k]
        BY <1>1, <2>0, <3>1, Part
      <3> QED BY <3>2 DEF p, n
    <2>2. /\ joined \in Seq(Int) /\ Len(joined) = n + m
          /\ \A k \in 1..n : joined[k] = data[k]
          /\ \A k \in 1..m : joined[n + k] = bytes[k]
      BY <1>1, Joined
    <2>4. /\ b \in Seq(Int) /\ Len(b) = Len(p) + m
          /\ \A k \in 1..Len(p) : b[k] = p[k]
          /\ \A k \in 1..m : b[Len(p) + k] = bytes[k]
      <3> HIDE DEF p
      <3> QED BY <2>1, Joined
    <2> HIDE DEF joined, b, p, n, m
    <2> DEFINE l == Len(joined)
               c == SubSeq(joined, o + 1, l)
    <2>3. c \in Seq(Int) /\ Len(c) = (n + m) - o /\ \A k \in 1..((n + m) - o) : c[k] = joined[o + k]
      <3>1. l = n + m /\ l \in Nat /\ o <= l /\ l <= Len(joined)
        BY <2>0, <2>2
      <3> HIDE DEF l
      <3> QED BY <2>0, <2>2, <3>1, Part
    <2> HIDE DEF c
    <2>6. \A k \in 1..((n + m) - o) : c[k] = b[k]
      <3> SUFFICES ASSUME NEW k \in 1..((n + m) - o) PROVE c[k] = b[k]
        OBVIOUS
      <3>1. CASE k <= n - o
        <4>1. k \in 1..(n - o) /\ o + k \in 1..n
          BY <2>0, <3>1
        <4> QED BY <2>1, <2>2, <2>3, <2>4, <4>1
      <3>2. CASE ~(k <= n - o)
        <4> DEFINE j == k - (n - o)
        <4>1. j \in 1..m /\ k = (n - o) + j /\ o + k = n + j
          BY <2>0, <3>2
        <4> HIDE DEF j
        <4>2. c[k] = joined[n + j] /\ joined[n + j] = bytes[j]
          BY <2>2, <2>3, <4>1
        <4>3. b[k] = bytes[j]
          BY <2>1, <2>4, <4>1
        <4> QED BY <4>2, <4>3
      <3> QED BY <3>1, <3>2
    <2>7. Len(c) = Len(b) /\ Len(c) = (n + m) - o
      BY <2>0, <2>1, <2>3, <2>4
    <2>8. c = b
      BY <2>3, <2>4, <2>6, <2>7, SeqEqual
    <2> QED BY <2>8 DEF b, c, l, p, joined
  <1> HIDE DEF e
  <1> QED BY <1>3, <1>5, <1>7, <1>8

-----------------------------------------------------------------------------
(* A feed and what of it is kept                                            *)

\* Where the packets of a feed lie.
LEMMA FeedShape ==
  ASSUME NEW f \in Feeds, NEW k \in 1..Len(f.ends)
  PROVE  /\ f.bytes \in Seq(Int) /\ f.ends \in Seq(Nat) /\ Len(f.ends) \in Nat
         /\ EndOf(f, k - 1) \in Nat /\ f.ends[k] \in Nat /\ EndOf(f, k) = f.ends[k]
         /\ EndOf(f, k - 1) < f.ends[k] /\ f.ends[k] <= Len(f.bytes)
         /\ Encode(f.sent[k]) = SubSeq(f.bytes, EndOf(f, k - 1) + 1, f.ends[k])
         /\ Len(Encode(f.sent[k])) = f.ends[k] - EndOf(f, k - 1)
         /\ Sendable(f.sent[k])
         /\ Arrives(f.sent[k]) = BadPacket => k = Len(f.ends)
  <1> DEFINE bytes == f.bytes
             ends == f.ends
             s == f.sent[k]
             begin == EndOf(f, k - 1)
             end == ends[k]
             e == Encode(s)
  <1>1. bytes \in Seq(Int) /\ ends \in Seq(Nat)
    BY FeedsAssumption
  <1>2. k \in DOMAIN ends /\ Len(ends) \in Nat /\ k \in Nat /\ k # 0
    BY <1>1
  <1>3. /\ begin <= end /\ end <= Len(bytes) /\ SubSeq(bytes, begin + 1, end) = e
        /\ Sendable(s) /\ (Arrives(s) = BadPacket => k = Len(ends))
    BY <1>2, FeedsAssumption, Zenon
  <1>4. EndOf(f, k) = end
    BY <1>2 DEF EndOf
  <1>5. end \in Nat
    BY <1>1
  <1>6. begin \in Nat
    <2>1. CASE k - 1 = 0
      BY <2>1 DEF EndOf
    <2>2. CASE k - 1 # 0
      <3>1. begin = ends[k - 1]
        BY <2>2 DEF EndOf
      <3>2. k - 1 \in 1..Len(ends)
        BY <1>2, <2>2
      <3> HIDE DEF ends, begin
      <3> QED BY <1>1, <3>1, <3>2
    <2> QED BY <2>1, <2>2
  <1>7. Len(e) = end - begin
    <2> HIDE DEF bytes, begin, end, e
    <2> QED BY <1>1, <1>3, <1>5, <1>6, Part
  <1>8. begin < end
    <2>1. /\ IsPacket(s) => /\ HeaderOf(BodyOf(s)) \in 2..5 /\ Len(e) = HeaderOf(BodyOf(s)) + Len(BodyOf(s))
                            /\ Len(BodyOf(s)) \in Nat
          /\ ~IsPacket(s) => Len(e) >= 5
      <3> HIDE DEF s
      <3> QED BY <1>3, SentSize DEF e
    <2> HIDE DEF e, begin, end
    <2> QED BY <1>5, <1>6, <1>7, <2>1
  <1> QED BY <1>1, <1>2, <1>3, <1>4, <1>5, <1>6, <1>7, <1>8, Zenon

\* What is received of a packet agrees with it.
LEMMA ReceivedAgrees ==
  ASSUME NEW bytes \in Seq(Int), NEW begin \in Nat, NEW end \in Nat, NEW got \in Nat,
         begin <= end, begin <= got, end <= Len(bytes), got <= Len(bytes)
  PROVE  Agree(SubSeq(bytes, begin + 1, got), SubSeq(bytes, begin + 1, end))
  <1> DEFINE live == SubSeq(bytes, begin + 1, got)
             e == SubSeq(bytes, begin + 1, end)
  <1>1. Len(live) = got - begin /\ \A k \in 1..(got - begin) : live[k] = bytes[begin + k]
    BY Part
  <1>2. Len(e) = end - begin /\ \A k \in 1..(end - begin) : e[k] = bytes[begin + k]
    BY Part
  <1> HIDE DEF live, e
  <1>3. Agree(live, e)
    <2> SUFFICES ASSUME NEW k \in 1..Len(e), k <= Len(live) PROVE live[k] = e[k]
      BY DEF Agree
    <2>1. k \in 1..(end - begin) /\ k \in 1..(got - begin)
      BY <1>1, <1>2
    <2> QED BY <1>1, <1>2, <2>1
  <1> QED BY <1>3 DEF live, e

\* The buffer holds what was received of feed f since its n-th packet ended,
HoldsFrom(f, n, got, d) ==
    /\ Held(d)
    /\ EndOf(f, n) <= got
    /\ Live(d) = SubSeq(f.bytes, EndOf(f, n) + 1, got)
\* or the rest of the packet after that is thrown away,
ThrowsAway(f, n, got, d) ==
    /\ n < Len(f.ends) /\ got <= f.ends[n + 1]
    /\ f.sent[n + 1].is = "publish" /\ Len(Encode(f.sent[n + 1])) > BufferSize
    /\ d = DiscardOf(f.sent[n + 1], f.ends[n + 1] - got)
Keeps(f, n, got, d) == HoldsFrom(f, n, got, d) \/ ThrowsAway(f, n, got, d)
\* and once no packet is left to return there is room for more.
HasRoom(f, n, got, d) ==
    /\ n < Len(f.ends) => got < f.ends[n + 1]
    /\ ~d.drain.on /\ Len(d.data) = BufferSize =>
          n < Len(f.ends) /\ EndOf(f, n + 1) - EndOf(f, n) > BufferSize
    /\ d.drain.on => d.data = <<>> /\ d.drain.left \in Nat /\ d.drain.left > 0

\* What a packet arrives as.
LEMMA ArrivesTyped ==
  ASSUME NEW s, Sendable(s)
  PROVE  /\ Arrives(s).is = "publish" => Arrives(s).topic \in Seq(Int)
         /\ s.is = "publish" /\ ~(Len(Encode(s)) <= BufferSize) =>
               /\ Arrives(s) = Oversized(Arrives(s).topic, Arrives(s).length, Arrives(s).qos, Arrives(s).id)
               /\ Arrives(s).is = "oversized"
  <1> DEFINE fits == Len(Encode(s)) <= BufferSize
             length == Prelude(Len(s.topic), s.qos) + Len(s.payload)
  <1>1. /\ s.is \in {"publish", "ack"} /\ fits => Arrives(s) = s
        /\ s.is = "publish" /\ ~fits =>
              Arrives(s) = IF Len(Encode(s)) - Len(s.payload) <= BufferSize
                           THEN Oversized(s.topic, length, s.qos, s.id)
                           ELSE Oversized(TopicLost, length, s.qos, 0)
        /\ s.is = "ack" /\ ~fits => Arrives(s) = BadPacket
        /\ s.is \in {"junk", "endless"} => Arrives(s) = BadPacket
    BY ArrivesCases
  <1>2. \/ s.is = "publish" /\ SendablePublish(s)
        \/ s.is = "ack" /\ SendableAck(s)
        \/ s.is \in {"junk", "endless"}
    BY SendableKinds, Zenon
  <1> HIDE DEF fits, length
  <1>3. \A a, b, c, e : Oversized(a, b, c, e) = Oversized(Oversized(a, b, c, e).topic,
            Oversized(a, b, c, e).length, Oversized(a, b, c, e).qos, Oversized(a, b, c, e).id)
          /\ Oversized(a, b, c, e).is = "oversized"
    BY DEF Oversized
  <1>4. BadPacket.is = "error"
    BY DEF BadPacket
  <1>5. s.is = "publish" /\ ~fits => \E a, b, c, e : Arrives(s) = Oversized(a, b, c, e)
    BY <1>1, Zenon
  <1>6. s.is = "publish" /\ ~fits =>
               /\ Arrives(s) = Oversized(Arrives(s).topic, Arrives(s).length, Arrives(s).qos, Arrives(s).id)
               /\ Arrives(s).is = "oversized"
    <2> SUFFICES ASSUME s.is = "publish" /\ ~fits
                 PROVE  /\ Arrives(s) = Oversized(Arrives(s).topic, Arrives(s).length, Arrives(s).qos, Arrives(s).id)
                        /\ Arrives(s).is = "oversized"
      OBVIOUS
    <2>1. PICK a, b, c, e : Arrives(s) = Oversized(a, b, c, e)
      BY <1>5
    <2> DEFINE o == Oversized(a, b, c, e)
    <2>2. o = Oversized(o.topic, o.length, o.qos, o.id) /\ o.is = "oversized"
      BY <1>3
    <2>3. Arrives(s) = o
      BY <2>1
    <2> HIDE DEF o
    <2> QED BY <2>2, <2>3
  <1>7. SendablePublish(s) => s.topic \in Seq(Int)
    BY Zenon DEF SendablePublish
  <1>8. Arrives(s).is = "publish" => Arrives(s).topic \in Seq(Int)
    <2>1. CASE s.is = "publish" /\ fits
      BY <1>1, <1>2, <1>7, <2>1
    <2>2. CASE s.is = "publish" /\ ~fits
      BY <1>6, <2>2
    <2>3. CASE s.is = "ack"
      BY <1>1, <1>4, <2>3
    <2>4. CASE s.is \in {"junk", "endless"}
      BY <1>1, <1>4, <2>4
    <2> QED BY <1>2, <2>1, <2>2, <2>3, <2>4
  <1> QED BY <1>6, <1>8 DEF fits

-----------------------------------------------------------------------------
(* What recv_into() appends                                                 *)

\* What is left to throw away is all that changes of a drain.
LEMMA DrainLeft ==
  ASSUME NEW v, NEW x, NEW y, NEW a, NEW b, NEW c, NEW e
  PROVE  [[on |-> v, left |-> x, topic |-> a, qos |-> b, id |-> c, length |-> e] EXCEPT !.left = y]
           = [on |-> v, left |-> y, topic |-> a, qos |-> b, id |-> c, length |-> e]
  OBVIOUS

\* recv_into() appends what it received, or drops it.
LEMMA KeepsReceived ==
  ASSUME NEW f \in Feeds, NEW n \in 0..Len(f.ends), NEW got \in Nat, got <= Len(f.bytes), NEW d,
         Keeps(f, n, got, d), NEW m \in Nat, got + m <= Len(f.bytes), m <= FillCapacity(d)
  PROVE  Keeps(f, n, got + m, Advance(d, SubSeq(f.bytes, got + 1, got + m)))
  <1> DEFINE bytes == f.bytes
             new == SubSeq(bytes, got + 1, got + m)
             begin == EndOf(f, n)
  <1>1. bytes \in Seq(Int) /\ f.ends \in Seq(Nat) /\ BufferSize \in Nat \ {0}
    BY FeedsAssumption, DecoderAssumption
  <1>2. new \in Seq(Int) /\ Len(new) = m
    <2> DEFINE end == got + m
    <2>1. end \in Nat /\ got <= end /\ end <= Len(bytes) /\ end - got = m
      OBVIOUS
    <2> HIDE DEF end, bytes
    <2>2. SubSeq(bytes, got + 1, end) \in Seq(Int) /\ Len(SubSeq(bytes, got + 1, end)) = end - got
      BY <1>1, <2>1, Part
    <2> QED BY <2>1, <2>2 DEF end
  <1>3. CASE HoldsFrom(f, n, got, d)
    <2>1. Held(d) /\ begin <= got /\ Live(d) = SubSeq(bytes, begin + 1, got)
      BY <1>3 DEF HoldsFrom
    <2>2. ~d.drain.on /\ Len(d.data) \in Nat
      BY <2>1, HeldLive
    <2>3. m <= BufferSize - Len(d.data)
      BY <2>2 DEF FillCapacity, Available
    <2>4. Held(Advance(d, new)) /\ Live(Advance(d, new)) = Live(d) \o new
      <3> HIDE DEF new
      <3> QED BY <1>2, <2>1, <2>3, Advances
    <2>5. begin \in Nat
      <3>1. CASE n = 0
        BY <3>1 DEF EndOf
      <3>2. CASE n # 0
        <4>1. begin = f.ends[n] /\ n \in 1..Len(f.ends)
          BY <1>1, <3>2 DEF EndOf
        <4> HIDE DEF begin
        <4> QED BY <1>1, <4>1
      <3> QED BY <3>1, <3>2
    <2>6. Live(d) \o new = SubSeq(bytes, begin + 1, got + m)
      <3> DEFINE a == begin + 1
                 end == got + m
      <3> HIDE DEF bytes, begin
      <3>1. a \in 1..(Len(bytes) + 1) /\ got \in (a - 1)..Len(bytes) /\ end \in got..Len(bytes)
        BY <1>1, <2>1, <2>5 DEF bytes
      <3> HIDE DEF a, end
      <3>2. SubSeq(bytes, a, got) \o SubSeq(bytes, got + 1, end) = SubSeq(bytes, a, end)
        BY <1>1, <3>1, ConcatAdjacentSubSeq
      <3> QED BY <2>1, <3>2 DEF a, end
    <2>7. begin <= got + m
      BY <2>1, <2>5
    <2>8. HoldsFrom(f, n, got + m, Advance(d, new))
      <3> HIDE DEF new
      <3> QED BY <2>4, <2>6, <2>7 DEF HoldsFrom
    <2> QED BY <2>8 DEF Keeps
  <1>4. CASE ThrowsAway(f, n, got, d)
    <2> DEFINE end == f.ends[n + 1]
               s == f.sent[n + 1]
               left == end - got
    <2>1. /\ n < Len(f.ends) /\ got <= end /\ s.is = "publish" /\ Len(Encode(s)) > BufferSize
          /\ d = DiscardOf(s, left)
      BY <1>4 DEF ThrowsAway
    <2>2. end \in Nat
      <3>1. n + 1 \in 1..Len(f.ends)
        BY <1>1, <2>1
      <3> QED BY <1>1, <3>1
    <2> HIDE DEF s, end
    <2>3. d.drain.on /\ d.drain.left = left /\ d.data = <<>>
      BY <2>1 DEF DiscardOf
    <2>4. m <= left
      <3>0. left \in Nat /\ Available(d) \in Int
        BY <1>1, <2>1, <2>2, <2>3 DEF Available
      <3> HIDE DEF left
      <3>1. FillCapacity(d) <= left
        BY <2>3, <3>0 DEF FillCapacity
      <3>2. FillCapacity(d) \in Int
        BY <2>3, <3>0 DEF FillCapacity
      <3> QED BY <3>0, <3>1, <3>2
    <2>5. Advance(d, new) = DiscardOf(s, left - m)
      <3>1. CASE new = <<>>
        <4>1. m = 0
          BY <1>2, <3>1
        <4>2. left - m = left
          BY <2>1, <2>2, <4>1
        <4> QED BY <2>1, <3>1, <4>2 DEF Advance
      <3>2. CASE new # <<>>
        <4> HIDE DEF left, new
        <4>1. Advance(d, new) = [d EXCEPT !.drain.left = @ - Len(new), !.data = <<>>]
          BY <2>3, <3>2 DEF Advance
        <4>2. [d EXCEPT !.drain.left = @ - Len(new), !.data = <<>>]
                = [[d EXCEPT !.drain.left = @ - Len(new)] EXCEPT !.data = <<>>]
          BY Zenon
        <4>3. [d EXCEPT !.drain.left = @ - Len(new)]
                = [d EXCEPT !.drain = [d.drain EXCEPT !.left = left - m]]
          BY <1>2, <2>3
        <4> DEFINE t == Arrives(s)
                   on(l) == [on |-> TRUE, left |-> l, topic |-> t.topic, qos |-> t.qos,
                             id |-> t.id, length |-> t.length]
        <4>4. d = [data |-> <<>>, offset |-> 0, drain |-> on(left)]
              /\ DiscardOf(s, left - m) = [data |-> <<>>, offset |-> 0, drain |-> on(left - m)]
          BY <2>1, Zenon DEF DiscardOf
        <4>5. [on(left) EXCEPT !.left = left - m] = on(left - m)
          <5> DEFINE a == t.topic
                     b == t.qos
                     c == t.id
                     e == t.length
                     v == TRUE
                     less == left - m
          <5>1. on(left) = [on |-> v, left |-> left, topic |-> a, qos |-> b, id |-> c, length |-> e]
                /\ on(less) = [on |-> v, left |-> less, topic |-> a, qos |-> b, id |-> c, length |-> e]
            BY Zenon
          <5> HIDE DEF a, b, c, e, v, less, on
          <5>2. [on(left) EXCEPT !.left = less] = on(less)
            BY <5>1, DrainLeft
          <5> QED BY <5>2 DEF less
        <4> HIDE DEF on
        <4>6. d.drain = on(left)
          BY <4>4
        <4>7. [d EXCEPT !.drain = on(left - m)] = [data |-> <<>>, offset |-> 0, drain |-> on(left - m)]
          BY <4>4
        <4>8. [[data |-> <<>>, offset |-> 0, drain |-> on(left - m)] EXCEPT !.data = <<>>]
                = [data |-> <<>>, offset |-> 0, drain |-> on(left - m)]
          OBVIOUS
        <4> QED BY <4>1, <4>2, <4>3, <4>4, <4>5, <4>6, <4>7, <4>8
      <3> QED BY <3>1, <3>2
    <2>6. left - m = end - (got + m) /\ got + m <= end
      BY <2>1, <2>2, <2>4
    <2> HIDE DEF new
    <2>7. ThrowsAway(f, n, got + m, Advance(d, new))
      <3>1. Advance(d, new) = DiscardOf(s, end - (got + m))
        BY <2>5, <2>6
      <3> QED BY <2>1, <2>6, <3>1, Zenon DEF ThrowsAway, s, end
    <2> QED BY <2>7 DEF Keeps, new
  <1> QED BY <1>3, <1>4 DEF Keeps

\* read_next() on what is kept: no packet is there and there is room for more, the
\* next packet is returned as it arrives, or the last is refused.
Idles(f, n, got, d) ==
    /\ ReadNext(d)[2] = NoPacket
    /\ Keeps(f, n, got, ReadNext(d)[1]) /\ HasRoom(f, n, got, ReadNext(d)[1])
Returns(f, n, got, d) ==
    /\ n < Len(f.ends)
    /\ ReadNext(d)[2] = Arrives(f.sent[n + 1])
    /\ Arrives(f.sent[n + 1]).is \in {"publish", "ack", "oversized"}
    /\ Keeps(f, n + 1, got, ReadNext(d)[1])
RefusesLast(f, n, d) ==
    /\ n + 1 = Len(f.ends)
    /\ ReadNext(d)[2] = BadPacket /\ Arrives(f.sent[n + 1]) = BadPacket

-----------------------------------------------------------------------------
(* What is thrown away                                                      *)

\* read_next() while a packet is thrown away: it is reported once all of it was.
LEMMA DrainReads ==
  ASSUME NEW s, Sendable(s), s.is = "publish", ~(Len(Encode(s)) <= BufferSize), NEW left \in Nat
  PROVE  LET d == DiscardOf(s, left)
         IN  /\ left > 0 => ReadNext(d) = <<d, NoPacket>>
             /\ left = 0 => ReadNext(d) = <<NewDecoder, Arrives(s)>>
  <1> DEFINE d == DiscardOf(s, left)
             live == Live(d)
             varlen == DecodeVarlen(Tail(live))
             header == 1 + varlen[2]
             total == header + varlen[1]
             Go == IF varlen = Malformed THEN <<d, BadPacket>>
                   ELSE IF varlen[2] = 0 THEN <<d, NoPacket>>
                   ELSE IF total > BufferSize THEN EnterDrainPath(d, live, varlen[1], header)
                   ELSE IF Len(live) < total THEN <<MakeRoom(d), NoPacket>>
                   ELSE LET packet == ParsePacket(live[1], SubSeq(live, header + 1, total))
                        IN  <<IF packet = BadPacket THEN d ELSE Consume(d, total), packet>>
             told == Arrives(s)
             a == told.topic
             b == told.length
             c == told.qos
             e == told.id
             on == [on |-> TRUE, left |-> left, topic |-> a, qos |-> c, id |-> e, length |-> b]
  <1>1. d = [data |-> <<>>, offset |-> 0, drain |-> on]
    BY Zenon DEF DiscardOf
  <1>2. told = Oversized(a, b, c, e)
    BY ArrivesTyped
  <1> HIDE DEF a, b, c, e, told
  <1>3. /\ on.on /\ on.left = left /\ on.topic = a /\ on.qos = c /\ on.id = e /\ on.length = b
    OBVIOUS
  <1> HIDE DEF on
  <1>4. d.drain = on
    BY <1>1
  <1>5. ReadNext(d) = FinishOversized(d)
    <2>1. ReadNext(d) = CASE d.drain.on -> FinishOversized(d)
                          [] ~d.drain.on /\ Len(live) < 2 -> <<d, NoPacket>>
                          [] OTHER -> Go
      BY Zenon DEF ReadNext, Live
    <2>2. d.drain.on
      BY <1>3, <1>4
    <2> HIDE DEF Go, live, d
    <2> QED BY <2>1, <2>2
  <1>6. FinishOversized(d) = IF left > 0 THEN <<d, NoPacket>> ELSE <<[d EXCEPT !.drain = NoDrain], told>>
    <2> HIDE DEF d
    <2>1. FinishOversized(d) = IF left > 0 THEN <<d, NoPacket>>
                               ELSE <<[d EXCEPT !.drain = NoDrain], Oversized(a, b, c, e)>>
      BY <1>3, <1>4 DEF FinishOversized
    <2> QED BY <1>2, <2>1
  <1>7. [d EXCEPT !.drain = NoDrain] = NewDecoder
    <2>1. [[data |-> <<>>, offset |-> 0, drain |-> on] EXCEPT !.drain = NoDrain]
            = [data |-> <<>>, offset |-> 0, drain |-> NoDrain]
      OBVIOUS
    <2> HIDE DEF d
    <2> QED BY <1>1, <2>1 DEF NewDecoder
  <1> HIDE DEF d
  <1>8. /\ left > 0 => ReadNext(d) = <<d, NoPacket>>
        /\ left = 0 => ReadNext(d) = <<NewDecoder, told>>
    BY <1>5, <1>6, <1>7
  <1> QED BY <1>8 DEF d, told

\* An empty buffer.
LEMMA HoldsNothing ==
  ASSUME NEW f \in Feeds, NEW n, NEW got \in Nat, got <= Len(f.bytes), EndOf(f, n) = got
  PROVE  HoldsFrom(f, n, got, NewDecoder)
  <1>1. BufferSize \in Nat \ {0} /\ f.bytes \in Seq(Int)
    BY FeedsAssumption, DecoderAssumption
  <1>2. <<>> \in Seq(Int) /\ Len(<<>>) <= BufferSize /\ 2 * 0 < BufferSize /\ 0 <= Len(<<>>)
    BY <1>1
  <1> DEFINE d == [data |-> <<>>, offset |-> 0, drain |-> NoDrain]
  <1>3. Held(d) /\ Live(d) = SubSeq(<<>>, 0 + 1, Len(<<>>))
    <2> DEFINE data == <<>>
    <2> HIDE DEF data
    <2>1. data \in Seq(Int) /\ Len(data) <= BufferSize /\ 2 * 0 < BufferSize /\ 0 <= Len(data)
      BY <1>2 DEF data
    <2>2. LET r == [data |-> data, offset |-> 0, drain |-> NoDrain]
          IN  Held(r) /\ Live(r) = SubSeq(data, 0 + 1, Len(data))
      BY <2>1, HeldRecord
    <2> QED BY <2>2 DEF data
  <1>4. SubSeq(<<>>, 0 + 1, Len(<<>>)) = <<>>
    OBVIOUS
  <1>5. SubSeq(f.bytes, got + 1, got) = <<>>
    <2> DEFINE bytes == f.bytes
    <2>1. bytes \in Seq(Int)
      BY <1>1
    <2> HIDE DEF bytes
    <2>2. SubSeq(bytes, got + 1, got) = <<>>
      BY <2>1
    <2> QED BY <2>2 DEF bytes
  <1>6. NewDecoder = d
    BY DEF NewDecoder
  <1> HIDE DEF d
  <1> QED BY <1>3, <1>4, <1>5, <1>6 DEF HoldsFrom

\* read_next() while a PUBLISH is thrown away.
LEMMA ServesDrain ==
  ASSUME NEW f \in Feeds, NEW n \in 0..Len(f.ends), NEW got \in Nat, got <= Len(f.bytes), NEW d,
         ThrowsAway(f, n, got, d)
  PROVE  Idles(f, n, got, d) \/ Returns(f, n, got, d)
  <1> DEFINE k == n + 1
             s == f.sent[k]
             end == f.ends[k]
             left == end - got
  <1>0. n \in Nat /\ n < Len(f.ends)
    BY DEF ThrowsAway
  <1>1. k \in 1..Len(f.ends) /\ k - 1 = n
    <2>1. Len(f.ends) \in Nat
      BY FeedsAssumption
    <2> QED BY <1>0, <2>1
  <1>2. got <= end /\ s.is = "publish" /\ Len(Encode(s)) > BufferSize /\ d = DiscardOf(s, left)
    BY DEF ThrowsAway
  <1>3. end \in Nat /\ EndOf(f, k) = end /\ end <= Len(f.bytes) /\ Len(Encode(s)) = end - EndOf(f, k - 1)
        /\ EndOf(f, k - 1) \in Nat /\ Sendable(s)
    <2> HIDE DEF k
    <2> QED BY <1>1, FeedShape
  <1> HIDE DEF s, end, k
  <1>4. left \in Nat /\ ~(Len(Encode(s)) <= BufferSize)
    BY <1>2, <1>3, DecoderAssumption
  <1> HIDE DEF left
  <1>5. /\ left > 0 => ReadNext(d) = <<d, NoPacket>>
        /\ left = 0 => ReadNext(d) = <<NewDecoder, Arrives(s)>>
    <2>1. /\ left > 0 => ReadNext(DiscardOf(s, left)) = <<DiscardOf(s, left), NoPacket>>
          /\ left = 0 => ReadNext(DiscardOf(s, left)) = <<NewDecoder, Arrives(s)>>
      BY <1>2, <1>3, <1>4, DrainReads
    <2> QED BY <1>2, <2>1
  <1>6. CASE left > 0
    <2>1. ReadNext(d)[1] = d /\ ReadNext(d)[2] = NoPacket
      BY <1>5, <1>6
    <2>2. got < end
      BY <1>2, <1>3, <1>6 DEF left
    <2>3. d.drain.on /\ d.data = <<>> /\ d.drain.left = left
      BY <1>2 DEF DiscardOf
    <2>4. HasRoom(f, n, got, d)
      BY <1>4, <1>6, <2>2, <2>3 DEF HasRoom, end, k
    <2> QED BY <2>1, <2>4 DEF Idles, Keeps
  <1>7. CASE left = 0
    <2>1. ReadNext(d)[1] = NewDecoder /\ ReadNext(d)[2] = Arrives(s)
      BY <1>5, <1>7
    <2>2. got = end
      BY <1>2, <1>3, <1>7 DEF left
    <2>3. Arrives(s).is = "oversized"
      BY <1>2, <1>3, <1>4, ArrivesTyped
    <2>4. HoldsFrom(f, k, got, NewDecoder)
      BY <1>3, <2>2, HoldsNothing
    <2> QED BY <1>0, <2>1, <2>3, <2>4 DEF Returns, Keeps, s, k
  <1> QED BY <1>4, <1>6, <1>7

-----------------------------------------------------------------------------
(* What read_next() returns                                                 *)

\* read_next() on a buffer that holds what follows the packets returned.  That the
\* buffer has eight bytes is needed here: less than half of it is consumed, so four
\* bytes of a length that is not complete do not fill the rest.
LEMMA ServesHeld ==
  ASSUME BufferSize >= 8, NEW f \in Feeds, NEW n \in 0..Len(f.ends), NEW got \in Nat,
         got <= Len(f.bytes), NEW d, HoldsFrom(f, n, got, d)
  PROVE  Idles(f, n, got, d) \/ Returns(f, n, got, d) \/ RefusesLast(f, n, d)
  <1> DEFINE begin == EndOf(f, n)
             bytes == f.bytes
             live == SubSeq(bytes, begin + 1, got)
  <1>1. Held(d) /\ begin <= got /\ Live(d) = live
    BY DEF HoldsFrom
  <1>2. bytes \in Seq(Int) /\ Len(f.ends) \in Nat /\ BufferSize \in Nat /\ EndOf(f, Len(f.ends)) = Len(bytes)
    BY FeedsAssumption, DecoderAssumption
  <1>3. /\ ~d.drain.on /\ Live(d) \in Seq(Int) /\ Len(Live(d)) = Len(d.data) - d.offset
        /\ Len(d.data) \in Nat /\ Len(Live(d)) <= BufferSize /\ d.offset \in Nat
        /\ 2 * d.offset < BufferSize
    BY <1>1, HeldLive DEF Held
  <1>4. CASE n = Len(f.ends)
    <2>1. begin = got
      BY <1>1, <1>2, <1>4
    <2>2. Len(live) = 0
      <3> HIDE DEF begin, bytes
      <3> QED BY <1>2, <2>1
    <2>3. ReadNext(d) = <<d, NoPacket>>
      <3> HIDE DEF live
      <3> QED BY <1>1, <1>3, <2>2, FewBytes
    <2>4. Len(d.data) # BufferSize
      <3> HIDE DEF live
      <3> QED BY <1>1, <1>2, <1>3, <2>2
    <2>5. HasRoom(f, n, got, d)
      BY <1>2, <1>3, <1>4, <2>4 DEF HasRoom
    <2>6. ReadNext(d)[1] = d /\ ReadNext(d)[2] = NoPacket
      BY <2>3
    <2> QED BY <2>5, <2>6 DEF Idles, Keeps
  <1>5. CASE n # Len(f.ends)
    <2> DEFINE k == n + 1
               s == f.sent[k]
               end == f.ends[k]
               e == Encode(s)
               size == Len(live)
    <2>1. k \in 1..Len(f.ends) /\ k - 1 = n /\ n < Len(f.ends)
      BY <1>2, <1>5
    <2>2. /\ begin \in Nat /\ end \in Nat /\ EndOf(f, k) = end /\ begin < end /\ end <= Len(bytes)
          /\ e = SubSeq(bytes, begin + 1, end) /\ Len(e) = end - begin
          /\ Sendable(s) /\ (Arrives(s) = BadPacket => k = Len(f.ends))
      <3> HIDE DEF k
      <3>1. /\ EndOf(f, k - 1) \in Nat /\ f.ends[k] \in Nat /\ EndOf(f, k) = f.ends[k]
            /\ EndOf(f, k - 1) < f.ends[k] /\ f.ends[k] <= Len(f.bytes)
            /\ Encode(f.sent[k]) = SubSeq(f.bytes, EndOf(f, k - 1) + 1, f.ends[k])
            /\ Len(Encode(f.sent[k])) = f.ends[k] - EndOf(f, k - 1)
            /\ Sendable(f.sent[k])
            /\ Arrives(f.sent[k]) = BadPacket => k = Len(f.ends)
        BY <2>1, FeedShape
      <3> QED BY <2>1, <3>1
    <2> HIDE DEF begin, bytes, s, end, e, k
    <2>3. live \in Seq(Int) /\ size = got - begin
      <3>1. got <= Len(bytes)
        BY DEF bytes
      <3> QED BY <1>1, <1>2, <2>2, <3>1, Part
    <2>4. Agree(live, e)
      <3>1. got <= Len(bytes) /\ begin <= end
        BY <2>2 DEF bytes
      <3>2. Agree(SubSeq(bytes, begin + 1, got), SubSeq(bytes, begin + 1, end))
        BY <1>1, <1>2, <2>2, <3>1, ReceivedAgrees
      <3> QED BY <2>2, <3>2
    <2> HIDE DEF live
    <2>5. size <= BufferSize /\ size \in Nat /\ size = Len(d.data) - d.offset /\ Len(e) \in Nat
      BY <1>1, <1>3, <2>2, <2>3
    <2>6. Waits(d, s, live) \/ Takes(d, s, live) \/ Refuses(d, s) \/ Drains(d, s, live)
      <3>1. Agree(live, Encode(s)) /\ live = Live(d) /\ Len(live) <= BufferSize
        BY <1>1, <2>4, <2>5 DEF e
      <3> QED BY <1>3, <2>2, <2>3, <3>1, Reads
    <2>7. CASE Waits(d, s, live)
      <3>1. /\ \/ ReadNext(d) = <<d, NoPacket>>
               \/ (ReadNext(d) = <<MakeRoom(d), NoPacket>> /\ Len(e) <= BufferSize)
            /\ size < Len(e)
            /\ ReadNext(d) = <<MakeRoom(d), NoPacket>> \/ size <= 4 \/ Len(e) > BufferSize
        BY <2>7 DEF Waits, e
      <3>2. got < end
        <4> HIDE DEF size
        <4> QED BY <2>2, <2>3, <3>1
      <3>3. CASE ReadNext(d) = <<MakeRoom(d), NoPacket>> /\ Len(e) <= BufferSize
        <4> DEFINE r == MakeRoom(d)
        <4>1. Held(r) /\ Live(r) = Live(d) /\ (Len(Live(d)) < BufferSize => Len(r.data) # BufferSize)
          BY <1>1, MakesRoom
        <4>2. size < BufferSize
          <5> HIDE DEF size
          <5> QED BY <1>2, <2>5, <3>1, <3>3
        <4> HIDE DEF r
        <4>3. Len(r.data) # BufferSize
          BY <1>1, <4>1, <4>2
        <4>4. ~r.drain.on
          BY <4>1, HeldLive
        <4>5. HoldsFrom(f, n, got, r)
          BY <1>1, <4>1 DEF HoldsFrom, live, begin, bytes
        <4>6. HasRoom(f, n, got, r)
          BY <3>2, <4>3, <4>4 DEF HasRoom, end, k
        <4>7. ReadNext(d)[1] = r /\ ReadNext(d)[2] = NoPacket
          BY <3>3 DEF r
        <4> QED BY <4>5, <4>6, <4>7 DEF Idles, Keeps
      <3>4. CASE ReadNext(d) = <<d, NoPacket>> /\ (size <= 4 \/ Len(e) > BufferSize)
        <4>1. Len(d.data) = BufferSize => Len(e) > BufferSize
          <5> SUFFICES ASSUME Len(d.data) = BufferSize, size <= 4 PROVE FALSE
            BY <3>4
          <5> HIDE DEF size
          <5> QED BY <1>2, <1>3, <2>5
        <4>2. Len(d.data) = BufferSize => n < Len(f.ends) /\ EndOf(f, n + 1) - EndOf(f, n) > BufferSize
          BY <2>1, <2>2, <4>1 DEF begin, k
        <4>3. HasRoom(f, n, got, d)
          BY <1>3, <3>2, <4>2 DEF HasRoom, end, k
        <4>4. ReadNext(d)[1] = d /\ ReadNext(d)[2] = NoPacket
          BY <3>4
        <4> QED BY <4>3, <4>4 DEF Idles, Keeps
      <3>5. CASE ReadNext(d) = <<d, NoPacket>> /\ ReadNext(d) = <<MakeRoom(d), NoPacket>> /\ ~(Len(e) > BufferSize)
        <4>1. Len(e) <= BufferSize
          BY <1>2, <2>5, <3>5
        <4> QED BY <3>3, <3>5, <4>1
      <3> QED BY <3>1, <3>3, <3>4, <3>5
    <2>8. CASE Takes(d, s, live)
      <3> DEFINE r == Consume(d, Len(e))
      <3>1. /\ ReadNext(d) = <<r, Arrives(s)>> /\ Len(e) <= size
            /\ Arrives(s) # BadPacket /\ Arrives(s).is \in {"publish", "ack"}
        BY <2>8 DEF Takes, e
      <3>2. Held(r) /\ Live(r) = SubSeq(live, Len(e) + 1, Len(live))
        BY <1>1, <2>5, <3>1, Consumes
      <3>3. end <= got
        <4> HIDE DEF size
        <4> QED BY <2>2, <2>3, <3>1
      <3>4. SubSeq(live, Len(e) + 1, Len(live)) = SubSeq(bytes, end + 1, got)
        <4> DEFINE m == Len(e)
                   a == SubSeq(live, m + 1, size)
                   b == SubSeq(bytes, end + 1, got)
        <4>1. m \in Nat /\ m = end - begin /\ m <= size /\ size <= Len(live)
          BY <2>2, <2>5, <3>1
        <4>2. \A j \in 1..size : live[j] = bytes[begin + j]
          <5>1. got <= Len(bytes)
            BY DEF bytes
          <5>2. \A j \in 1..(got - begin) : SubSeq(bytes, begin + 1, got)[j] = bytes[begin + j]
            BY <1>1, <1>2, <2>2, <5>1, Part
          <5> QED BY <2>3, <5>2 DEF live
        <4> HIDE DEF m
        <4>3. a \in Seq(Int) /\ Len(a) = size - m /\ \A j \in 1..(size - m) : a[j] = live[m + j]
          BY <2>3, <2>5, <4>1, Part
        <4>4. b \in Seq(Int) /\ Len(b) = got - end /\ \A j \in 1..(got - end) : b[j] = bytes[end + j]
          <5>1. got <= Len(bytes)
            BY DEF bytes
          <5> QED BY <1>2, <2>2, <3>3, <5>1, Part
        <4> HIDE DEF a, b
        <4>5. size - m = got - end /\ got - end \in Nat
          <5> HIDE DEF size
          <5> QED BY <2>2, <2>3, <3>3, <4>1
        <4>6. \A j \in 1..Len(a) : a[j] = b[j]
          <5> SUFFICES ASSUME NEW j \in 1..Len(a) PROVE a[j] = b[j]
            OBVIOUS
          <5> HIDE DEF size
          <5>1. j \in 1..(size - m) /\ j \in 1..(got - end) /\ m + j \in 1..size /\ begin + (m + j) = end + j
            BY <2>2, <2>5, <4>1, <4>3, <4>5
          <5>2. a[j] = live[m + j] /\ live[m + j] = bytes[begin + (m + j)] /\ b[j] = bytes[end + j]
            BY <4>2, <4>3, <4>4, <5>1
          <5> QED BY <5>1, <5>2
        <4>7. a = b
          <5>1. Len(a) = Len(b)
            BY <4>3, <4>4, <4>5
          <5> QED BY <4>3, <4>4, <4>6, <5>1, SeqEqual
        <4> QED BY <4>7 DEF a, b, m
      <3> HIDE DEF r
      <3>5. HoldsFrom(f, k, got, r)
        BY <2>2, <3>2, <3>3, <3>4 DEF HoldsFrom, bytes
      <3>6. ReadNext(d)[1] = r /\ ReadNext(d)[2] = Arrives(s)
        BY <3>1
      <3> QED BY <2>1, <3>1, <3>5, <3>6 DEF Returns, Keeps, s, k
    <2>9. CASE Refuses(d, s)
      <3>1. ReadNext(d)[2] = BadPacket /\ Arrives(s) = BadPacket
        BY <2>9 DEF Refuses
      <3>2. k = Len(f.ends)
        BY <2>2, <3>1
      <3> QED BY <3>1, <3>2 DEF RefusesLast, s, k
    <2>10. CASE Drains(d, s, live)
      <3> DEFINE left == end - got
                 r == DiscardOf(s, left)
      <3>1. /\ ReadNext(d) = <<DiscardOf(s, Len(e) - size), NoPacket>>
            /\ s.is = "publish" /\ Len(e) > BufferSize
        BY <2>10 DEF Drains, e
      <3>2. Len(e) - size = left /\ left \in Nat /\ left > 0 /\ got < end
        <4> HIDE DEF size, r
        <4> DEFINE total == Len(e)
        <4>1. total = end - begin /\ total > BufferSize /\ size <= BufferSize /\ size = got - begin
          BY <2>2, <2>3, <2>5, <3>1
        <4> HIDE DEF total
        <4>2. total \in Nat
          BY <2>5 DEF total
        <4>3. begin \in Nat /\ end \in Nat /\ BufferSize \in Nat /\ size \in Nat
          BY <1>2, <2>2, <2>5
        <4>4. total > size
          BY <4>1, <4>2, <4>3
        <4>5. total - size = end - got /\ end - got > 0
          BY <4>1, <4>2, <4>3, <4>4
        <4>6. total - size = left /\ left \in Nat /\ left > 0 /\ got < end
          BY <4>3, <4>5
        <4> QED BY <4>6 DEF total
      <3>3. ReadNext(d)[1] = r /\ ReadNext(d)[2] = NoPacket
        BY <3>1, <3>2
      <3>4. r.drain.on /\ r.data = <<>> /\ r.drain.left = left
        BY DEF DiscardOf
      <3>5. r = DiscardOf(s, end - got)
        OBVIOUS
      <3> HIDE DEF left, r
      <3>6. HasRoom(f, n, got, r)
        BY <3>2, <3>4 DEF HasRoom, end, k
      <3>7. ThrowsAway(f, n, got, r)
        <4>1. got <= end /\ n < Len(f.ends)
          BY <2>1, <2>2, <3>2
        <4>2. s.is = "publish" /\ Len(Encode(s)) > BufferSize
          BY <3>1 DEF e
        <4> QED BY <3>5, <4>1, <4>2, Zenon DEF ThrowsAway, s, end, k
      <3> QED BY <3>3, <3>6, <3>7 DEF Idles, Keeps
    <2> QED BY <2>6, <2>7, <2>8, <2>9, <2>10
  <1> QED BY <1>4, <1>5

\* read_next() on what is kept.
LEMMA Serves ==
  ASSUME BufferSize >= 8, NEW f \in Feeds, NEW n \in 0..Len(f.ends), NEW got \in Nat,
         got <= Len(f.bytes), NEW d, Keeps(f, n, got, d)
  PROVE  Idles(f, n, got, d) \/ Returns(f, n, got, d) \/ RefusesLast(f, n, d)
  BY ServesHeld, ServesDrain DEF Keeps

-----------------------------------------------------------------------------
(* The inductive invariant                                                   *)

\* What has been received.
Got == Len(feed.bytes) - Len(unread)

\* unread is what was not received yet.
StreamInv ==
    /\ feed \in Feeds /\ reading \in BOOLEAN
    /\ Got \in Nat /\ Got <= Len(feed.bytes)
    /\ unread = SubSeq(feed.bytes, Got + 1, Len(feed.bytes))
\* The packets dispatched are the first ones, and after one that was refused
\* nothing is read.
OrderInv ==
    /\ Len(dispatched) \in 0..Len(feed.ends)
    /\ dispatched = [k \in 1..Len(dispatched) |-> AsSent(Arrives(feed.sent[k]))]
    /\ Failed => ~reading /\ Len(dispatched) = Len(feed.ends)
\* The decoder keeps what follows them.
BufferInv == ~Failed => Keeps(feed, Len(dispatched), Got, decoder)
\* Between ticks there is room for more, or too large a packet is under way.
RoomInv == ~Failed /\ ~reading => HasRoom(feed, Len(dispatched), Got, decoder)
WireInv == StreamInv /\ OrderInv /\ BufferInv /\ RoomInv


\* What is to be dispatched of a feed, packet by packet.
Told(f) == [k \in Nat |-> AsSent(Arrives(f.sent[k]))]

\* One packet more.
LEMMA ToldAppends ==
  ASSUME NEW g, NEW n \in Nat
  PROVE  /\ Append([k \in 1..n |-> g[k]], g[n + 1]) = [k \in 1..(n + 1) |-> g[k]]
         /\ <<>> = [k \in 1..0 |-> g[k]]
         /\ Len([k \in 1..n |-> g[k]]) = n
  OBVIOUS

\* The first of them.
LEMMA ToldPart ==
  ASSUME NEW g, NEW n \in Nat, NEW m \in Nat, m <= n
  PROVE  SubSeq([k \in 1..n |-> g[k]], 1, m) = [k \in 1..m |-> g[k]]
  OBVIOUS

\* The same, from the feed.
LEMMA ToldSoFar ==
  ASSUME NEW f, NEW n \in Nat
  PROVE  [k \in 1..n |-> AsSent(Arrives(f.sent[k]))] = [k \in 1..n |-> Told(f)[k]]
  <1>1. \A k \in 1..n : Told(f)[k] = AsSent(Arrives(f.sent[k]))
    BY DEF Told
  <1> QED BY <1>1

\* A packet that arrives is handed on as it was sent.
LEMMA HandsOn ==
  ASSUME NEW f \in Feeds, NEW k \in 1..Len(f.ends)
  PROVE  /\ Received(Arrives(f.sent[k])) = Told(f)[k]
         /\ Told(f)[k].packet = Arrives(f.sent[k])
  <1> DEFINE s == f.sent[k]
             p == Arrives(s)
  <1>1. Sendable(s)
    BY FeedShape
  <1>2. k \in Nat
    BY FeedsAssumption
  <1>3. Told(f)[k] = AsSent(p)
    BY <1>2 DEF Told
  <1> HIDE DEF s
  <1>4. p.is = "publish" => p.topic \in Seq(Int)
    BY <1>1, ArrivesTyped
  <1> HIDE DEF p
  <1>5. Received(p) = AsSent(p)
    BY <1>4, ReceivedAsSent
  <1>6. AsSent(p).packet = p
    BY DEF AsSent
  <1> QED BY <1>3, <1>5, <1>6 DEF p, s

\* Nothing received, nothing dispatched: the invariant holds at first.
LEMMA InitInv == WireInit => WireInv
  <1> SUFFICES ASSUME WireInit PROVE WireInv
    OBVIOUS
  <1>1. feed \in Feeds /\ unread = feed.bytes /\ decoder = NewDecoder /\ reading = FALSE /\ dispatched = <<>>
    BY DEF WireInit
  <1>2. feed.bytes \in Seq(Int) /\ feed.ends \in Seq(Nat) /\ Len(feed.ends) \in Nat /\ Len(feed.bytes) \in Nat
    BY <1>1, FeedsAssumption
  <1>3. Got = 0
    BY <1>1, <1>2 DEF Got
  <1>4. StreamInv
    <2> DEFINE bytes == feed.bytes
    <2>1. bytes \in Seq(Int)
      BY <1>2
    <2> HIDE DEF bytes
    <2>2. SubSeq(bytes, 0 + 1, Len(bytes)) = bytes
      BY <2>1
    <2>3. unread = SubSeq(feed.bytes, Got + 1, Len(feed.bytes))
      BY <1>1, <1>3, <2>2 DEF bytes
    <2>4. reading \in BOOLEAN
      BY <1>1, Zenon
    <2>5. Got \in Nat /\ Got <= Len(feed.bytes)
      <3>1. 0 \in Nat /\ 0 <= Len(feed.bytes)
        BY <1>2
      <3> QED BY <1>3, <3>1
    <2> QED BY <1>1, <2>3, <2>4, <2>5, Zenon DEF StreamInv
  <1>5. ~Failed /\ Len(dispatched) = 0
    BY <1>1 DEF Failed
  <1>6. OrderInv
    <2>1. dispatched = [k \in 1..0 |-> Told(feed)[k]]
      BY <1>1, ToldAppends
    <2>2. [k \in 1..0 |-> AsSent(Arrives(feed.sent[k]))] = [k \in 1..0 |-> Told(feed)[k]]
      BY ToldSoFar
    <2>3. dispatched = [k \in 1..Len(dispatched) |-> AsSent(Arrives(feed.sent[k]))]
      BY <1>5, <2>1, <2>2
    <2> QED BY <1>2, <1>5, <2>3 DEF OrderInv
  <1>7. HoldsFrom(feed, 0, 0, NewDecoder)
    <2>1. EndOf(feed, 0) = 0 /\ 0 <= Len(feed.bytes)
      BY <1>2 DEF EndOf
    <2> QED BY <1>1, <2>1, HoldsNothing
  <1>8. BufferInv
    BY <1>1, <1>3, <1>5, <1>7 DEF BufferInv, Keeps
  <1>9. HasRoom(feed, 0, 0, NewDecoder)
    <2>1. 0 < Len(feed.ends) => 0 < feed.ends[0 + 1]
      <3> SUFFICES ASSUME 0 < Len(feed.ends) PROVE 0 < feed.ends[1]
        OBVIOUS
      <3> DEFINE k == 1
      <3>1. k \in 1..Len(feed.ends)
        BY <1>2
      <3> HIDE DEF k
      <3>2. EndOf(feed, k - 1) \in Nat /\ feed.ends[k] \in Nat /\ EndOf(feed, k - 1) < feed.ends[k]
        BY <1>1, <3>1, FeedShape
      <3> QED BY <3>2 DEF k
    <2>2. ~NewDecoder.drain.on /\ NewDecoder.data = <<>>
      BY DEF NewDecoder, NoDrain
    <2>3. Len(<<>>) # BufferSize
      BY DecoderAssumption
    <2> QED BY <2>1, <2>2, <2>3 DEF HasRoom
  <1>10. RoomInv
    BY <1>1, <1>3, <1>5, <1>9 DEF RoomInv
  <1> QED BY <1>4, <1>6, <1>8, <1>10 DEF WireInv

\* recv_into() and advance() keep the invariant.
LEMMA ReadInboundKeepsInv ==
  ASSUME WireInv, NEW m \in 0..TickBudget, ReadInbound(m)
  PROVE  WireInv'
  <1>1. /\ ~reading /\ ~Failed /\ m <= Len(unread) /\ m <= TickCapacity
        /\ decoder' = Advance(decoder, SubSeq(unread, 1, m))
        /\ unread' = SubSeq(unread, m + 1, Len(unread))
        /\ reading' = TRUE /\ feed' = feed /\ dispatched' = dispatched
    BY DEF ReadInbound
  <1>2. /\ feed \in Feeds /\ Got \in Nat /\ Got <= Len(feed.bytes)
        /\ unread = SubSeq(feed.bytes, Got + 1, Len(feed.bytes))
    BY DEF WireInv, StreamInv
  <1> DEFINE bytes == feed.bytes
             got == Got
             size == Len(bytes)
  <1>3. bytes \in Seq(Int) /\ size \in Nat /\ m \in Nat /\ feed.ends \in Seq(Nat)
    BY <1>2, FeedsAssumption, DecoderAssumption
  <1> HIDE DEF bytes, got
  <1>4. unread = SubSeq(bytes, got + 1, size) /\ got \in Nat /\ got <= size
    BY <1>2 DEF bytes, got
  <1>5. Len(unread) = size - got /\ unread \in Seq(Int) /\ \A k \in 1..(size - got) : unread[k] = bytes[got + k]
    <2>1. size <= Len(bytes)
      BY <1>3
    <2> HIDE DEF size
    <2> QED BY <1>3, <1>4, <2>1, Part
  <1> HIDE DEF size
  <1>6. m <= size - got /\ got + m <= size /\ got + m \in Nat
    BY <1>1, <1>3, <1>4, <1>5
  <1>7. SubSeq(unread, 1, m) = SubSeq(bytes, got + 1, got + m)
    <2> DEFINE a == SubSeq(unread, 0 + 1, m)
               end == got + m
               b == SubSeq(bytes, got + 1, end)
    <2>1. end \in Nat /\ got <= end /\ end <= Len(bytes) /\ end - got = m /\ m <= Len(unread)
      BY <1>1, <1>3, <1>4, <1>6 DEF size
    <2> HIDE DEF end
    <2>2. a \in Seq(Int) /\ Len(a) = m - 0 /\ \A k \in 1..(m - 0) : a[k] = unread[0 + k]
      BY <1>3, <1>5, <2>1, Part
    <2>3. b \in Seq(Int) /\ Len(b) = end - got /\ \A k \in 1..(end - got) : b[k] = bytes[got + k]
      BY <1>3, <1>4, <2>1, Part
    <2>0. SubSeq(unread, 1, m) = a
      OBVIOUS
    <2> HIDE DEF a, b
    <2>4. \A k \in 1..Len(a) : a[k] = b[k]
      <3> SUFFICES ASSUME NEW k \in 1..Len(a) PROVE a[k] = b[k]
        OBVIOUS
      <3>1. k \in 1..(m - 0) /\ k \in 1..(end - got) /\ k \in 1..(size - got) /\ 0 + k = k
        BY <1>3, <1>4, <1>6, <2>1, <2>2
      <3>2. a[k] = unread[k] /\ unread[k] = bytes[got + k] /\ b[k] = bytes[got + k]
        BY <1>5, <2>2, <2>3, <3>1
      <3> QED BY <3>2
    <2>5. Len(a) = Len(b)
      BY <1>3, <2>1, <2>2, <2>3
    <2>6. a = b
      BY <2>2, <2>3, <2>4, <2>5, SeqEqual
    <2> QED BY <2>0, <2>6 DEF b, end
  <1>8. unread' = SubSeq(bytes, (got + m) + 1, size) /\ Len(unread') = size - (got + m)
    <2> DEFINE l == Len(unread)
               a == SubSeq(unread, m + 1, l)
               from == got + m
               b == SubSeq(bytes, from + 1, size)
    <2>1. l = size - got /\ m <= l /\ l \in Nat /\ l <= Len(unread)
      BY <1>1, <1>3, <1>4, <1>5
    <2>2. from \in Nat /\ from <= size /\ size <= Len(bytes) /\ size - from = l - m
      BY <1>3, <1>4, <1>6, <2>1 DEF size
    <2> HIDE DEF l, from
    <2>3. a \in Seq(Int) /\ Len(a) = l - m /\ \A k \in 1..(l - m) : a[k] = unread[m + k]
      BY <1>3, <1>5, <2>1, Part
    <2>4. b \in Seq(Int) /\ Len(b) = size - from /\ \A k \in 1..(size - from) : b[k] = bytes[from + k]
      BY <1>3, <2>2, Part
    <2> HIDE DEF a, b
    <2>5. \A k \in 1..Len(a) : a[k] = b[k]
      <3> SUFFICES ASSUME NEW k \in 1..Len(a) PROVE a[k] = b[k]
        OBVIOUS
      <3>1. /\ k \in 1..(l - m) /\ k \in 1..(size - from) /\ m + k \in 1..(size - got)
            /\ got + (m + k) = from + k
        BY <1>3, <1>4, <2>1, <2>2, <2>3 DEF from
      <3>2. a[k] = unread[m + k] /\ unread[m + k] = bytes[got + (m + k)] /\ b[k] = bytes[from + k]
        BY <1>5, <2>3, <2>4, <3>1
      <3> QED BY <3>1, <3>2
    <2>6. Len(a) = Len(b)
      BY <2>2, <2>3, <2>4
    <2>7. a = b
      BY <2>3, <2>4, <2>5, <2>6, SeqEqual
    <2>8. unread' = a
      BY <1>1 DEF a, l
    <2> QED BY <2>4, <2>7, <2>8 DEF b, from
  <1>9. Got' = got + m
    <2>1. Got' = Len(feed'.bytes) - Len(unread')
      BY DEF Got
    <2>2. Len(feed'.bytes) = size
      BY <1>1 DEF size, bytes
    <2> QED BY <1>3, <1>4, <1>6, <1>8, <2>1, <2>2
  <1>10. StreamInv'
    BY <1>1, <1>2, <1>6, <1>8, <1>9 DEF StreamInv, size, bytes
  <1>11. ~Failed'
    BY <1>1 DEF Failed
  <1>12. OrderInv'
    BY <1>1, <1>11 DEF WireInv, OrderInv
  <1>13. BufferInv'
    <2> DEFINE n == Len(dispatched)
    <2>1. n \in 0..Len(feed.ends) /\ Keeps(feed, n, got, decoder)
      BY <1>1 DEF WireInv, OrderInv, BufferInv, got
    <2>2. m <= FillCapacity(decoder)
      <3>1. FillCapacity(decoder) \in Int
        <4>1. HoldsFrom(feed, n, got, decoder) => ~decoder.drain.on /\ Len(decoder.data) \in Nat
          BY HeldLive DEF HoldsFrom
        <4>2. ThrowsAway(feed, n, got, decoder) =>
                decoder.drain.left = feed.ends[n + 1] - got /\ decoder.data = <<>>
          BY DEF ThrowsAway, DiscardOf
        <4>3. ThrowsAway(feed, n, got, decoder) => feed.ends[n + 1] - got \in Int
          <5>1. ThrowsAway(feed, n, got, decoder) => n < Len(feed.ends)
            BY DEF ThrowsAway
          <5>2. n < Len(feed.ends) => n + 1 \in 1..Len(feed.ends)
            BY <1>3, <2>1
          <5> HIDE DEF n
          <5> QED BY <1>3, <1>4, <5>1, <5>2
        <4> HIDE DEF n
        <4>4. HoldsFrom(feed, n, got, decoder) => FillCapacity(decoder) \in Int
          BY <4>1, DecoderAssumption DEF FillCapacity, Available
        <4>5. ThrowsAway(feed, n, got, decoder) => FillCapacity(decoder) \in Int
          BY <4>2, <4>3, DecoderAssumption DEF FillCapacity, Available
        <4> QED BY <2>1, <4>4, <4>5 DEF Keeps
      <3> QED BY <1>1, <1>3, <3>1, DecoderAssumption DEF TickCapacity
    <2> HIDE DEF n
    <2>3. Keeps(feed, n, got + m, Advance(decoder, SubSeq(bytes, got + 1, got + m)))
      <3>1. got <= Len(feed.bytes) /\ got + m <= Len(feed.bytes)
        BY <1>4, <1>6 DEF size, bytes
      <3>2. Keeps(feed, n, got + m, Advance(decoder, SubSeq(feed.bytes, got + 1, got + m)))
        BY <1>2, <1>3, <1>4, <2>1, <2>2, <3>1, KeepsReceived
      <3> QED BY <3>2 DEF bytes
    <2>4. Keeps(feed', Len(dispatched'), Got', decoder')
      BY <1>1, <1>7, <1>9, <2>3 DEF n
    <2> QED BY <2>4 DEF BufferInv
  <1>14. RoomInv'
    BY <1>1 DEF RoomInv
  <1> QED BY <1>10, <1>12, <1>13, <1>14 DEF WireInv

\* A read_next() and what is dispatched of it keep the invariant.
LEMMA DispatchKeepsInv ==
  ASSUME BufferSize >= 8, WireInv, DispatchNext
  PROVE  WireInv'
  <1> DEFINE n == Len(dispatched)
             got == Got
             r == ReadNext(decoder)
  <1>1. /\ reading /\ decoder' = r[1] /\ reading' = (r[2].is \notin {"none", "error"})
        /\ dispatched' = (IF r[2].is = "none" THEN dispatched ELSE Append(dispatched, Received(r[2])))
        /\ feed' = feed /\ unread' = unread
    BY DEF DispatchNext
  <1>2. StreamInv /\ OrderInv /\ BufferInv /\ ~Failed
    BY <1>1 DEF WireInv, OrderInv
  <1>3. feed \in Feeds /\ Len(feed.ends) \in Nat
    BY <1>2, FeedsAssumption DEF StreamInv
  <1>4. n \in 0..Len(feed.ends) /\ n \in Nat /\ Keeps(feed, n, got, decoder) /\ got \in Nat /\ got <= Len(feed.bytes)
    BY <1>2, <1>3 DEF StreamInv, OrderInv, BufferInv
  <1>5. dispatched = [k \in 1..n |-> Told(feed)[k]]
    <2>1. dispatched = [k \in 1..n |-> AsSent(Arrives(feed.sent[k]))]
      BY <1>2 DEF OrderInv
    <2> HIDE DEF n
    <2> QED BY <1>4, <2>1, ToldSoFar
  <1>6. Got' = got
    BY <1>1 DEF Got
  <1>7. StreamInv'
    <2>1. reading' \in BOOLEAN
      BY <1>1
    <2>2. /\ Got' \in Nat /\ Got' <= Len(feed'.bytes) /\ feed' \in Feeds
          /\ unread' = SubSeq(feed'.bytes, Got' + 1, Len(feed'.bytes))
      BY <1>1, <1>2, <1>6 DEF StreamInv
    <2> QED BY <2>1, <2>2 DEF StreamInv
  <1> HIDE DEF n, got, r
  <1>8. Idles(feed, n, got, decoder) \/ Returns(feed, n, got, decoder) \/ RefusesLast(feed, n, decoder)
    BY <1>3, <1>4, Serves
  \* One packet more is dispatched, as it arrives.
  <1>9. ASSUME n < Len(feed.ends), r[2] = Arrives(feed.sent[n + 1]), r[2].is # "none"
        PROVE  /\ Len(dispatched') = n + 1
               /\ dispatched' = [k \in 1..Len(dispatched') |-> AsSent(Arrives(feed'.sent[k]))]
               /\ Failed' <=> r[2] = BadPacket
    <2> DEFINE k1 == n + 1
    <2>1. k1 \in 1..Len(feed.ends) /\ k1 \in Nat
      BY <1>3, <1>4, <1>9
    <2>2. Received(r[2]) = Told(feed)[k1] /\ Told(feed)[k1].packet = r[2]
      <3> HIDE DEF k1
      <3>1. /\ Received(Arrives(feed.sent[k1])) = Told(feed)[k1]
            /\ Told(feed)[k1].packet = Arrives(feed.sent[k1])
        BY <1>3, <2>1, HandsOn
      <3> QED BY <1>9, <3>1 DEF k1
    <2>3. dispatched' = Append(dispatched, Told(feed)[n + 1])
      BY <1>1, <1>9, <2>2
    <2>4. dispatched' = [k \in 1..k1 |-> Told(feed)[k]]
      BY <1>4, <1>5, <2>3, ToldAppends
    <2>5. Len(dispatched') = k1
      <3> HIDE DEF k1
      <3>1. Len([k \in 1..k1 |-> Told(feed)[k]]) = k1
        BY <2>1, ToldAppends
      <3> QED BY <2>4, <3>1
    <2>6. dispatched' = [k \in 1..Len(dispatched') |-> AsSent(Arrives(feed'.sent[k]))]
      <3> HIDE DEF k1
      <3>1. [k \in 1..k1 |-> AsSent(Arrives(feed.sent[k]))] = [k \in 1..k1 |-> Told(feed)[k]]
        BY <2>1, ToldSoFar
      <3> QED BY <1>1, <2>4, <2>5, <3>1
    <2>7. dispatched'[k1] = Told(feed)[k1]
      <3> HIDE DEF k1
      <3>1. k1 \in 1..k1
        BY <2>1
      <3> QED BY <2>4, <3>1
    <2>8. dispatched' # <<>>
      <3>1. Len(dispatched') # 0
        BY <1>4, <2>5
      <3> QED BY <3>1
    <2>9. Failed' <=> dispatched'[Len(dispatched')].packet = BadPacket
      BY <2>8 DEF Failed
    <2> QED BY <2>2, <2>5, <2>6, <2>7, <2>9
  <1>10. CASE Idles(feed, n, got, decoder)
    <2>1. r[2] = NoPacket /\ Keeps(feed, n, got, r[1]) /\ HasRoom(feed, n, got, r[1])
      BY <1>10 DEF Idles, r
    <2>2. r[2].is = "none"
      BY <2>1 DEF NoPacket
    <2>3. dispatched' = dispatched /\ reading' = FALSE
      BY <1>1, <2>2
    <2>4. ~Failed'
      BY <1>2, <2>3 DEF Failed
    <2>5. OrderInv'
      BY <1>1, <1>2, <2>3, <2>4 DEF OrderInv
    <2>6. Keeps(feed', Len(dispatched'), Got', decoder') /\ HasRoom(feed', Len(dispatched'), Got', decoder')
      BY <1>1, <1>6, <2>1, <2>3 DEF n
    <2> QED BY <1>7, <2>5, <2>6 DEF WireInv, BufferInv, RoomInv
  <1>11. CASE Returns(feed, n, got, decoder)
    <2>1. /\ n < Len(feed.ends) /\ r[2] = Arrives(feed.sent[n + 1])
          /\ Arrives(feed.sent[n + 1]).is \in {"publish", "ack", "oversized"}
          /\ Keeps(feed, n + 1, got, r[1])
      BY <1>11 DEF Returns, r
    <2>2. r[2].is \notin {"none", "error"}
      BY <2>1
    <2>3. r[2] # BadPacket
      BY <2>2 DEF BadPacket
    <2>4. /\ Len(dispatched') = n + 1 /\ ~Failed'
          /\ dispatched' = [k \in 1..Len(dispatched') |-> AsSent(Arrives(feed'.sent[k]))]
      BY <1>9, <2>1, <2>2, <2>3
    <2>5. reading' = TRUE
      BY <1>1, <2>2
    <2>6. Len(dispatched') \in 0..Len(feed'.ends)
      <3>1. n + 1 \in 0..Len(feed.ends)
        BY <1>3, <1>4, <2>1
      <3> QED BY <1>1, <2>4, <3>1
    <2>7. OrderInv'
      BY <2>4, <2>6 DEF OrderInv
    <2>8. Keeps(feed', Len(dispatched'), Got', decoder')
      BY <1>1, <1>6, <2>1, <2>4
    <2> QED BY <1>7, <2>5, <2>7, <2>8 DEF WireInv, BufferInv, RoomInv
  <1>12. CASE RefusesLast(feed, n, decoder)
    <2>1. n + 1 = Len(feed.ends) /\ r[2] = BadPacket /\ Arrives(feed.sent[n + 1]) = BadPacket
      BY <1>12 DEF RefusesLast, r
    <2>2. r[2].is = "error"
      BY <2>1 DEF BadPacket
    <2>3. n < Len(feed.ends)
      BY <1>3, <1>4, <2>1
    <2>4. /\ Len(dispatched') = n + 1 /\ Failed'
          /\ dispatched' = [k \in 1..Len(dispatched') |-> AsSent(Arrives(feed'.sent[k]))]
      BY <1>9, <2>1, <2>2, <2>3
    <2>5. reading' = FALSE
      BY <1>1, <2>2
    <2>6. Len(dispatched') \in 0..Len(feed'.ends) /\ Len(dispatched') = Len(feed'.ends)
      <3>1. n + 1 \in 0..Len(feed.ends)
        BY <1>3, <1>4, <2>1
      <3> QED BY <1>1, <2>1, <2>4, <3>1
    <2>7. OrderInv'
      BY <2>4, <2>5, <2>6 DEF OrderInv
    <2> QED BY <1>7, <2>4, <2>7 DEF WireInv, BufferInv, RoomInv
  <1> QED BY <1>8, <1>10, <1>11, <1>12

\* The invariant says what is dispatched.
LEMMA InvSaysAsSent == WireInv => PacketsAsSent
  <1> SUFFICES ASSUME WireInv PROVE PacketsAsSent
    OBVIOUS
  <1> DEFINE n == Len(dispatched)
             all == Len(feed.ends)
             expected == [k \in DOMAIN feed.ends |-> AsSent(Arrives(feed.sent[k]))]
             g == Told(feed)
  <1>1. StreamInv /\ OrderInv /\ RoomInv /\ (~Failed => Keeps(feed, n, Got, decoder))
    BY DEF WireInv, BufferInv
  <1>2. /\ feed \in Feeds /\ all \in Nat /\ feed.ends \in Seq(Nat) /\ feed.bytes \in Seq(Int)
        /\ EndOf(feed, all) = Len(feed.bytes) /\ Len(feed.bytes) \in Nat /\ BufferSize \in Nat \ {0}
    BY <1>1, FeedsAssumption, DecoderAssumption DEF StreamInv
  <1>3. n \in 0..all /\ n \in Nat /\ (Failed => n = all)
    BY <1>1, <1>2 DEF OrderInv
  <1>4. dispatched = [k \in 1..n |-> g[k]]
    <2>1. dispatched = [k \in 1..n |-> AsSent(Arrives(feed.sent[k]))]
      BY <1>1 DEF OrderInv
    <2> HIDE DEF n
    <2> QED BY <1>3, <2>1, ToldSoFar
  <1>5. expected = [k \in 1..all |-> g[k]]
    <2>1. DOMAIN feed.ends = 1..all
      BY <1>2
    <2>2. expected = [k \in 1..all |-> AsSent(Arrives(feed.sent[k]))]
      BY <2>1
    <2> HIDE DEF all, expected
    <2> QED BY <1>2, <2>2, ToldSoFar
  <1> HIDE DEF n, all, g, expected
  <1>6. Len(dispatched) = n /\ Len(expected) = all
    BY <1>2, <1>4, <1>5, <1>3, ToldAppends
  <1>7. IsPrefix(dispatched, expected)
    <2>1. n <= all
      BY <1>2, <1>3
    <2>2. SubSeq(dispatched, 1, n) = [k \in 1..n |-> g[k]]
      BY <1>3, <1>4, ToldPart
    <2>3. SubSeq(expected, 1, n) = [k \in 1..n |-> g[k]]
      BY <1>2, <1>3, <1>5, <2>1, ToldPart
    <2> QED BY <1>6, <2>1, <2>2, <2>3 DEF IsPrefix
  <1>8. unread = <<>> /\ ~reading => dispatched = expected
    <2> SUFFICES ASSUME unread = <<>>, ~reading, ~Failed PROVE n = all
      BY <1>3, <1>4, <1>5
    <2>1. n < all => Got < feed.ends[n + 1]
      BY <1>1 DEF RoomInv, HasRoom, n, all
    <2>2. Got = Len(feed.bytes)
      BY <1>2 DEF Got
    <2>3. n < all => feed.ends[n + 1] \in Nat /\ feed.ends[n + 1] <= Len(feed.bytes)
      <3> SUFFICES ASSUME n < all
                   PROVE  feed.ends[n + 1] \in Nat /\ feed.ends[n + 1] <= Len(feed.bytes)
        OBVIOUS
      <3> DEFINE k == n + 1
      <3>1. k \in 1..Len(feed.ends)
        BY <1>2, <1>3 DEF all
      <3> HIDE DEF k
      <3>2. feed.ends[k] \in Nat /\ feed.ends[k] <= Len(feed.bytes)
        BY <1>2, <3>1, FeedShape
      <3> QED BY <3>2 DEF k
    <2>4. ~(n < all)
      BY <1>2, <2>1, <2>2, <2>3
    <2> QED BY <1>2, <1>3, <2>4
  <1>9. unread # <<>> /\ ~reading /\ ~Failed /\ FillCapacity(decoder) = 0 => TooLargeUnderWay
    <2> SUFFICES ASSUME ~reading, ~Failed, FillCapacity(decoder) = 0 PROVE TooLargeUnderWay
      OBVIOUS
    <2>1. HasRoom(feed, n, Got, decoder) /\ Keeps(feed, n, Got, decoder)
      BY <1>1 DEF RoomInv, n
    <2>2. ~decoder.drain.on
      <3> SUFFICES ASSUME decoder.drain.on PROVE FALSE
        OBVIOUS
      <3>1. decoder.data = <<>> /\ decoder.drain.left \in Nat /\ decoder.drain.left > 0
        BY <2>1 DEF HasRoom
      <3>2. Available(decoder) = BufferSize
        BY <1>2, <3>1 DEF Available
      <3> QED BY <1>2, <3>1, <3>2 DEF FillCapacity
    <2>3. Len(decoder.data) \in Nat
      <3>1. ~ThrowsAway(feed, n, Got, decoder)
        BY <2>2 DEF ThrowsAway, DiscardOf
      <3>2. Held(decoder)
        BY <2>1, <3>1 DEF Keeps, HoldsFrom
      <3> QED BY <3>2, HeldLive
    <2>4. Len(decoder.data) = BufferSize
      BY <1>2, <2>2, <2>3 DEF FillCapacity, Available
    <2>5. n < all /\ EndOf(feed, n + 1) - EndOf(feed, n) > BufferSize
      BY <2>1, <2>2, <2>4 DEF HasRoom, all
    <2> QED BY <2>5 DEF TooLargeUnderWay, n, all
  <1> QED BY <1>7, <1>8, <1>9 DEF PacketsAsSent, expected

\* However the stream is cut by recv_into() and however the buffer fills up, what the
\* client dispatches is what the broker sent, in order and intact, each message goes
\* to the filters it matches, and a packet that fits is always given room
\* (PacketDecoder, topic_matches).
THEOREM DecoderFaithful ==
  ASSUME BufferSize >= 8
  PROVE  WireSpec => []PacketsAsSent
  <1>1. WireInit => WireInv
    BY InitInv
  <1>2. WireInv /\ [WireNext]_streamvars => WireInv'
    <2> SUFFICES ASSUME WireInv, [WireNext]_streamvars PROVE WireInv'
      OBVIOUS
    <2>1. CASE \E m \in 0..TickBudget : ReadInbound(m)
      BY <2>1, ReadInboundKeepsInv
    <2>2. CASE DispatchNext
      BY <2>2, DispatchKeepsInv
    <2>3. CASE UNCHANGED streamvars
      BY <2>3 DEF streamvars, WireInv, StreamInv, OrderInv, BufferInv, RoomInv, Got, Failed
    <2> QED BY <2>1, <2>2, <2>3 DEF WireNext
  <1>3. WireInv => PacketsAsSent
    BY InvSaysAsSent
  <1> QED BY <1>1, <1>2, <1>3, PTL DEF WireSpec
=============================================================================
