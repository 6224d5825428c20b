----------------------- MODULE MqttSubscriptionProofs -----------------------
(***************************************************************************)
(* Whenever a connected client with a clean session is at rest, the broker *)
(* serves exactly the subscriptions the application declared, for every    *)
(* set of topics, packet-id space, timeout and queue bound, any number of  *)
(* faults, and a broker that may refuse requests and connections.          *)
(*                                                                         *)
(* The invariant looks at the two queues between client and broker as      *)
(* wholes.  Outbox is what the client has said and the broker not yet      *)
(* read, Inbox the other way around; Asked says what the broker will serve *)
(* once it has read a queue (a later request about a topic replaces an     *)
(* earlier one).  While connected, the requests under way and the answers  *)
(* under way never outnumber the answers the client waits for; and when    *)
(* they are as many, no request has been lost: what the broker will serve, *)
(* with what is still to replay, is what is declared, unless a refusal is  *)
(* on its way.  At rest nothing is under way and nothing is awaited.       *)
(***************************************************************************)
EXTENDS MqttSystemProofs

-----------------------------------------------------------------------------
(* Counting entries of a queue                                           *)

\* How many entries of a queue have this value in that field.
Where(q, f, v) == {k \in DOMAIN q : q[k][f] = v}
Count(q, f, v) == Cardinality(Where(q, f, v))

\* The entries of a sequence are counted.
LEMMA CountType ==
  ASSUME NEW S, NEW q \in Seq(S), NEW f, NEW v
  PROVE  IsFiniteSet(Where(q, f, v)) /\ Count(q, f, v) \in Nat
  <1>1. DOMAIN q = 1..Len(q) /\ Len(q) \in Nat
    OBVIOUS
  <1>2. IsFiniteSet(1..Len(q))
    BY <1>1, FS_Interval
  <1>3. Where(q, f, v) \in SUBSET (1..Len(q))
    BY <1>1, Zenon DEF Where
  <1>4. IsFiniteSet(Where(q, f, v))
    BY <1>2, <1>3, FS_Subset
  <1> QED BY <1>4, FS_CardinalityType DEF Count

\* A concatenation has the entries of both parts.
LEMMA CountConcat ==
  ASSUME NEW q, NEW r, NEW f, NEW v, q \in Seq(Elements(q)), r \in Seq(Elements(r))
  PROVE  /\ Count(q, f, v) \in Nat /\ Count(r, f, v) \in Nat
         /\ Count(q \o r, f, v) = Count(q, f, v) + Count(r, f, v)
  <1> DEFINE s == q \o r
             m == Len(q)
             A == Where(q, f, v)
             B == Where(r, f, v)
             C == {k \in Where(s, f, v) : k > m}
             g == [k \in B |-> m + k]
  <1>1. /\ DOMAIN s = 1..(m + Len(r))
        /\ m \in Nat /\ Len(r) \in Nat /\ DOMAIN q = 1..m /\ DOMAIN r = 1..Len(r)
        /\ \A k \in 1..m : s[k] = q[k]
        /\ \A k \in 1..Len(r) : s[m + k] = r[k]
        /\ \A k \in 1..(m + Len(r)) : k \in 1..m \/ k - m \in 1..Len(r)
        /\ \A k \in 1..(m + Len(r)) : m + (k - m) = k
    BY SeqConcat
  <1>2. IsFiniteSet(A) /\ IsFiniteSet(B) /\ Count(q, f, v) \in Nat /\ Count(r, f, v) \in Nat
    BY CountType
  <1> HIDE DEF s, m
  <1>3. \A k \in B : k \in 1..Len(r) /\ r[k][f] = v
    BY <1>1 DEF Where
  <1>4. g \in Bijection(B, C)
    <2>1. \A k \in B : m + k \in C
      <3> SUFFICES ASSUME NEW k \in B PROVE m + k \in C
        OBVIOUS
      <3>1. k \in 1..Len(r) /\ r[k][f] = v
        BY <1>3
      <3>2. m + k \in 1..(m + Len(r)) /\ m + k > m
        BY <1>1, <3>1
      <3>3. s[m + k][f] = v
        BY <1>1, <3>1
      <3> QED BY <1>1, <3>2, <3>3 DEF Where
    <2>2. \A c \in C : \E k \in B : m + k = c
      <3> SUFFICES ASSUME NEW c \in C PROVE \E k \in B : m + k = c
        OBVIOUS
      <3>1. c \in 1..(m + Len(r)) /\ c > m /\ s[c][f] = v
        BY <1>1 DEF Where
      <3>2. c - m \in 1..Len(r) /\ m + (c - m) = c
        BY <1>1, <3>1
      <3>3. r[c - m][f] = v
        BY <1>1, <3>1, <3>2
      <3>4. c - m \in B
        BY <1>1, <3>2, <3>3 DEF Where
      <3> QED BY <3>2, <3>4
    <2>3. \A j, k \in B : m + j = m + k => j = k
      BY <1>1, <1>3
    <2> HIDE DEF B, C
    <2> QED BY <2>1, <2>2, <2>3 DEF Bijection, Injection, Surjection, IsInjective
  <1>5. IsFiniteSet(C) /\ Cardinality(C) = Cardinality(B)
    <2>1. ExistsBijection(B, C)
      BY <1>4, Zenon DEF ExistsBijection
    <2> HIDE DEF B, C
    <2> QED BY <1>2, <2>1, FS_Bijection
  <1>6. Where(s, f, v) = A \cup C
    <2>1. \A k \in 1..m : k \in 1..(m + Len(r)) /\ ~(k > m)
      BY <1>1
    <2>2. \A k \in 1..(m + Len(r)) : k \notin 1..m => k > m
      BY <1>1
    <2> QED BY <1>1, <2>1, <2>2 DEF Where
  <1>7. A \cap C = {}
    <2>1. \A k \in 1..m : ~(k > m)
      BY <1>1
    <2> QED BY <1>1, <2>1 DEF Where
  <1>8. Cardinality(A \cup C) = Cardinality(A) + Cardinality(C) - Cardinality(A \cap C)
    <2> HIDE DEF A, C
    <2> QED BY <1>2, <1>5, FS_Union
  <1>9. Cardinality(A \cap C) = 0
    BY <1>7, FS_EmptySet
  <1>10. /\ Count(q, f, v) = Cardinality(A) /\ Count(r, f, v) = Cardinality(B)
         /\ Count(s, f, v) = Cardinality(A \cup C)
    BY <1>6, Zenon DEF Count
  <1> HIDE DEF A, B, C
  <1>11. Count(s, f, v) = Count(q, f, v) + Count(r, f, v)
    BY <1>2, <1>5, <1>8, <1>9, <1>10
  <1> QED BY <1>2, <1>11 DEF s

\* Queues of none or one.
LEMMA CountFew ==
  /\ \A f, v : Count(<<>>, f, v) = 0
  /\ \A p, f, v : Count(<<p>>, f, v) = IF p[f] = v THEN 1 ELSE 0
  <1>1. \A f, v : Where(<<>>, f, v) = {}
    BY DEF Where
  <1>2. \A f, v : Count(<<>>, f, v) = 0
    BY <1>1, FS_EmptySet DEF Count
  <1>3. ASSUME NEW p, NEW f, NEW v PROVE Count(<<p>>, f, v) = IF p[f] = v THEN 1 ELSE 0
    <2>1. DOMAIN <<p>> = {1} /\ <<p>>[1] = p
      OBVIOUS
    <2>2. CASE p[f] = v
      <3>1. Where(<<p>>, f, v) = {1}
        BY <2>1, <2>2, Zenon DEF Where
      <3> QED BY <2>2, <3>1, FS_Singleton DEF Count
    <2>3. CASE p[f] # v
      <3>1. Where(<<p>>, f, v) = {}
        BY <2>1, <2>3, Zenon DEF Where
      <3> QED BY <2>3, <3>1, FS_EmptySet DEF Count
    <2> QED BY <2>2, <2>3
  <1> QED BY <1>2, <1>3, Zenon

\* Any sequence is one of its elements.
LEMMA Plaits ==
  ASSUME NEW q, q \in Seq(Elements(q))
  PROVE  /\ \A p : Append(q, p) = q \o <<p>> /\ Append(q, p) \in Seq(Elements(Append(q, p)))
         /\ q # <<>> => /\ q = <<Head(q)>> \o Tail(q)
                        /\ Tail(q) \in Seq(Elements(Tail(q)))
  <1>1. ASSUME NEW p PROVE Append(q, p) = q \o <<p>> /\ Append(q, p) \in Seq(Elements(Append(q, p)))
    <2> DEFINE T == Elements(q) \cup {p}
    <2>1. q \in Seq(T) /\ p \in T
      OBVIOUS
    <2> HIDE DEF T
    <2>2. Append(q, p) = q \o <<p>> /\ Append(q, p) \in Seq(T)
      BY <2>1
    <2> QED BY <2>2, SeqOfElements
  <1>2. ASSUME q # <<>> PROVE q = <<Head(q)>> \o Tail(q) /\ Tail(q) \in Seq(Elements(Tail(q)))
    <2>1. q = <<Head(q)>> \o Tail(q) /\ Tail(q) \in Seq(Elements(q))
      BY <1>2
    <2> QED BY <2>1, SeqOfElements
  <1> QED BY <1>1, <1>2

-----------------------------------------------------------------------------
(* What a queue of requests asks for                                     *)

\* What a broker serves once it has taken one packet, and a whole queue.
Effect(p, s) ==
    IF p.type = "subscribe" THEN s \cup {p.topic}
    ELSE IF p.type = "unsubscribe" THEN s \ {p.topic} ELSE s
About(p, t) == p.type \in {"subscribe", "unsubscribe"} /\ p.topic = t
Lasting(q) == {k \in DOMAIN q : /\ q[k].type = "subscribe"
                                /\ \A j \in DOMAIN q : j > k => ~About(q[j], q[k].topic)}
Left1(q, s) == {t \in s : \A k \in DOMAIN q : ~About(q[k], t)}
Asked(q, s) == Left1(q, s) \cup {q[k].topic : k \in Lasting(q)}

\* A queue is taken part by part.
LEMMA AskedConcat ==
  ASSUME NEW q, NEW r, NEW b, q \in Seq(Elements(q)), r \in Seq(Elements(r))
  PROVE  Asked(q \o r, b) = Asked(r, Asked(q, b))
  <1> DEFINE s == q \o r
             m == Len(q)
             n == Len(r)
  <1>1. /\ DOMAIN s = 1..(m + n)
        /\ m \in Nat /\ n \in Nat /\ DOMAIN q = 1..m /\ DOMAIN r = 1..n
        /\ \A k \in 1..m : s[k] = q[k]
        /\ \A k \in 1..n : s[m + k] = r[k]
        /\ \A k \in 1..(m + n) : k \in 1..m \/ k - m \in 1..n
        /\ \A k \in 1..(m + n) : m + (k - m) = k
    BY SeqConcat
  <1> HIDE DEF s, m, n
  <1>2. /\ \A k \in 1..m : k \in 1..(m + n)
        /\ \A k \in 1..n : m + k \in 1..(m + n)
        /\ \A k \in 1..m, j \in 1..n : m + j > k
        /\ \A k \in 1..n, j \in 1..n : m + j > m + k <=> j > k
        /\ \A k \in 1..m, j \in 1..n : ~(k > m + j)
    BY <1>1
  <1>3. \A k \in 1..(m + n) : k \in 1..m \/ \E j \in 1..n : k = m + j
    <2> SUFFICES ASSUME NEW k \in 1..(m + n), k \notin 1..m PROVE \E j \in 1..n : k = m + j
      BY Zenon
    <2>1. k - m \in 1..n /\ k = m + (k - m)
      BY <1>1
    <2> QED BY <2>1
  <1>5. Left1(s, b) = Left1(r, Left1(q, b))
    <2>1. ASSUME NEW t
          PROVE  (\A k \in 1..(m + n) : ~About(s[k], t))
                   <=> (\A k \in 1..m : ~About(q[k], t)) /\ (\A k \in 1..n : ~About(r[k], t))
      <3>1. ASSUME \A k \in 1..(m + n) : ~About(s[k], t)
            PROVE  (\A k \in 1..m : ~About(q[k], t)) /\ (\A k \in 1..n : ~About(r[k], t))
        BY <1>1, <1>2, <3>1
      <3>2. ASSUME \A k \in 1..m : ~About(q[k], t), \A k \in 1..n : ~About(r[k], t)
            PROVE  \A k \in 1..(m + n) : ~About(s[k], t)
        BY <1>1, <1>3, <3>2
      <3> QED BY <3>1, <3>2
    <2> QED BY <1>1, <2>1 DEF Left1
  <1>6. \A k \in 1..n : m + k \in Lasting(s) <=> k \in Lasting(r)
    <2> SUFFICES ASSUME NEW k \in 1..n PROVE m + k \in Lasting(s) <=> k \in Lasting(r)
      OBVIOUS
    <2>1. ASSUME m + k \in Lasting(s) PROVE k \in Lasting(r)
      <3>1. \A j \in 1..n : j > k => ~About(r[j], r[k].topic)
        BY <1>1, <1>2, <2>1 DEF Lasting
      <3> QED BY <1>1, <1>2, <2>1, <3>1 DEF Lasting
    <2>2. ASSUME k \in Lasting(r) PROVE m + k \in Lasting(s)
      <3>1. \A j \in 1..(m + n) : j > m + k => ~About(s[j], r[k].topic)
        <4> SUFFICES ASSUME NEW j \in 1..(m + n), j > m + k PROVE ~About(s[j], r[k].topic)
          OBVIOUS
        <4>1. PICK i \in 1..n : j = m + i
          BY <1>2, <1>3
        <4> QED BY <1>1, <1>2, <2>2, <4>1 DEF Lasting
      <3> QED BY <1>1, <1>2, <2>2, <3>1 DEF Lasting
    <2> QED BY <2>1, <2>2
  <1>7. \A k \in 1..m : k \in Lasting(s) <=>
           k \in Lasting(q) /\ \A j \in 1..n : ~About(r[j], q[k].topic)
    <2> SUFFICES ASSUME NEW k \in 1..m
                 PROVE  k \in Lasting(s) <=>
                          k \in Lasting(q) /\ \A j \in 1..n : ~About(r[j], q[k].topic)
      OBVIOUS
    <2>1. ASSUME k \in Lasting(s)
          PROVE  k \in Lasting(q) /\ \A j \in 1..n : ~About(r[j], q[k].topic)
      <3>1. \A j \in 1..m : j > k => ~About(q[j], q[k].topic)
        BY <1>1, <1>2, <2>1 DEF Lasting
      <3>2. \A j \in 1..n : ~About(r[j], q[k].topic)
        <4> SUFFICES ASSUME NEW j \in 1..n PROVE ~About(r[j], q[k].topic)
          OBVIOUS
        <4>1. m + j \in 1..(m + n) /\ m + j > k
          BY <1>2
        <4>2. ~About(s[m + j], s[k].topic)
          BY <1>1, <2>1, <4>1 DEF Lasting
        <4> QED BY <1>1, <4>2
      <3> QED BY <1>1, <1>2, <2>1, <3>1, <3>2 DEF Lasting
    <2>2. ASSUME k \in Lasting(q), \A j \in 1..n : ~About(r[j], q[k].topic)
          PROVE  k \in Lasting(s)
      <3>1. \A j \in 1..(m + n) : j > k => ~About(s[j], q[k].topic)
        <4> SUFFICES ASSUME NEW j \in 1..(m + n), j > k PROVE ~About(s[j], q[k].topic)
          OBVIOUS
        <4>1. CASE j \in 1..m
          BY <1>1, <2>2, <4>1 DEF Lasting
        <4>2. ASSUME NEW i \in 1..n, j = m + i PROVE ~About(s[j], q[k].topic)
          BY <1>1, <2>2, <4>2
        <4> QED BY <1>3, <4>1, <4>2
      <3> QED BY <1>1, <1>2, <2>2, <3>1 DEF Lasting
    <2> QED BY <2>1, <2>2
  <1>8. ASSUME NEW t
        PROVE  (\E k \in Lasting(s) : s[k].topic = t) <=>
                  \/ \E k \in Lasting(r) : r[k].topic = t
                  \/ /\ \E k \in Lasting(q) : q[k].topic = t
                     /\ \A j \in 1..n : ~About(r[j], t)
    <2>1. /\ \A k \in Lasting(s) : k \in 1..(m + n)
          /\ \A k \in Lasting(q) : k \in 1..m
          /\ \A k \in Lasting(r) : k \in 1..n
      BY <1>1 DEF Lasting
    <2>2. ASSUME NEW k \in Lasting(s), s[k].topic = t
          PROVE  \/ \E j \in Lasting(r) : r[j].topic = t
                 \/ /\ \E j \in Lasting(q) : q[j].topic = t
                    /\ \A j \in 1..n : ~About(r[j], t)
      <3>1. CASE k \in 1..m
        BY <1>1, <1>7, <2>2, <3>1
      <3>2. ASSUME NEW j \in 1..n, k = m + j PROVE \E i \in Lasting(r) : r[i].topic = t
        BY <1>1, <1>6, <2>2, <3>2
      <3> QED BY <1>3, <2>1, <3>1, <3>2, Zenon
    <2>3. ASSUME NEW k \in Lasting(r), r[k].topic = t PROVE \E j \in Lasting(s) : s[j].topic = t
      BY <1>1, <1>6, <2>1, <2>3
    <2>4. ASSUME NEW k \in Lasting(q), q[k].topic = t, \A j \in 1..n : ~About(r[j], t)
          PROVE  \E j \in Lasting(s) : s[j].topic = t
      BY <1>1, <1>7, <2>1, <2>4
    <2> QED BY <2>2, <2>3, <2>4, Zenon
  <1>9. ASSUME NEW t PROVE t \in Asked(s, b) <=> t \in Asked(r, Asked(q, b))
    <2>1. t \in Asked(s, b) <=> t \in Left1(s, b) \/ \E k \in Lasting(s) : s[k].topic = t
      BY Zenon DEF Asked
    <2>2. t \in Asked(q, b) <=> t \in Left1(q, b) \/ \E k \in Lasting(q) : q[k].topic = t
      BY Zenon DEF Asked
    <2>3. t \in Asked(r, Asked(q, b)) <=>
             \/ t \in Asked(q, b) /\ \A j \in 1..n : ~About(r[j], t)
             \/ \E k \in Lasting(r) : r[k].topic = t
      BY <1>1, Zenon DEF Asked, Left1
    <2>4. t \in Left1(s, b) <=> t \in Left1(q, b) /\ \A j \in 1..n : ~About(r[j], t)
      BY <1>1, <1>5, Zenon DEF Left1
    <2> QED BY <1>8, <2>1, <2>2, <2>3, <2>4, Zenon
  <1>10. Asked(s, b) = Asked(r, Asked(q, b))
    BY <1>9, Zenon
  <1> QED BY <1>10 DEF s

\* Queues of none or one.
LEMMA AskedFew ==
  /\ \A b : Asked(<<>>, b) = b
  /\ \A p, b : Asked(<<p>>, b) = Effect(p, b)
  <1>1. ASSUME NEW b PROVE Asked(<<>>, b) = b
    <2>1. DOMAIN <<>> = {}
      OBVIOUS
    <2>2. Lasting(<<>>) = {} /\ Left1(<<>>, b) = b
      BY <2>1, Zenon DEF Lasting, Left1
    <2> QED BY <2>2, Zenon DEF Asked
  <1>2. ASSUME NEW p, NEW b PROVE Asked(<<p>>, b) = Effect(p, b)
    <2>1. DOMAIN <<p>> = {1} /\ <<p>>[1] = p /\ ~(1 > 1)
      OBVIOUS
    <2>2. Lasting(<<p>>) = IF p.type = "subscribe" THEN {1} ELSE {}
      BY <2>1 DEF Lasting
    <2>3. Left1(<<p>>, b) = {t \in b : ~About(p, t)}
      BY <2>1, Zenon DEF Left1
    <2>4. CASE p.type = "subscribe"
      BY <2>1, <2>2, <2>3, <2>4 DEF Asked, About, Effect
    <2>5. CASE p.type = "unsubscribe"
      BY <2>1, <2>2, <2>3, <2>5 DEF Asked, About, Effect
    <2>6. CASE p.type # "subscribe" /\ p.type # "unsubscribe"
      BY <2>1, <2>2, <2>3, <2>6 DEF Asked, About, Effect
    <2> QED BY <2>4, <2>5, <2>6
  <1> QED BY <1>1, <1>2

-----------------------------------------------------------------------------
(* What the client waits for                                             *)

\* What the client waits for.
Awaitable == {"connack", "suback", "unsuback", "pingresp"}
Responses == [await : Awaitable, id : Int, topic : Topics \cup {NoTopic}, left : Int]
PendingType == pending \in Seq(Responses)

\* A response that was not waited for any more.
LEMMA WithoutType ==
  ASSUME PendingType, NEW k \in DOMAIN pending
  PROVE  /\ Without(pending, k) \in Seq(Responses)
         /\ pending = (SubSeq(pending, 1, k - 1) \o <<pending[k]>>) \o SubSeq(pending, k + 1, Len(pending))
         /\ SubSeq(pending, 1, k - 1) \in Seq(Responses)
         /\ SubSeq(pending, k + 1, Len(pending)) \in Seq(Responses)
         /\ pending[k] \in Responses
  <1> DEFINE n == Len(pending)
             a == SubSeq(pending, 1, k - 1)
             c == SubSeq(pending, k + 1, n)
             s == (a \o <<pending[k]>>) \o c
  <1>1. k \in 1..n /\ n \in Nat /\ pending \in [1..n -> Responses] /\ pending[k] \in Responses
    BY DEF PendingType
  <1>2. /\ a \in Seq(Responses) /\ c \in Seq(Responses) /\ Len(a) = k - 1 /\ Len(c) = n - k
        /\ \A j \in 1..(k - 1) : a[j] = pending[j]
        /\ \A j \in 1..(n - k) : c[j] = pending[k + j]
    BY <1>1 DEF PendingType
  <1>3. a \o c \in Seq(Responses)
    BY <1>2
  <1> DEFINE b == a \o <<pending[k]>>
  <1>4. /\ b \in Seq(Responses) /\ Len(b) = k
        /\ \A j \in 1..k : b[j] = pending[j]
    <2> HIDE DEF a, c, n
    <2>1. <<pending[k]>> \in Seq(Responses)
      BY <1>1
    <2>2. b \in Seq(Responses) /\ Len(b) = k
      BY <1>1, <1>2, <2>1
    <2>3. \A j \in 1..k : b[j] = pending[j]
      <3> SUFFICES ASSUME NEW j \in 1..k PROVE b[j] = pending[j]
        OBVIOUS
      <3>1. CASE j = k
        BY <1>1, <1>2, <3>1
      <3>2. CASE j # k
        <4>1. j \in 1..(k - 1)
          BY <1>1, <3>2
        <4> QED BY <1>1, <1>2, <4>1
      <3> QED BY <3>1, <3>2
    <2> QED BY <2>2, <2>3
  <1>5. b \o c = pending
    <2> HIDE DEF a, b, c, n
    <2>1. b \o c \in Seq(Responses) /\ Len(b \o c) = n
      <3>1. b \o c \in Seq(Responses) /\ Len(b \o c) = Len(b) + Len(c)
        BY <1>2, <1>4
      <3>2. k + (n - k) = n
        BY <1>1
      <3> QED BY <1>2, <1>4, <3>1, <3>2
    <2>2. \A j \in 1..n : (b \o c)[j] = pending[j]
      <3> SUFFICES ASSUME NEW j \in 1..n PROVE (b \o c)[j] = pending[j]
        OBVIOUS
      <3>1. CASE j \in 1..k
        BY <1>1, <1>2, <1>4, <3>1
      <3>2. CASE j \notin 1..k
        <4>1. j - k \in 1..(n - k) /\ k + (j - k) = j
          BY <1>1, <3>2
        <4>2. (b \o c)[j] = c[j - k]
          BY <1>1, <1>2, <1>4, <3>2
        <4> QED BY <1>2, <4>1, <4>2
      <3> QED BY <3>1, <3>2
    <2>3. pending \in Seq(Responses) /\ Len(pending) = n
      BY DEF PendingType, n
    <2> QED BY <2>1, <2>2, <2>3
  <1> QED BY <1>1, <1>2, <1>3, <1>5 DEF Without

\* What is discarded is one response of its kind, or none.
LEMMA DiscardFacts ==
  ASSUME PendingType, NEW kind, NEW i
  PROVE  /\ Discard(kind, i) \in Seq(Responses)
         /\ \A v : v # kind => Count(Discard(kind, i), "await", v) = Count(pending, "await", v)
         /\ (\E k \in DOMAIN pending : Matches(kind, i, k)) =>
               Count(Discard(kind, i), "await", kind) + 1 = Count(pending, "await", kind)
         /\ ~(\E k \in DOMAIN pending : Matches(kind, i, k)) => Discard(kind, i) = pending
  <1>1. CASE ~\E k \in DOMAIN pending : Matches(kind, i, k)
    <2>1. Discard(kind, i) = pending
      BY <1>1, Zenon DEF Discard
    <2> QED BY <1>1, <2>1 DEF PendingType
  <1>2. CASE \E k \in DOMAIN pending : Matches(kind, i, k)
    <2> DEFINE First(k) == /\ Matches(kind, i, k)
                           /\ \A j \in 1..(k - 1) : ~Matches(kind, i, j)
    <2>1. \E k \in DOMAIN pending : First(k)
      <3> DEFINE P == {k \in Nat : k \in DOMAIN pending /\ Matches(kind, i, k)}
      <3>1. DOMAIN pending = 1..Len(pending) /\ Len(pending) \in Nat
        BY DEF PendingType
      <3>2. P # {} /\ P \subseteq Nat
        BY <1>2, <3>1
      <3>3. PICK k \in P : \A j \in P : <<j, k>> \notin OpToRel(<, Nat)
        <4> HIDE DEF P
        <4> QED BY <3>2, NatLessThanWellFounded, WFMin
      <3>4. \A j \in 1..(k - 1) : j \in Nat /\ j < k /\ j \in DOMAIN pending
        BY <3>1
      <3>5. \A j \in 1..(k - 1) : ~Matches(kind, i, j)
        BY <3>3, <3>4 DEF OpToRel
      <3> QED BY <3>5, Zenon
    <2>2. PICK k \in DOMAIN pending : First(k) /\ Discard(kind, i) = Without(pending, k)
      <3> DEFINE c == CHOOSE k \in DOMAIN pending : First(k)
      <3>1. c \in DOMAIN pending /\ First(c)
        BY <2>1, Zenon
      <3>2. Discard(kind, i) = Without(pending, c)
        BY <1>2, Zenon DEF Discard
      <3> HIDE DEF c
      <3> QED BY <3>1, <3>2, Zenon
    <2> DEFINE a == SubSeq(pending, 1, k - 1)
               c == SubSeq(pending, k + 1, Len(pending))
               p == pending[k]
    <2>3. /\ Without(pending, k) \in Seq(Responses) /\ pending = (a \o <<p>>) \o c
          /\ a \in Seq(Responses) /\ c \in Seq(Responses) /\ p \in Responses
          /\ Without(pending, k) = a \o c
      BY WithoutType, Zenon DEF Without
    <2>4. p["await"] = kind
      BY <2>2 DEF Matches
    <2> HIDE DEF a, c, p
    <2>5. /\ a \in Seq(Elements(a)) /\ c \in Seq(Elements(c)) /\ <<p>> \in Seq(Elements(<<p>>))
          /\ a \o <<p>> \in Seq(Elements(a \o <<p>>))
      <3>1. a \o <<p>> \in Seq(Responses)
        BY <2>3
      <3> QED BY <2>3, <3>1, SeqOfElements, HasFew
    <2>c. \A x, y, v : x \in Seq(Elements(x)) /\ y \in Seq(Elements(y)) =>
             /\ Count(x, "await", v) \in Nat /\ Count(y, "await", v) \in Nat
             /\ Count(x \o y, "await", v) = Count(x, "await", v) + Count(y, "await", v)
      BY CountConcat
    <2>6. ASSUME NEW v
          PROVE  /\ Count(a \o c, "await", v) = Count(a, "await", v) + Count(c, "await", v)
                 /\ Count(pending, "await", v)
                      = Count(a, "await", v) + Count(<<p>>, "await", v) + Count(c, "await", v)
                 /\ Count(a, "await", v) \in Nat /\ Count(c, "await", v) \in Nat
                 /\ Count(<<p>>, "await", v) = IF kind = v THEN 1 ELSE 0
      <3>1. /\ Count(a \o c, "await", v) = Count(a, "await", v) + Count(c, "await", v)
            /\ Count(a, "await", v) \in Nat /\ Count(c, "await", v) \in Nat
        BY <2>5, <2>c
      <3>2. Count(a \o <<p>>, "await", v) = Count(a, "await", v) + Count(<<p>>, "await", v)
        BY <2>5, <2>c
      <3>3. Count((a \o <<p>>) \o c, "await", v)
               = Count(a \o <<p>>, "await", v) + Count(c, "await", v)
        BY <2>5, <2>c
      <3>4. Count(<<p>>, "await", v) = IF kind = v THEN 1 ELSE 0
        <4>1. Count(<<p>>, "await", v) = IF p["await"] = v THEN 1 ELSE 0
          BY CountFew, Zenon
        <4> QED BY <2>4, <4>1
      <3> QED BY <2>3, <3>1, <3>2, <3>3, <3>4
    <2>7. Discard(kind, i) = a \o c
      BY <2>2, <2>3, Zenon
    <2>8. ASSUME NEW v, v # kind
          PROVE  Count(Discard(kind, i), "await", v) = Count(pending, "await", v)
      BY <2>6, <2>7, <2>8
    <2>9. Count(Discard(kind, i), "await", kind) + 1 = Count(pending, "await", kind)
      BY <2>6, <2>7
    <2> QED BY <1>2, <2>2, <2>3, <2>8, <2>9
  <1> QED BY <1>1, <1>2

-----------------------------------------------------------------------------
(* Joined queues                                                         *)

Tracked(q) == q \in Seq(Elements(q))

\* Queues joined.
LEMMA Joined ==
  ASSUME NEW q, NEW r, NEW s, Tracked(q), Tracked(r), Tracked(s)
  PROVE  /\ Tracked(q \o r)
         /\ (q \o r) \o s = q \o (r \o s)
         /\ q \o <<>> = q /\ <<>> \o q = q
  <1> DEFINE T == (Elements(q) \cup Elements(r)) \cup Elements(s)
  <1>1. q \in Seq(T) /\ r \in Seq(T) /\ s \in Seq(T)
    BY DEF Tracked
  <1> HIDE DEF T
  <1>2. q \o r \in Seq(T) /\ (q \o r) \o s = q \o (r \o s) /\ q \o <<>> = q /\ <<>> \o q = q
    BY <1>1
  <1> QED BY <1>2, SeqOfElements DEF Tracked

\* What a client asks of a broker.
Asks == {"connect", "subscribe", "unsubscribe"}
Silent(q) == \A t \in Asks : ~Has(q, t)

\* A silent queue asks nothing of anyone.
LEMMA SilentFacts ==
  ASSUME NEW s, Silent(s)
  PROVE  (\A b : Asked(s, b) = b) /\ Count(s, "type", "subscribe") = 0
  <1>1. \A k \in DOMAIN s : s[k].type # "subscribe" /\ s[k].type # "unsubscribe"
    BY DEF Silent, Asks, Has
  <1>2. Where(s, "type", "subscribe") = {}
    BY <1>1 DEF Where
  <1>3. Count(s, "type", "subscribe") = 0
    BY <1>2, FS_EmptySet DEF Count
  <1>4. Lasting(s) = {} /\ \A b : Left1(s, b) = b
    BY <1>1 DEF Lasting, Left1, About
  <1>5. \A b : Asked(s, b) = b
    <2>1. \A b : Left1(s, b) \cup {s[k].topic : k \in {}} = b
      BY <1>4
    <2> QED BY <1>4, <2>1, Zenon DEF Asked
  <1> QED BY <1>3, <1>5

\* Two queues that ask the same.
Alike(q, r) ==
  /\ \A b : Asked(q, b) = Asked(r, b)
  /\ Count(q, "type", "subscribe") = Count(r, "type", "subscribe")
  /\ \A t \in Asks : Has(q, t) <=> Has(r, t)

\* A silent packet may be put anywhere.
LEMMA SilentInside ==
  ASSUME NEW q, NEW s, NEW r, Tracked(q), Tracked(s), Tracked(r), Silent(s)
  PROVE  Alike(q \o (s \o r), q \o r)
  <1> DEFINE u == s \o r
  <1>1. Tracked(u)
    BY Joined
  <1> HIDE DEF u
  <1>2. \A b : Asked(q \o u, b) = Asked(u, Asked(q, b)) /\ Asked(q \o r, b) = Asked(r, Asked(q, b))
    BY <1>1, AskedConcat DEF Tracked
  <1>3. \A b : Asked(u, b) = Asked(r, b)
    <2>1. \A b : Asked(s \o r, b) = Asked(r, Asked(s, b))
      BY AskedConcat DEF Tracked
    <2> QED BY <2>1, SilentFacts, Zenon DEF u
  <1>c. \A x, y, v : Tracked(x) /\ Tracked(y) =>
           /\ Count(x, "type", v) \in Nat /\ Count(y, "type", v) \in Nat
           /\ Count(x \o y, "type", v) = Count(x, "type", v) + Count(y, "type", v)
    BY CountConcat DEF Tracked
  <1>h. \A x, y, t : Tracked(x) /\ Tracked(y) => (Has(x \o y, t) <=> Has(x, t) \/ Has(y, t))
    BY HasConcat DEF Tracked
  <1>4. Count(u, "type", "subscribe") = Count(r, "type", "subscribe")
    <2>1. /\ Count(s \o r, "type", "subscribe") = 0 + Count(r, "type", "subscribe")
          /\ Count(r, "type", "subscribe") \in Nat
      BY <1>c, SilentFacts
    <2> QED BY <2>1 DEF u
  <1>5. \A t \in Asks : Has(u, t) <=> Has(r, t)
    BY <1>h, Zenon DEF u, Silent
  <1>6. Count(q \o u, "type", "subscribe") = Count(q \o r, "type", "subscribe")
    BY <1>1, <1>4, <1>c
  <1>7. \A t \in Asks : Has(q \o u, t) <=> Has(q \o r, t)
    BY <1>1, <1>5, <1>h, Zenon
  <1>8. \A b : Asked(q \o u, b) = Asked(q \o r, b)
    BY <1>2, <1>3, Zenon
  <1> QED BY <1>6, <1>7, <1>8 DEF Alike, u

\* What a packet of the broker says of a request.
Verdict(p) == IF p.type = "suback" /\ ~p.granted THEN "refused"
              ELSE IF p.type = "connack" /\ p.code = "accepted" THEN "accepted" ELSE "none"
Says(q, v) == \E k \in DOMAIN q : Verdict(q[k]) = v

\* What is said in a concatenation is said in one of its parts.
LEMMA SaysConcat ==
  ASSUME NEW q, NEW r, NEW v, Tracked(q), Tracked(r)
  PROVE  Says(q \o r, v) <=> Says(q, v) \/ Says(r, v)
  <1> DEFINE s == q \o r
  <1>1. /\ DOMAIN s = 1..(Len(q) + Len(r))
        /\ Len(q) \in Nat /\ Len(r) \in Nat /\ DOMAIN q = 1..Len(q) /\ DOMAIN r = 1..Len(r)
        /\ \A k \in 1..Len(q) : s[k] = q[k]
        /\ \A k \in 1..Len(r) : s[Len(q) + k] = r[k]
        /\ \A k \in 1..(Len(q) + Len(r)) : k \in 1..Len(q) \/ k - Len(q) \in 1..Len(r)
        /\ \A k \in 1..(Len(q) + Len(r)) : Len(q) + (k - Len(q)) = k
    BY SeqConcat DEF Tracked
  <1> HIDE DEF s
  <1>4. ASSUME Says(s, v) PROVE Says(q, v) \/ Says(r, v)
    <2>1. PICK k \in 1..(Len(q) + Len(r)) : Verdict(s[k]) = v
      BY <1>1, <1>4, Zenon DEF Says
    <2>2. CASE k \in 1..Len(q)
      BY <1>1, <2>1, <2>2, Zenon DEF Says
    <2>3. CASE k - Len(q) \in 1..Len(r)
      <3>1. r[k - Len(q)] = s[k]
        BY <1>1, <2>1, <2>3
      <3> QED BY <1>1, <2>1, <2>3, <3>1, Zenon DEF Says
    <2> QED BY <1>1, <2>1, <2>2, <2>3
  <1>5. Says(q, v) => Says(s, v)
    <2>1. \A k \in 1..Len(q) : k \in 1..(Len(q) + Len(r))
      BY <1>1
    <2> QED BY <1>1, <2>1, Zenon DEF Says
  <1>6. Says(r, v) => Says(s, v)
    <2>1. \A k \in 1..Len(r) : Len(q) + k \in 1..(Len(q) + Len(r))
      BY <1>1
    <2> QED BY <1>1, <2>1, Zenon DEF Says
  <1> QED BY <1>4, <1>5, <1>6 DEF s

\* What queues of none or one say.
LEMMA SaysFew ==
  /\ \A v : ~Says(<<>>, v)
  /\ \A p, v : Says(<<p>>, v) <=> Verdict(p) = v
  <1>1. \A p : DOMAIN <<p>> = {1} /\ <<p>>[1] = p
    OBVIOUS
  <1>2. DOMAIN <<>> = {}
    OBVIOUS
  <1> QED BY <1>1, <1>2, Zenon DEF Says

\* The same for all queues.
LEMMA OfAll ==
  \A x, y : Tracked(x) /\ Tracked(y) =>
     /\ \A b : Asked(x \o y, b) = Asked(y, Asked(x, b))
     /\ \A f, v : /\ Count(x, f, v) \in Nat /\ Count(y, f, v) \in Nat
                  /\ Count(x \o y, f, v) = Count(x, f, v) + Count(y, f, v)
     /\ \A t : Has(x \o y, t) <=> Has(x, t) \/ Has(y, t)
     /\ \A v : Says(x \o y, v) <=> Says(x, v) \/ Says(y, v)
  <1> SUFFICES ASSUME NEW x, NEW y, Tracked(x), Tracked(y)
               PROVE  /\ \A b : Asked(x \o y, b) = Asked(y, Asked(x, b))
                      /\ \A f, v : /\ Count(x, f, v) \in Nat /\ Count(y, f, v) \in Nat
                                   /\ Count(x \o y, f, v) = Count(x, f, v) + Count(y, f, v)
                      /\ \A t : Has(x \o y, t) <=> Has(x, t) \/ Has(y, t)
                      /\ \A v : Says(x \o y, v) <=> Says(x, v) \/ Says(y, v)
    OBVIOUS
  <1>1. \A b : Asked(x \o y, b) = Asked(y, Asked(x, b))
    BY AskedConcat DEF Tracked
  <1>2. \A f, v : /\ Count(x, f, v) \in Nat /\ Count(y, f, v) \in Nat
                 /\ Count(x \o y, f, v) = Count(x, f, v) + Count(y, f, v)
    BY CountConcat DEF Tracked
  <1>3. \A t : Has(x \o y, t) <=> Has(x, t) \/ Has(y, t)
    BY HasConcat DEF Tracked
  <1>4. \A v : Says(x \o y, v) <=> Says(x, v) \/ Says(y, v)
    BY SaysConcat
  <1> QED BY <1>1, <1>2, <1>3, <1>4

\* A packet before a queue, and one after it.
LEMMA FirstOf ==
  ASSUME NEW p, NEW q, Tracked(q)
  PROVE  /\ Tracked(<<p>> \o q) /\ Tail(<<p>> \o q) = q /\ <<p>> \o q # <<>>
         /\ \A b : Asked(<<p>> \o q, b) = Asked(q, Effect(p, b))
         /\ \A v : /\ Count(q, "type", v) \in Nat
                   /\ Count(<<p>> \o q, "type", v) = (IF p.type = v THEN 1 ELSE 0) + Count(q, "type", v)
         /\ \A t : Has(<<p>> \o q, t) <=> p.type = t \/ Has(q, t)
         /\ \A v : Says(<<p>> \o q, v) <=> Verdict(p) = v \/ Says(q, v)
  <1>1. Tracked(<<p>>)
    BY HasFew DEF Tracked
  <1>2. Tracked(<<p>> \o q)
    BY <1>1, Joined
  <1>3. Tail(<<p>> \o q) = q /\ <<p>> \o q # <<>>
    <2> DEFINE T == Elements(q) \cup {p}
    <2>1. q \in Seq(T) /\ p \in T
      BY DEF Tracked
    <2> HIDE DEF T
    <2> QED BY <2>1
  <1>4. \A b : Asked(<<p>> \o q, b) = Asked(q, Effect(p, b))
    <2>1. \A b : Asked(<<p>> \o q, b) = Asked(q, Asked(<<p>>, b))
      BY <1>1, OfAll, Zenon
    <2> QED BY <2>1, AskedFew, Zenon
  <1>5. ASSUME NEW v
        PROVE  /\ Count(q, "type", v) \in Nat
               /\ Count(<<p>> \o q, "type", v) = (IF p.type = v THEN 1 ELSE 0) + Count(q, "type", v)
    <2>0. \A f, w : /\ Count(<<p>>, f, w) \in Nat /\ Count(q, f, w) \in Nat
                   /\ Count(<<p>> \o q, f, w) = Count(<<p>>, f, w) + Count(q, f, w)
      BY <1>1, OfAll, Zenon
    <2>1. /\ Count(q, "type", v) \in Nat
          /\ Count(<<p>> \o q, "type", v) = Count(<<p>>, "type", v) + Count(q, "type", v)
      BY <2>0
    <2>2. Count(<<p>>, "type", v) = IF p["type"] = v THEN 1 ELSE 0
      BY CountFew, Zenon
    <2> QED BY <2>1, <2>2
  <1>6. \A t : Has(<<p>> \o q, t) <=> p.type = t \/ Has(q, t)
    <2>1. \A t : Has(<<p>> \o q, t) <=> Has(<<p>>, t) \/ Has(q, t)
      BY <1>1, OfAll, Zenon
    <2> QED BY <2>1, HasFew, Zenon
  <1>7. \A v : Says(<<p>> \o q, v) <=> Verdict(p) = v \/ Says(q, v)
    <2>1. \A v : Says(<<p>> \o q, v) <=> Says(<<p>>, v) \/ Says(q, v)
      BY <1>1, OfAll, Zenon
    <2> QED BY <2>1, SaysFew, Zenon
  <1> QED BY <1>2, <1>3, <1>4, <1>5, <1>6, <1>7

\* One more packet at the end of a queue.
LEMMA LastOf ==
  ASSUME NEW p, NEW q, Tracked(q)
  PROVE  /\ Append(q, p) = q \o <<p>> /\ Tracked(q \o <<p>>)
         /\ \A b : Asked(q \o <<p>>, b) = Effect(p, Asked(q, b))
         /\ \A v : /\ Count(q, "type", v) \in Nat
                   /\ Count(q \o <<p>>, "type", v) = Count(q, "type", v) + (IF p.type = v THEN 1 ELSE 0)
         /\ \A t : Has(q \o <<p>>, t) <=> Has(q, t) \/ p.type = t
  <1>1. Tracked(<<p>>)
    BY HasFew DEF Tracked
  <1>2. Append(q, p) = q \o <<p>> /\ Tracked(q \o <<p>>)
    BY <1>1, Joined, Plaits DEF Tracked
  <1>4. \A b : Asked(q \o <<p>>, b) = Effect(p, Asked(q, b))
    <2>1. \A b : Asked(q \o <<p>>, b) = Asked(<<p>>, Asked(q, b))
      BY <1>1, OfAll, Zenon
    <2> QED BY <2>1, AskedFew, Zenon
  <1>5. ASSUME NEW v
        PROVE  /\ Count(q, "type", v) \in Nat
               /\ Count(q \o <<p>>, "type", v) = Count(q, "type", v) + (IF p.type = v THEN 1 ELSE 0)
    <2>0. \A f, w : /\ Count(q, f, w) \in Nat /\ Count(<<p>>, f, w) \in Nat
                   /\ Count(q \o <<p>>, f, w) = Count(q, f, w) + Count(<<p>>, f, w)
      BY <1>1, OfAll, Zenon
    <2>1. /\ Count(q, "type", v) \in Nat
          /\ Count(q \o <<p>>, "type", v) = Count(q, "type", v) + Count(<<p>>, "type", v)
      BY <2>0
    <2>2. Count(<<p>>, "type", v) = IF p["type"] = v THEN 1 ELSE 0
      BY CountFew, Zenon
    <2> QED BY <2>1, <2>2
  <1>6. \A t : Has(q \o <<p>>, t) <=> Has(q, t) \/ p.type = t
    <2>1. \A t : Has(q \o <<p>>, t) <=> Has(q, t) \/ Has(<<p>>, t)
      BY <1>1, OfAll, Zenon
    <2> QED BY <2>1, HasFew, Zenon
  <1> QED BY <1>2, <1>4, <1>5, <1>6

-----------------------------------------------------------------------------
(* The two queues as wholes                                              *)

\* What the client has said and the broker not yet read, and the other way around.
Outbox == (toBroker \o partial) \o txq
Inbox  == rx \o toClient

\* The queues on the way are sequences.
LEMMA BoxTypes ==
  ASSUME TypesInv
  PROVE  /\ Tracked(toBroker) /\ Tracked(partial) /\ Tracked(txq) /\ Tracked(rx) /\ Tracked(toClient)
         /\ Tracked(toBroker \o partial) /\ Tracked(Outbox) /\ Tracked(Inbox)
  <1>1. /\ Tracked(toBroker) /\ Tracked(partial) /\ Tracked(txq) /\ Tracked(rx)
        /\ Tracked(toClient)
    BY Zenon DEF TypesInv, AckSeq, DeliverySeq, Tracked
  <1>2. Tracked(toBroker \o partial) /\ Tracked(rx \o toClient)
    BY <1>1, Joined
  <1>3. Tracked((toBroker \o partial) \o txq)
    BY <1>1, <1>2, Joined
  <1> QED BY <1>1, <1>2, <1>3 DEF Outbox, Inbox

\* The laws of joining, for all queues.
LEMMA JoinAll ==
  /\ \A x, y, z : Tracked(x) /\ Tracked(y) /\ Tracked(z) =>
        Tracked(x \o y) /\ (x \o y) \o z = x \o (y \o z)
  /\ \A x : Tracked(x) => x \o <<>> = x /\ <<>> \o x = x
  /\ \A x, p : Tracked(x) => Append(x, p) = x \o <<p>>
  /\ \A p : Tracked(<<p>>)
  /\ \A x : Tracked(x) /\ x # <<>> => x = <<Head(x)>> \o Tail(x) /\ Tracked(Tail(x))
  <1>1. \A x, y, z : Tracked(x) /\ Tracked(y) /\ Tracked(z) =>
           Tracked(x \o y) /\ (x \o y) \o z = x \o (y \o z)
    BY Joined
  <1>2. \A x : Tracked(x) => x \o <<>> = x /\ <<>> \o x = x
    BY Joined
  <1>3. \A x, p : Tracked(x) => Append(x, p) = x \o <<p>>
    BY Plaits DEF Tracked
  <1>4. \A p : Tracked(<<p>>)
    BY HasFew DEF Tracked
  <1>5. \A x : Tracked(x) /\ x # <<>> => x = <<Head(x)>> \o Tail(x) /\ Tracked(Tail(x))
    BY Plaits DEF Tracked
  <1> QED BY <1>1, <1>2, <1>3, <1>4, <1>5

\* Packets are queued.
LEMMA Grown ==
  ASSUME TypesInv, NEW s, Tracked(s), txq' = txq \o s, UNCHANGED <<toBroker, partial>>
  PROVE  Outbox' = Outbox \o s
  <1>1. ((toBroker \o partial) \o txq) \o s = (toBroker \o partial) \o (txq \o s)
    BY BoxTypes, JoinAll
  <1> QED BY <1>1 DEF Outbox

\* Packets go down to the wire in order.
LEMMA Sunk ==
  ASSUME TypesInv,
         \/ /\ partial = <<>> /\ txq # <<>> /\ txq' = Tail(txq) /\ partial' = partial
            /\ toBroker' = Append(toBroker, Head(txq))
         \/ /\ partial = <<>> /\ txq # <<>> /\ txq' = Tail(txq) /\ partial' = <<Head(txq)>>
            /\ toBroker' = toBroker
         \/ /\ partial # <<>> /\ partial' = <<>> /\ txq' = txq
            /\ toBroker' = Append(toBroker, partial[1])
  PROVE  Outbox' = Outbox
  <1> USE BoxTypes
  <1>1. CASE partial = <<>> /\ txq # <<>> /\ txq' = Tail(txq)
    <2> DEFINE h == Head(txq)
               t == Tail(txq)
    <2>1. txq = <<h>> \o t /\ Tracked(t) /\ Tracked(<<h>>)
      BY <1>1, JoinAll
    <2> HIDE DEF h, t
    <2>2. (toBroker \o <<h>>) \o t = toBroker \o (<<h>> \o t)
      BY <2>1, JoinAll
    <2>3. toBroker \o <<>> = toBroker /\ (toBroker \o <<h>>) \o <<>> = toBroker \o <<h>>
      BY <2>1, JoinAll
    <2>4. (toBroker \o <<>>) \o (<<h>> \o t) = (toBroker \o <<h>>) \o t
      BY <2>2, <2>3
    <2>5. Append(toBroker, h) = toBroker \o <<h>>
      BY JoinAll
    <2>6. (toBroker \o partial) \o txq = (toBroker \o <<h>>) \o t
      BY <1>1, <2>1, <2>4
    <2>7. CASE partial' = partial /\ toBroker' = Append(toBroker, Head(txq))
      <3>1. (toBroker' \o partial') \o txq' = ((toBroker \o <<h>>) \o <<>>) \o t
        BY <1>1, <2>5, <2>7 DEF h, t
      <3>2. (toBroker' \o partial') \o txq' = (toBroker \o <<h>>) \o t
        BY <2>3, <3>1, Zenon
      <3> QED BY <2>6, <3>2, Zenon DEF Outbox
    <2>8. CASE partial' = <<Head(txq)>> /\ toBroker' = toBroker
      <3>1. (toBroker' \o partial') \o txq' = (toBroker \o <<h>>) \o t
        BY <1>1, <2>8 DEF h, t
      <3> QED BY <2>6, <3>1, Zenon DEF Outbox
    <2> QED BY <1>1, <2>7, <2>8
  <1>2. CASE partial # <<>> /\ partial' = <<>> /\ txq' = txq /\ toBroker' = Append(toBroker, partial[1])
    <2>1. partial = <<partial[1]>>
      BY <1>2 DEF TypesInv
    <2>2. Append(toBroker, partial[1]) = toBroker \o partial
      <3>1. Append(toBroker, partial[1]) = toBroker \o <<partial[1]>>
        BY JoinAll
      <3> QED BY <2>1, <3>1
    <2>3. (toBroker \o partial) \o <<>> = toBroker \o partial
      BY JoinAll
    <2>4. toBroker' \o partial' = toBroker \o partial
      BY <1>2, <2>2, <2>3
    <2> QED BY <1>2, <2>4, Zenon DEF Outbox
  <1> QED BY <1>1, <1>2

\* A silent packet is put before the queue, or taken from its front.
LEMMA Fronted ==
  ASSUME TypesInv, NEW s, Tracked(s), Silent(s), UNCHANGED <<toBroker, partial>>,
         NEW r, Tracked(r), \/ txq' = s \o r /\ txq = r
                            \/ txq = s \o r /\ txq' = r
  PROVE  Alike(Outbox', Outbox)
  <1>1. Tracked(toBroker \o partial)
    BY BoxTypes
  <1> DEFINE q == toBroker \o partial
  <1>2. Tracked(q) /\ Outbox = q \o txq /\ Outbox' = q \o txq'
    BY <1>1 DEF Outbox
  <1> HIDE DEF q
  <1>3. Alike(q \o (s \o r), q \o r)
    BY <1>2, SilentInside
  <1>4. Alike(q \o r, q \o (s \o r))
    BY <1>3 DEF Alike
  <1> QED BY <1>2, <1>3, <1>4, Zenon

\* The broker reads a packet.
LEMMA ReadOff ==
  ASSUME TypesInv, toBroker # <<>>, toBroker' = Tail(toBroker), UNCHANGED <<partial, txq>>
  PROVE  Outbox = <<Head(toBroker)>> \o Outbox' /\ Tracked(Outbox')
  <1> USE BoxTypes
  <1> DEFINE h == Head(toBroker)
             t == Tail(toBroker)
  <1>1. toBroker = <<h>> \o t /\ Tracked(t) /\ Tracked(<<h>>)
    BY JoinAll
  <1> HIDE DEF h, t
  <1>2. Tracked(t \o partial) /\ Tracked((t \o partial) \o txq)
    BY <1>1, JoinAll
  <1>3. (<<h>> \o t) \o partial = <<h>> \o (t \o partial)
    BY <1>1, JoinAll
  <1>4. (<<h>> \o (t \o partial)) \o txq = <<h>> \o ((t \o partial) \o txq)
    BY <1>1, <1>2, JoinAll
  <1>5. Outbox = (<<h>> \o (t \o partial)) \o txq
    BY <1>1, <1>3 DEF Outbox
  <1>6. Outbox' = (t \o partial) \o txq
    BY DEF Outbox, t
  <1> QED BY <1>2, <1>4, <1>5, <1>6 DEF h

\* The client receives packets ...
LEMMA CameIn ==
  ASSUME TypesInv, NEW n \in 1..Len(toClient), rx' = rx \o SubSeq(toClient, 1, n),
         toClient' = SubSeq(toClient, n + 1, Len(toClient))
  PROVE  Inbox' = Inbox
  <1> DEFINE a == SubSeq(toClient, 1, n)
             c == SubSeq(toClient, n + 1, Len(toClient))
  <1>1. Tracked(toClient) /\ Tracked(rx)
    BY BoxTypes
  <1>2. a \in Seq(Elements(toClient)) /\ c \in Seq(Elements(toClient)) /\ a \o c = toClient
    BY <1>1 DEF Tracked
  <1>3. Tracked(a) /\ Tracked(c)
    BY <1>2, SeqOfElements DEF Tracked
  <1> HIDE DEF a, c
  <1>4. (rx \o a) \o c = rx \o (a \o c)
    BY <1>1, <1>3, JoinAll
  <1> QED BY <1>2, <1>4 DEF Inbox, a, c

\* ... dispatches one ...
LEMMA TookOne ==
  ASSUME TypesInv, rx # <<>>, rx' = Tail(rx), toClient' = toClient
  PROVE  Inbox = <<Head(rx)>> \o Inbox' /\ Tracked(Inbox')
  <1> DEFINE h == Head(rx)
             t == Tail(rx)
  <1>1. rx = <<h>> \o t /\ Tracked(t) /\ Tracked(<<h>>) /\ Tracked(toClient)
    BY BoxTypes, JoinAll
  <1> HIDE DEF h, t
  <1>2. Tracked(t \o toClient) /\ (<<h>> \o t) \o toClient = <<h>> \o (t \o toClient)
    BY <1>1, JoinAll
  <1>3. Inbox = (<<h>> \o t) \o toClient /\ Inbox' = t \o toClient
    BY <1>1 DEF Inbox, t
  <1> QED BY <1>2, <1>3 DEF h

\* ... and is sent more.
LEMMA CameBack ==
  ASSUME TypesInv, NEW s, Tracked(s), toClient' = toClient \o s, rx' = rx
  PROVE  Inbox' = Inbox \o s
  <1>1. (rx \o toClient) \o s = rx \o (toClient \o s)
    BY BoxTypes, JoinAll
  <1> QED BY <1>1 DEF Inbox

-----------------------------------------------------------------------------
(* The invariant                                                         *)

Declared == {t \in Topics : subs[t] # "no"}
Awaited  == Count(pending, "await", "suback")
Debt     == Count(Outbox, "type", "subscribe") + Count(Inbox, "type", "suback")
Line     == Asked(Outbox, bsubs)
Greeting == Has(Outbox, "connect") \/ Has(Inbox, "connack")

ReplayInv ==
    /\ DOMAIN subs = Topics
    /\ todo # {} => pc = "replay"
    /\ pc = "replay" => state = "connected"
    /\ todo \subseteq Declared

GreetInv ==
    /\ Has(Outbox, "connect") => Inbox = <<>>
    /\ Inbox # <<>> => ~Has(Tail(Inbox), "connack")
    /\ Greeting => /\ state # "connected"
                   /\ ~Has(Outbox, "subscribe") /\ ~Has(Outbox, "unsubscribe")
                   /\ ~Has(Inbox, "suback")
    /\ CleanSession /\ Says(Inbox, "accepted") => bsubs = {}

Follows == state = "connected" /\ CleanSession =>
    /\ Debt <= Awaited
    /\ Debt = Awaited => Says(Inbox, "refused") \/ Line \cup todo = Declared

LiveSubs == link = "up" => GreetInv /\ Follows
SubInv == PendingType /\ ReplayInv /\ LiveSubs

-----------------------------------------------------------------------------
LEMMA CountNat ==
  ASSUME NEW q, Tracked(q) PROVE \A f, v : Count(q, f, v) \in Nat
  BY OfAll, Zenon

\* So many SUBACKs are awaited ...
LEMMA AwaitedNat == PendingType => Awaited \in Nat
  BY CountType, SeqOfElements DEF PendingType, Awaited

\* ... and so many SUBSCRIBEs and SUBACKs are on their way.
LEMMA DebtNat ==
  ASSUME Tracked(Outbox), Tracked(Inbox)
  PROVE  /\ Count(Outbox, "type", "subscribe") \in Nat /\ Count(Inbox, "type", "suback") \in Nat
         /\ Debt \in Nat
  <1>1. Count(Outbox, "type", "subscribe") \in Nat /\ Count(Inbox, "type", "suback") \in Nat
    BY CountNat
  <1> QED BY <1>1 DEF Debt

\* Something accepted is a CONNACK; what says nothing of its kind is not there.
LEMMA SaysHas ==
  ASSUME NEW q
  PROVE  /\ Says(q, "accepted") => Has(q, "connack")
         /\ Says(q, "refused") => Has(q, "suback")
         /\ \A v : Tracked(q) /\ ~Has(q, v) => Count(q, "type", v) = 0
  <1>1. Says(q, "accepted") => Has(q, "connack")
    BY DEF Says, Has, Verdict
  <1>2. Says(q, "refused") => Has(q, "suback")
    BY DEF Says, Has, Verdict
  <1>3. ASSUME NEW v, ~Has(q, v) PROVE Count(q, "type", v) = 0
    <2>1. Where(q, "type", v) = {}
      BY <1>3 DEF Where, Has
    <2> QED BY <2>1, FS_EmptySet DEF Count
  <1> QED BY <1>1, <1>2, <1>3

\* What is owed does not grow faster than what is awaited.
LEMMA FollowsOn ==
  ASSUME Follows, Debt \in Nat, Debt' \in Nat, Awaited \in Nat, Awaited' \in Nat, setup' = setup,
         state' = "connected" /\ CleanSession =>
           /\ state = "connected" /\ Debt' + Awaited <= Debt + Awaited'
           /\ Says(Inbox, "refused") => Says(Inbox', "refused")
           /\ Line \cup todo = Declared =>
                Line' \cup todo' = Declared' \/ Says(Inbox', "refused") \/ Debt' < Awaited'
  PROVE  Follows'
  <1> SUFFICES ASSUME state' = "connected", CleanSession'
               PROVE  /\ Debt' <= Awaited'
                      /\ Debt' = Awaited' => Says(Inbox', "refused") \/ Line' \cup todo' = Declared'
    BY Zenon DEF Follows
  <1>0. CleanSession
    BY DEF CleanSession
  <1>1. /\ Debt <= Awaited
        /\ Debt = Awaited => Says(Inbox, "refused") \/ Line \cup todo = Declared
    BY <1>0 DEF Follows
  <1> DEFINE d == Debt
             a == Awaited
             e == Debt'
             c == Awaited'
  <1>2. d \in Nat /\ a \in Nat /\ e \in Nat /\ c \in Nat /\ e + a <= d + c /\ d <= a
    BY <1>0, <1>1
  <1>3. e <= c /\ (e = c => d = a)
    <2> HIDE DEF a, c, d, e
    <2> QED BY <1>2
  <1>4. Debt' < Awaited' => Debt' # Awaited'
    <2> HIDE DEF a, c, d, e
    <2>1. e < c => e # c
      BY <1>2
    <2> QED BY <2>1 DEF c, e
  <1> QED BY <1>0, <1>1, <1>3, <1>4, Zenon

\* Packets of the broker that announce nothing come in, and nothing is asked anew.
LEMMA GreetOn ==
  ASSUME GreetInv, Tracked(Inbox), NEW s, Tracked(s), Inbox' = Inbox \o s, setup' = setup,
         \A t \in Asks : Has(Outbox', t) => Has(Outbox, t),
         s # <<>> => ~Has(Outbox, "connect"), ~Has(s, "connack"),
         Has(s, "suback") => Has(Outbox, "subscribe"),
         bsubs' = bsubs \/ Has(Outbox, "subscribe") \/ Has(Outbox, "unsubscribe"),
         state' = "connected" => state = "connected"
  PROVE  GreetInv'
  <1>1. \A t : Has(Inbox', t) <=> Has(Inbox, t) \/ Has(s, t)
    BY OfAll, Zenon
  <1>2. \A v : Says(Inbox', v) <=> Says(Inbox, v) \/ Says(s, v)
    BY OfAll, Zenon
  <1>3. Greeting' => Greeting
    BY <1>1 DEF Greeting, Asks
  <1>4. Has(Outbox', "connect") => Inbox' = <<>>
    <2> SUFFICES ASSUME Has(Outbox', "connect") PROVE Inbox' = <<>>
      OBVIOUS
    <2>1. Inbox = <<>> /\ s = <<>>
      BY DEF GreetInv, Asks
    <2> QED BY <2>1
  <1>5. Inbox' # <<>> => ~Has(Tail(Inbox'), "connack")
    <2>1. CASE Inbox = <<>>
      <3>1. Inbox' = s
        BY <2>1, JoinAll
      <3>2. s # <<>> => (Has(s, "connack") <=> Head(s).type = "connack" \/ Has(Tail(s), "connack"))
        BY HasFacts DEF Tracked
      <3> QED BY <3>1, <3>2
    <2>2. CASE Inbox # <<>>
      <3> DEFINE u == Tail(Inbox)
      <3>1. Tracked(u) /\ Tail(Inbox \o s) = u \o s
        BY <2>2, JoinAll, HasConcat DEF Tracked
      <3>2. ~Has(u, "connack")
        BY <2>2 DEF GreetInv
      <3> HIDE DEF u
      <3>3. Has(u \o s, "connack") <=> Has(u, "connack") \/ Has(s, "connack")
        BY <3>1, OfAll, Zenon
      <3> QED BY <3>1, <3>2, <3>3
    <2> QED BY <2>1, <2>2
  <1>6. Greeting' => /\ state' # "connected"
                     /\ ~Has(Outbox', "subscribe") /\ ~Has(Outbox', "unsubscribe")
                     /\ ~Has(Inbox', "suback")
    BY <1>1, <1>3 DEF GreetInv, Asks
  <1>7. CleanSession' /\ Says(Inbox', "accepted") => bsubs' = {}
    <2> SUFFICES ASSUME CleanSession', Says(Inbox', "accepted") PROVE bsubs' = {}
      OBVIOUS
    <2>1. ~Says(s, "accepted")
      BY SaysHas
    <2>2. Says(Inbox, "accepted") /\ Has(Inbox, "connack") /\ CleanSession
      BY <1>2, <2>1, SaysHas DEF CleanSession
    <2> QED BY <2>2 DEF GreetInv, Greeting
  <1> QED BY <1>4, <1>5, <1>6, <1>7 DEF GreetInv

-----------------------------------------------------------------------------
\* A step that neither asks nor answers anything.
Quiet ==
    /\ UNCHANGED <<setup, link>>
    /\ link = "up" =>
         /\ Inbox' = Inbox /\ Alike(Outbox', Outbox) /\ bsubs' = bsubs
         /\ state' = "connected" =>
              state = "connected" /\ Awaited' = Awaited /\ Declared' = Declared /\ todo' = todo

\* It leaves the subscriptions as they are.
LEMMA QuietKeeps ==
  ASSUME TypesInv, PendingType, PendingType', LiveSubs, Quiet PROVE LiveSubs'
  <1> SUFFICES ASSUME link' = "up" PROVE GreetInv' /\ Follows'
    BY DEF LiveSubs
  <1>1. /\ link = "up" /\ GreetInv /\ Follows /\ Inbox' = Inbox /\ bsubs' = bsubs /\ setup' = setup
        /\ Alike(Outbox', Outbox)
        /\ state' = "connected" =>
             state = "connected" /\ Awaited' = Awaited /\ Declared' = Declared /\ todo' = todo
    BY DEF Quiet, LiveSubs
  <1>2. /\ Tracked(Inbox) /\ Tracked(Outbox) /\ Tracked(<<>>) /\ Inbox \o <<>> = Inbox
        /\ \A t : ~Has(<<>>, t)
    BY BoxTypes, JoinAll, HasFew DEF Tracked
  <1>3. GreetInv'
    <2> DEFINE s == <<>>
    <2>1. /\ Tracked(s) /\ Inbox' = Inbox \o s /\ (\A t : ~Has(s, t)) /\ s = <<>>
          /\ \A t \in Asks : Has(Outbox', t) => Has(Outbox, t)
      BY <1>1, <1>2 DEF Alike
    <2> HIDE DEF s
    <2> QED BY <1>1, <1>2, <2>1, GreetOn
  <1>4. Debt' = Debt /\ Line' = Line /\ Debt \in Nat
    BY <1>1, <1>2, DebtNat DEF Debt, Line, Alike
  <1>5. Awaited \in Nat /\ Awaited' \in Nat
    <2>1. \A q : q \in Seq(Responses) => Count(q, "await", "suback") \in Nat
      BY CountType
    <2> QED BY <2>1 DEF PendingType, Awaited
  <1>6. Debt + Awaited <= Debt + Awaited
    BY <1>4, <1>5
  <1>7. Follows'
    BY <1>1, <1>4, <1>5, <1>6, FollowsOn
  <1> QED BY <1>3, <1>7

-----------------------------------------------------------------------------
(* What is awaited stays what it is                                      *)

\* A response is awaited.
LEMMA ResponseTypes ==
  /\ \A k \in Awaitable, i \in Ids \cup {0}, t \in Topics \cup {NoTopic} : Response(k, i, t) \in Responses
  /\ \A k, i, t : Response(k, i, t).await = k
  <1>1. AckTimeout \in Int /\ Ids \cup {0} \subseteq Int
    BY MqttAssumption DEF MqttAssumption, Ids
  <1> QED BY <1>1 DEF Response, Responses

\* One more, and how many SUBACKs that makes.
LEMMA PendingAdds ==
  ASSUME PendingType, NEW p \in Responses, pending' = Append(pending, p)
  PROVE  /\ PendingType'
         /\ Awaited' = Awaited + (IF p.await = "suback" THEN 1 ELSE 0) /\ Awaited \in Nat
  <1>1. PendingType'
    BY DEF PendingType
  <1>2. pending \in Seq(Elements(pending)) /\ <<p>> \in Seq(Elements(<<p>>))
    BY SeqOfElements, HasFew DEF PendingType
  <1>3. Append(pending, p) = pending \o <<p>>
    BY <1>2, Plaits
  <1>4. /\ Count(pending, "await", "suback") \in Nat
        /\ Count(pending \o <<p>>, "await", "suback")
             = Count(pending, "await", "suback") + Count(<<p>>, "await", "suback")
    <2>1. \A x, y, f, v : Tracked(x) /\ Tracked(y) =>
             /\ Count(x, f, v) \in Nat
             /\ Count(x \o y, f, v) = Count(x, f, v) + Count(y, f, v)
      BY CountConcat DEF Tracked
    <2>2. Tracked(pending) /\ Tracked(<<p>>)
      BY <1>2 DEF Tracked
    <2> QED BY <2>1, <2>2
  <1>5. Count(<<p>>, "await", "suback") = IF p["await"] = "suback" THEN 1 ELSE 0
    BY CountFew, Zenon
  <1> QED BY <1>1, <1>3, <1>4, <1>5 DEF Awaited

\* Time passes for every one.
LEMMA PendingTicks ==
  ASSUME PendingType, pending' = [k \in DOMAIN pending |-> [pending[k] EXCEPT !.left = Left(@)]]
  PROVE  PendingType' /\ Awaited' = Awaited
  <1>1. /\ DOMAIN pending = 1..Len(pending) /\ Len(pending) \in Nat
        /\ \A k \in DOMAIN pending : pending[k] \in Responses
    BY DEF PendingType
  <1>2. \A p \in Responses : /\ [p EXCEPT !.left = Left(@)] \in Responses
                             /\ [p EXCEPT !.left = Left(@)].await = p.await
    BY DEF Responses, Left
  <1>3. PendingType'
    BY <1>1, <1>2 DEF PendingType
  <1>4. /\ DOMAIN pending' = DOMAIN pending
        /\ \A k \in DOMAIN pending : pending'[k]["await"] = pending[k]["await"]
    BY <1>1, <1>2
  <1>5. Where(pending', "await", "suback") = Where(pending, "await", "suback")
    BY <1>4 DEF Where
  <1> QED BY <1>3, <1>5 DEF Awaited, Count

\* The responses awaited stay well-formed.
LEMMA PendingStep == PendingType /\ [SystemNext]_vars => PendingType'
  <1> SUFFICES ASSUME PendingType, [SystemNext]_vars PROVE PendingType'
    OBVIOUS
  <1> USE DEF ackv
  <1>u. pending' = pending => PendingType'
    BY DEF PendingType
  <1>n. pending' = <<>> => PendingType'
    BY DEF PendingType
  <1>t. /\ NoTopic \in Topics \cup {NoTopic} /\ 0 \in Ids \cup {0}
        /\ \A i \in Ids : i \in Ids \cup {0}
        /\ \A t \in Topics : t \in Topics \cup {NoTopic}
    OBVIOUS
  <1>s. /\ "connack" \in Awaitable /\ "suback" \in Awaitable /\ "unsuback" \in Awaitable
        /\ "pingresp" \in Awaitable
    BY DEF Awaitable
  <1>a. \A k \in Awaitable, i \in Ids \cup {0}, t \in Topics \cup {NoTopic} :
           pending' = Append(pending, Response(k, i, t)) => PendingType'
    <2> SUFFICES ASSUME NEW k \in Awaitable, NEW i \in Ids \cup {0}, NEW t \in Topics \cup {NoTopic},
                        pending' = Append(pending, Response(k, i, t))
                 PROVE  PendingType'
      OBVIOUS
    <2>1. Response(k, i, t) \in Responses
      BY ResponseTypes
    <2> DEFINE p == Response(k, i, t)
    <2>2. p \in Responses /\ pending' = Append(pending, p)
      BY <2>1
    <2> HIDE DEF p
    <2> QED BY <2>2, PendingAdds
  <1>r. /\ pending' = Append(pending, Response("connack", 0, NoTopic)) => PendingType'
        /\ pending' = Append(pending, Response("pingresp", 0, NoTopic)) => PendingType'
        /\ \A t \in Topics, i \in Ids :
             /\ pending' = Append(pending, Response("suback", i, t)) => PendingType'
             /\ pending' = Append(pending, Response("unsuback", i, t)) => PendingType'
    BY <1>t, <1>s, <1>a
  <1>d. \A k, i : pending' = Discard(k, i) => PendingType'
    <2>1. \A k, i : Discard(k, i) \in Seq(Responses)
      BY DiscardFacts
    <2> QED BY <2>1 DEF PendingType
  <1>1. CASE Connect
    <2>1. pending' = pending \/ pending' = Append(pending, Response("connack", 0, NoTopic))
      BY <1>1 DEF Connect
    <2> QED BY <1>u, <1>r, <2>1, Zenon
  <1>2. CASE Disconnect \/ SelfHeal
    BY <1>2, <1>n DEF Disconnect, SelfHeal, ResetTransient
  <1>3. ASSUME NEW t \in Topics, Subscribe(t) PROVE PendingType'
    <2>1. pending' = pending \/ \E i \in Ids : pending' = Append(pending, Response("suback", i, t))
      BY <1>3 DEF Subscribe
    <2> QED BY <1>u, <1>r, <2>1, Zenon
  <1>4. ASSUME NEW t \in Topics, Unsubscribe(t) PROVE PendingType'
    <2>1. pending' = pending \/ \E i \in Ids : pending' = Append(pending, Response("unsuback", i, t))
      BY <1>4 DEF Unsubscribe
    <2> QED BY <1>u, <1>r, <2>1, Zenon
  <1>5. CASE Tick
    BY <1>5, PendingTicks DEF Tick
  <1>6. CASE ConnectorReady
    <2>1. pending' = Append(pending, Response("connack", 0, NoTopic))
      BY <1>6 DEF ConnectorReady
    <2> QED BY <1>r, <2>1, Zenon
  <1>7. CASE ResponseTimeout
    <2>1. DOMAIN pending = 1..Len(pending) /\ Len(pending) \in Nat
      BY DEF PendingType
    <2>2. Overdue # {} /\ Overdue \subseteq Nat /\ Overdue \subseteq DOMAIN pending
      BY <1>7, <2>1 DEF ResponseTimeout, Overdue
    <2>3. PICK k \in Overdue : \A j \in Overdue : <<j, k>> \notin OpToRel(<, Nat)
      <3> HIDE DEF Overdue
      <3> QED BY <2>2, NatLessThanWellFounded, WFMin
    <2>4. \A j \in Overdue : k <= j
      <3> SUFFICES ASSUME NEW j \in Overdue, ~(k <= j) PROVE FALSE
        OBVIOUS
      <3>1. j \in Nat /\ k \in Nat /\ j < k
        BY <2>2
      <3> QED BY <2>3, <3>1 DEF OpToRel
    <2> DEFINE c == CHOOSE x \in Overdue : \A j \in Overdue : x <= j
    <2>5. c \in Overdue
      BY <2>4, Zenon
    <2>6. pending' = Without(pending, c)
      BY <1>7, Zenon DEF ResponseTimeout
    <2> HIDE DEF c
    <2>7. Without(pending, c) \in Seq(Responses)
      BY <2>2, <2>5, WithoutType, Zenon
    <2> QED BY <2>6, <2>7 DEF PendingType
  <1>8. CASE Keepalive
    <2>1. pending' = pending \/ pending' = Append(pending, Response("pingresp", 0, NoTopic))
      BY <1>8 DEF Keepalive
    <2> QED BY <1>u, <1>r, <2>1, Zenon
  <1>9. CASE DispatchSuback \/ DispatchUnsuback \/ DispatchPingresp \/ DispatchConnack \/ DispatchRejection
    <2>1. pending' = pending \/ \E k, i : pending' = Discard(k, i)
      BY <1>9, Zenon DEF DispatchSuback, DispatchUnsuback, DispatchPingresp, DispatchConnack,
            DispatchRejection
    <2> QED BY <1>u, <1>d, <2>1, Zenon
  <1>10. ASSUME NEW t \in Topics, ReplaySubscription(t) PROVE PendingType'
    <2>1. \E i \in Ids : pending' = Append(pending, Response("suback", i, t))
      BY <1>10 DEF ReplaySubscription
    <2> QED BY <1>r, <2>1, Zenon
  <1>11. CASE Hold \/ \E q \in {0, 1} : Publish(q)
    BY <1>11, <1>u DEF Hold, Publish
  <1>12. CASE IoError \/ BeginHandle \/ BeginTransport \/ TransportTimeout \/ ConnectorPending \/ ConnectorFailed
    BY <1>12, <1>u DEF IoError, BeginHandle, BeginTransport, TransportTimeout, ConnectorPending,
          ConnectorFailed
  <1>13. CASE SendTimedOut \/ \E i \in Ids : RetryPublish(i) \/ GiveUpPublish(i)
    BY <1>13, <1>u DEF SendTimedOut, RetryPublish, GiveUpPublish
  <1>14. CASE Receive
    BY <1>14, <1>u DEF Receive, SkipRecv, RecvWithoutSocket, RecvAgain, RecvFails, RecvPackets
  <1>15. CASE DispatchPublish \/ DispatchOversized \/ DispatchPuback \/ FlushPublish \/ AnnounceConnect
              \/ StopDispatch \/ FlushPubacks
    BY <1>15, <1>u DEF DispatchPublish, DispatchOversized, DispatchPuback, FlushPublish,
          AnnounceConnect, StopDispatch, FlushPubacks
  <1>16. CASE Drain
    BY <1>16, <1>u DEF Drain, FinishPartial, StallPartial, DrainMarker, DrainEmpty, SendHead, SendPart,
          SendAgain, SendFails, DrainDone
  <1>17. CASE Broker
    <2>1. \A t : Reads(t) => pending' = pending
      BY DEF Reads, ClientState
    <2>2. \A k, i : BrokerPushes(k, i) => pending' = pending
      BY DEF BrokerPushes, ClientState
    <2> QED BY <1>17, <1>u, <2>1, <2>2, Zenon DEF Broker, BrokerAccepts, BrokerRejects, BrokerTakesPublish,
          BrokerSubscribes, BrokerUnsubscribes, BrokerTakesPubacks, BrokerAnswersPing, BrokerEnds
  <1>18. CASE \E how \in {"fin", "reset", "hole"} : Break(how)
    BY <1>18, <1>u DEF Break, ClientState
  <1>19. CASE UNCHANGED vars
    BY <1>19, <1>u DEF vars, cvars
  <1>20. ASSUME Application PROVE PendingType'
    BY <1>20, <1>1, <1>2, <1>3, <1>4, <1>11 DEF Application
  <1>21. ASSUME Transport \/ Deadlines PROVE PendingType'
    BY <1>21, <1>6, <1>7, <1>8, <1>12, <1>13 DEF Transport, Deadlines
  <1>22. ASSUME Dispatch PROVE PendingType'
    BY <1>22, <1>9, <1>10, <1>15 DEF Dispatch
  <1>23. ASSUME ClientNext PROVE PendingType'
    BY <1>23, <1>2, <1>5, <1>12, <1>14, <1>16, <1>20, <1>21, <1>22 DEF ClientNext, Handle
  <1> QED BY <1>17, <1>18, <1>19, <1>23 DEF SystemNext, ClientStep

-----------------------------------------------------------------------------
(* Replayed while handle() is at it                                      *)

\* Subscriptions are replayed only while handle() is at it, of a client that is connected.
LEMMA ReplayStep ==
  ReplayInv /\ IInv /\ NoCallFromNone /\ [SystemNext]_vars => ReplayInv'
  <1> SUFFICES ASSUME ReplayInv, IInv, NoCallFromNone, [SystemNext]_vars PROVE ReplayInv'
    OBVIOUS
  <1> USE DEF conn, app
  <1>e. ASSUME pc # "replay", todo' = todo, pc' # "replay", DOMAIN subs' = DOMAIN subs PROVE ReplayInv'
    BY <1>e DEF ReplayInv
  <1>o. ASSUME UNCHANGED <<pc, state, subs>>, todo' \subseteq todo PROVE ReplayInv'
    <2>1. Declared' = Declared
      BY <1>o DEF Declared
    <2> QED BY <1>o, <2>1 DEF ReplayInv
  <1>1. CASE Application
    <2>1. pc # "replay"
      <3>1. \A m : Calls(m) => pc # "replay"
        BY DEF Calls, NoCallFromNone, IInv, ConnInv, NoCallbackYet
      <3> QED BY <1>1, <3>1, Zenon DEF Application, Connect, Hold, Disconnect, Publish, Subscribe, Unsubscribe
    <2>2. todo' = todo /\ pc' = pc /\ DOMAIN subs' = DOMAIN subs
      BY <1>1 DEF Application, Connect, Hold, Disconnect, Publish, Subscribe, Unsubscribe
    <2> QED BY <1>e, <2>1, <2>2
  <1>2. CASE Tick \/ IoError \/ BeginHandle \/ SelfHeal
    BY <1>2, <1>e DEF Tick, IoError, Fault, BeginHandle, SelfHeal
  <1>3. CASE Transport
    BY <1>3, <1>e DEF Transport, BeginTransport, TransportTimeout, ConnectorReady, ConnectorPending,
          ConnectorFailed, Fault
  <1>4. CASE Deadlines
    BY <1>4, <1>e DEF Deadlines, RetryPublish, GiveUpPublish, ResponseTimeout, SendTimedOut, Keepalive,
          FailAndGoOn
  <1>5. CASE Receive
    BY <1>5, <1>e DEF Receive, SkipRecv, RecvWithoutSocket, RecvAgain, RecvFails, RecvPackets, Fault
  <1>6. CASE Drain
    BY <1>6, <1>e DEF Drain, FinishPartial, StallPartial, DrainMarker, DrainEmpty, SendHead, SendPart,
          SendAgain, SendFails, DrainDone, Draining, ReadyToSend, Fault
  <1>7. CASE DispatchPublish \/ DispatchOversized \/ DispatchPuback \/ DispatchSuback
             \/ DispatchUnsuback \/ DispatchPingresp \/ DispatchRejection \/ StopDispatch \/ FlushPubacks
    <2>1. pc # "replay" /\ todo' = todo /\ pc' # "replay"
      BY <1>7 DEF DispatchPublish, DispatchOversized, DispatchPuback, DispatchSuback,
            DispatchUnsuback, DispatchPingresp, DispatchRejection, StopDispatch, FlushPubacks, Next1,
            Dispatching, Took, TookAndFaults, Fault
    <2>2. DOMAIN subs' = DOMAIN subs
      <3>1. DispatchSuback => DOMAIN subs' = DOMAIN subs
        BY DEF DispatchSuback, ReplayInv
      <3> QED BY <1>7, <3>1 DEF DispatchPublish, DispatchOversized, DispatchPuback,
            DispatchUnsuback, DispatchPingresp, DispatchRejection, StopDispatch, FlushPubacks
    <2> QED BY <1>e, <2>1, <2>2
  <1>8. CASE DispatchConnack
    <2>1. state' = "connected" /\ pc' = "replay" /\ todo' = Replayed(Head(rx).present) /\ subs' = subs
      BY <1>8 DEF DispatchConnack
    <2>2. todo' \subseteq Declared'
      BY <2>1 DEF Replayed, Declared
    <2> QED BY <2>1, <2>2 DEF ReplayInv
  <1>9. ASSUME NEW t \in Topics, ReplaySubscription(t) PROVE ReplayInv'
    BY <1>9, <1>o DEF ReplaySubscription
  <1>10. CASE FlushPublish
    <2>1. todo = {} /\ todo' = todo /\ subs' = subs /\ (UNCHANGED <<pc, state>> \/ pc' = "idle")
      BY <1>10 DEF FlushPublish, Fault
    <2> QED BY <1>o, <2>1 DEF ReplayInv
  <1>11. CASE AnnounceConnect
    BY <1>11 DEF AnnounceConnect, ReplayInv
  <1>12. CASE Broker \/ (\E how \in {"fin", "reset", "hole"} : Break(how)) \/ UNCHANGED vars
    <2>1. \A t : Reads(t) => UNCHANGED <<pc, state, subs, todo>>
      BY DEF Reads, ClientState
    <2>2. \A k, i : BrokerPushes(k, i) => UNCHANGED <<pc, state, subs, todo>>
      BY DEF BrokerPushes, ClientState
    <2>3. \A how : Break(how) => UNCHANGED <<pc, state, subs, todo>>
      BY DEF Break, ClientState
    <2>4. UNCHANGED vars => UNCHANGED <<pc, state, subs, todo>>
      BY DEF vars, cvars
    <2>5. Broker => UNCHANGED <<pc, state, subs, todo>>
      BY <2>1, <2>2, Zenon DEF Broker, BrokerAccepts, BrokerRejects, BrokerTakesPublish,
            BrokerSubscribes, BrokerUnsubscribes, BrokerTakesPubacks, BrokerAnswersPing, BrokerEnds
    <2>6. UNCHANGED <<pc, state, subs, todo>>
      BY <1>12, <2>3, <2>4, <2>5, Zenon
    <2> QED BY <1>o, <2>6
  <1>13. ASSUME ClientNext PROVE ReplayInv'
    BY <1>13, <1>1, <1>2, <1>3, <1>4, <1>5, <1>6, <1>7, <1>8, <1>9, <1>10, <1>11
       DEF ClientNext, Handle, Dispatch
  <1> QED BY <1>12, <1>13 DEF SystemNext, ClientStep

-----------------------------------------------------------------------------
(* What the client queues and takes                                      *)

\* Packets that ask nothing are queued.
SilentPkt(p) == p.type \notin Asks
QueuesSilently ==
    \/ txq' = txq
    \/ \E p : SilentPkt(p) /\ txq' = Append(txq, p)
    \/ \E p, r : SilentPkt(p) /\ SilentPkt(r) /\ txq' = txq \o <<p, r>>

\* A queue asks what it asks.
LEMMA AlikeSame == \A q : Alike(q, q)
  BY DEF Alike

\* Queueing them changes nothing of what is asked.
LEMMA QueuedSilently ==
  ASSUME TypesInv, UNCHANGED <<toBroker, partial>>, QueuesSilently
  PROVE  Alike(Outbox', Outbox)
  <1>1. Tracked(txq) /\ Tracked(Outbox) /\ Tracked(<<>>)
    BY BoxTypes, JoinAll, HasFew DEF Tracked
  <1>2. ASSUME NEW s, Tracked(s), Silent(s), txq' = txq \o s PROVE Alike(Outbox', Outbox)
    <2>1. Outbox' = Outbox \o s
      BY <1>2, Grown
    <2>2. Alike(Outbox \o (s \o <<>>), Outbox \o <<>>)
      BY <1>1, <1>2, SilentInside
    <2>3. s \o <<>> = s /\ Outbox \o <<>> = Outbox
      BY <1>1, <1>2, JoinAll
    <2> QED BY <2>1, <2>2, <2>3
  <1>3. CASE txq' = txq
    <2>1. Outbox' = Outbox
      BY <1>3 DEF Outbox
    <2> QED BY <2>1, AlikeSame
  <1>4. ASSUME NEW p, SilentPkt(p), txq' = Append(txq, p) PROVE Alike(Outbox', Outbox)
    <2>1. txq' = txq \o <<p>> /\ Tracked(<<p>>)
      BY <1>1, <1>4, JoinAll
    <2>2. Silent(<<p>>)
      BY <1>4, HasFew DEF Silent, SilentPkt
    <2> QED BY <1>2, <2>1, <2>2
  <1>5. ASSUME NEW p, NEW r, SilentPkt(p), SilentPkt(r), txq' = txq \o <<p, r>> PROVE Alike(Outbox', Outbox)
    <2>1. <<p, r>> \in Seq({p, r}) /\ DOMAIN <<p, r>> = {1, 2} /\ <<p, r>>[1] = p /\ <<p, r>>[2] = r
      OBVIOUS
    <2>2. Tracked(<<p, r>>)
      BY <2>1, SeqOfElements DEF Tracked
    <2>3. Silent(<<p, r>>)
      BY <1>5, <2>1 DEF Silent, SilentPkt, Has
    <2> QED BY <1>2, <1>5, <2>2, <2>3
  <1> QED BY <1>3, <1>4, <1>5 DEF QueuesSilently

\* Which packets those are ...
LEMMA SilentTypes ==
  /\ SilentPkt(PingReq)
  /\ \A i, m, d : SilentPkt(PublishPkt(i, m, d))
  /\ \A m : SilentPkt(MarkerPkt(m))
  /\ \A s : SilentPkt(PubacksPkt(s))
  BY DEF SilentPkt, Asks, PingReq, PublishPkt, MarkerPkt, PubacksPkt

\* ... and a publish queues no others.
LEMMA PublishSilently == \A m, q : DoPublish(m, q) => QueuesSilently
  <1> SUFFICES ASSUME NEW m, NEW q, DoPublish(m, q) PROVE QueuesSilently
    OBVIOUS
  <1>1. CASE q = 0
    BY <1>1, SilentTypes, Zenon DEF DoPublish, QueuesSilently
  <1>2. CASE q # 0
    <2>1. PICK i \in Ids : txq' = Append(txq, PublishPkt(i, m, FALSE))
      BY <1>2, Zenon DEF DoPublish
    <2> QED BY <2>1, SilentTypes, Zenon DEF QueuesSilently
  <1> QED BY <1>1, <1>2

-----------------------------------------------------------------------------
\* A connection opens with a CONNECT.
LEMMA OpensGreeting ==
  ASSUME txq' = <<ConnectPkt>>, partial' = <<>>, toBroker' = <<>>, rx' = <<>>, toClient' = <<>>,
         state' = "connecting"
  PROVE  GreetInv' /\ Follows'
  <1>1. Tracked(<<>>) /\ Tracked(<<ConnectPkt>>)
    BY JoinAll, HasFew DEF Tracked
  <1>2. <<>> \o <<>> = <<>> /\ <<>> \o <<ConnectPkt>> = <<ConnectPkt>>
    BY <1>1, JoinAll, Zenon
  <1>3. Outbox' = <<ConnectPkt>> /\ Inbox' = <<>>
    BY <1>2 DEF Outbox, Inbox
  <1>4. (\A t : ~Has(Inbox', t)) /\ \A t : Has(Outbox', t) <=> t = "connect"
    <2>1. ConnectPkt.type = "connect"
      BY DEF ConnectPkt
    <2> QED BY <1>3, <2>1, HasFew
  <1>5. ~Says(Inbox', "accepted")
    BY <1>3, SaysFew
  <1>6. GreetInv'
    BY <1>3, <1>4, <1>5 DEF GreetInv, Greeting
  <1> QED BY <1>6 DEF Follows

\* A SUBSCRIBE or UNSUBSCRIBE is queued with what was declared.
LEMMA AsksMore ==
  ASSUME TypesInv, PendingType, GreetInv, Follows, state = "connected", state' = "connected",
         NEW p, txq' = Append(txq, p), p.type \in {"subscribe", "unsubscribe"},
         UNCHANGED <<toBroker, partial, rx, toClient, bsubs, setup>>,
         Awaited \in Nat, Awaited' = Awaited + (IF p.type = "subscribe" THEN 1 ELSE 0),
         Line \cup todo = Declared => Effect(p, Line) \cup todo' = Declared'
  PROVE  GreetInv' /\ Follows'
  <1>1. Tracked(txq) /\ Tracked(Outbox) /\ Tracked(Inbox) /\ Tracked(<<p>>) /\ Tracked(<<>>)
    BY BoxTypes, JoinAll, HasFew DEF Tracked
  <1>2. Outbox' = Outbox \o <<p>>
    <2>1. txq' = txq \o <<p>>
      BY <1>1, JoinAll
    <2> QED BY <1>1, <2>1, Grown
  <1>3. Inbox' = Inbox
    BY DEF Inbox
  <1>4. /\ \A b : Asked(Outbox', b) = Effect(p, Asked(Outbox, b))
        /\ \A v : /\ Count(Outbox, "type", v) \in Nat
                  /\ Count(Outbox', "type", v) = Count(Outbox, "type", v) + (IF p.type = v THEN 1 ELSE 0)
        /\ \A t : Has(Outbox', t) <=> Has(Outbox, t) \/ p.type = t
    BY <1>1, <1>2, LastOf
  <1>5. ~Greeting /\ ~Greeting'
    BY <1>3, <1>4 DEF GreetInv, Greeting
  <1>6. GreetInv'
    BY <1>3, <1>4, <1>5 DEF GreetInv, Greeting, CleanSession
  <1>7. Line' = Effect(p, Line)
    BY <1>4, Zenon DEF Line
  <1>8. Debt' = Debt + (IF p.type = "subscribe" THEN 1 ELSE 0) /\ Debt \in Nat
    <2>1. Count(Outbox, "type", "subscribe") \in Nat /\ Count(Inbox, "type", "suback") \in Nat
      BY <1>1, DebtNat
    <2>2. Count(Outbox', "type", "subscribe")
            = Count(Outbox, "type", "subscribe") + (IF p.type = "subscribe" THEN 1 ELSE 0)
      BY <1>4
    <2> QED BY <1>3, <2>1, <2>2 DEF Debt
  <1>9. Debt' \in Nat /\ Awaited' \in Nat /\ Debt' + Awaited <= Debt + Awaited'
    BY <1>8
  <1> QED BY <1>3, <1>6, <1>7, <1>8, <1>9, FollowsOn

\* A replayed SUBSCRIBE that the full queue does not take is awaited all the same.
LEMMA AsksNothing ==
  ASSUME TypesInv, PendingType, GreetInv, Follows, state = "connected", state' = "connected",
         UNCHANGED <<txq, toBroker, partial, rx, toClient, bsubs, setup>>,
         Awaited \in Nat, Awaited' = Awaited + 1
  PROVE  GreetInv' /\ Follows'
  <1>1. Outbox' = Outbox /\ Inbox' = Inbox /\ Debt' = Debt
    BY DEF Outbox, Inbox, Debt
  <1>2. Debt \in Nat
    BY BoxTypes, DebtNat
  <1>3. GreetInv'
    BY <1>1 DEF GreetInv, Greeting, CleanSession
  <1>4. Debt + Awaited <= Debt + Awaited' /\ Awaited' \in Nat
    BY <1>2
  <1>5. CleanSession => Debt' < Awaited'
    <2> SUFFICES ASSUME CleanSession PROVE Debt' < Awaited'
      OBVIOUS
    <2>1. Debt <= Awaited
      BY DEF Follows
    <2> QED BY <1>1, <1>2, <2>1
  <1> QED BY <1>1, <1>2, <1>3, <1>4, <1>5, FollowsOn

-----------------------------------------------------------------------------
\* A packet of the broker is dispatched.
LEMMA GreetTook ==
  ASSUME GreetInv, Tracked(Inbox'), NEW h, Inbox = <<h>> \o Inbox', Outbox' = Outbox,
         UNCHANGED <<bsubs, setup>>
  PROVE  /\ GreetInv' /\ ~Greeting' /\ ~Has(Outbox, "connect")
         /\ \A v : /\ Count(Inbox', "type", v) \in Nat
                   /\ Count(Inbox, "type", v) = (IF h.type = v THEN 1 ELSE 0) + Count(Inbox', "type", v)
         /\ \A t : Has(Inbox, t) <=> h.type = t \/ Has(Inbox', t)
         /\ \A v : Says(Inbox, v) <=> Verdict(h) = v \/ Says(Inbox', v)
  <1> DEFINE q == Inbox'
  <1>1. /\ Tail(Inbox) = q /\ Inbox # <<>> /\ Tracked(q)
        /\ \A v : /\ Count(q, "type", v) \in Nat
                  /\ Count(Inbox, "type", v) = (IF h.type = v THEN 1 ELSE 0) + Count(q, "type", v)
        /\ \A t : Has(Inbox, t) <=> h.type = t \/ Has(q, t)
        /\ \A v : Says(Inbox, v) <=> Verdict(h) = v \/ Says(q, v)
    BY FirstOf
  <1>2. ~Has(Outbox, "connect") /\ ~Has(q, "connack")
    BY <1>1 DEF GreetInv
  <1>3. ~Greeting'
    BY <1>2 DEF Greeting
  <1>4. q # <<>> => ~Has(Tail(q), "connack")
    <2>1. q # <<>> => (Has(q, "connack") <=> Head(q).type = "connack" \/ Has(Tail(q), "connack"))
      BY <1>1, HasFacts DEF Tracked
    <2> QED BY <1>2, <2>1
  <1>5. CleanSession' /\ Says(Inbox', "accepted") => bsubs' = {}
    BY <1>1 DEF GreetInv, CleanSession
  <1>6. GreetInv'
    BY <1>2, <1>3, <1>4, <1>5 DEF GreetInv
  <1> QED BY <1>1, <1>2, <1>3, <1>6

\* An answer the client waits for, or one that answers nothing.
LEMMA Answered1 ==
  ASSUME TypesInv, GreetInv, Follows, Tracked(Inbox'), NEW h, Inbox = <<h>> \o Inbox',
         Outbox' = Outbox, UNCHANGED <<bsubs, setup>>,
         state' = "connected" =>
            /\ state = "connected" /\ UNCHANGED todo /\ Declared' = Declared /\ Verdict(h) # "refused"
            /\ Awaited \in Nat /\ Awaited' \in Nat
            /\ Awaited' + (IF h.type = "suback" THEN 1 ELSE 0) = Awaited
  PROVE  GreetInv' /\ Follows'
  <1>1. /\ GreetInv'
        /\ \A v : /\ Count(Inbox', "type", v) \in Nat
                  /\ Count(Inbox, "type", v) = (IF h.type = v THEN 1 ELSE 0) + Count(Inbox', "type", v)
        /\ \A v : Says(Inbox, v) <=> Verdict(h) = v \/ Says(Inbox', v)
    BY GreetTook
  <1>2. Line' = Line
    BY DEF Line
  <1>3. /\ Count(Outbox, "type", "subscribe") \in Nat /\ Count(Inbox', "type", "suback") \in Nat
        /\ Debt = Count(Outbox, "type", "subscribe") + Count(Inbox, "type", "suback")
        /\ Debt' = Count(Outbox, "type", "subscribe") + Count(Inbox', "type", "suback")
        /\ Count(Inbox, "type", "suback") = (IF h.type = "suback" THEN 1 ELSE 0) + Count(Inbox', "type", "suback")
    BY <1>1, BoxTypes, CountNat DEF Debt
  <1> DEFINE o == Count(Outbox, "type", "subscribe")
             b == Count(Inbox', "type", "suback")
             x == IF h.type = "suback" THEN 1 ELSE 0
  <1>4. o \in Nat /\ b \in Nat /\ x \in Nat /\ Debt' = o + b /\ Debt = o + (x + b)
    BY <1>3
  <1> HIDE DEF o, b, x
  <1>5. Debt \in Nat /\ Debt' \in Nat
    BY <1>4
  <1>6. CASE state' = "connected"
    <2>1. Awaited \in Nat /\ Awaited' \in Nat /\ Awaited' + x = Awaited
      BY <1>6 DEF x
    <2> DEFINE a == Awaited
               c == Awaited'
               d == Debt
               e == Debt'
    <2>2. /\ a \in Nat /\ c \in Nat /\ c + x = a /\ o \in Nat /\ b \in Nat /\ x \in Nat
          /\ e = o + b /\ d = o + (x + b)
      BY <1>4, <2>1
    <2> HIDE DEF a, c, d, e
    <2>3. e + a <= d + c
      BY <2>2
    <2>4. Debt' + Awaited <= Debt + Awaited'
      BY <2>3, Zenon DEF a, c, d, e
    <2> QED BY <1>1, <1>2, <1>5, <1>6, <2>1, <2>4, FollowsOn
  <1>7. CASE state' # "connected"
    BY <1>1, <1>7 DEF Follows
  <1> QED BY <1>6, <1>7

\* The connection is accepted: nothing was asked of the broker yet.
LEMMA Accepted1 ==
  ASSUME TypesInv, PendingType', GreetInv, Tracked(Inbox'), NEW h, Inbox = <<h>> \o Inbox',
         Outbox' = Outbox, UNCHANGED <<bsubs, setup>>, h.type = "connack", h.code = "accepted",
         CleanSession => todo' = Declared'
  PROVE  GreetInv' /\ Follows'
  <1>1. /\ GreetInv' /\ ~Has(Outbox, "connect")
        /\ \A t : Has(Inbox, t) <=> h.type = t \/ Has(Inbox', t)
        /\ \A v : Says(Inbox, v) <=> Verdict(h) = v \/ Says(Inbox', v)
    BY GreetTook
  <1>2. Greeting /\ Says(Inbox, "accepted")
    BY <1>1 DEF Greeting, Verdict
  <1>3. Silent(Outbox) /\ ~Has(Inbox', "suback")
    BY <1>1, <1>2 DEF GreetInv, Silent, Asks
  <1>4. Debt' = 0
    <2>1. Count(Outbox, "type", "subscribe") = 0 /\ Count(Inbox', "type", "suback") = 0
      BY <1>3, SilentFacts, SaysHas
    <2> QED BY <2>1 DEF Debt
  <1>5. Awaited' \in Nat
    <2>1. \A q : q \in Seq(Responses) => Count(q, "await", "suback") \in Nat
      BY CountType
    <2> QED BY <2>1 DEF PendingType, Awaited
  <1>6. CleanSession' => Line' \cup todo' = Declared'
    <2> SUFFICES ASSUME CleanSession' PROVE Line' \cup todo' = Declared'
      OBVIOUS
    <2>1. bsubs = {} /\ todo' = Declared'
      BY <1>2 DEF GreetInv, CleanSession
    <2>2. Asked(Outbox, {}) = {}
      BY <1>3, SilentFacts, Zenon
    <2>3. Line' = {}
      BY <2>1, <2>2 DEF Line
    <2> QED BY <2>1, <2>3
  <1>7. Follows'
    BY <1>4, <1>5, <1>6 DEF Follows
  <1> QED BY <1>1, <1>7

-----------------------------------------------------------------------------
(* What the broker takes and says                                        *)

\* The broker answers a request, or takes in what needs no answer.
LEMMA BrokerTook ==
  ASSUME TypesInv, PendingType, GreetInv, Follows, NEW h, Tracked(Outbox'), Outbox = <<h>> \o Outbox',
         NEW s, Tracked(s), Inbox' = Inbox \o s, UNCHANGED <<state, pending, subs, todo, setup>>,
         ~Has(s, "connack"), Has(s, "suback") <=> h.type = "subscribe",
         Count(s, "type", "suback") = (IF h.type = "subscribe" THEN 1 ELSE 0),
         s # <<>> => ~Has(Outbox, "connect"),
         bsubs' = Effect(h, bsubs) \/ (bsubs' = bsubs /\ Says(s, "refused"))
  PROVE  GreetInv' /\ Follows'
  <1> DEFINE q == Outbox'
  <1>0. Tracked(q)
    OBVIOUS
  <1>1. /\ \A b : Asked(Outbox, b) = Asked(q, Effect(h, b))
        /\ \A v : /\ Count(q, "type", v) \in Nat
                  /\ Count(Outbox, "type", v) = (IF h.type = v THEN 1 ELSE 0) + Count(q, "type", v)
        /\ \A t : Has(Outbox, t) <=> h.type = t \/ Has(q, t)
    BY <1>0, FirstOf
  <1>2. Tracked(Inbox) /\ Tracked(Outbox)
    BY BoxTypes
  <1>3. /\ \A f, v : /\ Count(Inbox, f, v) \in Nat /\ Count(s, f, v) \in Nat
                     /\ Count(Inbox', f, v) = Count(Inbox, f, v) + Count(s, f, v)
        /\ \A v : Says(Inbox', v) <=> Says(Inbox, v) \/ Says(s, v)
    <2>1. \A f, v : /\ Count(Inbox, f, v) \in Nat /\ Count(s, f, v) \in Nat
                    /\ Count(Inbox \o s, f, v) = Count(Inbox, f, v) + Count(s, f, v)
      BY <1>2, OfAll
    <2>2. \A v : Says(Inbox \o s, v) <=> Says(Inbox, v) \/ Says(s, v)
      BY <1>2, OfAll, Zenon
    <2> QED BY <2>1, <2>2
  <1>4. GreetInv'
    <2>1. \A t \in Asks : Has(Outbox', t) => Has(Outbox, t)
      BY <1>1
    <2>2. Has(s, "suback") => Has(Outbox, "subscribe")
      BY <1>1
    <2>3. bsubs' = bsubs \/ Has(Outbox, "subscribe") \/ Has(Outbox, "unsubscribe")
      BY <1>1 DEF Effect
    <2> QED BY <1>2, <2>1, <2>2, <2>3, GreetOn
  <1>5. Debt \in Nat /\ Debt' = Debt
    <2> DEFINE o == Count(Outbox, "type", "subscribe")
               x == IF h.type = "subscribe" THEN 1 ELSE 0
               b == Count(Inbox, "type", "suback")
               o1 == Count(Outbox', "type", "subscribe")
               b1 == Count(Inbox', "type", "suback")
    <2>1. o1 \in Nat /\ b \in Nat /\ x \in Nat /\ o = x + o1 /\ b1 = b + x
      BY <1>1, <1>3
    <2>2. Debt = o + b /\ Debt' = o1 + b1
      BY DEF Debt
    <2> HIDE DEF o, x, b, o1, b1
    <2> QED BY <2>1, <2>2
  <1>6. Line' = Line \/ Says(Inbox', "refused")
    <2>1. CASE bsubs' = Effect(h, bsubs)
      BY <1>1, <2>1 DEF Line
    <2>2. CASE Says(s, "refused")
      BY <1>3, <2>2
    <2> QED BY <2>1, <2>2
  <1>7. Awaited' = Awaited /\ Declared' = Declared /\ Awaited \in Nat
    BY AwaitedNat DEF Awaited, Declared
  <1>8. Debt + Awaited <= Debt + Awaited
    BY <1>5, <1>7
  <1> QED BY <1>3, <1>4, <1>5, <1>6, <1>7, <1>8, FollowsOn

\* The broker says something that answers no request.
LEMMA BrokerSays ==
  ASSUME TypesInv, PendingType, GreetInv, Follows, Outbox' = Outbox, NEW s, Tracked(s),
         Inbox' = Inbox \o s, UNCHANGED <<state, pending, subs, todo, setup, bsubs>>,
         ~Has(s, "connack"), ~Has(s, "suback"), ~Has(Outbox, "connect")
  PROVE  GreetInv' /\ Follows'
  <1>1. Tracked(Inbox) /\ Tracked(Outbox)
    BY BoxTypes
  <1>2. GreetInv'
    BY <1>1, GreetOn
  <1>3. \A v : Says(Inbox \o s, v) <=> Says(Inbox, v) \/ Says(s, v)
    BY <1>1, OfAll, Zenon
  <1>4. Debt' = Debt /\ Debt \in Nat
    <2>1. \A f, v : /\ Count(Inbox, f, v) \in Nat /\ Count(s, f, v) \in Nat
                    /\ Count(Inbox \o s, f, v) = Count(Inbox, f, v) + Count(s, f, v)
      BY <1>1, OfAll
    <2>2. Count(s, "type", "suback") = 0
      BY SaysHas
    <2>3. Count(Inbox \o s, "type", "suback") = Count(Inbox, "type", "suback")
      BY <2>1, <2>2
    <2> QED BY <1>1, <2>3, DebtNat DEF Debt
  <1>5. Awaited' = Awaited /\ Declared' = Declared /\ Line' = Line /\ Awaited \in Nat
    BY AwaitedNat DEF Awaited, Declared, Line
  <1>6. Debt + Awaited <= Debt + Awaited
    BY <1>4, <1>5
  <1> QED BY <1>2, <1>3, <1>4, <1>5, <1>6, FollowsOn

\* The broker answers the CONNECT, and no other request is on its way.
LEMMA BrokerGreets ==
  ASSUME TypesInv, GreetInv, NEW h, Tracked(Outbox'), Outbox = <<h>> \o Outbox', h.type = "connect",
         ~Has(Outbox', "connect"), NEW c, c.type = "connack",
         NEW s, Tracked(s), Inbox' = Inbox \o (<<c>> \o s),
         ~Has(s, "connack"), ~Has(s, "suback"), UNCHANGED <<state, setup>>,
         CleanSession /\ c.code = "accepted" => bsubs' = {}
  PROVE  GreetInv' /\ Follows'
  <1> DEFINE q == Outbox'
  <1>0. Tracked(q)
    OBVIOUS
  <1>1. \A t : Has(Outbox, t) <=> h.type = t \/ Has(q, t)
    BY <1>0, FirstOf
  <1>2. Has(Outbox, "connect") /\ Greeting
    BY <1>1 DEF Greeting
  <1>3. Inbox = <<>> /\ state # "connected" /\ ~Has(Outbox, "subscribe") /\ ~Has(Outbox, "unsubscribe")
    BY <1>2 DEF GreetInv
  <1>4. /\ Tracked(<<c>> \o s) /\ Tail(<<c>> \o s) = s
        /\ \A t : Has(<<c>> \o s, t) <=> c.type = t \/ Has(s, t)
        /\ \A v : Says(<<c>> \o s, v) <=> Verdict(c) = v \/ Says(s, v)
    BY FirstOf
  <1>5. Inbox' = <<c>> \o s
    BY <1>3, <1>4, JoinAll
  <1>6. ~Has(Inbox', "suback") /\ ~Has(Tail(Inbox'), "connack")
    BY <1>4, <1>5
  <1>7. CleanSession' /\ Says(Inbox', "accepted") => bsubs' = {}
    <2>1. Says(Inbox', "accepted") => c.code = "accepted"
      BY <1>4, <1>5, SaysHas DEF Verdict
    <2> QED BY <2>1 DEF CleanSession
  <1>8. GreetInv'
    BY <1>1, <1>3, <1>6, <1>7 DEF GreetInv
  <1>9. Follows'
    BY <1>3 DEF Follows
  <1> QED BY <1>8, <1>9

-----------------------------------------------------------------------------
(* The steps of the client: the application                              *)

\* What is known of every step.
Known == AckInv /\ IInv /\ NoCallFromNone /\ SubInv /\ PendingType'

\* Its parts.
LEMMA KnownFacts ==
  ASSUME Known
  PROVE  /\ AckInv /\ IInv /\ NoCallFromNone /\ TypesInv /\ WhereInv /\ PendingType /\ PendingType'
         /\ ReplayInv /\ LiveSubs /\ Awaited \in Nat
         /\ link = "up" => GreetInv /\ Follows /\ ConnectFirst
  BY AwaitedNat DEF Known, AckInv, SubInv, LiveSubs, LiveInv

\* A step that moves no packet, or only silent ones, and changes no subscription.
LEMMA Still ==
  ASSUME Known, UNCHANGED <<setup, link, toBroker, partial, rx, toClient, bsubs>>, QueuesSilently,
         state' = "connected" =>
           state = "connected" /\ Awaited' = Awaited /\ UNCHANGED <<subs, todo>>
  PROVE  LiveSubs'
  <1>1. TypesInv /\ PendingType /\ PendingType' /\ LiveSubs
    BY KnownFacts
  <1>2. Alike(Outbox', Outbox) /\ Inbox' = Inbox
    BY <1>1, QueuedSilently DEF Inbox
  <1>3. UNCHANGED subs => Declared' = Declared
    BY DEF Declared
  <1>4. Quiet
    BY <1>2, <1>3 DEF Quiet
  <1> QED BY <1>1, <1>4, QuietKeeps

\* What does not change.
LEMMA Same1 ==
  /\ pending' = pending => Awaited' = Awaited
  /\ txq' = txq => QueuesSilently
  BY DEF Awaited, QueuesSilently

\* A step of the client leaves the broker's subscriptions alone.
LEMMA PeersSubs == Peers => bsubs' = bsubs
  BY DEF Peers

\* The calls of the application ...
LEMMA ApplicationSubs ==
  ASSUME Known, Application, Peers, UNCHANGED setup
  PROVE  LiveSubs'
  <1> USE DEF conn, trans, txvars, rxvars, wire, app, ackv
  <1>0. bsubs' = bsubs
    BY PeersSubs
  <1>1. CASE Connect
    <2>1. CASE state = "disconnected" /\ sock
      <3>1. /\ txq = <<>> /\ partial = <<>> /\ toBroker = <<>> /\ rx = <<>> /\ toClient = <<>>
        BY <2>1, KnownFacts DEF WhereInv, FreshSocket
      <3>2. /\ txq' = Append(txq, ConnectPkt) /\ state' = "connecting"
            /\ UNCHANGED <<partial, toBroker, rx, toClient>>
        BY <1>1, <2>1 DEF Connect
      <3>3. txq' = <<ConnectPkt>>
        BY <3>1, <3>2
      <3> QED BY <3>1, <3>2, <3>3, OpensGreeting DEF LiveSubs
    <2>2. CASE ~(state = "disconnected" /\ sock)
      <3>1. UNCHANGED <<link, toBroker, partial, rx, toClient, txq, pending, subs, todo>>
        BY <1>1, <2>2 DEF Connect
      <3>2. state' = "connected" => state = "connected"
        BY <1>1 DEF Connect
      <3> QED BY <1>0, <3>1, <3>2, Same1, Still
    <2> QED BY <2>1, <2>2
  <1>2. CASE Hold
    <2>1. UNCHANGED <<link, toBroker, partial, rx, toClient, txq, pending, subs, todo, state>>
      BY <1>2 DEF Hold
    <2> QED BY <1>0, <2>1, Same1, Still
  <1>3. CASE Disconnect
    BY <1>3 DEF Disconnect, CloseSocket, LiveSubs
  <1>4. ASSUME NEW q \in {0, 1}, Publish(q) PROVE LiveSubs'
    <2>1. UNCHANGED <<link, toBroker, partial, rx, toClient, pending, subs, todo, state>>
      BY <1>4 DEF Publish
    <2>2. QueuesSilently
      <3>1. CASE DoPublish(published + 1, q)
        BY <3>1, PublishSilently
      <3>2. CASE txq' = txq
        BY <3>2, Same1
      <3> QED BY <1>4, <3>1, <3>2, Zenon DEF Publish, PublishOverflows
    <2> QED BY <1>0, <2>1, <2>2, Same1, Still
  <1>5. ASSUME NEW t \in Topics, Subscribe(t) \/ Unsubscribe(t) PROVE LiveSubs'
    <2>1. UNCHANGED <<link, toBroker, partial, rx, toClient, todo, state, pc>>
      BY <1>5 DEF Subscribe, Unsubscribe
    <2>2. CASE state # "connected" \/ ~Fits(1)
      <3>1. txq' = txq /\ (state = "connected" => UNCHANGED <<pending, subs>>)
        BY <1>5, <2>2 DEF Subscribe, Unsubscribe
      <3> QED BY <1>0, <2>1, <3>1, Same1, Still
    <2>3. CASE state = "connected" /\ Fits(1) /\ link = "up"
      <3>1. todo = {}
        <4>1. \A m : Calls(m) => pc # "replay"
          BY KnownFacts DEF Calls, NoCallFromNone, IInv, ConnInv, NoCallbackYet
        <4>2. pc # "replay"
          BY <1>5, <4>1, Zenon DEF Subscribe, Unsubscribe
        <4> QED BY <4>2, KnownFacts DEF ReplayInv
      <3>2. CASE Subscribe(t)
        <4>1. PICK i \in Ids : /\ txq' = Append(txq, SubscribePkt(i, t))
                               /\ pending' = Append(pending, Response("suback", i, t))
                               /\ subs' = [subs EXCEPT ![t] = "fresh"]
          BY <2>3, <3>2 DEF Subscribe
        <4> DEFINE p == SubscribePkt(i, t)
        <4>2. p.type = "subscribe" /\ p.topic = t /\ txq' = Append(txq, p)
          BY <4>1 DEF SubscribePkt
        <4>3. Awaited' = Awaited + 1 /\ Awaited \in Nat
          <5>1. Response("suback", i, t) \in Responses /\ Response("suback", i, t).await = "suback"
            BY ResponseTypes DEF Awaitable
          <5> QED BY <4>1, <5>1, PendingAdds, KnownFacts
        <4> HIDE DEF p
        <4>4. \A x, y : x \cup y = Declared /\ y = {} => Effect(p, x) \cup y = Declared'
          <5>1. Declared' = Declared \cup {t}
            <6>1. t \in DOMAIN subs
              BY KnownFacts DEF ReplayInv
            <6> QED BY <4>1, <6>1 DEF Declared
          <5> QED BY <4>2, <5>1 DEF Effect
        <4>5. Line \cup todo = Declared => Effect(p, Line) \cup todo' = Declared'
          BY <2>1, <3>1, <4>4
        <4> QED BY <1>0, <2>1, <2>3, <4>2, <4>3, <4>5, KnownFacts, AsksMore DEF LiveSubs
      <3>3. CASE Unsubscribe(t)
        <4>1. PICK i \in Ids : /\ txq' = Append(txq, UnsubscribePkt(i, t))
                               /\ pending' = Append(pending, Response("unsuback", i, t))
                               /\ subs' = [subs EXCEPT ![t] = "no"]
          BY <2>3, <3>3 DEF Unsubscribe
        <4> DEFINE p == UnsubscribePkt(i, t)
        <4>2. p.type = "unsubscribe" /\ p.topic = t /\ txq' = Append(txq, p)
          BY <4>1 DEF UnsubscribePkt
        <4>3. Awaited' = Awaited + 0 /\ Awaited \in Nat
          <5>1. Response("unsuback", i, t) \in Responses /\ Response("unsuback", i, t).await = "unsuback"
            BY ResponseTypes DEF Awaitable
          <5> QED BY <4>1, <5>1, PendingAdds, KnownFacts
        <4> HIDE DEF p
        <4>4. \A x, y : x \cup y = Declared /\ y = {} => Effect(p, x) \cup y = Declared'
          <5>1. Declared' = Declared \ {t}
            <6>1. t \in DOMAIN subs
              BY KnownFacts DEF ReplayInv
            <6> QED BY <4>1, <6>1 DEF Declared
          <5> QED BY <4>2, <5>1 DEF Effect
        <4>5. Line \cup todo = Declared => Effect(p, Line) \cup todo' = Declared'
          BY <2>1, <3>1, <4>4
        <4> QED BY <1>0, <2>1, <2>3, <4>2, <4>3, <4>5, KnownFacts, AsksMore DEF LiveSubs
      <3> QED BY <1>5, <3>2, <3>3
    <2>4. CASE link # "up"
      BY <2>1, <2>4 DEF LiveSubs
    <2> QED BY <2>2, <2>3, <2>4
  <1> QED BY <1>1, <1>2, <1>3, <1>4, <1>5 DEF Application

-----------------------------------------------------------------------------
(* The steps of the client: the tick                                     *)

\* A step that does not leave the client connected moves no packet but silent ones.
LEMMA StillFailed ==
  ASSUME Known, UNCHANGED <<setup, link, toBroker, partial, rx, toClient, bsubs, txq>>,
         state' # "connected"
  PROVE  LiveSubs'
  BY Same1, Still

\* ... the clock, the runner and the transport ...
LEMMA BeginSubs ==
  ASSUME Known, Tick \/ IoError \/ BeginHandle \/ SelfHeal \/ Transport, Peers, UNCHANGED setup
  PROVE  LiveSubs'
  <1> USE DEF conn, trans, txvars, rxvars, wire, app, ackv
  <1>0. bsubs' = bsubs
    BY PeersSubs
  <1>1. CASE Tick
    <2>1. UNCHANGED <<link, toBroker, partial, rx, toClient, txq, subs, todo, state>>
      BY <1>1 DEF Tick
    <2>2. Awaited' = Awaited
      BY <1>1, KnownFacts, PendingTicks DEF Tick
    <2> QED BY <1>0, <2>1, <2>2, Same1, Still
  <1>2. CASE IoError \/ TransportTimeout \/ ConnectorFailed
    <2>1. UNCHANGED <<link, toBroker, partial, rx, toClient, txq>> /\ state' = "failed"
      BY <1>2 DEF IoError, TransportTimeout, ConnectorFailed, Fault, EnterFailed
    <2> QED BY <1>0, <2>1, StillFailed
  <1>3. CASE BeginHandle \/ BeginTransport \/ ConnectorPending
    <2>1. UNCHANGED <<link, toBroker, partial, rx, toClient, txq, pending, subs, todo, state>>
      BY <1>3 DEF BeginHandle, BeginTransport, ConnectorPending
    <2> QED BY <1>0, <2>1, Same1, Still
  <1>4. CASE SelfHeal
    BY <1>4 DEF SelfHeal, CloseSocket, LiveSubs
  <1>5. CASE ConnectorReady
    <2>1. /\ toBroker' = <<>> /\ toClient' = <<>> /\ txq' = Append(txq, ConnectPkt)
          /\ state' = "connecting" /\ UNCHANGED <<partial, rx>> /\ pc = "transport"
      BY <1>5 DEF ConnectorReady
    <2>2. ~sock /\ txq = <<>> /\ partial = <<>>
      BY <2>1, KnownFacts DEF IInv, TransportAgrees, ConnInv
    <2>3. rx = <<>>
      BY <2>2, KnownFacts DEF WhereInv
    <2>4. txq' = <<ConnectPkt>>
      BY <2>1, <2>2
    <2> QED BY <2>1, <2>2, <2>3, <2>4, OpensGreeting DEF LiveSubs
  <1> QED BY <1>1, <1>2, <1>3, <1>4, <1>5 DEF Transport

\* ... the deadlines ...
LEMMA DeadlinesSubs ==
  ASSUME Known, Deadlines, Peers, UNCHANGED setup
  PROVE  LiveSubs'
  <1> USE DEF conn, trans, txvars, rxvars, wire, app, ackv
  <1>0. bsubs' = bsubs
    BY PeersSubs
  <1>1. ASSUME NEW i \in Ids, RetryPublish(i) PROVE LiveSubs'
    <2>1. UNCHANGED <<link, toBroker, partial, rx, toClient, pending, subs, todo, state>>
      BY <1>1 DEF RetryPublish
    <2>2. QueuesSilently
      BY <1>1, SilentTypes, Zenon DEF RetryPublish, QueuesSilently
    <2> QED BY <1>0, <2>1, <2>2, Same1, Still
  <1>2. CASE ResponseTimeout \/ SendTimedOut \/ \E i \in Ids : GiveUpPublish(i)
    <2>1. UNCHANGED <<link, toBroker, partial, rx, toClient, txq>> /\ state' = "failed"
      BY <1>2 DEF ResponseTimeout, SendTimedOut, GiveUpPublish, FailAndGoOn, EnterFailed
    <2> QED BY <1>0, <2>1, StillFailed
  <1>3. CASE Keepalive
    <2>1. UNCHANGED <<link, toBroker, partial, rx, toClient, subs, todo, state>>
      BY <1>3 DEF Keepalive
    <2>2. QueuesSilently
      BY <1>3, SilentTypes, Zenon DEF Keepalive, QueuesSilently
    <2>3. Awaited' = Awaited
      <3>1. pending' = pending \/ pending' = Append(pending, Response("pingresp", 0, NoTopic))
        BY <1>3 DEF Keepalive
      <3>2. /\ Response("pingresp", 0, NoTopic) \in Responses
            /\ Response("pingresp", 0, NoTopic).await = "pingresp"
        BY ResponseTypes DEF Awaitable
      <3> DEFINE p == Response("pingresp", 0, NoTopic)
      <3>3. p \in Responses /\ p.await # "suback"
        BY <3>2
      <3>4. CASE pending' = Append(pending, p)
        <4> HIDE DEF p
        <4>1. Awaited' = Awaited + 0 /\ Awaited \in Nat
          BY <3>3, <3>4, PendingAdds, KnownFacts
        <4> QED BY <4>1
      <3> QED BY <3>1, <3>4, Same1
    <2> QED BY <1>0, <2>1, <2>2, <2>3, Still
  <1> QED BY <1>1, <1>2, <1>3 DEF Deadlines

\* ... the read ...
LEMMA ReceiveSubs ==
  ASSUME Known, Receive, Peers, UNCHANGED setup
  PROVE  LiveSubs'
  <1> USE DEF conn, trans, txvars, rxvars, wire, app, ackv
  <1>0. bsubs' = bsubs
    BY PeersSubs
  <1>1. CASE SkipRecv \/ RecvWithoutSocket \/ RecvAgain
    <2>1. UNCHANGED <<link, toBroker, partial, rx, toClient, txq, pending, subs, todo, state>>
      BY <1>1 DEF SkipRecv, RecvWithoutSocket, RecvAgain
    <2> QED BY <1>0, <2>1, Same1, Still
  <1>2. CASE RecvFails
    <2>1. UNCHANGED <<link, toBroker, partial, rx, toClient, txq>> /\ state' = "failed"
      BY <1>2 DEF RecvFails, Fault, EnterFailed
    <2> QED BY <1>0, <2>1, StillFailed
  <1>3. ASSUME NEW n \in 1..Len(toClient), RecvPackets(n) PROVE LiveSubs'
    <2>1. /\ UNCHANGED <<link, toBroker, partial, txq, pending, subs, todo, state>>
          /\ rx' = rx \o SubSeq(toClient, 1, n)
          /\ toClient' = SubSeq(toClient, n + 1, Len(toClient))
      BY <1>3 DEF RecvPackets
    <2>2. Inbox' = Inbox
      BY <2>1, KnownFacts, CameIn
    <2>3. Outbox' = Outbox /\ Declared' = Declared /\ Awaited' = Awaited
      BY <2>1, Same1 DEF Outbox, Declared
    <2>4. Quiet
      BY <1>0, <2>1, <2>2, <2>3, AlikeSame DEF Quiet
    <2> QED BY <2>4, KnownFacts, QuietKeeps
  <1> QED BY <1>1, <1>2, <1>3 DEF Receive

\* A step that changes the queues only.
LEMMA StillAlike ==
  ASSUME Known, UNCHANGED <<setup, link, rx, toClient, bsubs, pending, subs, todo>>,
         state' = "connected" => state = "connected", link = "up" => Alike(Outbox', Outbox)
  PROVE  LiveSubs'
  <1>1. Inbox' = Inbox /\ Awaited' = Awaited /\ Declared' = Declared
    BY Same1 DEF Inbox, Declared
  <1>2. Quiet
    BY <1>1 DEF Quiet
  <1> QED BY <1>2, KnownFacts, QuietKeeps

\* ... and the writes.
LEMMA DrainSubs ==
  ASSUME Known, Drain, Peers, UNCHANGED setup
  PROVE  LiveSubs'
  <1> USE DEF conn, trans, txvars, rxvars, wire, app, ackv
  <1>0. bsubs' = bsubs
    BY PeersSubs
  <1>1. CASE FinishPartial \/ SendHead \/ SendPart
    <2>1. UNCHANGED <<link, rx, toClient, pending, subs, todo, state>>
      BY <1>1 DEF FinishPartial, SendHead, SendPart
    <2>2. ASSUME link = "up" PROVE Alike(Outbox', Outbox)
      <3>1. \/ /\ partial = <<>> /\ txq # <<>> /\ txq' = Tail(txq) /\ partial' = partial
               /\ toBroker' = Append(toBroker, Head(txq))
            \/ /\ partial = <<>> /\ txq # <<>> /\ txq' = Tail(txq) /\ partial' = <<Head(txq)>>
               /\ toBroker' = toBroker
            \/ /\ partial # <<>> /\ partial' = <<>> /\ txq' = txq
               /\ toBroker' = Append(toBroker, partial[1])
        BY <1>1, <2>2 DEF FinishPartial, SendHead, SendPart, Deliver, ReadyToSend, Draining
      <3>2. Outbox' = Outbox
        BY <3>1, KnownFacts, Sunk
      <3> QED BY <3>2, AlikeSame
    <2> QED BY <1>0, <2>1, <2>2, StillAlike
  <1>2. CASE DrainMarker
    <2>1. /\ UNCHANGED <<link, rx, toClient, pending, subs, todo, state, toBroker, partial>>
          /\ txq # <<>> /\ Head(txq).type = "marker" /\ txq' = Tail(txq)
      BY <1>2 DEF DrainMarker, AtMarker
    <2>2. Alike(Outbox', Outbox)
      <3> DEFINE m == Head(txq)
                 r == Tail(txq)
      <3>1. Tracked(txq)
        BY KnownFacts, BoxTypes
      <3>2. txq = <<m>> \o r /\ Tracked(r) /\ Tracked(<<m>>)
        BY <2>1, <3>1, JoinAll
      <3>3. Silent(<<m>>)
        BY <2>1, HasFew DEF Silent, Asks
      <3>4. txq' = r
        BY <2>1
      <3> HIDE DEF m, r
      <3> DEFINE s == <<m>>
      <3>5. Tracked(s) /\ Silent(s) /\ txq = s \o r
        BY <3>2, <3>3
      <3> HIDE DEF s
      <3> QED BY <2>1, <3>2, <3>4, <3>5, KnownFacts, Fronted
    <2> QED BY <1>0, <2>1, <2>2, StillAlike
  <1>3. CASE DrainEmpty \/ SendAgain \/ DrainDone \/ \E p \in BOOLEAN : StallPartial(p)
    <2>1. UNCHANGED <<link, toBroker, partial, rx, toClient, txq, pending, subs, todo, state>>
      BY <1>3 DEF DrainEmpty, SendAgain, DrainDone, StallPartial
    <2> QED BY <1>0, <2>1, Same1, Still
  <1>4. CASE SendFails
    <2>1. UNCHANGED <<link, toBroker, partial, rx, toClient, txq>> /\ state' = "failed"
      BY <1>4 DEF SendFails, Fault, EnterFailed
    <2> QED BY <1>0, <2>1, StillFailed
  <1> QED BY <1>1, <1>2, <1>3, <1>4 DEF Drain

-----------------------------------------------------------------------------
(* The steps of the client: a packet is dispatched                       *)

\* A packet of the broker is dispatched, whatever it answers.
LEMMA TookAnswer ==
  ASSUME Known, UNCHANGED <<setup, link, toBroker, partial, txq, toClient, bsubs>>,
         rx # <<>>, rx' = Tail(rx), NEW h, h = Head(rx),
         state' = "connected" =>
            /\ state = "connected" /\ UNCHANGED todo /\ Declared' = Declared /\ Verdict(h) # "refused"
            /\ Awaited' \in Nat /\ Awaited' + (IF h.type = "suback" THEN 1 ELSE 0) = Awaited
  PROVE  LiveSubs'
  <1> SUFFICES ASSUME link' = "up" PROVE GreetInv' /\ Follows'
    BY DEF LiveSubs
  <1>1. TypesInv /\ GreetInv /\ Follows /\ Awaited \in Nat
    BY KnownFacts
  <1>2. Inbox = <<h>> \o Inbox' /\ Tracked(Inbox')
    BY <1>1, TookOne
  <1>3. Outbox' = Outbox
    BY DEF Outbox
  <1> QED BY <1>1, <1>2, <1>3, Answered1

\* How many SUBACKs are awaited when a response is discarded.
LEMMA Discarded ==
  ASSUME Known, NEW kind, NEW i, pending' = Discard(kind, i)
  PROVE  /\ Awaited' \in Nat
         /\ kind # "suback" => Awaited' = Awaited
         /\ kind = "suback" /\ (\E k \in DOMAIN pending : Matches(kind, i, k)) => Awaited' + 1 = Awaited
  <1>1. PendingType
    BY KnownFacts
  <1>2. /\ Discard(kind, i) \in Seq(Responses)
        /\ \A v : v # kind => Count(Discard(kind, i), "await", v) = Count(pending, "await", v)
        /\ (\E k \in DOMAIN pending : Matches(kind, i, k)) =>
              Count(Discard(kind, i), "await", kind) + 1 = Count(pending, "await", kind)
    BY <1>1, DiscardFacts
  <1>3. Awaited' = Count(Discard(kind, i), "await", "suback")
    BY DEF Awaited
  <1>4. Awaited' \in Nat
    <2>1. \A q : q \in Seq(Responses) => Count(q, "await", "suback") \in Nat
      BY CountType
    <2> QED BY <1>2, <1>3, <2>1
  <1> QED BY <1>2, <1>3, <1>4, Zenon DEF Awaited

\* ... and the dispatch.
LEMMA DispatchSubs ==
  ASSUME Known, Dispatch, Peers, UNCHANGED setup
  PROVE  LiveSubs'
  <1> USE DEF conn, trans, txvars, rxvars, wire, app, ackv
  <1>0. bsubs' = bsubs /\ Awaited \in Nat
    BY PeersSubs, KnownFacts
  <1>s. subs' = subs => Declared' = Declared
    BY DEF Declared
  <1>v. \A h : h.type # "suback" => Verdict(h) # "refused"
    BY DEF Verdict
  <1>1. CASE DispatchPublish \/ DispatchOversized \/ DispatchPuback
    <2>1. /\ UNCHANGED <<link, toBroker, partial, txq, toClient, pending, subs, todo>>
          /\ rx # <<>> /\ rx' = Tail(rx) /\ Head(rx).type # "suback"
          /\ state' = "connected" => state = "connected"
      BY <1>1 DEF DispatchPublish, DispatchOversized, DispatchPuback, Next1, Took, TookAndFaults, Fault,
            EnterFailed
    <2>2. Awaited' = Awaited /\ Awaited' + 0 = Awaited
      BY <1>0, <2>1, Same1
    <2> QED BY <1>0, <1>s, <1>v, <2>1, <2>2, TookAnswer
  <1>2. CASE DispatchSuback
    <2>1. /\ UNCHANGED <<link, toBroker, partial, txq, toClient, todo>>
          /\ rx # <<>> /\ rx' = Tail(rx) /\ Head(rx).type = "suback"
          /\ state' = "connected" => state = "connected"
      BY <1>2 DEF DispatchSuback, Next1, Took, TookAndFaults, Fault, EnterFailed
    <2>2. ASSUME state' = "connected"
          PROVE  /\ Declared' = Declared /\ Verdict(Head(rx)) # "refused"
                 /\ Awaited' \in Nat /\ Awaited' + 1 = Awaited
      <3> DEFINE i == Head(rx).id
      <3>1. /\ Head(rx).granted /\ SubackTopics(i) # {} /\ pending' = Discard("suback", i)
            /\ \E t : subs' = [subs EXCEPT ![t] = IF @ = "fresh" THEN "granted" ELSE @]
        BY <1>2, <2>2 DEF DispatchSuback, TookAndFaults, Fault, EnterFailed
      <3>2. \E k \in DOMAIN pending : Matches("suback", i, k)
        BY <3>1 DEF SubackTopics
      <3>3. Awaited' \in Nat /\ Awaited' + 1 = Awaited
        <4> HIDE DEF i
        <4> QED BY <3>1, <3>2, Discarded
      <3>4. Declared' = Declared
        <4>1. PICK t : subs' = [subs EXCEPT ![t] = IF @ = "fresh" THEN "granted" ELSE @]
          BY <3>1
        <4>2. DOMAIN subs = Topics
          BY KnownFacts DEF ReplayInv
        <4>3. \A x \in Topics : subs'[x] # "no" <=> subs[x] # "no"
          BY <4>1, <4>2
        <4> QED BY <4>3 DEF Declared
      <3>5. Verdict(Head(rx)) # "refused"
        BY <2>1, <3>1 DEF Verdict
      <3> QED BY <3>3, <3>4, <3>5
    <2> QED BY <1>0, <2>1, <2>2, TookAnswer
  <1>3. CASE DispatchUnsuback \/ DispatchPingresp
    <2>1. /\ UNCHANGED <<link, toBroker, partial, txq, toClient, subs, todo>>
          /\ rx # <<>> /\ rx' = Tail(rx) /\ Head(rx).type # "suback"
          /\ state' = "connected" => state = "connected"
          /\ \/ pending' = Discard("unsuback", Head(rx).id)
             \/ pending' = Discard("pingresp", 0)
             \/ pending' = pending
      BY <1>3 DEF DispatchUnsuback, DispatchPingresp, Next1, Took, TookAndFaults, Fault, EnterFailed
    <2>2. Awaited' = Awaited
      <3>1. \A j : pending' = Discard("unsuback", j) => Awaited' = Awaited
        BY Discarded
      <3>2. pending' = Discard("pingresp", 0) => Awaited' = Awaited
        BY Discarded
      <3> QED BY <2>1, <3>1, <3>2, Same1
    <2>3. Awaited' + 0 = Awaited
      BY <1>0, <2>2
    <2> QED BY <1>0, <1>s, <1>v, <2>1, <2>2, <2>3, TookAnswer
  <1>4. CASE DispatchRejection
    <2>1. /\ UNCHANGED <<link, toBroker, partial, txq, toClient>>
          /\ rx # <<>> /\ rx' = Tail(rx) /\ state' = "failed"
      BY <1>4 DEF DispatchRejection, Next1, Took
    <2> QED BY <1>0, <2>1, TookAnswer
  <1>5. CASE DispatchConnack
    <2>1. /\ UNCHANGED <<link, toBroker, partial, txq, toClient, subs>>
          /\ rx # <<>> /\ rx' = Tail(rx) /\ Head(rx).type = "connack" /\ Head(rx).code = "accepted"
          /\ todo' = Replayed(Head(rx).present)
      BY <1>5 DEF DispatchConnack, Next1
    <2>2. CleanSession => todo' = Declared'
      BY <2>1 DEF Replayed, Declared
    <2>3. Inbox = <<Head(rx)>> \o Inbox' /\ Tracked(Inbox') /\ Outbox' = Outbox
      BY <2>1, KnownFacts, TookOne DEF Outbox
    <2>4. link = "up" => GreetInv' /\ Follows'
      <3> DEFINE h == Head(rx)
      <3>1. h.type = "connack" /\ h.code = "accepted" /\ Inbox = <<h>> \o Inbox'
        BY <2>1, <2>3
      <3> HIDE DEF h
      <3> QED BY <1>0, <2>2, <2>3, <3>1, KnownFacts, Accepted1
    <2> QED BY <2>1, <2>4 DEF LiveSubs
  <1>6. ASSUME NEW t \in Topics, ReplaySubscription(t) PROVE LiveSubs'
    <2>1. PICK i \in Ids :
            /\ txq' = IF Len(txq) < HardCap THEN Append(txq, SubscribePkt(i, t)) ELSE txq
            /\ pending' = Append(pending, Response("suback", i, t))
      BY <1>6 DEF ReplaySubscription
    <2>2. /\ UNCHANGED <<link, toBroker, partial, rx, toClient, subs, state>> /\ pc = "replay"
          /\ t \in todo /\ todo' = todo \ {t}
      BY <1>6 DEF ReplaySubscription
    <2>3. state = "connected" /\ state' = "connected" /\ todo \subseteq Declared /\ Declared' = Declared
      BY <2>2, KnownFacts DEF ReplayInv, Declared
    <2>4. Awaited' = Awaited + 1
      <3>1. Response("suback", i, t) \in Responses /\ Response("suback", i, t).await = "suback"
        BY ResponseTypes DEF Awaitable
      <3> QED BY <2>1, <3>1, PendingAdds, KnownFacts
    <2> SUFFICES ASSUME link = "up" PROVE GreetInv' /\ Follows'
      BY <2>2 DEF LiveSubs
    <2>5. CASE Len(txq) < HardCap
      <3> DEFINE p == SubscribePkt(i, t)
      <3>1. p.type = "subscribe" /\ p.topic = t /\ txq' = Append(txq, p)
        BY <2>1, <2>5 DEF SubscribePkt
      <3> HIDE DEF p
      <3>2. Line \cup todo = Declared => Effect(p, Line) \cup todo' = Declared'
        BY <2>2, <2>3, <3>1 DEF Effect
      <3>3. Awaited' = Awaited + (IF p.type = "subscribe" THEN 1 ELSE 0)
        BY <2>4, <3>1
      <3> QED BY <1>0, <2>2, <2>3, <3>1, <3>2, <3>3, KnownFacts, AsksMore
    <2>6. CASE ~(Len(txq) < HardCap)
      <3>1. txq' = txq
        BY <2>1, <2>6
      <3> QED BY <1>0, <2>2, <2>3, <2>4, <3>1, KnownFacts, AsksNothing
    <2> QED BY <2>5, <2>6
  <1>7. CASE FlushPublish
    <2>1. /\ UNCHANGED <<link, toBroker, partial, rx, toClient, pending, subs, todo>>
          /\ state' = "connected" => state = "connected"
      BY <1>7 DEF FlushPublish, Fault, EnterFailed
    <2>2. QueuesSilently
      <3>1. CASE DoPublish(Head(preq).msg, Head(preq).qos)
        BY <3>1, PublishSilently
      <3>2. CASE txq' = txq
        BY <3>2, Same1
      <3> QED BY <1>7, <3>1, <3>2, Zenon DEF FlushPublish, PublishOverflows
    <2> QED BY <1>0, <2>1, <2>2, Same1, Still
  <1>8. CASE AnnounceConnect \/ StopDispatch
    <2>1. UNCHANGED <<link, toBroker, partial, rx, toClient, txq, pending, subs, todo, state>>
      BY <1>8 DEF AnnounceConnect, StopDispatch
    <2> QED BY <1>0, <2>1, Same1, Still
  <1>9. CASE FlushPubacks
    <2>1. /\ UNCHANGED <<link, toBroker, partial, rx, toClient, pending, subs, todo>>
          /\ state' = "connected" => state = "connected"
          /\ txq' = txq \/ txq' = (IF acks = <<>> THEN <<>> ELSE <<PubacksPkt(acks)>>) \o txq
      BY <1>9 DEF FlushPubacks, Fault, EnterFailed
    <2>2. Tracked(txq)
      BY KnownFacts, BoxTypes
    <2>3. ASSUME NEW s, Tracked(s), Silent(s), txq' = s \o txq PROVE Alike(Outbox', Outbox)
      BY <2>1, <2>2, <2>3, KnownFacts, Fronted
    <2>4. ASSUME txq' = txq PROVE Alike(Outbox', Outbox)
      <3>1. Outbox' = Outbox
        BY <2>1, <2>4 DEF Outbox
      <3> QED BY <3>1, AlikeSame
    <2>5. CASE txq' = <<PubacksPkt(acks)>> \o txq
      <3>1. Tracked(<<PubacksPkt(acks)>>)
        BY JoinAll
      <3>2. Silent(<<PubacksPkt(acks)>>)
        BY HasFew DEF Silent, Asks, PubacksPkt
      <3>3. Alike(Outbox', Outbox)
        BY <2>3, <2>5, <3>1, <3>2, Zenon
      <3> QED BY <1>0, <2>1, <3>3, StillAlike
    <2>6. CASE txq' = <<>> \o txq \/ txq' = txq
      <3>1. txq' = txq
        BY <2>2, <2>6, JoinAll
      <3> QED BY <1>0, <2>1, <2>4, <3>1, StillAlike
    <2> QED BY <2>1, <2>5, <2>6, Zenon
  <1> QED BY <1>1, <1>2, <1>3, <1>4, <1>5, <1>6, <1>7, <1>8, <1>9 DEF Dispatch

-----------------------------------------------------------------------------
(* The steps of the broker                                               *)

\* What a packet that the broker reads leaves on the way.
LEMMA BrokerReads ==
  ASSUME Known, link = "up", NEW type, Reads(type), UNCHANGED setup
  PROVE  /\ Outbox = <<Head(toBroker)>> \o Outbox' /\ Tracked(Outbox') /\ Head(toBroker).type = type
         /\ UNCHANGED <<link, rx, state, pending, subs, todo>>
         /\ TypesInv /\ PendingType /\ GreetInv /\ Follows /\ ConnectFirst
         /\ session => ~Has(Outbox, "connect")
         /\ type = "connect" => ~Has(Outbox', "connect")
         /\ type \notin {"disconnect", "garbage"}
  <1>1. /\ TypesInv /\ PendingType /\ GreetInv /\ Follows /\ ConnectFirst
    BY KnownFacts
  <1>2. /\ toBroker # <<>> /\ toBroker' = Tail(toBroker) /\ Head(toBroker).type = type
        /\ UNCHANGED <<link, rx, state, pending, subs, todo, partial, txq>>
    BY DEF Reads, ClientState, conn, trans, txvars, rxvars, ackv, app
  <1>3. Outbox = <<Head(toBroker)>> \o Outbox' /\ Tracked(Outbox')
    BY <1>1, <1>2, ReadOff
  <1>4. Tracked(toBroker) /\ Tracked(partial) /\ Tracked(txq) /\ Tracked(toBroker \o partial)
    BY <1>1, BoxTypes
  <1>5. /\ \A t : Has(toBroker, t) <=> Head(toBroker).type = t \/ Has(Tail(toBroker), t)
        /\ Tracked(Tail(toBroker))
    BY <1>2, <1>4, HasFacts DEF Tracked
  <1>6. Tracked(Tail(toBroker) \o partial)
    BY <1>4, <1>5, JoinAll
  <1>7. \A t : Has(Outbox, t) <=> Has(toBroker, t) \/ Has(partial, t) \/ Has(txq, t)
    BY <1>4, OfAll DEF Outbox
  <1>8. \A t : Has(Outbox', t) <=> Has(Tail(toBroker), t) \/ Has(partial, t) \/ Has(txq, t)
    <2>1. Outbox' = (Tail(toBroker) \o partial) \o txq
      BY <1>2 DEF Outbox
    <2>2. \A t : Has((Tail(toBroker) \o partial) \o txq, t)
                   <=> Has(Tail(toBroker), t) \/ Has(partial, t) \/ Has(txq, t)
      BY <1>4, <1>5, <1>6, OfAll
    <2> QED BY <2>1, <2>2, Zenon
  <1>9. session => ~Has(Outbox, "connect")
    BY <1>1, <1>7 DEF ConnectFirst
  <1>10. type = "connect" => ~Has(Outbox', "connect")
    BY <1>1, <1>2, <1>5, <1>8 DEF ConnectFirst
  <1>11. type \notin {"disconnect", "garbage"}
    BY <1>1, <1>2, <1>5 DEF ConnectFirst
  <1> QED BY <1>1, <1>2, <1>3, <1>9, <1>10, <1>11

\* A request of a session is answered.
LEMMA SessionSubs ==
  ASSUME Known, link = "up", session, NEW type, Reads(type), UNCHANGED setup,
         NEW s, Tracked(s), toClient' = toClient \o s,
         ~Has(s, "connack"), Has(s, "suback") <=> type = "subscribe",
         Count(s, "type", "suback") = (IF type = "subscribe" THEN 1 ELSE 0),
         bsubs' = Effect(Head(toBroker), bsubs) \/ (bsubs' = bsubs /\ Says(s, "refused"))
  PROVE  LiveSubs'
  <1> DEFINE h == Head(toBroker)
  <1>1. /\ Outbox = <<h>> \o Outbox' /\ Tracked(Outbox') /\ h.type = type
        /\ UNCHANGED <<link, rx, state, pending, subs, todo>>
        /\ TypesInv /\ PendingType /\ GreetInv /\ Follows /\ ConnectFirst
        /\ ~Has(Outbox, "connect")
    BY BrokerReads
  <1>2. bsubs' = Effect(h, bsubs) \/ (bsubs' = bsubs /\ Says(s, "refused"))
    OBVIOUS
  <1> HIDE DEF h
  <1>3. Inbox' = Inbox \o s
    BY <1>1, CameBack
  <1> QED BY <1>1, <1>2, <1>3, BrokerTook DEF LiveSubs

\* An answer of one packet, or none.
LEMMA AnswerFew ==
  /\ Tracked(<<>>) /\ (\A t : ~Has(<<>>, t)) /\ (\A f, v : Count(<<>>, f, v) = 0)
  /\ \A p : /\ Tracked(<<p>>) /\ (\A t : Has(<<p>>, t) <=> p.type = t)
            /\ \A f, v : Count(<<p>>, f, v) = IF p[f] = v THEN 1 ELSE 0
            /\ \A v : Says(<<p>>, v) <=> Verdict(p) = v
  <1>1. Tracked(<<>>) /\ \A t : ~Has(<<>>, t)
    BY HasFew DEF Tracked
  <1>2. \A p : Tracked(<<p>>) /\ \A t : Has(<<p>>, t) <=> p.type = t
    BY HasFew DEF Tracked
  <1> QED BY <1>1, <1>2, CountFew, SaysFew, Zenon

\* An answer that is neither a CONNACK nor a SUBACK, to no SUBSCRIBE.
LEMMA PlainAnswer ==
  ASSUME Known, link = "up", session, NEW type, Reads(type), UNCHANGED setup,
         NEW s, s = <<>> \/ \E p : p.type \notin {"connack", "suback"} /\ s = <<p>>,
         toClient' = toClient \o s, type # "subscribe", bsubs' = Effect(Head(toBroker), bsubs)
  PROVE  LiveSubs'
  <1>1. Tracked(s) /\ ~Has(s, "connack") /\ ~Has(s, "suback")
    BY AnswerFew
  <1>2. Count(s, "type", "suback") = 0
    BY <1>1, SaysHas
  <1> QED BY <1>1, <1>2, SessionSubs

\* What is sent again is deliveries.
LEMMA Resent ==
  ASSUME NEW u \in Seq(Nat), \A k \in DOMAIN u : u[k] # 0
  PROVE  LET s == [k \in DOMAIN u |-> Delivery(u[k])] IN
         Tracked(s) /\ ~Has(s, "connack") /\ ~Has(s, "suback")
  <1> DEFINE s == [k \in DOMAIN u |-> Delivery(u[k])]
  <1>1. Tracked(s)
    BY DeliveredBack DEF DeliverySeq, Tracked
  <1>2. \A k \in DOMAIN s : s[k].type = "publish"
    BY DEF Delivery
  <1> HIDE DEF s
  <1>3. ~Has(s, "connack") /\ ~Has(s, "suback")
    BY <1>2 DEF Has
  <1> QED BY <1>1, <1>3 DEF s

\* The steps of the broker.
LEMMA BrokerSubs ==
  ASSUME Known, Broker, UNCHANGED setup
  PROVE  LiveSubs'
  <1>1. CASE link # "up"
    <2>1. \A t : Reads(t) => link' = link
      BY DEF Reads
    <2>2. link' = link
      BY <1>1, <2>1, Zenon DEF Broker, BrokerAccepts, BrokerRejects, BrokerTakesPublish,
            BrokerSubscribes, BrokerUnsubscribes, BrokerTakesPubacks, BrokerAnswersPing, BrokerEnds,
            BrokerPushes
    <2> QED BY <1>1, <2>2 DEF LiveSubs
  <1> SUFFICES ASSUME link = "up" PROVE LiveSubs'
    BY <1>1
  <1>2. ASSUME NEW c, NEW s, Tracked(s), Reads("connect"), c.type = "connack",
               toClient' = toClient \o (<<c>> \o s), ~Has(s, "connack"), ~Has(s, "suback"),
               CleanSession /\ c.code = "accepted" => bsubs' = {}
        PROVE  LiveSubs'
    <2> DEFINE h == Head(toBroker)
    <2>1. /\ Outbox = <<h>> \o Outbox' /\ Tracked(Outbox') /\ h.type = "connect"
          /\ UNCHANGED <<link, rx, state, pending, subs, todo>>
          /\ TypesInv /\ GreetInv /\ ~Has(Outbox', "connect")
      BY <1>2, BrokerReads
    <2> HIDE DEF h
    <2>2. Tracked(<<c>> \o s)
      BY <1>2, JoinAll
    <2>3. Inbox' = Inbox \o (<<c>> \o s)
      BY <1>2, <2>1, <2>2, CameBack
    <2> QED BY <1>2, <2>1, <2>3, BrokerGreets DEF LiveSubs
  <1>3. CASE BrokerAccepts
    <2> DEFINE s == [k \in DOMAIN unacked' |-> Delivery(unacked'[k])]
               resume == kept /\ ~CleanSession
               c == Connack("accepted", resume)
    <2>1. /\ Reads("connect") /\ bsubs' = (IF resume THEN bsubs ELSE {})
          /\ unacked' = (IF resume THEN unacked ELSE <<>>)
          /\ toClient' = toClient \o (<<c>> \o s)
      BY <1>3 DEF BrokerAccepts, Reply
    <2>2. unacked' \in Seq(Nat) /\ \A k \in DOMAIN unacked' : unacked'[k] # 0
      <3>1. unacked \in Seq(Nat) /\ \A k \in DOMAIN unacked : unacked[k] \in 1..Pushed
        BY KnownFacts DEF AckInv, TypesInv, Distinct
      <3>2. setup.pushes \in Nat /\ left.pushes \in 0..setup.pushes
        BY KnownFacts DEF AckInv, Distinct
      <3>3. \A n \in 1..Pushed : n # 0
        BY <3>2 DEF Pushed
      <3>4. <<>> \in Seq(Nat) /\ DOMAIN <<>> = {}
        OBVIOUS
      <3> QED BY <2>1, <3>1, <3>3, <3>4
    <2>3. Tracked(s) /\ ~Has(s, "connack") /\ ~Has(s, "suback")
      BY <2>2, Resent
    <2>4. c.type = "connack"
      BY DEF Connack
    <2>5. CleanSession => bsubs' = {}
      BY <2>1
    <2> HIDE DEF c, s
    <2> QED BY <1>2, <2>1, <2>3, <2>4, <2>5
  <1>4. ASSUME NEW code \in {"transient", "permanent"}, BrokerRejects(code) PROVE LiveSubs'
    <2> DEFINE c == Connack(code, FALSE)
    <2>1. Reads("connect") /\ toClient' = toClient \o <<c>>
      BY <1>4 DEF BrokerRejects, Reply
    <2>2. c.type = "connack" /\ c.code # "accepted"
      BY DEF Connack
    <2> HIDE DEF c
    <2>3. /\ Tracked(<<>>) /\ ~Has(<<>>, "connack") /\ ~Has(<<>>, "suback") /\ Tracked(<<c>>)
      BY AnswerFew
    <2>4. <<c>> \o <<>> = <<c>>
      BY <2>3, JoinAll
    <2>5. toClient' = toClient \o (<<c>> \o <<>>)
      BY <2>1, <2>4
    <2> QED BY <1>2, <2>1, <2>2, <2>3, <2>5
  <1> DEFINE h == Head(toBroker)
  <1>e. \A t : Reads(t) => h.type = t
    BY DEF Reads
  <1>t. TypesInv
    BY KnownFacts
  <1>u. toClient \o <<>> = toClient
    BY <1>t, BoxTypes, JoinAll
  <1>5. CASE BrokerTakesPublish
    <2> DEFINE p == [type |-> "puback", id |-> h.id]
               s == IF h.id = 0 THEN <<>> ELSE <<p>>
    <2>1. Reads("publish") /\ session /\ bsubs' = bsubs /\ toClient' = toClient \o s
      BY <1>5 DEF BrokerTakesPublish, Reply
    <2>2. bsubs' = Effect(h, bsubs)
      BY <1>e, <2>1 DEF Effect
    <2>3. p.type \notin {"connack", "suback"}
      OBVIOUS
    <2> HIDE DEF p
    <2>4. s = <<>> \/ \E q : q.type \notin {"connack", "suback"} /\ s = <<q>>
      BY <2>3
    <2> HIDE DEF s
    <2> QED BY <2>1, <2>2, <2>4, PlainAnswer
  <1>6. ASSUME NEW granted \in BOOLEAN, BrokerSubscribes(granted) PROVE LiveSubs'
    <2> DEFINE p == [type |-> "suback", id |-> h.id, granted |-> granted]
    <2>1. /\ Reads("subscribe") /\ session /\ toClient' = toClient \o <<p>>
          /\ bsubs' = IF granted THEN bsubs \cup {h.topic} ELSE bsubs
      BY <1>6 DEF BrokerSubscribes, Reply
    <2>2. p.type = "suback" /\ p["type"] = "suback" /\ p.granted = granted
      OBVIOUS
    <2> HIDE DEF p
    <2>3. /\ Tracked(<<p>>) /\ ~Has(<<p>>, "connack") /\ Has(<<p>>, "suback")
          /\ Count(<<p>>, "type", "suback") = 1
          /\ ~granted => Says(<<p>>, "refused")
      BY <2>2, AnswerFew DEF Verdict
    <2>4. bsubs' = Effect(h, bsubs) \/ (bsubs' = bsubs /\ Says(<<p>>, "refused"))
      BY <1>e, <2>1, <2>3 DEF Effect
    <2> DEFINE s == <<p>>
    <2>5. /\ Tracked(s) /\ ~Has(s, "connack") /\ Has(s, "suback") /\ Count(s, "type", "suback") = 1
          /\ bsubs' = Effect(h, bsubs) \/ (bsubs' = bsubs /\ Says(s, "refused"))
          /\ toClient' = toClient \o s
      BY <2>1, <2>3, <2>4
    <2> HIDE DEF s
    <2> QED BY <2>1, <2>5, SessionSubs
  <1>7. CASE BrokerUnsubscribes
    <2> DEFINE p == [type |-> "unsuback", id |-> h.id]
               s == <<p>>
    <2>1. /\ Reads("unsubscribe") /\ session /\ toClient' = toClient \o s
          /\ bsubs' = bsubs \ {h.topic}
      BY <1>7 DEF BrokerUnsubscribes, Reply
    <2>2. bsubs' = Effect(h, bsubs)
      BY <1>e, <2>1 DEF Effect
    <2>3. p.type \notin {"connack", "suback"}
      OBVIOUS
    <2> HIDE DEF p
    <2>4. s = <<>> \/ \E q : q.type \notin {"connack", "suback"} /\ s = <<q>>
      BY <2>3
    <2> HIDE DEF s
    <2> QED BY <2>1, <2>2, <2>4, PlainAnswer
  <1>8. CASE BrokerTakesPubacks
    <2>1. Reads("pubacks") /\ session /\ toClient' = toClient /\ bsubs' = bsubs
      BY <1>8 DEF BrokerTakesPubacks
    <2>2. bsubs' = Effect(h, bsubs)
      BY <1>e, <2>1 DEF Effect
    <2> DEFINE s == <<>>
    <2>3. toClient' = toClient \o s
      BY <1>u, <2>1
    <2>4. s = <<>> \/ \E q : q.type \notin {"connack", "suback"} /\ s = <<q>>
      OBVIOUS
    <2> HIDE DEF s
    <2> QED BY <2>1, <2>2, <2>3, <2>4, PlainAnswer
  <1>9. CASE BrokerAnswersPing
    <2> DEFINE p == [type |-> "pingresp"]
               s == <<p>>
    <2>1. Reads("pingreq") /\ session /\ toClient' = toClient \o s /\ bsubs' = bsubs
      BY <1>9 DEF BrokerAnswersPing, Reply, bvars
    <2>2. bsubs' = Effect(h, bsubs)
      BY <1>e, <2>1 DEF Effect
    <2>3. p.type \notin {"connack", "suback"}
      OBVIOUS
    <2> HIDE DEF p
    <2>4. s = <<>> \/ \E q : q.type \notin {"connack", "suback"} /\ s = <<q>>
      BY <2>3
    <2> HIDE DEF s
    <2> QED BY <2>1, <2>2, <2>4, PlainAnswer
  <1>10. CASE BrokerEnds
    <2>1. \A t : Reads(t) => t \notin {"disconnect", "garbage"}
      BY BrokerReads
    <2> QED BY <1>10, <2>1 DEF BrokerEnds
  <1>11. ASSUME NEW kind \in {"publish", "oversized"}, NEW id, BrokerPushes(kind, id) PROVE LiveSubs'
    <2> DEFINE p == [type |-> kind, id |-> id]
               s == <<p>>
    <2>1. /\ session /\ toClient' = Append(toClient, p)
          /\ UNCHANGED <<link, toBroker, partial, txq, rx, state, pending, subs, todo, bsubs>>
      BY <1>11 DEF BrokerPushes, ClientState, conn, trans, txvars, rxvars, ackv, app
    <2>2. Append(toClient, p) = toClient \o s
      BY <1>t, BoxTypes, JoinAll
    <2>3. p.type \notin {"connack", "suback"}
      OBVIOUS
    <2> HIDE DEF p
    <2>4. Tracked(s) /\ ~Has(s, "connack") /\ ~Has(s, "suback")
      BY <2>3, AnswerFew
    <2> HIDE DEF s
    <2>5. Inbox' = Inbox \o s /\ Outbox' = Outbox
      BY <1>t, <2>1, <2>2, <2>4, CameBack DEF Outbox
    <2>6. ~Has(Outbox, "connect")
      <3>1. \A t : Has(Outbox, t) <=> Has(toBroker, t) \/ Has(partial, t) \/ Has(txq, t)
        BY <1>t, BoxTypes, OfAll DEF Outbox
      <3> QED BY <2>1, <3>1, KnownFacts DEF ConnectFirst
    <2> QED BY <2>1, <2>4, <2>5, <2>6, KnownFacts, BrokerSays DEF LiveSubs
  <1> HIDE DEF h
  <1> QED BY <1>3, <1>4, <1>5, <1>6, <1>7, <1>8, <1>9, <1>10, <1>11 DEF Broker

-----------------------------------------------------------------------------
(* The theorem                                                           *)

\* SubInv is inductive, given what was proved of the connection and the order.
LEMMA SubStep ==
  SubInv /\ AckInv /\ IInv /\ NoCallFromNone /\ [SystemNext]_vars => SubInv'
  <1> SUFFICES ASSUME SubInv, AckInv, IInv, NoCallFromNone, [SystemNext]_vars PROVE SubInv'
    OBVIOUS
  <1>1. PendingType'
    BY PendingStep DEF SubInv
  <1>2. ReplayInv'
    BY ReplayStep DEF SubInv
  <1>3. Known
    BY <1>1 DEF Known
  <1>4. LiveSubs'
    <2>1. CASE ClientStep
      <3>1. Peers /\ UNCHANGED setup
        BY <2>1 DEF ClientStep, ClientNext
      <3>2. CASE Application
        BY <1>3, <3>1, <3>2, ApplicationSubs
      <3>3. CASE Tick \/ IoError \/ BeginHandle \/ SelfHeal \/ Transport
        BY <1>3, <3>1, <3>3, BeginSubs
      <3>4. CASE Deadlines
        BY <1>3, <3>1, <3>4, DeadlinesSubs
      <3>5. CASE Receive
        BY <1>3, <3>1, <3>5, ReceiveSubs
      <3>6. CASE Dispatch
        BY <1>3, <3>1, <3>6, DispatchSubs
      <3>7. CASE Drain
        BY <1>3, <3>1, <3>7, DrainSubs
      <3> QED BY <2>1, <3>2, <3>3, <3>4, <3>5, <3>6, <3>7 DEF ClientStep, ClientNext, Handle
    <2>2. CASE Broker /\ UNCHANGED setup
      BY <1>3, <2>2, BrokerSubs
    <2>3. ASSUME NEW how \in {"fin", "reset", "hole"}, Break(how) PROVE LiveSubs'
      BY <2>3 DEF Break, LiveSubs
    <2>4. CASE UNCHANGED vars
      <3>1. /\ UNCHANGED <<setup, link, toBroker, partial, rx, toClient, bsubs, txq>>
            /\ UNCHANGED <<state, pending, subs, todo>>
        BY <2>4 DEF vars, cvars, bvars, conn, trans, txvars, rxvars, wire, ackv, app
      <3> QED BY <1>3, <3>1, Same1, Still
    <2> QED BY <2>1, <2>2, <2>3, <2>4 DEF SystemNext
  <1> QED BY <1>1, <1>2, <1>4 DEF SubInv

\* It holds at the start ...
LEMMA InitSubs == SystemInit => SubInv
  <1> SUFFICES ASSUME SystemInit PROVE SubInv
    OBVIOUS
  <1>1. /\ toBroker = <<>> /\ partial = <<>> /\ txq = <<>> /\ rx = <<>> /\ toClient = <<>>
        /\ pending = <<>> /\ todo = {} /\ state = "disconnected" /\ pc = "idle" /\ DOMAIN subs = Topics
    BY DEF SystemInit, Init
  <1>2. PendingType
    BY <1>1 DEF PendingType
  <1>3. ReplayInv
    BY <1>1 DEF ReplayInv
  <1>4. Outbox = <<>> /\ Inbox = <<>>
    BY <1>1, AnswerFew, JoinAll DEF Outbox, Inbox
  <1>5. GreetInv
    <2>1. \A t : ~Has(<<>>, t)
      BY AnswerFew
    <2>2. ~Says(<<>>, "accepted")
      BY SaysFew
    <2> QED BY <1>4, <2>1, <2>2 DEF GreetInv, Greeting
  <1>6. Follows
    BY <1>1 DEF Follows
  <1> QED BY <1>2, <1>3, <1>5, <1>6 DEF SubInv, LiveSubs

\* ... and at rest it says that the subscriptions agree.
LEMMA SubInvServed == SubInv => SubscriptionsServed
  <1> SUFFICES ASSUME SubInv, AtRest, CleanSession PROVE Served
    BY DEF SubscriptionsServed
  <1>1. /\ toBroker = <<>> /\ partial = <<>> /\ txq = <<>> /\ rx = <<>> /\ toClient = <<>>
        /\ pending = <<>> /\ state = "connected" /\ pc = "idle" /\ link = "up"
    BY DEF AtRest
  <1>2. Outbox = <<>> /\ Inbox = <<>>
    BY <1>1, AnswerFew, JoinAll DEF Outbox, Inbox
  <1>3. todo = {}
    BY <1>1 DEF SubInv, ReplayInv
  <1>4. Debt = 0 /\ Awaited = 0
    BY <1>1, <1>2, AnswerFew DEF Debt, Awaited
  <1>5. ~Says(Inbox, "refused")
    BY <1>2, SaysFew
  <1>6. Line = bsubs
    BY <1>2, AskedFew DEF Line
  <1>7. Line \cup todo = Declared
    BY <1>1, <1>4, <1>5 DEF SubInv, LiveSubs, Follows
  <1> QED BY <1>3, <1>6, <1>7 DEF Served, Declared

\* Whenever a connected client with a clean session is at rest, the broker serves exactly
\* the subscriptions the application declared (subscribe, unsubscribe, _handle_suback,
\* _replay_subscriptions).
THEOREM DeclaredIsServed == Spec => []SubscriptionsServed
  <1>1. SystemInit => BatchInv
    BY OneInNone DEF SystemInit, Init, BatchInv, Dispatches
  <1> QED BY <1>1, InitNoCall, NextNoCall, InitConn, NextConn, BatchStep, InitAcks, AckStep,
         InitSubs, SubStep, SubInvServed, PTL DEF Spec
=============================================================================
