-------------------------- MODULE MqttDeliveryProofs --------------------------
(***************************************************************************)
(* MqttSystem implements MqttDelivery: a QoS 1 publish that was accepted   *)
(* is confirmed once, and only after the broker has it, or given up in a   *)
(* documented way, for every configuration, peer and network.              *)
(*                                                                         *)
(* Two things are needed of an execution.  Packet ids run through a cycle  *)
(* of 65535, so an id comes back when nothing of its last use is still     *)
(* under way (FreshIds): otherwise a late duplicate of a PUBACK confirms a *)
(* publish the broker has never seen, as the protocol allows.  And what    *)
(* was published offline finds room when it is flushed (FlushFits): the    *)
(* client drops it silently otherwise (client.py:554).                     *)
(*                                                                         *)
(* The invariant relates the client's table to what is under way.  A       *)
(* publish under way carries the message of its id and a PUBACK of a live  *)
(* id vouches that the broker has it (PacketsInv): these survive           *)
(* retransmission, duplicates and redials, for a packet outlives its entry *)
(* and not the other way around.  And every message that is still open is  *)
(* in flight or in the offline queue, once (KeptInv, FlightInv, QueueInv): *)
(* nothing is forgotten, and nothing confirmed can be confirmed again.     *)
(* FateMoves then maps each step to a step of the contract, or to none.    *)
(***************************************************************************)
EXTENDS MqttSubscriptionProofs

-----------------------------------------------------------------------------
(* What becomes of a publish                                             *)

\* The publishes on their way to the broker, the acknowledgements on their way back.
Sent == {p \in (Elements(toBroker) \cup Elements(partial)) \cup Elements(txq) : p.type = "publish"}
Back == {p \in Elements(rx) \cup Elements(toClient) : p.type = "puback"}

\* An id is given to a message only when nothing about an earlier message of that id is
\* under way: ids run through a cycle of 65535.
FreshIds ==
    \A i \in Ids : ~Live(i) /\ Live(i)' => \A p \in Sent \cup Back : p.id # i

\* What was published offline finds room in the transmit queue.
FlushFits == pc = "replay" /\ todo = {} /\ preq # <<>> => (Head(preq).qos = 1 => Fits(1))

Entries == [msg : Nat, left : Int, tries : Nat]
Queued1 == [msg : Nat, qos : {0, 1}]

\* Publish() took m, and it is neither confirmed nor given up.
Open(m)  == m \in accepted /\ fired[m] = 0 /\ m \notin excused
Flies(m) == \E i \in Ids : inflight[i].msg = m
Waits(m) == \E k \in DOMAIN preq : preq[k].qos = 1 /\ preq[k].msg = m

\* A publish carries the message of its id, and an acknowledgement of a live id is the
\* broker's word that it has that message.
Carries(p) ==
    /\ p.id \in Ids \cup {0} /\ p.msg \in 1..published
    /\ p.id \in Ids /\ Live(p.id) => inflight[p.id].msg = p.msg
Vouches(p) == p.id \in Ids /\ (Live(p.id) => inflight[p.id].msg \in got)
PacketsInv == (\A p \in Sent : Carries(p)) /\ (\A p \in Back : Vouches(p))

LogInv ==
    /\ published \in 0..MaxPublish
    /\ accepted \subseteq 1..published /\ got \subseteq 1..published /\ excused \subseteq accepted
    /\ fired \in [Msgs -> {0, 1}]
    /\ \A m \in Msgs : fired[m] = 1 => m \in accepted
FlightInv ==
    /\ inflight \in [Ids -> Entries]
    /\ \A i \in Ids : Live(i) => Open(inflight[i].msg)
    /\ \A i, j \in Ids : Live(i) /\ inflight[i].msg = inflight[j].msg => i = j
QueueInv ==
    /\ preq \in Seq(Queued1)
    /\ \A k \in DOMAIN preq : preq[k].msg \in 1..published
    /\ \A k \in DOMAIN preq : preq[k].qos = 1 => Open(preq[k].msg) /\ ~Flies(preq[k].msg)
    /\ \A j, k \in DOMAIN preq :
          preq[j].qos = 1 /\ preq[k].qos = 1 /\ preq[j].msg = preq[k].msg => j = k
\* No message that is still open is forgotten.
KeptInv == \A m \in Msgs : Open(m) => Flies(m) \/ Waits(m)
TableInv == LogInv /\ FlightInv /\ QueueInv /\ KeptInv
PromiseInv == PacketsInv /\ TableInv

-----------------------------------------------------------------------------
\* The packets of a queue that is joined, taken apart or emptied.
LEMMA ElementsFacts ==
  /\ Elements(<<>>) = {}
  /\ \A p : Elements(<<p>>) = {p}
  /\ \A x, y : Tracked(x) /\ Tracked(y) => Elements(x \o y) = Elements(x) \cup Elements(y)
  /\ \A x, p : Tracked(x) => Elements(Append(x, p)) = Elements(x) \cup {p}
  /\ \A x : Tracked(x) /\ x # <<>> => Elements(x) = {Head(x)} \cup Elements(Tail(x))
  <1>1. Elements(<<>>) = {} /\ \A p : Elements(<<p>>) = {p}
    BY DEF Elements
  <1>2. ASSUME NEW x, NEW y, Tracked(x), Tracked(y)
        PROVE  Elements(x \o y) = Elements(x) \cup Elements(y)
    <2> DEFINE z == x \o y
    <2>1. /\ DOMAIN z = 1..(Len(x) + Len(y)) /\ Len(x) \in Nat /\ Len(y) \in Nat
          /\ DOMAIN x = 1..Len(x) /\ DOMAIN y = 1..Len(y)
          /\ \A k \in 1..Len(x) : z[k] = x[k]
          /\ \A k \in 1..Len(y) : z[Len(x) + k] = y[k]
          /\ \A k \in 1..(Len(x) + Len(y)) : k \in 1..Len(x) \/ k - Len(x) \in 1..Len(y)
          /\ \A k \in 1..(Len(x) + Len(y)) : Len(x) + (k - Len(x)) = k
      BY <1>2, SeqConcat DEF Tracked
    <2> HIDE DEF z
    <2>2. \A k \in 1..Len(x) : k \in DOMAIN z
      BY <2>1
    <2>3. \A k \in 1..Len(y) : Len(x) + k \in DOMAIN z
      BY <2>1
    <2>4. Elements(z) \subseteq Elements(x) \cup Elements(y)
      <3> SUFFICES ASSUME NEW k \in DOMAIN z PROVE z[k] \in Elements(x) \cup Elements(y)
        BY DEF Elements
      <3>1. CASE k \in 1..Len(x)
        BY <2>1, <3>1 DEF Elements
      <3>2. CASE k - Len(x) \in 1..Len(y)
        <4>1. z[k] = y[k - Len(x)]
          BY <2>1, <3>2
        <4> QED BY <2>1, <3>2, <4>1 DEF Elements
      <3> QED BY <2>1, <3>1, <3>2
    <2>5. Elements(x) \subseteq Elements(z)
      BY <2>1, <2>2 DEF Elements
    <2>6. Elements(y) \subseteq Elements(z)
      BY <2>1, <2>3 DEF Elements
    <2> QED BY <2>4, <2>5, <2>6 DEF z
  <1>3. \A x, p : Tracked(x) => Elements(Append(x, p)) = Elements(x) \cup {p}
    <2> SUFFICES ASSUME NEW x, NEW p, Tracked(x) PROVE Elements(Append(x, p)) = Elements(x) \cup {p}
      OBVIOUS
    <2>1. Append(x, p) = x \o <<p>> /\ Tracked(<<p>>)
      BY JoinAll
    <2>2. Elements(x \o <<p>>) = Elements(x) \cup Elements(<<p>>)
      BY <1>2, <2>1
    <2> QED BY <1>1, <2>1, <2>2
  <1>4. \A x : Tracked(x) /\ x # <<>> => Elements(x) = {Head(x)} \cup Elements(Tail(x))
    <2> SUFFICES ASSUME NEW x, Tracked(x), x # <<>>
                 PROVE  Elements(x) = {Head(x)} \cup Elements(Tail(x))
      OBVIOUS
    <2> DEFINE h == Head(x)
               t == Tail(x)
    <2>1. x = <<h>> \o t /\ Tracked(t) /\ Tracked(<<h>>)
      BY JoinAll
    <2> HIDE DEF h, t
    <2>2. Elements(<<h>> \o t) = Elements(<<h>>) \cup Elements(t)
      BY <1>2, <2>1
    <2>3. Elements(x) = {h} \cup Elements(t)
      BY <1>1, <2>1, <2>2
    <2> QED BY <2>3 DEF h, t
  <1> QED BY <1>1, <1>2, <1>3, <1>4

-----------------------------------------------------------------------------
\* A step that brings only packets that are right, and gives no id in use to another message.
LEMMA PacketsKeep ==
  ASSUME PacketsInv, FreshIds, published \in Nat, published' \in Nat, published <= published',
         got \subseteq got', inflight \in [Ids -> Entries],
         \A i \in Ids : Live(i) /\ Live(i)' => inflight'[i].msg = inflight[i].msg,
         \A p \in Sent' : p \in Sent \/ Carries(p)',
         \A p \in Back' : p \in Back \/ Vouches(p)'
  PROVE  PacketsInv'
  <1>1. \A i \in Ids : ~Live(i) /\ Live(i)' => \A p \in Sent \cup Back : p.id # i
    BY DEF FreshIds
  <1>2. ASSUME NEW p \in Sent' PROVE Carries(p)'
    <2>1. CASE p \in Sent
      <3>1. Carries(p)
        BY <2>1 DEF PacketsInv
      <3>2. p.msg \in 1..published'
        BY <3>1 DEF Carries
      <3>3. p.id \in Ids /\ Live(p.id)' => inflight'[p.id].msg = p.msg
        BY <1>1, <2>1, <3>1 DEF Carries
      <3> QED BY <3>1, <3>2, <3>3 DEF Carries, Live
    <2> QED BY <1>2, <2>1
  <1>3. ASSUME NEW p \in Back' PROVE Vouches(p)'
    <2>1. CASE p \in Back
      <3>1. Vouches(p)
        BY <2>1 DEF PacketsInv
      <3>2. Live(p.id)' => inflight'[p.id].msg \in got'
        BY <1>1, <2>1, <3>1 DEF Vouches
      <3> QED BY <3>1, <3>2 DEF Vouches, Live
    <2> QED BY <1>3, <2>1
  <1> QED BY <1>2, <1>3 DEF PacketsInv

-----------------------------------------------------------------------------
(* What one step does to the table and the history                       *)

History == <<accepted, fired, excused, got>>
SameMsgs ==
    /\ inflight' \in [Ids -> Entries]
    /\ \A i \in Ids : inflight'[i].msg = inflight[i].msg

\* Whatever is typed has its message.
LEMMA LogFacts ==
  ASSUME LogInv
  PROVE  /\ published \in Nat /\ MaxPublish \in Nat /\ MaxId \in Nat
         /\ \A m \in accepted : m \in Msgs /\ m \in Nat /\ m # NoMsg
         /\ \A m \in 1..published : m \in Msgs /\ m \in Nat
         /\ \A m \in excused : m \in accepted
         /\ \A m \in Msgs : fired[m] \in {0, 1}
         /\ \A m : Open(m) => m \in Msgs /\ m \in Nat /\ m # NoMsg
  <1>1. published \in 0..MaxPublish /\ MaxPublish \in Nat /\ MaxId \in Nat
    BY MqttAssumption DEF MqttAssumption, LogInv
  <1>2. \A m \in 1..published : m \in Msgs /\ m \in Nat /\ m # NoMsg
    BY <1>1 DEF Msgs, NoMsg
  <1>3. \A m \in accepted : m \in 1..published
    BY DEF LogInv
  <1>4. \A m \in excused : m \in accepted
    BY DEF LogInv
  <1>5. \A m \in Msgs : fired[m] \in {0, 1}
    BY DEF LogInv
  <1>6. \A m : Open(m) => m \in accepted
    BY DEF Open
  <1>7. published \in Nat
    BY <1>1
  <1> QED BY <1>1, <1>2, <1>3, <1>4, <1>5, <1>6, <1>7

LEMMA TableIdle ==
  ASSUME TableInv, SameMsgs, UNCHANGED <<preq, published, History>>
  PROVE  TableInv'
  <1> USE DEF History
  <1>1. LogInv'
    BY DEF TableInv, LogInv
  <1>2. \A m : Open(m)' <=> Open(m)
    BY DEF Open
  <1>3. \A i \in Ids : Live(i)' <=> Live(i)
    BY DEF Live, SameMsgs
  <1>4. \A m : Flies(m)' <=> Flies(m)
    BY DEF Flies, SameMsgs
  <1>5. \A m : Waits(m)' <=> Waits(m)
    BY DEF Waits
  <1>6. FlightInv'
    BY <1>2, <1>3 DEF TableInv, FlightInv, SameMsgs
  <1>7. QueueInv'
    BY <1>2, <1>4 DEF TableInv, QueueInv
  <1>8. KeptInv'
    BY <1>2, <1>4, <1>5 DEF TableInv, KeptInv
  <1> QED BY <1>1, <1>6, <1>7, <1>8 DEF TableInv

\* The broker has one more message.
LEMMA TableTakes ==
  ASSUME TableInv, NEW m \in 1..published, got' = got \cup {m},
         UNCHANGED <<inflight, preq, published, accepted, fired, excused>>
  PROVE  TableInv'
  <1>1. LogInv'
    BY DEF TableInv, LogInv
  <1>2. \A n : Open(n)' <=> Open(n)
    BY DEF Open
  <1>3. \A i \in Ids : Live(i)' <=> Live(i)
    BY DEF Live
  <1>4. \A n : (Flies(n)' <=> Flies(n)) /\ (Waits(n)' <=> Waits(n))
    BY DEF Flies, Waits
  <1>5. FlightInv'
    BY <1>2, <1>3 DEF TableInv, FlightInv
  <1>6. QueueInv'
    BY <1>2, <1>4 DEF TableInv, QueueInv
  <1>7. KeptInv'
    BY <1>2, <1>4 DEF TableInv, KeptInv
  <1> QED BY <1>1, <1>5, <1>6, <1>7 DEF TableInv

\* An entry is opened for a message ...
Enters(i, m) == inflight' = [inflight EXCEPT ![i] = [msg |-> m, left |-> AckTimeout, tries |-> 0]]
LEMMA EntersFacts ==
  ASSUME inflight \in [Ids -> Entries], NEW i \in Ids, ~Live(i), NEW m \in Nat, Enters(i, m), m # NoMsg
  PROVE  /\ inflight' \in [Ids -> Entries]
         /\ inflight'[i].msg = m /\ Live(i)'
         /\ \A j \in Ids : j # i => inflight'[j].msg = inflight[j].msg /\ (Live(j)' <=> Live(j))
         /\ \A n : Flies(n)' <=> n = m \/ (Flies(n) /\ (n # NoMsg \/ \E j \in Ids : j # i /\ inflight[j].msg = n))
  <1> DEFINE e == [msg |-> m, left |-> AckTimeout, tries |-> 0]
  <1>1. e \in Entries /\ e.msg = m
    BY MqttAssumption DEF MqttAssumption, Entries
  <1>2. inflight' = [inflight EXCEPT ![i] = e]
    BY DEF Enters
  <1> HIDE DEF e
  <1>3. inflight' \in [Ids -> Entries] /\ inflight'[i] = e /\ \A j \in Ids : j # i => inflight'[j] = inflight[j]
    BY <1>1, <1>2
  <1>4. \A j \in Ids : j # i => (Live(j)' <=> Live(j))
    BY <1>3 DEF Live
  <1>5. inflight[i].msg = NoMsg
    BY DEF Live
  <1>6. \A n : Flies(n)' <=> n = m \/ (Flies(n) /\ (n # NoMsg \/ \E j \in Ids : j # i /\ inflight[j].msg = n))
    BY <1>1, <1>3, <1>5 DEF Flies
  <1> QED BY <1>1, <1>3, <1>4, <1>6 DEF Live

\* ... and entries go.
Clears(I) == inflight' = [j \in Ids |-> IF j \in I THEN NoEntry ELSE inflight[j]]
LEMMA ClearsFacts ==
  ASSUME inflight \in [Ids -> Entries], NEW I, Clears(I)
  PROVE  /\ inflight' \in [Ids -> Entries]
         /\ \A j \in Ids : j \in I => ~Live(j)' /\ inflight'[j].msg = NoMsg
         /\ \A j \in Ids : j \notin I => inflight'[j].msg = inflight[j].msg /\ (Live(j)' <=> Live(j))
         /\ \A n : n # NoMsg => (Flies(n)' <=> \E j \in Ids : j \notin I /\ inflight[j].msg = n)
  <1> DEFINE e == NoEntry
  <1>1. e \in Entries /\ e.msg = NoMsg
    BY DEF NoEntry, Entries, NoMsg, Off
  <1>2. inflight' = [j \in Ids |-> IF j \in I THEN e ELSE inflight[j]]
    BY DEF Clears
  <1> HIDE DEF e
  <1>3. inflight' \in [Ids -> Entries]
    BY <1>1, <1>2
  <1>4. \A j \in Ids : (j \in I => inflight'[j] = e) /\ (j \notin I => inflight'[j] = inflight[j])
    BY <1>2
  <1>5. \A j \in Ids : j \in I => ~Live(j)' /\ inflight'[j].msg = NoMsg
    BY <1>1, <1>4 DEF Live
  <1>6. \A j \in Ids : j \notin I => inflight'[j].msg = inflight[j].msg /\ (Live(j)' <=> Live(j))
    BY <1>4 DEF Live
  <1>7. \A n : n # NoMsg => (Flies(n)' <=> \E j \in Ids : j \notin I /\ inflight[j].msg = n)
    BY <1>5, <1>6 DEF Flies
  <1> QED BY <1>3, <1>5, <1>6, <1>7

\* publish() takes a message, or not.
LEMMA NewMessage ==
  ASSUME TableInv, published < MaxPublish, NEW m, m = published + 1, published' = m,
         accepted' \in {accepted, accepted \cup {m}}, UNCHANGED <<fired, excused, got>>
  PROVE  /\ LogInv' /\ m \in Msgs /\ m \in Nat /\ m # NoMsg /\ 1..published \subseteq 1..m
         /\ \A n : n # m => (Open(n)' <=> Open(n))
         /\ Open(m)' <=> accepted' = accepted \cup {m}
         /\ ~Open(m) /\ ~Flies(m) /\ ~Waits(m) /\ m \notin 1..published
  <1>1. published \in Nat /\ MaxPublish \in Nat
    BY LogFacts DEF TableInv
  <1>2. m \in Msgs /\ m \in Nat /\ m # NoMsg /\ 1..published \subseteq 1..m /\ m \notin 1..published
        /\ m \in 1..m /\ m \in 0..MaxPublish
    BY <1>1 DEF Msgs, NoMsg
  <1>3. accepted' \in {accepted, accepted \cup {m}}
    OBVIOUS
  <1>4. m \notin accepted /\ m \notin excused /\ fired[m] = 0
    BY <1>2, LogFacts DEF TableInv, LogInv
  <1>5. LogInv'
    BY <1>1, <1>2, <1>3 DEF TableInv, LogInv
  <1>6. \A n : n # m => (Open(n)' <=> Open(n))
    BY <1>3 DEF Open
  <1>7. Open(m)' <=> accepted' = accepted \cup {m}
    BY <1>3, <1>4 DEF Open
  <1>8. ~Open(m)
    BY <1>4 DEF Open
  <1>9. ~Flies(m)
    BY <1>2, <1>8 DEF TableInv, FlightInv, Flies, Live
  <1>10. ~Waits(m)
    BY <1>8 DEF TableInv, QueueInv, Waits
  <1> QED BY <1>2, <1>5, <1>6, <1>7, <1>8, <1>9, <1>10

\* ... on its way at once ...
LEMMA TableSends ==
  ASSUME TableInv, published < MaxPublish, NEW m, m = published + 1, published' = m,
         accepted' = accepted \cup {m}, UNCHANGED <<fired, excused, got, preq>>,
         NEW i \in Ids, ~Live(i), Enters(i, m)
  PROVE  TableInv'
  <1>1. /\ LogInv' /\ m \in Msgs /\ m \in Nat /\ m # NoMsg /\ 1..published \subseteq 1..m
        /\ \A n : n # m => (Open(n)' <=> Open(n))
        /\ Open(m)' /\ ~Open(m) /\ ~Flies(m) /\ ~Waits(m) /\ m \notin 1..published
    BY NewMessage
  <1>3. /\ inflight' \in [Ids -> Entries] /\ inflight'[i].msg = m /\ Live(i)'
        /\ \A j \in Ids : j # i => inflight'[j].msg = inflight[j].msg /\ (Live(j)' <=> Live(j))
        /\ \A n : n # NoMsg => (Flies(n)' <=> n = m \/ Flies(n))
    BY <1>1, EntersFacts DEF TableInv, FlightInv
  <1>4. FlightInv'
    <2>1. \A j \in Ids : Live(j)' => Open(inflight[j].msg)'
      <3> SUFFICES ASSUME NEW j \in Ids, Live(j)' PROVE Open(inflight[j].msg)'
        OBVIOUS
      <3>1. CASE j = i
        BY <1>1, <1>3, <3>1
      <3>2. CASE j # i
        <4>1. Live(j) /\ inflight'[j].msg = inflight[j].msg /\ inflight[j].msg # m
          BY <1>1, <1>3, <3>2 DEF Flies
        <4>2. Open(inflight[j].msg)
          BY <4>1 DEF TableInv, FlightInv
        <4> QED BY <1>1, <4>1, <4>2
      <3> QED BY <3>1, <3>2
    <2>2. \A j, k \in Ids : Live(j)' /\ inflight'[j].msg = inflight'[k].msg => j = k
      <3> SUFFICES ASSUME NEW j \in Ids, NEW k \in Ids, Live(j)', inflight'[j].msg = inflight'[k].msg
                   PROVE  j = k
        OBVIOUS
      <3>1. \A l \in Ids : l # i => inflight'[l].msg # m
        BY <1>1, <1>3 DEF Flies
      <3> QED BY <1>3, <3>1 DEF TableInv, FlightInv
    <2> QED BY <1>3, <2>1, <2>2 DEF FlightInv, Live
  <1>5. QueueInv'
    <2>1. \A k \in DOMAIN preq : preq[k].msg # m /\ preq[k].msg # NoMsg
      BY <1>1, LogFacts DEF TableInv, QueueInv, NoMsg
    <2> QED BY <1>1, <1>3, <2>1 DEF TableInv, QueueInv
  <1>6. KeptInv'
    <2>1. \A n : Waits(n)' <=> Waits(n)
      BY DEF Waits
    <2> SUFFICES ASSUME NEW n \in Msgs, Open(n)' PROVE Flies(n)' \/ Waits(n)'
      BY DEF KeptInv
    <2>2. n # NoMsg
      BY DEF Msgs, NoMsg
    <2>3. n # m => Open(n)
      BY <1>1
    <2> QED BY <1>3, <2>1, <2>2, <2>3 DEF TableInv, KeptInv
  <1> QED BY <1>1, <1>4, <1>5, <1>6 DEF TableInv

\* ... or not taken ...
LEMMA TableRefuses ==
  ASSUME TableInv, published < MaxPublish, NEW m, m = published + 1, published' = m,
         UNCHANGED <<accepted, fired, excused, got, preq, inflight>>
  PROVE  TableInv'
  <1>1. LogInv' /\ 1..published \subseteq 1..m 
    BY NewMessage
  <1>2. \A n : (Open(n)' <=> Open(n)) /\ (Flies(n)' <=> Flies(n)) /\ (Waits(n)' <=> Waits(n))
    BY DEF Open, Flies, Waits
  <1>3. FlightInv'
    BY <1>2 DEF TableInv, FlightInv, Live
  <1>4. QueueInv'
    BY <1>1, <1>2 DEF TableInv, QueueInv
  <1>5. KeptInv'
    BY <1>2 DEF TableInv, KeptInv
  <1> QED BY <1>1, <1>3, <1>4, <1>5 DEF TableInv

\* ... or kept until the connection is there.
LEMMA TableQueues ==
  ASSUME TableInv, published < MaxPublish, NEW m, m = published + 1, published' = m,
         NEW q \in {0, 1}, preq' = Append(preq, [msg |-> m, qos |-> q]),
         accepted' = IF q = 1 THEN accepted \cup {m} ELSE accepted,
         UNCHANGED <<fired, excused, got, inflight>>
  PROVE  TableInv'
  <1>1. /\ LogInv' /\ m \in Msgs /\ m \in Nat /\ m # NoMsg /\ 1..published \subseteq 1..m
        /\ \A n : n # m => (Open(n)' <=> Open(n))
        /\ Open(m)' <=> accepted' = accepted \cup {m}
        /\ ~Open(m) /\ ~Flies(m) /\ ~Waits(m) /\ m \notin 1..published
    BY NewMessage
  <1>a. PICK e : e = [msg |-> m, qos |-> q]
    OBVIOUS
  <1>b. PICK r : r = Append(preq, e)
    OBVIOUS
  <1>2. e \in Queued1 /\ e.msg = m /\ e.qos = q /\ preq' = r
    BY <1>1, <1>a, <1>b DEF Queued1
  <1>3. /\ r \in Seq(Queued1) /\ DOMAIN r = 1..(Len(preq) + 1) /\ DOMAIN preq = 1..Len(preq)
        /\ Len(preq) \in Nat /\ r[Len(preq) + 1] = e /\ \A k \in 1..Len(preq) : r[k] = preq[k]
    BY <1>2, <1>b DEF TableInv, QueueInv
  <1>4. \A k \in DOMAIN r : k \in DOMAIN preq \/ k = Len(preq) + 1
    BY <1>3
  <1>5. \A k \in DOMAIN preq : k \in DOMAIN r /\ r[k] = preq[k]
    BY <1>3
  <1>6. Len(preq) + 1 \in DOMAIN r
    BY <1>3
  <1>7. \A n : (Flies(n)' <=> Flies(n)) /\ (Waits(n)' <=> Waits(n) \/ (q = 1 /\ n = m))
    BY <1>2, <1>3, <1>4, <1>5, <1>6 DEF Flies, Waits
  <1>8. \A k \in DOMAIN preq : preq[k].qos = 1 => preq[k].msg # m
    BY <1>1 DEF Waits
  <1>9. q = 1 => Open(m)'
    BY <1>1
  <1>10. FlightInv'
    <2>1. \A j \in Ids : Live(j) => inflight[j].msg # m
      BY <1>1 DEF Flies
    <2> QED BY <1>1, <2>1 DEF TableInv, FlightInv, Live
  <1>11. QueueInv'
    <2>1. \A k \in DOMAIN r : r[k].msg \in 1..m
      <3>1. m \in 1..m
        BY <1>1, LogFacts DEF TableInv
      <3>2. \A k \in DOMAIN preq : preq[k].msg \in 1..m
        BY <1>1 DEF TableInv, QueueInv
      <3> QED BY <1>2, <1>3, <1>4, <1>5, <3>1, <3>2
    <2>2. \A k \in DOMAIN r : r[k].qos = 1 => Open(r[k].msg)' /\ ~Flies(r[k].msg)'
      <3> SUFFICES ASSUME NEW k \in DOMAIN r, r[k].qos = 1
                   PROVE  Open(r[k].msg)' /\ ~Flies(r[k].msg)'
        OBVIOUS
      <3>1. CASE k \in DOMAIN preq
        BY <1>1, <1>5, <1>7, <1>8, <3>1 DEF TableInv, QueueInv
      <3>2. CASE k = Len(preq) + 1
        BY <1>1, <1>2, <1>3, <1>7, <1>9, <3>2
      <3> QED BY <1>4, <3>1, <3>2
    <2>3. \A j, k \in DOMAIN r : r[j].qos = 1 /\ r[k].qos = 1 /\ r[j].msg = r[k].msg => j = k
      BY <1>2, <1>3, <1>4, <1>5, <1>8 DEF TableInv, QueueInv
    <2> QED BY <1>2, <1>3, <2>1, <2>2, <2>3 DEF QueueInv
  <1>12. KeptInv'
    <2>1. \A n : Open(n)' => Open(n) \/ (n = m /\ q = 1)
      <3>1. accepted' = accepted \cup {m} => q = 1 \/ m \in accepted
        OBVIOUS
      <3>2. m \notin accepted
        BY <1>1 DEF TableInv, LogInv
      <3> QED BY <1>1, <3>1, <3>2
    <2> QED BY <1>7, <2>1 DEF TableInv, KeptInv
  <1> QED BY <1>1, <1>10, <1>11, <1>12 DEF TableInv

\* The head of the offline queue leaves it.
LEMMA TableFlush ==
  ASSUME TableInv, preq # <<>>, preq' = Tail(preq), UNCHANGED <<published, History>>,
         \/ Head(preq).qos = 0 /\ inflight' = inflight
         \/ /\ Head(preq).qos = 1
            /\ \E i \in Ids : ~Live(i) /\ Enters(i, Head(preq).msg)
  PROVE  TableInv'
  <1> USE DEF History
  <1>a. PICK h, r : h = Head(preq) /\ r = Tail(preq)
    OBVIOUS
  <1>1. /\ r \in Seq(Queued1) /\ DOMAIN r = 1..(Len(preq) - 1) /\ DOMAIN preq = 1..Len(preq)
        /\ Len(preq) \in Nat \ {0} /\ h = preq[1] /\ \A k \in 1..(Len(preq) - 1) : r[k] = preq[k + 1]
        /\ h \in Queued1
    BY <1>a DEF TableInv, QueueInv
  <1>2. preq' = r /\ \/ h.qos = 0 /\ inflight' = inflight
                     \/ h.qos = 1 /\ \E i \in Ids : ~Live(i) /\ Enters(i, h.msg)
    BY <1>a
  <1>3. \A k \in DOMAIN r : k + 1 \in DOMAIN preq /\ k + 1 # 1 /\ r[k] = preq[k + 1] /\ k \in Nat
    BY <1>1
  <1>4. \A k \in DOMAIN preq : k = 1 \/ (k - 1 \in DOMAIN r /\ r[k - 1] = preq[k])
    <2>1. \A k \in DOMAIN preq : k = 1 \/ (k - 1 \in 1..(Len(preq) - 1) /\ (k - 1) + 1 = k)
      BY <1>1
    <2> QED BY <1>1, <2>1
  <1>5. 1 \in DOMAIN preq
    BY <1>1
  <1>6. \A n : Open(n)' <=> Open(n)
    BY DEF Open
  <1>7. LogInv'
    BY DEF TableInv, LogInv
  <1>8. \A n : Waits(n)' => Waits(n)
    BY <1>2, <1>3 DEF Waits
  <1>9. \A n : Waits(n) => Waits(n)' \/ (h.qos = 1 /\ n = h.msg)
    BY <1>1, <1>2, <1>4 DEF Waits
  <1>10. ASSUME \A n : n # NoMsg => (Flies(n)' => Flies(n) \/ (h.qos = 1 /\ n = h.msg))
         PROVE  QueueInv'
    <2>1. \A k \in DOMAIN r : r[k].msg \in 1..published
      BY <1>3 DEF TableInv, QueueInv
    <2>2. \A k \in DOMAIN r : r[k].qos = 1 => Open(r[k].msg)' /\ ~Flies(r[k].msg)'
      <3> SUFFICES ASSUME NEW k \in DOMAIN r, r[k].qos = 1
                   PROVE  Open(r[k].msg)' /\ ~Flies(r[k].msg)'
        OBVIOUS
      <3>1. k + 1 \in DOMAIN preq /\ k + 1 # 1 /\ r[k] = preq[k + 1]
        BY <1>3
      <3>2. Open(r[k].msg) /\ ~Flies(r[k].msg) /\ (h.qos = 1 => r[k].msg # h.msg)
        BY <1>1, <1>5, <3>1 DEF TableInv, QueueInv
      <3>3. r[k].msg # NoMsg
        BY <3>2, LogFacts DEF TableInv
      <3> QED BY <1>6, <1>10, <3>2, <3>3
    <2>3. \A j, k \in DOMAIN r : r[j].qos = 1 /\ r[k].qos = 1 /\ r[j].msg = r[k].msg => j = k
      <3> SUFFICES ASSUME NEW j \in DOMAIN r, NEW k \in DOMAIN r,
                          r[j].qos = 1, r[k].qos = 1, r[j].msg = r[k].msg
                   PROVE  j = k
        OBVIOUS
      <3>1. j + 1 = k + 1
        BY <1>3 DEF TableInv, QueueInv
      <3> QED BY <1>3, <3>1
    <2> QED BY <1>1, <1>2, <2>1, <2>2, <2>3 DEF QueueInv
  <1>11. CASE h.qos = 0 /\ inflight' = inflight
    <2>1. \A n : Flies(n)' <=> Flies(n)
      BY <1>11 DEF Flies
    <2>2. FlightInv'
      BY <1>6, <1>11 DEF TableInv, FlightInv, Live
    <2>3. KeptInv'
      BY <1>6, <1>9, <1>11, <2>1 DEF TableInv, KeptInv
    <2> QED BY <1>7, <1>10, <2>1, <2>2, <2>3 DEF TableInv
  <1>12. ASSUME NEW i \in Ids, ~Live(i), NEW m, m = h.msg, Enters(i, m), h.qos = 1 PROVE TableInv'
    <2>1. Open(m) /\ ~Flies(m)
      BY <1>1, <1>5, <1>12 DEF TableInv, QueueInv
    <2>2. m \in Nat /\ m # NoMsg
      BY <2>1, LogFacts DEF TableInv
    <2>3. /\ inflight' \in [Ids -> Entries] /\ inflight'[i].msg = m /\ Live(i)'
          /\ \A j \in Ids : j # i => inflight'[j].msg = inflight[j].msg /\ (Live(j)' <=> Live(j))
          /\ \A n : n # NoMsg => (Flies(n)' <=> n = m \/ Flies(n))
      BY <1>12, <2>2, EntersFacts DEF TableInv, FlightInv
    <2>4. \A j \in Ids : inflight[j].msg # m
      BY <2>1 DEF Flies
    <2>5. FlightInv'
      <3>1. \A j \in Ids : Live(j)' => Open(inflight[j].msg)'
        <4> SUFFICES ASSUME NEW j \in Ids, Live(j)' PROVE Open(inflight[j].msg)'
          OBVIOUS
        <4>1. CASE j = i
          BY <1>6, <2>1, <2>3, <4>1
        <4>2. CASE j # i
          <5>1. Live(j) /\ inflight'[j].msg = inflight[j].msg
            BY <2>3, <4>2
          <5>2. Open(inflight[j].msg)
            BY <5>1 DEF TableInv, FlightInv
          <5> QED BY <1>6, <5>1, <5>2
        <4> QED BY <4>1, <4>2
      <3>2. \A j, k \in Ids : Live(j)' /\ inflight'[j].msg = inflight'[k].msg => j = k
        <4> SUFFICES ASSUME NEW j \in Ids, NEW k \in Ids, Live(j)', inflight'[j].msg = inflight'[k].msg
                     PROVE  j = k
          OBVIOUS
        <4>1. \A l \in Ids : l # i => inflight'[l].msg # m
          BY <2>3, <2>4
        <4> QED BY <2>3, <4>1 DEF TableInv, FlightInv
      <3> QED BY <2>3, <3>1, <3>2 DEF FlightInv, Live
    <2>6. QueueInv'
      BY <1>10, <1>12, <2>3
    <2>7. KeptInv'
      <3> SUFFICES ASSUME NEW n \in Msgs, Open(n)' PROVE Flies(n)' \/ Waits(n)'
        BY DEF KeptInv
      <3>1. n # NoMsg
        BY DEF Msgs, NoMsg
      <3>2. Open(n)
        BY <1>6
      <3> QED BY <1>9, <1>12, <2>3, <3>1, <3>2 DEF TableInv, KeptInv
    <2> QED BY <1>7, <2>5, <2>6, <2>7 DEF TableInv
  <1> QED BY <1>2, <1>11, <1>12

\* The entry of one id goes.
LEMMA ClearsOne ==
  ASSUME inflight \in [Ids -> Entries], NEW i \in Ids, inflight' = [inflight EXCEPT ![i] = NoEntry]
  PROVE  Clears({i})
  <1> DEFINE e == NoEntry
  <1>1. inflight' = [inflight EXCEPT ![i] = e] /\ DOMAIN inflight = Ids
    OBVIOUS
  <1> HIDE DEF e
  <1>2. inflight' = [j \in Ids |-> IF j \in {i} THEN e ELSE inflight[j]]
    BY <1>1
  <1> QED BY <1>2 DEF Clears, e

\* An open message is confirmed.
LEMMA TableConfirms ==
  ASSUME TableInv, NEW i \in Ids, Live(i), inflight' = [inflight EXCEPT ![i] = NoEntry],
         NEW m, m = inflight[i].msg, fired' = [fired EXCEPT ![m] = 1],
         UNCHANGED <<preq, published, accepted, excused, got>>
  PROVE  TableInv' /\ Open(m)
  <1>1. Open(m) /\ m \in Msgs /\ m # NoMsg /\ m \in accepted
    <2>1. Open(m)
      BY DEF TableInv, FlightInv
    <2> QED BY <2>1, LogFacts DEF TableInv, Open
  <1>2. fired' \in [Msgs -> {0, 1}] /\ fired'[m] = 1 /\ \A n \in Msgs : n # m => fired'[n] = fired[n]
    BY <1>1 DEF TableInv, LogInv
  <1>3. LogInv'
    BY <1>1, <1>2 DEF TableInv, LogInv
  <1>4. ~Open(m)' /\ \A n \in Msgs : n # m => (Open(n)' <=> Open(n))
    BY <1>1, <1>2 DEF Open
  <1>5. /\ inflight' \in [Ids -> Entries]
        /\ ~Live(i)' /\ inflight'[i].msg = NoMsg
        /\ \A j \in Ids : j # i => inflight'[j].msg = inflight[j].msg /\ (Live(j)' <=> Live(j))
        /\ \A n : n # NoMsg => (Flies(n)' <=> \E j \in Ids : j # i /\ inflight[j].msg = n)
    <2>1. Clears({i}) /\ inflight \in [Ids -> Entries]
      BY ClearsOne DEF TableInv, FlightInv
    <2>2. i \in {i} /\ \A j : j \notin {i} <=> j # i
      OBVIOUS
    <2> QED BY <2>1, <2>2, ClearsFacts
  <1>6. \A j \in Ids : Live(j) /\ j # i => inflight[j].msg # m /\ inflight[j].msg \in Msgs
    <2> SUFFICES ASSUME NEW j \in Ids, Live(j), j # i PROVE inflight[j].msg # m /\ inflight[j].msg \in Msgs
      OBVIOUS
    <2>1. Open(inflight[j].msg) /\ inflight[j].msg # m
      BY DEF TableInv, FlightInv
    <2> QED BY <2>1, LogFacts DEF TableInv
  <1>7. FlightInv'
    <2>1. \A j \in Ids : Live(j)' => Open(inflight[j].msg)'
      <3> SUFFICES ASSUME NEW j \in Ids, Live(j)' PROVE Open(inflight[j].msg)'
        OBVIOUS
      <3>1. j # i /\ Live(j) /\ inflight'[j].msg = inflight[j].msg
        BY <1>5
      <3>2. Open(inflight[j].msg)
        BY <3>1 DEF TableInv, FlightInv
      <3> QED BY <1>4, <1>6, <3>1, <3>2
    <2>2. \A j, k \in Ids : Live(j)' /\ inflight'[j].msg = inflight'[k].msg => j = k
      BY <1>5 DEF TableInv, FlightInv, Live
    <2> QED BY <1>5, <2>1, <2>2 DEF FlightInv, Live
  <1>8. QueueInv'
    <2>1. \A k \in DOMAIN preq : preq[k].qos = 1 => Open(preq[k].msg)' /\ ~Flies(preq[k].msg)'
      <3> SUFFICES ASSUME NEW k \in DOMAIN preq, preq[k].qos = 1
                   PROVE  Open(preq[k].msg)' /\ ~Flies(preq[k].msg)'
        OBVIOUS
      <3>1. PICK n : n = preq[k].msg
        OBVIOUS
      <3>2. Open(n) /\ ~Flies(n)
        BY <3>1 DEF TableInv, QueueInv
      <3>3. n \in Msgs /\ n # NoMsg /\ n # m
        BY <3>2, LogFacts DEF TableInv, Flies
      <3>4. Open(n)' /\ ~Flies(n)'
        BY <1>4, <1>5, <3>2, <3>3 DEF Flies
      <3> QED BY <3>1, <3>4
    <2> QED BY <2>1 DEF TableInv, QueueInv
  <1>9. KeptInv'
    <2> SUFFICES ASSUME NEW n \in Msgs, Open(n)' PROVE Flies(n)' \/ Waits(n)'
      BY DEF KeptInv
    <2>1. n # m /\ Open(n) /\ n # NoMsg
      BY <1>4, LogFacts DEF TableInv
    <2>2. Flies(n) => Flies(n)'
      BY <1>5, <2>1 DEF Flies
    <2>3. Waits(n) => Waits(n)'
      BY DEF Waits
    <2> QED BY <2>1, <2>2, <2>3 DEF TableInv, KeptInv
  <1> QED BY <1>1, <1>3, <1>7, <1>8, <1>9 DEF TableInv

\* Messages in flight are given up.
LEMMA TableExcuses ==
  ASSUME TableInv, NEW I \in SUBSET Ids, Clears(I),
         NEW X, X = {inflight[j].msg : j \in {k \in I : Live(k)}}, excused' = excused \cup X,
         UNCHANGED <<preq, published, accepted, fired, got>>
  PROVE  TableInv' /\ \A m \in X : Open(m)
  <1>1. \A m \in X : Open(m)
    BY DEF TableInv, FlightInv
  <1>2. \A m \in X : m \in Msgs /\ m # NoMsg /\ m \in accepted
    BY <1>1, LogFacts DEF TableInv, Open
  <1>3. LogInv'
    BY <1>2 DEF TableInv, LogInv
  <1>4. \A n : Open(n)' <=> Open(n) /\ n \notin X
    BY DEF Open
  <1>5. /\ inflight' \in [Ids -> Entries]
        /\ \A j \in Ids : j \in I => ~Live(j)' /\ inflight'[j].msg = NoMsg
        /\ \A j \in Ids : j \notin I => inflight'[j].msg = inflight[j].msg /\ (Live(j)' <=> Live(j))
        /\ \A n : n # NoMsg => (Flies(n)' <=> \E j \in Ids : j \notin I /\ inflight[j].msg = n)
    BY ClearsFacts DEF TableInv, FlightInv
  <1>6. FlightInv'
    <2>1. \A j \in Ids : Live(j)' => Open(inflight[j].msg)'
      <3> SUFFICES ASSUME NEW j \in Ids, Live(j)' PROVE Open(inflight[j].msg)'
        OBVIOUS
      <3>1. j \notin I /\ Live(j) /\ inflight'[j].msg = inflight[j].msg
        BY <1>5
      <3>2. Open(inflight[j].msg) /\ inflight[j].msg \notin X
        BY <3>1 DEF TableInv, FlightInv
      <3> QED BY <1>4, <3>1, <3>2
    <2>2. \A j, k \in Ids : Live(j)' /\ inflight'[j].msg = inflight'[k].msg => j = k
      BY <1>5 DEF TableInv, FlightInv, Live
    <2> QED BY <1>5, <2>1, <2>2 DEF FlightInv, Live
  <1>7. QueueInv'
    <2>1. \A k \in DOMAIN preq : preq[k].qos = 1 => Open(preq[k].msg)' /\ ~Flies(preq[k].msg)'
      <3> SUFFICES ASSUME NEW k \in DOMAIN preq, preq[k].qos = 1
                   PROVE  Open(preq[k].msg)' /\ ~Flies(preq[k].msg)'
        OBVIOUS
      <3>1. PICK n : n = preq[k].msg
        OBVIOUS
      <3>2. Open(n) /\ ~Flies(n)
        BY <3>1 DEF TableInv, QueueInv
      <3>3. n # NoMsg /\ n \notin X
        BY <3>2, LogFacts DEF TableInv, Flies
      <3>4. Open(n)' /\ ~Flies(n)'
        BY <1>4, <1>5, <3>2, <3>3 DEF Flies
      <3> QED BY <3>1, <3>4
    <2> QED BY <2>1 DEF TableInv, QueueInv
  <1>8. KeptInv'
    <2> SUFFICES ASSUME NEW n \in Msgs, Open(n)' PROVE Flies(n)' \/ Waits(n)'
      BY DEF KeptInv
    <2>1. Open(n) /\ n \notin X /\ n # NoMsg
      BY <1>4, LogFacts DEF TableInv
    <2>2. Flies(n) => Flies(n)'
      BY <1>5, <2>1 DEF Flies, Live
    <2>3. Waits(n) => Waits(n)'
      BY DEF Waits
    <2> QED BY <2>1, <2>2, <2>3 DEF TableInv, KeptInv
  <1> QED BY <1>1, <1>3, <1>6, <1>7, <1>8 DEF TableInv

\* disconnect() gives up what was kept for the connection.
LEMMA TableForgets ==
  ASSUME TableInv, preq' = <<>>, excused' = excused \cup QueuedMsgs,
         UNCHANGED <<inflight, published, accepted, fired, got>>
  PROVE  TableInv' /\ \A m \in QueuedMsgs : Open(m)
  <1>1. \A m : m \in QueuedMsgs <=> Waits(m)
    BY DEF QueuedMsgs, Waits
  <1>2. \A m \in QueuedMsgs : Open(m) /\ ~Flies(m)
    BY <1>1 DEF TableInv, QueueInv, Waits
  <1>3. \A m \in QueuedMsgs : m \in accepted
    BY <1>2 DEF Open
  <1>4. LogInv'
    BY <1>3 DEF TableInv, LogInv
  <1>5. \A n : Open(n)' <=> Open(n) /\ n \notin QueuedMsgs
    BY DEF Open
  <1>6. \A n : Flies(n)' <=> Flies(n)
    BY DEF Flies
  <1>7. FlightInv'
    <2>1. \A j \in Ids : Live(j) => Open(inflight[j].msg)'
      <3> SUFFICES ASSUME NEW j \in Ids, Live(j) PROVE Open(inflight[j].msg)'
        OBVIOUS
      <3>1. PICK n : n = inflight[j].msg
        OBVIOUS
      <3>2. Open(n) /\ n \notin QueuedMsgs
        BY <1>2, <3>1 DEF TableInv, FlightInv, Flies
      <3>3. Open(n)'
        BY <1>5, <3>2
      <3> QED BY <3>1, <3>3
    <2> QED BY <2>1 DEF TableInv, FlightInv, Live
  <1>8. QueueInv'
    <2>1. <<>> \in Seq(Queued1) /\ DOMAIN <<>> = {}
      OBVIOUS
    <2> QED BY <2>1 DEF QueueInv
  <1>9. KeptInv'
    <2> SUFFICES ASSUME NEW n \in Msgs, Open(n)' PROVE Flies(n)'
      BY DEF KeptInv
    <2> QED BY <1>1, <1>5, <1>6 DEF TableInv, KeptInv
  <1> QED BY <1>2, <1>4, <1>7, <1>8, <1>9 DEF TableInv

-----------------------------------------------------------------------------
(* The abstract machine                                                  *)

\* What one step may do to the history.
Accepts   == /\ accepted' = accepted \cup {published + 1} /\ published + 1 \in Msgs
             /\ UNCHANGED <<fired, excused, got>>
Confirms  == /\ \E m \in Msgs : Open(m) /\ m \in got /\ fired' = [fired EXCEPT ![m] = 1]
             /\ UNCHANGED <<accepted, excused, got>>
GivesUp   == /\ \E X : (\A m \in X : Open(m)) /\ excused' = excused \cup X
             /\ UNCHANGED <<accepted, fired, got>>
Arrives   == /\ \E m : got' = got \cup {m}
             /\ UNCHANGED <<accepted, fired, excused>>
Progress == Accepts \/ Confirms \/ GivesUp \/ Arrives

\* The fate of a message, when no message is forgotten.
FateOf(m) == IF m \notin accepted THEN "none"
             ELSE IF fired[m] = 1 THEN "confirmed"
             ELSE IF m \in excused THEN "excused"
             ELSE IF m \in got THEN "delivered" ELSE "accepted"

LEMMA FateIs == TableInv => Fate = [m \in Msgs |-> FateOf(m)]
  <1> SUFFICES ASSUME TableInv PROVE Fate = [m \in Msgs |-> FateOf(m)]
    OBVIOUS
  <1>1. \A m \in Msgs : fired[m] \in {0, 1}
    BY LogFacts DEF TableInv
  <1>2. \A m \in Msgs : Open(m) => m \in InFlightMsgs \cup QueuedMsgs
    <2> SUFFICES ASSUME NEW m \in Msgs, Open(m) PROVE m \in InFlightMsgs \cup QueuedMsgs
      OBVIOUS
    <2>1. m # NoMsg
      BY LogFacts DEF TableInv
    <2>2. Flies(m) => m \in InFlightMsgs
      BY <2>1 DEF Flies, InFlightMsgs, LiveIds, Live
    <2>3. Waits(m) => m \in QueuedMsgs
      BY DEF Waits, QueuedMsgs
    <2> QED BY <2>2, <2>3 DEF TableInv, KeptInv
  <1>3. \A m \in Msgs : ~(fired[m] > 1) /\ (fired[m] # 1 => fired[m] = 0)
    BY <1>1
  <1>4. \A m \in Msgs : m \in accepted /\ fired[m] # 1 /\ m \notin excused
                          => m \in InFlightMsgs \cup QueuedMsgs
    BY <1>2, <1>3 DEF Open
  <1>5. \A m \in Msgs : FateOf(m) = IF m \notin accepted THEN "none"
            ELSE IF fired[m] > 1 THEN "confirmed twice"
            ELSE IF fired[m] = 1 THEN "confirmed"
            ELSE IF m \in excused THEN "excused"
            ELSE IF m \notin InFlightMsgs \cup QueuedMsgs THEN "lost"
            ELSE IF m \in got THEN "delivered" ELSE "accepted"
    BY <1>3, <1>4, Zenon DEF FateOf
  <1> QED BY <1>5, Zenon DEF Fate

LEMMA FateMoves ==
  ASSUME TableInv, TableInv', Progress \/ UNCHANGED History
  PROVE  [Delivery1!Next]_Fate
  <1>1. Fate = [m \in Msgs |-> FateOf(m)]
    BY FateIs
  <1>2. Fate' = [m \in Msgs |-> FateOf(m)']
    <2>1. (TableInv => Fate = [m \in Msgs |-> FateOf(m)])'
      BY FateIs, PTL
    <2> QED BY <2>1
  <1>3. \A m \in Msgs : FateOf(m)' \in Delivery1!Fates
    BY DEF FateOf, Delivery1!Fates
  <1>4. ASSUME NEW m \in Msgs
        PROVE  \/ FateOf(m)' = FateOf(m)
               \/ FateOf(m) = "none" /\ FateOf(m)' = "accepted"
               \/ FateOf(m) = "accepted" /\ FateOf(m)' = "delivered"
               \/ FateOf(m) = "delivered" /\ FateOf(m)' = "confirmed"
               \/ FateOf(m) \in {"accepted", "delivered"} /\ FateOf(m)' = "excused"
    <2>1. CASE UNCHANGED History
      BY <2>1 DEF History, FateOf
    <2>2. CASE Accepts
      <3>1. \A n \in got \cup excused \cup accepted : n \in 1..published
        BY DEF TableInv, LogInv
      <3>2. published + 1 \notin 1..published
        BY LogFacts DEF TableInv
      <3>3. m = published + 1 => m \notin got /\ m \notin excused /\ m \notin accepted /\ fired[m] # 1
        BY <3>1, <3>2 DEF TableInv, LogInv
      <3> QED BY <2>2, <3>3 DEF Accepts, FateOf
    <2>3. CASE Confirms
      <3>1. PICK n \in Msgs : Open(n) /\ n \in got /\ fired' = [fired EXCEPT ![n] = 1]
        BY <2>3 DEF Confirms
      <3>2. fired'[n] = 1 /\ (m # n => fired'[m] = fired[m])
        BY <3>1 DEF TableInv, LogInv
      <3> QED BY <2>3, <3>1, <3>2 DEF Confirms, FateOf, Open
    <2>4. CASE GivesUp
      <3>1. PICK X : (\A n \in X : Open(n)) /\ excused' = excused \cup X
        BY <2>4 DEF GivesUp
      <3> QED BY <2>4, <3>1 DEF GivesUp, FateOf, Open
    <2>5. CASE Arrives
      BY <2>5 DEF Arrives, FateOf
    <2> QED BY <2>1, <2>2, <2>3, <2>4, <2>5 DEF Progress
  <1>5. Fate' \in [Msgs -> Delivery1!Fates]
    BY <1>2, <1>3
  <1>6. ASSUME NEW m \in Msgs PROVE Delivery1!Moves(m)
    <2>1. Fate[m] = FateOf(m) /\ Fate'[m] = FateOf(m)'
      BY <1>1, <1>2
    <2> QED BY <1>4, <2>1 DEF Delivery1!Moves, Delivery1!Becomes
  <1> QED BY <1>5, <1>6 DEF Delivery1!Next

-----------------------------------------------------------------------------
(* The steps                                                             *)

Promised == PromiseInv' /\ (Progress \/ UNCHANGED History)

\* Most steps move packets, drop them, or add some of another kind.
LEMMA Neutral ==
  ASSUME PromiseInv, FreshIds, SameMsgs, UNCHANGED <<preq, published, History>>,
         \A p \in Sent' : p \in Sent \/ Carries(p)', Back' \subseteq Back
  PROVE  Promised
  <1>1. TableInv' /\ UNCHANGED History
    BY TableIdle DEF PromiseInv, History
  <1>2. PacketsInv'
    <2>1. /\ PacketsInv /\ published \in Nat /\ published' \in Nat /\ published <= published'
          /\ got \subseteq got' /\ inflight \in [Ids -> Entries]
      BY LogFacts DEF PromiseInv, TableInv, FlightInv, History
    <2>2. \A i \in Ids : Live(i) /\ Live(i)' => inflight'[i].msg = inflight[i].msg
      BY DEF SameMsgs
    <2>3. \A p \in Back' : p \in Back \/ Vouches(p)'
      OBVIOUS
    <2> QED BY <2>1, <2>2, <2>3, PacketsKeep
  <1> QED BY <1>1, <1>2 DEF PromiseInv, Promised

LEMMA SameTable == PromiseInv /\ inflight' = inflight => SameMsgs
  BY DEF PromiseInv, TableInv, FlightInv, SameMsgs

LEMMA QueueTypes ==
  ASSUME TypesInv
  PROVE  /\ Tracked(toBroker) /\ Tracked(partial) /\ Tracked(txq) /\ Tracked(rx) /\ Tracked(toClient)
         /\ partial # <<>> => Elements(partial) = {partial[1]}
  <1>1. Tracked(toBroker) /\ Tracked(partial) /\ Tracked(txq) /\ Tracked(rx) /\ Tracked(toClient)
    BY DEF TypesInv, AckSeq, DeliverySeq, Tracked
  <1>2. partial # <<>> => partial = <<partial[1]>>
    BY DEF TypesInv
  <1> QED BY <1>1, <1>2, ElementsFacts

\* What a step of the client may do to the packets that are sent.
QueueMoves ==
    \/ txq' \in {txq, <<>>}
    \/ \E p : p.type # "publish" /\ txq' = Append(txq, p)
    \/ \E p : p.type # "publish" /\ txq' = <<p>> \o txq
    \/ txq # <<>> /\ txq' = Tail(txq)
PartMoves == partial' \in {partial, <<>>} \/ (txq # <<>> /\ partial' = <<Head(txq)>>)
WireMoves ==
    \/ toBroker' \in {toBroker, <<>>}
    \/ \E p : toBroker' = Append(toBroker, p) /\ p.type # "publish"
    \/ partial # <<>> /\ toBroker' = Append(toBroker, partial[1])
    \/ txq # <<>> /\ toBroker' = Append(toBroker, Head(txq))
    \/ toBroker # <<>> /\ toBroker' = Tail(toBroker)
LEMMA SentKeeps ==
  ASSUME TypesInv, QueueMoves, PartMoves, WireMoves
  PROVE  Sent' \subseteq Sent
  <1> DEFINE All == (Elements(toBroker) \cup Elements(partial)) \cup Elements(txq)
  <1>1. /\ Tracked(toBroker) /\ Tracked(partial) /\ Tracked(txq)
        /\ partial # <<>> => Elements(partial) = {partial[1]}
    BY QueueTypes
  <1>2. txq # <<>> => Head(txq) \in Elements(txq) /\ Elements(Tail(txq)) \subseteq Elements(txq)
    BY <1>1, ElementsFacts
  <1>3. toBroker # <<>> => Elements(Tail(toBroker)) \subseteq Elements(toBroker)
    BY <1>1, ElementsFacts
  <1>4. \A p \in Elements(txq') : p \in All \/ p.type # "publish"
    <2>1. CASE txq' \in {txq, <<>>} \/ (txq # <<>> /\ txq' = Tail(txq))
      BY <1>2, <2>1, ElementsFacts
    <2>2. ASSUME NEW p, p.type # "publish", txq' = Append(txq, p)
          PROVE  \A r \in Elements(txq') : r \in All \/ r.type # "publish"
      BY <1>1, <2>2, ElementsFacts
    <2>3. ASSUME NEW p, p.type # "publish", txq' = <<p>> \o txq
          PROVE  \A r \in Elements(txq') : r \in All \/ r.type # "publish"
      <3>1. Tracked(<<p>>)
        BY JoinAll
      <3>2. Elements(txq') = {p} \cup Elements(txq)
        BY <1>1, <2>3, <3>1, ElementsFacts
      <3> QED BY <2>3, <3>2
    <2> QED BY <2>1, <2>2, <2>3 DEF QueueMoves
  <1>5. \A p \in Elements(partial') : p \in All
    BY <1>1, <1>2, ElementsFacts DEF PartMoves
  <1>6. \A p \in Elements(toBroker') : p \in All \/ p.type # "publish"
    <2>1. CASE toBroker' \in {toBroker, <<>>} \/ (toBroker # <<>> /\ toBroker' = Tail(toBroker))
      BY <1>3, <2>1, ElementsFacts
    <2>2. ASSUME NEW p, toBroker' = Append(toBroker, p), p \in All \/ p.type # "publish"
          PROVE  \A r \in Elements(toBroker') : r \in All \/ r.type # "publish"
      BY <1>1, <2>2, ElementsFacts
    <2>3. (partial # <<>> => partial[1] \in All) /\ (txq # <<>> => Head(txq) \in All)
      BY <1>1, <1>2
    <2> QED BY <2>1, <2>2, <2>3 DEF WireMoves
  <1> HIDE DEF All
  <1>7. \A p \in Sent' : p \in All /\ p.type = "publish"
    BY <1>4, <1>5, <1>6 DEF Sent
  <1> QED BY <1>7 DEF Sent, All

\* ... and to those that are received.
InMoves ==
    \/ /\ rx' \in {rx, <<>>} \/ (rx # <<>> /\ rx' = Tail(rx))
       /\ toClient' \in {toClient, <<>>}
    \/ /\ rx' = rx
       /\ \E s : Tracked(s) /\ ~Has(s, "puback") /\ toClient' = toClient \o s
    \/ \E n \in 1..Len(toClient) : /\ rx' = rx \o SubSeq(toClient, 1, n)
                                   /\ toClient' = SubSeq(toClient, n + 1, Len(toClient))
LEMMA BackKeeps ==
  ASSUME TypesInv, InMoves
  PROVE  Back' \subseteq Back
  <1>1. Tracked(rx) /\ Tracked(toClient)
    BY QueueTypes
  <1>2. CASE /\ rx' \in {rx, <<>>} \/ (rx # <<>> /\ rx' = Tail(rx))
             /\ toClient' \in {toClient, <<>>}
    <2>1. rx # <<>> => Elements(Tail(rx)) \subseteq Elements(rx)
      BY <1>1, ElementsFacts
    <2>2. Elements(rx') \subseteq Elements(rx) /\ Elements(toClient') \subseteq Elements(toClient)
      BY <1>2, <2>1, ElementsFacts
    <2> QED BY <2>2 DEF Back
  <1>3. ASSUME NEW s, Tracked(s), ~Has(s, "puback"), rx' = rx, toClient' = toClient \o s
        PROVE  Back' \subseteq Back
    <2>1. Elements(toClient') = Elements(toClient) \cup Elements(s)
      BY <1>1, <1>3, ElementsFacts
    <2>2. \A p \in Elements(s) : p.type # "puback"
      BY <1>3 DEF Has, Elements
    <2> QED BY <1>3, <2>1, <2>2 DEF Back
  <1>4. ASSUME NEW n \in 1..Len(toClient), rx' = rx \o SubSeq(toClient, 1, n),
               toClient' = SubSeq(toClient, n + 1, Len(toClient))
        PROVE  Back' \subseteq Back
    <2> DEFINE a == SubSeq(toClient, 1, n)
               c == SubSeq(toClient, n + 1, Len(toClient))
    <2>1. rx' = rx \o a /\ toClient' = c
      BY <1>4
    <2>2. a \in Seq(Elements(toClient)) /\ c \in Seq(Elements(toClient)) /\ a \o c = toClient
      BY <1>1 DEF Tracked
    <2> HIDE DEF a, c
    <2>3. Tracked(a) /\ Tracked(c)
      BY <2>2, SeqOfElements DEF Tracked
    <2>4. Elements(toClient) = Elements(a) \cup Elements(c) /\ Elements(rx') = Elements(rx) \cup Elements(a)
      BY <1>1, <2>1, <2>2, <2>3, ElementsFacts
    <2>5. Elements(toClient') = Elements(c)
      BY <2>1
    <2> QED BY <2>4, <2>5 DEF Back
  <1> QED BY <1>2, <1>3, <1>4 DEF InMoves

\* A step that only moves packets promises what was promised.
LEMMA Moving ==
  ASSUME PromiseInv, TypesInv, FreshIds, SameMsgs, UNCHANGED <<preq, published, History>>,
         QueueMoves, PartMoves, WireMoves, InMoves
  PROVE  Promised
  BY SentKeeps, BackKeeps, Neutral

\* A PUBLISH joins the queue.
LEMMA PublishSent ==
  ASSUME TypesInv, PromiseInv, NEW m \in Nat, m # NoMsg, NEW q, DoPublish(m, q), m \in 1..published',
         UNCHANGED <<partial, toBroker>>
  PROVE  \/ /\ q = 0 /\ inflight' = inflight
            /\ \A p \in Sent' : p \in Sent \/ Carries(p)'
         \/ /\ q # 0
            /\ \E i \in Ids : ~Live(i) /\ Enters(i, m)
            /\ \A p \in Sent' : p \in Sent \/ Carries(p)'
  <1>1. Tracked(txq)
    BY QueueTypes
  <1>0. 0 \notin Ids
    BY MqttAssumption DEF MqttAssumption, Ids
  <1>2. CASE q = 0
    <2>1. PICK a, b : a = PublishPkt(0, m, FALSE) /\ b = MarkerPkt(m)
      OBVIOUS
    <2>2. txq' = txq \o <<a, b>> /\ inflight' = inflight
      BY <1>2, <2>1, Zenon DEF DoPublish
    <2>3. a.id = 0 /\ a.msg = m /\ b.type # "publish"
      BY <2>1 DEF PublishPkt, MarkerPkt
    <2>4. Tracked(<<a, b>>) /\ Elements(<<a, b>>) = {a, b}
      <3>1. DOMAIN <<a, b>> = {1, 2} /\ <<a, b>>[1] = a /\ <<a, b>>[2] = b /\ <<a, b>> \in Seq({a, b})
        OBVIOUS
      <3>2. Elements(<<a, b>>) = {a, b}
        BY <3>1 DEF Elements
      <3> QED BY <3>1, <3>2 DEF Tracked
    <2>5. Elements(txq') = Elements(txq) \cup {a, b}
      <3>1. Elements(txq \o <<a, b>>) = Elements(txq) \cup Elements(<<a, b>>)
        BY <1>1, <2>4, ElementsFacts, Zenon
      <3> QED BY <2>2, <2>4, <3>1
    <2>6. Carries(a)'
      BY <1>0, <2>3 DEF Carries
    <2>7. \A p \in Sent' : p \in Sent \/ p = a
      BY <2>3, <2>5 DEF Sent
    <2> QED BY <1>2, <2>2, <2>6, <2>7
  <1>3. CASE q # 0
    <2>1. PICK i \in Ids : /\ Free(i)
                           /\ inflight' = [inflight EXCEPT ![i] = [msg |-> m, left |-> AckTimeout, tries |-> 0]]
                           /\ txq' = Append(txq, PublishPkt(i, m, FALSE))
      BY <1>3, Zenon DEF DoPublish
    <2>2. PICK a : a = PublishPkt(i, m, FALSE)
      OBVIOUS
    <2>3. a.id = i /\ a.msg = m
      BY <2>2 DEF PublishPkt
    <2>4. ~Live(i) /\ Enters(i, m)
      BY <2>1 DEF Free, LiveIds, Enters
    <2>5. inflight'[i].msg = m
      BY <2>4, EntersFacts DEF PromiseInv, TableInv, FlightInv
    <2>6. Elements(txq') = Elements(txq) \cup {a}
      BY <1>1, <2>1, <2>2, ElementsFacts
    <2>7. Carries(a)'
      BY <2>3, <2>5 DEF Carries
    <2>8. \A p \in Sent' : p \in Sent \/ p = a
      BY <2>6 DEF Sent
    <2> QED BY <1>3, <2>4, <2>7, <2>8
  <1> QED BY <1>2, <1>3

-----------------------------------------------------------------------------
\* A step that keeps the table and brings only packets that are right.
LEMMA Brings ==
  ASSUME PromiseInv, FreshIds, TableInv', Progress \/ UNCHANGED History,
         published' \in {published, published + 1},
         \A i \in Ids : Live(i) /\ Live(i)' => inflight'[i].msg = inflight[i].msg,
         \A p \in Sent' : p \in Sent \/ Carries(p)',
         \A p \in Back' : p \in Back \/ Vouches(p)'
  PROVE  Promised
  <1>1. published \in Nat /\ published' \in Nat /\ published <= published'
    BY LogFacts DEF PromiseInv, TableInv
  <1>2. got \subseteq got'
    BY DEF Progress, Accepts, Confirms, GivesUp, Arrives, History
  <1>3. PacketsInv /\ inflight \in [Ids -> Entries]
    BY DEF PromiseInv, TableInv, FlightInv
  <1>4. PacketsInv'
    BY <1>1, <1>2, <1>3, PacketsKeep
  <1> QED BY <1>4 DEF PromiseInv, Promised

\* The packets that are not publishes.
LEMMA OtherTypes ==
  /\ ConnectPkt.type # "publish" /\ DisconnectPkt.type # "publish"
  /\ GarbagePkt.type # "publish" /\ PingReq.type # "publish"
  /\ \A i, t : SubscribePkt(i, t).type # "publish" /\ UnsubscribePkt(i, t).type # "publish"
  /\ \A s : PubacksPkt(s).type # "publish"
  BY DEF ConnectPkt, DisconnectPkt, GarbagePkt, PingReq, SubscribePkt, UnsubscribePkt, PubacksPkt

\* What is known before a step.
Given == PromiseInv /\ TypesInv /\ FreshIds

\* A step of the client that moves packets and leaves the table alone.
LEMMA Idles ==
  ASSUME Given, UNCHANGED <<inflight, preq>>, UNCHANGED hist, Peers,
         QueueMoves, PartMoves, WireMoves, InMoves
  PROVE  Promised
  <1>1. SameMsgs
    BY SameTable DEF Given
  <1>2. UNCHANGED <<preq, published, History>>
    BY DEF hist, Peers, History
  <1> QED BY <1>1, <1>2, Moving DEF Given

\* Nothing moves.
LEMMA NoMoves ==
  /\ txq' = txq => QueueMoves
  /\ partial' = partial => PartMoves
  /\ toBroker' = toBroker => WireMoves
  /\ UNCHANGED <<rx, toClient>> => InMoves
  BY DEF QueueMoves, PartMoves, WireMoves, InMoves

\* connect(), hold() and the subscriptions.
LEMMA CallsPromise ==
  ASSUME Given, Peers, Connect \/ Hold \/ \E t \in Topics : Subscribe(t) \/ Unsubscribe(t)
  PROVE  Promised
  <1> USE DEF trans, txvars, rxvars, wire, ackv, app
  <1>1. CASE Connect
    <2>1. /\ UNCHANGED <<inflight, preq, partial, toBroker, rx, toClient>> /\ UNCHANGED hist
          /\ txq' = txq \/ txq' = Append(txq, ConnectPkt)
      BY <1>1 DEF Connect
    <2>2. QueueMoves
      BY <2>1, OtherTypes, Zenon DEF QueueMoves
    <2> QED BY <2>1, <2>2, NoMoves, Idles
  <1>2. CASE Hold
    <2>1. /\ UNCHANGED <<inflight, preq, partial, toBroker, rx, toClient, txq>> /\ UNCHANGED hist
      BY <1>2 DEF Hold
    <2> QED BY <2>1, NoMoves, Idles
  <1>3. ASSUME NEW t \in Topics, Subscribe(t) \/ Unsubscribe(t) PROVE Promised
    <2>1. /\ UNCHANGED <<inflight, preq, partial, toBroker, rx, toClient>> /\ UNCHANGED hist
      BY <1>3 DEF Subscribe, Unsubscribe
    <2>2. \/ txq' = txq
          \/ \E i : txq' = Append(txq, SubscribePkt(i, t))
          \/ \E i : txq' = Append(txq, UnsubscribePkt(i, t))
      BY <1>3, Zenon DEF Subscribe, Unsubscribe
    <2>3. QueueMoves
      BY <2>2, OtherTypes, Zenon DEF QueueMoves
    <2> QED BY <2>1, <2>3, NoMoves, Idles
  <1> QED BY <1>1, <1>2, <1>3

\* disconnect() gives up what was published offline.
LEMMA DisconnectPromise ==
  ASSUME Given, Peers, Disconnect
  PROVE  Promised
  <1> USE DEF trans, txvars, rxvars, wire, ackv, app
  <1>1. /\ toClient' = <<>> /\ txq' = <<>> /\ partial' = <<>> /\ rx' = <<>> /\ preq' = <<>>
        /\ excused' = excused \cup QueuedMsgs
        /\ UNCHANGED <<inflight, published, accepted, fired>>
        /\ \/ toBroker' = toBroker
           \/ toBroker' = Append(toBroker, DisconnectPkt)
           \/ toBroker' = Append(toBroker, GarbagePkt)
    BY DEF Disconnect, CloseSocket, ResetTransient, Deliver
  <1>2. got' = got
    BY DEF Peers
  <1>3. TableInv' /\ \A m \in QueuedMsgs : Open(m)
    BY <1>1, <1>2, TableForgets DEF Given, PromiseInv
  <1>4. GivesUp
    BY <1>1, <1>2, <1>3 DEF GivesUp
  <1>5. QueueMoves /\ PartMoves /\ InMoves
    BY <1>1 DEF QueueMoves, PartMoves, InMoves
  <1>6. WireMoves
    BY <1>1, OtherTypes, Zenon DEF WireMoves
  <1>7. Sent' \subseteq Sent /\ Back' \subseteq Back
    BY <1>5, <1>6, SentKeeps, BackKeeps DEF Given
  <1>8. \A i \in Ids : inflight'[i].msg = inflight[i].msg
    BY <1>1
  <1> QED BY <1>1, <1>3, <1>4, <1>7, <1>8, Brings DEF Given, Progress

\* publish() takes a message or refuses it.
LEMMA PublishPromise ==
  ASSUME Given, Peers, NEW q \in {0, 1}, Publish(q)
  PROVE  Promised
  <1>1. PICK m : m = published + 1
    OBVIOUS
  <1>2. published < MaxPublish /\ published' = m
    BY <1>1 DEF Publish
  <1>3. /\ UNCHANGED <<partial, toBroker, rx, toClient, fired, excused>> /\ got' = got
    BY DEF Publish, Peers, txvars, rxvars, wire
  <1>4. published \in Nat /\ MaxPublish \in Nat /\ TableInv
    BY LogFacts DEF Given, PromiseInv, TableInv
  <1>5. m \in Nat /\ m # NoMsg /\ m \in 1..published' /\ m \in Msgs /\ published' \in {published, published + 1}
    BY <1>1, <1>2, <1>4 DEF NoMsg, Msgs
  <1>6. Back' \subseteq Back
    BY <1>3 DEF Back
  <1>7. accepted' = accepted \cup {m} => Accepts
    BY <1>1, <1>3, <1>5 DEF Accepts
  <1>8. accepted' = accepted => UNCHANGED History
    BY <1>3 DEF History
  <1>9. ASSUME txq' = txq, inflight' = inflight, TableInv', accepted' \in {accepted, accepted \cup {m}}
        PROVE  Promised
    <2>1. Sent' \subseteq Sent
      BY <1>3, <1>9 DEF Sent
    <2>2. \A i \in Ids : inflight'[i].msg = inflight[i].msg
      BY <1>9
    <2> QED BY <1>5, <1>6, <1>7, <1>8, <1>9, <2>1, <2>2, Brings DEF Given, Progress
  <1>10. CASE DoPublish(m, q) /\ UNCHANGED preq
              /\ accepted' = (IF q = 1 THEN accepted \cup {m} ELSE accepted)
    <2>1. \/ /\ q = 0 /\ inflight' = inflight
             /\ \A p \in Sent' : p \in Sent \/ Carries(p)'
          \/ /\ q = 1
             /\ \E i \in Ids : ~Live(i) /\ Enters(i, m)
             /\ \A p \in Sent' : p \in Sent \/ Carries(p)'
      BY <1>3, <1>5, <1>10, PublishSent DEF Given
    <2>2. CASE q = 0 /\ inflight' = inflight
      <3>1. TableInv'
        BY <1>1, <1>2, <1>3, <1>4, <1>10, <2>2, TableRefuses
      <3>2. \A i \in Ids : inflight'[i].msg = inflight[i].msg
        BY <2>2
      <3> QED BY <1>5, <1>6, <1>8, <1>10, <2>1, <2>2, <3>1, <3>2, Brings DEF Given
    <2>3. ASSUME q = 1, NEW i \in Ids, ~Live(i), Enters(i, m) PROVE Promised
      <3>1. TableInv'
        BY <1>1, <1>2, <1>3, <1>4, <1>10, <2>3, TableSends
      <3>2. \A j \in Ids : Live(j) /\ Live(j)' => inflight'[j].msg = inflight[j].msg
        BY <1>4, <1>5, <2>3, EntersFacts DEF TableInv, FlightInv
      <3>3. Accepts
        BY <1>7, <1>10, <2>3
      <3> QED BY <1>5, <1>6, <2>1, <3>1, <3>2, <3>3, Brings DEF Given, Progress
    <2> QED BY <2>1, <2>2, <2>3
  <1>11. CASE PublishOverflows(q) /\ UNCHANGED <<preq, accepted>>
    <2>1. txq' = txq /\ inflight' = inflight
      BY <1>11 DEF PublishOverflows
    <2>2. TableInv'
      BY <1>1, <1>2, <1>3, <1>4, <1>11, <2>1, TableRefuses
    <2> QED BY <1>9, <1>11, <2>1, <2>2
  <1>12. CASE /\ preq' = Append(preq, [msg |-> m, qos |-> q])
              /\ accepted' = (IF q = 1 THEN accepted \cup {m} ELSE accepted)
              /\ UNCHANGED <<txq, inflight>>
    <2>1. TableInv'
      BY <1>1, <1>2, <1>3, <1>4, <1>12, TableQueues
    <2> QED BY <1>9, <1>12, <2>1
  <1>13. CASE UNCHANGED <<preq, accepted>> /\ UNCHANGED <<txq, inflight>>
    <2>1. TableInv'
      BY <1>1, <1>2, <1>3, <1>4, <1>13, TableRefuses
    <2> QED BY <1>9, <1>13, <2>1
  <1> QED BY <1>1, <1>10, <1>11, <1>12, <1>13, Zenon DEF Publish

\* The clock, the runner and the transport.
LEMMA BeginPromise ==
  ASSUME Given, Peers, Tick \/ IoError \/ BeginHandle \/ Transport
  PROVE  Promised
  <1> USE DEF trans, txvars, rxvars, wire, ackv, app
  <1>1. CASE Tick
    <2>1. UNCHANGED <<preq, txq, partial, toBroker, rx, toClient>> /\ UNCHANGED hist
      BY <1>1 DEF Tick
    <2>2. SameMsgs
      <3>1. inflight' = [i \in Ids |-> [inflight[i] EXCEPT !.left = Left(@)]]
        BY <1>1 DEF Tick
      <3>2. ASSUME NEW e \in Entries
            PROVE  [e EXCEPT !.left = Left(@)] \in Entries /\ [e EXCEPT !.left = Left(@)].msg = e.msg
        <4>1. Left(e.left) \in Int
          BY DEF Left, Entries
        <4>2. [e EXCEPT !.left = Left(@)] \in Entries
          BY <4>1 DEF Entries
        <4>3. [e EXCEPT !.left = Left(@)].msg = e.msg
          BY DEF Entries
        <4> QED BY <4>2, <4>3
      <3>3. inflight \in [Ids -> Entries]
        BY DEF Given, PromiseInv, TableInv, FlightInv
      <3> QED BY <3>1, <3>2, <3>3 DEF SameMsgs
    <2>3. UNCHANGED <<preq, published, History>>
      BY <2>1 DEF hist, Peers, History
    <2> QED BY <2>1, <2>2, <2>3, NoMoves, Moving DEF Given
  <1>2. CASE IoError \/ BeginHandle \/ BeginTransport \/ TransportTimeout \/ ConnectorPending
             \/ ConnectorFailed
    <2>1. UNCHANGED <<inflight, preq, txq, partial, toBroker, rx, toClient>> /\ UNCHANGED hist
      BY <1>2 DEF IoError, BeginHandle, BeginTransport, TransportTimeout, ConnectorPending,
         ConnectorFailed
    <2> QED BY <2>1, NoMoves, Idles
  <1>3. CASE ConnectorReady
    <2>1. /\ UNCHANGED <<inflight, preq, partial, rx>> /\ UNCHANGED hist
          /\ toBroker' = <<>> /\ toClient' = <<>> /\ txq' = Append(txq, ConnectPkt)
      BY <1>3 DEF ConnectorReady
    <2>2. QueueMoves
      BY <2>1, OtherTypes, Zenon DEF QueueMoves
    <2>3. WireMoves /\ InMoves
      BY <2>1 DEF WireMoves, InMoves
    <2> QED BY <2>1, <2>2, <2>3, NoMoves, Idles
  <1> QED BY <1>1, <1>2, <1>3 DEF Transport

\* Self-heal: a clean session gives up what was in flight.
LEMMA HealPromise ==
  ASSUME Given, Peers, SelfHeal
  PROVE  Promised
  <1> USE DEF trans, txvars, rxvars, wire, ackv, app
  <1>1. /\ UNCHANGED <<preq, toBroker, published, accepted, fired>>
        /\ toClient' = <<>> /\ txq' = <<>> /\ partial' = <<>> /\ rx' = <<>> /\ got' = got
    BY DEF SelfHeal, CloseSocket, ResetTransient, Peers
  <1>2. QueueMoves /\ PartMoves /\ WireMoves /\ InMoves
    BY <1>1 DEF QueueMoves, PartMoves, WireMoves, InMoves
  <1>3. CASE CleanSession
    <2>1. inflight' = [i \in Ids |-> NoEntry] /\ excused' = excused \cup InFlightMsgs
      BY <1>3 DEF SelfHeal
    <2>2. Clears(Ids)
      BY <2>1 DEF Clears
    <2>3. InFlightMsgs = {inflight[j].msg : j \in {k \in Ids : Live(k)}}
      BY DEF InFlightMsgs, LiveIds
    <2>4. TableInv' /\ \A m \in InFlightMsgs : Open(m)
      BY <1>1, <2>1, <2>2, <2>3, TableExcuses DEF Given, PromiseInv
    <2>5. GivesUp
      BY <1>1, <2>1, <2>4 DEF GivesUp
    <2>6. \A i \in Ids : ~Live(i)'
      <3>1. \A i \in Ids : i \in Ids => ~Live(i)'
        BY <2>2, ClearsFacts DEF Given, PromiseInv, TableInv, FlightInv
      <3> QED BY <3>1
    <2>7. Sent' \subseteq Sent /\ Back' \subseteq Back
      BY <1>2, SentKeeps, BackKeeps DEF Given
    <2> QED BY <1>1, <2>4, <2>5, <2>6, <2>7, Brings DEF Given, Progress
  <1>4. CASE ~CleanSession
    <2>1. UNCHANGED inflight /\ UNCHANGED hist
      BY <1>1, <1>4 DEF SelfHeal, hist
    <2> QED BY <1>1, <1>2, <2>1, Idles
  <1> QED BY <1>3, <1>4

\* The deadlines: a retry is a duplicate of the same message, the last one gives it up.
LEMMA DeadlinesPromise ==
  ASSUME Given, Peers, Deadlines
  PROVE  Promised
  <1> USE DEF trans, txvars, rxvars, wire, ackv, app
  <1>1. ASSUME NEW i \in Ids, RetryPublish(i) PROVE Promised
    <2>1. PICK p : p = PublishPkt(i, inflight[i].msg, TRUE)
      OBVIOUS
    <2>2. /\ Live(i) /\ txq' = Append(txq, p) /\ UNCHANGED <<preq, partial, toBroker, rx, toClient>>
          /\ UNCHANGED hist
          /\ inflight' = [inflight EXCEPT ![i].tries = @ + 1, ![i].left = AckTimeout]
      BY <1>1, <2>1 DEF RetryPublish, Expired
    <2>3. p.id = i /\ p.msg = inflight[i].msg
      BY <2>1 DEF PublishPkt
    <2>4. SameMsgs
      <3>1. inflight \in [Ids -> Entries]
        BY DEF Given, PromiseInv, TableInv, FlightInv
      <3>2. inflight[i] \in Entries
        BY <3>1
      <3>3. AckTimeout \in Int
        BY MqttAssumption DEF MqttAssumption
      <3> DEFINE e == [inflight[i] EXCEPT !.tries = @ + 1, !.left = AckTimeout]
      <3>4. inflight' = [inflight EXCEPT ![i] = e]
        BY <2>2, <3>1, <3>2
      <3>5. e \in Entries /\ e.msg = inflight[i].msg
        <4>1. ASSUME NEW d \in Entries
              PROVE  /\ [d EXCEPT !.tries = @ + 1, !.left = AckTimeout] \in Entries
                     /\ [d EXCEPT !.tries = @ + 1, !.left = AckTimeout].msg = d.msg
          <5>1. d.tries + 1 \in Nat /\ d.tries \in Nat
            BY DEF Entries
          <5>2. [d EXCEPT !.tries = @ + 1, !.left = AckTimeout] \in Entries
            BY <3>3, <5>1 DEF Entries
          <5>3. [d EXCEPT !.tries = @ + 1, !.left = AckTimeout].msg = d.msg
            BY DEF Entries
          <5> QED BY <5>2, <5>3
        <4> QED BY <3>2, <4>1
      <3> HIDE DEF e
      <3> QED BY <3>1, <3>4, <3>5 DEF SameMsgs
    <2>5. UNCHANGED <<preq, published, History>>
      BY <2>2 DEF hist, Peers, History
    <2>6. Carries(p)'
      <3>1. inflight'[i].msg = inflight[i].msg
        BY <2>4 DEF SameMsgs
      <3>2. inflight[i].msg \in 1..published
        BY <2>2 DEF Given, PromiseInv, TableInv, FlightInv, LogInv, Open
      <3> QED BY <2>3, <2>5, <3>1, <3>2 DEF Carries
    <2>7. Elements(txq') = Elements(txq) \cup {p}
      BY <2>2, QueueTypes, ElementsFacts DEF Given
    <2>8. \A r \in Sent' : r \in Sent \/ Carries(r)'
      BY <2>2, <2>6, <2>7 DEF Sent
    <2>9. Back' \subseteq Back
      BY <2>2 DEF Back
    <2> QED BY <2>4, <2>5, <2>8, <2>9, Neutral DEF Given
  <1>2. ASSUME NEW i \in Ids, GiveUpPublish(i) PROVE Promised
    <2>1. /\ Live(i) /\ UNCHANGED <<preq, txq, partial, toBroker, rx, toClient, published, accepted, fired>>
          /\ inflight' = [inflight EXCEPT ![i] = NoEntry]
          /\ excused' = excused \cup {inflight[i].msg} /\ got' = got
      BY <1>2 DEF GiveUpPublish, Expired, Peers
    <2>2. Clears({i}) /\ inflight \in [Ids -> Entries]
      BY <2>1, ClearsOne DEF Given, PromiseInv, TableInv, FlightInv
    <2>3. PICK X : X = {inflight[i].msg}
      OBVIOUS
    <2>4. X = {inflight[j].msg : j \in {k \in {i} : Live(k)}}
      BY <2>1, <2>3
    <2>5. TableInv' /\ \A m \in X : Open(m)
      BY <2>1, <2>2, <2>3, <2>4, TableExcuses DEF Given, PromiseInv
    <2>6. GivesUp
      BY <2>1, <2>3, <2>5 DEF GivesUp
    <2>7. \A j \in Ids : Live(j) /\ Live(j)' => inflight'[j].msg = inflight[j].msg
      BY <2>2, ClearsFacts
    <2>8. Sent' \subseteq Sent /\ Back' \subseteq Back
      BY <2>1 DEF Sent, Back
    <2> QED BY <2>1, <2>5, <2>6, <2>7, <2>8, Brings DEF Given, Progress
  <1>3. CASE ResponseTimeout \/ SendTimedOut
    <2>1. UNCHANGED <<inflight, preq, txq, partial, toBroker, rx, toClient>> /\ UNCHANGED hist
      BY <1>3 DEF ResponseTimeout, SendTimedOut
    <2> QED BY <2>1, NoMoves, Idles
  <1>4. CASE Keepalive
    <2>1. UNCHANGED <<inflight, preq, partial, toBroker, rx, toClient>> /\ UNCHANGED hist
      BY <1>4 DEF Keepalive
    <2>2. QueueMoves
      BY <1>4, OtherTypes, Zenon DEF Keepalive, QueueMoves
    <2> QED BY <2>1, <2>2, NoMoves, Idles
  <1> QED BY <1>1, <1>2, <1>3, <1>4 DEF Deadlines

\* The read.
LEMMA ReceivePromise ==
  ASSUME Given, Peers, Receive
  PROVE  Promised
  <1> USE DEF trans, txvars, rxvars, wire, ackv, app
  <1>1. CASE SkipRecv \/ RecvWithoutSocket \/ RecvAgain \/ RecvFails
    <2>1. UNCHANGED <<inflight, preq, txq, partial, toBroker, rx, toClient>> /\ UNCHANGED hist
      BY <1>1 DEF SkipRecv, RecvWithoutSocket, RecvAgain, RecvFails
    <2> QED BY <2>1, NoMoves, Idles
  <1>2. ASSUME NEW n \in 1..Len(toClient), RecvPackets(n) PROVE Promised
    <2>1. /\ UNCHANGED <<inflight, preq, txq, partial, toBroker>> /\ UNCHANGED hist
          /\ rx' = rx \o SubSeq(toClient, 1, n)
          /\ toClient' = SubSeq(toClient, n + 1, Len(toClient))
      BY <1>2 DEF RecvPackets
    <2>2. InMoves
      BY <2>1 DEF InMoves
    <2> QED BY <2>1, <2>2, NoMoves, Idles
  <1> QED BY <1>1, <1>2 DEF Receive

\* The writes.
LEMMA DrainPromise ==
  ASSUME Given, Peers, Drain
  PROVE  Promised
  <1> USE DEF trans, txvars, rxvars, wire, ackv, app
  <1>1. CASE FinishPartial
    <2>1. /\ UNCHANGED <<inflight, preq, txq, rx, toClient>> /\ UNCHANGED hist
          /\ partial # <<>> /\ partial' = <<>>
          /\ toBroker' = toBroker \/ toBroker' = Append(toBroker, partial[1])
      BY <1>1 DEF FinishPartial, Deliver
    <2>2. PartMoves /\ WireMoves
      BY <2>1 DEF PartMoves, WireMoves
    <2> QED BY <2>1, <2>2, NoMoves, Idles
  <1>2. CASE SendHead
    <2>1. /\ UNCHANGED <<inflight, preq, partial, rx, toClient>> /\ UNCHANGED hist
          /\ txq # <<>> /\ txq' = Tail(txq)
          /\ toBroker' = toBroker \/ toBroker' = Append(toBroker, Head(txq))
      BY <1>2 DEF SendHead, ReadyToSend, Deliver
    <2>2. QueueMoves /\ WireMoves
      BY <2>1 DEF QueueMoves, WireMoves
    <2> QED BY <2>1, <2>2, NoMoves, Idles
  <1>3. CASE SendPart \/ DrainMarker
    <2>1. /\ UNCHANGED <<inflight, preq, toBroker, rx, toClient>> /\ UNCHANGED hist
          /\ txq # <<>> /\ txq' = Tail(txq) /\ partial' \in {partial, <<Head(txq)>>}
      BY <1>3 DEF SendPart, DrainMarker, ReadyToSend, AtMarker
    <2>2. QueueMoves /\ PartMoves
      BY <2>1 DEF QueueMoves, PartMoves
    <2> QED BY <2>1, <2>2, NoMoves, Idles
  <1>4. ASSUME NEW p \in BOOLEAN, StallPartial(p) PROVE Promised
    <2>1. UNCHANGED <<inflight, preq, txq, partial, toBroker, rx, toClient>> /\ UNCHANGED hist
      BY <1>4 DEF StallPartial
    <2> QED BY <2>1, NoMoves, Idles
  <1>5. CASE DrainEmpty \/ SendAgain \/ SendFails \/ DrainDone
    <2>1. UNCHANGED <<inflight, preq, txq, partial, toBroker, rx, toClient>> /\ UNCHANGED hist
      BY <1>5 DEF DrainEmpty, SendAgain, SendFails, DrainDone
    <2> QED BY <2>1, NoMoves, Idles
  <1> QED BY <1>1, <1>2, <1>3, <1>4, <1>5 DEF Drain

\* A PUBACK of an id in flight confirms its message, which the broker has.
LEMMA PubackPromise ==
  ASSUME Given, Peers, DispatchPuback
  PROVE  Promised
  <1> USE DEF trans, txvars, rxvars, wire, ackv, app
  <1>1. PICK i : i = Head(rx).id
    OBVIOUS
  <1>2. /\ rx # <<>> /\ Head(rx).type = "puback" /\ rx' = Tail(rx)
        /\ UNCHANGED <<preq, txq, partial, toBroker, toClient, published, accepted, excused>>
        /\ got' = got
    BY DEF DispatchPuback, Next1, Took, Peers
  <1>3. InMoves
    BY <1>2 DEF InMoves
  <1>4. CASE ~Live(i)
    <2>1. UNCHANGED inflight /\ UNCHANGED hist
      BY <1>1, <1>2, <1>4 DEF DispatchPuback, hist
    <2> QED BY <1>2, <1>3, <2>1, NoMoves, Idles
  <1>5. CASE Live(i)
    <2>1. PICK m : m = inflight[i].msg
      OBVIOUS
    <2>2. i \in Ids /\ m \in got
      <3>1. Head(rx) \in Elements(rx)
        BY <1>2, QueueTypes, ElementsFacts DEF Given
      <3>2. Head(rx) \in Back
        BY <1>2, <3>1 DEF Back
      <3>3. Vouches(Head(rx))
        BY <3>2 DEF Given, PromiseInv, PacketsInv
      <3> QED BY <1>1, <1>5, <2>1, <3>3 DEF Vouches
    <2>3. /\ inflight' = [inflight EXCEPT ![i] = NoEntry]
          /\ fired' = [fired EXCEPT ![m] = IF @ < 2 THEN @ + 1 ELSE @]
      BY <1>1, <1>5, <2>1 DEF DispatchPuback
    <2>4. TableInv /\ Open(m) /\ m \in Msgs
      <3>1. TableInv /\ Open(m)
        BY <1>5, <2>1, <2>2 DEF Given, PromiseInv, TableInv, FlightInv
      <3> QED BY <3>1, LogFacts DEF TableInv
    <2>5. fired' = [fired EXCEPT ![m] = 1]
      <3>1. fired[m] = 0 /\ fired \in [Msgs -> {0, 1}]
        BY <2>4 DEF Open, TableInv, LogInv
      <3> QED BY <2>3, <3>1
    <2>6. TableInv'
      BY <1>2, <1>5, <2>1, <2>2, <2>3, <2>4, <2>5, TableConfirms
    <2>7. Confirms
      BY <1>2, <2>2, <2>4, <2>5 DEF Confirms
    <2>8. \A j \in Ids : Live(j) /\ Live(j)' => inflight'[j].msg = inflight[j].msg
      <3>1. Clears({i}) /\ inflight \in [Ids -> Entries]
        BY <2>2, <2>3, <2>4, ClearsOne DEF TableInv, FlightInv
      <3> QED BY <3>1, ClearsFacts
    <2>9. Sent' \subseteq Sent /\ Back' \subseteq Back
      BY <1>2, <1>3, BackKeeps DEF Given, Sent
    <2> QED BY <1>2, <2>6, <2>7, <2>8, <2>9, Brings DEF Given, Progress
  <1> QED BY <1>4, <1>5

\* What was published offline is sent.
LEMMA FlushPromise ==
  ASSUME Given, FlushFits, Peers, FlushPublish
  PROVE  Promised
  <1> USE DEF trans, txvars, rxvars, wire, ackv, app
  <1>1. PICK h : h = Head(preq)
    OBVIOUS
  <1>2. /\ pc = "replay" /\ todo = {} /\ preq # <<>> /\ preq' = Tail(preq)
        /\ UNCHANGED <<partial, toBroker, rx, toClient>> /\ UNCHANGED hist
        /\ DoPublish(h.msg, h.qos) \/ PublishOverflows(h.qos)
    BY <1>1 DEF FlushPublish
  <1>3. UNCHANGED <<published, History>> /\ got' = got
    BY <1>2 DEF hist, Peers, History
  <1>4. TableInv /\ h.msg \in 1..published /\ h.qos \in {0, 1}
    <2>1. preq \in Seq(Queued1) /\ h = preq[1] /\ 1 \in DOMAIN preq
      BY <1>1, <1>2 DEF Given, PromiseInv, TableInv, QueueInv
    <2>2. h \in Queued1
      BY <2>1
    <2> QED BY <2>1, <2>2 DEF Queued1, Given, PromiseInv, TableInv, QueueInv
  <1>5. PICK m : m = h.msg
    OBVIOUS
  <1>6. m \in Nat /\ m # NoMsg /\ m \in 1..published'
    BY <1>3, <1>4, <1>5 DEF NoMsg
  <1>7. Back' \subseteq Back
    BY <1>2 DEF Back
  <1>8. CASE DoPublish(m, h.qos)
    <2>1. \/ /\ h.qos = 0 /\ inflight' = inflight
             /\ \A p \in Sent' : p \in Sent \/ Carries(p)'
          \/ /\ h.qos # 0
             /\ \E i \in Ids : ~Live(i) /\ Enters(i, m)
             /\ \A p \in Sent' : p \in Sent \/ Carries(p)'
      BY <1>2, <1>6, <1>8, PublishSent DEF Given
    <2>2. TableInv'
      BY <1>1, <1>2, <1>3, <1>4, <1>5, <2>1, TableFlush
    <2>3. \A j \in Ids : Live(j) /\ Live(j)' => inflight'[j].msg = inflight[j].msg
      BY <1>4, <1>6, <2>1, EntersFacts DEF TableInv, FlightInv
    <2> QED BY <1>3, <1>7, <2>1, <2>2, <2>3, Brings DEF Given
  <1>9. CASE PublishOverflows(h.qos)
    <2>1. txq' = txq /\ inflight' = inflight /\ ~Fits(2 - h.qos)
      BY <1>9 DEF PublishOverflows
    <2>2. h.qos = 0
      <3>1. h.qos = 1 => Fits(1)
        BY <1>1, <1>2 DEF FlushFits
      <3>2. h.qos = 1 => 2 - h.qos = 1
        OBVIOUS
      <3>3. h.qos # 1
        BY <2>1, <3>1, <3>2
      <3> QED BY <1>4, <3>3
    <2>3. TableInv'
      BY <1>1, <1>2, <1>3, <1>4, <2>1, <2>2, TableFlush
    <2>4. Sent' \subseteq Sent
      BY <1>2, <2>1 DEF Sent
    <2>5. \A j \in Ids : inflight'[j].msg = inflight[j].msg
      BY <2>1
    <2> QED BY <1>3, <1>7, <2>3, <2>4, <2>5, Brings DEF Given
  <1> QED BY <1>2, <1>5, <1>8, <1>9

\* The dispatch of what was read.
LEMMA DispatchPromise ==
  ASSUME Given, FlushFits, Peers, Dispatch
  PROVE  Promised
  <1> USE DEF trans, txvars, rxvars, wire, ackv, app
  <1>1. CASE DispatchPublish \/ DispatchOversized \/ DispatchSuback \/ DispatchUnsuback
             \/ DispatchPingresp \/ DispatchConnack \/ DispatchRejection
    <2>1. /\ UNCHANGED <<inflight, preq, txq, partial, toBroker, toClient>> /\ UNCHANGED hist
          /\ rx # <<>> /\ rx' = Tail(rx)
      BY <1>1 DEF DispatchPublish, DispatchOversized, DispatchSuback, DispatchUnsuback,
         DispatchPingresp, DispatchConnack, DispatchRejection, Next1, Took, TookAndFaults
    <2>2. InMoves
      BY <2>1 DEF InMoves
    <2> QED BY <2>1, <2>2, NoMoves, Idles
  <1>2. ASSUME NEW t \in Topics, ReplaySubscription(t) PROVE Promised
    <2>1. UNCHANGED <<inflight, preq, partial, toBroker, rx, toClient>> /\ UNCHANGED hist
      BY <1>2 DEF ReplaySubscription
    <2>2. QueueMoves
      BY <1>2, OtherTypes, Zenon DEF ReplaySubscription, QueueMoves
    <2> QED BY <2>1, <2>2, NoMoves, Idles
  <1>3. CASE AnnounceConnect \/ StopDispatch
    <2>1. UNCHANGED <<inflight, preq, txq, partial, toBroker, rx, toClient>> /\ UNCHANGED hist
      BY <1>3 DEF AnnounceConnect, StopDispatch
    <2> QED BY <2>1, NoMoves, Idles
  <1>4. CASE FlushPubacks
    <2>1. UNCHANGED <<inflight, preq, partial, toBroker, rx, toClient>> /\ UNCHANGED hist
      BY <1>4 DEF FlushPubacks
    <2>2. \/ txq' = txq \/ txq' = <<>> \o txq
          \/ txq' = <<PubacksPkt(acks)>> \o txq
      BY <1>4, Zenon DEF FlushPubacks
    <2>3. <<>> \o txq = txq
      BY QueueTypes, JoinAll DEF Given
    <2>4. QueueMoves
      BY <2>2, <2>3, OtherTypes, Zenon DEF QueueMoves
    <2> QED BY <2>1, <2>4, NoMoves, Idles
  <1> QED BY <1>1, <1>2, <1>3, <1>4, PubackPromise, FlushPromise DEF Dispatch

\* What the peer and the network leave alone.
Alone == UNCHANGED <<preq, inflight, txq, partial, rx>> /\ UNCHANGED hist
LEMMA ClientAlone == UNCHANGED ClientState => Alone
  BY DEF ClientState, Alone, conn, trans, txvars, ackv, app, rxvars, hist

\* The broker reads a packet and confirms nothing.
LEMMA ReadPromise ==
  ASSUME Given, NEW type, Reads(type), got' = got,
         \/ toClient' = toClient
         \/ \E s : Tracked(s) /\ ~Has(s, "puback") /\ Reply(s)
  PROVE  Promised
  <1>1. Alone /\ toBroker # <<>> /\ toBroker' = Tail(toBroker)
    BY ClientAlone DEF Reads
  <1>2. QueueMoves /\ PartMoves /\ WireMoves
    BY <1>1 DEF Alone, QueueMoves, PartMoves, WireMoves
  <1>3. InMoves
    BY <1>1 DEF InMoves, Reply, Alone
  <1>4. SameMsgs
    BY <1>1, SameTable DEF Given, Alone
  <1>5. UNCHANGED <<preq, published, History>>
    BY <1>1 DEF hist, History, Alone
  <1> QED BY <1>2, <1>3, <1>4, <1>5, Moving DEF Given

\* The broker takes a message and says so.
LEMMA TakePromise ==
  ASSUME Given, BrokerTakesPublish
  PROVE  Promised
  <1>1. PICK h : h = Head(toBroker)
    OBVIOUS
  <1>2. PICK p : p = [type |-> "puback", id |-> h.id]
    OBVIOUS
  <1>3. PICK r : r = IF h.id = 0 THEN <<>> ELSE <<p>>
    OBVIOUS
  <1>4. /\ Alone /\ toBroker # <<>> /\ toBroker' = Tail(toBroker) /\ h.type = "publish"
        /\ got' = got \cup {h.msg}
        /\ toClient' = toClient \/ toClient' = toClient \o r
    BY <1>1, <1>2, <1>3, ClientAlone DEF BrokerTakesPublish, Reads, Reply
  <1>5. Carries(h)
    <2>1. h \in Elements(toBroker)
      BY <1>1, <1>4, QueueTypes, ElementsFacts DEF Given
    <2> QED BY <1>4, <2>1 DEF Sent, Given, PromiseInv, PacketsInv
  <1>6. /\ UNCHANGED <<inflight, preq, txq, partial, rx>>
        /\ UNCHANGED <<published, accepted, fired, excused>>
    BY <1>4 DEF Alone, hist
  <1>7. TableInv' /\ Arrives
    <2>1. h.msg \in 1..published
      BY <1>5 DEF Carries
    <2> QED BY <1>4, <1>6, <2>1, TableTakes DEF Given, PromiseInv, Arrives
  <1>8. Sent' \subseteq Sent
    <2>1. QueueMoves /\ PartMoves /\ WireMoves
      BY <1>4, <1>6 DEF QueueMoves, PartMoves, WireMoves
    <2> QED BY <2>1, SentKeeps DEF Given
  <1>9. \A b \in Back' : b \in Back \/ (h.id # 0 /\ b = p)
    <2>1. Tracked(r) /\ Tracked(toClient)
      BY <1>3, AnswerFew, QueueTypes DEF Given
    <2>2. Elements(r) \subseteq {p} /\ (h.id = 0 => Elements(r) = {})
      BY <1>3, ElementsFacts
    <2>3. \A b \in Elements(toClient') : b \in Elements(toClient) \/ (h.id # 0 /\ b = p)
      <3>1. CASE toClient' = toClient
        BY <3>1
      <3>2. CASE toClient' = toClient \o r
        <4>1. Elements(toClient \o r) = Elements(toClient) \cup Elements(r)
          BY <2>1, ElementsFacts
        <4> QED BY <2>2, <3>2, <4>1
      <3> QED BY <1>4, <3>1, <3>2
    <2> QED BY <1>6, <2>3 DEF Back
  <1>10. h.id # 0 => Vouches(p)'
    <2>1. p.id = h.id
      BY <1>2
    <2> QED BY <1>4, <1>5, <1>6, <2>1 DEF Carries, Vouches, Live
  <1>11. \A j \in Ids : inflight'[j].msg = inflight[j].msg
    BY <1>6
  <1> QED BY <1>6, <1>7, <1>8, <1>9, <1>10, <1>11, Brings DEF Given, Progress

\* The steps of the broker.
LEMMA BrokerPromise ==
  ASSUME Given, Broker
  PROVE  Promised
  <1>1. ASSUME NEW type, Reads(type), got' = got, NEW p, p.type # "puback", Reply(<<p>>)
        PROVE  Promised
    <2>1. Tracked(<<p>>) /\ ~Has(<<p>>, "puback")
      BY <1>1, AnswerFew
    <2> QED BY <1>1, <2>1, ReadPromise
  <1>2. CASE BrokerAccepts
    <2>1. PICK c : c.type = "connack" /\ Reply(<<c>> \o [k \in DOMAIN unacked' |-> Delivery(unacked'[k])])
      BY <1>2, Zenon DEF BrokerAccepts, Connack
    <2> DEFINE u == unacked'
               d(k) == Delivery(u[k])
               s == [k \in DOMAIN u |-> d(k)]
               T == {d(k) : k \in DOMAIN u}
    <2>2. Reply(<<c>> \o s)
      BY <2>1
    <2>3. u \in Seq(Nat)
      BY <1>2 DEF BrokerAccepts, Given, TypesInv
    <2>4. \A k \in DOMAIN u : d(k).type = "publish" /\ d(k) \in T
      BY DEF Delivery
    <2> HIDE DEF u, d, T
    <2>5. s \in Seq(T) /\ DOMAIN s = DOMAIN u
      BY <2>3, <2>4
    <2>6. \A k \in DOMAIN s : s[k].type = "publish"
      BY <2>4, <2>5
    <2> HIDE DEF s
    <2>7. Tracked(s) /\ ~Has(s, "puback")
      BY <2>5, <2>6, SeqOfElements DEF Tracked, Has
    <2>8. Tracked(<<c>>) /\ ~Has(<<c>>, "puback")
      BY <2>1, AnswerFew
    <2>9. Tracked(<<c>> \o s) /\ ~Has(<<c>> \o s, "puback")
      BY <2>7, <2>8, JoinAll, OfAll
    <2>10. Reads("connect") /\ got' = got
      BY <1>2 DEF BrokerAccepts
    <2> QED BY <2>2, <2>9, <2>10, ReadPromise
  <1>3. ASSUME NEW code \in {"transient", "permanent"}, BrokerRejects(code) PROVE Promised
    <2>1. Connack(code, FALSE).type # "puback"
      BY DEF Connack
    <2> QED BY <1>1, <1>3, <2>1 DEF BrokerRejects
  <1>4. CASE BrokerTakesPublish
    BY <1>4, TakePromise
  <1>5. ASSUME NEW granted \in BOOLEAN, BrokerSubscribes(granted) PROVE Promised
    <2>1. PICK p : p = [type |-> "suback", id |-> Head(toBroker).id, granted |-> granted]
      OBVIOUS
    <2>2. p.type # "puback"
      BY <2>1
    <2>3. Reads("subscribe") /\ got' = got /\ Reply(<<p>>)
      BY <1>5, <2>1 DEF BrokerSubscribes
    <2> QED BY <1>1, <2>2, <2>3
  <1>6. CASE BrokerUnsubscribes
    <2>1. PICK p : p = [type |-> "unsuback", id |-> Head(toBroker).id]
      OBVIOUS
    <2>2. p.type # "puback"
      BY <2>1
    <2>3. Reads("unsubscribe") /\ got' = got /\ Reply(<<p>>)
      BY <1>6, <2>1 DEF BrokerUnsubscribes
    <2> QED BY <1>1, <2>2, <2>3
  <1>7. CASE BrokerTakesPubacks \/ BrokerEnds
    <2>1. \E type : Reads(type) /\ got' = got /\ toClient' = toClient
      BY <1>7, Zenon DEF BrokerTakesPubacks, BrokerEnds
    <2> QED BY <2>1, ReadPromise
  <1>8. CASE BrokerAnswersPing
    <2>1. PICK p : p = [type |-> "pingresp"]
      OBVIOUS
    <2>2. p.type # "puback"
      BY <2>1
    <2>3. Reads("pingreq") /\ got' = got /\ Reply(<<p>>)
      BY <1>8, <2>1 DEF BrokerAnswersPing, bvars
    <2> QED BY <1>1, <2>2, <2>3
  <1>9. ASSUME NEW kind \in {"publish", "oversized"}, NEW id, BrokerPushes(kind, id) PROVE Promised
    <2>1. PICK p : p = [type |-> kind, id |-> id]
      OBVIOUS
    <2>2. p.type # "puback"
      BY <2>1
    <2>3. Alone /\ toBroker' = toBroker /\ got' = got /\ toClient' = Append(toClient, p)
      BY <1>9, <2>1, ClientAlone DEF BrokerPushes
    <2>4. toClient' = toClient \o <<p>> /\ Tracked(<<p>>) /\ ~Has(<<p>>, "puback")
      BY <2>2, <2>3, AnswerFew, QueueTypes, JoinAll DEF Given
    <2>5. InMoves
      BY <2>3, <2>4 DEF InMoves, Alone
    <2>6. SameMsgs /\ UNCHANGED <<preq, published, History>>
      BY <2>3, SameTable DEF Given, Alone, hist, History
    <2> QED BY <2>3, <2>5, <2>6, NoMoves, Moving DEF Given, Alone
  <1> QED BY <1>2, <1>3, <1>4, <1>5, <1>6, <1>7, <1>8, <1>9 DEF Broker

\* ... and of the network.
LEMMA BreakPromise ==
  ASSUME Given, NEW how, Break(how)
  PROVE  Promised
  <1>1. Alone /\ toBroker' = <<>> /\ toClient' \in {toClient, <<>>} /\ got' = got
    BY ClientAlone DEF Break
  <1>2. SameMsgs /\ UNCHANGED <<preq, published, History>>
    BY <1>1, SameTable DEF Given, Alone, hist, History
  <1>3. WireMoves /\ InMoves
    BY <1>1 DEF WireMoves, InMoves, Alone
  <1> QED BY <1>1, <1>2, <1>3, NoMoves, Moving DEF Given, Alone

\* Every step keeps the promise.
LEMMA PromiseStep ==
  PromiseInv /\ AckInv /\ FlushFits /\ [SystemNext]_vars /\ [FreshIds]_vars => Promised
  <1> SUFFICES ASSUME PromiseInv, AckInv, FlushFits, [SystemNext]_vars, [FreshIds]_vars PROVE Promised
    OBVIOUS
  <1>1. CASE UNCHANGED vars
    <2>1. Alone /\ UNCHANGED <<toBroker, toClient, got>>
      BY <1>1 DEF vars, cvars, bvars, txvars, rxvars, wire, ackv, app, Alone
    <2>2. FreshIds
      BY <2>1 DEF FreshIds, Live, Alone
    <2>3. SameMsgs /\ UNCHANGED <<preq, published, History>>
      BY <2>1, SameTable DEF Alone, hist, History
    <2> QED BY <2>1, <2>2, <2>3, NoMoves, Moving DEF Alone, AckInv
  <1>2. CASE SystemNext /\ FreshIds
    <2>1. Given
      BY <1>2 DEF Given, AckInv
    <2>2. CASE ClientStep
      <3>1. Peers
        BY <2>2 DEF ClientStep
      <3>2. CASE Application
        BY <2>1, <3>1, <3>2, CallsPromise, DisconnectPromise, PublishPromise DEF Application
      <3>3. CASE Tick \/ IoError \/ BeginHandle \/ SelfHeal \/ Transport
        BY <2>1, <3>1, <3>3, BeginPromise, HealPromise
      <3>4. CASE Deadlines \/ Receive \/ Dispatch \/ Drain
        BY <2>1, <3>1, <3>4, DeadlinesPromise, ReceivePromise, DispatchPromise, DrainPromise
      <3> QED BY <2>2, <3>2, <3>3, <3>4 DEF ClientStep, ClientNext, Handle
    <2> QED BY <1>2, <2>1, <2>2, BrokerPromise, BreakPromise DEF SystemNext
  <1> QED BY <1>1, <1>2

\* At the start nothing is promised.
LEMMA InitPromise == SystemInit => PromiseInv /\ Delivery1!Init
  <1> SUFFICES ASSUME SystemInit PROVE PromiseInv /\ Delivery1!Init
    OBVIOUS
  <1>1. /\ toBroker = <<>> /\ partial = <<>> /\ txq = <<>> /\ rx = <<>> /\ toClient = <<>>
        /\ preq = <<>> /\ inflight = [i \in Ids |-> NoEntry] /\ fired = [m \in Msgs |-> 0]
        /\ published = 0 /\ accepted = {} /\ excused = {} /\ got = {}
    BY DEF SystemInit, Init
  <1>2. PacketsInv
    BY <1>1, ElementsFacts DEF PacketsInv, Sent, Back
  <1>3. LogInv
    BY <1>1, MqttAssumption DEF MqttAssumption, LogInv
  <1>4. FlightInv
    <2>1. NoEntry \in Entries /\ NoEntry.msg = NoMsg
      BY DEF NoEntry, Entries, NoMsg, Off
    <2>2. \A i \in Ids : ~Live(i)
      BY <1>1, <2>1 DEF Live
    <2> QED BY <1>1, <2>1, <2>2 DEF FlightInv
  <1>5. QueueInv
    BY <1>1 DEF QueueInv
  <1>6. KeptInv
    BY <1>1 DEF KeptInv, Open
  <1>7. TableInv
    BY <1>3, <1>4, <1>5, <1>6 DEF TableInv
  <1>8. Fate = [m \in Msgs |-> FateOf(m)]
    BY <1>7, FateIs
  <1>9. \A m \in Msgs : FateOf(m) = "none"
    BY <1>1 DEF FateOf
  <1>10. Delivery1!Init
    BY <1>8, <1>9 DEF Delivery1!Init
  <1> QED BY <1>2, <1>7, <1>10 DEF PromiseInv

\* A QoS 1 publish that was accepted is confirmed once, and only after the broker has it,
\* or given up in a documented way; it is never lost and never confirmed twice.  This is
\* what _send_publish, the in-flight table, _check_deadlines and _handle_puback of
\* client.py keep, while ids are fresh and the offline queue finds room.
THEOREM PublishesKeepPromise == Spec /\ [][FreshIds]_vars /\ []FlushFits => DeliverySpec
  <1>1. SystemInit => BatchInv
    BY OneInNone DEF SystemInit, Init, BatchInv, Dispatches
  <1>2. /\ PromiseInv /\ AckInv /\ FlushFits /\ [SystemNext]_vars /\ [FreshIds]_vars => PromiseInv'
        /\ PromiseInv /\ AckInv /\ FlushFits /\ [SystemNext]_vars /\ [FreshIds]_vars
             => [Delivery1!Next]_Fate
    <2> SUFFICES ASSUME PromiseInv, AckInv, FlushFits, [SystemNext]_vars, [FreshIds]_vars
                 PROVE  PromiseInv' /\ [Delivery1!Next]_Fate
      OBVIOUS
    <2>1. Promised
      BY PromiseStep
    <2> QED BY <2>1, FateMoves DEF Promised, PromiseInv
  <1> QED BY <1>1, <1>2, InitNoCall, NextNoCall, InitConn, NextConn, BatchStep, InitAcks, AckStep,
         InitPromise, PTL DEF Spec, DeliverySpec, Delivery1!Spec
=============================================================================
