---------------------------- MODULE RunnerProofs ----------------------------
(***************************************************************************)
(* run_count is kept exactly, no schedule is slept through, phased tasks   *)
(* stay on their grid and plain ones a period apart, for any set of tasks, *)
(* any setup and any bounds, whatever handlers and the application call in *)
(* between.                                                                *)
(*                                                                         *)
(* That a task is off the list when its last fire is done needs more than  *)
(* the quota: a batch must hold a handle at most once, and only handles    *)
(* that still owe a fire.  It does because the list does (Listed) and the  *)
(* batch is collected from the part of the list that the tick has passed   *)
(* (Batched).                                                              *)
(*                                                                         *)
(* That nothing is overdue when the loop goes to sleep needs the times     *)
(* between the steps (Clock): the checks leave no deadline behind them but *)
(* those of services in the batch, the handlers' own time is counted from  *)
(* the tick's timestamp, and the batch is empty when wait() reads the rest.*)
(*                                                                         *)
(* Then what the loop waits for: the sockets wait() polls are exactly      *)
(* those wanted, for any services, sockets, descriptors and masks and both *)
(* kinds of poller; and tasks written as generators are resumed when what  *)
(* they wait for has come, for any bodies.                                 *)
(***************************************************************************)
EXTENDS Runner, PollSet, Generators, TLAPS, WellFoundedInduction

\* The shape of what the proof reads.
Shape ==
    /\ program \in Programs
    /\ pc \in {"tick", "check", "fire", "handler", "wait"}
    /\ entries \in Seq(Tasks)
    /\ pending \in Seq(Tasks)
    /\ cursor \in Nat \ {0}
    /\ pc = "handler" => pending # <<>>
    /\ runs \in [Tasks -> SUBSET Int]
    /\ fires \in [Tasks -> Int]
    /\ active \in [Tasks -> BOOLEAN]

\* A handle is listed once, and while it is listed it is active.
Listed ==
    /\ \A i, j \in DOMAIN entries : entries[i] = entries[j] => i = j
    /\ \A i \in DOMAIN entries : active[entries[i]]

\* A handle is collected once, from the entries already checked.
Batched ==
    /\ \A i, j \in DOMAIN pending : pending[i] = pending[j] => i = j
    /\ pc \in {"tick", "wait"} => pending = <<>>
    /\ pc = "check" =>
          \A i \in DOMAIN pending :
              \E j \in DOMAIN entries : j < cursor /\ entries[j] = pending[i]

InBatch(t) == \E i \in DOMAIN pending : pending[i] = t

\* What a counted handle has fired and what it has left make its quota, and
\* it owes a fire while it is active or collected.
Owing ==
    \A t \in Tasks : \A n \in Setup[t].count :
        /\ runs[t] = {} => fires[t] = 0
        /\ runs[t] = {} => ~active[t] /\ ~InBatch(t)
        /\ \A left \in runs[t] :
              /\ left >= 0
              /\ fires[t] + left = n
              /\ active[t] \/ InBatch(t) => left > 0

QInv == Shape /\ Listed /\ Batched /\ Owing

-----------------------------------------------------------------------------
\* Head and tail of a sequence of tasks.
LEMMA HeadTail ==
    ASSUME NEW s \in Seq(Tasks), s # <<>>
    PROVE  /\ Head(s) \in Tasks /\ Tail(s) \in Seq(Tasks)
           /\ 1 \in DOMAIN s /\ Head(s) = s[1]
           /\ Len(Tail(s)) = Len(s) - 1
           /\ \A i \in DOMAIN Tail(s) : i + 1 \in DOMAIN s /\ Tail(s)[i] = s[i + 1]
  OBVIOUS

\* Two sequences joined.
LEMMA Joined ==
    ASSUME NEW S, NEW a \in Seq(S), NEW b \in Seq(S)
    PROVE  a \o b \in Seq(S) /\ Len(a \o b) = Len(a) + Len(b)
  OBVIOUS

\* Taking one place out of a sequence without repetitions takes out exactly
\* the task that was there.
LEMMA CutOne ==
    ASSUME NEW s \in Seq(Tasks), NEW i \in DOMAIN s,
           \A j, k \in DOMAIN s : s[j] = s[k] => j = k
    PROVE  /\ RemoveAt(s, i) \in Seq(Tasks)
           /\ \A j, k \in DOMAIN RemoveAt(s, i) :
                 RemoveAt(s, i)[j] = RemoveAt(s, i)[k] => j = k
           /\ \A j \in DOMAIN RemoveAt(s, i) :
                 \E k \in DOMAIN s : k # i /\ RemoveAt(s, i)[j] = s[k]
  <1> DEFINE r == RemoveAt(s, i)
             from(j) == IF j < i THEN j ELSE j + 1
  <1>1. i \in 1 .. Len(s) /\ Len(s) \in Nat
    OBVIOUS
  <1>2. r \in Seq(Tasks) /\ Len(r) = Len(s) - 1
    <2>1. r = SubSeq(s, 1, i - 1) \o SubSeq(s, i + 1, Len(s))
      BY DEF RemoveAt
    <2>2. SubSeq(s, 1, i - 1) \in Seq(Tasks) /\ Len(SubSeq(s, 1, i - 1)) = i - 1
      BY <1>1
    <2>3. /\ SubSeq(s, i + 1, Len(s)) \in Seq(Tasks)
          /\ Len(SubSeq(s, i + 1, Len(s))) = Len(s) - i
      BY <1>1
    <2>4. /\ SubSeq(s, 1, i - 1) \o SubSeq(s, i + 1, Len(s)) \in Seq(Tasks)
          /\ Len(SubSeq(s, 1, i - 1) \o SubSeq(s, i + 1, Len(s)))
                = Len(SubSeq(s, 1, i - 1)) + Len(SubSeq(s, i + 1, Len(s)))
      BY <2>2, <2>3, Joined
    <2> HIDE DEF r
    <2>5. (i - 1) + (Len(s) - i) = Len(s) - 1
      BY <1>1
    <2> QED BY <2>1, <2>2, <2>3, <2>4, <2>5, Zenon
  <1>3. \A j \in 1 .. Len(r) : from(j) \in 1 .. Len(s) /\ from(j) # i /\ r[j] = s[from(j)]
    <2> SUFFICES ASSUME NEW j \in 1 .. Len(r)
                 PROVE  from(j) \in 1 .. Len(s) /\ from(j) # i /\ r[j] = s[from(j)]
      OBVIOUS
    <2> DEFINE a == SubSeq(s, 1, i - 1)
               b == SubSeq(s, i + 1, Len(s))
    <2>1. a \in Seq(Tasks) /\ Len(a) = i - 1 /\ \A k \in 1 .. i - 1 : a[k] = s[k]
      BY <1>1
    <2>2. /\ b \in Seq(Tasks) /\ Len(b) = Len(s) - i
          /\ \A k \in 1 .. Len(s) - i : b[k] = s[i + k]
      BY <1>1
    <2>0. r = a \o b
      BY DEF RemoveAt
    <2> HIDE DEF a, b, r
    <2>3. r[j] = IF j <= Len(a) THEN a[j] ELSE b[j - Len(a)]
      BY <1>1, <1>2, <2>0, <2>1, <2>2
    <2>4. from(j) \in 1 .. Len(s) /\ from(j) # i
      BY <1>1, <1>2
    <2>5. CASE j < i
      BY <1>1, <2>1, <2>3, <2>4, <2>5
    <2>6. CASE j >= i
      <3>1. j - (i - 1) \in 1 .. Len(s) - i /\ i + (j - (i - 1)) = j + 1
        BY <1>1, <1>2, <2>6
      <3>2. r[j] = b[j - (i - 1)]
        BY <1>1, <2>1, <2>3, <2>6
      <3>3. from(j) = j + 1
        BY <1>1, <2>6
      <3> QED
        BY <2>2, <2>4, <3>1, <3>2, <3>3
    <2> QED
      BY <1>1, <2>5, <2>6
  <1>4. \A j, k \in 1 .. Len(r) : from(j) = from(k) => j = k
    BY <1>1, <1>2
  <1>5. DOMAIN r = 1 .. Len(r) /\ DOMAIN s = 1 .. Len(s)
    BY <1>2
  <1> HIDE DEF r, from
  <1>6. /\ \A j, k \in DOMAIN r : r[j] = r[k] => j = k
        /\ \A j \in DOMAIN r : \E k \in DOMAIN s : k # i /\ r[j] = s[k]
    BY <1>3, <1>4, <1>5
  <1> QED
    BY <1>2, <1>6 DEF r

\* A run_count is one positive number.
LEMMA OneCount ==
    ASSUME program \in Programs
    PROVE  \A t \in Tasks : \A n \in Setup[t].count :
              n \in Nat \ {0} /\ \A m \in Setup[t].count : m = n
  <1> SUFFICES ASSUME NEW t \in Tasks, NEW n \in Setup[t].count
               PROVE  n \in Nat \ {0} /\ \A m \in Setup[t].count : m = n
    OBVIOUS
  <1>1. program \in ProgramType
    BY RunnerAssumption
  <1>2. Setup[t] \in SetupType
    BY <1>1 DEF ProgramType, Setup
  <1>3. Setup[t].count \in SUBSET Nat
    BY <1>2 DEF SetupType
  <1>4. 0 \notin Setup[t].count
    BY RunnerAssumption DEF Setup
  <1>5. \A x, y \in Setup[t].count : x = y
    BY RunnerAssumption DEF Setup
  <1> QED
    BY <1>3, <1>4, <1>5

\* Taking a handle off the list leaves the others listed and active.
LEMMA UnlistKeeps ==
    ASSUME Shape, Listed, NEW t \in Tasks, Unlist(t)
    PROVE  /\ entries' \in Seq(Tasks)
           /\ active' \in [Tasks -> BOOLEAN]
           /\ Listed'
           /\ \A u \in Tasks : active'[u] <=> active[u] /\ u # t
           /\ \A i \in DOMAIN entries' : \E j \in DOMAIN entries : entries'[i] = entries[j]
  <1>1. /\ active' = [active EXCEPT ![t] = FALSE]
        /\ active' \in [Tasks -> BOOLEAN]
        /\ \A u \in Tasks : active'[u] <=> active[u] /\ u # t
    BY DEF Unlist, Shape
  <1>2. CASE \E i \in DOMAIN entries : entries[i] = t
    <2> DEFINE i == CHOOSE i \in DOMAIN entries : entries[i] = t
    <2>1. i \in DOMAIN entries /\ entries[i] = t
      BY <1>2
    <2>2. entries' = RemoveAt(entries, i)
      BY <1>2 DEF Unlist
    <2> HIDE DEF i
    <2>3. entries \in Seq(Tasks) /\ \A j, k \in DOMAIN entries : entries[j] = entries[k] => j = k
      BY DEF Shape, Listed
    <2>4. /\ entries' \in Seq(Tasks)
          /\ \A j, k \in DOMAIN entries' : entries'[j] = entries'[k] => j = k
          /\ \A j \in DOMAIN entries' :
                \E k \in DOMAIN entries : k # i /\ entries'[j] = entries[k]
      BY <2>1, <2>2, <2>3, CutOne
    <2>5. \A j \in DOMAIN entries' : active'[entries'[j]]
      <3> SUFFICES ASSUME NEW j \in DOMAIN entries'
                   PROVE  active'[entries'[j]]
        OBVIOUS
      <3>1. PICK k \in DOMAIN entries : k # i /\ entries'[j] = entries[k]
        BY <2>4
      <3>2. entries[k] # t /\ entries[k] \in Tasks
        BY <2>1, <2>3, <3>1
      <3> QED
        BY <1>1, <3>1, <3>2 DEF Listed
    <2> QED
      BY <1>1, <2>4, <2>5 DEF Listed
  <1>3. CASE ~ \E i \in DOMAIN entries : entries[i] = t
    <2>1. entries' = entries
      BY <1>3 DEF Unlist
    <2>2. \A j \in DOMAIN entries : entries[j] \in Tasks /\ entries[j] # t
      BY <1>3 DEF Shape
    <2> QED
      BY <1>1, <2>1, <2>2 DEF Listed, Shape
  <1> QED
    BY <1>2, <1>3

\* Nothing is registered at first.
LEMMA QInvInit ==
    Init => QInv
  BY DEF Init, QInv, Shape, Listed, Batched, Owing, InBatch

-----------------------------------------------------------------------------
\* One lemma per kind of step.

LEMMA AddKeeps ==
    ASSUME QInv, NEW t \in Tasks, Add(t), program' = program
    PROVE  QInv'
  <1> USE DEF QInv
  <1> program \in Programs /\ Setup' = Setup
    BY DEF Shape, Setup
  <1>1. /\ entries' = Append(entries, t) /\ entries \in Seq(Tasks)
        /\ active' = [active EXCEPT ![t] = TRUE] /\ active \in [Tasks -> BOOLEAN]
        /\ ~active[t] /\ ~InBatch(t)
        /\ runs' = [runs EXCEPT ![t] = Setup[t].count]
        /\ fires' = [fires EXCEPT ![t] = 0]
        /\ pending' = pending /\ cursor' = cursor /\ pc' = pc
        /\ pc \in {"tick", "handler", "wait"}
    BY DEF Add, Shape, InBatch, CanCall
  <1>2. Setup[t].count \subseteq Nat
    BY OneCount
  <1>3. Shape'
    BY <1>1, <1>2 DEF Shape
  <1>4. Listed'
    <2>1. \A i \in DOMAIN entries : entries[i] # t /\ entries[i] \in Tasks
      BY <1>1 DEF Listed
    <2>2. DOMAIN entries' = 1 .. Len(entries) + 1 /\ DOMAIN entries = 1 .. Len(entries)
      BY <1>1
    <2>3. \A i \in DOMAIN entries' :
             \/ i \in DOMAIN entries /\ entries'[i] = entries[i]
             \/ i = Len(entries) + 1 /\ entries'[i] = t
      BY <1>1, <2>2
    <2> QED
      BY <1>1, <2>1, <2>2, <2>3 DEF Listed
  <1>5. Batched'
    BY <1>1 DEF Batched
  <1>6. Owing'
    <2> SUFFICES ASSUME NEW u \in Tasks, NEW n \in Setup[u].count
                 PROVE  /\ runs'[u] = {} => fires'[u] = 0
                        /\ runs'[u] = {} => ~active'[u] /\ ~InBatch(u)'
                        /\ \A left \in runs'[u] :
                              /\ left >= 0
                              /\ fires'[u] + left = n
                              /\ active'[u] \/ InBatch(u)' => left > 0
      BY DEF Owing
    <2>1. InBatch(u)' = InBatch(u)
      BY <1>1 DEF InBatch
    <2>2. CASE u = t
      BY <1>1, <2>1, <2>2, OneCount DEF Shape
    <2>3. CASE u # t
      <3>1. runs'[u] = runs[u] /\ fires'[u] = fires[u] /\ active'[u] = active[u]
        BY <1>1, <2>3 DEF Shape
      <3> QED
        BY <2>1, <3>1 DEF Owing
    <2> QED
      BY <2>2, <2>3
  <1> QED
    BY <1>3, <1>4, <1>5, <1>6

LEMMA RemoveKeeps ==
    ASSUME QInv, NEW t \in Tasks, RemoveTask(t), program' = program
    PROVE  QInv'
  <1> USE DEF QInv
  <1> program \in Programs /\ Setup' = Setup
    BY DEF Shape, Setup
  <1>1. /\ pending' = pending /\ cursor' = cursor /\ pc' = pc
        /\ runs' = runs /\ fires' = fires
        /\ pc \in {"tick", "handler", "wait"}
        /\ Unlist(t)
    BY DEF RemoveTask, CanCall, history
  <1>2. /\ entries' \in Seq(Tasks) /\ active' \in [Tasks -> BOOLEAN]
        /\ Listed'
        /\ \A u \in Tasks : active'[u] => active[u]
    BY <1>1, UnlistKeeps
  <1>3. Shape' /\ Batched'
    BY <1>1, <1>2 DEF Shape, Batched
  <1>4. \A u \in Tasks : InBatch(u)' = InBatch(u)
    BY <1>1 DEF InBatch
  <1>5. Owing'
    BY <1>1, <1>2, <1>4 DEF Owing
  <1> QED
    BY <1>2, <1>3, <1>5

\* Collecting: the entry at the cursor is not in the batch yet.
LEMMA CheckPassesKeeps ==
    ASSUME QInv, NEW t \in Tasks, CheckPasses(t), program' = program
    PROVE  QInv'
  <1> USE DEF QInv
  <1> program \in Programs /\ Setup' = Setup
    BY DEF Shape, Setup
  <1>1. /\ pc = "check" /\ pc' = pc
        /\ cursor \in Nat \ {0} /\ cursor <= Len(entries) /\ t = entries[cursor]
        /\ pending' = Append(pending, t) /\ pending \in Seq(Tasks)
        /\ cursor' = cursor + 1
        /\ entries' = entries /\ entries \in Seq(Tasks)
        /\ runs' = runs /\ fires' = fires /\ active' = active
    <2>1. PassGate(t) => pc = "check" /\ cursor <= Len(entries) /\ t = entries[cursor]
      BY DEF PassGate
    <2> QED
      BY <2>1 DEF CheckPasses, Shape, history
  <1>2. cursor \in DOMAIN entries
    BY <1>1
  <1>3. Shape' /\ Listed'
    BY <1>1 DEF Shape, Listed
  <1>4. /\ DOMAIN pending' = 1 .. Len(pending) + 1 /\ DOMAIN pending = 1 .. Len(pending)
        /\ Len(pending) \in Nat
        /\ \A i \in DOMAIN pending' :
              \/ i \in DOMAIN pending /\ pending'[i] = pending[i]
              \/ i = Len(pending) + 1 /\ pending'[i] = t
    BY <1>1
  <1>5. \A i \in DOMAIN pending : pending[i] # t
    <2> SUFFICES ASSUME NEW i \in DOMAIN pending, pending[i] = t
                 PROVE  FALSE
      OBVIOUS
    <2>1. PICK j \in DOMAIN entries : j < cursor /\ entries[j] = t
      BY <1>1 DEF Batched
    <2> QED
      BY <1>1, <1>2, <2>1 DEF Listed
  <1>6. Batched'
    <2>1. \A i, j \in DOMAIN pending' : pending'[i] = pending'[j] => i = j
      BY <1>4, <1>5 DEF Batched
    <2>2. \A i \in DOMAIN pending' :
             \E j \in DOMAIN entries' : j < cursor' /\ entries'[j] = pending'[i]
      <3> SUFFICES ASSUME NEW i \in DOMAIN pending'
                   PROVE  \E j \in DOMAIN entries : j < cursor + 1 /\ entries[j] = pending'[i]
        BY <1>1
      <3>1. CASE i \in DOMAIN pending /\ pending'[i] = pending[i]
        <4>1. PICK j \in DOMAIN entries : j < cursor /\ entries[j] = pending[i]
          BY <1>1, <3>1 DEF Batched
        <4>2. j \in Nat
          BY <1>1
        <4> QED
          BY <1>1, <3>1, <4>1, <4>2
      <3>2. CASE pending'[i] = t
        BY <1>1, <1>2, <3>2
      <3> QED
        BY <1>4, <3>1, <3>2
    <2> QED
      BY <1>1, <2>1, <2>2 DEF Batched
  <1>7. active[t]
    BY <1>1, <1>2 DEF Listed
  <1>8. \A u \in Tasks : InBatch(u)' => InBatch(u) \/ u = t
    BY <1>1, <1>4 DEF InBatch
  <1>9. Owing'
    BY <1>1, <1>7, <1>8 DEF Owing
  <1> QED
    BY <1>3, <1>6, <1>9

\* A completed fire: the handle leaves the batch, and the list with its last.
LEMMA HandlerEndsKeeps ==
    ASSUME QInv, HandlerEnds, program' = program
    PROVE  QInv'
  <1> USE DEF QInv
  <1> program \in Programs /\ Setup' = Setup
    BY DEF Shape, Setup
  <1> DEFINE t == Head(pending)
  <1>1. /\ pc = "handler" /\ pending \in Seq(Tasks) /\ pending # <<>>
        /\ pc' = "fire" /\ pending' = Tail(pending) /\ cursor' = cursor
        /\ runs' = [runs EXCEPT ![t] = {n - 1 : n \in runs[t]}]
        /\ fires' = [fires EXCEPT ![t] = IF runs[t] = {} THEN 0 ELSE fires[t] + 1]
        /\ Spent(t) => Unlist(t)
        /\ ~Spent(t) => entries' = entries /\ active' = active
    BY DEF HandlerEnds, Shape
  <1>2. /\ t \in Tasks /\ Tail(pending) \in Seq(Tasks)
        /\ 1 \in DOMAIN pending /\ t = pending[1]
        /\ \A i \in DOMAIN Tail(pending) :
              i \in Nat /\ i + 1 \in DOMAIN pending /\ Tail(pending)[i] = pending[i + 1]
    BY <1>1, HeadTail
  <1> HIDE DEF t
  <1>3. InBatch(t) /\ \A u \in Tasks : InBatch(u)' => InBatch(u) /\ u # t
    <2>1. InBatch(t)
      BY <1>2 DEF InBatch
    <2>2. ASSUME NEW u \in Tasks, InBatch(u)'
          PROVE  InBatch(u) /\ u # t
      <3>1. PICK i \in DOMAIN Tail(pending) : Tail(pending)[i] = u
        BY <1>1, <2>2 DEF InBatch
      <3>2. i + 1 \in DOMAIN pending /\ pending[i + 1] = u /\ i + 1 # 1
        BY <1>2, <3>1
      <3> QED
        BY <1>2, <3>2 DEF InBatch, Batched
    <2> QED
      BY <2>1, <2>2
  <1>4. /\ entries' \in Seq(Tasks) /\ active' \in [Tasks -> BOOLEAN]
        /\ Listed'
        /\ \A u \in Tasks : active'[u] => active[u]
        /\ Spent(t) => ~active'[t]
    <2>1. CASE Spent(t)
      BY <1>1, <1>2, <2>1, UnlistKeeps
    <2>2. CASE ~Spent(t)
      BY <1>1, <2>2 DEF Listed, Shape
    <2> QED
      BY <2>1, <2>2
  <1>5. runs[t] \in SUBSET Int /\ fires[t] \in Int
    BY <1>2 DEF Shape
  <1>6. {n - 1 : n \in runs[t]} \in SUBSET Int
    BY <1>5
  <1>7. Shape'
    <2>1. runs' \in [Tasks -> SUBSET Int]
      BY <1>1, <1>2, <1>6 DEF Shape
    <2>2. fires' \in [Tasks -> Int]
      BY <1>1, <1>2, <1>5 DEF Shape
    <2> QED
      BY <1>1, <1>2, <1>4, <2>1, <2>2 DEF Shape
  <1>8. Batched'
    BY <1>1, <1>2 DEF Batched
  <1>9. Owing'
    <2> SUFFICES ASSUME NEW u \in Tasks, NEW n \in Setup[u].count
                 PROVE  /\ runs'[u] = {} => fires'[u] = 0
                        /\ runs'[u] = {} => ~active'[u] /\ ~InBatch(u)'
                        /\ \A left \in runs'[u] :
                              /\ left >= 0
                              /\ fires'[u] + left = n
                              /\ active'[u] \/ InBatch(u)' => left > 0
      BY DEF Owing
    <2>1. CASE u # t
      <3>1. runs'[u] = runs[u] /\ fires'[u] = fires[u]
        BY <1>1, <2>1 DEF Shape
      <3> QED
        BY <1>3, <1>4, <3>1 DEF Owing
    <2>2. CASE u = t
      <3>1. runs[t] # {}
        BY <1>3, <2>2 DEF Owing
      <3>2. runs'[t] = {m - 1 : m \in runs[t]} /\ fires'[t] = fires[t] + 1
        BY <1>1, <1>2, <3>1 DEF Shape
      <3>3. \A m \in runs[t] : m \in Int /\ m > 0 /\ fires[t] + m = n
        BY <1>3, <1>5, <2>2 DEF Owing
      <3>4. n \in Nat
        BY OneCount
      <3>5. \A left \in runs'[t] : left >= 0 /\ fires'[t] + left = n
        BY <1>5, <3>2, <3>3, <3>4
      <3>6. ~Spent(t) => \A left \in runs'[t] : left > 0
        BY <3>2, <3>3 DEF Spent
      <3>7. runs'[t] # {}
        BY <3>1, <3>2
      <3> QED
        BY <1>3, <1>4, <2>2, <3>5, <3>6, <3>7
    <2> QED
      BY <2>1, <2>2
  <1> QED
    BY <1>4, <1>7, <1>8, <1>9

\* Steps that drop the batch or leave handles, list and batch alone.
LEMMA OthersKeep ==
    ASSUME QInv,
           program' = program, entries' = entries, runs' = runs, fires' = fires, active' = active,
           \/ /\ pending' = <<>> /\ pc' \in {"tick", "check"} /\ cursor' \in {cursor, 1}
           \/ /\ pending' = pending
              /\ \/ pc' = pc /\ cursor' \in {cursor, cursor + 1}
                 \/ pc' = "handler" /\ pending # <<>> /\ cursor' = cursor
                 \/ pc' = "fire" /\ cursor' = cursor
                 \/ pc' \in {"tick", "wait"} /\ pending = <<>> /\ cursor' = cursor
    PROVE  QInv'
  <1> USE DEF QInv
  <1> program \in Programs /\ Setup' = Setup
    BY DEF Shape, Setup
  <1>1. cursor \in Nat \ {0} /\ cursor' \in Nat \ {0}
    BY DEF Shape
  <1>2. Shape'
    <2>0. <<>> \in Seq(Tasks)
      OBVIOUS
    <2>1. pending' \in Seq(Tasks)
      BY <2>0 DEF Shape
    <2>2. pc' \in {"tick", "check", "fire", "handler", "wait"}
      BY DEF Shape
    <2>3. pc' = "handler" => pending' # <<>>
      BY DEF Shape
    <2> QED
      BY <1>1, <2>1, <2>2, <2>3 DEF Shape
  <1>3. Listed'
    BY DEF Listed
  <1>4. Batched'
    <2>1. CASE pending' = <<>>
      BY <2>1 DEF Batched
    <2>2. CASE pending' = pending /\ pending # <<>>
      <3>1. \A j \in DOMAIN entries : j < cursor /\ cursor' \in {cursor, cursor + 1} => j < cursor'
        BY <1>1 DEF Shape
      <3> QED
        BY <1>1, <2>2, <3>1 DEF Batched
    <2> QED
      BY <2>1, <2>2
  <1>5. \A u \in Tasks : InBatch(u)' => InBatch(u)
    BY DEF InBatch
  <1>6. Owing'
    BY <1>5 DEF Owing
  <1> QED
    BY <1>2, <1>3, <1>4, <1>6

\* Every step keeps the quota.
LEMMA QInvStep ==
    QInv /\ [Next]_vars => QInv'
  <1> SUFFICES ASSUME QInv, [Next]_vars
               PROVE  QInv'
    OBVIOUS
  <1>0. Shape /\ Batched
    BY DEF QInv
  <1> program' = program
    BY DEF Next, vars
  <1>1. CASE UNCHANGED vars
    BY <1>1, OthersKeep DEF vars, schedule, history
  <1>2. ASSUME NEW t \in Tasks, Add(t) PROVE QInv'
    BY <1>2, AddKeeps
  <1>3. ASSUME NEW t \in Tasks, RemoveTask(t) PROVE QInv'
    BY <1>3, RemoveKeeps
  <1>4. ASSUME NEW t \in Tasks, NEW p \in Periods, NEW a \in {0, busy}, SetPeriod(t, p, a)
        PROVE QInv'
    BY <1>4, OthersKeep DEF SetPeriod
  <1>5. ASSUME NEW ms \in 1 .. MaxBusy, Spend(ms) PROVE QInv'
    BY <1>5, OthersKeep DEF Spend
  <1>6. ASSUME NEW h, Arm(h) PROVE QInv'
    BY <1>6, OthersKeep DEF Arm, history
  <1>7. CASE HandlerEnds
    BY <1>7, HandlerEndsKeeps
  <1>8. CASE Reenter
    BY <1>8, OthersKeep DEF Reenter, schedule
  <1>9. CASE Tick
    <2>1. pending = <<>>
      BY <1>0, <1>9 DEF Tick, Batched
    <2> QED
      BY <1>9, <2>1, OthersKeep DEF Tick, schedule, history
  <1>10. ASSUME NEW t \in Tasks, NotReady(t) PROVE QInv'
    BY <1>10, OthersKeep DEF NotReady, schedule, history
  <1>11. ASSUME NEW t \in Tasks, CheckPasses(t) PROVE QInv'
    BY <1>11, CheckPassesKeeps
  <1>12. ASSUME NEW t \in Tasks, CheckFails(t) PROVE QInv'
    BY <1>12, OthersKeep DEF CheckFails, PassGate, history
  <1>13. ASSUME NEW t \in Tasks, CheckRaises(t) PROVE QInv'
    BY <1>13, OthersKeep DEF CheckRaises, PassGate, history
  <1>14. CASE ChecksDone
    BY <1>14, OthersKeep DEF ChecksDone, schedule, history
  <1>15. CASE Fire
    BY <1>15, OthersKeep DEF Fire, schedule
  <1>16. CASE TickReturns
    BY <1>16, OthersKeep DEF TickReturns, schedule, history
  <1>17. ASSUME NEW ms, pc = "wait", Wake(ms) PROVE QInv'
    <2>1. pending = <<>>
      BY <1>0, <1>17 DEF Batched
    <2> QED
      BY <1>17, <2>1, OthersKeep DEF Wake
  <1>18. CASE WaitReturns
    BY <1>17, <1>18 DEF WaitReturns
  <1>19. CASE WaitSleeps
    BY <1>17, <1>19 DEF WaitSleeps
  <1>20. ASSUME NEW ms, WaitWoken(ms) PROVE QInv'
    BY <1>17, <1>20 DEF WaitWoken
  <1>21. CASE Operation
    BY <1>2, <1>3, <1>4, <1>21 DEF Operation
  <1>22. CASE Handler
    BY <1>5, <1>6, <1>7, <1>8, <1>22 DEF Handler
  <1>23. CASE Loop
    BY <1>9, <1>10, <1>11, <1>12, <1>13, <1>14, <1>15, <1>16, <1>18, <1>19,
       <1>20, <1>23 DEF Loop
  <1> QED
    BY <1>1, <1>21, <1>22, <1>23 DEF Next

\* run_count bounds the completed fires and takes the handle off the list
\* with the last one (tick, _remove).
THEOREM QuotaAlwaysKept ==
    Spec => []QuotaKept
  <1>1. QInv => QuotaKept
    <2> SUFFICES ASSUME QInv, NEW t \in Tasks, NEW n \in Setup[t].count
                 PROVE  /\ fires[t] <= n
                        /\ active[t] => \A left \in runs[t] : fires[t] + left = n
                        /\ fires[t] = n => ~active[t]
      BY DEF QuotaKept
    <2>1. n \in Nat \ {0} /\ fires[t] \in Int /\ runs[t] \in SUBSET Int
      BY OneCount DEF QInv, Shape
    <2>2. CASE runs[t] = {}
      BY <2>1, <2>2 DEF QInv, Owing
    <2>3. CASE runs[t] # {}
      <3>1. PICK left \in runs[t] : TRUE
        BY <2>3
      <3>2. left \in Int /\ left >= 0 /\ fires[t] + left = n /\ (active[t] => left > 0)
        BY <2>1, <3>1 DEF QInv, Owing
      <3>3. active[t] => \A l \in runs[t] : fires[t] + l = n
        BY DEF QInv, Owing
      <3> QED
        BY <2>1, <3>2, <3>3
    <2> QED
      BY <2>2, <2>3
  <1> QED
    BY <1>1, QInvInit, QInvStep, PTL DEF Spec

-----------------------------------------------------------------------------
(* When tasks fire                                                         *)

\* Euclid for a phase on a grid.
LEMMA OnGrid ==
    ASSUME NEW p \in Nat \ {0}, NEW x \in Int
    PROVE  /\ x % p = 0 <=> \E k \in Int : x = k * p
           /\ x % p \in Nat
           /\ \E k \in Int : x % p = x + k * p
           /\ x \div p \in Int /\ x < (x \div p + 1) * p
  <1> DEFINE q == x \div p
             r == x % p
  <1>1. q \in Int /\ r \in 0 .. (p - 1) /\ x = p * q + r
    OBVIOUS
  <1> HIDE DEF q, r
  <1>2. r = x + (-q) * p /\ (q + 1) * p = p * q + p
    BY <1>1
  <1>3. r = 0 => x = q * p
    BY <1>1
  <1>4. ASSUME NEW k \in Int, x = k * p PROVE r = 0
    <2>1. x % p = 0
      BY <1>4
    <2> QED BY <2>1 DEF r
  <1>5. x < (q + 1) * p
    <2>1. p * q \in Int
      BY <1>1
    <2> QED BY <1>1, <1>2, <2>1
  <1>6. -q \in Int
    BY <1>1
  <1>7. x % p = 0 <=> \E k \in Int : x = k * p
    BY <1>1, <1>3, <1>4 DEF r
  <1>8. x % p = x + (-q) * p
    BY <1>2 DEF r
  <1>9. x % p \in Nat
    BY <1>1 DEF r
  <1>10. x \div p \in Int /\ x < (x \div p + 1) * p
    BY <1>1, <1>5 DEF q
  <1> QED BY <1>6, <1>7, <1>8, <1>9, <1>10

\* The one element of a set.
LEMMA TheOne ==
    ASSUME NEW s, NEW x \in s, \A y \in s : y = x
    PROVE  The(s) = x
  BY DEF The

\* The least of a set of naturals exists.
LEMMA Least ==
    ASSUME NEW s \in SUBSET Int, s # {}, NEW n \in Int, \A x \in s : x >= n
    PROVE  Min(s) \in s /\ \A x \in s : Min(s) <= x
  <1> DEFINE R == OpToRel(<, Nat)
             T == {m \in Nat : m + n \in s}
  <1>1. IsWellFoundedOn(R, Nat)
    BY NatLessThanWellFounded
  <1>2. T \subseteq Nat /\ T # {}
    <2>1. PICK x \in s : TRUE
      OBVIOUS
    <2>2. x - n \in Nat /\ (x - n) + n = x
      BY <2>1
    <2> QED BY <2>1, <2>2
  <1>3. PICK m \in T : \A k \in T : <<k, m>> \notin R
    <2> HIDE DEF R, T
    <2> QED BY <1>1, <1>2, WFMin
  <1>4. m + n \in s /\ m \in Nat
    OBVIOUS
  <1>5. \A x \in s : m + n <= x
    <2> SUFFICES ASSUME NEW x \in s, x < m + n PROVE FALSE
      OBVIOUS
    <2>1. x - n \in T /\ x - n < m
      <3>1. x - n \in Nat /\ (x - n) + n = x
        OBVIOUS
      <3> QED BY <3>1
    <2>2. <<x - n, m>> \in R
      BY <2>1, <1>4 DEF OpToRel
    <2> QED BY <1>3, <2>1, <2>2
  <1> QED BY <1>4, <1>5 DEF Min

\* What Runner.add() accepts, and the longest of the periods.
LEMMA Accepted ==
    ASSUME program \in Programs
    PROVE  /\ MaxBusy \in Nat
           /\ LongAgo \in Nat /\ LongAgo > MaxBusy
           /\ \A p \in Periods : /\ p \in SUBSET Nat /\ 0 \notin p
                                 /\ \A x, y \in p : x = y
                                 /\ \A x \in p : x < LongAgo
           /\ Hints \in SUBSET Nat
           /\ \A t \in Tasks :
                /\ Setup[t].phased \in BOOLEAN
                /\ Setup[t].period \in SUBSET Nat /\ Setup[t].start \in SUBSET Nat
                /\ \A x, y \in Setup[t].period : x = y
                /\ \A x, y \in Setup[t].start : x = y
                /\ 0 \notin Setup[t].period
                /\ \A x \in Setup[t].period : x < LongAgo
                /\ Setup[t].phased => Setup[t].period # {}
  <1>1. program \in ProgramType /\ MaxBusy \in Nat
    BY RunnerAssumption
  <1>2. /\ Periods \in SUBSET SUBSET Nat /\ Hints \in SUBSET Nat
        /\ \A t \in Tasks : Setup[t] \in SetupType
    BY <1>1 DEF ProgramType, Periods, Hints, Setup
  <1>3. \A t \in Tasks : /\ Setup[t].period \in SUBSET Nat /\ Setup[t].start \in SUBSET Nat
                         /\ Setup[t].phased \in BOOLEAN
    BY <1>2 DEF SetupType
  <1>4. \A t \in Tasks : /\ \A x, y \in Setup[t].period : x = y
                         /\ \A x, y \in Setup[t].start : x = y
                         /\ 0 \notin Setup[t].period
                         /\ Setup[t].phased => Setup[t].period # {}
    BY RunnerAssumption DEF Setup
  <1>5. \A p \in Periods : 0 \notin p /\ \A x, y \in p : x = y
    BY RunnerAssumption DEF Periods
  <1> DEFINE L == Lengths(program)
  <1>6. L \subseteq Nat
    BY <1>2, <1>3 DEF Lengths, Periods, Setup
  <1>7. PICK longest \in L : \A p \in L : p <= longest
    BY RunnerAssumption
  <1>8. /\ \A p \in Periods : \A x \in p : x \in L
        /\ \A t \in Tasks : \A x \in Setup[t].period : x \in L
    BY DEF Lengths, Periods, Setup
  <1> HIDE DEF L
  <1>9. Max(L) \in L /\ \A p \in L : p <= Max(L)
    <2>1. \A p \in L : longest >= p
      BY <1>6, <1>7
    <2>2. \A p \in L : Max(L) >= p
      BY <1>7, <2>1 DEF Max
    <2>3. Max(L) \in L
      BY <1>7, <2>1 DEF Max
    <2> QED BY <1>6, <2>2, <2>3
  <1>10. LongAgo = 1 + MaxBusy + Max(L)
    BY DEF LongAgo, L
  <1>11. LongAgo \in Nat /\ LongAgo > MaxBusy /\ \A p \in L : p < LongAgo
    <2> DEFINE m == Max(L)
    <2>1. m \in Nat /\ \A p \in L : p \in Nat /\ p <= m
      BY <1>6, <1>9
    <2>2. LongAgo = 1 + MaxBusy + m
      BY <1>10
    <2> HIDE DEF m
    <2> QED BY <1>1, <2>1, <2>2
  <1>12. /\ \A p \in Periods : p \in SUBSET Nat /\ \A x \in p : x < LongAgo
         /\ \A t \in Tasks : \A x \in Setup[t].period : x < LongAgo
    BY <1>2, <1>8, <1>11
  <1> HIDE DEF L
  <1> QED BY <1>1, <1>2, <1>3, <1>4, <1>5, <1>11, <1>12

-----------------------------------------------------------------------------
\* A plain task is not due again within a period of its last fire: it is as long ago as that,
\* or what is left is the rest of the period.  One that is still to fire in this tick has
\* been rescheduled from the tick's timestamp.
Spaced(t) ==
    \A p \in period[t], d \in due[t] :
        /\ since[t] >= p \/ since[t] + d >= p
        /\ InBatch(t) => busy + d >= p

\* A phased one is due on its grid.
Aligned(t) == \A p \in period[t], d \in due[t] : (d + grid[t]) % p = 0

Sound(t) ==
    /\ \A d, e \in due[t] : d = e
    /\ \A p, q \in period[t] : p = q
    /\ \A p \in period[t] : p # 0 /\ p < LongAgo
    /\ Setup[t].service /\ ~Gated(t) => due[t] = {}
    /\ hint[t] # {} => Setup[t].service /\ ~Gated(t)
    /\ since[t] >= busy
    /\ IF Setup[t].phased THEN Aligned(t) ELSE Spaced(t)

Times ==
    /\ due \in [Tasks -> SUBSET Int] /\ hint \in [Tasks -> SUBSET Int]
    /\ period \in [Tasks -> SUBSET Nat]
    /\ since \in [Tasks -> Nat] /\ grid \in [Tasks -> Int]
    /\ busy \in 0 .. MaxBusy /\ lateBy \in Nat
    /\ \A t \in Tasks : Sound(t)

\* No deadline of the task has passed since the tick's timestamp, but for one that its
\* collected handler is still to answer.
Kept(t) ==
    /\ \A d \in due[t] : d + busy >= 0
    /\ \A h \in hint[t] : h + busy >= 0 \/ (InBatch(t) /\ h + busy >= -lateBy)

\* A tick starts late by no more than lateBy; it leaves nothing overdue that it has passed.
Clock ==
    /\ pc \in {"tick", "check"} =>
          busy = 0 /\ \A t \in Registered : \A d \in due[t] \cup hint[t] : d >= -lateBy
    /\ pc = "check" => \A i \in DOMAIN entries : i < cursor => Kept(entries[i])
    /\ pc \in {"fire", "handler", "wait"} => \A t \in Registered : Kept(t)

TInv == Times /\ Clock

-----------------------------------------------------------------------------
\* The clock moves on while nothing else does.
LEMMA ElapseKeeps ==
    ASSUME Shape, Times, program' = program, period' = period,
           NEW ms \in Nat, Elapse(ms),
           busy' \in 0 .. MaxBusy, busy' <= busy + ms, lateBy' \in Nat,
           \A u \in Tasks : InBatch(u)' => InBatch(u) /\ busy' = busy + ms
    PROVE  /\ Times'
           /\ \A t \in Tasks : /\ \A d \in due'[t] : d + ms \in due[t] /\ d \in Int
                               /\ \A h \in hint'[t] : h + ms \in hint[t] /\ h \in Int
  <1>0. program \in Programs /\ Setup' = Setup /\ LongAgo' = LongAgo
    BY DEF Shape, Setup, LongAgo
  <1>1. /\ MaxBusy \in Nat /\ LongAgo \in Nat /\ LongAgo > MaxBusy
        /\ \A t \in Tasks : Setup[t].phased \in BOOLEAN
    BY <1>0, Accepted
  <1>t. \A t \in Tasks : /\ due[t] \in SUBSET Int /\ hint[t] \in SUBSET Int
                         /\ since[t] \in Nat /\ grid[t] \in Int
                         /\ period[t] \in SUBSET Nat /\ period'[t] = period[t]
    BY DEF Times
  <1>d. \A t \in Tasks : due'[t] = {d - ms : d \in due[t]}
    BY DEF Elapse
  <1>h. \A t \in Tasks : hint'[t] = {h - ms : h \in hint[t]}
    BY DEF Elapse
  <1>s. \A t \in Tasks : since'[t] = Min({since[t] + ms, LongAgo})
    BY DEF Elapse
  <1>g. \A t \in Tasks :
           grid'[t] = IF Setup[t].phased /\ period[t] # {}
                      THEN (grid[t] + ms) % The(period[t]) ELSE 0
    BY DEF Elapse
  <1>3. ASSUME NEW t \in Tasks
        PROVE  /\ since'[t] \in Nat
               /\ since'[t] = since[t] + ms \/ since'[t] = LongAgo
               /\ since'[t] >= busy'
    <2>0. since[t] \in Nat /\ since[t] + ms \in Nat
      BY <1>t
    <2> DEFINE x == since[t] + ms
               s == {x, LongAgo}
    <2>1. Min(s) = x \/ Min(s) = LongAgo
      <3> HIDE DEF x
      <3>1. s \in SUBSET Int /\ s # {} /\ 0 \in Int /\ \A y \in s : y >= 0
        BY <1>1, <2>0 DEF x
      <3>2. Min(s) \in s
        BY <3>1, Least
      <3> QED BY <3>2
    <2>2. since'[t] = x \/ since'[t] = LongAgo
      BY <1>s, <2>1
    <2> HIDE DEF s
    <2>3. since[t] >= busy /\ busy \in Nat
      BY DEF Times, Sound
    <2> QED BY <1>1, <2>0, <2>2, <2>3
  <1>4. ASSUME NEW t \in Tasks
        PROVE  /\ \A d \in due'[t] : d + ms \in due[t] /\ d \in Int
               /\ \A h \in hint'[t] : h + ms \in hint[t] /\ h \in Int
    <2>1. ASSUME NEW d \in due'[t] PROVE d + ms \in due[t] /\ d \in Int
      <3>1. PICK e \in due[t] : d = e - ms
        BY <1>d
      <3>2. e \in Int
        BY <1>t
      <3>3. d + ms = e /\ d \in Int
        BY <3>1, <3>2
      <3> QED BY <3>3
    <2>2. ASSUME NEW h \in hint'[t] PROVE h + ms \in hint[t] /\ h \in Int
      <3>1. PICK e \in hint[t] : h = e - ms
        BY <1>h
      <3>2. e \in Int
        BY <1>t
      <3>3. h + ms = e /\ h \in Int
        BY <3>1, <3>2
      <3> QED BY <3>3
    <2> QED BY <2>1, <2>2
  <1>5. ASSUME NEW t \in Tasks, NEW p \in period[t], Setup[t].phased
        PROVE  p \in Nat \ {0} /\ grid'[t] = (grid[t] + ms) % p /\ grid'[t] \in Nat
    <2>1. \A q \in period[t] : q = p
      BY DEF Times, Sound
    <2>2. p \in Nat \ {0}
      BY <1>t DEF Times, Sound
    <2>3. The(period[t]) = p
      BY <2>1, TheOne
    <2>4. grid[t] + ms \in Int
      BY <1>t
    <2>5. grid'[t] = (grid[t] + ms) % p
      BY <1>g, <1>5, <2>3
    <2> QED BY <2>2, <2>4, <2>5, OnGrid
  <1>6. ASSUME NEW t \in Tasks PROVE grid'[t] \in Int
    <2>1. CASE Setup[t].phased /\ period[t] # {}
      BY <1>5, <2>1
    <2>2. CASE ~(Setup[t].phased /\ period[t] # {})
      <3>1. grid'[t] = 0
        BY <1>g, <2>2
      <3> QED BY <3>1
    <2> QED BY <2>1, <2>2
  <1>7. /\ due' \in [Tasks -> SUBSET Int] /\ hint' \in [Tasks -> SUBSET Int]
        /\ since' \in [Tasks -> Nat] /\ grid' \in [Tasks -> Int]
    <2>1. /\ due' = [t \in Tasks |-> due'[t]] /\ hint' = [t \in Tasks |-> hint'[t]]
          /\ since' = [t \in Tasks |-> since'[t]] /\ grid' = [t \in Tasks |-> grid'[t]]
      BY DEF Elapse
    <2>2. \A t \in Tasks : due'[t] \in SUBSET Int /\ hint'[t] \in SUBSET Int
      BY <1>4
    <2> QED BY <1>3, <1>6, <2>1, <2>2
  <1>8. ASSUME NEW t \in Tasks PROVE Sound(t)'
    <2>0. Sound(t)
      BY DEF Times
    <2>1. \A d, e \in due'[t] : d = e
      <3> SUFFICES ASSUME NEW d \in due'[t], NEW e \in due'[t] PROVE d = e
        OBVIOUS
      <3>1. d \in Int /\ e \in Int /\ d + ms \in due[t] /\ e + ms \in due[t]
        BY <1>4
      <3>2. d + ms = e + ms
        BY <2>0, <3>1 DEF Sound
      <3> QED BY <3>1, <3>2
    <2>2. /\ \A p, q \in period'[t] : p = q
          /\ \A p \in period'[t] : p # 0 /\ p < LongAgo'
      BY <1>0, <1>t, <2>0 DEF Sound
    <2>3. /\ Setup[t].service /\ ~Gated(t) => due'[t] = {}
          /\ hint'[t] # {} => Setup[t].service /\ ~Gated(t)
          /\ Gated(t)' = Gated(t)
      <3>1. due[t] = {} => due'[t] = {}
        BY <1>d
      <3>2. hint[t] = {} => hint'[t] = {}
        BY <1>h
      <3>3. Gated(t)' = Gated(t)
        BY <1>0 DEF Gated
      <3> QED BY <2>0, <3>1, <3>2, <3>3 DEF Sound
    <2>4. ASSUME Setup[t].phased PROVE Aligned(t)'
      <3> SUFFICES ASSUME NEW p \in period[t], NEW e \in due'[t]
                   PROVE  (e + grid'[t]) % p = 0
        BY <1>t DEF Aligned
      <3>1. /\ p \in Nat \ {0} /\ grid'[t] = (grid[t] + ms) % p /\ e + ms \in due[t] /\ e \in Int
            /\ grid[t] \in Int /\ grid'[t] \in Int
        BY <1>t, <1>4, <1>5, <1>6, <2>4
      <3>2. ((e + ms) + grid[t]) % p = 0
        BY <2>0, <2>4, <3>1 DEF Sound, Aligned
      <3>3. PICK k \in Int : (e + ms) + grid[t] = k * p
        <4> DEFINE x == (e + ms) + grid[t]
        <4>1. x \in Int
          BY <3>1
        <4>2. x % p = 0
          BY <3>2
        <4> HIDE DEF x
        <4>3. \E k \in Int : x = k * p
          BY <3>1, <4>1, <4>2, OnGrid
        <4> QED BY <4>3 DEF x
      <3>4. PICK j \in Int : grid'[t] = (grid[t] + ms) + j * p
        <4> DEFINE x == grid[t] + ms
        <4>1. x \in Int
          BY <3>1
        <4> HIDE DEF x
        <4>2. \E j \in Int : x % p = x + j * p
          BY <3>1, <4>1, OnGrid
        <4>3. grid'[t] = x % p
          BY <3>1 DEF x
        <4>4. \E j \in Int : grid'[t] = x + j * p
          BY <4>2, <4>3
        <4> QED BY <4>4 DEF x
      <3>5. e + grid'[t] = (k + j) * p /\ k + j \in Int /\ e + grid'[t] \in Int
        BY <3>1, <3>3, <3>4
      <3> HIDE <3>3, <3>4
      <3> QED BY <3>1, <3>5, OnGrid
    <2>5. ASSUME ~Setup[t].phased PROVE Spaced(t)'
      <3> SUFFICES ASSUME NEW p \in period[t], NEW e \in due'[t]
                   PROVE  /\ since'[t] >= p \/ since'[t] + e >= p
                          /\ InBatch(t)' => busy' + e >= p
        BY <1>t DEF Spaced
      <3>1. e + ms \in due[t] /\ e \in Int /\ p \in Nat /\ p < LongAgo
        BY <1>t, <1>4, <2>0 DEF Sound
      <3>2. /\ since[t] >= p \/ since[t] + (e + ms) >= p
            /\ InBatch(t) => busy + (e + ms) >= p
        BY <2>0, <2>5, <3>1 DEF Sound, Spaced
      <3>3. busy \in Nat
        BY DEF Times
      <3>4. ASSUME InBatch(t)' PROVE busy' + e >= p
        <4>1. InBatch(t) /\ busy' = busy + ms
          BY <3>4
        <4>2. busy + (e + ms) >= p
          BY <3>2, <4>1
        <4> QED BY <3>1, <3>3, <4>1, <4>2
      <3>5. since'[t] >= p \/ since'[t] + e >= p
        <4>1. since[t] \in Nat /\ since'[t] \in Nat
              /\ (since'[t] = since[t] + ms \/ since'[t] = LongAgo)
          BY <1>t, <1>3
        <4> QED BY <1>1, <3>1, <3>2, <4>1
      <3> QED BY <3>4, <3>5
    <2>6. since'[t] >= busy'
      BY <1>3
    <2> QED BY <1>0, <2>1, <2>2, <2>3, <2>4, <2>5, <2>6 DEF Sound
  <1> QED BY <1>4, <1>7, <1>8 DEF Times

\* One task gets this schedule, and it is a sound one.
Retimed(t, D, H, P, S, G) ==
    /\ D \in SUBSET Int /\ due' = [due EXCEPT ![t] = D]
    /\ H \in SUBSET Int /\ hint' = [hint EXCEPT ![t] = H]
    /\ P \in SUBSET Nat /\ period' = [period EXCEPT ![t] = P]
    /\ S \in Nat /\ since' = [since EXCEPT ![t] = S]
    /\ G \in Int /\ grid' = [grid EXCEPT ![t] = G]
    /\ \A d, e \in D : d = e
    /\ \A p, q \in P : p = q
    /\ \A p \in P : p # 0 /\ p < LongAgo
    /\ Setup[t].service /\ ~Gated(t) => D = {}
    /\ H # {} => Setup[t].service /\ ~Gated(t)
    /\ S >= busy
    /\ \A p \in P, d \in D :
          IF Setup[t].phased THEN (d + G) % p = 0
          ELSE (S >= p \/ S + d >= p) /\ (InBatch(t)' => busy + d >= p)

\* The other tasks' times stay sound.
LEMMA OneTask ==
    ASSUME Shape, Times, program' = program, NEW t \in Tasks,
           NEW D, NEW H, NEW P, NEW S, NEW G, Retimed(t, D, H, P, S, G),
           busy' = busy, lateBy' = lateBy,
           \A u \in Tasks : u # t /\ InBatch(u)' => InBatch(u)
    PROVE  /\ Times'
           /\ due'[t] = D /\ hint'[t] = H
           /\ \A u \in Tasks : u # t => due'[u] = due[u] /\ hint'[u] = hint[u]
  <1>0. program \in Programs /\ Setup' = Setup /\ LongAgo' = LongAgo
    BY DEF Shape, Setup, LongAgo
  <1>1. /\ due'[t] = D /\ hint'[t] = H /\ period'[t] = P /\ since'[t] = S /\ grid'[t] = G
        /\ \A u \in Tasks : u # t =>
              /\ due'[u] = due[u] /\ hint'[u] = hint[u] /\ period'[u] = period[u]
              /\ since'[u] = since[u] /\ grid'[u] = grid[u]
    BY DEF Times, Retimed
  <1>2. /\ due' \in [Tasks -> SUBSET Int] /\ hint' \in [Tasks -> SUBSET Int]
        /\ period' \in [Tasks -> SUBSET Nat]
        /\ since' \in [Tasks -> Nat] /\ grid' \in [Tasks -> Int]
        /\ busy' \in 0 .. MaxBusy /\ lateBy' \in Nat
    BY DEF Times, Retimed
  <1>3. Sound(t)'
    <2>1. Setup[t].phased => Aligned(t)'
      <3> SUFFICES ASSUME Setup[t].phased, NEW p \in P, NEW d \in D
                   PROVE  (d + grid'[t]) % p = 0
        BY <1>1 DEF Aligned
      <3>1. (d + G) % p = 0
        BY DEF Retimed
      <3>2. grid'[t] = G
        BY <1>1
      <3> QED BY <3>1, <3>2, Zenon
    <2>2. ~Setup[t].phased => Spaced(t)'
      BY <1>1 DEF Spaced, Retimed
    <2>3. Gated(t)' = Gated(t)
      BY <1>0 DEF Gated
    <2>4. /\ \A d, e \in D : d = e
          /\ \A p, q \in P : p = q
          /\ \A p \in P : p # 0 /\ p < LongAgo
          /\ Setup[t].service /\ ~Gated(t) => D = {}
          /\ H # {} => Setup[t].service /\ ~Gated(t)
          /\ S >= busy
      BY Zenon DEF Retimed
    <2>5. /\ \A d, e \in due'[t] : d = e
          /\ \A p, q \in period'[t] : p = q
          /\ \A p \in period'[t] : p # 0 /\ p < LongAgo'
          /\ Setup'[t].service /\ ~Gated(t)' => due'[t] = {}
          /\ hint'[t] # {} => Setup'[t].service /\ ~Gated(t)'
          /\ since'[t] >= busy'
      BY <1>0, <1>1, <2>3, <2>4
    <2> QED BY <1>0, <2>1, <2>2, <2>5, Zenon DEF Sound
  <1>4. ASSUME NEW u \in Tasks, u # t PROVE Sound(u)'
    <2>0. Sound(u)
      BY DEF Times
    <2>1. Setup[u].phased => Aligned(u)'
      BY <1>1, <1>4, <2>0 DEF Aligned, Sound
    <2>2. ~Setup[u].phased => Spaced(u)'
      BY <1>1, <1>4, <2>0 DEF Spaced, Sound
    <2> QED BY <1>0, <1>1, <1>4, <2>0, <2>1, <2>2 DEF Sound, Gated
  <1> QED BY <1>1, <1>2, <1>3, <1>4 DEF Times

\* No schedule changes.
LEMMA SameTimes ==
    ASSUME Shape, Times, program' = program,
           due' = due, hint' = hint, period' = period, since' = since, grid' = grid,
           busy' \in {0, busy}, lateBy' \in Nat,
           \A u \in Tasks : InBatch(u)' => InBatch(u) /\ busy' = busy
    PROVE  Times'
  <1>0. program \in Programs /\ Setup' = Setup /\ LongAgo' = LongAgo
    BY DEF Shape, Setup, LongAgo
  <1>1. busy' \in 0 .. MaxBusy /\ busy' <= busy /\ busy \in Nat
    <2>1. MaxBusy \in Nat
      BY RunnerAssumption
    <2>2. busy \in 0 .. MaxBusy
      BY DEF Times
    <2> QED BY <2>1, <2>2
  <1>4. ASSUME NEW u \in Tasks PROVE Sound(u)'
    <2>0. Sound(u) /\ since[u] \in Nat
      BY DEF Times
    <2>1. Setup[u].phased => Aligned(u)'
      BY <2>0 DEF Aligned, Sound
    <2>2. ~Setup[u].phased => Spaced(u)'
      BY <2>0 DEF Spaced, Sound
    <2>3. since'[u] >= busy'
      BY <1>1, <2>0 DEF Sound
    <2> QED BY <1>0, <2>0, <2>1, <2>2, <2>3 DEF Sound, Gated
  <1> QED BY <1>1, <1>4 DEF Times

\* The tasks on the list.
LEMMA Enlisted ==
    ASSUME Shape
    PROVE  /\ Registered \subseteq Tasks
           /\ \A t : t \in Registered <=> \E i \in DOMAIN entries : entries[i] = t
  BY DEF Shape, Registered, ToSet

\* Nothing is scheduled at first.
LEMMA TInvInit ==
    Init => TInv
  <1> SUFFICES ASSUME Init PROVE TInv
    OBVIOUS
  <1>1. MaxBusy \in Nat /\ LongAgo \in Nat /\ LongAgo > MaxBusy
    BY Accepted DEF Init
  <1>2. /\ due = [t \in Tasks |-> {}] /\ hint = [t \in Tasks |-> {}]
        /\ period = [t \in Tasks |-> {}] /\ grid = [t \in Tasks |-> 0]
        /\ since = [t \in Tasks |-> LongAgo] /\ busy = 0 /\ lateBy = 0
        /\ pc = "tick" /\ entries = <<>>
    BY DEF Init
  <1>3. \A t \in Tasks : Sound(t)
    <2> SUFFICES ASSUME NEW t \in Tasks PROVE Sound(t)
      OBVIOUS
    <2>1. Aligned(t) /\ Spaced(t)
      BY <1>2 DEF Aligned, Spaced
    <2> QED BY <1>1, <1>2, <2>1 DEF Sound
  <1>4. Times
    BY <1>1, <1>2, <1>3 DEF Times
  <1>5. Registered = {}
    BY <1>2 DEF Registered, ToSet
  <1> QED BY <1>2, <1>4, <1>5 DEF TInv, Clock

\* Outside the checks, one task's schedule changes and is not overdue.
LEMMA OneKept ==
    ASSUME Shape, Clock, busy \in Nat, lateBy \in Nat,
           pc \in {"tick", "handler", "wait"}, pc' = pc \/ (pc = "handler" /\ pc' = "fire"),
           busy' = busy, lateBy' = lateBy, NEW t \in Tasks,
           \A u \in Registered' : u = t \/ u \in Registered,
           \A u \in Tasks : u # t =>
              due'[u] = due[u] /\ hint'[u] = hint[u] /\ (InBatch(u) => InBatch(u)'),
           t \in Registered' => \A d \in due'[t] \cup hint'[t] : d \in Int /\ d + busy >= 0
    PROVE  Clock'
  <1>1. CASE pc = "tick"
    <2>1. busy = 0
      BY <1>1 DEF Clock
    <2>2. ASSUME NEW u \in Registered', NEW d \in due'[u] \cup hint'[u] PROVE d >= -lateBy
      <3>1. CASE u = t
        <4>1. d \in Int /\ d + 0 >= 0
          BY <2>1, <2>2, <3>1
        <4> QED BY <4>1
      <3>2. CASE u # t
        <4>1. u \in Registered /\ u \in Tasks
          BY <2>2, <3>2, Enlisted
        <4>2. d \in due[u] \cup hint[u]
          BY <2>2, <3>2, <4>1
        <4> QED BY <1>1, <4>1, <4>2 DEF Clock
      <3> QED BY <3>1, <3>2
    <2>3. pc' = "tick"
      BY <1>1
    <2> QED BY <2>1, <2>2, <2>3 DEF Clock
  <1>2. CASE pc \in {"handler", "wait"}
    <2>1. ASSUME NEW u \in Registered' PROVE Kept(u)'
      <3>1. CASE u = t
        BY <2>1, <3>1 DEF Kept
      <3>2. CASE u # t
        <4>1. u \in Registered /\ u \in Tasks
          BY <2>1, <3>2, Enlisted
        <4>2. Kept(u)
          BY <1>2, <4>1 DEF Clock
        <4>3. due'[u] = due[u] /\ hint'[u] = hint[u] /\ (InBatch(u) => InBatch(u)')
          BY <3>2, <4>1
        <4> QED BY <4>2, <4>3 DEF Kept
      <3> QED BY <3>1, <3>2
    <2>2. pc' \in {"handler", "wait", "fire"}
      BY <1>2
    <2> QED BY <2>1, <2>2 DEF Clock
  <1> QED BY <1>1, <1>2

\* The schedule after the gate lies ahead, a period on or on the grid.
LEMMA NextIsAhead ==
    ASSUME Shape, Times, NEW t \in Tasks, Ready(t)
    PROVE  /\ NextDue(t) \in SUBSET Int
           /\ \A d \in NextDue(t) : d > 0
           /\ \A d, e \in NextDue(t) : d = e
           /\ due[t] = {} => NextDue(t) = {}
           /\ \A p \in period[t], d \in NextDue(t) :
                 IF Setup[t].phased THEN (d + grid[t]) % p = 0 ELSE d >= p
  <1>1. CASE due[t] = {} \/ period[t] = {}
    <2>1. NextDue(t) = {}
      BY <1>1 DEF NextDue
    <2> QED BY <2>1
  <1>2. CASE due[t] # {} /\ period[t] # {}
    <2>0. Sound(t) /\ due[t] \in SUBSET Int /\ period[t] \in SUBSET Nat /\ grid[t] \in Int
      BY DEF Times
    <2>1. PICK d \in due[t], p \in period[t] : TRUE
      BY <1>2
    <2>2. d \in Int /\ d <= 0 /\ p \in Nat \ {0}
      BY <2>0, <2>1 DEF Ready, Sound
    <2>3. (\A e \in due[t] : e = d) /\ (\A q \in period[t] : q = p)
      BY <2>0, <2>1 DEF Sound
    <2>4. The(due[t]) = d /\ The(period[t]) = p
      BY <2>1, <2>3, TheOne
    <2>5. CASE Setup[t].phased
      <3> DEFINE q == (-d) \div p
                 n == d + (q + 1) * p
      <3>1. NextDue(t) = {n}
        BY <1>2, <2>4, <2>5 DEF NextDue
      <3>2. q \in Int /\ -d < (q + 1) * p
        <4> DEFINE x == -d
        <4>1. x \in Int
          BY <2>2
        <4> HIDE DEF x
        <4>2. x \div p \in Int /\ x < (x \div p + 1) * p
          BY <2>2, <4>1, OnGrid
        <4> QED BY <4>2 DEF x
      <3> HIDE DEF q
      <3>3. (q + 1) * p \in Int /\ n \in Int
        BY <2>2, <3>2
      <3>4. n > 0
        BY <2>2, <3>2, <3>3
      <3>5. (n + grid[t]) % p = 0
        <4> DEFINE x == d + grid[t]
                   y == n + grid[t]
        <4>1. x % p = 0 /\ x \in Int
          BY <2>0, <2>1, <2>2, <2>5 DEF Sound, Aligned
        <4>2. PICK k \in Int : x = k * p
          <5> HIDE DEF x
          <5> QED BY <2>2, <4>1, OnGrid
        <4>3. y = (k + (q + 1)) * p /\ k + (q + 1) \in Int /\ y \in Int
          <5>1. y = x + (q + 1) * p
            BY <2>0, <2>2, <3>2, <3>3
          <5>2. k + (q + 1) \in Int /\ k * p + (q + 1) * p = (k + (q + 1)) * p
            BY <2>2, <3>2, <4>2
          <5>3. y \in Int
            BY <2>0, <3>3
          <5> HIDE DEF x, y
          <5> QED BY <4>2, <5>1, <5>2, <5>3
        <4>4. y % p = 0
          <5> HIDE DEF y
          <5> HIDE <4>2
          <5> QED BY <2>2, <4>3, OnGrid
        <4> QED BY <4>4
      <3> HIDE DEF n
      <3>6. \A r \in period[t] : r = p
        BY <2>3
      <3> QED BY <1>2, <2>5, <3>1, <3>3, <3>4, <3>5, <3>6
    <2>6. CASE ~Setup[t].phased
      <3>1. NextDue(t) = {p}
        BY <1>2, <2>4, <2>6 DEF NextDue
      <3> QED BY <1>2, <2>2, <2>3, <2>6, <3>1
    <2> QED BY <2>5, <2>6
  <1> QED BY <1>1, <1>2

\* What the proofs read of the times.
LEMMA Typed ==
    ASSUME Times
    PROVE  /\ busy \in Nat /\ busy <= MaxBusy /\ MaxBusy \in Nat /\ lateBy \in Nat
           /\ \A t \in Tasks :
                /\ Sound(t)
                /\ due[t] \in SUBSET Int /\ hint[t] \in SUBSET Int /\ period[t] \in SUBSET Nat
                /\ since[t] \in Nat /\ grid[t] \in Int
                /\ due = [due EXCEPT ![t] = due[t]] /\ hint = [hint EXCEPT ![t] = hint[t]]
                /\ period = [period EXCEPT ![t] = period[t]]
                /\ since = [since EXCEPT ![t] = since[t]] /\ grid = [grid EXCEPT ![t] = grid[t]]
                /\ \A p \in period[t], d \in due[t] :
                      IF Setup[t].phased THEN (d + grid[t]) % p = 0
                      ELSE /\ since[t] >= p \/ since[t] + d >= p
                           /\ InBatch(t) => busy + d >= p
  <1>1. MaxBusy \in Nat
    BY RunnerAssumption
  <1>2. busy \in Nat /\ busy <= MaxBusy
    BY <1>1 DEF Times
  <1> SUFFICES ASSUME NEW t \in Tasks
               PROVE  /\ Sound(t)
                /\ due[t] \in SUBSET Int /\ hint[t] \in SUBSET Int /\ period[t] \in SUBSET Nat
                /\ since[t] \in Nat /\ grid[t] \in Int
                /\ due = [due EXCEPT ![t] = due[t]] /\ hint = [hint EXCEPT ![t] = hint[t]]
                /\ period = [period EXCEPT ![t] = period[t]]
                /\ since = [since EXCEPT ![t] = since[t]] /\ grid = [grid EXCEPT ![t] = grid[t]]
                /\ \A p \in period[t], d \in due[t] :
                      IF Setup[t].phased THEN (d + grid[t]) % p = 0
                      ELSE /\ since[t] >= p \/ since[t] + d >= p
                           /\ InBatch(t) => busy + d >= p
    BY <1>1, <1>2 DEF Times
  <1>3. Sound(t)
    BY DEF Times
  <1>4. \A p \in period[t], d \in due[t] :
                      IF Setup[t].phased THEN (d + grid[t]) % p = 0
                      ELSE /\ since[t] >= p \/ since[t] + d >= p
                           /\ InBatch(t) => busy + d >= p
    BY <1>3, Zenon DEF Sound, Aligned, Spaced
  <1>5. /\ due = [due EXCEPT ![t] = due[t]] /\ hint = [hint EXCEPT ![t] = hint[t]]
        /\ period = [period EXCEPT ![t] = period[t]]
        /\ since = [since EXCEPT ![t] = since[t]] /\ grid = [grid EXCEPT ![t] = grid[t]]
    BY DEF Times
  <1>6. /\ due[t] \in SUBSET Int /\ hint[t] \in SUBSET Int /\ period[t] \in SUBSET Nat
        /\ since[t] \in Nat /\ grid[t] \in Int
    BY DEF Times
  <1> QED BY <1>3, <1>4, <1>5, <1>6

\* A registration starts a schedule of its own.
LEMMA AddTimes ==
    ASSUME QInv, TInv, NEW t \in Tasks, Add(t), program' = program
    PROVE  TInv'
  <1>0. Shape /\ Times /\ Clock /\ program \in Programs
    BY DEF QInv, TInv, Shape
  <1> DEFINE D == FirstDue(t)
             P == Setup[t].period
             G == IF Setup[t].phased THEN (-The(D)) % The(P) ELSE 0
  <1>1. /\ Setup[t].phased \in BOOLEAN
        /\ P \in SUBSET Nat /\ Setup[t].start \in SUBSET Nat
        /\ \A x, y \in P : x = y
        /\ \A x, y \in Setup[t].start : x = y
        /\ 0 \notin P
        /\ \A x \in P : x < LongAgo
        /\ Setup[t].phased => P # {}
        /\ LongAgo \in Nat /\ LongAgo > MaxBusy /\ MaxBusy \in Nat
    BY <1>0, Accepted
  <1>2. D \in SUBSET Nat /\ (\A d, e \in D : d = e) /\ (P # {} => D # {})
        /\ (~Gated(t) => D = {})
    BY <1>1 DEF FirstDue, Gated
  <1>3. /\ entries' = Append(entries, t)
        /\ period' = [period EXCEPT ![t] = P]
        /\ due' = [due EXCEPT ![t] = D]
        /\ hint' = [hint EXCEPT ![t] = {}]
        /\ since' = [since EXCEPT ![t] = LongAgo]
        /\ busy' = busy /\ lateBy' = lateBy /\ pending' = pending /\ pc' = pc
        /\ pc \in {"tick", "handler", "wait"}
        /\ ~InBatch(t)
    BY DEF Add, CanCall, InBatch
  <1>4. grid' = [grid EXCEPT ![t] = G]
    <2>1. period'[t] = P
      BY <1>0, <1>3 DEF Times
    <2>2. grid' = [grid EXCEPT ![t] =
                      IF Setup[t].phased THEN (-The(FirstDue(t))) % The(period'[t]) ELSE 0]
      BY DEF Add
    <2> QED BY <2>1, <2>2, Zenon
  <1>5. G \in Int /\ (Setup[t].phased => \A p \in P, d \in D : (d + G) % p = 0)
    <2>1. CASE ~Setup[t].phased
      BY <2>1
    <2>2. CASE Setup[t].phased
      <3>1. PICK p \in P, d \in D : TRUE
        BY <1>1, <1>2, <2>2
      <3>2. (\A q \in P : q = p) /\ (\A e \in D : e = d) /\ p \in Nat \ {0} /\ d \in Nat
        BY <1>1, <1>2, <3>1
      <3>3. The(D) = d /\ The(P) = p
        BY <3>1, <3>2, TheOne
      <3> DEFINE x == -d
      <3>4. G = x % p
        BY <2>2, <3>3
      <3>5. x \in Int /\ d + x = 0
        BY <3>2
      <3> HIDE DEF G, x, D, P
      <3>6. PICK k \in Int : x % p = x + k * p
        BY <3>2, <3>5, OnGrid
      <3>7. d + G = k * p /\ d + G \in Int /\ G \in Int
        BY <3>2, <3>4, <3>5, <3>6
      <3>8. (d + G) % p = 0
        <4> DEFINE y == d + G
        <4>1. y = k * p /\ y \in Int
          BY <3>7
        <4> HIDE DEF y
        <4>2. y % p = 0
          BY <3>2, <4>1, OnGrid
        <4> QED BY <4>2 DEF y
      <3> QED BY <3>2, <3>7, <3>8
    <2> QED BY <1>1, <2>1, <2>2
  <1> HIDE DEF D, P, G
  <1>6. busy \in Nat /\ busy <= MaxBusy /\ lateBy \in Nat
    BY <1>0, Typed
  <1>7. \A u \in Tasks : InBatch(u)' = InBatch(u)
    BY <1>3 DEF InBatch
  <1>8. LongAgo >= busy /\ (\A p \in P : LongAgo >= p)
    BY <1>1, <1>6
  <1>9. D \in SUBSET Int /\ {} \in SUBSET Int
    BY <1>2
  <1>10. /\ Times'
         /\ due'[t] = D /\ hint'[t] = {}
         /\ \A u \in Tasks : u # t => due'[u] = due[u] /\ hint'[u] = hint[u]
    <2>1. \A p \in P, d \in D :
             IF Setup[t].phased THEN (d + G) % p = 0
             ELSE /\ LongAgo >= p \/ LongAgo + d >= p
                  /\ InBatch(t)' => busy + d >= p
      BY <1>3, <1>5, <1>7, <1>8
    <2>2. \A p \in P : p # 0 /\ p < LongAgo
      BY <1>1 DEF P
    <2>3. \A p, q \in P : p = q
      BY <1>1 DEF P
    <2>4. P \in SUBSET Nat
      BY <1>1 DEF P
    <2>5. Retimed(t, D, {}, P, LongAgo, G)
      BY <1>1, <1>2, <1>3, <1>4, <1>5, <1>8, <1>9, <2>1, <2>2, <2>3, <2>4 DEF Retimed
    <2> QED BY <1>0, <1>3, <1>7, <2>5, OneTask
  <1>11. \A u \in Registered' : u = t \/ u \in Registered
    <2>1. Registered' = {entries'[i] : i \in DOMAIN entries'}
      BY DEF Registered, ToSet
    <2>2. entries \in Seq(Tasks)
      BY <1>0 DEF Shape
    <2>3. \A i \in DOMAIN entries' :
             entries'[i] = t \/ (i \in DOMAIN entries /\ entries'[i] = entries[i])
      BY <1>3, <2>2
    <2> QED BY <2>1, <2>3 DEF Registered, ToSet
  <1>12. \A d \in due'[t] \cup hint'[t] : d \in Int /\ d + busy >= 0
    <2>1. due'[t] \cup hint'[t] = D
      BY <1>10
    <2>2. \A d \in D : d \in Int /\ d + busy >= 0
      BY <1>2, <1>6
    <2> QED BY <2>1, <2>2
  <1>13. Clock'
    BY <1>0, <1>3, <1>6, <1>7, <1>10, <1>11, <1>12, OneKept
  <1> QED BY <1>10, <1>13 DEF TInv

\* Taking a handle off the list clears what is left of its schedule.
LEMMA UnlistTimes ==
    ASSUME Shape, Listed, TInv, NEW t \in Tasks, Unlist(t), program' = program,
           pc \in {"tick", "handler", "wait"}, pc' = pc \/ (pc = "handler" /\ pc' = "fire"),
           period' = period, since' = since, grid' = grid, busy' = busy, lateBy' = lateBy,
           \A u \in Tasks : InBatch(u)' => InBatch(u),
           \A u \in Tasks : u # t /\ InBatch(u) => InBatch(u)'
    PROVE  TInv'
  <1>0. Times /\ Clock
    BY DEF TInv
  <1>1. /\ due' = [due EXCEPT ![t] = {}] /\ hint' = [hint EXCEPT ![t] = {}]
        /\ \A i \in DOMAIN entries' : \E j \in DOMAIN entries : entries'[i] = entries[j]
    <2>1. due' = [due EXCEPT ![t] = {}] /\ hint' = [hint EXCEPT ![t] = {}]
      BY DEF Unlist
    <2>2. \A i \in DOMAIN entries' : \E j \in DOMAIN entries : entries'[i] = entries[j]
      BY UnlistKeeps
    <2> QED BY <2>1, <2>2
  <1>2. \A u \in Registered' : u = t \/ u \in Registered
    BY <1>1 DEF Registered, ToSet
  <1>3. /\ busy \in Nat /\ lateBy \in Nat /\ Sound(t) /\ {} \in SUBSET Int
        /\ period[t] \in SUBSET Nat /\ since[t] \in Nat /\ grid[t] \in Int
        /\ period' = [period EXCEPT ![t] = period[t]]
        /\ since' = [since EXCEPT ![t] = since[t]] /\ grid' = [grid EXCEPT ![t] = grid[t]]
    BY <1>0, Typed
  <1>4. /\ \A p, q \in period[t] : p = q
        /\ \A p \in period[t] : p # 0 /\ p < LongAgo
        /\ since[t] >= busy
    BY <1>3 DEF Sound
  <1>5. /\ Times'
        /\ due'[t] = {} /\ hint'[t] = {}
        /\ \A u \in Tasks : u # t => due'[u] = due[u] /\ hint'[u] = hint[u]
    <2>1. Retimed(t, {}, {}, period[t], since[t], grid[t])
      BY <1>1, <1>3, <1>4 DEF Retimed
    <2> QED BY <1>0, <2>1, OneTask
  <1>6. Clock'
    BY <1>0, <1>2, <1>3, <1>5, OneKept
  <1> QED BY <1>5, <1>6 DEF TInv

\* A period set from a fresh clock read, or from the tick's timestamp.
LEMMA SetPeriodTimes ==
    ASSUME QInv, TInv, NEW t \in Tasks, NEW P \in Periods, NEW anchor \in {0, busy},
           SetPeriod(t, P, anchor), program' = program
    PROVE  TInv'
  <1>0. Shape /\ Times /\ Clock /\ program \in Programs
    BY DEF QInv, TInv, Shape
  <1> DEFINE D == {x - anchor : x \in P}
             G == IF Setup[t].phased /\ P # {} THEN anchor % The(P) ELSE 0
  <1>1. /\ P \in SUBSET Nat /\ (\A x, y \in P : x = y) /\ 0 \notin P
        /\ \A x \in P : x < LongAgo
        /\ Setup[t].phased \in BOOLEAN
    BY <1>0, Accepted
  <1>2. /\ busy \in Nat /\ lateBy \in Nat /\ Sound(t)
        /\ hint[t] \in SUBSET Int /\ since[t] \in Nat /\ since[t] >= busy
        /\ hint' = [hint EXCEPT ![t] = hint[t]]
        /\ since' = [since EXCEPT ![t] = since[t]]
    <2>1. Sound(t) /\ busy \in Nat /\ lateBy \in Nat /\ hint[t] \in SUBSET Int /\ since[t] \in Nat
          /\ hint = [hint EXCEPT ![t] = hint[t]] /\ since = [since EXCEPT ![t] = since[t]]
      BY <1>0, Typed
    <2>2. hint' = hint /\ since' = since
      BY DEF SetPeriod
    <2>3. since[t] >= busy
      BY <2>1 DEF Sound
    <2> QED BY <2>1, <2>2, <2>3
  <1>3. anchor \in Nat /\ anchor <= busy
    BY <1>2
  <1>4. /\ entries' = entries
        /\ period' = [period EXCEPT ![t] = P]
        /\ due' = [due EXCEPT ![t] = D]
        /\ busy' = busy /\ lateBy' = lateBy /\ pending' = pending /\ pc' = pc
        /\ pc \in {"tick", "handler", "wait"}
        /\ Setup[t].service => Gated(t)
    BY DEF SetPeriod, CanCall
  <1>5. grid' = [grid EXCEPT ![t] = G]
    BY DEF SetPeriod
  <1>6. \A d \in D : d \in Int /\ d + busy >= 0 /\ d + anchor \in P /\ \A p \in P : busy + d >= p
    <2> SUFFICES ASSUME NEW d \in D
                 PROVE  d \in Int /\ d + busy >= 0 /\ d + anchor \in P /\ \A p \in P : busy + d >= p
      OBVIOUS
    <2>1. PICK x \in P : d = x - anchor
      OBVIOUS
    <2>2. x \in Nat /\ \A p \in P : p = x
      BY <1>1
    <2>3. d \in Int /\ d + anchor = x /\ busy + d >= x /\ d + busy >= 0
      BY <1>2, <1>3, <2>1, <2>2
    <2> QED BY <2>2, <2>3
  <1>7. \A d, e \in D : d = e
    BY <1>1
  <1>8. G \in Int /\ (Setup[t].phased => \A p \in P, d \in D : (d + G) % p = 0)
    <2>1. CASE ~(Setup[t].phased /\ P # {})
      BY <2>1
    <2>2. CASE Setup[t].phased /\ P # {}
      <3>1. PICK p \in P : TRUE
        BY <2>2
      <3>2. (\A q \in P : q = p) /\ p \in Nat \ {0}
        BY <1>1, <3>1
      <3>3. The(P) = p
        BY <3>1, <3>2, TheOne
      <3>4. G = anchor % p
        BY <2>2, <3>3
      <3>5. anchor \in Int
        BY <1>3
      <3> HIDE DEF G, D
      <3>6. PICK k \in Int : anchor % p = anchor + k * p
        BY <3>2, <3>5, OnGrid
      <3>7. G \in Int
        BY <3>2, <3>4, <3>5, <3>6
      <3>8. ASSUME NEW d \in D PROVE (d + G) % p = 0
        <4> DEFINE y == d + G
        <4>1. d \in Int /\ d + anchor = p
          BY <1>6, <3>2
        <4>2. y = (k + 1) * p /\ y \in Int /\ k + 1 \in Int
          <5>1. y = p + k * p /\ y \in Int
            BY <3>2, <3>4, <3>5, <3>6, <3>7, <4>1
          <5> HIDE DEF y
          <5> QED BY <3>2, <3>6, <5>1
        <4> HIDE DEF y
        <4> HIDE <3>6
        <4>3. y % p = 0
          BY <3>2, <4>2, OnGrid
        <4> QED BY <4>3 DEF y
      <3> QED BY <3>2, <3>7, <3>8
    <2> QED BY <1>1, <2>1, <2>2
  <1> HIDE DEF D, G
  <1>9. \A u \in Tasks : InBatch(u)' = InBatch(u)
    BY <1>4 DEF InBatch
  <1>10. D \in SUBSET Int
    BY <1>6
  <1>11. hint[t] = {} \/ (Setup[t].service /\ ~Gated(t))
    BY <1>2 DEF Sound
  <1>12. \A p \in P, d \in D :
             IF Setup[t].phased THEN (d + G) % p = 0
             ELSE /\ since[t] >= p \/ since[t] + d >= p
                  /\ InBatch(t)' => busy + d >= p
    <2> SUFFICES ASSUME NEW p \in P, NEW d \in D, ~Setup[t].phased
                 PROVE  since[t] + d >= p /\ busy + d >= p
      BY <1>8
    <2>1. busy + d >= p /\ d \in Int /\ p \in Nat
      BY <1>1, <1>6
    <2> QED BY <1>2, <2>1
  <1>13. /\ Times'
         /\ due'[t] = D /\ hint'[t] = hint[t]
         /\ \A u \in Tasks : u # t => due'[u] = due[u] /\ hint'[u] = hint[u]
    <2>1. \A p \in P : p # 0 /\ p < LongAgo
      BY <1>1
    <2>2. Retimed(t, D, hint[t], P, since[t], G)
      BY <1>1, <1>2, <1>4, <1>5, <1>7, <1>8, <1>10, <1>11, <1>12, <2>1 DEF Retimed
    <2> QED BY <1>0, <1>4, <1>9, <2>2, OneTask
  <1>14. Registered' = Registered
    BY <1>4 DEF Registered
  <1>15. \A d \in due'[t] \cup hint'[t] : d \in Int /\ d + busy >= 0
    BY <1>4, <1>6, <1>11, <1>13
  <1>16. Clock'
    BY <1>0, <1>2, <1>4, <1>9, <1>13, <1>14, <1>15, OneKept
  <1> QED BY <1>13, <1>16 DEF TInv

\* A service that gates itself answers a deadline of its own.
LEMMA ArmTimes ==
    ASSUME QInv, TInv, NEW h \in {{}} \cup {{x} : x \in Hints}, Arm(h), program' = program
    PROVE  TInv'
  <1>0. Shape /\ Times /\ Clock /\ program \in Programs
    BY DEF QInv, TInv, Shape
  <1>1. PICK t \in Tasks : t = Head(pending)
    BY <1>0, HeadTail DEF Arm, Shape
  <1>2. /\ pc = "handler" /\ pc' = pc /\ entries' = entries /\ pending' = pending
        /\ Setup[t].service /\ ~Gated(t)
        /\ hint' = [hint EXCEPT ![t] = h]
        /\ due' = due /\ period' = period /\ since' = since /\ grid' = grid
        /\ busy' = busy /\ lateBy' = lateBy
    BY <1>1 DEF Arm, history
  <1>3. h \in SUBSET Nat
    BY <1>0, Accepted
  <1>4. /\ busy \in Nat /\ lateBy \in Nat /\ Sound(t)
        /\ due[t] \in SUBSET Int /\ period[t] \in SUBSET Nat
        /\ since[t] \in Nat /\ grid[t] \in Int
        /\ due' = [due EXCEPT ![t] = due[t]] /\ period' = [period EXCEPT ![t] = period[t]]
        /\ since' = [since EXCEPT ![t] = since[t]] /\ grid' = [grid EXCEPT ![t] = grid[t]]
    BY <1>0, <1>1, <1>2, Typed
  <1>5. /\ due[t] = {} /\ since[t] >= busy
        /\ \A p, q \in period[t] : p = q
        /\ \A p \in period[t] : p # 0 /\ p < LongAgo
    BY <1>2, <1>4 DEF Sound
  <1>6. Retimed(t, due[t], h, period[t], since[t], grid[t])
    <2>1. h \in SUBSET Int
      BY <1>3
    <2>2. \A d \in due[t] : FALSE
      BY <1>5
    <2> QED BY <1>2, <1>4, <1>5, <2>1, <2>2 DEF Retimed
  <1>7. \A u \in Tasks : InBatch(u)' = InBatch(u)
    BY <1>2 DEF InBatch
  <1>8. /\ Times'
        /\ due'[t] = due[t] /\ hint'[t] = h
        /\ \A u \in Tasks : u # t => due'[u] = due[u] /\ hint'[u] = hint[u]
    BY <1>0, <1>1, <1>2, <1>6, <1>7, OneTask
  <1>9. Registered' = Registered
    BY <1>2 DEF Registered
  <1>10. \A d \in due'[t] \cup hint'[t] : d \in Int /\ d + busy >= 0
    BY <1>3, <1>4, <1>5, <1>8
  <1>11. Clock'
    BY <1>0, <1>1, <1>2, <1>4, <1>7, <1>8, <1>9, <1>10, OneKept
  <1> QED BY <1>8, <1>11 DEF TInv

\* A service drops what has come when its handler is done.
LEMMA HandlerEndsTimes ==
    ASSUME QInv, TInv, HandlerEnds, program' = program
    PROVE  TInv'
  <1>0. Shape /\ Listed /\ Times /\ Clock
    BY DEF QInv, TInv
  <1>t. PICK t \in Tasks : t = Head(pending)
    BY <1>0, HeadTail DEF HandlerEnds, Shape
  <1> DEFINE H == {h \in hint[t] : h + busy > 0}
  <1>1. /\ pc = "handler" /\ pending \in Seq(Tasks) /\ pending # <<>>
        /\ pc' = "fire" /\ pending' = Tail(pending)
        /\ period' = period /\ since' = since /\ grid' = grid
        /\ busy' = busy /\ lateBy' = lateBy
        /\ Spent(t) => Unlist(t)
        /\ ~Spent(t) => entries' = entries /\ due' = due /\ hint' = [hint EXCEPT ![t] = H]
    BY <1>0, <1>t DEF HandlerEnds, Shape
  <1>2. /\ t \in Tasks /\ Tail(pending) \in Seq(Tasks)
        /\ 1 \in DOMAIN pending /\ t = pending[1]
        /\ Len(Tail(pending)) = Len(pending) - 1
        /\ \A i \in DOMAIN Tail(pending) :
              i + 1 \in DOMAIN pending /\ Tail(pending)[i] = pending[i + 1]
    BY <1>t, <1>1, HeadTail
  <1> HIDE DEF H
  <1>3. \A u \in Tasks : InBatch(u)' => InBatch(u)
    BY <1>1, <1>2 DEF InBatch
  <1>4. ASSUME NEW u \in Tasks, u # t, InBatch(u) PROVE InBatch(u)'
    <2>1. PICK i \in DOMAIN pending : pending[i] = u
      BY <1>4 DEF InBatch
    <2>2. i \in 1 .. Len(pending) /\ Len(pending) \in Nat /\ i # 1
      BY <1>1, <1>2, <1>4, <2>1
    <2>3. i - 1 \in DOMAIN Tail(pending) /\ (i - 1) + 1 = i
      BY <1>2, <2>2
    <2>4. Tail(pending)[i - 1] = u
      BY <1>2, <2>1, <2>3
    <2> QED BY <1>1, <2>3, <2>4 DEF InBatch
  <1>5. CASE Spent(t)
    BY <1>0, <1>1, <1>2, <1>3, <1>4, <1>5, UnlistTimes
  <1>6. CASE ~Spent(t)
    <2>1. /\ busy \in Nat /\ lateBy \in Nat /\ Sound(t)
          /\ due[t] \in SUBSET Int /\ period[t] \in SUBSET Nat /\ hint[t] \in SUBSET Int
          /\ since[t] \in Nat /\ grid[t] \in Int
          /\ due' = [due EXCEPT ![t] = due[t]] /\ period' = [period EXCEPT ![t] = period[t]]
          /\ since' = [since EXCEPT ![t] = since[t]] /\ grid' = [grid EXCEPT ![t] = grid[t]]
          /\ \A p \in period[t], d \in due[t] :
                IF Setup[t].phased THEN (d + grid[t]) % p = 0
                ELSE /\ since[t] >= p \/ since[t] + d >= p
                     /\ InBatch(t) => busy + d >= p
      BY <1>0, <1>1, <1>2, <1>6, Typed
    <2>2. H \in SUBSET Int /\ H \subseteq hint[t] /\ \A h \in H : h + busy >= 0
      <3>1. H \subseteq hint[t] /\ \A h \in H : h + busy > 0
        BY DEF H
      <3> QED BY <2>1, <3>1
    <2>3. /\ \A d, e \in due[t] : d = e
          /\ \A p, q \in period[t] : p = q
          /\ \A p \in period[t] : p # 0 /\ p < LongAgo
          /\ Setup[t].service /\ ~Gated(t) => due[t] = {}
          /\ H # {} => Setup[t].service /\ ~Gated(t)
          /\ since[t] >= busy
      BY <2>1, <2>2 DEF Sound
    <2>4. \A p \in period[t], d \in due[t] :
                IF Setup[t].phased THEN (d + grid[t]) % p = 0
                ELSE (since[t] >= p \/ since[t] + d >= p) /\ (InBatch(t)' => busy + d >= p)
      <3>1. InBatch(t)' => InBatch(t)
        BY <1>2, <1>3
      <3>2. \A p \in period[t], d \in due[t] :
                IF Setup[t].phased THEN (d + grid[t]) % p = 0
                ELSE /\ since[t] >= p \/ since[t] + d >= p
                     /\ InBatch(t) => busy + d >= p
        BY <2>1
      <3> QED BY <3>1, <3>2, Zenon
    <2>5. Retimed(t, due[t], H, period[t], since[t], grid[t])
      BY <1>1, <1>6, <2>1, <2>2, <2>3, <2>4 DEF Retimed
    <2>6. /\ Times'
          /\ due'[t] = due[t] /\ hint'[t] = H
          /\ \A u \in Tasks : u # t => due'[u] = due[u] /\ hint'[u] = hint[u]
      BY <1>0, <1>1, <1>2, <1>3, <2>5, OneTask
    <2>7. Registered' = Registered
      BY <1>1, <1>6 DEF Registered
    <2>8. t \in Registered' => \A d \in due'[t] \cup hint'[t] : d \in Int /\ d + busy >= 0
      <3> SUFFICES ASSUME t \in Registered, NEW d \in due[t] \cup H
                   PROVE  d \in Int /\ d + busy >= 0
        BY <2>6, <2>7
      <3>1. Kept(t)
        BY <1>0, <1>1 DEF Clock
      <3> QED BY <2>1, <2>2, <3>1 DEF Kept
    <2>9. Clock'
      BY <1>0, <1>1, <1>2, <1>4, <2>1, <2>6, <2>7, <2>8, OneKept
    <2> QED BY <2>6, <2>9 DEF TInv
  <1> QED BY <1>5, <1>6

\* The handlers' time passes.
LEMMA SpendTimes ==
    ASSUME QInv, TInv, NEW ms \in 1 .. MaxBusy, Spend(ms), program' = program
    PROVE  TInv'
  <1>0. Shape /\ Times /\ Clock /\ busy \in Nat /\ lateBy \in Nat /\ MaxBusy \in Nat
    BY Typed DEF QInv, TInv
  <1>1. /\ pc \in {"handler", "wait"} /\ busy + ms <= MaxBusy /\ Elapse(ms) /\ busy' = busy + ms
        /\ pc' = pc /\ entries' = entries /\ pending' = pending /\ period' = period
        /\ lateBy' = lateBy
    BY DEF Spend
  <1>2. \A u \in Tasks : InBatch(u)' = InBatch(u)
    BY <1>1 DEF InBatch
  <1>3. ms \in Nat /\ busy' \in 0 .. MaxBusy /\ busy' <= busy + ms
    BY <1>0, <1>1
  <1>4. /\ Times'
        /\ \A t \in Tasks : /\ \A d \in due'[t] : d + ms \in due[t] /\ d \in Int
                            /\ \A h \in hint'[t] : h + ms \in hint[t] /\ h \in Int
    BY <1>0, <1>1, <1>2, <1>3, ElapseKeeps
  <1>5. Registered' = Registered
    BY <1>1 DEF Registered
  <1>6. ASSUME NEW t \in Registered PROVE Kept(t)'
    <2>1. t \in Tasks /\ Kept(t)
      BY <1>0, <1>1, Enlisted DEF Clock
    <2>2. ASSUME NEW d \in due'[t] PROVE d + busy' >= 0
      <3>1. (d + ms) + busy >= 0 /\ d \in Int
        BY <1>4, <2>1 DEF Kept
      <3> QED BY <1>0, <1>1, <1>3, <3>1
    <2>3. ASSUME NEW h \in hint'[t]
          PROVE  h + busy' >= 0 \/ (InBatch(t)' /\ h + busy' >= -lateBy')
      <3>1. /\ (h + ms) + busy >= 0 \/ (InBatch(t) /\ (h + ms) + busy >= -lateBy)
            /\ h \in Int
        BY <1>4, <2>1 DEF Kept
      <3>2. h + busy' = (h + ms) + busy
        BY <1>0, <1>1, <1>3, <3>1
      <3> QED BY <1>1, <1>2, <2>1, <3>1, <3>2
    <2> QED BY <2>2, <2>3 DEF Kept
  <1>7. Clock'
    BY <1>1, <1>5, <1>6 DEF Clock
  <1> QED BY <1>4, <1>7 DEF TInv

\* The loop sleeps no longer than the nearest deadline allows.
LEMMA WakeTimes ==
    ASSUME QInv, TInv, NEW ms \in Nat, pc = "wait", Wake(ms), program' = program,
           \A d \in Deadlines : ms <= d + busy
    PROVE  TInv'
  <1>0. Shape /\ Batched /\ Times /\ Clock /\ busy \in Nat /\ lateBy \in Nat /\ MaxBusy \in Nat
    BY Typed DEF QInv, TInv
  <1>1. /\ Elapse(ms) /\ busy' = 0 /\ lateBy' = busy /\ pc' = "tick"
        /\ entries' = entries /\ pending' = pending /\ period' = period
        /\ pending = <<>>
    BY <1>0 DEF Wake, Batched
  <1>2. \A u \in Tasks : ~InBatch(u)'
    BY <1>1 DEF InBatch
  <1>3. busy' \in 0 .. MaxBusy /\ busy' <= busy + ms
    BY <1>0, <1>1
  <1>4. /\ Times'
        /\ \A t \in Tasks : /\ \A d \in due'[t] : d + ms \in due[t] /\ d \in Int
                            /\ \A h \in hint'[t] : h + ms \in hint[t] /\ h \in Int
    BY <1>0, <1>1, <1>2, <1>3, ElapseKeeps
  <1>5. Registered' = Registered
    BY <1>1 DEF Registered
  <1>6. ASSUME NEW t \in Registered, NEW d \in due'[t] \cup hint'[t]
        PROVE  d >= -lateBy'
    <2>1. d + ms \in due[t] \cup hint[t] /\ d \in Int
      BY <1>0, <1>4, Enlisted
    <2>2. d + ms \in Deadlines
      BY <2>1 DEF Deadlines
    <2>3. ms <= (d + ms) + busy
      BY <2>2
    <2> QED BY <1>0, <1>1, <2>1, <2>3
  <1>7. Clock'
    BY <1>1, <1>5, <1>6 DEF Clock
  <1> QED BY <1>4, <1>7 DEF TInv

\* The timeout is the nearest deadline's, and none lies before the tick's timestamp.
LEMMA Nearest ==
    ASSUME QInv, TInv, pc = "wait"
    PROVE  /\ \A d \in Deadlines : d \in Int /\ 0 <= d + busy
           /\ Deadlines # {} => Timeout \in Nat /\ \A d \in Deadlines : Timeout <= d + busy
  <1>0. Shape /\ Batched /\ Times /\ Clock /\ busy \in Nat
    BY Typed DEF QInv, TInv
  <1>1. ASSUME NEW d \in Deadlines PROVE d \in Int /\ 0 <= d + busy
    <2>1. PICK t \in Registered : d \in due[t] \cup hint[t]
      BY DEF Deadlines
    <2>2. t \in Tasks /\ Kept(t) /\ ~InBatch(t)
      BY <1>0, <2>1, Enlisted DEF Clock, Batched, InBatch
    <2>3. d \in Int
      BY <1>0, <2>1, <2>2, Typed
    <2>4. d + busy >= 0
      BY <2>1, <2>2 DEF Kept
    <2> QED BY <1>0, <2>3, <2>4
  <1>2. ASSUME Deadlines # {}
        PROVE  Timeout \in Nat /\ \A d \in Deadlines : Timeout <= d + busy
    <2> DEFINE s == {d + busy : d \in Deadlines}
    <2>1. s \in SUBSET Int /\ s # {} /\ \A x \in s : x >= 0
      BY <1>0, <1>1, <1>2
    <2>2. \A d \in Deadlines : d + busy \in s
      OBVIOUS
    <2>3. Timeout = Min(s)
      BY DEF Timeout
    <2> HIDE DEF s
    <2>4. Min(s) \in s /\ \A x \in s : Min(s) <= x
      BY <2>1, Least
    <2>5. Min(s) \in Nat
      <3> DEFINE m == Min(s)
      <3>1. m \in Int /\ m >= 0
        BY <2>1, <2>4
      <3> HIDE DEF m
      <3>2. m \in Nat
        BY <3>1
      <3> QED BY <3>2 DEF m
    <2> QED BY <2>2, <2>3, <2>4, <2>5
  <1> QED BY <1>1, <1>2

\* The gate: whether or not the check passes, the entry's next fire lies ahead, and a
\* deadline of the service that has come puts it in the batch.
LEMMA GateTimes ==
    ASSUME QInv, TInv, NEW t \in Tasks, PassGate(t), program' = program,
           entries' = entries, hint' = hint, period' = period, since' = since, grid' = grid,
           busy' = busy, lateBy' = lateBy,
           \A u \in Tasks : u # t /\ InBatch(u)' => InBatch(u),
           \/ pc' = "tick"
           \/ /\ pc' = pc /\ cursor' = cursor + 1
              /\ \A u \in Tasks : InBatch(u) => InBatch(u)'
              /\ InBatch(t)' \/ \A h \in hint[t] : h > 0
    PROVE  TInv'
  <1>0. Shape /\ Listed /\ Times /\ Clock
    BY DEF QInv, TInv
  <1>1. /\ pc = "check" /\ cursor \in Nat /\ cursor <= Len(entries) /\ t = entries[cursor]
        /\ Ready(t) /\ due' = [due EXCEPT ![t] = NextDue(t)] /\ cursor \in DOMAIN entries
    BY <1>0 DEF PassGate, Shape
  <1>2. /\ lateBy \in Nat /\ Sound(t) /\ due[t] \in SUBSET Int
        /\ hint[t] \in SUBSET Int /\ period[t] \in SUBSET Nat
        /\ since[t] \in Nat /\ grid[t] \in Int
        /\ hint' = [hint EXCEPT ![t] = hint[t]] /\ period' = [period EXCEPT ![t] = period[t]]
        /\ since' = [since EXCEPT ![t] = since[t]] /\ grid' = [grid EXCEPT ![t] = grid[t]]
    BY <1>0, Typed
  <1>3. /\ NextDue(t) \in SUBSET Int
        /\ \A d \in NextDue(t) : d > 0
        /\ \A d, e \in NextDue(t) : d = e
        /\ due[t] = {} => NextDue(t) = {}
        /\ \A p \in period[t], d \in NextDue(t) :
              IF Setup[t].phased THEN (d + grid[t]) % p = 0 ELSE d >= p
    BY <1>0, <1>1, NextIsAhead
  <1>4. busy = 0
    BY <1>0, <1>1 DEF Clock
  <1>5. PICK D : D = NextDue(t)
    OBVIOUS
  <1>6. Retimed(t, D, hint[t], period[t], since[t], grid[t])
    <2>1. /\ \A p, q \in period[t] : p = q
          /\ \A p \in period[t] : p # 0 /\ p < LongAgo
          /\ Setup[t].service /\ ~Gated(t) => D = {}
          /\ hint[t] # {} => Setup[t].service /\ ~Gated(t)
          /\ since[t] >= busy
      BY <1>2, <1>3, <1>5 DEF Sound
    <2>2. ASSUME NEW p \in period[t], NEW d \in D, ~Setup[t].phased
          PROVE  (since[t] >= p \/ since[t] + d >= p) /\ busy + d >= p
      <3>1. d \in Int /\ d >= p /\ p \in Nat
        BY <1>2, <1>3, <1>5, <2>2
      <3> QED BY <1>2, <1>4, <3>1
    <2>3. \A p \in period[t], d \in D :
              IF Setup[t].phased THEN (d + grid[t]) % p = 0
              ELSE (since[t] >= p \/ since[t] + d >= p) /\ (InBatch(t)' => busy + d >= p)
      <3>1. \A p \in period[t], d \in D : Setup[t].phased => (d + grid[t]) % p = 0
        BY <1>3, <1>5, Zenon
      <3> QED BY <2>2, <3>1, Zenon
    <2> QED BY <1>1, <1>2, <1>3, <1>5, <2>1, <2>3 DEF Retimed
  <1>7. /\ Times'
        /\ due'[t] = D /\ hint'[t] = hint[t]
        /\ \A u \in Tasks : u # t => due'[u] = due[u] /\ hint'[u] = hint[u]
    BY <1>0, <1>6, OneTask
  <1>8. Registered' = Registered
    BY DEF Registered
  <1>9. ASSUME NEW u \in Registered, NEW d \in due'[u] \cup hint'[u] PROVE d >= -lateBy
    <2>1. \A e \in due[u] \cup hint[u] : e >= -lateBy
      BY <1>0, <1>1 DEF Clock
    <2>2. CASE u = t /\ d \in D
      <3>1. d \in Int /\ d > 0
        BY <1>3, <1>5, <2>2
      <3> QED BY <1>2, <3>1
    <2>3. CASE ~(u = t /\ d \in D)
      <3>1. u \in Tasks
        BY <1>0, Enlisted
      <3>2. d \in due[u] \cup hint[u]
        BY <1>7, <1>9, <2>3, <3>1
      <3> QED BY <2>1, <3>2
    <2> QED BY <2>2, <2>3
  <1>10. CASE pc' = "tick"
    <2>1. Clock'
      BY <1>4, <1>8, <1>9, <1>10 DEF Clock
    <2> QED BY <1>7, <2>1 DEF TInv
  <1>11. CASE pc' # "tick"
    <2>0. /\ pc' = "check" /\ cursor' = cursor + 1
          /\ \A u \in Tasks : InBatch(u) => InBatch(u)'
          /\ InBatch(t)' \/ \A h \in hint[t] : h > 0
      BY <1>1, <1>11
    <2>1. Kept(t)'
      <3>1. t \in Registered
        BY <1>0, <1>1, Enlisted
      <3>2. \A d \in due'[t] : d + 0 >= 0
        BY <1>3, <1>5, <1>7
      <3>3. ASSUME NEW h \in hint'[t]
            PROVE  h + 0 >= 0 \/ (InBatch(t)' /\ h + 0 >= -lateBy)
        <4>1. h \in Int /\ h >= -lateBy /\ h \in hint[t]
          BY <1>2, <1>7, <1>9, <3>1
        <4> QED BY <2>0, <4>1
      <3> QED BY <1>4, <3>2, <3>3 DEF Kept
    <2>2. ASSUME NEW i \in DOMAIN entries, i < cursor + 1 PROVE Kept(entries[i])'
      <3> PICK u \in Tasks : u = entries[i]
        BY <1>0 DEF Shape
      <3>1. CASE u = t
        BY <2>1, <3>1
      <3>2. CASE u # t
        <4>1. i # cursor /\ i \in Nat
          BY <1>0, <1>1, <3>2 DEF Shape
        <4>2. i < cursor
          BY <1>1, <2>2, <4>1
        <4>3. Kept(u)
          BY <1>0, <1>1, <4>2 DEF Clock
        <4>4. due'[u] = due[u] /\ hint'[u] = hint[u] /\ (InBatch(u) => InBatch(u)')
          BY <1>7, <2>0, <3>2
        <4>5. Kept(u)'
          BY <4>3, <4>4 DEF Kept
        <4> QED BY <4>5
      <3> QED BY <3>1, <3>2
    <2>3. Clock'
      BY <1>4, <1>8, <1>9, <2>0, <2>2 DEF Clock
    <2> QED BY <1>7, <2>3 DEF TInv
  <1> QED BY <1>10, <1>11

\* An entry that is not ready has nothing overdue.
LEMMA NotReadyTimes ==
    ASSUME QInv, TInv, NEW t \in Tasks, NotReady(t), program' = program
    PROVE  TInv'
  <1>0. Shape /\ Listed /\ Times /\ Clock
    BY DEF QInv, TInv
  <1>1. /\ pc = "check" /\ pc' = pc /\ cursor \in Nat /\ t = entries[cursor]
        /\ ~Ready(t) /\ cursor' = cursor + 1
        /\ entries' = entries /\ pending' = pending /\ due' = due /\ hint' = hint
        /\ period' = period /\ since' = since /\ grid' = grid /\ busy' = busy /\ lateBy' = lateBy
    BY <1>0 DEF NotReady, schedule, history, Shape
  <1>2. \A u \in Tasks : InBatch(u)' = InBatch(u)
    BY <1>1 DEF InBatch
  <1>3. lateBy \in Nat
    BY <1>0, Typed
  <1>4. Times'
    BY <1>0, <1>1, <1>2, <1>3, SameTimes
  <1>5. Registered' = Registered
    BY <1>1 DEF Registered
  <1>6. busy = 0
    BY <1>0, <1>1 DEF Clock
  <1>7. Kept(t)
    <2>1. Sound(t) /\ due[t] \in SUBSET Int
      BY <1>0, Typed
    <2>2. PICK d \in due[t] : ~(d <= 0)
      BY <1>1 DEF Ready
    <2>3. d \in Int /\ d + 0 >= 0 /\ \A e \in due[t] : e = d
      BY <2>1, <2>2 DEF Sound
    <2>4. hint[t] = {}
      BY <2>1, <2>2 DEF Sound
    <2> QED BY <1>6, <2>3, <2>4 DEF Kept
  <1>8. \A u \in Tasks : Kept(u) => Kept(u)'
    BY <1>1, <1>2 DEF Kept
  <1>9. ASSUME NEW i \in DOMAIN entries, i < cursor + 1 PROVE Kept(entries[i])'
    <2> PICK u \in Tasks : u = entries[i]
      BY <1>0 DEF Shape
    <2>1. i \in Nat
      BY <1>0 DEF Shape
    <2>2. i < cursor \/ u = t
      BY <1>1, <1>9, <2>1
    <2>3. Kept(u)
      BY <1>0, <1>1, <1>7, <2>2 DEF Clock
    <2>4. Kept(u)'
      BY <1>8, <2>3
    <2> QED BY <1>1, <2>4
  <1>10. Clock'
    BY <1>0, <1>1, <1>5, <1>9 DEF Clock
  <1> QED BY <1>4, <1>10 DEF TInv

\* When the checks are done, no deadline has passed but those of the batch.
LEMMA ChecksDoneTimes ==
    ASSUME QInv, TInv, ChecksDone, program' = program
    PROVE  TInv'
  <1>0. Shape /\ Times /\ Clock
    BY DEF QInv, TInv
  <1>1. /\ pc = "check" /\ pc' = "fire" /\ cursor \in Nat /\ cursor > Len(entries)
        /\ entries' = entries /\ pending' = pending /\ due' = due /\ hint' = hint
        /\ period' = period /\ since' = since /\ grid' = grid /\ busy' = busy /\ lateBy' = lateBy
    BY <1>0 DEF ChecksDone, schedule, history, Shape
  <1>2. \A u \in Tasks : InBatch(u)' = InBatch(u)
    BY <1>1 DEF InBatch
  <1>3. lateBy \in Nat
    BY <1>0, Typed
  <1>4. Times'
    BY <1>0, <1>1, <1>2, <1>3, SameTimes
  <1>5. Registered' = Registered
    BY <1>1 DEF Registered
  <1>6. ASSUME NEW u \in Registered PROVE Kept(u)'
    <2>1. PICK i \in DOMAIN entries : entries[i] = u
      BY <1>0, Enlisted
    <2>2. i < cursor
      BY <1>0, <1>1 DEF Shape
    <2>3. Kept(u) /\ u \in Tasks
      BY <1>0, <1>1, <2>1, <2>2, Enlisted DEF Clock
    <2> QED BY <1>1, <1>2, <2>3 DEF Kept
  <1>7. Clock'
    BY <1>1, <1>5, <1>6 DEF Clock
  <1> QED BY <1>4, <1>7 DEF TInv

\* A fire: from here on the task's own time counts from the tick's timestamp.
LEMMA FireTimes ==
    ASSUME QInv, TInv, Fire, program' = program
    PROVE  TInv'
  <1>0. Shape /\ Times /\ Clock
    BY DEF QInv, TInv
  <1>1. PICK t \in Tasks : t = Head(pending) /\ InBatch(t)
    <2>1. pending \in Seq(Tasks) /\ pending # <<>>
      BY <1>0 DEF Fire, Shape
    <2>2. Head(pending) \in Tasks /\ 1 \in DOMAIN pending /\ Head(pending) = pending[1]
      BY <2>1, HeadTail
    <2> QED BY <2>2 DEF InBatch
  <1>2. /\ pc = "fire" /\ pc' = "handler" /\ since' = [since EXCEPT ![t] = busy]
        /\ entries' = entries /\ pending' = pending /\ due' = due /\ hint' = hint
        /\ period' = period /\ grid' = grid /\ busy' = busy /\ lateBy' = lateBy
    BY <1>1 DEF Fire, schedule
  <1>3. \A u \in Tasks : InBatch(u)' = InBatch(u)
    BY <1>2 DEF InBatch
  <1>4. /\ busy \in Nat /\ Sound(t)
        /\ due[t] \in SUBSET Int /\ period[t] \in SUBSET Nat /\ hint[t] \in SUBSET Int
        /\ grid[t] \in Int
        /\ due' = [due EXCEPT ![t] = due[t]] /\ hint' = [hint EXCEPT ![t] = hint[t]]
        /\ period' = [period EXCEPT ![t] = period[t]] /\ grid' = [grid EXCEPT ![t] = grid[t]]
        /\ \A p \in period[t], d \in due[t] :
              IF Setup[t].phased THEN (d + grid[t]) % p = 0
              ELSE /\ since[t] >= p \/ since[t] + d >= p
                   /\ InBatch(t) => busy + d >= p
    BY <1>0, <1>2, Typed
  <1>5. /\ \A d, e \in due[t] : d = e
        /\ \A p, q \in period[t] : p = q
        /\ \A p \in period[t] : p # 0 /\ p < LongAgo
        /\ Setup[t].service /\ ~Gated(t) => due[t] = {}
        /\ hint[t] # {} => Setup[t].service /\ ~Gated(t)
        /\ busy >= busy
    BY <1>4 DEF Sound
  <1>6. \A p \in period[t], d \in due[t] :
              IF Setup[t].phased THEN (d + grid[t]) % p = 0
              ELSE (busy >= p \/ busy + d >= p) /\ (InBatch(t)' => busy + d >= p)
    BY <1>1, <1>4, Zenon
  <1>7. Retimed(t, due[t], hint[t], period[t], busy, grid[t])
    BY <1>2, <1>4, <1>5, <1>6 DEF Retimed
  <1>8. Times'
    BY <1>0, <1>2, <1>3, <1>7, OneTask
  <1>9. Registered' = Registered
    BY <1>2 DEF Registered
  <1>10. ASSUME NEW u \in Registered PROVE Kept(u)'
    <2>1. Kept(u) /\ u \in Tasks
      BY <1>0, <1>2, Enlisted DEF Clock
    <2> QED BY <1>2, <1>3, <2>1 DEF Kept
  <1>11. Clock'
    BY <1>2, <1>9, <1>10 DEF Clock
  <1> QED BY <1>8, <1>11 DEF TInv

\* The batch is done, or dropped with the cycle's time.
LEMMA BatchOverTimes ==
    ASSUME QInv, TInv, TickReturns \/ Reenter \/ Tick, program' = program
    PROVE  TInv'
  <1>0. Shape /\ Batched /\ Times /\ Clock
    BY DEF QInv, TInv
  <1>1. /\ entries' = entries /\ pending' = <<>> /\ due' = due /\ hint' = hint
        /\ period' = period /\ since' = since /\ grid' = grid
        /\ busy' \in {0, busy} /\ lateBy' \in {lateBy, lateBy + busy}
    BY <1>0 DEF TickReturns, Reenter, Tick, schedule, history, Batched
  <1>2. \A u \in Tasks : ~InBatch(u)'
    BY <1>1 DEF InBatch
  <1>3. /\ busy \in Nat /\ lateBy \in Nat /\ lateBy' \in Nat
    BY <1>0, <1>1, Typed
  <1>4. Times'
    BY <1>0, <1>1, <1>2, <1>3, SameTimes
  <1>5. Registered' = Registered
    BY <1>1 DEF Registered
  <1>6. CASE TickReturns
    <2>1. pc = "fire" /\ pc' = "wait" /\ busy' = busy /\ pending = <<>> /\ lateBy' = lateBy
      BY <1>6 DEF TickReturns, history
    <2>2. ASSUME NEW u \in Registered PROVE Kept(u)'
      <3>1. Kept(u) /\ u \in Tasks /\ ~InBatch(u)
        BY <1>0, <2>1, Enlisted DEF Clock, InBatch
      <3> QED BY <1>1, <2>1, <3>1 DEF Kept
    <2>3. Clock'
      BY <1>5, <2>1, <2>2 DEF Clock
    <2> QED BY <1>4, <2>3 DEF TInv
  <1>7. CASE Reenter
    <2>1. pc = "handler" /\ pc' = "tick" /\ busy' = 0 /\ lateBy' = lateBy + busy
      BY <1>7 DEF Reenter
    <2>2. ASSUME NEW u \in Registered, NEW d \in due[u] \cup hint[u] PROVE d >= -lateBy'
      <3>1. Kept(u) /\ u \in Tasks
        BY <1>0, <2>1, Enlisted DEF Clock
      <3>2. d \in Int
        BY <1>0, <3>1, Typed
      <3>3. d + busy >= 0 \/ d + busy >= -lateBy
        BY <3>1 DEF Kept
      <3> QED BY <1>3, <2>1, <3>2, <3>3
    <2>3. Clock'
      BY <1>1, <1>5, <2>1, <2>2 DEF Clock
    <2> QED BY <1>4, <2>3 DEF TInv
  <1>8. CASE Tick
    <2>1. pc = "tick" /\ pc' = "check" /\ busy' = 0 /\ cursor' = 1 /\ lateBy' = lateBy
      BY <1>8 DEF Tick, history
    <2>2. \A i \in DOMAIN entries : ~(i < 1)
      BY <1>0 DEF Shape
    <2>3. \A t \in Registered : \A d \in due[t] \cup hint[t] : d >= -lateBy
      BY <1>0, <2>1 DEF Clock
    <2>4. Clock'
      BY <1>1, <1>5, <2>1, <2>2, <2>3 DEF Clock
    <2> QED BY <1>4, <2>4 DEF TInv
  <1> QED BY <1>6, <1>7, <1>8

\* wait() returns, sleeps or is woken.
LEMMA WaitTimes ==
    ASSUME QInv, TInv, WaitReturns \/ WaitSleeps \/ (\E ms \in 0 .. MaxBusy : WaitWoken(ms)),
           program' = program
    PROVE  TInv'
  <1>0. pc = "wait" /\ MaxBusy \in Nat
    BY RunnerAssumption DEF WaitReturns, WaitSleeps, WaitWoken
  <1>1. /\ \A d \in Deadlines : d \in Int /\ 0 <= d + busy
        /\ Deadlines # {} => Timeout \in Nat /\ \A d \in Deadlines : Timeout <= d + busy
    BY <1>0, Nearest
  <1>2. busy \in Nat
    BY Typed DEF TInv
  <1>3. CASE WaitReturns
    <2>1. Wake(0) /\ 0 \in Nat
      BY <1>3 DEF WaitReturns
    <2> QED BY <1>0, <1>1, <2>1, WakeTimes
  <1>4. CASE WaitSleeps
    <2>1. Deadlines # {} /\ Wake(Timeout)
      BY <1>4 DEF WaitSleeps
    <2>2. PICK ms \in Nat : ms = Timeout
      BY <1>1, <2>1
    <2>3. Wake(ms) /\ \A d \in Deadlines : ms <= d + busy
      BY <1>1, <2>1, <2>2
    <2> QED BY <1>0, <2>3, WakeTimes
  <1>5. ASSUME NEW ms \in 0 .. MaxBusy, WaitWoken(ms) PROVE TInv'
    <2>1. Wake(ms) /\ (Deadlines # {} => ms < Timeout) /\ ms \in Nat
      BY <1>0, <1>5 DEF WaitWoken
    <2>2. ASSUME NEW d \in Deadlines PROVE ms <= d + busy
      <3>1. Timeout \in Nat /\ ms < Timeout /\ Timeout <= d + busy /\ d \in Int
        BY <1>1, <2>1
      <3> QED BY <1>2, <2>1, <3>1
    <2> QED BY <1>0, <2>1, <2>2, WakeTimes
  <1> QED BY <1>3, <1>4, <1>5

\* Every step keeps the times.
LEMMA TInvStep ==
    QInv /\ TInv /\ [Next]_vars => TInv'
  <1> SUFFICES ASSUME QInv, TInv, [Next]_vars
               PROVE  TInv'
    OBVIOUS
  <1> program' = program
    BY DEF Next, vars
  <1>0. Shape /\ Listed /\ Times /\ Clock
    BY DEF QInv, TInv
  <1>1. CASE UNCHANGED vars
    <2>1. /\ entries' = entries /\ pending' = pending /\ due' = due /\ hint' = hint
          /\ period' = period /\ since' = since /\ grid' = grid /\ busy' = busy
          /\ lateBy' = lateBy /\ pc' = pc /\ cursor' = cursor
      BY <1>1 DEF vars, schedule, history
    <2>2. \A u \in Tasks : InBatch(u)' = InBatch(u)
      BY <2>1 DEF InBatch
    <2>3. lateBy \in Nat
      BY <1>0, Typed
    <2>4. Times'
      BY <1>0, <2>1, <2>2, <2>3, SameTimes
    <2>5. Registered' = Registered
      BY <2>1 DEF Registered
    <2>6. \A u \in Tasks : Kept(u) => Kept(u)'
      BY <2>1, <2>2 DEF Kept
    <2>7. (\A u \in Registered : u \in Tasks) /\ (\A i \in DOMAIN entries : entries[i] \in Tasks)
      BY <1>0, Enlisted DEF Shape
    <2>8. pc = "check" => \A i \in DOMAIN entries : i < cursor => Kept(entries[i])'
      <3> SUFFICES ASSUME pc = "check", NEW i \in DOMAIN entries, i < cursor
                   PROVE  Kept(entries[i])'
        OBVIOUS
      <3> PICK u \in Tasks : u = entries[i]
        BY <2>7
      <3>1. Kept(u)'
        BY <1>0, <2>6 DEF Clock
      <3> QED BY <2>1, <3>1
    <2>9. Clock'
      BY <1>0, <2>1, <2>5, <2>6, <2>7, <2>8 DEF Clock
    <2> QED BY <2>4, <2>9 DEF TInv
  <1>2. ASSUME NEW t \in Tasks, Add(t) PROVE TInv'
    BY <1>2, AddTimes
  <1>3. ASSUME NEW t \in Tasks, RemoveTask(t) PROVE TInv'
    <2>1. /\ Unlist(t) /\ pc \in {"tick", "handler", "wait"} /\ pc' = pc /\ pending' = pending
          /\ period' = period /\ since' = since /\ grid' = grid /\ busy' = busy
          /\ lateBy' = lateBy
      BY <1>3 DEF RemoveTask, CanCall, history
    <2>2. \A u \in Tasks : InBatch(u)' = InBatch(u)
      BY <2>1 DEF InBatch
    <2> QED BY <1>0, <2>1, <2>2, UnlistTimes
  <1>4. ASSUME NEW t \in Tasks, NEW p \in Periods, NEW a \in {0, busy}, SetPeriod(t, p, a)
        PROVE TInv'
    BY <1>4, SetPeriodTimes
  <1>5. ASSUME NEW ms \in 1 .. MaxBusy, Spend(ms) PROVE TInv'
    BY <1>5, SpendTimes
  <1>6. ASSUME NEW h \in {{}} \cup {{x} : x \in Hints}, Arm(h) PROVE TInv'
    BY <1>6, ArmTimes
  <1>7. CASE HandlerEnds
    BY <1>7, HandlerEndsTimes
  <1>8. CASE TickReturns \/ Reenter \/ Tick
    BY <1>8, BatchOverTimes
  <1>9. ASSUME NEW t \in Tasks, NotReady(t) PROVE TInv'
    BY <1>9, NotReadyTimes
  <1>10. ASSUME NEW t \in Tasks, CheckPasses(t) PROVE TInv'
    <2>1. /\ PassGate(t) /\ entries' = entries /\ hint' = hint /\ period' = period
          /\ since' = since /\ grid' = grid /\ busy' = busy /\ lateBy' = lateBy
          /\ pc' = pc /\ cursor' = cursor + 1 /\ pending' = Append(pending, t)
          /\ pending \in Seq(Tasks)
      BY <1>0, <1>10 DEF CheckPasses, history, Shape
    <2>2. /\ DOMAIN pending' = 1 .. Len(pending) + 1 /\ DOMAIN pending = 1 .. Len(pending)
          /\ Len(pending) \in Nat
          /\ \A i \in DOMAIN pending : pending'[i] = pending[i]
          /\ pending'[Len(pending) + 1] = t
      BY <2>1
    <2>3. /\ \A u \in Tasks : u # t /\ InBatch(u)' => InBatch(u)
          /\ \A u \in Tasks : InBatch(u) => InBatch(u)'
          /\ InBatch(t)'
      BY <2>2 DEF InBatch
    <2> QED BY <2>1, <2>3, GateTimes
  <1>11. ASSUME NEW t \in Tasks, CheckFails(t) PROVE TInv'
    <2>1. /\ PassGate(t) /\ entries' = entries /\ hint' = hint /\ period' = period
          /\ since' = since /\ grid' = grid /\ busy' = busy /\ lateBy' = lateBy
          /\ pc' = pc /\ cursor' = cursor + 1 /\ pending' = pending
          /\ \A h \in hint[t] : h > 0
      BY <1>11 DEF CheckFails, history
    <2>2. \A u \in Tasks : InBatch(u)' = InBatch(u)
      BY <2>1 DEF InBatch
    <2> QED BY <2>1, <2>2, GateTimes
  <1>12. ASSUME NEW t \in Tasks, CheckRaises(t) PROVE TInv'
    <2>1. /\ PassGate(t) /\ entries' = entries /\ hint' = hint /\ period' = period
          /\ since' = since /\ grid' = grid /\ busy' = busy /\ lateBy' = lateBy
          /\ pc' = "tick" /\ pending' = <<>>
      BY <1>12 DEF CheckRaises, history
    <2>2. \A u \in Tasks : ~InBatch(u)'
      BY <2>1 DEF InBatch
    <2> QED BY <2>1, <2>2, GateTimes
  <1>13. CASE ChecksDone
    BY <1>13, ChecksDoneTimes
  <1>14. CASE Fire
    BY <1>14, FireTimes
  <1>15. CASE WaitReturns \/ WaitSleeps \/ (\E ms \in 0 .. MaxBusy : WaitWoken(ms))
    BY <1>15, WaitTimes
  <1>16. CASE Operation
    BY <1>2, <1>3, <1>4, <1>16 DEF Operation
  <1>17. CASE Handler
    BY <1>5, <1>6, <1>7, <1>8, <1>17 DEF Handler
  <1>18. CASE Loop
    BY <1>8, <1>9, <1>10, <1>11, <1>12, <1>13, <1>14, <1>15, <1>18 DEF Loop
  <1> QED BY <1>1, <1>16, <1>17, <1>18 DEF Next

\* wait() sleeps through no schedule, and a phased task stays on its grid, whatever handlers
\* and the application do in between (tick, wait, _compute_timeout).
THEOREM AlwaysOnSchedule ==
    Spec => []OnSchedule
  <1>1. QInv /\ TInv => OnSchedule
    <2> SUFFICES ASSUME QInv, TInv PROVE OnTime /\ PhaseKept
      BY DEF OnSchedule
    <2>0. Shape /\ Times /\ Clock
      BY DEF QInv, TInv
    <2>1. OnTime
      BY <2>0 DEF OnTime, Clock
    <2>2. PhaseKept
      <3> SUFFICES ASSUME NEW t \in Registered, Setup[t].phased, period[t] # {}, NEW d \in due[t]
                   PROVE  (d + grid[t]) % The(period[t]) = 0
        BY DEF PhaseKept
      <3>1. t \in Tasks
        BY <2>0, Enlisted
      <3>2. The(period[t]) \in period[t]
        BY DEF The
      <3> QED BY <2>0, <3>1, <3>2, Typed
    <2> QED BY <2>1, <2>2
  <1>2. QInv /\ TInv /\ [Next]_vars => QInv' /\ TInv'
    BY QInvStep, TInvStep
  <1> QED BY <1>1, <1>2, QInvInit, TInvInit, PTL DEF Spec

\* No tick collects a plain periodic task within a period of its last fire (tick).
THEOREM AlwaysApart ==
    Spec => FiresApart
  <1> DEFINE Gap == \A t \in Tasks :
                       CheckPasses(t) /\ ~Setup[t].phased /\ due[t] # {} =>
                           \A p \in period[t] : since[t] >= p
  <1>1. QInv /\ TInv => Gap
    <2> SUFFICES ASSUME TInv, NEW t \in Tasks, CheckPasses(t), ~Setup[t].phased,
                        due[t] # {}, NEW p \in period[t]
                 PROVE  since[t] >= p
      BY Zenon
    <2>1. PICK d \in due[t] : TRUE
      OBVIOUS
    <2>2. d \in Int /\ p \in Nat /\ since[t] \in Nat /\ (since[t] >= p \/ since[t] + d >= p)
      BY <2>1, Typed DEF TInv
    <2>3. d <= 0
      BY <2>1 DEF CheckPasses, PassGate, Ready
    <2> QED BY <2>2, <2>3
  <1>2. QInv /\ TInv /\ [Next]_vars => QInv' /\ TInv' /\ [Gap]_vars
    BY <1>1, QInvStep, TInvStep
  <1>3. Spec => [][Gap]_vars
    <2> HIDE DEF Gap
    <2> QED BY <1>2, QInvInit, TInvInit, PTL DEF Spec
  <1> QED BY <1>3 DEF FiresApart, Gap

-----------------------------------------------------------------------------
(* What wait() polls                                                       *)

\* What the poller calls the socket of a slot, open or not.
SlotKey(s) == IF keyedBy = "descriptor" THEN slots[s].descriptor ELSE s

PollTypeOK ==
    /\ keyedBy \in {"descriptor", "object"}
    /\ fileno \in [Sockets -> Nat]
    /\ holds \in [Services -> SUBSET Sockets]
    /\ wants \in [Services -> SUBSET {"read", "write"}]
    /\ DOMAIN slots \subseteq Sockets
    /\ slots \in [DOMAIN slots -> [asked : SUBSET {"read", "write"}, descriptor : Nat]]
    /\ built \in BOOLEAN

HeldAreOpen == \A v \in Services : \A s \in holds[v] : fileno[s] # 0

OneOwner == \A s, t \in Sockets : fileno[s] # 0 /\ fileno[s] = fileno[t] => s = t

\* The recorded descriptor is the socket's for as long as it is open, and no two
\* slots have the same: one of them would have been dropped.
SlotsRecorded ==
    keyedBy = "descriptor" =>
        /\ \A s \in DOMAIN slots : fileno[s] # 0 => fileno[s] = slots[s].descriptor
        /\ \A s \in DOMAIN slots : slots[s].descriptor # 0
        /\ \A s, t \in DOMAIN slots : slots[s].descriptor = slots[t].descriptor => s = t

\* The poller is what the slots say, whatever has become of the sockets since.
SlotsWatched ==
    built =>
        /\ DOMAIN watched = {SlotKey(s) : s \in DOMAIN slots}
        /\ \A s \in DOMAIN slots : watched[SlotKey(s)] = slots[s].asked

JustSwept ==
    spc = "poll" =>
        /\ built
        /\ DOMAIN slots = Wanted
        /\ \A s \in Wanted : slots[s].asked = MaskOf(s)

PollInv ==
    /\ PollTypeOK /\ HeldAreOpen /\ OneOwner
    /\ SlotsRecorded /\ SlotsWatched /\ JustSwept

--------------------------------------------------------------------------------
LEMMA PollInitHolds == PollSetInit => PollInv
<1> SUFFICES ASSUME PollSetInit PROVE PollInv
  OBVIOUS
<1> USE DEF PollSetInit
<1>1. DOMAIN slots = {} /\ slots = [s \in DOMAIN slots |-> [asked |-> {}, descriptor |-> 0]]
  OBVIOUS
<1>2. PollTypeOK
  BY <1>1, PollSetAssumption DEF PollTypeOK
<1>3. HeldAreOpen /\ OneOwner
  BY DEF HeldAreOpen, OneOwner
<1>4. SlotsRecorded /\ SlotsWatched /\ JustSwept
  BY <1>1 DEF SlotsRecorded, SlotsWatched, JustSwept
<1> QED BY <1>2, <1>3, <1>4 DEF PollInv

\* A wanted socket is held, hence open, and the poller knows it by one key.
LEMMA WantedAreOpen ==
    ASSUME PollInv
    PROVE  /\ Wanted \subseteq Sockets
           /\ \A s \in Wanted : fileno[s] \in Nat /\ fileno[s] # 0
           /\ \A s \in Wanted : MaskOf(s) \in SUBSET {"read", "write"}
           /\ \A s \in Wanted : PollKey(s) # 0
           /\ \A s, t \in Wanted : PollKey(s) = PollKey(t) => s = t
<1> USE PollSetAssumption DEF PollInv, PollTypeOK
<1>1. Wanted \subseteq Sockets
  BY DEF Wanted
<1>2. ASSUME NEW s \in Wanted PROVE fileno[s] \in Nat /\ fileno[s] # 0
  <2>1. PICK v \in Services : s \in holds[v]
    BY DEF Wanted, MaskOf
  <2> QED BY <2>1, <1>1 DEF HeldAreOpen
<1>3. ASSUME NEW s \in Wanted PROVE MaskOf(s) \in SUBSET {"read", "write"}
  BY DEF MaskOf
<1>4. ASSUME NEW s \in Wanted PROVE PollKey(s) # 0
  BY <1>1, <1>2 DEF PollKey
<1>5. ASSUME NEW s \in Wanted, NEW t \in Wanted, PollKey(s) = PollKey(t) PROVE s = t
  BY <1>1, <1>2, <1>5 DEF PollKey, OneOwner
<1> QED BY <1>1, <1>2, <1>3, <1>4, <1>5

\* The sweep records, or has recorded, the descriptor a wanted socket has now.
LEMMA RecordedIsCurrent ==
    ASSUME PollInv, NEW s \in Wanted
    PROVE  /\ RecordedOf(s) \in Nat
           /\ keyedBy = "descriptor" => RecordedOf(s) = fileno[s]
           /\ s \in DOMAIN slots => SlotKey(s) = PollKey(s)
BY WantedAreOpen
   DEF PollInv, PollTypeOK, SlotsRecorded, RecordedOf, SlotKey, PollKey

\* A slot that is dropped takes its own key along, unless a wanted socket has it.
LEMMA DropsItsOwn ==
    ASSUME PollInv, NEW u \in DOMAIN slots \ Wanted
    PROVE  /\ \A s \in Wanted : PollKey(s) \notin DropOf(u)
           /\ SlotKey(u) \in DropOf(u) \/ \E t \in Wanted : PollKey(t) = SlotKey(u)
<1> USE PollSetAssumption DEF PollInv, PollTypeOK
<1>0. u \in Sockets /\ u # 0 /\ fileno[u] \in Nat
  OBVIOUS
<1>1. CASE keyedBy = "object"
  <2>1. DropOf(u) = {u} /\ SlotKey(u) = u
    BY <1>0, <1>1 DEF DropOf, PollKey, SlotKey
  <2>2. \A s \in Wanted : PollKey(s) = s
    BY <1>1 DEF PollKey
  <2> QED BY <2>1, <2>2
<1>2. CASE keyedBy = "descriptor" /\ fileno[u] # 0
  <2>1. DropOf(u) = {fileno[u]} /\ SlotKey(u) = fileno[u]
    BY <1>2 DEF DropOf, PollKey, SlotKey, SlotsRecorded
  <2>2. ASSUME NEW s \in Wanted PROVE PollKey(s) # fileno[u]
    BY <1>0, <1>2, WantedAreOpen DEF PollKey, OneOwner
  <2> QED BY <2>1, <2>2
<1>3. CASE keyedBy = "descriptor" /\ fileno[u] = 0
  <2>1. DropOf(u) = UnregisterDescriptor(u) /\ SlotKey(u) = slots[u].descriptor
    BY <1>3 DEF DropOf, PollKey, SlotKey
  <2>2. \A s \in Wanted : PollKey(s) = RecordedOf(s)
    BY <1>3, RecordedIsCurrent DEF PollKey
  <2>3. CASE \E t \in Wanted : RecordedOf(t) = slots[u].descriptor
    <3>1. UnregisterDescriptor(u) = {}
      BY <2>3 DEF UnregisterDescriptor
    <3> QED BY <2>1, <2>2, <2>3, <3>1
  <2>4. CASE \A t \in Wanted : RecordedOf(t) # slots[u].descriptor
    <3>1. UnregisterDescriptor(u) = {slots[u].descriptor}
      BY <2>4 DEF UnregisterDescriptor
    <3> QED BY <2>1, <2>2, <2>4, <3>1
  <2> QED BY <2>3, <2>4
<1> QED BY <1>1, <1>2, <1>3

--------------------------------------------------------------------------------
\* After a sweep the poller watches what is wanted, if it has been built.
LEMMA SweepIsExact ==
    ASSUME PollInv, built
    PROVE  /\ DOMAIN SweptPoller = {PollKey(s) : s \in Wanted}
           /\ \A s \in Wanted : SweptPoller[PollKey(s)] = MaskOf(s)
<1> DEFINE asked == {PollKey(s) : s \in Asked}
           dropped == UNION {DropOf(s) : s \in DOMAIN slots \ Wanted}
           dom == (DOMAIN watched \cup asked) \ dropped
           entry(k) == IF k \in asked THEN MaskOf(CHOOSE s \in Asked : PollKey(s) = k) ELSE watched[k]
<1>0. SweptPoller = [k \in dom |-> entry(k)]
  BY DEF SweptPoller
<1>1. Asked \subseteq Wanted
  BY DEF Asked
<1>2. ASSUME NEW s \in Wanted PROVE PollKey(s) \in dom
  <2>1. PollKey(s) \notin dropped
    BY DropsItsOwn
  <2>2. CASE s \in DOMAIN slots
    <3>1. PollKey(s) = SlotKey(s)
      BY <2>2, RecordedIsCurrent
    <3>2. SlotKey(s) \in DOMAIN watched
      BY <2>2 DEF PollInv, SlotsWatched
    <3> QED BY <2>1, <3>1, <3>2
  <2>3. CASE s \notin DOMAIN slots
    <3>1. s \in Asked
      BY <2>3 DEF Asked
    <3> QED BY <2>1, <3>1
  <2> QED BY <2>2, <2>3
<1>3. ASSUME NEW k \in dom PROVE \E s \in Wanted : PollKey(s) = k
  <2>1. CASE k \in asked
    BY <1>1, <2>1
  <2>2. CASE k \notin asked
    <3>1. PICK u \in DOMAIN slots : SlotKey(u) = k
      BY <2>2 DEF PollInv, SlotsWatched
    <3>2. CASE u \in Wanted
      BY <3>1, <3>2, RecordedIsCurrent
    <3>3. CASE u \notin Wanted
      <4>1. k \notin DropOf(u)
        BY <3>3
      <4> QED BY <3>1, <3>3, <4>1, DropsItsOwn
    <3> QED BY <3>2, <3>3
  <2> QED BY <2>1, <2>2
<1>4. ASSUME NEW s \in Wanted PROVE entry(PollKey(s)) = MaskOf(s)
  <2>1. CASE PollKey(s) \in asked
    <3>1. PICK t \in Asked : PollKey(t) = PollKey(s)
      BY <2>1
    <3>2. \A x \in Asked : PollKey(x) = PollKey(s) => x = s
      BY <1>1, WantedAreOpen
    <3>3. (CHOOSE x \in Asked : PollKey(x) = PollKey(s)) = s
      BY <3>1, <3>2
    <3> QED BY <2>1, <3>3
  <2>2. CASE PollKey(s) \notin asked
    <3>1. s \in DOMAIN slots /\ slots[s].asked = MaskOf(s)
      BY <2>2 DEF Asked
    <3>2. watched[SlotKey(s)] = slots[s].asked
      BY <3>1 DEF PollInv, SlotsWatched
    <3>3. SlotKey(s) = PollKey(s)
      BY <3>1, RecordedIsCurrent
    <3> QED BY <2>2, <3>1, <3>2, <3>3
  <2> QED BY <2>1, <2>2
<1>5. DOMAIN SweptPoller = {PollKey(s) : s \in Wanted}
  BY <1>0, <1>2, <1>3
<1>6. ASSUME NEW s \in Wanted PROVE SweptPoller[PollKey(s)] = MaskOf(s)
  BY <1>0, <1>2, <1>4
<1> QED BY <1>5, <1>6

LEMMA ReplayIsExact ==
    ASSUME PollInv
    PROVE  /\ DOMAIN ReplayedPoller = {PollKey(s) : s \in Wanted}
           /\ \A s \in Wanted : ReplayedPoller[PollKey(s)] = MaskOf(s)
<1>1. ASSUME NEW s \in Wanted
      PROVE (CHOOSE x \in Wanted : PollKey(x) = PollKey(s)) = s
  BY WantedAreOpen
<1> QED BY <1>1 DEF ReplayedPoller

\* What a sweep leaves behind, once the poller watches what is wanted.
LEMMA SweepKeeps ==
    ASSUME PollInv, slots' = SweptSlots, UNCHANGED <<keyedBy, fileno, holds, wants>>,
           built' \in BOOLEAN, spc' \in {"loop", "poll"}, spc' = "poll" => built',
           built' => /\ DOMAIN watched' = {PollKey(s) : s \in Wanted}
                     /\ \A s \in Wanted : watched'[PollKey(s)] = MaskOf(s)
    PROVE  PollInv'
<1>0. Wanted' = Wanted /\ \A s \in Sockets : MaskOf(s)' = MaskOf(s)
  BY DEF Wanted, MaskOf
<1>1. DOMAIN slots' = Wanted
  BY DEF SweptSlots
<1>2. ASSUME NEW s \in Wanted
      PROVE  /\ slots'[s].asked = MaskOf(s) /\ slots'[s].descriptor = RecordedOf(s)
             /\ slots'[s] \in [asked : SUBSET {"read", "write"}, descriptor : Nat]
  BY WantedAreOpen, RecordedIsCurrent DEF SweptSlots
<1>3. slots' = [s \in Wanted |-> slots'[s]]
  BY DEF SweptSlots
<1>4. PollTypeOK'
  BY <1>1, <1>2, <1>3, WantedAreOpen DEF PollInv, PollTypeOK
<1>5. HeldAreOpen' /\ OneOwner'
  BY DEF PollInv, HeldAreOpen, OneOwner
<1>6. ASSUME NEW s \in Wanted PROVE SlotKey(s)' = PollKey(s)
  BY <1>2, RecordedIsCurrent DEF SlotKey, PollKey
<1>7. SlotsRecorded'
  BY <1>1, <1>2, RecordedIsCurrent, WantedAreOpen
     DEF SlotsRecorded, PollInv, OneOwner
<1>8. SlotsWatched'
  BY <1>1, <1>2, <1>6 DEF SlotsWatched
<1>9. JustSwept'
  BY <1>0, <1>1, <1>2, WantedAreOpen DEF JustSwept
<1> QED BY <1>4, <1>5, <1>7, <1>8, <1>9 DEF PollInv

--------------------------------------------------------------------------------
\* What the program does to sockets leaves slots and poller alone, and it runs
\* only outside ipoll().
LEMMA ProgramKeeps ==
    ASSUME PollInv, spc # "poll", UNCHANGED <<keyedBy, spc, slots, built, watched>>,
           fileno' \in [Sockets -> Nat], holds' \in [Services -> SUBSET Sockets],
           wants' \in [Services -> SUBSET {"read", "write"}],
           HeldAreOpen', OneOwner',
           \A s \in DOMAIN slots : fileno'[s] \in {0, fileno[s]}
    PROVE  PollInv'
<1>1. PollTypeOK'
  BY DEF PollInv, PollTypeOK
<1>2. SlotsRecorded'
  BY DEF PollInv, PollTypeOK, SlotsRecorded
<1>3. SlotsWatched' /\ JustSwept'
  BY DEF PollInv, SlotsWatched, JustSwept, SlotKey
<1> QED BY <1>1, <1>2, <1>3 DEF PollInv

\* Closing: who held the socket has let go of it.
LEMMA ClosingKeeps ==
    ASSUME PollInv, spc # "poll", NEW v \in Services,
           UNCHANGED <<keyedBy, spc, wants, slots, built, watched>>,
           fileno' = [s \in Sockets |-> IF s \in holds[v] THEN 0 ELSE fileno[s]],
           holds' = [w \in Services |-> holds[w] \ holds[v]]
    PROVE  PollInv'
<1> USE DEF PollInv, PollTypeOK
<1>1. fileno' \in [Sockets -> Nat] /\ holds' \in [Services -> SUBSET Sockets]
  OBVIOUS
<1>2. HeldAreOpen'
  BY DEF HeldAreOpen
<1>3. OneOwner'
  BY DEF OneOwner
<1> QED BY <1>1, <1>2, <1>3, ProgramKeeps

LEMMA PollStepHolds == PollInv /\ [PollSetNext]_pollVars => PollInv'
<1> SUFFICES ASSUME PollInv, [PollSetNext]_pollVars PROVE PollInv'
  OBVIOUS
<1> USE PollSetAssumption
<1>t. PollTypeOK
  BY DEF PollInv
<1>1. ASSUME NEW v \in Services, OpenSocket(v) PROVE PollInv'
  <2>1. PICK s \in Sockets, d \in Descriptors, m \in Masks :
          /\ Unused(s) /\ Lowest(d)
          /\ fileno' = [fileno EXCEPT ![s] = d]
          /\ holds' = [holds EXCEPT ![v] = {s}]
          /\ wants' = [wants EXCEPT ![v] = m]
    BY <1>1 DEF OpenSocket
  <2>2. fileno' \in [Sockets -> Nat] /\ holds' \in [Services -> SUBSET Sockets]
        /\ wants' \in [Services -> SUBSET {"read", "write"}]
    BY <1>t, <2>1 DEF PollTypeOK
  <2>3. HeldAreOpen'
    BY <1>t, <2>1 DEF PollInv, PollTypeOK, HeldAreOpen
  <2>4. OneOwner'
    BY <1>t, <2>1 DEF PollInv, PollTypeOK, OneOwner, Lowest
  <2>5. \A t \in DOMAIN slots : fileno'[t] = fileno[t]
    BY <1>t, <2>1 DEF PollTypeOK, Unused
  <2> QED BY <1>1, <2>2, <2>3, <2>4, <2>5, ProgramKeeps DEF OpenSocket, Running
<1>2. ASSUME NEW v \in Services, ShareSocket(v) PROVE PollInv'
  <2>1. PICK w \in Services, m \in Masks :
          /\ holds' = [holds EXCEPT ![v] = holds[w]]
          /\ wants' = [wants EXCEPT ![v] = m]
    BY <1>2 DEF ShareSocket
  <2>2. fileno' = fileno
    BY <1>2 DEF ShareSocket
  <2>3. holds' \in [Services -> SUBSET Sockets] /\ wants' \in [Services -> SUBSET {"read", "write"}]
    BY <1>t, <2>1 DEF PollTypeOK
  <2>4. HeldAreOpen' /\ OneOwner'
    BY <1>t, <2>1, <2>2 DEF PollInv, PollTypeOK, HeldAreOpen, OneOwner
  <2> QED BY <1>t, <1>2, <2>2, <2>3, <2>4, ProgramKeeps DEF ShareSocket, Running, PollTypeOK
<1>3. ASSUME NEW v \in Services, CloseSocket(v) PROVE PollInv'
  BY <1>3, ClosingKeeps DEF CloseSocket, Running
<1>4. ASSUME NEW v \in Services, UpgradeSocket(v) PROVE PollInv'
  <2>1. PICK s \in holds[v], t \in Sockets :
          /\ Unused(t)
          /\ fileno' = [fileno EXCEPT ![t] = fileno[s], ![s] = 0]
          /\ holds' = [w \in Services |-> IF s \in holds[w] THEN {t} ELSE holds[w]]
    BY <1>4 DEF UpgradeSocket
  <2>2. s \in Sockets /\ fileno[s] # 0 /\ s # t /\ UNCHANGED wants
    BY <1>4, <1>t, <2>1 DEF UpgradeSocket, PollInv, PollTypeOK, HeldAreOpen, Unused
  <2>3. fileno' \in [Sockets -> Nat] /\ holds' \in [Services -> SUBSET Sockets]
    BY <1>t, <2>1, <2>2 DEF PollTypeOK
  <2>4. OneOwner'
    BY <1>t, <2>1, <2>2 DEF PollInv, PollTypeOK, OneOwner
  <2>5. \A w \in Services : s \in holds[w] => holds'[w] = {t}
    BY <2>1
  <2>6. \A w \in Services : s \notin holds[w] => holds'[w] = holds[w]
    BY <2>1
  <2>7. fileno'[t] # 0 /\ \A x \in Sockets : x # s => fileno'[x] # 0 \/ fileno[x] = 0
    BY <1>t, <2>1, <2>2 DEF PollTypeOK
  <2>8. HeldAreOpen'
    BY <1>t, <2>5, <2>6, <2>7 DEF PollInv, PollTypeOK, HeldAreOpen
  <2>9. \A x \in DOMAIN slots : fileno'[x] \in {0, fileno[x]}
    BY <1>t, <2>1, <2>2 DEF PollTypeOK, Unused
  <2> QED BY <1>4, <1>t, <2>2, <2>3, <2>4, <2>8, <2>9, ProgramKeeps
          DEF UpgradeSocket, Running, PollTypeOK
<1>5. ASSUME NEW v \in Services, TurnInterest(v) PROVE PollInv'
  <2>1. UNCHANGED <<keyedBy, spc, fileno, holds, slots, built, watched>> /\ spc # "poll"
    BY <1>5 DEF TurnInterest, Running
  <2>2. wants' \in [Services -> SUBSET {"read", "write"}]
    BY <1>5, <1>t DEF TurnInterest, PollTypeOK
  <2>3. HeldAreOpen' /\ OneOwner'
    BY <2>1 DEF PollInv, HeldAreOpen, OneOwner
  <2> QED BY <1>t, <2>1, <2>2, <2>3, ProgramKeeps DEF PollTypeOK
<1>6. CASE WaitWithoutPolling
  <2>1. /\ slots' = SweptSlots /\ spc' = "loop"
        /\ UNCHANGED <<keyedBy, fileno, holds, wants, built>>
        /\ built => watched' = SweptPoller
    BY <1>6 DEF WaitWithoutPolling
  <2> QED BY <1>t, <2>1, SweepKeeps, SweepIsExact DEF PollTypeOK
<1>7. CASE WaitPolls
  <2>1. /\ slots' = SweptSlots /\ spc' = "poll" /\ built'
        /\ UNCHANGED <<keyedBy, fileno, holds, wants>>
        /\ watched' = IF built THEN SweptPoller ELSE ReplayedPoller
    BY <1>7 DEF WaitPolls
  <2>2. /\ DOMAIN watched' = {PollKey(s) : s \in Wanted}
        /\ \A s \in Wanted : watched'[PollKey(s)] = MaskOf(s)
    BY <2>1, SweepIsExact, ReplayIsExact
  <2> QED BY <2>1, <2>2, SweepKeeps
<1>8. ASSUME spc' # "poll", UNCHANGED <<keyedBy, fileno, holds, wants, slots, built, watched>>
      PROVE  PollInv'
  BY <1>8
     DEF PollInv, PollTypeOK, HeldAreOpen, OneOwner, SlotsRecorded, SlotsWatched, SlotKey, JustSwept
<1>9. CASE PollReturns \/ WaitOver
  BY <1>8, <1>9 DEF PollReturns, WaitOver
<1>10. CASE DispatchError
  <2>1. CASE UNCHANGED <<fileno, holds>>
    BY <1>8, <1>10, <2>1 DEF DispatchError
  <2>2. ASSUME NEW v \in Services,
               fileno' = [s \in Sockets |-> IF s \in holds[v] THEN 0 ELSE fileno[s]],
               holds' = [w \in Services |-> holds[w] \ holds[v]]
        PROVE  PollInv'
    BY <1>10, <2>2, ClosingKeeps DEF DispatchError
  <2> QED BY <1>10, <2>1, <2>2 DEF DispatchError
<1>11. CASE UNCHANGED pollVars
  BY <1>11
     DEF PollInv, PollTypeOK, HeldAreOpen, OneOwner, SlotsRecorded, SlotsWatched, SlotKey,
         JustSwept, Wanted, MaskOf, pollVars
<1> QED BY <1>1, <1>2, <1>3, <1>4, <1>5, <1>6, <1>7, <1>9, <1>10, <1>11 DEF PollSetNext

--------------------------------------------------------------------------------
\* With sockets opened, shared, wrapped and closed in any order between two calls
\* of wait(), what it polls is what is wanted: whoever has a descriptor now.
THEOREM PolledAlwaysExact == PollSetSpec => []PolledExactly
<1>1. PollInv => PolledExactly
  <2> SUFFICES ASSUME PollInv, spc = "poll"
               PROVE  /\ DOMAIN watched = {PollKey(s) : s \in Wanted}
                      /\ \A s \in Wanted : watched[PollKey(s)] = MaskOf(s)
    BY DEF PolledExactly
  <2>1. DOMAIN slots = Wanted /\ \A s \in Wanted : SlotKey(s) = PollKey(s)
    BY RecordedIsCurrent DEF PollInv, JustSwept
  <2> QED BY <2>1 DEF PollInv, JustSwept, SlotsWatched
<1> QED BY <1>1, PollInitHolds, PollStepHolds, PTL DEF PollSetSpec

--------------------------------------------------------------------------------
(***************************************************************************)
(* Tasks written as generators.                                            *)
(*                                                                         *)
(* A tick may resume a task only if the checks put it in the batch, and     *)
(* other tasks and callbacks run between the checks and the resumption.  So *)
(* the invariant says whom the batch may leave out: tasks that are Calm,    *)
(* with no bound that has come and no signal set before the tick            *)
(* (BatchHolds).  It needs a waiter's deadline to be the one on its signal, *)
(* where the wrapper looks for it (SlotsTold), and in a sleep that the loop *)
(* wakes no later than any of them (SleepBounded).                          *)
(***************************************************************************)
TaskOf == DOMAIN bodies.task

GenTypeOK ==
    /\ bodies \in Bodies
    /\ gpc \in {"tick", "fire", "wait", "asleep"}
    /\ at \in [TaskOf -> Nat]
    /\ \A g \in TaskOf : at[g] <= Final(g) + 1
    /\ bound \in [TaskOf -> SUBSET Int]
    /\ isSet \in [SignalsOf(bodies) -> BOOLEAN]
    /\ slot \in [SignalsOf(bodies) -> SUBSET Int]
    /\ wakeIn \subseteq Int
    /\ batch \subseteq TaskOf

Waits(g) == At(g, "sleep") \/ At(g, "signal")

Calm(g) ==
    /\ Waits(g) => ~Due(bound[g])
    /\ At(g, "signal") /\ isSet[Here(g).sig] => Here(g).sig \in fresh

\* A waiter's deadline is on its signal, and no deadline is left behind.
SlotsTold ==
    /\ \A g \in TaskOf : At(g, "signal") => slot[Here(g).sig] = bound[g]
    /\ \A s \in DOMAIN slot : slot[s] # {} =>
          \E g \in TaskOf : At(g, "signal") /\ Here(g).sig = s

\* Whoever has something to do is in the batch.
BatchHolds ==
    /\ gpc = "fire" => \A g \in TaskOf \ batch : Calm(g)
    /\ gpc # "fire" => batch = {}
    /\ gpc = "wait" => \A g \in TaskOf : Calm(g)

SleepBounded ==
    gpc = "asleep" =>
        \A g \in TaskOf : Waits(g) =>
            \A d \in bound[g] : \E w \in wakeIn : 0 <= w /\ w <= d

GenInv == GenTypeOK /\ SlotsTold /\ BatchHolds /\ SleepBounded

LEMMA BodiesKnown ==
    ASSUME GenTypeOK
    PROVE  /\ bodies.task \in Seq(Seq(StepType))
           /\ \A g \in TaskOf : Final(g) \in Nat
           /\ \A g \in TaskOf : \A i \in 1 .. Final(g) :
                 /\ bodies.task[g][i].ms \in SUBSET (Nat \ {0})
                 /\ bodies.task[g][i].sig \in Nat
                 /\ bodies.task[g][i].op = "signal" =>
                       /\ bodies.task[g][i].sig \in SignalsOf(bodies)
                       /\ \A h \in TaskOf \ {g} : \A j \in 1 .. Final(h) :
                             bodies.task[h][j].op = "signal" =>
                                 bodies.task[h][j].sig # bodies.task[g][i].sig
  <1>1. bodies \in BodiesType /\ bodies \in Bodies
    BY BodiesAssumption DEF GenTypeOK
  <1>2. bodies.task \in Seq(Seq(StepType))
    BY <1>1 DEF BodiesType
  <1>3. ASSUME NEW g \in TaskOf
        PROVE  /\ Final(g) \in Nat /\ DOMAIN bodies.task[g] = 1 .. Final(g)
               /\ \A i \in 1 .. Final(g) : bodies.task[g][i] \in StepType
    <2>1. bodies.task[g] \in Seq(StepType)
      BY <1>2, <1>3 DEF TaskOf
    <2> QED BY <2>1 DEF Final
  <1>4. ASSUME NEW g \in TaskOf, NEW i \in 1 .. Final(g)
        PROVE  bodies.task[g][i].sig \in SignalsOf(bodies)
    <2>1. bodies.task[g][i] \in ToSet(bodies.task[g])
      BY <1>3, <1>4 DEF ToSet
    <2>2. ToSet(bodies.task[g]) \in {ToSet(bodies.task[h]) : h \in TaskOf}
      OBVIOUS
    <2>3. bodies.task[g][i] \in UNION {ToSet(bodies.task[h]) : h \in TaskOf}
      BY <2>1, <2>2
    <2> QED BY <2>3 DEF SignalsOf, TaskOf
  <1>5. ASSUME NEW g \in TaskOf, NEW i \in 1 .. Final(g), bodies.task[g][i].op = "signal",
               NEW h \in TaskOf \ {g}, NEW j \in 1 .. Final(h), bodies.task[h][j].op = "signal"
        PROVE  bodies.task[h][j].sig # bodies.task[g][i].sig
    BY <1>1, <1>3, <1>5, BodiesAssumption DEF TaskOf
  <1>6. ASSUME NEW g \in TaskOf, NEW i \in 1 .. Final(g)
        PROVE  bodies.task[g][i].ms \in SUBSET (Nat \ {0}) /\ bodies.task[g][i].sig \in Nat
    BY <1>3, <1>6 DEF StepType
  <1> QED BY <1>2, <1>3, <1>4, <1>5, <1>6

\* A task that goes on waits for nothing that has come, and leaves its signal as
\* it found it; the others are not touched.
LEMMA GoingOn ==
    ASSUME GenTypeOK, SlotsTold, NEW g \in TaskOf, NEW i \in Nat \ {0}, GoesOn(g, i),
           UNCHANGED <<bodies, isSet>>
    PROVE  /\ at' \in [TaskOf -> Nat] /\ \A h \in TaskOf : at'[h] <= Final(h) + 1
           /\ bound' \in [TaskOf -> SUBSET Int] /\ slot' \in [SignalsOf(bodies) -> SUBSET Int]
           /\ \A h \in TaskOf \ {g} : at'[h] = at[h] /\ bound'[h] = bound[h]
           /\ SlotsTold'
           /\ Calm(g)'
           /\ \A d \in bound'[g] : d > 0
  <1> DEFINE step == bodies.task[g]
  <1>b. /\ bodies.task \in Seq(Seq(StepType))
        /\ \A h \in TaskOf : Final(h) \in Nat
        /\ \A h \in TaskOf : \A k \in 1 .. Final(h) :
              /\ bodies.task[h][k].ms \in SUBSET (Nat \ {0})
              /\ bodies.task[h][k].sig \in Nat
              /\ bodies.task[h][k].op = "signal" =>
                       /\ bodies.task[h][k].sig \in SignalsOf(bodies)
                       /\ \A f \in TaskOf \ {h} : \A j \in 1 .. Final(f) :
                             bodies.task[f][j].op = "signal" =>
                                 bodies.task[f][j].sig # bodies.task[h][k].sig
    BY BodiesKnown
  <1>1. PICK j \in i .. Final(g) + 1 :
          /\ j <= Final(g) => ~Returns(step[j])
          /\ at' = [at EXCEPT ![g] = j]
          /\ bound' = [bound EXCEPT ![g] = IF j <= Final(g) THEN step[j].ms ELSE {}]
          /\ slot' = SlotsAt(g, j)
    BY DEF GoesOn
  <1>2. j \in Nat /\ j >= 1 /\ (j <= Final(g) <=> j \in 1 .. Final(g)) /\ j <= Final(g) + 1
    BY <1>1, <1>b
  <1>3. at' \in [TaskOf -> Nat] /\ at'[g] = j /\ \A h \in TaskOf \ {g} : at'[h] = at[h]
    BY <1>1, <1>2 DEF GenTypeOK
  <1>4. \A h \in TaskOf : at'[h] <= Final(h) + 1
    BY <1>2, <1>3 DEF GenTypeOK
  <1>5. /\ bound' \in [TaskOf -> SUBSET Int]
        /\ bound'[g] = IF j <= Final(g) THEN step[j].ms ELSE {}
        /\ \A h \in TaskOf \ {g} : bound'[h] = bound[h]
    BY <1>1, <1>2, <1>b DEF GenTypeOK
  <1>6. \A d \in bound'[g] : d > 0
    BY <1>5, <1>2, <1>b
  <1>7. \A h \in TaskOf : (Final(h) = Final(h)') /\ TaskOf' = TaskOf
    BY DEF Final, TaskOf
  <1>8. At(g, "signal")' <=> (j \in 1 .. Final(g) /\ step[j].op = "signal")
    BY <1>3, <1>7 DEF At, Suspended, Here
  <1>9. Here(g)' = step[j]
    BY <1>3 DEF Here
  <1>10. \A h \in TaskOf \ {g} : (At(h, "signal")' <=> At(h, "signal")) /\ Here(h)' = Here(h)
    BY <1>3, <1>7 DEF At, Suspended, Here
  <1>11. DOMAIN slot = SignalsOf(bodies) /\ slot \in [SignalsOf(bodies) -> SUBSET Int]
    BY DEF GenTypeOK
  <1>12. ASSUME NEW s \in SignalsOf(bodies)
         PROVE  slot'[s] = IF j \in 1 .. Final(g) /\ step[j].op = "signal" /\ step[j].sig = s
                           THEN step[j].ms
                           ELSE IF At(g, "signal") /\ Here(g).sig = s THEN {} ELSE slot[s]
    <2>1. (\E x \in {step[k] : k \in {j} \cap (1 .. Final(g))} : x.op = "signal" /\ x.sig = s)
          <=> j \in 1 .. Final(g) /\ step[j].op = "signal" /\ step[j].sig = s
      OBVIOUS
    <2> QED BY <1>1, <1>11, <2>1 DEF SlotsAt
  <1>13. DOMAIN slot' = SignalsOf(bodies) /\ slot' = [s \in SignalsOf(bodies) |-> slot'[s]]
    BY <1>1, <1>11 DEF SlotsAt
  <1>14. slot' \in [SignalsOf(bodies) -> SUBSET Int]
    <2>1. ASSUME NEW s \in SignalsOf(bodies) PROVE slot'[s] \in SUBSET Int
      <3>1. j \in 1 .. Final(g) => step[j].ms \in SUBSET Int
        BY <1>b
      <3>2. slot[s] \in SUBSET Int
        BY <1>11, <2>1
      <3> HIDE DEF step
      <3> QED BY <1>12, <2>1, <3>1, <3>2
    <2> QED BY <2>1, <1>13
  <1>15. ASSUME NEW h \in TaskOf, At(h, "signal")' PROVE slot'[Here(h)'.sig] = bound'[h]
    <2>1. CASE h = g
      <3>1. j \in 1 .. Final(g) /\ step[j].op = "signal" /\ step[j].sig \in SignalsOf(bodies)
        BY <1>8, <1>15, <1>b, <2>1
      <3>2. slot'[step[j].sig] = step[j].ms
        BY <1>12, <3>1
      <3> QED BY <3>1, <3>2, <1>9, <1>5, <1>2, <2>1
    <2>2. CASE h # g
      <3>1. At(h, "signal") /\ Here(h)' = Here(h) /\ bound'[h] = bound[h]
        BY <1>10, <1>5, <1>15, <2>2
      <3>2. at[h] \in 1 .. Final(h) /\ Here(h) = bodies.task[h][at[h]] /\ Here(h).op = "signal"
        BY <3>1 DEF At, Suspended, Here
      <3>3. Here(h).sig \in SignalsOf(bodies)
        BY <3>2, <1>b
      <3>4. ~(j \in 1 .. Final(g) /\ step[j].op = "signal" /\ step[j].sig = Here(h).sig)
        BY <3>2, <1>b, <2>2
      <3>5. ~(At(g, "signal") /\ Here(g).sig = Here(h).sig)
        <4>1. SUFFICES ASSUME At(g, "signal") PROVE Here(g).sig # Here(h).sig
          OBVIOUS
        <4>2. at[g] \in 1 .. Final(g) /\ Here(g) = bodies.task[g][at[g]] /\ Here(g).op = "signal"
          BY <4>1 DEF At, Suspended, Here
        <4>3. \A k \in 1 .. Final(h) : bodies.task[h][k].op = "signal" =>
                 bodies.task[h][k].sig # bodies.task[g][at[g]].sig
          BY <4>2, <1>b, <2>2
        <4> QED BY <4>2, <4>3, <3>2
      <3>6. slot'[Here(h).sig] = slot[Here(h).sig]
        BY <3>3, <3>4, <3>5, <1>12
      <3> QED BY <3>1, <3>6 DEF SlotsTold
    <2> QED BY <2>1, <2>2
  <1>16. ASSUME NEW s \in SignalsOf(bodies), slot'[s] # {}
         PROVE  \E h \in TaskOf : At(h, "signal")' /\ Here(h)'.sig = s
    <2>1. CASE j \in 1 .. Final(g) /\ step[j].op = "signal" /\ step[j].sig = s
      BY <2>1, <1>8, <1>9
    <2>2. CASE ~(j \in 1 .. Final(g) /\ step[j].op = "signal" /\ step[j].sig = s)
      <3>1. ~(At(g, "signal") /\ Here(g).sig = s) /\ slot[s] # {}
        BY <2>2, <1>12, <1>16
      <3>2. PICK h \in TaskOf : At(h, "signal") /\ Here(h).sig = s
        BY <3>1, <1>11, <1>16 DEF SlotsTold
      <3>3. h # g
        BY <3>1, <3>2
      <3> QED BY <3>2, <3>3, <1>10
    <2> QED BY <2>1, <2>2
  <1>17. SlotsTold'
    BY <1>15, <1>16, <1>13, <1>7 DEF SlotsTold
  <1>18. Calm(g)'
    <2>1. ~Due(bound[g])'
      BY <1>6, <1>5 DEF Due
    <2>2. At(g, "signal")' => ~isSet'[Here(g)'.sig]
      BY <1>8, <1>9, <1>1, <1>2 DEF Returns
    <2> QED BY <2>1, <2>2 DEF Calm
  <1> QED BY <1>3, <1>4, <1>5, <1>6, <1>14, <1>17, <1>18

LEMMA GenInitHolds == GeneratorsInit => GenInv
  <1> SUFFICES ASSUME GeneratorsInit PROVE GenInv
    OBVIOUS
  <1>1. bodies \in BodiesType
    BY BodiesAssumption DEF GeneratorsInit
  <1>2. ASSUME NEW g \in TaskOf PROVE Final(g) \in Nat /\ at[g] = 0 /\ ~Suspended(g)
    <2>1. bodies.task[g] \in Seq(StepType) /\ at[g] = 0
      BY <1>1, <1>2 DEF BodiesType, TaskOf, GeneratorsInit
    <2> QED BY <2>1 DEF Final, Suspended
  <1>3. GenTypeOK
    BY <1>2 DEF GenTypeOK, GeneratorsInit, TaskOf
  <1>4. SlotsTold
    BY <1>2 DEF SlotsTold, GeneratorsInit, At, TaskOf
  <1>5. BatchHolds /\ SleepBounded
    BY DEF BatchHolds, SleepBounded, GeneratorsInit
  <1> QED BY <1>3, <1>4, <1>5 DEF GenInv

\* Code that runs outside the sleep and lets one task go on.
LEMMA OneGoesOn ==
    ASSUME GenInv, NEW g \in TaskOf, NEW i \in Nat \ {0}, GoesOn(g, i), gpc # "asleep",
           batch' \in {batch, batch \ {g}}, UNCHANGED <<bodies, gpc, isSet, wakeIn, fresh>>
    PROVE  GenInv'
  <1>0. GenTypeOK /\ SlotsTold
    BY DEF GenInv
  <1>1. /\ at' \in [TaskOf -> Nat] /\ \A h \in TaskOf : at'[h] <= Final(h) + 1
        /\ bound' \in [TaskOf -> SUBSET Int] /\ slot' \in [SignalsOf(bodies) -> SUBSET Int]
        /\ \A h \in TaskOf \ {g} : at'[h] = at[h] /\ bound'[h] = bound[h]
        /\ SlotsTold' /\ Calm(g)'
    BY <1>0, GoingOn
  <1>2. TaskOf' = TaskOf /\ \A h \in TaskOf : Final(h)' = Final(h)
    BY DEF TaskOf, Final
  <1>3. GenTypeOK'
    BY <1>0, <1>1, <1>2 DEF GenTypeOK
  <1>4. \A h \in TaskOf \ {g} : Calm(h) => Calm(h)'
    BY <1>1, <1>2 DEF Calm, Waits, At, Suspended, Here
  <1>5. BatchHolds'
    BY <1>1, <1>2, <1>4 DEF BatchHolds, GenInv
  <1>6. SleepBounded'
    BY DEF SleepBounded
  <1> QED BY <1>1, <1>3, <1>5, <1>6 DEF GenInv

\* The first conjuncts speak of these variables alone.
LEMMA TaskKeeps ==
    ASSUME GenInv, UNCHANGED <<bodies, at, bound, slot>>,
           isSet' \in [SignalsOf(bodies) -> BOOLEAN], wakeIn' \subseteq Int,
           gpc' \in {"tick", "fire", "wait", "asleep"}, batch' \subseteq TaskOf,
           BatchHolds', SleepBounded'
    PROVE  GenInv'
  <1>1. TaskOf' = TaskOf /\ \A h \in TaskOf : Final(h)' = Final(h)
    BY DEF TaskOf, Final
  <1>2. GenTypeOK'
    BY <1>1 DEF GenTypeOK, GenInv
  <1>3. SlotsTold'
    BY <1>1 DEF SlotsTold, GenInv, At, Suspended, Here
  <1> QED BY <1>2, <1>3 DEF GenInv

\* A task that stays as it is, calm.
LEMMA OneStays ==
    ASSUME GenInv, NEW g \in TaskOf, Calm(g), gpc = "fire", batch' = batch \ {g},
           UNCHANGED <<bodies, at, bound, slot, gpc, isSet, wakeIn, fresh>>
    PROVE  GenInv'
  <1>1. TaskOf' = TaskOf /\ \A h \in TaskOf : Calm(h) => Calm(h)'
    BY DEF TaskOf, Final, Calm, Waits, At, Suspended, Here
  <1>2. BatchHolds'
    BY <1>1 DEF BatchHolds, GenInv
  <1>3. SleepBounded'
    BY DEF SleepBounded
  <1> QED BY <1>2, <1>3, TaskKeeps DEF GenInv, GenTypeOK

LEMMA RaisesGoesOn ==
    ASSUME GenTypeOK, NEW g \in TaskOf, Suspended(g) \/ at[g] = 0, Raises(g) \/ Ends(g)
    PROVE  \E i \in Nat \ {0} : GoesOn(g, i)
  <1>1. at[g] + 1 \in Nat \ {0} /\ Final(g) + 1 \in Nat \ {0}
    BY BodiesKnown DEF GenTypeOK
  <1> QED BY <1>1 DEF Raises, Ends

LEMMA ResumeKeeps == GenInv /\ Resume => GenInv'
  <1> SUFFICES ASSUME GenInv, Resume PROVE GenInv'
    OBVIOUS
  <1>0. GenTypeOK /\ batch \subseteq TaskOf /\ batch # {} /\ gpc = "fire"
        /\ UNCHANGED <<bodies, gpc, isSet, wakeIn, fresh>>
    BY DEF GenInv, GenTypeOK, Resume
  <1>1. Min(batch) \in batch
    <2>1. batch \subseteq Nat
      BY <1>0, BodiesKnown DEF TaskOf
    <2> QED BY <2>1, <1>0, Least
  <1>2. PICK g \in TaskOf : /\ ResumeFromYield(g) \/ ResumeFromSignal(g) \/ ResumeTransfer(g)
                               \/ ResumeConnect(g) \/ ResumeEnded(g)
                            /\ batch' = batch \ {g}
    BY <1>0, <1>1 DEF Resume
  <1>3. ASSUME NEW i \in Nat \ {0}, GoesOn(g, i) PROVE GenInv'
    BY <1>0, <1>2, <1>3, OneGoesOn
  <1>4. ASSUME Suspended(g), GoesOn(g, at[g] + 1) \/ Raises(g) PROVE GenInv'
    BY <1>0, <1>3, <1>4, RaisesGoesOn DEF Raises
  <1>5. ASSUME Calm(g), UNCHANGED <<at, bound, slot>> PROVE GenInv'
    BY <1>0, <1>2, <1>5, OneStays
  <1>6. CASE ResumeFromYield(g)
    BY <1>4, <1>6 DEF ResumeFromYield, At
  <1>7. CASE ResumeFromSignal(g)
    <2>1. CASE ~isSet[Here(g).sig] /\ ~Due(bound[g]) /\ StaysSuspended
      BY <1>5, <2>1 DEF Calm, StaysSuspended, waits
    <2> QED BY <1>4, <1>7, <2>1 DEF ResumeFromSignal, At
  <1>8. CASE ResumeTransfer(g)
    <2>1. CASE StaysSuspended
      BY <1>5, <1>8, <2>1 DEF Calm, Waits, At, StaysSuspended, waits, ResumeTransfer
    <2> QED BY <1>4, <1>8, <2>1 DEF ResumeTransfer, At
  <1>9. CASE ResumeConnect(g)
    <2>1. Calm(g) /\ Suspended(g)
      BY <1>9 DEF Calm, Waits, At, ResumeConnect
    <2> QED BY <1>4, <1>5, <1>9, <2>1 DEF ResumeConnect
  <1>10. CASE ResumeEnded(g)
    BY <1>5, <1>10 DEF ResumeEnded, Calm, Waits, At, StaysSuspended, waits
  <1> QED BY <1>2, <1>6, <1>7, <1>8, <1>9, <1>10

\* What next_deadline() names is the bound of every task that waits.
LEMMA BoundNamed ==
    ASSUME GenInv, NEW g \in TaskOf, Waits(g)
    PROVE  NextDeadline(g) = bound[g]
  BY DEF GenInv, SlotsTold, NextDeadline, Waits, At

LEMMA NamedIntegers == GenInv => NamedDeadlines \subseteq Int
  <1> SUFFICES ASSUME GenInv, NEW g \in TaskOf PROVE NextDeadline(g) \subseteq Int
    BY DEF NamedDeadlines, TaskOf
  <1>1. CASE Waits(g)
    BY <1>1, BoundNamed DEF GenInv, GenTypeOK
  <1>2. CASE ~Waits(g)
    BY <1>2 DEF Waits, NextDeadline
  <1> QED BY <1>1, <1>2

LEMMA GenTickKeeps == GenInv /\ GenTick => GenInv'
  <1> SUFFICES ASSUME GenInv, GenTick PROVE GenInv'
    OBVIOUS
  <1>0. /\ UNCHANGED <<bodies, at, bound, slot, isSet, wakeIn>> /\ gpc' = "fire"
        /\ batch' = {g \in TaskOf : Check(g)}
    BY DEF GenTick, waits, TaskOf
  <1>1. ASSUME NEW g \in TaskOf \ batch' PROVE Calm(g)'
    <2>1. ~Check(g)
      BY <1>0, <1>1
    <2>2. Waits(g) => ~Due(bound[g]) /\ ~(At(g, "signal") /\ isSet[Here(g).sig])
      <3>1. SUFFICES ASSUME Waits(g)
                     PROVE  ~Due(bound[g]) /\ ~(At(g, "signal") /\ isSet[Here(g).sig])
        OBVIOUS
      <3>2. NextDeadline(g) = bound[g] /\ Suspended(g)
        BY <3>1, BoundNamed DEF Waits, At
      <3> QED BY <2>1, <3>1, <3>2 DEF Check, Waits
    <2>3. (At(g, "signal")' <=> At(g, "signal")) /\ (Waits(g)' <=> Waits(g)) /\ Here(g)' = Here(g)
      BY <1>0 DEF Waits, At, Suspended, Here, Final
    <2> QED BY <1>0, <2>2, <2>3 DEF Calm, Waits
  <1>2. BatchHolds' /\ SleepBounded'
    BY <1>0, <1>1 DEF BatchHolds, SleepBounded, TaskOf
  <1> QED BY <1>0, <1>2, TaskKeeps DEF GenInv, GenTypeOK

LEMMA SleepKeeps == GenInv /\ GenWaitSleeps => GenInv'
  <1> SUFFICES ASSUME GenInv, GenWaitSleeps PROVE GenInv'
    OBVIOUS
  <1> DEFINE named == NamedDeadlines
  <1>0. /\ UNCHANGED <<bodies, at, bound, slot, isSet, batch>> /\ gpc = "wait" /\ gpc' = "asleep"
        /\ ~Due(named)
        /\ wakeIn' = IF named = {} THEN {} ELSE {Min(named)}
    BY DEF GenWaitSleeps, waits
  <1>1. named \subseteq Int /\ \A d \in named : d >= 1
    <2>1. named \subseteq Int
      BY NamedIntegers
    <2> QED BY <1>0, <2>1 DEF Due
  <1>2. named # {} => Min(named) \in named /\ \A d \in named : Min(named) <= d
    BY <1>1, Least
  <1>3. wakeIn' \subseteq Int
    BY <1>0, <1>1, <1>2
  <1>4. ASSUME NEW g \in TaskOf, Waits(g), NEW d \in bound[g]
        PROVE  \E w \in wakeIn' : 0 <= w /\ w <= d
    <2>1. d \in named
      BY <1>4, BoundNamed DEF NamedDeadlines, TaskOf
    <2> HIDE DEF named
    <2>2. Min(named) \in wakeIn' /\ Min(named) \in named /\ Min(named) <= d
      BY <1>0, <1>2, <2>1
    <2>3. Min(named) >= 1 /\ Min(named) \in Int
      BY <1>1, <2>2
    <2> QED BY <2>2, <2>3
  <1>5. TaskOf' = TaskOf /\ \A g \in TaskOf : Waits(g)' <=> Waits(g)
    BY <1>0 DEF TaskOf, Waits, At, Suspended, Here, Final
  <1>6. SleepBounded'
    BY <1>0, <1>4, <1>5 DEF SleepBounded
  <1>7. BatchHolds'
    BY <1>0 DEF BatchHolds, GenInv
  <1> QED BY <1>0, <1>3, <1>6, <1>7, TaskKeeps DEF GenInv, GenTypeOK

LEMMA LaterIs ==
    ASSUME NEW ds \in SUBSET Int
    PROVE  /\ Later(ds) \in SUBSET Int
           /\ (Later(ds) = {}) <=> (ds = {})
           /\ \A e \in Later(ds) : \E d \in ds : d - 1 <= e
           /\ \A d \in ds : d >= 1 => d - 1 \in Later(ds)
  <1>1. ASSUME NEW d \in Int
        PROVE  /\ Max({d - 1, -1}) \in Int /\ d - 1 <= Max({d - 1, -1})
               /\ d >= 1 => Max({d - 1, -1}) = d - 1
    <2> DEFINE s == {d - 1, -1}
               m == IF d - 1 >= -1 THEN d - 1 ELSE -1
    <2>1. m \in s /\ \A y \in s : m >= y
      OBVIOUS
    <2>2. Max(s) \in s /\ \A y \in s : Max(s) >= y
      <3> HIDE DEF s, m
      <3> QED BY <2>1 DEF Max
    <2>3. Max(s) = d - 1 \/ Max(s) = -1
      BY <2>2
    <2>4. Max(s) >= d - 1 /\ Max(s) >= -1
      BY <2>2
    <2> HIDE DEF s
    <2>5. Max(s) \in Int /\ d - 1 <= Max(s) /\ (d >= 1 => Max(s) = d - 1)
      BY <2>3, <2>4
    <2> QED BY <2>5 DEF s
  <1>2. Later(ds) = {Max({d - 1, -1}) : d \in ds}
    BY DEF Later
  <1>3. ASSUME NEW e \in Later(ds) PROVE e \in Int /\ \E d \in ds : d - 1 <= e
    BY <1>1, <1>2, <1>3
  <1>4. ASSUME NEW d \in ds, d >= 1 PROVE d - 1 \in Later(ds)
    BY <1>1, <1>2, <1>4
  <1>5. (Later(ds) = {}) <=> (ds = {})
    BY <1>2
  <1> QED BY <1>3, <1>4, <1>5

LEMMA PassesKeeps == GenInv /\ Passes => GenInv'
  <1> SUFFICES ASSUME GenInv, Passes PROVE GenInv'
    OBVIOUS
  <1>0. /\ UNCHANGED <<bodies, gpc, batch, at, isSet>>
        /\ gpc = "tick" \/ (gpc = "asleep" /\ 0 \notin wakeIn)
        /\ bound' = [g \in DOMAIN bound |-> Later(bound[g])]
        /\ slot' = [s \in DOMAIN slot |-> Later(slot[s])]
        /\ wakeIn' = Later(wakeIn)
    BY DEF Passes
  <1>1. GenTypeOK /\ SlotsTold
    BY DEF GenInv
  <1>2. /\ bound \in [TaskOf -> SUBSET Int] /\ slot \in [SignalsOf(bodies) -> SUBSET Int]
        /\ wakeIn \in SUBSET Int
    BY <1>1 DEF GenTypeOK
  <1>3. TaskOf' = TaskOf /\ \A h \in TaskOf : Final(h)' = Final(h)
    BY <1>0 DEF TaskOf, Final
  <1>4. \A g \in TaskOf : /\ Waits(g)' <=> Waits(g)
                          /\ At(g, "signal")' <=> At(g, "signal")
                          /\ Here(g)' = Here(g)
                          /\ bound'[g] = Later(bound[g])
    BY <1>0, <1>2 DEF Waits, At, Suspended, Here, Final
  <1>5. bound' \in [TaskOf -> SUBSET Int]
    BY <1>0, <1>2, LaterIs
  <1>6. slot' \in [SignalsOf(bodies) -> SUBSET Int]
    BY <1>0, <1>2, LaterIs
  <1>7. GenTypeOK'
    <2>1. wakeIn' \in SUBSET Int
      BY <1>0, <1>2, LaterIs
    <2> QED BY <1>0, <1>1, <1>3, <1>5, <1>6, <2>1 DEF GenTypeOK
  <1>8. ASSUME NEW g \in TaskOf, At(g, "signal") PROVE slot'[Here(g).sig] = bound'[g]
    <2>1. at[g] \in 1 .. Final(g) /\ bodies.task[g][at[g]].op = "signal"
      BY <1>8 DEF At, Suspended, Here
    <2>2. Here(g).sig \in SignalsOf(bodies)
      BY <1>1, <2>1, BodiesKnown DEF Here
    <2> QED BY <1>0, <1>1, <1>2, <1>4, <1>8, <2>2 DEF SlotsTold
  <1>9. ASSUME NEW s \in DOMAIN slot, slot'[s] # {}
        PROVE  \E g \in TaskOf : At(g, "signal") /\ Here(g).sig = s
    <2>1. slot[s] \in SUBSET Int /\ slot'[s] = Later(slot[s])
      BY <1>0, <1>2
    <2>2. slot[s] # {}
      BY <1>9, <2>1, LaterIs
    <2> QED BY <1>1, <2>2 DEF SlotsTold
  <1>10. SlotsTold'
    BY <1>0, <1>3, <1>4, <1>8, <1>9 DEF SlotsTold
  <1>11. BatchHolds'
    BY <1>0 DEF BatchHolds, GenInv
  <1>12. ASSUME gpc = "asleep", NEW g \in TaskOf, Waits(g), NEW e \in bound'[g]
         PROVE  \E w \in wakeIn' : 0 <= w /\ w <= e
    <2>1. bound[g] \in SUBSET Int /\ bound'[g] = Later(bound[g]) /\ e \in Int
      BY <1>2, <1>4, <1>5, <1>12
    <2>2. PICK d \in bound[g] : d - 1 <= e
      BY <1>12, <2>1, LaterIs
    <2>3. PICK w \in wakeIn : 0 <= w /\ w <= d
      BY <1>12 DEF GenInv, SleepBounded
    <2>4. w \in Int /\ w >= 1 /\ d \in Int
      BY <1>0, <1>2, <1>12, <2>1, <2>3
    <2>5. w - 1 \in wakeIn'
      BY <1>0, <1>2, <2>4, LaterIs
    <2> QED BY <2>1, <2>2, <2>3, <2>4, <2>5
  <1>13. SleepBounded'
    BY <1>0, <1>3, <1>4, <1>12 DEF SleepBounded
  <1> QED BY <1>7, <1>10, <1>11, <1>13 DEF GenInv

LEMMA GenStepHolds == GenInv /\ [GeneratorsNext]_genVars => GenInv'
  <1> SUFFICES ASSUME GenInv, [GeneratorsNext]_genVars PROVE GenInv'
    OBVIOUS
  <1>t. GenTypeOK /\ isSet \in [SignalsOf(bodies) -> BOOLEAN] /\ wakeIn \subseteq Int
        /\ batch \subseteq TaskOf /\ gpc \in {"tick", "fire", "wait", "asleep"}
        /\ at \in [TaskOf -> Nat]
    BY DEF GenInv, GenTypeOK
  \* The tick and the wait, where they only move on.
  <1>1. ASSUME UNCHANGED <<bodies, batch, at, bound, slot, isSet, fresh>>, wakeIn' \subseteq Int,
               \/ gpc' = "tick" /\ gpc # "fire"
               \/ gpc = "fire" /\ batch = {} /\ gpc' = "wait"
        PROVE  GenInv'
    <2>1. TaskOf' = TaskOf /\ \A h \in TaskOf : Calm(h) => Calm(h)'
      BY <1>1 DEF TaskOf, Final, Calm, Waits, At, Suspended, Here
    <2>2. BatchHolds' /\ SleepBounded'
      BY <1>1, <2>1 DEF BatchHolds, SleepBounded, GenInv
    <2> QED BY <1>1, <1>t, <2>2, TaskKeeps
  <1>2. CASE GenTickReturns \/ GenWaitReturns \/ GenWakes
    BY <1>1, <1>2, <1>t DEF GenTickReturns, GenWaitReturns, GenWakes, waits
  <1>3. ASSUME NEW g \in TaskOf, AddGenerator(g) \/ Cancel(g) PROVE GenInv'
    <2>1. PICK i \in Nat \ {0} : GoesOn(g, i)
      BY <1>t, <1>3, RaisesGoesOn DEF AddGenerator, Cancel
    <2> QED BY <1>3, <2>1, OneGoesOn DEF AddGenerator, Cancel, CodeRuns
  <1>4. ASSUME NEW g \in TaskOf, GenIoError(g) PROVE GenInv'
    <2>1. Suspended(g)
      BY <1>4 DEF GenIoError, IoSocket, At
    <2>2. PICK i \in Nat \ {0} : GoesOn(g, i)
      BY <1>t, <1>4, <2>1, RaisesGoesOn DEF GenIoError
    <2>3. UNCHANGED <<bodies, batch, isSet>> /\ gpc = "asleep" /\ gpc' = "tick" /\ wakeIn' = {}
      BY <1>4 DEF GenIoError
    <2>4. /\ at' \in [TaskOf -> Nat] /\ \A h \in TaskOf : at'[h] <= Final(h) + 1
          /\ bound' \in [TaskOf -> SUBSET Int] /\ slot' \in [SignalsOf(bodies) -> SUBSET Int]
          /\ SlotsTold'
      BY <2>2, <2>3, GoingOn DEF GenInv
    <2>5. TaskOf' = TaskOf /\ \A h \in TaskOf : Final(h)' = Final(h)
      BY <2>3 DEF TaskOf, Final
    <2>6. GenTypeOK'
      BY <1>t, <2>3, <2>4, <2>5 DEF GenTypeOK
    <2>7. BatchHolds' /\ SleepBounded'
      BY <2>3 DEF BatchHolds, SleepBounded, GenInv
    <2> QED BY <2>4, <2>6, <2>7 DEF GenInv
  <1>5. ASSUME NEW s \in DOMAIN isSet, SetSignal(s) \/ ClearSignal(s) PROVE GenInv'
    <2>1. /\ UNCHANGED <<bodies, gpc, batch, at, bound, slot, wakeIn>> /\ gpc # "asleep"
          /\ \/ isSet' = [isSet EXCEPT ![s] = TRUE] /\ fresh' = fresh \cup {s}
             \/ isSet' = [isSet EXCEPT ![s] = FALSE] /\ fresh' = fresh
      BY <1>5 DEF SetSignal, ClearSignal, CodeRuns, waits
    <2>2. isSet' \in [SignalsOf(bodies) -> BOOLEAN]
      BY <1>t, <2>1
    <2>3. ASSUME NEW g \in TaskOf, Calm(g) PROVE Calm(g)'
      <3>1. /\ Waits(g)' <=> Waits(g)
            /\ At(g, "signal")' <=> At(g, "signal")
            /\ Here(g)' = Here(g) /\ bound'[g] = bound[g]
        BY <2>1 DEF Waits, At, Suspended, Here, Final
      <3>2. ASSUME At(g, "signal"), isSet'[Here(g).sig] PROVE Here(g).sig \in fresh'
        <4>1. at[g] \in 1 .. Final(g) /\ bodies.task[g][at[g]].op = "signal"
          BY <3>2 DEF At, Suspended, Here
        <4>2. Here(g).sig \in SignalsOf(bodies)
          BY <1>t, <4>1, BodiesKnown DEF Here
        <4>3. Here(g).sig # s => isSet[Here(g).sig]
          BY <1>t, <2>1, <3>2, <4>2
        <4>4. Here(g).sig = s => fresh' = fresh \cup {s}
          BY <1>t, <2>1, <3>2, <4>2
        <4> QED BY <2>1, <2>3, <3>2, <4>3, <4>4 DEF Calm
      <3> QED BY <2>3, <3>1, <3>2 DEF Calm
    <2>4. BatchHolds' /\ SleepBounded'
      <3>1. TaskOf' = TaskOf
        BY <2>1 DEF TaskOf
      <3> QED BY <2>1, <2>3, <3>1 DEF BatchHolds, SleepBounded, GenInv
    <2> QED BY <1>t, <2>1, <2>2, <2>4, TaskKeeps
  <1>6. CASE UNCHANGED genVars
    BY <1>6 DEF genVars, GenInv, GenTypeOK, SlotsTold, BatchHolds, SleepBounded, Calm, Waits, Due,
                At, Suspended, Here, Final, TaskOf
  <1> QED BY <1>2, <1>3, <1>4, <1>5, <1>6, GenTickKeeps, ResumeKeeps, SleepKeeps, PassesKeeps
          DEF GeneratorsNext, TaskOf

\* Whatever other tasks, handlers and callbacks do between the checks of a tick and
\* its resumptions, no task is left waiting for what has come, the loop sleeps
\* through no bound, and no deadline outlives the wait it was set for.
THEOREM TasksAlwaysResume == GeneratorsSpec => []TasksResume
  <1>1. GenInv => TasksResume
    <2> SUFFICES ASSUME GenInv PROVE TasksResume
      OBVIOUS
    <2>1. gpc = "wait" => \A g \in DOMAIN bodies.task :
              /\ At(g, "sleep") \/ At(g, "signal") => ~Due(bound[g])
              /\ At(g, "signal") /\ isSet[Here(g).sig] => Here(g).sig \in fresh
      BY DEF GenInv, BatchHolds, Calm, Waits, TaskOf
    <2>2. ASSUME gpc = "asleep", NEW g \in TaskOf, Waits(g) PROVE -1 \notin bound[g]
      <3>1. \A w \in wakeIn : w \in Int
        BY DEF GenInv, GenTypeOK
      <3> QED BY <2>2, <3>1 DEF GenInv, SleepBounded
    <2>3. \A s \in DOMAIN slot : slot[s] # {} =>
              \E g \in TaskOf : At(g, "signal") /\ Here(g).sig = s /\ bound[g] = slot[s]
      BY DEF GenInv, SlotsTold
    <2> QED BY <2>1, <2>2, <2>3 DEF TasksResume, Waits, TaskOf
  <1> QED BY <1>1, GenInitHolds, GenStepHolds, PTL DEF GeneratorsSpec
=============================================================================
