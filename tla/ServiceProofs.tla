---------------------------- MODULE ServiceProofs ----------------------------
(***************************************************************************)
(* Proofs about the services an application puts on the loop, each on its  *)
(* own: Wi-Fi for every timeout, backoff and attempt limit, both kinds of  *)
(* adapter and any number of outages; the key-value store for every        *)
(* backend, every set of keys and values and every capacity; the NTP       *)
(* client for any datagrams a server sends and the wire loses, repeats and *)
(* reorders; knobs for every detent size, range, noise and deadband.       *)
(***************************************************************************)
EXTENDS WifiService, KVStore, NtpClient, Knobs, TLAPS, WellFoundedInduction

-----------------------------------------------------------------------------
(* Wi-Fi                                                                   *)
(*                                                                         *)
(* TypeOK, StateAgrees and Wait together are inductive.  BackoffRespected  *)
(* is not by itself: it speaks of the instants at which an attempt may     *)
(* start, so Wait carries the argument through the instants before them.   *)

USE DEF None, NoGrace, NoLimit

\* What has been waited and what is left to wait cover the backoff owed.
Wait == owed <= sinceFail + due

Inv == TypeOK /\ StateAgrees /\ Wait

\* _register_failed_attempt keeps the invariant: below the limit the service
\* goes on with a whole backoff to wait, at the limit it is FAILED.
LEMMA FailureKeepsInv ==
  ASSUME Inv, state \in Dialling, due = 0,
         NEW error \in {"none", "adapter", "callback"},
         RegisterFailedAttempt(error)
  PROVE  /\ state' \in Dialling \cup {"failed"}
         /\ lastError' \in {"none", "adapter", "callback"}
         /\ due' \in 0..BackoffMax
         /\ backoff' \in BackoffStart..BackoffMax
         /\ attempts' \in 0..AttemptCap
         /\ deadline' = None
         /\ owed' \in 0..BackoffMax /\ sinceFail' \in 0..BackoffMax
         /\ state' = "failed" => reconnectMax # NoLimit /\ attempts' >= reconnectMax
         /\ state' # "failed" /\ reconnectMax # NoLimit => attempts' < reconnectMax
         /\ owed' <= sinceFail' + due'
<1> DEFINE n == Lesser(attempts + 1, AttemptCap)
<1>0. reconnectMax \in Nat /\ reconnectMax <= AttemptCap
  BY WifiAssumption DEF Inv, TypeOK
<1>1. n \in 0..AttemptCap
  BY WifiAssumption DEF Inv, TypeOK, Lesser
<1>2. CASE reconnectMax # NoLimit /\ n >= reconnectMax
  BY WifiAssumption, <1>0, <1>1, <1>2
  DEF RegisterFailedAttempt, NextBackoff, NextDue, Transition, Inv, TypeOK,
     StateAgrees, Wait, Dialling, States, history
<1>3. CASE reconnectMax = NoLimit \/ n < reconnectMax
  <2>1. due' = backoff /\ backoff' = Lesser(backoff * 2, BackoffMax)
        /\ owed' = backoff /\ sinceFail' = 0 /\ lastError' = error
        /\ state' = state /\ attempts' = n /\ deadline' = None
    BY WifiAssumption, <1>0, <1>1, <1>3 DEF RegisterFailedAttempt, NextBackoff, NextDue
  <2>2. backoff' \in BackoffStart..BackoffMax
    BY WifiAssumption, <2>1 DEF Lesser, Inv, TypeOK
  <2> QED
    BY WifiAssumption, <1>0, <1>1, <1>3, <2>1, <2>2 DEF Inv, TypeOK, Dialling
<1> QED
  BY WifiAssumption, <1>0, <1>1, <1>2, <1>3

\* _mark_connected keeps it from any dialling state.
LEMMA SuccessKeepsInv ==
  ASSUME Inv, MarkConnected
  PROVE  /\ state' = "connected"
         /\ lastError' \in {"none", "callback"}
         /\ due' = due /\ owed' = owed /\ sinceFail' = sinceFail
         /\ backoff' = BackoffStart /\ attempts' = 0 /\ deadline' = None
  BY DEF MarkConnected, Transition, history

\* A fresh service satisfies the invariant: nothing is owed yet.
THEOREM InitInv == ASSUME Init PROVE Inv
<1>1. outages \in 0..Outages
  BY WifiAssumption DEF Init
<1>2. TypeOK
  <2>0. blocking \in Adapters /\ reconnectMax \in Limits
    BY DEF Init
  <2>1. due \in 0..BackoffMax /\ owed \in 0..BackoffMax /\ sinceFail \in 0..BackoffMax
        /\ backoff \in BackoffStart..BackoffMax /\ attempts \in 0..AttemptCap
    BY WifiAssumption DEF Init
  <2>2. state \in States /\ lastError \in {"none", "adapter", "callback"}
        /\ pc \in {"idle", "handle", "connect"} /\ link \in {"down", "joining", "up"}
    BY DEF Init, States
  <2>3. deadline \in Int /\ deadline >= None /\ dial \in Nat /\ joinIn \in Nat
    BY DEF Init
  <2>4. apUp \in BOOLEAN /\ dispatched \in BOOLEAN /\ configured \in BOOLEAN
    BY DEF Init
  <2> QED BY <1>1, <2>0, <2>1, <2>2, <2>3, <2>4 DEF TypeOK
<1>3. StateAgrees /\ Wait
  BY WifiAssumption DEF Init, StateAgrees, Wait
<1> QED BY <1>2, <1>3 DEF Inv

\* Every step of the tick, the clock and the radio preserves the invariant.
THEOREM NextInv == ASSUME Inv, [Next]_vars PROVE Inv'
<1>0. blocking' = blocking /\ reconnectMax' = reconnectMax
  BY DEF Next, vars, config
<1> USE <1>0 DEF Inv, TypeOK, StateAgrees, Wait, States, Dialling, service, radio, history
<1>1. CASE Check
  BY <1>1 DEF Check
<1>2. CASE HandleConnected
  BY WifiAssumption, <1>2 DEF HandleConnected, Transition
<1>3. CASE HandleDisconnected
  BY <1>3 DEF HandleDisconnected, Transition
<1>4. CASE PollInFlight
  <2>1. CASE link = "up"
    BY WifiAssumption, <1>4, <2>1, SuccessKeepsInv DEF PollInFlight
  <2>2. CASE link # "up" /\ deadline = 0
    <3>1. RegisterFailedAttempt(lastError)
      BY <1>4, <2>2 DEF PollInFlight
    <3> QED
      BY WifiAssumption, <1>4, <2>2, <3>1 DEF PollInFlight, RegisterFailedAttempt, NextBackoff, NextDue, Transition, Lesser
  <2>3. CASE link # "up" /\ deadline # 0
    BY <1>4, <2>3 DEF PollInFlight
  <2> QED BY <2>1, <2>2, <2>3
<1>5. CASE ConfigureRaises
  BY <1>5, FailureKeepsInv DEF ConfigureRaises, MayAttempt
<1>6. CASE ConnectRaises
  BY <1>6, FailureKeepsInv DEF ConnectRaises, MayAttempt
<1>7. CASE AlreadyLinked
  BY WifiAssumption, <1>7, SuccessKeepsInv DEF AlreadyLinked
<1>8. CASE DispatchJoin
  BY WifiAssumption, <1>8 DEF DispatchJoin, MayAttempt, StartJoin, AttemptTimeout
<1>9. CASE BeginBlockingConnect
  BY WifiAssumption, <1>9 DEF BeginBlockingConnect, MayAttempt, StartJoin, AttemptTimeout
<1>10. CASE EndBlockingConnect
  <2>0. /\ pc' = "idle" /\ dial' = 0
        /\ dispatched' = dispatched /\ configured' = configured
        /\ link' \in {"down", "up"} /\ joinIn' \in Nat
        /\ apUp' = apUp /\ outages' = outages
    BY <1>10 DEF EndBlockingConnect
  <2>1. CASE MarkConnected
    BY WifiAssumption, <2>0, <2>1, SuccessKeepsInv
  <2>2. CASE RegisterFailedAttempt(lastError)
    <3>1. state \in Dialling /\ due = 0
      BY <1>10 DEF EndBlockingConnect
    <3> QED BY <2>0, <2>2, <3>1, FailureKeepsInv
  <2> QED BY <1>10, <2>1, <2>2 DEF EndBlockingConnect
<1>11. CASE Clock
  <2>1. /\ due' \in 0..BackoffMax
        /\ deadline' \in Int /\ deadline' >= None
        /\ dial' \in Nat /\ joinIn' \in Nat
    BY WifiAssumption, <1>11 DEF Clock, Left
  <2>2. sinceFail' \in 0..BackoffMax /\ owed' = owed
    BY WifiAssumption, <1>11 DEF Clock, Lesser
  <2>3. owed <= sinceFail' + due'
    BY WifiAssumption, <1>11 DEF Clock, Lesser, Left
  <2>4. (deadline' # None => deadline # None) /\ (due = 0 => due' = 0)
    BY <1>11 DEF Clock, Left
  <2>5. TypeOK'
    BY <1>11, <2>1, <2>2 DEF Clock
  <2>6. StateAgrees'
    BY <1>11, <2>4 DEF Clock
  <2>7. Wait'
    BY <2>2, <2>3
  <2> QED BY <2>5, <2>6, <2>7
<1>12. CASE AccessPointLost
  <2>1. outages' \in 0..Outages
    BY WifiAssumption, <1>12 DEF AccessPointLost
  <2>2. apUp' = FALSE /\ joinIn' = 0 /\ link' \in {"down", "joining", "up"}
    BY <1>12 DEF AccessPointLost
  <2>3. UNCHANGED <<service, pc, dial, history>>
    BY <1>12 DEF AccessPointLost
  <2>4. apUp' \in BOOLEAN /\ joinIn' \in Nat
    BY <2>2
  <2>5. TypeOK'
    BY <2>1, <2>2, <2>3, <2>4
  <2>6. StateAgrees' /\ Wait'
    BY <2>3
  <2> QED BY <2>5, <2>6
<1>13. CASE AccessPointBack
  BY <1>13 DEF AccessPointBack
<1>14. CASE LinkLost
  BY <1>14 DEF LinkLost
<1>15. CASE UNCHANGED vars
  BY <1>15 DEF vars
<1> HIDE DEF Inv, service, radio, history
<1> QED
  BY <1>1, <1>2, <1>3, <1>4, <1>5, <1>6, <1>7, <1>8, <1>9, <1>10, <1>11,
     <1>12, <1>13, <1>14, <1>15 DEF Next, Handle

\* The invariant holds in every reachable state.
THEOREM InvHolds == Spec => []Inv
<1>1. Init => Inv BY InitInv
<1>2. Inv /\ [Next]_vars => Inv' BY NextInv
<1> QED BY <1>1, <1>2, PTL DEF Spec

\* The variables of the service stay in their types (service.py:89-112).
THEOREM TypeCorrect == Spec => []TypeOK
<1>1. Inv => TypeOK BY DEF Inv
<1> QED BY <1>1, InvHolds, PTL

\* FAILED is reached by spending the whole budget only, and a join is in
\* flight only while dialling (service.py:207-231).
THEOREM StateAlwaysAgrees == Spec => []StateAgrees
<1>1. Inv => StateAgrees BY DEF Inv
<1> QED BY <1>1, InvHolds, PTL

\* No attempt starts before the backoff of the previous failure has passed
\* (service.py:223-226), whatever connect() burned.
THEOREM BackoffAlwaysRespected == Spec => []BackoffRespected
<1>1. Inv => BackoffRespected
  BY DEF Inv, TypeOK, Wait, BackoffRespected, MayAttempt
<1> QED BY <1>1, InvHolds, PTL

-----------------------------------------------------------------------------
(* The grace of the first join.                                            *)

\* While the access point has never been out of reach, a join under way is over
\* before the deadline it was given, so that no attempt fails but in the adapter.
Covered ==
    outages = Outages =>
        /\ apUp
        /\ link = "joining" => joinIn > 0
        /\ deadline # None => link = "up" \/ (link = "joining" /\ joinIn <= deadline)
        /\ pc = "connect" => link = "up" \/ (link = "joining" /\ joinIn <= dial)
        /\ lastError # "adapter" => attempts = 0

\* A failed attempt of the adapter says so, and is all that fails.
LEMMA StepCovers ==
  ASSUME JoinTime <= ConnectTimeout, ColdJoinTime <= FirstTimeout,
         Inv, Covered, [Next]_vars
  PROVE  Covered'
<1> USE WifiAssumption DEF Inv, TypeOK, Covered, service, radio, history
<1>1. CASE Check
  BY <1>1 DEF Check
<1>2. CASE HandleConnected
  BY <1>2 DEF HandleConnected, Transition, StateAgrees
<1>3. CASE HandleDisconnected
  BY <1>3 DEF HandleDisconnected, Transition
<1>4. CASE PollInFlight
  <2>1. CASE link = "up"
    BY <1>4, <2>1 DEF PollInFlight, MarkConnected
  <2>2. CASE link # "up" /\ deadline = 0
    <3>1. outages # Outages
      BY <1>4, <2>2 DEF PollInFlight
    <3> QED BY <1>4, <3>1 DEF PollInFlight
  <2>3. CASE link # "up" /\ deadline # 0
    BY <1>4, <2>3 DEF PollInFlight
  <2> QED BY <2>1, <2>2, <2>3
<1>5. ASSUME RegisterFailedAttempt("adapter") PROVE lastError' = "adapter" /\ deadline' = None
  BY <1>5 DEF RegisterFailedAttempt, Transition
<1>6. CASE ConfigureRaises
  BY <1>5, <1>6 DEF ConfigureRaises
<1>7. CASE ConnectRaises
  BY <1>5, <1>7 DEF ConnectRaises
<1>8. CASE AlreadyLinked
  BY <1>8 DEF AlreadyLinked, MarkConnected
<1>9. apUp /\ StartJoin => link' = "joining" /\ joinIn' > 0 /\ joinIn' <= AttemptTimeout
  BY DEF StartJoin, AttemptTimeout
<1>10. CASE DispatchJoin
  BY <1>9, <1>10 DEF DispatchJoin, StartJoin, MayAttempt
<1>11. CASE BeginBlockingConnect
  BY <1>9, <1>11 DEF BeginBlockingConnect, StartJoin, MayAttempt
<1>12. CASE EndBlockingConnect
  <2>1. CASE link = "up" /\ MarkConnected /\ UNCHANGED radio
    BY <1>12, <2>1 DEF EndBlockingConnect, MarkConnected
  <2>2. CASE link = "down" \/ (link = "joining" /\ dial = 0)
    <3>1. outages # Outages
      BY <1>12, <2>2 DEF EndBlockingConnect
    <3> QED BY <1>12, <3>1 DEF EndBlockingConnect
  <2> QED BY <1>12, <2>1, <2>2 DEF EndBlockingConnect
<1>13. CASE Clock
  BY <1>13 DEF Clock, Left, Busy
<1>14. CASE AccessPointLost
  BY <1>14 DEF AccessPointLost
<1>15. CASE AccessPointBack \/ LinkLost
  BY <1>15 DEF AccessPointBack, LinkLost
<1>16. CASE UNCHANGED vars
  BY <1>16 DEF vars
<1> HIDE DEF Inv, TypeOK, Covered, service, radio, history
<1> QED
  BY <1>1, <1>2, <1>3, <1>4, <1>6, <1>7, <1>8, <1>10, <1>11, <1>12, <1>13, <1>14,
     <1>15, <1>16 DEF Next, Handle

\* However long a cold radio takes for its first join, and a warm one for the
\* next: within the timeout each is given, no failure is counted that the adapter
\* did not raise and no outage explains (`_attempt_timeout_ms`, `_poll_in_flight`).
THEOREM GraceAlwaysCovers ==
  ASSUME JoinTime <= ConnectTimeout, ColdJoinTime <= FirstTimeout
  PROVE  Spec => []GraceCoversColdStart
<1>1. Init => Covered
  BY WifiAssumption DEF Init, Covered
<1>2. Inv /\ Covered /\ [Next]_vars => Covered'
  BY StepCovers
<1>3. Covered => GraceCoversColdStart
  BY DEF Covered, GraceCoversColdStart
<1> QED BY <1>1, <1>2, <1>3, InvHolds, PTL DEF Spec

-----------------------------------------------------------------------------
(* The key-value store                                                     *)
(*                                                                         *)
(* It implements the durable map and never skips a write it owes.  The     *)
(* invariant says who may hold what: only a save in progress has a job,    *)
(* which is the dict in memory; the temporary file is whole when it is     *)
(* renamed, and the medium once set_blob() returned; a damaged medium is   *)
(* empty and known to be so, and only NVM has one; what the flash is       *)
(* undecided between are whole records, and only NVS leaves it so.         *)

Records == {Whole(p) : p \in SUBSET Dicts}
Files   == Records \cup {Damaged}

Saving == phase \notin {"off", "idle"}

KInv ==
    /\ backend \in Backends
    /\ phase \in {"off", "idle", "open", "write", "rename", "blob", "sync", "slab"}
    /\ data \in Dicts
    /\ corrupt \in BOOLEAN /\ dirty \in BOOLEAN
    /\ medium \in Files
    /\ Saving => job = {data}
    /\ phase = "rename" => tmp = Whole(job)
    /\ phase = "sync" => medium = Whole(job)
    /\ phase = "slab" => backend = "nvm"
    /\ Saving => (backend = "nvs" <=> phase \in {"blob", "sync"})
    /\ medium.torn => backend = "nvm"
    /\ unsettled \subseteq Records
    /\ backend # "nvs" => unsettled = {}
    /\ phase = "off" => unsettled = {}
    /\ phase = "off" => data = Empty /\ ~corrupt
    /\ LastIsStored

\* A record is what it says it is.
LEMMA FileFields ==
    /\ \A p : Whole(p).payload = p /\ Whole(p).torn = FALSE
    /\ Damaged.payload = {} /\ Damaged.torn = TRUE
    /\ \A f \in Files : f = Damaged \/ \E p \in SUBSET Dicts : f = Whole(p)
    /\ \A f \in Records : f.torn = FALSE
    /\ \A f \in Files : f.torn \in BOOLEAN /\ (f.torn => f.payload = {})
  <1>1. /\ \A p : Whole(p).payload = p /\ Whole(p).torn = FALSE
        /\ Damaged.payload = {} /\ Damaged.torn = TRUE
    BY DEF Whole, Damaged
  <1>2. \A f \in Files : f = Damaged \/ \E p \in SUBSET Dicts : f = Whole(p)
    BY DEF Files, Records
  <1>3. \A f \in Records : f.torn = FALSE
    BY <1>1 DEF Records
  <1> QED
    BY <1>1, <1>2, <1>3

LEMMA Decoded ==
    /\ Decode({}) = Empty
    /\ \A d : Decode({d}) = d
    /\ \A p \in SUBSET Dicts : Decode(p) \in Dicts
    /\ Empty \in Dicts
  <1>1. Empty \in [{} -> Values]
    BY DEF Empty
  <1>2. Empty \in Dicts
    BY <1>1 DEF Dicts
  <1>3. Decode({}) = Empty
    BY DEF Decode
  <1>4. \A d : Decode({d}) = d
    BY DEF Decode
  <1>5. ASSUME NEW p \in SUBSET Dicts
        PROVE  Decode(p) \in Dicts
    <2>1. CASE p = {}
      BY <1>2, <1>3, <2>1
    <2>2. CASE p # {}
      <3>1. \E d \in p : TRUE
        BY <2>2
      <3>2. (CHOOSE d \in p : TRUE) \in p
        BY <3>1
      <3> QED
        BY <2>2, <3>2 DEF Decode
    <2> QED
      BY <2>1, <2>2
  <1> QED
    BY <1>2, <1>3, <1>4, <1>5

\* The operations of the dict make dicts.
LEMMA DictOps ==
    ASSUME NEW d \in Dicts
    PROVE  /\ \A e \in Dicts :
                 [k \in DOMAIN d \cup DOMAIN e |-> IF k \in DOMAIN e THEN e[k] ELSE d[k]]
                     \in Dicts
           /\ \A k : [x \in DOMAIN d \ {k} |-> d[x]] \in Dicts
           /\ \A k : \A v \in Values : [d EXCEPT ![k] = v] \in Dicts
  <1>1. \A e \in Dicts : DOMAIN e \in SUBSET Keys /\ \A k \in DOMAIN e : e[k] \in Values
    BY DEF Dicts
  <1>2. \A K \in SUBSET Keys : [K -> Values] \subseteq Dicts
    BY DEF Dicts
  <1>3. ASSUME NEW e \in Dicts
        PROVE  [k \in DOMAIN d \cup DOMAIN e |-> IF k \in DOMAIN e THEN e[k] ELSE d[k]]
                   \in Dicts
    <2>1. [k \in DOMAIN d \cup DOMAIN e |-> IF k \in DOMAIN e THEN e[k] ELSE d[k]]
              \in [DOMAIN d \cup DOMAIN e -> Values]
      BY <1>1
    <2>2. DOMAIN d \cup DOMAIN e \in SUBSET Keys
      BY <1>1
    <2> QED
      BY <1>2, <2>1, <2>2
  <1>4. ASSUME NEW k
        PROVE  [x \in DOMAIN d \ {k} |-> d[x]] \in Dicts
    <2>1. [x \in DOMAIN d \ {k} |-> d[x]] \in [DOMAIN d \ {k} -> Values]
      BY <1>1
    <2>2. DOMAIN d \ {k} \in SUBSET Keys
      BY <1>1
    <2> QED
      BY <1>2, <2>1, <2>2
  <1>5. ASSUME NEW k, NEW v \in Values
        PROVE  [d EXCEPT ![k] = v] \in Dicts
    <2>1. PICK K \in SUBSET Keys : d \in [K -> Values]
      BY DEF Dicts
    <2>2. [d EXCEPT ![k] = v] \in [K -> Values]
      BY <2>1
    <2> QED
      BY <1>2, <2>2
  <1> QED
    BY <1>3, <1>4, <1>5

LEMMA KInvInit ==
    StoreInit => KInv
  BY FileFields, Decoded DEF StoreInit, KInv, Files, Records, Saving, LastIsStored

-----------------------------------------------------------------------------
\* One lemma per kind of step, each with what it means for the durable map.

LEMMA DictStep ==
    ASSUME KInv, UNCHANGED setup, NEW d \in Dicts, Changed(d)
    PROVE  KInv' /\ Durable!Next
  <1>1. KInv'
    BY DEF KInv, setup, media, Changed, Saving, LastIsStored
  <1>2. Durable!Change
    BY DEF Durable!Change, Durable!medium, Changed, media
  <1> QED
    BY <1>1, <1>2 DEF Durable!Next, Durable!kind, setup

LEMMA InPlaceStep ==
    ASSUME KInv, UNCHANGED setup, NEW k \in Keys, NEW v \in Mutable, InPlace(k, v)
    PROVE  KInv' /\ Durable!Next
  <1>0. data' \in Dicts
    BY DictOps, KVAssumption DEF KInv, InPlace
  <1>1. KInv'
    BY <1>0 DEF KInv, setup, media, InPlace, Saving, LastIsStored
  <1>2. Durable!Change
    BY <1>0 DEF Durable!Change, Durable!medium, InPlace, media
  <1> QED
    BY <1>1, <1>2 DEF Durable!Next, Durable!kind, setup

LEMMA StartStep ==
    ASSUME KInv, UNCHANGED setup, phase = "idle", StartSave
    PROVE  KInv' /\ UNCHANGED Durable!vars
  <1>0. backend \in {"littlefs", "nvs", "nvm"}
    BY KVAssumption DEF KInv
  <1>1. phase' \in {"open", "blob", "slab"} /\ (phase' = "slab" => backend = "nvm")
    BY <1>0 DEF StartSave, Persist, FirstStep
  <1>2. phase' = "blob" <=> backend = "nvs"
    BY <1>0 DEF StartSave, Persist, FirstStep
  <1>3. KInv'
    BY <1>1, <1>2 DEF KInv, setup, media, StartSave, Persist, store, Saving, LastIsStored
  <1> QED
    BY <1>1, <1>3 DEF StartSave, store, media, Durable!vars, Durable!medium, Durable!kind, setup

LEMMA RaiseStep ==
    ASSUME KInv, UNCHANGED setup, Saving, SaveRaises, UNCHANGED <<medium, unsettled>>
    PROVE  KInv' /\ UNCHANGED Durable!vars
  <1>1. KInv'
    BY DEF KInv, setup, SaveRaises, store, Saving, LastIsStored
  <1> QED
    BY <1>1 DEF SaveRaises, store, Saving, Durable!vars, Durable!medium, Durable!kind, setup

LEMMA ReturnStep ==
    ASSUME KInv, UNCHANGED setup, Saving, SaveReturns, medium' = Whole(job), unsettled' = {}
    PROVE  KInv' /\ Durable!Next
  <1>1. job = {data} /\ job \in SUBSET Dicts
    BY DEF KInv
  <1>2. /\ medium' \in Files
        /\ medium'.torn = FALSE /\ medium'.payload = {data} /\ last' = {data}
    BY <1>1, FileFields DEF Files, Records, SaveReturns
  <1>3. KInv'
    BY <1>1, <1>2 DEF KInv, setup, SaveReturns, Saving, LastIsStored
  <1>4. Decode(medium'.payload) = data
    BY <1>2, Decoded
  <1>5. Durable!Save
    BY <1>2, <1>4 DEF SaveReturns, Saving, Durable!Save, Durable!Stored
  <1> QED
    BY <1>3, <1>5 DEF Durable!Next, Durable!kind, setup

\* What the three outcomes of a load make of the invariant.
LEMMA ReadStep ==
    ASSUME KInv, UNCHANGED setup, phase \in {"off", "idle"}, phase' = "idle",
           UNCHANGED <<medium, unsettled>>, LoadReads \/ LoadMisses
    PROVE  /\ KInv'
           /\ \/ /\ data' = Decode(medium.payload) /\ corrupt' = medium.torn
                 /\ ~medium.torn
              \/ /\ data' = Empty /\ backend # "nvm"
                 /\ corrupt' \in BOOLEAN
  <1>1. CASE LoadReads
    <2>1. medium.payload \in SUBSET Dicts
      BY FileFields DEF KInv
    <2>2. /\ data' = Decode(medium.payload) /\ data' \in Dicts
          /\ last' = medium.payload /\ corrupt' = FALSE /\ dirty' = FALSE /\ ~medium.torn
      BY <1>1, <2>1, Decoded DEF LoadReads, Loaded
    <2>3. corrupt' = medium.torn
      BY <2>2, FileFields DEF KInv
    <2>4. last' # {} => Whole(last') = medium
      <3>1. medium # Damaged
        BY <2>2, FileFields
      <3>2. PICK q \in SUBSET Dicts : medium = Whole(q)
        BY <3>1, FileFields DEF KInv
      <3> QED
        BY <2>2, <3>2, FileFields
    <2> QED
      BY <2>2, <2>3, <2>4 DEF KInv, setup, Saving, LastIsStored
  <1>2. CASE LoadMisses
    <2>1. /\ data' = Empty /\ data' \in Dicts /\ last' = {}
          /\ corrupt' = FALSE /\ dirty' = FALSE /\ backend = "littlefs"
      BY <1>2, Decoded DEF LoadMisses, Loaded
    <2> QED
      BY <2>1 DEF KInv, setup, Saving, LastIsStored
  <1> QED
    BY <1>1, <1>2

LEMMA BootStep ==
    ASSUME KInv, UNCHANGED setup, Boot
    PROVE  KInv' /\ Durable!Next
  <1>1. medium \in Files /\ UNCHANGED <<medium, unsettled>> /\ phase = "off" /\ phase' = "idle"
        /\ backend' = backend
    BY DEF KInv, Boot, setup, media
  <1>2. CASE LoadReads \/ LoadMisses
    <2>1. KInv'
      BY <1>1, <1>2, ReadStep
    <2>2. Durable!Found \/ Durable!Hidden
      BY <1>1, <1>2, ReadStep DEF Durable!Found, Durable!Hidden, Durable!medium
    <2> QED
      BY <1>1, <2>1, <2>2 DEF Durable!Next, Durable!Start, Durable!kind
  <1>3. CASE ~(LoadReads \/ LoadMisses)
    <2>1. Refused /\ data' = Empty /\ last' = {} /\ corrupt' = TRUE /\ dirty' = FALSE
      BY <1>3 DEF Boot
    <2>2. KInv'
      BY <1>1, <2>1, Decoded DEF KInv, setup, Saving, LastIsStored
    <2>3. CASE medium.torn
      <3>1. medium.payload = {} /\ medium.torn = TRUE
        BY <1>1, <2>3, FileFields
      <3> QED
        BY <1>1, <2>1, <2>2, <3>1, Decoded
        DEF Durable!Next, Durable!Start, Durable!Found, Durable!medium, Durable!kind
    <2>4. CASE ~medium.torn
      BY <1>1, <2>1, <2>2, <2>4
      DEF Refused, Durable!Next, Durable!Start, Durable!Hidden, Durable!medium, Durable!kind
    <2> QED
      BY <2>3, <2>4
  <1> QED
    BY <1>2, <1>3

LEMMA ReloadStep ==
    ASSUME KInv, UNCHANGED setup, Reload
    PROVE  KInv' /\ Durable!Next
  <1>1. /\ UNCHANGED <<medium, unsettled>> /\ phase = "idle" /\ phase' = "idle"
        /\ backend' = backend
        /\ LoadReads \/ LoadMisses
    BY DEF Reload, setup, media
  <1>2. KInv'
    BY <1>1, ReadStep
  <1>3. (~medium.torn /\ Durable!Found) \/ Durable!Hidden
    BY <1>1, ReadStep DEF Durable!Found, Durable!Hidden, Durable!medium
  <1> QED
    BY <1>1, <1>2, <1>3 DEF Durable!Next, Durable!Reload, Durable!kind

\* Once set_blob() is called, flash may hold either.
LEMMA BlobStep ==
    ASSUME KInv, UNCHANGED setup, Blob
    PROVE  KInv' /\ Durable!Next
  <1>1. /\ phase = "blob" /\ backend = "nvs" /\ job = {data} /\ job \in SUBSET Dicts
        /\ unsettled' = unsettled \cup {medium, Whole(job)}
        /\ medium' \in {medium, Whole(job)} /\ UNCHANGED <<data, last, corrupt, dirty>>
        /\ (phase' = "sync" /\ job' = job /\ medium' = Whole(job)) \/ phase' = "idle"
    BY DEF KInv, Saving, Blob, SaveRaises, store
  <1>2. ~medium.torn /\ medium \in Records /\ Whole(job) \in Records
    BY <1>1, FileFields DEF KInv, Files, Records
  <1>3. medium' \in Files /\ ~medium'.torn /\ unsettled' \subseteq Records
    BY <1>1, <1>2, FileFields DEF KInv, Files
  <1>4. LastIsStored'
    BY <1>1 DEF KInv, LastIsStored
  <1>5. KInv'
    BY <1>1, <1>3, <1>4 DEF KInv, setup, Saving
  <1>6. Durable!HalfSave
    <2> DEFINE decoded(R) == {Decode(record.payload) : record \in R}
    <2>1. Decode(Whole(job).payload) = data
      BY <1>1, FileFields, Decoded
    <2>2. decoded(unsettled') = decoded(unsettled) \cup {Decode(medium.payload), data}
      BY <1>1, <2>1
    <2>3. Decode(medium'.payload) \in {Decode(medium.payload), data}
      BY <1>1, <2>1
    <2>4. medium'.torn = medium.torn
      BY <1>2, <1>3, FileFields DEF KInv
    <2> QED
      BY <1>1, <2>2, <2>3, <2>4 DEF Durable!HalfSave
  <1> QED
    BY <1>5, <1>6 DEF Durable!Next, Durable!kind, setup

LEMMA PowerCutStep ==
    ASSUME KInv, UNCHANGED setup, PowerCut
    PROVE  KInv' /\ Durable!Next
  <1>1. /\ phase # "off" /\ phase' = "off" /\ data' = Empty /\ last' = {} /\ corrupt' = FALSE
        /\ dirty' = FALSE /\ unsettled' = {} /\ medium \in Files /\ unsettled \subseteq Records
    BY DEF KInv, setup, PowerCut
  <1>2. \/ medium' = medium
        \/ medium' \in unsettled
        \/ medium' = Whole(job) /\ Saving
        \/ medium' \in {Damaged, Whole({})} /\ backend = "nvm"
    BY <1>1 DEF PowerCut, Interrupted, KInv, Saving
  <1>3. Saving => job \in SUBSET Dicts /\ job = {data}
    BY DEF KInv
  <1>4. medium' \in Files
    BY <1>1, <1>2, <1>3 DEF Files, Records
  <1>5. medium'.torn => backend = "nvm"
    BY <1>1, <1>2, FileFields DEF KInv
  <1>6. KInv'
    BY <1>1, <1>4, <1>5, Decoded DEF KInv, setup, Saving, LastIsStored
  <1>7. Durable!PowerCut
    <2>1. CASE medium' = medium
      BY <1>1, <2>1 DEF Durable!PowerCut
    <2>2. CASE medium' = Whole(job) /\ Saving
      <3>1. medium'.payload = {data} /\ medium'.torn = FALSE
        BY <1>3, <2>2, FileFields
      <3>2. Decode(medium'.payload) = data
        BY <3>1, Decoded
      <3> QED
        BY <1>1, <3>1, <3>2 DEF Durable!PowerCut, Durable!Stored
    <2>3. CASE medium' \in {Damaged, Whole({})} /\ backend = "nvm"
      <3>1. Decode(medium'.payload) = Empty /\ medium'.torn \in BOOLEAN
        BY <2>3, FileFields, Decoded
      <3> QED
        BY <1>1, <2>3, <3>1 DEF Durable!PowerCut, Durable!Torn
    <2>4. CASE medium' \in unsettled
      <3>1. medium.torn = FALSE /\ medium'.torn = FALSE
        BY <1>1, <2>4, FileFields DEF KInv
      <3>2. Decode(medium'.payload) \in {Decode(record.payload) : record \in unsettled}
        BY <2>4
      <3> QED
        BY <1>1, <3>1, <3>2 DEF Durable!PowerCut
    <2> QED
      BY <1>2, <2>1, <2>2, <2>3, <2>4
  <1> QED
    BY <1>6, <1>7 DEF Durable!Next, Durable!kind, setup

LEMMA KVStep ==
    ASSUME KInv, [StoreNext]_storeVars
    PROVE  KInv' /\ [Durable!Next]_(Durable!vars)
  <1>0. UNCHANGED setup
    BY DEF StoreNext, storeVars
  <1> USE <1>0
  <1>1. CASE UNCHANGED storeVars
    BY <1>1 DEF storeVars, setup, store, media, KInv, Saving, LastIsStored, Durable!vars, Durable!medium, Durable!kind
  <1>2. CASE Boot
    BY <1>2, BootStep
  <1>3. CASE Reload
    BY <1>3, ReloadStep
  <1>4. ASSUME NEW d \in Dicts, Update(d) PROVE KInv' /\ Durable!Next
    BY <1>4, DictStep, DictOps DEF Update, KInv
  <1>5. ASSUME NEW k \in Keys, Delete(k) PROVE KInv' /\ Durable!Next
    BY <1>5, DictStep, DictOps DEF Delete, KInv
  <1>6. CASE Clear
    BY <1>6, DictStep, Decoded DEF Clear
  <1>7. CASE Commit
    BY <1>7, StartStep DEF Commit
  <1>8. CASE CommitIfChanged
    BY <1>8, StartStep DEF CommitIfChanged
  <1>9. CASE NothingChanged
    BY <1>9 DEF NothingChanged, media, KInv, Saving, LastIsStored, Durable!vars, Durable!medium, Durable!kind, setup
  <1>10. CASE Open
    <2>1. CASE SaveRaises
      BY <1>10, <2>1, RaiseStep DEF Open, Saving
    <2>2. CASE ~SaveRaises
      BY <1>10, <2>2 DEF Open, store, KInv, Saving, LastIsStored, Durable!vars, Durable!medium, Durable!kind, setup
    <2> QED
      BY <2>1, <2>2
  <1>11. CASE Write
    <2>1. CASE SaveRaises
      BY <1>11, <2>1, RaiseStep DEF Write, Saving
    <2>2. CASE ~SaveRaises
      BY <1>11, <2>2 DEF Write, store, KInv, Saving, LastIsStored, Durable!vars, Durable!medium, Durable!kind, setup
    <2> QED
      BY <2>1, <2>2
  <1>12. CASE Rename
    <2>1. CASE SaveRaises /\ UNCHANGED <<medium, tmp>>
      BY <1>12, <2>1, RaiseStep DEF Rename, Saving
    <2>2. CASE SaveReturns /\ medium' = tmp
      BY <1>12, <2>2, ReturnStep DEF Rename, Saving, KInv
    <2> QED
      BY <1>12, <2>1, <2>2 DEF Rename
  <1>13. CASE Blob
    BY <1>13, BlobStep
  <1>14. CASE Sync
    <2>1. CASE SaveRaises /\ UNCHANGED unsettled
      BY <1>14, <2>1, RaiseStep DEF Sync, Saving
    <2>2. CASE SaveReturns /\ unsettled' = {}
      BY <1>14, <2>2, ReturnStep DEF Sync, Saving, KInv
    <2> QED
      BY <1>14, <2>1, <2>2 DEF Sync
  <1>17. CASE Slab
    BY <1>17, ReturnStep DEF Slab, Saving, KInv
  <1>18. ASSUME NEW k \in Keys, NEW v \in Mutable, InPlace(k, v) PROVE KInv' /\ Durable!Next
    BY <1>18, InPlaceStep
  <1>15. CASE PowerCut
    BY <1>15, PowerCutStep
  <1>16. CASE ReloadRaises
    BY <1>16 DEF ReloadRaises, KInv, setup, media, Saving, LastIsStored, Durable!vars, Durable!medium, Durable!kind
  <1> QED
    BY <1>1, <1>2, <1>3, <1>4, <1>5, <1>6, <1>7, <1>8, <1>9, <1>10, <1>11,
       <1>12, <1>13, <1>14, <1>15, <1>16, <1>17, <1>18 DEF StoreNext

-----------------------------------------------------------------------------
\* The store is a durable map: under power cuts and failing writes a start finds a
\* saved dict whole, the last one or one whose save was cut short or, over NVS,
\* raised; an NVM record that is torn is reported, a slab left erased reads as
\* blank; and failing reads change nothing (save, load).
THEOREM StoreIsDurable == StoreSpec => DurableSpec
  <1>1. StoreInit => Durable!Init
    BY FileFields, Decoded DEF StoreInit, Durable!Init
  <1>2. KInv /\ [StoreNext]_storeVars => KInv' /\ [Durable!Next]_(Durable!vars)
    BY KVStep
  <1> QED
    BY <1>1, <1>2, KInvInit, PTL DEF StoreSpec, DurableSpec, Durable!Spec

\* What the store believes to be stored is stored, or may have been replaced by an
\* NVS save that raised and is not settled yet (_last_payload).
THEOREM LastAlwaysStored == StoreSpec => []LastIsStored
  <1>1. KInv /\ [StoreNext]_storeVars => KInv'
    BY KVStep
  <1>2. KInv => LastIsStored
    BY DEF KInv
  <1> QED
    BY <1>1, <1>2, KInvInit, PTL DEF StoreSpec

\* A change made through the store is owed until it is saved: only a reload() that
\* raises, or a value changed in place, makes the store look clean while its dict
\* differs (commit, commit_if_changed, reload).
THEOREM ChangesStayOwed == StoreSpec => ChangesAreOwed
  <1> DEFINE Owed ==
        SkipMeansUnchanged =>
            \/ SkipMeansUnchanged'
            \/ ReloadRaises
            \/ \E k \in Keys, v \in Mutable : InPlace(k, v)
  <1>1. KInv /\ [StoreNext]_storeVars => [Owed]_storeVars
    <2> SUFFICES ASSUME KInv, StoreNext, SkipMeansUnchanged, ~ReloadRaises,
                        ~\E k \in Keys, v \in Mutable : InPlace(k, v)
                 PROVE  SkipMeansUnchanged'
      OBVIOUS
    <2>1. CASE Boot \/ Reload
      BY <2>1, Decoded DEF Boot, Reload, LoadReads, LoadMisses, Loaded,
                           SkipMeansUnchanged
    <2>2. CASE (\E d \in Dicts : Update(d)) \/ (\E k \in Keys : Delete(k)) \/ Clear
      BY <2>2 DEF Update, Delete, Clear, Changed, SkipMeansUnchanged
    <2>3. CASE Commit \/ CommitIfChanged
      BY <2>3 DEF Commit, CommitIfChanged, StartSave, store, SkipMeansUnchanged
    <2>4. CASE NothingChanged
      <3>1. Decode(last) = data
        BY <2>4, Decoded DEF NothingChanged
      <3> QED
        BY <2>4, <3>1 DEF NothingChanged, SkipMeansUnchanged
    <2>5. CASE Open \/ Write \/ Rename \/ Blob \/ Sync \/ Slab
      <3>1. (UNCHANGED store /\ phase # "off") \/ (SaveReturns /\ Saving)
        BY <2>5 DEF Open, Write, Rename, Blob, Sync, Slab, SaveRaises, Saving
      <3>2. CASE UNCHANGED store /\ phase # "off"
        BY <3>2 DEF store, SkipMeansUnchanged
      <3>3. CASE SaveReturns /\ Saving
        <4>1. Decode(job) = data
          BY <3>3, Decoded DEF KInv
        <4> QED
          BY <3>3, <4>1 DEF SaveReturns, SkipMeansUnchanged
      <3> QED
        BY <3>1, <3>2, <3>3
    <2>6. CASE PowerCut
      BY <2>6 DEF PowerCut, SkipMeansUnchanged
    <2> QED
      BY <2>1, <2>2, <2>3, <2>4, <2>5, <2>6 DEF StoreNext
  <1>2. KInv /\ [StoreNext]_storeVars => KInv'
    BY KVStep
  <1> QED
    BY <1>1, <1>2, KInvInit, PTL DEF StoreSpec, ChangesAreOwed

HIDE DEF None, NoGrace, NoLimit

-----------------------------------------------------------------------------
(* NTP                                                                     *)
(*                                                                         *)
(* NtpInv is inductive: whatever is on the wire or in the socket tells a   *)
(* time of the server's, and a query is sent over a socket drained of the  *)
(* answers to the ones before it.                                          *)

\* A set of numbers has a least one.
LEMMA LeastOne ==
  ASSUME NEW S \in SUBSET Nat, S # {}
  PROVE  Min(S) \in S /\ \A y \in S : Min(S) <= y
  <1>1. IsWellFoundedOn(OpToRel(<, Nat), Nat)
    BY NatLessThanWellFounded
  <1> DEFINE R == OpToRel(<, Nat)
  <1>2. PICK m \in S : \A n \in S : <<n, m>> \notin R
    <2> HIDE DEF R
    <2> QED BY <1>1, WFMin DEF R
  <1>3. \A n \in S : m <= n
    <2>1. \A n \in S : n < m => <<n, m>> \in R
      BY DEF OpToRel
    <2> HIDE DEF R
    <2>2. SUFFICES ASSUME NEW n \in S PROVE m <= n
      OBVIOUS
    <2>3. ~(n < m)
      BY <1>2, <2>1
    <2>4. n \in Nat /\ m \in Nat
      OBVIOUS
    <2> QED BY <2>3, <2>4
  <1>4. \E x \in S : \A y \in S : x =< y
    BY <1>3
  <1> QED BY <1>4 DEF Min

\* The datagrams a server may have sent: each tells a time of its.
Told == [id : Nat, kind : STRING, seconds : {OnWire(t) : t \in nset.times}]

NtpInv ==
    /\ nset \in NtpSetupType
    /\ result.id \in Nat
    /\ result = [id |-> result.id, status |-> result.status, seconds |-> result.seconds,
                 elapsed |-> result.elapsed]
    /\ wire \subseteq Told
    /\ inbox \in Seq(Told)
    /\ stale = 0

\* A time of the era comes off the wire as it was put on it.
LEMMA TimeIsTold ==
  ASSUME NEW t \in 0 .. (ERA - 1) PROVE Unix(OnWire(t)) = t
  <1> DEFINE x == t + NTP_TO_UNIX
  <1>1. ERA \in Nat \ {0} /\ NTP_TO_UNIX \in 1 .. (ERA - 1) /\ x \in Int
    BY NtpAssumption
  <1>2. /\ x \in 0 .. (ERA - 1) => x % ERA = x
        /\ x \in ERA .. (2 * ERA - 1) => x % ERA = x - ERA
    BY <1>1
  <1>3. x \in 0 .. (ERA - 1) \/ x \in ERA .. (2 * ERA - 1)
    BY <1>1
  <1>4. OnWire(t) = x % ERA
    BY DEF OnWire
  <1> QED BY <1>1, <1>2, <1>3, <1>4 DEF Unix

\* The drain leaves datagrams only behind an empty one or those it could not read.
LEMMA Drains ==
  ASSUME NEW S, NEW held \in Seq(S), NEW reads \in Nat
  PROVE  /\ Drained(held, reads) \in Seq(S)
         /\ Len(held) <= reads /\ Empties(held) = {} => Len(Drained(held, reads)) = 0
  <1> DEFINE C == {Len(held), reads} \cup Empties(held)
  <1>1. C \in SUBSET Nat /\ Len(held) \in C /\ Len(held) \in Nat
    BY DEF Empties
  <1>2. Min(C) \in Nat /\ Min(C) <= Len(held) /\ Min(C) \in C
    BY <1>1, LeastOne
  <1>3. Drained(held, reads) = SubSeq(held, Min(C) + 1, Len(held))
    BY DEF Drained
  <1>4. Drained(held, reads) \in Seq(S)
    <2> DEFINE m == Min(C) + 1
    <2>1. m \in 1 .. (Len(held) + 1)
      BY <1>1, <1>2
    <2> HIDE DEF C, m
    <2> QED BY <1>1, <1>3, <2>1 DEF m
  <1>5. ASSUME Len(held) <= reads, Empties(held) = {} PROVE Len(Drained(held, reads)) = 0
    <2>1. Min(C) = Len(held)
      BY <1>1, <1>2, <1>5
    <2> QED BY <1>1, <1>3, <2>1
  <1> QED BY <1>4, <1>5

\* Nothing is on the wire yet.
LEMMA InitNtp == NtpInit => NtpInv
  BY NtpSetupsTyped DEF NtpInit, NtpInv, NoResult

\* A datagram is taken for what it tells.
LEMMA TakesTold ==
  ASSUME NtpInv, NEW d \in Told
  PROVE  LET r == Parsed(d) IN
         /\ r = [id |-> r.id, status |-> r.status, seconds |-> r.seconds, elapsed |-> r.elapsed]
         /\ r.id = result.id
         /\ r.status = "failed" \/ (r.status = "done" /\ r.seconds \in nset.times)
  <1>1. PICK t \in nset.times : d.seconds = OnWire(t)
    BY DEF Told
  <1>2. t \in 0 .. (ERA - 1)
    BY DEF NtpInv, NtpSetupType
  <1>3. Unix(d.seconds) = t
    BY <1>1, <1>2, TimeIsTold
  <1> QED BY <1>3 DEF NtpInv, Parsed, Failed

\* The timeout changes the status only.
LEMMA TimesOut ==
  ASSUME NtpInv
  PROVE  LET r == CheckTimeout(result) IN
         /\ r = [id |-> r.id, status |-> r.status, seconds |-> r.seconds, elapsed |-> r.elapsed]
         /\ r.id = result.id /\ r.status \in {result.status, "failed"}
  BY DEF NtpInv, CheckTimeout, Failed

AnswerStep ==
    /\ result.status \in {"done", "failed"} => result' = result \/ result'.id > result.id
    /\ result.status = "flying" /\ result'.status = "done" =>
          /\ result'.seconds \in nset.times
          /\ stale = 0

\* A step keeps the invariant and answers a query at most once, and truly.
LEMMA NtpStep ==
  ASSUME NtpInv, [NtpNext]_nvars
  PROVE  NtpInv' /\ AnswerStep
  <1>t. nset' = nset
    BY DEF NtpNext, nvars, Lose, Arrive, TimeGoesBy, QueryRefused, Query, HandleAnswer, HandleNothing,
        HandleError, HandleClosed, Cancel, CloseClient, Answer
  <1>T. Told' = Told
    BY <1>t DEF Told
  <1>u. ASSUME result' = result, wire' \subseteq Told, inbox' \in Seq(Told), stale' = 0
        PROVE  NtpInv' /\ AnswerStep
    BY <1>t, <1>T, <1>u DEF NtpInv, AnswerStep
  <1>f. ASSUME result.status # "done", result.status # "failed", wire' = wire, inbox' \in Seq(Told), stale' = 0,
               result'.id \in Nat,
               result' = [id |-> result'.id, status |-> result'.status, seconds |-> result'.seconds,
                          elapsed |-> result'.elapsed],
               result'.status = "done" => result'.seconds \in nset.times
        PROVE  NtpInv' /\ AnswerStep
    BY <1>t, <1>T, <1>f DEF NtpInv, AnswerStep
  <1>1. ASSUME NEW unix \in nset.times, NEW kind \in nset.kinds, Answer(unix, kind)
        PROVE  NtpInv' /\ AnswerStep
    <2>1. Datagram(result.id, kind, OnWire(unix)) \in Told
      BY DEF NtpInv, NtpSetupType, Datagram, Told
    <2> QED BY <1>1, <1>u, <2>1 DEF Answer, NtpInv
  <1>2. ASSUME NEW d \in wire, Lose(d) \/ \E again \in BOOLEAN : Arrive(d, again)
        PROVE  NtpInv' /\ AnswerStep
    <2>1. d \in Told
      BY DEF NtpInv
    <2>2. inbox' = inbox \/ inbox' = Append(inbox, d)
      BY <1>2 DEF Lose, Arrive
    <2>3. inbox' \in Seq(Told)
      BY <2>1, <2>2 DEF NtpInv
    <2>4. wire' \subseteq wire /\ UNCHANGED <<result, stale>>
      BY <1>2 DEF Lose, Arrive
    <2> QED BY <1>u, <2>3, <2>4 DEF NtpInv
  <1>3. CASE TimeGoesBy
    BY <1>3, <1>f DEF TimeGoesBy, NtpInv, Flying
  <1>4. CASE QueryRefused \/ HandleClosed \/ UNCHANGED nvars
    BY <1>4, <1>u DEF QueryRefused, HandleClosed, nvars, NtpInv
  <1>5. CASE CloseClient
    BY <1>5, <1>u DEF CloseClient, NtpInv
  <1>6. ASSUME NEW sends \in BOOLEAN, NEW reads \in 0 .. DRAIN_LIMIT, Query(sends, reads)
        PROVE  NtpInv' /\ AnswerStep
    <2>0. reads \in Nat
      BY NtpAssumption
    <2>1. inbox' \in Seq(Told) /\ stale' = 0 /\ wire' = wire
      BY <1>6, <2>0, Drains DEF Query, NtpInv
    <2>2. /\ result'.id = result.id + 1 /\ result'.status # "done"
          /\ result' = [id |-> result'.id, status |-> result'.status, seconds |-> result'.seconds,
                        elapsed |-> result'.elapsed]
      BY <1>6 DEF Query, NoResult, Failed
    <2> QED BY <1>t, <1>T, <2>1, <2>2 DEF NtpInv, AnswerStep
  <1>7. CASE HandleAnswer
    <2>1. Head(inbox) \in Told /\ inbox' \in Seq(Told) /\ stale' = 0 /\ wire' = wire /\ Flying
      BY <1>7 DEF HandleAnswer, NtpInv
    <2>2. result' = CheckTimeout(result) \/ result' = Parsed(Head(inbox))
      BY <1>7 DEF HandleAnswer
    <2> QED BY <1>f, <2>1, <2>2, TakesTold, TimesOut DEF NtpInv, Flying
  <1>8. CASE HandleNothing
    BY <1>8, <1>f, TimesOut DEF HandleNothing, NtpInv, Flying
  <1>9. CASE HandleError \/ Cancel
    BY <1>9, <1>f DEF HandleError, Cancel, NtpInv, Flying, Failed
  <1> QED BY <1>1, <1>2, <1>3, <1>4, <1>5, <1>6, <1>7, <1>8, <1>9 DEF NtpNext

\* A result changes at most once, to a time the server told, on either side of the
\* era's end; no datagram that a drain within its limit, and not ended early by an
\* empty datagram or an error of the socket, had before it is taken for the answer
\* (core.py: _drain_socket, query, handle, _parse_response).
THEOREM QueriesAnsweredOnce == NtpSpec => AnsweredOnce
  <1>1. NtpInv /\ [NtpNext]_nvars => NtpInv' /\ [AnswerStep]_nvars
    BY NtpStep
  <1>2. NtpSpec => [][AnswerStep]_nvars
    <2> HIDE DEF AnswerStep
    <2> QED BY <1>1, InitNtp, PTL DEF NtpSpec
  <1> QED BY <1>2 DEF AnsweredOnce, AnswerStep

-----------------------------------------------------------------------------
(* Knobs                                                                   *)
(*                                                                         *)
(* The encoder: what was missed is even (the table tells one step or, of   *)
(* two, nothing), so detents, banked steps and what was missed add up to   *)
(* the shaft; a wrapped position is the count modulo the span.  The        *)
(* analog knob: the window holds at most one wild conversion, its middle   *)
(* is within the noise, and smoothing keeps the scaled reading between the *)
(* scaled bounds.                                                          *)

\* Min and Max of two numbers.
LEMMA TwoNumbers ==
  ASSUME NEW a \in Int, NEW b \in Int
  PROVE  /\ Min({a, b}) = IF a <= b THEN a ELSE b
         /\ Max({a, b}) = IF a >= b THEN a ELSE b
  <1>1. Min({a, b}) = IF a <= b THEN a ELSE b
    <2> DEFINE m == IF a <= b THEN a ELSE b
    <2>1. m \in {a, b} /\ \A y \in {a, b} : m <= y
      OBVIOUS
    <2>2. \A x \in {a, b} : (\A y \in {a, b} : x <= y) => x = m
      OBVIOUS
    <2> HIDE DEF m
    <2> QED BY <2>1, <2>2 DEF Min
  <1>2. Max({a, b}) = IF a >= b THEN a ELSE b
    <2> DEFINE m == IF a >= b THEN a ELSE b
    <2>1. m \in {a, b} /\ \A y \in {a, b} : m >= y
      OBVIOUS
    <2>2. \A x \in {a, b} : (\A y \in {a, b} : x >= y) => x = m
      OBVIOUS
    <2> HIDE DEF m
    <2> QED BY <2>1, <2>2 DEF Max
  <1> QED BY <1>1, <1>2

\* A clamped number is within the bounds.
LEMMA ClampedIs ==
  ASSUME NEW n \in Int, kset.low \in Int, kset.high \in Int, kset.low <= kset.high
  PROVE  Clamped(n) \in kset.low .. kset.high
  <1> DEFINE m == Min({kset.high, n})
  <1>1. m = IF kset.high <= n THEN kset.high ELSE n
    BY TwoNumbers
  <1>2. m \in Int /\ m <= kset.high
    BY <1>1
  <1> HIDE DEF m
  <1>3. Max({kset.low, m}) = IF kset.low >= m THEN kset.low ELSE m
    BY <1>2, TwoNumbers
  <1> QED BY <1>2, <1>3 DEF Clamped, m

\* The middle of three is on the side of a bound on which two of them are.
LEMMA MiddleIs ==
  ASSUME NEW a \in Int, NEW b \in Int, NEW c \in Int
  PROVE  LET m == MiddleOfThree(a, b, c)
         IN  /\ m \in Int
             /\ \A lo \in Int : (lo <= a /\ lo <= b) \/ (lo <= a /\ lo <= c) \/ (lo <= b /\ lo <= c) => lo <= m
             /\ \A hi \in Int : (hi >= a /\ hi >= b) \/ (hi >= a /\ hi >= c) \/ (hi >= b /\ hi >= c) => hi >= m
  <1> DEFINE x == Min({a, b})
             y == Max({a, b})
             z == Min({y, c})
  <1>1. x = (IF a <= b THEN a ELSE b) /\ y = (IF a >= b THEN a ELSE b)
    BY TwoNumbers
  <1>2. x \in Int /\ y \in Int
    BY <1>1
  <1> HIDE DEF x, y
  <1>3. z = IF y <= c THEN y ELSE c
    BY <1>2, TwoNumbers
  <1>4. z \in Int
    BY <1>2, <1>3
  <1> HIDE DEF z
  <1>5. Max({x, z}) = IF x >= z THEN x ELSE z
    BY <1>2, <1>4, TwoNumbers
  <1>6. MiddleOfThree(a, b, c) = IF x >= z THEN x ELSE z
    BY <1>5 DEF MiddleOfThree, x, y, z
  <1> QED BY <1>1, <1>2, <1>3, <1>4, <1>6

\* The smoothing divides by a positive number.
LEMMA Scales == Scale \in Nat \ {0}
  BY KnobsAssumption DEF Scale

\* Products on one side of a bound.
LEMMA Products ==
  ASSUME NEW n \in Nat, NEW a \in Int, NEW b \in Int, a <= b
  PROVE  n * a \in Int /\ n * a <= n * b
  <1>1. b - a \in Nat /\ n * (b - a) \in Nat
    OBVIOUS
  <1>2. n * (b - a) = n * b - n * a
    OBVIOUS
  <1> QED BY <1>1, <1>2

\* Quotient and remainder.
LEMMA Division ==
  ASSUME NEW n \in Nat \ {0}, NEW x \in Int
  PROVE  /\ x \div n \in Int /\ x % n \in 0 .. (n - 1)
         /\ x = n * (x \div n) + (x % n)
  OBVIOUS

\* A multiple leaves no remainder.
LEMMA NoRemainder ==
  ASSUME NEW n \in Nat \ {0}, NEW k \in Int
  PROVE  (n * k) % n = 0
  <1> DEFINE p == n * k
             q == p \div n
             m == p % n
  <1>1. q \in Int /\ m \in 0 .. (n - 1) /\ p = n * q + m
    <2>1. p \in Int
      OBVIOUS
    <2> HIDE DEF p
    <2> QED BY <2>1, Division
  <1> HIDE DEF q, m
  <1>2. CASE k = q
    BY <1>1, <1>2 DEF m
  <1>3. CASE k > q
    <2>1. n * (q + 1) <= n * k
      BY <1>1, <1>3, Products
    <2>2. n * (q + 1) = n * q + n
      BY <1>1
    <2> QED BY <1>1, <2>1, <2>2
  <1>4. CASE k < q
    <2>1. n * k <= n * (q - 1)
      BY <1>1, <1>4, Products
    <2>2. n * (q - 1) = n * q - n
      BY <1>1
    <2> QED BY <1>1, <2>1, <2>2
  <1> QED BY <1>1, <1>2, <1>3, <1>4 DEF m

\* A smoothed reading between the scaled bounds stays there, and reads between them.
LEMMA SmoothedStays ==
  ASSUME NEW s \in Int, NEW m \in Int, NEW lo \in Int, NEW hi \in Int,
         lo <= m, m <= hi, Scale * lo <= s, s < Scale * (hi + 1)
  PROVE  LET t == s + m - (s \div Scale)
         IN  t \in Int /\ Scale * lo <= t /\ t < Scale * (hi + 1) /\ t \div Scale \in lo .. hi
  <1> DEFINE n == Scale
  <1>1. n \in Nat \ {0}
    BY Scales
  <1> HIDE DEF n
  <1>2. ASSUME NEW x \in Int, n * lo <= x, x < n * (hi + 1)
        PROVE  x \div n \in lo .. hi
    <2> DEFINE q == x \div n
               f == x % n
    <2>1. q \in Int /\ f \in 0 .. (n - 1) /\ x = n * q + f
      BY <1>1, Division
    <2> HIDE DEF q, f
    <2>2. q >= lo
      <3> SUFFICES ASSUME q + 1 <= lo PROVE FALSE
        BY <2>1
      <3>1. n * (q + 1) <= n * lo
        BY <1>1, <2>1, Products
      <3>2. n * (q + 1) = n * q + n /\ n * q \in Int /\ n * lo \in Int
        BY <1>1, <2>1
      <3> QED BY <1>1, <1>2, <2>1, <3>1, <3>2
    <2>3. q <= hi
      <3> SUFFICES ASSUME hi + 1 <= q PROVE FALSE
        BY <2>1
      <3>1. n * (hi + 1) <= n * q
        BY <1>1, <2>1, Products
      <3>2. n * (hi + 1) \in Int /\ n * q \in Int
        BY <1>1, <2>1
      <3> QED BY <1>1, <1>2, <2>1, <3>1, <3>2
    <2> QED BY <2>1, <2>2, <2>3 DEF q
  <1> DEFINE r == s \div n
             f == s % n
  <1>3. r \in lo .. hi /\ f \in 0 .. (n - 1) /\ s = n * r + f
    BY <1>1, <1>2, Division DEF n
  <1> DEFINE t == s + m - r
  <1> HIDE DEF r, f
  <1>4. (n - 1) * lo <= (n - 1) * r /\ (n - 1) * r <= (n - 1) * hi
    BY <1>1, <1>3, Products
  <1>5. /\ (n - 1) * lo = n * lo - lo /\ (n - 1) * r = n * r - r /\ (n - 1) * hi = n * hi - hi
        /\ n * (hi + 1) = n * hi + n
        /\ n * lo \in Int /\ n * r \in Int /\ n * hi \in Int
    BY <1>1, <1>3
  <1>6. t \in Int /\ n * lo <= t /\ t < n * (hi + 1)
    BY <1>1, <1>3, <1>4, <1>5
  <1>7. t \div n \in lo .. hi
    BY <1>2, <1>6
  <1> QED BY <1>6, <1>7 DEF n, r

\* What the table tells of two states of the pins is the turn between them, or
\* nothing when it was two steps.
LEMMA TableTells ==
  ASSUME NEW x \in Int, NEW y \in Int
  PROVE  LET d == QUADRATURE_STEPS[Pins(x) + 1][Pins(y) + 1]
         IN  d \in {-1, 0, 1} /\ (y - x - d) % 2 = 0
  <1> DEFINE d == QUADRATURE_STEPS[Pins(x) + 1][Pins(y) + 1]
             i == x % 4
             j == y % 4
             a == x \div 4
             b == y \div 4
  <1>1. /\ i \in {0, 1, 2, 3} /\ j \in {0, 1, 2, 3} /\ a \in Int /\ b \in Int
        /\ x = 4 * a + i /\ y = 4 * b + j
    <2>1. /\ i \in 0 .. 3 /\ j \in 0 .. 3 /\ a \in Int /\ b \in Int
          /\ x = 4 * a + i /\ y = 4 * b + j
      BY Division
    <2> HIDE DEF i, j, a, b
    <2> QED BY <2>1
  <1>2. d = QUADRATURE_STEPS[<<0, 2, 3, 1>>[i + 1] + 1][<<0, 2, 3, 1>>[j + 1] + 1]
    BY DEF Pins
  <1> HIDE DEF d, i, j, a, b
  <1>3. /\ <<0, 2, 3, 1>>[1] = 0 /\ <<0, 2, 3, 1>>[2] = 2 /\ <<0, 2, 3, 1>>[3] = 3 /\ <<0, 2, 3, 1>>[4] = 1
    OBVIOUS
  <1>4. /\ QUADRATURE_STEPS[1][1] = 0 /\ QUADRATURE_STEPS[1][2] = -1
        /\ QUADRATURE_STEPS[1][3] = 1 /\ QUADRATURE_STEPS[1][4] = 0
        /\ QUADRATURE_STEPS[2][1] = 1 /\ QUADRATURE_STEPS[2][2] = 0
        /\ QUADRATURE_STEPS[2][3] = 0 /\ QUADRATURE_STEPS[2][4] = -1
        /\ QUADRATURE_STEPS[3][1] = -1 /\ QUADRATURE_STEPS[3][2] = 0
        /\ QUADRATURE_STEPS[3][3] = 0 /\ QUADRATURE_STEPS[3][4] = 1
        /\ QUADRATURE_STEPS[4][1] = 0 /\ QUADRATURE_STEPS[4][2] = 1
        /\ QUADRATURE_STEPS[4][3] = -1 /\ QUADRATURE_STEPS[4][4] = 0
    BY DEF QUADRATURE_STEPS
  <1>5. d \in {-1, 0, 1} /\ (j - i - d) \in {-4, -2, 0, 2, 4}
    <2>1. CASE i = 0
      BY <1>1, <1>2, <1>3, <1>4, <2>1
    <2>2. CASE i = 1
      BY <1>1, <1>2, <1>3, <1>4, <2>2
    <2>3. CASE i = 2
      BY <1>1, <1>2, <1>3, <1>4, <2>3
    <2>4. CASE i = 3
      BY <1>1, <1>2, <1>3, <1>4, <2>4
    <2> QED BY <1>1, <2>1, <2>2, <2>3, <2>4
  <1>6. (y - x - d) % 2 = 0
    <2>1. y - x - d = 4 * (b - a) + (j - i - d)
      BY <1>1, <1>5
    <2>2. PICK c \in {-2, -1, 0, 1, 2} : j - i - d = 2 * c
      BY <1>5
    <2>3. y - x - d = 2 * (2 * (b - a) + c)
      BY <1>1, <2>1, <2>2
    <2> QED BY <1>1, <2>2, <2>3
  <1> QED BY <1>5, <1>6 DEF d

EncoderTyped ==
    /\ shaft \in [at : Int, seen : Int, left : Nat, latched : BOOLEAN]
    /\ counters \in [position : Int, sub : Int, previous : 0 .. 3]
    /\ missed \in Int
    /\ encoder \in [position : Int, delta : Int, lastRaw : Int]

KnobSetupLegal ==
    /\ kset \in KnobSetupType
    /\ kset.bounded => kset.low <= kset.high
    /\ kset.wrap => kset.bounded

\* The count is that of the shaft the interrupt last saw.
EncoderInv == KnobSetupLegal /\ EncoderTyped /\ counters.previous = Pins(shaft.seen) /\ TurnsKept

\* The window holds at most one wild conversion, where calm tells.
Within(reading) == wiper.at - kset.noise <= reading /\ reading <= wiper.at + kset.noise
Wild == CASE analog.calm = 0 -> {((analog.slot + 1) % 3) + 1}
          [] analog.calm = 1 -> {(analog.slot % 3) + 1}
          [] analog.calm = 2 -> {analog.slot}
          [] OTHER           -> {}

WiperInv ==
    kset.moves = 0 =>
        /\ wiper.left = 0 /\ wiper.at \in Nat
        /\ analog.recent \in [1 .. 3 -> Nat] /\ analog.slot \in 1 .. 3 /\ analog.calm \in 0 .. 3
        /\ \A i \in 1 .. 3 : i \in Wild \/ Within(analog.recent[i])
        /\ analog.smoothed \in Int /\ analog.raw \in Int
        /\ Scale * (wiper.at - kset.noise) <= analog.smoothed
        /\ analog.smoothed < Scale * (wiper.at + kset.noise + 1)
        /\ Within(analog.raw)
        /\ knob.raw \in Int
        /\ knob.raw = 0 \/ Distance(knob.raw, wiper.at) <= kset.noise + kset.deadband

KnobInv == EncoderInv /\ WiperInv

\* Two pins are one of four states.
LEMMA PinsIs == ASSUME NEW x \in Int PROVE Pins(x) \in 0 .. 3
  <1>1. x % 4 \in {0, 1, 2, 3}
    BY Division
  <1> QED BY <1>1 DEF Pins

\* The knob starts at rest, its window full of one reading.
LEMMA InitKnob == KnobsInit => KnobInv
  <1> SUFFICES ASSUME KnobsInit PROVE KnobInv
    OBVIOUS
  <1>1. KnobSetupLegal
    BY KnobSetupsTyped DEF KnobsInit, KnobSetupLegal
  <1>2. /\ shaft = [at |-> 0, seen |-> 0, left |-> kset.turns, latched |-> FALSE]
        /\ counters = [position |-> 0, sub |-> 0, previous |-> Pins(0)] /\ missed = 0
        /\ encoder = [position |-> IF kset.bounded THEN Clamped(0) ELSE 0, delta |-> 0, lastRaw |-> 0]
    BY DEF KnobsInit, NewEncoder
  <1>3. /\ kset.turns \in Nat /\ kset.detent \in Nat \ {0} /\ kset.low \in Int /\ kset.high \in Int
        /\ kset.noise \in Nat /\ kset.wiper \in SUBSET Nat /\ kset.deadband \in Nat
        /\ kset.bounded \in BOOLEAN
    BY <1>1 DEF KnobSetupLegal, KnobSetupType
  <1>4. kset.bounded => Clamped(0) \in kset.low .. kset.high
    BY <1>1, <1>3, ClampedIs DEF KnobSetupLegal
  <1>5. EncoderTyped
    BY <1>2, <1>3, <1>4, PinsIs DEF EncoderTyped
  <1>6. TurnsKept
    <2>1. kset.wrap => (encoder.position - encoder.lastRaw - Clamped(0)) % Span = 0
      <3> SUFFICES ASSUME kset.wrap PROVE (encoder.position - encoder.lastRaw - Clamped(0)) % Span = 0
        OBVIOUS
      <3>1. kset.bounded /\ Span \in Nat \ {0} /\ Clamped(0) \in Int
        BY <1>1, <1>3, <1>4 DEF KnobSetupLegal, Span
      <3>2. encoder.position - encoder.lastRaw - Clamped(0) = Span * 0
        BY <1>2, <3>1
      <3> QED BY <3>1, <3>2, NoRemainder
    <2> QED BY <1>2, <1>3, <1>4, <2>1 DEF TurnsKept
  <1>7. WiperInv
    <2>1. PICK at \in kset.wiper : wiper = [at |-> at, left |-> kset.moves] /\ analog = NewAnalog(at)
      BY DEF KnobsInit
    <2>2. /\ at \in Nat /\ wiper.at = at /\ wiper.left = kset.moves
          /\ analog.recent = <<at, at, at>> /\ analog.slot = 1 /\ analog.smoothed = at * Scale
          /\ analog.raw = at /\ analog.calm = 3
      BY <1>3, <2>1 DEF NewAnalog
    <2>3. analog.recent \in [1 .. 3 -> Nat] /\ \A i \in 1 .. 3 : analog.recent[i] = at
      BY <2>2
    <2>4. Scale * (at - kset.noise) <= Scale * at /\ Scale * at < Scale * (at + kset.noise + 1) /\ Scale * at \in Int
          /\ at * Scale = Scale * at
      <3>1. Scale * (at - kset.noise) <= Scale * at /\ Scale * (at + 1) <= Scale * (at + kset.noise + 1)
        BY <1>3, <2>2, Scales, Products
      <3>2. Scale * (at + 1) = Scale * at + Scale /\ Scale * at \in Int /\ at * Scale = Scale * at
            /\ Scale * (at + kset.noise + 1) \in Int
        BY <1>3, <2>2, Scales
      <3> QED BY <3>1, <3>2, Scales
    <2>5. Within(at) /\ knob.raw = 0
      BY <1>3, <2>2 DEF Within, KnobsInit
    <2>6. \A i \in 1 .. 3 : Within(analog.recent[i])
      BY <2>3, <2>5
    <2> QED BY <2>2, <2>3, <2>4, <2>5, <2>6 DEF WiperInv
  <1> QED BY <1>1, <1>2, <1>5, <1>6, <1>7 DEF KnobInv, EncoderInv

\* The invariant gives the property.
LEMMA KnobTells == KnobInv => KnobsReadTrue
  <1> SUFFICES ASSUME KnobInv, kset.moves = 0
               PROVE  /\ Distance(analog.raw, wiper.at) <= kset.noise
                      /\ Distance(knob.raw, wiper.at) <= kset.noise + kset.deadband \/ knob.raw = 0
    BY DEF KnobInv, EncoderInv, KnobsReadTrue, ParkedReadsTrue
  <1>1. kset.noise \in Nat
    BY DEF KnobInv, EncoderInv, KnobSetupLegal, KnobSetupType
  <1> QED BY <1>1 DEF KnobInv, WiperInv, Within, Distance

\* A turn is not counted before the interrupt sees it.
LEMMA TurnKeeps ==
  ASSUME KnobInv, NEW way \in {-1, 1}, Turn(way)
  PROVE  KnobInv'
  <1>1. /\ shaft \in [at : Int, seen : Int, left : Nat, latched : BOOLEAN] /\ shaft.left > 0
        /\ shaft' = [shaft EXCEPT !.at = shaft.at + way, !.left = shaft.left - 1, !.latched = TRUE]
        /\ UNCHANGED <<kset, counters, missed, encoder, wiper, analog, knob>>
    BY DEF Turn, wiperVars, KnobInv, EncoderInv, EncoderTyped
  <1>2. shaft' \in [at : Int, seen : Int, left : Nat, latched : BOOLEAN] /\ shaft'.seen = shaft.seen
    <2> DEFINE at == shaft.at + way
               left == shaft.left - 1
    <2>1. at \in Int /\ left \in Nat /\ TRUE \in BOOLEAN
      BY <1>1
    <2>2. shaft' = [shaft EXCEPT !.at = at, !.left = left, !.latched = TRUE]
      BY <1>1
    <2>3. shaft'.seen = shaft.seen
      BY <1>1, <2>2
    <2> HIDE DEF at, left
    <2>4. shaft' \in [at : Int, seen : Int, left : Nat, latched : BOOLEAN]
      BY <1>1, <2>1, <2>2, Zenon
    <2> QED BY <2>3, <2>4
  <1>3. EncoderInv'
    BY <1>1, <1>2 DEF KnobInv, EncoderInv, EncoderTyped, TurnsKept, KnobSetupLegal, Pins, Span, Clamped
  <1>4. WiperInv'
    BY <1>1 DEF KnobInv, WiperInv, Within, Wild, Distance
  <1> QED BY <1>3, <1>4 DEF KnobInv

\* An interrupt banks what the table tells, and a whole detent clears what was banked.
LEMMA EdgeKeeps == ASSUME KnobInv, OnEdge PROVE KnobInv'
  <1> DEFINE levels == Pins(shaft.at)
             step == QUADRATURE_STEPS[counters.previous + 1][levels + 1]
             n == kset.detent
             sub == counters.sub + step
  <1>1. /\ shaft' = [shaft EXCEPT !.seen = shaft.at, !.latched = FALSE]
        /\ counters' = [position |-> Banked(step).position, sub |-> Banked(step).sub, previous |-> levels]
        /\ missed' = missed + (shaft.at - shaft.seen) - step
        /\ UNCHANGED <<kset, encoder, wiper, analog, knob>>
    BY DEF OnEdge, wiperVars
  <1>2. /\ shaft \in [at : Int, seen : Int, left : Nat, latched : BOOLEAN] /\ shaft.at \in Int /\ shaft.seen \in Int
        /\ counters.position \in Int /\ counters.sub \in Int /\ missed \in Int
        /\ n \in Nat \ {0} /\ counters.previous = Pins(shaft.seen)
        /\ -n < counters.sub /\ counters.sub < n /\ missed % 2 = 0
        /\ shaft.seen = (n * counters.position) + counters.sub + missed
    BY DEF KnobInv, EncoderInv, EncoderTyped, TurnsKept, KnobSetupLegal, KnobSetupType
  <1>3. step \in {-1, 0, 1} /\ (shaft.at - shaft.seen - step) % 2 = 0
    BY <1>2, TableTells
  <1>4. levels \in 0 .. 3
    BY <1>2, PinsIs
  <1> HIDE DEF levels, step, n
  <1>5. /\ Banked(step) = IF sub >= n THEN [position |-> counters.position + 1, sub |-> 0]
                          ELSE IF sub <= -n THEN [position |-> counters.position - 1, sub |-> 0]
                          ELSE [position |-> counters.position, sub |-> sub]
    BY DEF Banked, n
  <1>6. /\ Banked(step).position \in Int /\ Banked(step).sub \in Int
        /\ -n < Banked(step).sub /\ Banked(step).sub < n
        /\ (n * Banked(step).position) + Banked(step).sub = (n * counters.position) + sub
    <2>1. /\ n * (counters.position + 1) = (n * counters.position) + n
          /\ n * (counters.position - 1) = (n * counters.position) - n
          /\ n * counters.position \in Int
      BY <1>2
    <2>0. n \in Nat \ {0} /\ counters.sub \in Int /\ -n < counters.sub /\ counters.sub < n
      BY <1>2
    <2> DEFINE kept == counters.sub
    <2>2. CASE sub >= n
      <3>1. sub = n
        <4> HIDE DEF kept
        <4>1. kept + step >= n /\ kept < n /\ kept \in Int /\ n \in Int
          BY <2>0, <2>2 DEF kept
        <4>2. kept + step = n
          BY <1>3, <4>1
        <4> QED BY <4>2 DEF kept
      <3>2. Banked(step).position = counters.position + 1 /\ Banked(step).sub = 0
        BY <1>5, <2>2
      <3> QED BY <1>2, <2>1, <3>1, <3>2
    <2>3. CASE ~(sub >= n) /\ sub <= -n
      <3>1. sub = -n
        <4> HIDE DEF kept
        <4>1. kept + step <= -n /\ -n < kept /\ kept \in Int /\ n \in Int
          BY <2>0, <2>3 DEF kept
        <4>2. kept + step = -n
          BY <1>3, <4>1
        <4> QED BY <4>2 DEF kept
      <3>2. Banked(step).position = counters.position - 1 /\ Banked(step).sub = 0
        BY <1>5, <2>3
      <3> QED BY <1>2, <2>1, <3>1, <3>2
    <2>4. CASE ~(sub >= n) /\ ~(sub <= -n)
      <3>1. Banked(step).position = counters.position /\ Banked(step).sub = sub
        BY <1>5, <2>4
      <3> QED BY <1>2, <1>3, <2>4, <3>1
    <2> QED BY <2>2, <2>3, <2>4
  <1>7. /\ shaft' \in [at : Int, seen : Int, left : Nat, latched : BOOLEAN] /\ shaft'.seen = shaft.at
        /\ counters' \in [position : Int, sub : Int, previous : 0 .. 3]
        /\ counters'.position = Banked(step).position /\ counters'.sub = Banked(step).sub
        /\ counters'.previous = levels
    BY <1>1, <1>2, <1>4, <1>6
  <1>8. missed' \in Int /\ missed' % 2 = 0
    <2>1. missed = 2 * (missed \div 2) /\ missed \div 2 \in Int
      BY <1>2, Division
    <2> DEFINE jump == shaft.at - shaft.seen - step
               half == (missed \div 2) + (jump \div 2)
    <2>2. jump \in Int /\ jump % 2 = 0 /\ missed' = missed + jump
      BY <1>1, <1>2, <1>3
    <2> HIDE DEF jump
    <2>3. jump = 2 * (jump \div 2) /\ jump \div 2 \in Int
      BY <2>2, Division
    <2>4. half \in Int /\ missed' = 2 * half
      BY <2>1, <2>2, <2>3
    <2> HIDE DEF half
    <2> QED BY <2>4, NoRemainder
  <1>9. shaft'.seen = (n * counters'.position) + counters'.sub + missed'
    <2> DEFINE before == n * counters.position
               after == n * Banked(step).position
               at == shaft.at
               seen == shaft.seen
               kept == counters.sub
               rest == Banked(step).sub
    <2>1. before \in Int /\ after \in Int /\ at \in Int /\ seen \in Int /\ missed \in Int
          /\ kept \in Int /\ rest \in Int
      BY <1>2, <1>6
    <2>2. seen = before + kept + missed /\ after + rest = before + (kept + step)
          /\ missed' = missed + (at - seen) - step
      BY <1>1, <1>2, <1>6
    <2>3. shaft'.seen = at /\ (n * counters'.position) + counters'.sub = after + rest
      BY <1>7
    <2>4. n * counters'.position = after /\ counters'.sub = rest
      BY <1>7
    <2> HIDE DEF before, after, at, seen, kept, rest
    <2> QED BY <1>3, <2>1, <2>2, <2>3, <2>4
  <1>a. TurnsKept'
    BY <1>1, <1>6, <1>7, <1>8, <1>9 DEF KnobInv, EncoderInv, TurnsKept, Span, Clamped, n
  <1>b. EncoderInv'
    BY <1>1, <1>7, <1>8, <1>a DEF KnobInv, EncoderInv, EncoderTyped, KnobSetupLegal, levels
  <1>c. WiperInv'
    BY <1>1 DEF KnobInv, WiperInv, Within, Wild, Distance
  <1> QED BY <1>b, <1>c DEF KnobInv

\* The position is folded by whole spans, or clamped.
LEMMA CheckKeeps == ASSUME KnobInv, CheckEncoder PROVE KnobInv'
  <1> DEFINE moved == counters.position - encoder.lastRaw
             position == encoder.position + moved
             fits == IF ~kset.bounded THEN position
                     ELSE IF kset.wrap THEN Wrapped(position) ELSE Clamped(position)
             delta == IF kset.bounded /\ ~kset.wrap THEN fits - encoder.position ELSE moved
  <1>1. /\ encoder' = [position |-> fits, lastRaw |-> counters.position, delta |-> delta]
        /\ UNCHANGED <<kset, shaft, counters, missed, wiper, analog, knob>>
    BY DEF CheckEncoder, Turned, wiperVars
  <1>2. /\ counters.position \in Int /\ encoder.lastRaw \in Int /\ encoder.position \in Int
        /\ kset.low \in Int /\ kset.high \in Int /\ KnobSetupLegal /\ TurnsKept
    BY DEF KnobInv, EncoderInv, EncoderTyped, KnobSetupLegal, KnobSetupType
  <1>3. position \in Int /\ moved \in Int
    BY <1>2
  <1>4. kset.bounded => kset.low <= kset.high /\ Span \in Nat \ {0}
    BY <1>2 DEF KnobSetupLegal, Span
  <1>5. kset.bounded => Wrapped(position) \in kset.low .. kset.high /\ Clamped(position) \in kset.low .. kset.high
    <2> SUFFICES ASSUME kset.bounded
                 PROVE  Wrapped(position) \in kset.low .. kset.high /\ Clamped(position) \in kset.low .. kset.high
      OBVIOUS
    <2>1. Clamped(position) \in kset.low .. kset.high
      BY <1>2, <1>3, <1>4, ClampedIs
    <2> DEFINE x == position - kset.low
               n == Span
    <2>2. x % n \in 0 .. (n - 1)
      <3>1. x \in Int /\ n \in Nat \ {0}
        BY <1>2, <1>3, <1>4
      <3> HIDE DEF x, n
      <3> QED BY <3>1, Division
    <2>3. Span - 1 = kset.high - kset.low
      BY <1>2 DEF Span
    <2> QED BY <1>2, <2>1, <2>2, <2>3 DEF Wrapped
  <1>6. fits \in Int /\ (~kset.bounded => fits = position)
        /\ (kset.bounded => fits \in kset.low .. kset.high) /\ (kset.wrap => fits = Wrapped(position))
    BY <1>2, <1>3, <1>5 DEF KnobSetupLegal
  <1>7. kset.wrap => (fits - counters.position - Clamped(0)) % Span = 0
    <2> SUFFICES ASSUME kset.wrap PROVE (fits - counters.position - Clamped(0)) % Span = 0
      OBVIOUS
    <2> DEFINE n == Span
               c == Clamped(0)
               x == position - kset.low
               y == encoder.position - encoder.lastRaw - c
    <2>1. n \in Nat \ {0} /\ c \in Int
      BY <1>2, <1>4, ClampedIs DEF KnobSetupLegal
    <2>2. y % n = 0
      BY <1>2 DEF TurnsKept
    <2>3. fits = kset.low + (x % n)
      BY <1>6 DEF Wrapped
    <2> HIDE DEF n, c, fits
    <2>4. x \in Int /\ y \in Int
      BY <1>2, <2>1
    <2>5. position = counters.position + y + c
      BY <1>2, <2>1
    <2>6. x = counters.position + y + c - kset.low
      BY <1>2, <2>4, <2>5, <2>1
    <2> HIDE DEF x, y, position, moved
    <2>7. x = n * (x \div n) + (x % n) /\ x \div n \in Int /\ x % n \in Int
      BY <2>1, <2>4, Division
    <2>8. y = n * (y \div n) + (y % n) /\ y \div n \in Int
      BY <2>1, <2>4, Division
    <2>9. fits - counters.position - c = n * ((y \div n) - (x \div n))
      <3>1. fits - counters.position - c = y - n * (x \div n)
        <4> DEFINE whole == n * (x \div n)
                   part == x % n
                   low == kset.low
                   raw == counters.position
        <4>1. whole \in Int /\ part \in Int /\ low \in Int /\ raw \in Int
          BY <1>2, <2>1, <2>7
        <4>2. x = whole + part /\ x = raw + y + c - low /\ fits = low + part
          BY <2>3, <2>6, <2>7
        <4> HIDE DEF whole, part, low, raw
        <4>3. fits - raw - c = y - whole
          BY <2>1, <2>4, <4>1, <4>2
        <4> QED BY <4>3 DEF whole, raw
      <3>2. n * ((y \div n) - (x \div n)) = n * (y \div n) - n * (x \div n)
        BY <2>1, <2>7, <2>8
      <3>3. n * (y \div n) \in Int /\ n * (x \div n) \in Int
        BY <2>1, <2>7, <2>8
      <3> QED BY <2>2, <2>8, <3>1, <3>2, <3>3
    <2> QED BY <2>1, <2>7, <2>8, <2>9, NoRemainder DEF n, c
  <1> HIDE DEF fits, position, moved
  <1>8. delta \in Int
    BY <1>2, <1>3, <1>6
  <1> HIDE DEF delta
  <1>9. /\ encoder' \in [position : Int, delta : Int, lastRaw : Int]
        /\ encoder'.position = fits /\ encoder'.lastRaw = counters.position
    BY <1>1, <1>2, <1>6, <1>8
  <1>a. ~kset.bounded => fits = counters.position
    BY <1>2, <1>6 DEF TurnsKept, position, moved
  <1>b. TurnsKept'
    BY <1>1, <1>2, <1>6, <1>7, <1>9, <1>a DEF TurnsKept, Span, Clamped
  <1>c. EncoderInv'
    BY <1>1, <1>9, <1>b DEF KnobInv, EncoderInv, EncoderTyped, KnobSetupLegal, Pins
  <1>d. WiperInv'
    BY <1>1 DEF KnobInv, WiperInv, Within, Wild, Distance
  <1> QED BY <1>c, <1>d DEF KnobInv

\* A wiper that moves is not parked.
LEMMA MoveKeeps ==
  ASSUME KnobInv, NEW to \in kset.wiper, Move(to)
  PROVE  KnobInv'
  <1>1. wiper.left > 0 /\ UNCHANGED <<kset, shaft, counters, missed, encoder, knob>>
    BY DEF Move, shaftVars
  <1>2. EncoderInv'
    BY <1>1 DEF KnobInv, EncoderInv, EncoderTyped, TurnsKept, KnobSetupLegal, Pins, Span, Clamped
  <1>3. kset.moves # 0
    BY <1>1 DEF KnobInv, WiperInv
  <1> QED BY <1>1, <1>2, <1>3 DEF KnobInv, WiperInv

\* A conversion leaves at most one wild one in the window, so the middle is never wild.
LEMMA ReadKeeps ==
  ASSUME KnobInv, NEW reading \in Readings \cup kset.wild, CheckKnob(reading)
  PROVE  KnobInv'
  <1>1. /\ reading \in Readings \/ (reading \in kset.wild /\ analog.calm >= 2)
        /\ analog' = Converted(reading)
        /\ knob' = IF Distance(analog'.raw, knob.raw) <= kset.deadband THEN knob
                   ELSE [raw |-> analog'.raw, value |-> Quantized(analog'.raw)]
        /\ UNCHANGED <<kset, shaft, counters, missed, encoder, wiper>>
    BY DEF CheckKnob, shaftVars
  <1>2. EncoderInv'
    BY <1>1 DEF KnobInv, EncoderInv, EncoderTyped, TurnsKept, KnobSetupLegal, Pins, Span, Clamped
  <1> SUFFICES ASSUME kset.moves = 0 PROVE WiperInv'
    BY <1>1, <1>2 DEF KnobInv, WiperInv
  <1>3. /\ kset.noise \in Nat /\ kset.deadband \in Nat /\ kset.wild \in SUBSET Nat
    BY DEF KnobInv, EncoderInv, KnobSetupLegal, KnobSetupType
  <1>4. /\ wiper.left = 0 /\ wiper.at \in Nat
        /\ analog.recent \in [1 .. 3 -> Nat] /\ analog.slot \in {1, 2, 3} /\ analog.calm \in {0, 1, 2, 3}
        /\ \A i \in 1 .. 3 : i \in Wild \/ Within(analog.recent[i])
        /\ analog.smoothed \in Int
        /\ Scale * (wiper.at - kset.noise) <= analog.smoothed
        /\ analog.smoothed < Scale * (wiper.at + kset.noise + 1)
        /\ knob.raw \in Int
        /\ knob.raw = 0 \/ Distance(knob.raw, wiper.at) <= kset.noise + kset.deadband
    BY DEF KnobInv, WiperInv
  <1>5. reading \in Nat /\ (reading \in Readings => Within(reading))
    BY <1>3, KnobsAssumption DEF Readings, Within
  <1> DEFINE recent == [analog.recent EXCEPT ![analog.slot] = reading]
             slot == (analog.slot % 3) + 1
             calm == IF reading \in Readings THEN Min({3, analog.calm + 1}) ELSE 0
             middle == Median(recent)
             smoothed == Smoothed(middle)
             raw == smoothed \div Scale
  <1>6. recent \in [1 .. 3 -> Nat] /\ recent[analog.slot] = reading
        /\ \A i \in 1 .. 3 : i # analog.slot => recent[i] = analog.recent[i]
    BY <1>4, <1>5
  <1>7. analog' = [recent |-> recent, slot |-> slot, smoothed |-> smoothed, raw |-> raw, calm |-> calm]
    BY <1>1 DEF Converted
  <1>8. /\ slot = IF analog.slot = 3 THEN 1 ELSE analog.slot + 1
        /\ ((slot + 1) % 3) + 1 = analog.slot
        /\ (slot % 3) + 1 = IF slot = 3 THEN 1 ELSE slot + 1
        /\ ((analog.slot + 1) % 3) + 1 = IF analog.slot = 1 THEN 3 ELSE analog.slot - 1
    BY <1>4
  <1>9. calm = IF reading \notin Readings THEN 0 ELSE IF analog.calm = 3 THEN 3 ELSE analog.calm + 1
    <2> DEFINE next == analog.calm + 1
    <2>1. next \in Int
      BY <1>4
    <2>2. Min({3, next}) = IF 3 <= next THEN 3 ELSE next
      <3> HIDE DEF next
      <3> QED BY <2>1, TwoNumbers
    <2>3. analog.calm = 3 => Min({3, next}) = 3
      BY <2>2
    <2>4. analog.calm \in {0, 1, 2} => Min({3, next}) = next
      BY <2>2
    <2> QED BY <1>4, <2>3, <2>4
  <1> HIDE DEF recent, slot, calm, middle, smoothed, raw
  <1>a. /\ analog'.recent = recent /\ analog'.slot = slot /\ analog'.calm = calm
        /\ analog'.smoothed = smoothed /\ analog'.raw = raw
    BY <1>7
  <1>b. slot \in {1, 2, 3} /\ calm \in {0, 1, 2, 3}
    <2>1. analog.slot \in {1, 2, 3} /\ analog.calm \in {0, 1, 2, 3}
      BY <1>4
    <2>2. slot = (IF analog.slot = 3 THEN 1 ELSE analog.slot + 1)
      BY <1>8
    <2>3. slot \in {1, 2, 3}
      BY <2>1, <2>2
    <2>4. calm \in {0, 1, 2, 3}
      BY <2>1, <1>9
    <2> QED BY <2>3, <2>4
  <1> DEFINE wild == CASE calm = 0 -> {((slot + 1) % 3) + 1}
                       [] calm = 1 -> {(slot % 3) + 1}
                       [] calm = 2 -> {slot}
                       [] OTHER    -> {}
  <1>c. Wild' = wild
    BY <1>a DEF Wild
  <1>d. ASSUME NEW i \in 1 .. 3 PROVE i \in wild \/ Within(recent[i])
    <2>1. i \in {1, 2, 3}
      OBVIOUS
    <2>2. CASE i = analog.slot
      BY <1>1, <1>5, <1>6, <1>8, <1>9, <2>2
    <2>3. CASE i # analog.slot /\ reading \notin Readings
      <3>1. i \notin Wild
        BY <1>1, <1>4, <2>3 DEF Wild
      <3> QED BY <1>4, <1>6, <2>3, <3>1
    <2>4. CASE i # analog.slot /\ reading \in Readings
      <3>1. i \in Wild => i \in wild
        <4>1. CASE analog.calm = 0
          <5>1. calm = 1 /\ wild = {(slot % 3) + 1} /\ Wild = {((analog.slot + 1) % 3) + 1}
            BY <1>9, <2>4, <4>1 DEF Wild
          <5> QED BY <1>4, <1>8, <5>1
        <4>2. CASE analog.calm = 1
          <5>1. calm = 2 /\ wild = {slot} /\ Wild = {(analog.slot % 3) + 1}
            BY <1>9, <2>4, <4>2 DEF Wild
          <5> QED BY <5>1 DEF slot
        <4>3. CASE analog.calm = 2
          BY <2>4, <4>3 DEF Wild
        <4>4. CASE analog.calm = 3
          BY <4>4 DEF Wild
        <4> QED BY <1>4, <4>1, <4>2, <4>3, <4>4
      <3> QED BY <1>4, <1>6, <2>4, <3>1
    <2> QED BY <2>2, <2>3, <2>4
  <1> DEFINE lo == wiper.at - kset.noise
             hi == wiper.at + kset.noise
  <1>e. middle \in Int /\ lo <= middle /\ middle <= hi
    <2>1. recent[1] \in Int /\ recent[2] \in Int /\ recent[3] \in Int /\ lo \in Int /\ hi \in Int
      BY <1>3, <1>4, <1>6
    <2>2. middle = MiddleOfThree(recent[1], recent[2], recent[3])
      BY DEF middle, Median
    <2>3. \E i \in 1 .. 3 : wild \subseteq {i}
      BY <1>b, <1>4, <1>8
    <2>4. \/ Within(recent[1]) /\ Within(recent[2])
          \/ Within(recent[1]) /\ Within(recent[3])
          \/ Within(recent[2]) /\ Within(recent[3])
      <3> HIDE DEF wild
      <3> QED BY <1>d, <2>3
    <2>5. \/ lo <= recent[1] /\ recent[1] <= hi /\ lo <= recent[2] /\ recent[2] <= hi
          \/ lo <= recent[1] /\ recent[1] <= hi /\ lo <= recent[3] /\ recent[3] <= hi
          \/ lo <= recent[2] /\ recent[2] <= hi /\ lo <= recent[3] /\ recent[3] <= hi
      BY <2>4 DEF Within
    <2> HIDE DEF lo, hi
    <2> QED BY <2>1, <2>2, <2>5, MiddleIs
  <1>f. /\ smoothed \in Int /\ Scale * lo <= smoothed /\ smoothed < Scale * (hi + 1) /\ raw \in lo .. hi
    <2>1. lo \in Int /\ hi \in Int /\ hi + 1 = wiper.at + kset.noise + 1
      BY <1>3, <1>4
    <2>2. Scale * lo <= analog.smoothed /\ analog.smoothed < Scale * (hi + 1)
      BY <1>4, <2>1
    <2>3. smoothed = analog.smoothed + middle - (analog.smoothed \div Scale)
      BY DEF smoothed, Smoothed
    <2> HIDE DEF lo, hi
    <2> QED BY <1>4, <1>e, <2>1, <2>2, <2>3, SmoothedStays DEF raw
  <1>g. raw \in Int /\ Within(raw)
    BY <1>3, <1>4, <1>f DEF Within
  <1>h. knob'.raw \in Int /\ (knob'.raw = 0 \/ Distance(knob'.raw, wiper.at) <= kset.noise + kset.deadband)
    <2>1. CASE Distance(raw, knob.raw) <= kset.deadband
      <3>1. knob' = knob
        BY <1>1, <1>a, <2>1
      <3> QED BY <1>4, <3>1
    <2>2. CASE ~(Distance(raw, knob.raw) <= kset.deadband)
      <3>1. knob'.raw = raw
        BY <1>1, <1>a, <2>2
      <3> QED BY <1>3, <1>4, <1>g, <3>1 DEF Within, Distance
    <2> QED BY <2>1, <2>2
  <1>i. hi + 1 = wiper.at + kset.noise + 1
    BY <1>3, <1>4
  <1>j. \A x : Within(x)' <=> Within(x)
    BY <1>1 DEF Within
  <1> HIDE DEF wild
  <1>k. /\ wiper'.left = 0 /\ wiper'.at \in Nat
        /\ analog'.recent \in [1 .. 3 -> Nat] /\ analog'.slot \in 1 .. 3 /\ analog'.calm \in 0 .. 3
        /\ \A i \in 1 .. 3 : i \in Wild' \/ Within(analog'.recent[i])
        /\ analog'.smoothed \in Int /\ analog'.raw \in Int
        /\ Scale * (wiper'.at - kset'.noise) <= analog'.smoothed
        /\ analog'.smoothed < Scale * (wiper'.at + kset'.noise + 1)
        /\ Within(analog'.raw)
        /\ knob'.raw \in Int
        /\ knob'.raw = 0 \/ Distance(knob'.raw, wiper'.at) <= kset'.noise + kset'.deadband
    BY <1>1, <1>4, <1>6, <1>a, <1>b, <1>c, <1>d, <1>f, <1>g, <1>h, <1>i
  <1> QED BY <1>1, <1>k DEF WiperInv, Within, Distance

\* Together: every step.
LEMMA KnobStep == KnobInv /\ [KnobsNext]_kvars => KnobInv'
  <1> SUFFICES ASSUME KnobInv, [KnobsNext]_kvars PROVE KnobInv'
    OBVIOUS
  <1>1. CASE UNCHANGED kvars
    BY <1>1 DEF kvars, KnobInv, EncoderInv, EncoderTyped, TurnsKept, KnobSetupLegal, Pins, Span, Clamped,
                WiperInv, Within, Wild, Distance
  <1> QED BY <1>1, TurnKeeps, EdgeKeeps, CheckKeeps, MoveKeeps, ReadKeeps DEF KnobsNext

\* What an encoder tells is the turn its interrupts saw, and a parked wiper reads as
\* itself (encoder.py: check; mp.py: _on_edge, MpAnalogSource.poll; analog.py: check).
THEOREM KnobsAlwaysReadTrue == KnobsSpec => []KnobsReadTrue
  <1> QED BY InitKnob, KnobStep, KnobTells, PTL DEF KnobsSpec


\* What a step cuts off the turning, a clamped position has at the bound.
LEMMA CutAtBound ==
  ASSUME KnobInv, [KnobsNext]_kvars, kset.bounded, ~kset.wrap
  PROVE  /\ CutOff' > CutOff => encoder'.position = kset.high
         /\ CutOff' < CutOff => encoder'.position = kset.low
  <1>1. /\ counters.position \in Int /\ encoder.lastRaw \in Int /\ encoder.position \in Int
        /\ kset.low \in Int /\ kset.high \in Int /\ kset.low <= kset.high
    BY DEF KnobInv, EncoderInv, EncoderTyped, KnobSetupLegal, KnobSetupType
  <1>2. Clamped(0) \in Int
    BY <1>1, ClampedIs
  <1>3. kset' = kset
    BY DEF KnobsNext, kvars, Turn, OnEdge, CheckEncoder, Move, CheckKnob
  <1>4. Clamped(0)' = Clamped(0)
    BY <1>3 DEF Clamped
  <1>5. CASE CheckEncoder
    <2> DEFINE position == encoder.position + (counters.position - encoder.lastRaw)
               fits == Clamped(position)
    <2>1. position \in Int
      BY <1>1
    <2>2. fits = IF position > kset.high THEN kset.high
                 ELSE IF position < kset.low THEN kset.low ELSE position
      <3> DEFINE m == Min({kset.high, position})
      <3>1. m = IF kset.high <= position THEN kset.high ELSE position
        BY <1>1, <2>1, TwoNumbers
      <3>2. m \in Int
        BY <1>1, <2>1, <3>1
      <3>3. fits = Max({kset.low, m})
        BY DEF Clamped
      <3> HIDE DEF m, fits, position
      <3>4. fits = IF kset.low >= m THEN kset.low ELSE m
        BY <1>1, <3>2, <3>3, TwoNumbers
      <3> QED BY <1>1, <2>1, <3>1, <3>4
    <2>3. encoder'.position = fits /\ encoder'.lastRaw = counters.position
      BY <1>5 DEF CheckEncoder, Turned
    <2>4. CutOff' - CutOff = position - fits
      <3>1. fits \in Int
        BY <1>1, <2>1, <2>2
      <3> HIDE DEF fits
      <3> QED BY <1>1, <1>2, <1>4, <2>3, <3>1 DEF CutOff
    <2>5. CutOff \in Int /\ CutOff' \in Int
      <3>1. fits \in Int
        BY <1>1, <2>1, <2>2
      <3> HIDE DEF fits
      <3> QED BY <1>1, <1>2, <1>4, <2>3, <3>1 DEF CutOff
    <2> HIDE DEF position, fits
    <2> QED BY <1>1, <2>1, <2>2, <2>3, <2>4, <2>5
  <1>6. CASE ~CheckEncoder
    <2>1. encoder' = encoder
      BY <1>6 DEF KnobsNext, kvars, Turn, OnEdge, Move, CheckKnob, shaftVars
    <2>2. CutOff' = CutOff /\ CutOff \in Int
      BY <1>1, <1>2, <1>4, <2>1 DEF CutOff
    <2> QED BY <2>2
  <1> QED BY <1>5, <1>6

\* Turned past a bound or not, the position follows the shaft detent for detent, and
\* turning is cut off only by the bound it runs into (encoder.py: check).
THEOREM BoundsAlwaysGiveBack == KnobsSpec => BoundsGiveBack
  <1> DEFINE GivesBack ==
        kset.bounded /\ ~kset.wrap =>
            /\ CutOff' > CutOff => encoder'.position = kset.high
            /\ CutOff' < CutOff => encoder'.position = kset.low
  <1>1. KnobInv /\ [KnobsNext]_kvars => [GivesBack]_kvars
    BY CutAtBound
  <1>2. KnobsSpec => [][GivesBack]_kvars
    <2> HIDE DEF GivesBack
    <2> QED BY <1>1, InitKnob, KnobStep, PTL DEF KnobsSpec
  <1> QED BY <1>2 DEF BoundsGiveBack

==============================================================================
