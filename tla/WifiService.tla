---------------------------- MODULE WifiService ----------------------------
(***************************************************************************)
(* WifiService (wifi/src/chumicro_wifi/service.py): the supervisor that    *)
(* brings the link up, watches it and reconnects, driven by the runner's   *)
(* check/handle pair, together with the radio it drives.                   *)
(*                                                                         *)
(* Time is in abstract ticks.  An absolute tick deadline of the code is    *)
(* the number of ticks left before it: 0 is "due".  A blocking adapter     *)
(* (CircuitPython) holds the handler inside connect() while time passes,   *)
(* so handle() is split where the code blocks.                             *)
(***************************************************************************)
EXTENDS Integers

CONSTANTS
    Adapters,         \* the values adapter.connect_blocks may have
    ConnectTimeout,   \* connect_timeout_ms
    FirstTimeout,     \* first_connect_timeout_ms; NoGrace is the code's None
    BackoffStart,     \* reconnect_backoff_start_ms
    BackoffMax,       \* reconnect_backoff_max_ms
    Limits,           \* the values of reconnect_max; NoLimit is the code's None
    AttemptCap,       \* bound: _reconnect_attempts saturates here
    JoinTime,         \* ticks a warm radio needs to associate
    ColdJoinTime,     \* ticks the first association needs
    Outages           \* bound: how often the access point may disappear

NoGrace == 0
NoLimit == 0
None    == -1

ASSUME WifiAssumption ==
    /\ Adapters \subseteq BOOLEAN
    /\ ConnectTimeout \in Nat \ {0}
    /\ FirstTimeout \in Nat
    /\ BackoffStart \in Nat \ {0}
    /\ BackoffMax \in Nat
    /\ BackoffStart <= BackoffMax
    /\ Limits \subseteq Nat
    /\ AttemptCap \in Nat \ {0}
    /\ \A max \in Limits : max <= AttemptCap
    /\ JoinTime \in Nat \ {0}
    /\ ColdJoinTime \in Nat \ {0}
    /\ Outages \in Nat \ {0}

VARIABLES
    state,        \* WifiService.state
    lastError,    \* last_error: who recorded it
    due,          \* ticks to _next_attempt_due_ms, 0 once reached
    backoff,      \* _current_backoff_ms
    attempts,     \* _reconnect_attempts
    deadline,     \* ticks to _attempt_deadline_ms, None when no join is in flight
    dispatched,   \* _first_connect_dispatched
    configured,   \* _configured
    pc,           \* where the runner is in this service's tick
    dial,         \* ticks left of a blocking connect()
    link,         \* what the driver reports and does
    joinIn,       \* ticks to the end of the association under way
    apUp,         \* the access point is reachable
    outages,      \* outages left
    blocking,     \* adapter.connect_blocks: fixed when the service is built
    reconnectMax, \* reconnect_max: fixed when the service is built
    owed,         \* history: the backoff the last failed attempt imposed
    sinceFail     \* history: ticks since that failure (saturates at BackoffMax)

service == <<state, lastError, due, backoff, attempts, deadline, dispatched,
             configured>>
radio   == <<link, joinIn, apUp, outages>>
history == <<owed, sinceFail>>
config  == <<blocking, reconnectMax>>
vars    == <<service, pc, dial, radio, config, history>>

States == {"disconnected", "connecting", "connected", "reconnecting", "failed"}
Dialling == {"connecting", "reconnecting"}

Lesser(a, b) == IF a < b THEN a ELSE b
Left(t) == IF t > 0 THEN t - 1 ELSE t

Init ==
    /\ blocking \in Adapters
    /\ reconnectMax \in Limits
    /\ state = "disconnected"
    /\ lastError = "none"
    /\ due = 0
    /\ backoff = BackoffStart
    /\ attempts = 0
    /\ deadline = None
    /\ dispatched = FALSE
    /\ configured = FALSE
    /\ pc = "idle"
    /\ dial = 0
    /\ link \in {"down", "up"}   \* an association can survive a soft reload
    /\ joinIn = 0
    /\ apUp \in BOOLEAN
    /\ outages = IF apUp THEN Outages ELSE Outages - 1
    /\ owed = 0
    /\ sinceFail = BackoffMax

-----------------------------------------------------------------------------
(* check and the pieces handle is made of                                  *)

\* check(now_ms): work to do this tick.
CheckTrue ==
    CASE state = "failed"    -> FALSE
      [] state = "connected" -> link # "up"
      [] OTHER               -> deadline # None \/ due = 0

\* _transition: the state changes first, then every callback runs; a raising
\* callback leaves its mark only in an empty last_error.
Transition(new, error) ==
    /\ state' = new
    /\ \E raises \in BOOLEAN :
          lastError' = IF raises /\ state # new /\ error = "none"
                       THEN "callback" ELSE error

\* Mutant of AttemptTimeout: the first-connect grace is forgotten.
GraceForgotten == ConnectTimeout

\* _attempt_timeout_ms
AttemptTimeout == IF FirstTimeout # NoGrace /\ ~dispatched
                  THEN FirstTimeout ELSE ConnectTimeout

\* _mark_connected
MarkConnected ==
    /\ backoff' = BackoffStart
    /\ attempts' = 0
    /\ deadline' = None
    /\ Transition("connected", "none")
    /\ UNCHANGED <<due, history>>

\* _register_failed_attempt: the backoff doubles up to the cap.
NextBackoff == Lesser(backoff * 2, BackoffMax)

\* Mutant of NextDue: one tick of the backoff is lost.
DueTooEarly == backoff - 1
\* ... and the next attempt is due after the current one.
NextDue == backoff

\* _register_failed_attempt: terminal at the cap, otherwise the next attempt
\* is scheduled from the clock at the end of the attempt.
RegisterFailedAttempt(error) ==
    LET n == Lesser(attempts + 1, AttemptCap) IN
    /\ attempts' = n
    /\ deadline' = None
    /\ \/ /\ reconnectMax # NoLimit /\ n >= reconnectMax
          /\ Transition("failed", error)
          /\ UNCHANGED <<due, backoff, history>>
       \/ /\ reconnectMax = NoLimit \/ n < reconnectMax
          /\ due' = NextDue
          /\ backoff' = NextBackoff
          /\ owed' = backoff
          /\ sinceFail' = 0
          /\ lastError' = error
          /\ UNCHANGED state

-----------------------------------------------------------------------------
(* The runner's tick                                                       *)

Check ==
    /\ pc = "idle"
    /\ CheckTrue
    /\ pc' = "handle"
    /\ UNCHANGED <<service, dial, radio, history>>

\* handle, CONNECTED: the link may have come back since check looked.
HandleConnected ==
    /\ pc = "handle" /\ state = "connected"
    /\ pc' = "idle"
    /\ IF link = "up"
       THEN UNCHANGED <<service, history>>
       ELSE /\ backoff' = BackoffStart
            /\ due' = 0
            /\ deadline' = None
            /\ owed' = 0
            /\ Transition("reconnecting", lastError)
            /\ UNCHANGED <<attempts, dispatched, configured, sinceFail>>
    /\ UNCHANGED <<dial, radio>>

\* handle, DISCONNECTED: announce CONNECTING, then go on in the same call.
HandleDisconnected ==
    /\ pc = "handle" /\ state = "disconnected"
    /\ Transition("connecting", lastError)
    /\ UNCHANGED <<due, backoff, attempts, deadline, dispatched, configured,
                   pc, dial, radio, history>>

\* _poll_in_flight: the link wins over an expired deadline.
PollInFlight ==
    /\ pc = "handle" /\ state \in Dialling /\ deadline # None
    /\ pc' = "idle"
    /\ IF link = "up" THEN MarkConnected
       ELSE IF deadline = 0 THEN RegisterFailedAttempt(lastError)
       ELSE UNCHANGED <<state, lastError, due, backoff, attempts, deadline,
                        history>>
    /\ UNCHANGED <<dispatched, configured, dial, radio>>

\* Mutant of MayAttempt: a join in flight is started again.
RestartsJoin == state \in Dialling /\ due = 0

\* handle: nothing is in flight and the backoff has passed.
MayAttempt == state \in Dialling /\ deadline = None /\ due = 0

\* _attempt_connect, adapter.configure() raises: no join was dispatched.
ConfigureRaises ==
    /\ pc = "handle" /\ MayAttempt /\ ~configured
    /\ pc' = "idle"
    /\ RegisterFailedAttempt("adapter")
    /\ UNCHANGED <<dispatched, configured, dial, radio>>

\* _attempt_connect, adapter.connect() raises.
ConnectRaises ==
    /\ pc = "handle" /\ MayAttempt
    /\ configured' = TRUE
    /\ dispatched' = TRUE
    /\ pc' = "idle"
    /\ RegisterFailedAttempt("adapter")
    /\ UNCHANGED <<dial, radio>>

\* _attempt_connect, the driver is already linked: connect() returns True.
AlreadyLinked ==
    /\ pc = "handle" /\ MayAttempt /\ link = "up"
    /\ configured' = TRUE
    /\ dispatched' = TRUE
    /\ pc' = "idle"
    /\ MarkConnected
    /\ UNCHANGED <<dial, radio>>

\* The driver's connect(): an association starts if the access point answers.
StartJoin ==
    /\ link' = IF apUp THEN "joining" ELSE "down"
    /\ joinIn' = IF ~apUp THEN 0 ELSE IF dispatched THEN JoinTime
                                                    ELSE ColdJoinTime
    /\ UNCHANGED <<apUp, outages>>

\* _attempt_connect, non-blocking adapter: the join is polled from now on.
DispatchJoin ==
    /\ pc = "handle" /\ MayAttempt /\ link # "up" /\ ~blocking
    /\ deadline' = AttemptTimeout
    /\ configured' = TRUE
    /\ dispatched' = TRUE
    /\ pc' = "idle"
    /\ StartJoin
    /\ UNCHANGED <<state, lastError, due, backoff, attempts, dial, history>>

\* _attempt_connect, blocking adapter: the handler waits inside connect().
BeginBlockingConnect ==
    /\ pc = "handle" /\ MayAttempt /\ link # "up" /\ blocking
    /\ dial' = AttemptTimeout
    /\ configured' = TRUE
    /\ dispatched' = TRUE
    /\ pc' = "connect"
    /\ StartJoin
    /\ UNCHANGED <<state, lastError, due, backoff, attempts, deadline, history>>

\* ... and returns linked, refused or timed out: False is a settled failure.
EndBlockingConnect ==
    /\ pc = "connect"
    /\ pc' = "idle"
    /\ dial' = 0
    /\ \/ link = "up" /\ MarkConnected /\ UNCHANGED radio
       \/ /\ link = "down" \/ (link = "joining" /\ dial = 0)
          /\ RegisterFailedAttempt(lastError)
          /\ link' = "down"
          /\ joinIn' = 0
          /\ UNCHANGED <<apUp, outages>>
    /\ UNCHANGED <<dispatched, configured>>

-----------------------------------------------------------------------------
(* The clock and the radio (external)                                      *)

Busy == pc = "connect" /\ (link # "joining" \/ dial = 0)

Clock ==
    /\ pc # "handle" /\ ~Busy
    /\ due' = Left(due)
    /\ deadline' = Left(deadline)
    /\ dial' = Left(dial)
    /\ sinceFail' = Lesser(sinceFail + 1, BackoffMax)
    /\ joinIn' = Left(joinIn)
    /\ link' = IF link = "joining" /\ joinIn = 1 THEN "up" ELSE link
    /\ UNCHANGED <<state, lastError, backoff, attempts, dispatched, configured,
                   pc, apUp, outages, owed>>

AccessPointLost ==
    /\ apUp /\ outages > 0
    /\ apUp' = FALSE
    /\ outages' = outages - 1
    /\ link' = IF link = "joining" THEN "down" ELSE link
    /\ joinIn' = 0
    /\ UNCHANGED <<service, pc, dial, history>>

AccessPointBack ==
    /\ ~apUp
    /\ apUp' = TRUE
    /\ UNCHANGED <<service, pc, dial, link, joinIn, outages, history>>

\* The driver notices the loss late: beacon misses, not the loss itself.
LinkLost ==
    /\ link = "up" /\ ~apUp
    /\ link' = "down"
    /\ UNCHANGED <<service, pc, dial, joinIn, apUp, outages, history>>

-----------------------------------------------------------------------------
Handle ==
    \/ HandleConnected \/ HandleDisconnected \/ PollInFlight
    \/ ConfigureRaises \/ ConnectRaises
    \/ AlreadyLinked \/ DispatchJoin
    \/ BeginBlockingConnect \/ EndBlockingConnect

Next ==
    /\ \/ Check \/ Handle
       \/ Clock \/ AccessPointLost \/ AccessPointBack \/ LinkLost
    /\ UNCHANGED config

Spec == Init /\ [][Next]_vars

\* The runner keeps ticking, time passes between its ticks (so Clock, which a
\* handler in progress disables, is strongly fair) and the driver reports a
\* dead link.  An adapter that raises for ever is not excluded by the scheduling,
\* so the successful outcomes carry strong fairness: the radio works infinitely
\* often.
Fairness ==
    /\ WF_vars(Check /\ UNCHANGED config) /\ WF_vars(Handle /\ UNCHANGED config)
    /\ SF_vars(Clock /\ UNCHANGED config) /\ WF_vars(LinkLost /\ UNCHANGED config)
    /\ SF_vars((AlreadyLinked \/ DispatchJoin \/ BeginBlockingConnect)
                   /\ UNCHANGED config)
FairSpec == Spec /\ Fairness

-----------------------------------------------------------------------------
(* Properties                                                              *)

\* Type invariant.
TypeOK ==
    /\ blocking \in Adapters /\ reconnectMax \in Limits
    /\ state \in States
    /\ lastError \in {"none", "adapter", "callback"}
    /\ due \in 0..BackoffMax
    /\ backoff \in BackoffStart..BackoffMax
    /\ attempts \in 0..AttemptCap
    /\ deadline \in Int /\ deadline >= None
    /\ dispatched \in BOOLEAN /\ configured \in BOOLEAN
    /\ pc \in {"idle", "handle", "connect"}
    /\ dial \in Nat
    /\ link \in {"down", "joining", "up"}
    /\ joinIn \in Nat
    /\ apUp \in BOOLEAN
    /\ outages \in 0..Outages
    /\ owed \in 0..BackoffMax
    /\ sinceFail \in 0..BackoffMax

\* The bookkeeping agrees with the state: a join is only in flight while
\* dialling, a connected service starts its next outage with a fresh budget,
\* and FAILED is reached by spending the whole budget and in no other way.
StateAgrees ==
    /\ deadline # None => state \in Dialling /\ ~blocking
    /\ state = "connected" => attempts = 0 /\ backoff = BackoffStart
    /\ state = "failed" => reconnectMax # NoLimit /\ attempts >= reconnectMax
    /\ state # "failed" /\ reconnectMax # NoLimit => attempts < reconnectMax
    /\ pc = "connect" => state \in Dialling /\ blocking /\ due = 0

\* No attempt can start before the backoff owed for the previous failure has
\* really passed, however long a blocking connect() held the handler.
BackoffRespected == MayAttempt => sinceFail >= owed

\* The first-connect grace does its job: while the access point has never
\* been out of reach and the adapter has not raised, no failure is counted
\* although the cold radio needs longer than connect_timeout_ms.
GraceCoversColdStart ==
    outages = Outages /\ apUp /\ lastError # "adapter" /\ state # "disconnected"
        => attempts = 0

\* The never-restart guarantee (guide.md:137-139): with no reconnect_max, once
\* the access point stays reachable the service ends up CONNECTED for good; and
\* with one, a link the driver reports dead is noticed all the same.
NeverRestart ==
    /\ reconnectMax = NoLimit /\ <>[]apUp => <>[](state = "connected")
    /\ (state = "connected" /\ link # "up") ~> (state = "reconnecting" \/ link = "up")
=============================================================================
