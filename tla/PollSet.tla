-------------------------------- MODULE PollSet --------------------------------
(***************************************************************************)
(* What Runner.wait() asks the poller to watch                             *)
(* (runner/src/chumicro_runner/core.py).  Services open, share, upgrade and *)
(* close sockets between the calls; each call reconciles the poller with    *)
(* what they want now, touching only what has changed.                      *)
(*                                                                         *)
(* CPython's poller is keyed by descriptor and asks the socket object for   *)
(* it; a closed object has none, and its descriptor goes to the next socket *)
(* that opens.  MicroPython's and CircuitPython's are keyed by the object.  *)
(***************************************************************************)
EXTENDS Integers, SequencesExt

CONSTANTS
    Services,     \* bound: the services, numbered in the order of _entries
    Sockets,      \* bound: socket objects alive at a time
    Descriptors,  \* bound: the descriptors of the process, from 1; 0 is none
    Masks,        \* what io_interest() may answer
    PollKeys      \* how the poller keys: "descriptor", "object"

ASSUME PollSetAssumption ==
    /\ Services \subseteq Nat \ {0}
    /\ Sockets \subseteq Nat \ {0}
    /\ Descriptors \subseteq Nat \ {0}
    /\ Masks \subseteq SUBSET {"read", "write"}
    /\ PollKeys \subseteq {"descriptor", "object"}

VARIABLES
    keyedBy,   \* which poller the runtime has
    spc,       \* loop: the program runs; poll: inside ipoll(); dispatch: errors are told
    fileno,    \* the descriptor of a socket object, 0 once it is closed
    holds,     \* the services' io_socket, {} for None
    wants,     \* what their io_interest() answers
    slots,     \* _registered_interest: the mask asked for and the recorded descriptor
    built,     \* whether the poller has been built
    watched,   \* the poller: what it watches, and for what
    reports    \* the errors ipoll() yields, still to be dispatched

pollVars == <<keyedBy, spc, fileno, holds, wants, slots, built, watched, reports>>

PollSetInit ==
    /\ keyedBy \in PollKeys
    /\ spc = "loop"
    /\ fileno = [s \in Sockets |-> 0]
    /\ holds = [v \in Services |-> {}]
    /\ wants = [v \in Services |-> {}]
    /\ slots = [s \in {} |-> [asked |-> {}, descriptor |-> 0]]
    /\ built = FALSE
    /\ watched = [k \in {} |-> {}]
    /\ reports = <<>>

--------------------------------------------------------------------------------
\* The services, which run in the loop and in their io_error().

Running == spc \in {"loop", "dispatch"}

\* An object nothing refers to: a slot keeps its socket alive.
Unused(s) == fileno[s] = 0 /\ s \notin DOMAIN slots /\ \A v \in Services : s \notin holds[v]

\* The kernel hands out the lowest free descriptor.
Lowest(d) ==
    /\ \A s \in Sockets : fileno[s] # d
    /\ \A e \in Descriptors : e < d => \E s \in Sockets : fileno[s] = e

OpenSocket(v) ==
    /\ Running /\ holds[v] = {}
    /\ \E s \in Sockets, d \in Descriptors, m \in Masks :
          /\ Unused(s) /\ Lowest(d)
          /\ fileno' = [fileno EXCEPT ![s] = d]
          /\ holds' = [holds EXCEPT ![v] = {s}]
          /\ wants' = [wants EXCEPT ![v] = m]
    /\ UNCHANGED <<keyedBy, spc, slots, built, watched, reports>>

\* Two services may poll one socket, a connector and the task that waits on it.
ShareSocket(v) ==
    /\ Running /\ holds[v] = {}
    /\ \E w \in Services, m \in Masks :
          /\ holds[w] # {}
          /\ holds' = [holds EXCEPT ![v] = holds[w]]
          /\ wants' = [wants EXCEPT ![v] = m]
    /\ UNCHANGED <<keyedBy, spc, fileno, slots, built, watched, reports>>

\* Who closes a socket lets go of it, and so does who shared it.
CloseSocket(v) ==
    /\ Running /\ holds[v] # {}
    /\ fileno' = [s \in Sockets |-> IF s \in holds[v] THEN 0 ELSE fileno[s]]
    /\ holds' = [w \in Services |-> holds[w] \ holds[v]]
    /\ UNCHANGED <<keyedBy, spc, wants, slots, built, watched, reports>>

\* A TLS upgrade: another object takes over the descriptor.
UpgradeSocket(v) ==
    /\ Running
    /\ \E s \in holds[v], t \in Sockets :
          /\ Unused(t)
          /\ fileno' = [fileno EXCEPT ![t] = fileno[s], ![s] = 0]
          /\ holds' = [w \in Services |-> IF s \in holds[w] THEN {t} ELSE holds[w]]
    /\ UNCHANGED <<keyedBy, spc, wants, slots, built, watched, reports>>

TurnInterest(v) ==
    /\ Running /\ holds[v] # {}
    /\ \E m \in Masks : wants' = [wants EXCEPT ![v] = m]
    /\ UNCHANGED <<keyedBy, spc, fileno, holds, slots, built, watched, reports>>

--------------------------------------------------------------------------------
\* What the poller calls the socket.
PollKey(s) == IF keyedBy = "descriptor" THEN fileno[s] ELSE s

\* The masks of the services that share a socket are or-ed.
MaskOf(s) == UNION {wants[v] : v \in {w \in Services : s \in holds[w]}}

Wanted == {s \in Sockets : MaskOf(s) # {}}

\* _fileno_of, read while the socket is open; pollers keyed by object need none.
RecordedOf(s) ==
    IF s \in DOMAIN slots THEN slots[s].descriptor
    ELSE IF keyedBy = "descriptor" THEN fileno[s] ELSE 0

SweptSlots == [s \in Wanted |-> [asked |-> MaskOf(s), descriptor |-> RecordedOf(s)]]

\* Registered, or modified because the mask has changed.
Asked == {s \in Wanted : s \notin DOMAIN slots \/ slots[s].asked # MaskOf(s)}

\* Mutant: the recorded descriptor is unregistered whoever has it now.
AlwaysUnregister(s) == {slots[s].descriptor}

\* _unregister_descriptor, for a socket that can no longer name its own: the
\* descriptor may already be that of a socket registered in this very sweep.
UnregisterDescriptor(s) ==
    IF \E t \in Wanted : RecordedOf(t) = slots[s].descriptor THEN {}
    ELSE {slots[s].descriptor}

\* Mutant: a closed socket is left to the poller.
OnlyOpen(s) == {PollKey(s)}

\* What dropping a slot unregisters.
DropOf(s) ==
    IF PollKey(s) # 0 THEN {PollKey(s)} ELSE UnregisterDescriptor(s)

\* register() and modify() first, then unregister() for what nobody wants.
SweptPoller ==
    LET asked == {PollKey(s) : s \in Asked}
        dropped == UNION {DropOf(s) : s \in DOMAIN slots \ Wanted}
    IN  [k \in (DOMAIN watched \cup asked) \ dropped |->
            IF k \in asked THEN MaskOf(CHOOSE s \in Asked : PollKey(s) = k) ELSE watched[k]]

\* The poller is built at the first call that polls, from the swept slots.
ReplayedPoller ==
    [k \in {PollKey(s) : s \in Wanted} |-> MaskOf(CHOOSE s \in Wanted : PollKey(s) = k)]

\* A deadline has passed, or there is no socket to poll: no ipoll().
WaitWithoutPolling ==
    /\ spc = "loop"
    /\ slots' = SweptSlots
    /\ watched' = IF built THEN SweptPoller ELSE watched
    /\ UNCHANGED <<keyedBy, spc, fileno, holds, wants, built, reports>>

WaitPolls ==
    /\ spc = "loop" /\ Wanted # {}
    /\ slots' = SweptSlots
    /\ watched' = IF built THEN SweptPoller ELSE ReplayedPoller
    /\ built' = TRUE
    /\ spc' = "poll"
    /\ UNCHANGED <<keyedBy, fileno, holds, wants, reports>>

\* ipoll() ends with a timeout, an event or errors on some of what it watches.
PollReturns ==
    /\ spc = "poll"
    /\ \E failed \in SUBSET DOMAIN watched : reports' \in SetToSeqs(failed)
    /\ spc' = "dispatch"
    /\ UNCHANGED <<keyedBy, fileno, holds, wants, slots, built, watched>>

\* The error is on the socket the service holds.
Reported(v) == \E s \in holds[v] : PollKey(s) = Head(reports)

\* _dispatch_io_error: the first service that holds the socket is told, and
\* what it does about it are its own steps; an error nobody owns is dropped.
DispatchError ==
    /\ spc = "dispatch" /\ reports # <<>>
    /\ reports' = Tail(reports)
    /\ \/ UNCHANGED <<fileno, holds>>
       \/ \E v \in Services :
             /\ Reported(v) /\ \A w \in Services : w < v => ~Reported(w)
             /\ fileno' = [s \in Sockets |-> IF s \in holds[v] THEN 0 ELSE fileno[s]]
             /\ holds' = [w \in Services |-> holds[w] \ holds[v]]
    /\ UNCHANGED <<keyedBy, spc, wants, slots, built, watched>>

WaitOver ==
    /\ spc = "dispatch" /\ reports = <<>>
    /\ spc' = "loop"
    /\ UNCHANGED <<keyedBy, fileno, holds, wants, slots, built, watched, reports>>

PollSetNext ==
    \/ \E v \in Services :
          OpenSocket(v) \/ ShareSocket(v) \/ CloseSocket(v) \/ UpgradeSocket(v) \/ TurnInterest(v)
    \/ WaitWithoutPolling \/ WaitPolls \/ PollReturns \/ DispatchError \/ WaitOver

PollSetSpec == PollSetInit /\ [][PollSetNext]_pollVars

--------------------------------------------------------------------------------
\* When ipoll() is entered the poller watches every socket somebody wants, for
\* what all of them together want, and nothing else: a closed socket's
\* descriptor left behind would end every wait at once, and one taken from a
\* live socket, or asked for too little, would leave its owner asleep.
PolledExactly ==
    spc = "poll" =>
        /\ DOMAIN watched = {PollKey(s) : s \in Wanted}
        /\ \A s \in Wanted : watched[PollKey(s)] = MaskOf(s)
================================================================================
