----------------------------- MODULE DurableMap -----------------------------
(***************************************************************************)
(* What the key-value store promises: a dict whose saves are atomic.  A    *)
(* start finds the last save, or the one a power cut interrupted; where a  *)
(* save that fails may be stored all the same, it may find that one or any *)
(* it was to replace.  Where the medium can tear it may find nothing, and  *)
(* it says so if it finds a damaged dict, not if it finds a blank medium.  *)
(* A medium that cannot be read hides what is stored and never changes it. *)
(***************************************************************************)
CONSTANTS Dicts, Empty

VARIABLES
    tears,     \* the medium can tear a save: fixed
    halves,    \* a save that fails may be stored all the same: fixed
    hides,     \* the medium can fail to be read: fixed
    up,        \* the program runs
    memory,    \* the dict it sees
    saved,     \* what is stored
    unsure,    \* what a power cut may bring up in its place
    lost,      \* the stored dict is damaged
    flagged    \* the program is told of it

kind   == <<tears, halves, hides>>
medium == <<saved, unsure, lost>>
vars   == <<kind, up, memory, medium, flagged>>

Init ==
    /\ tears \in BOOLEAN
    /\ halves \in BOOLEAN
    /\ hides \in BOOLEAN
    /\ up = FALSE
    /\ memory = Empty
    /\ saved = Empty
    /\ unsure = {}
    /\ lost = FALSE
    /\ flagged = FALSE

Change ==
    /\ up
    /\ memory' \in Dicts
    /\ UNCHANGED <<up, medium, flagged>>

Stored ==
    /\ saved' = memory
    /\ lost' = FALSE

Save ==
    /\ up
    /\ Stored
    /\ unsure' = {}
    /\ flagged' = FALSE
    /\ UNCHANGED <<up, memory>>

\* The save has begun; it fails if nothing follows.
HalfSave ==
    /\ up
    /\ halves
    /\ saved' \in {saved, memory}
    /\ unsure' = unsure \cup {saved, memory}
    /\ UNCHANGED <<up, memory, lost, flagged>>

\* Torn, or erased and not written.
Torn ==
    /\ tears
    /\ saved' = Empty
    /\ lost' \in BOOLEAN

PowerCut ==
    /\ up
    /\ up' = FALSE
    /\ memory' = Empty
    /\ flagged' = FALSE
    /\ unsure' = {}
    /\ \/ saved' \in {saved} \cup unsure /\ UNCHANGED lost
       \/ Stored
       \/ Torn

Found ==
    /\ memory' = saved
    /\ flagged' = lost
    /\ UNCHANGED medium

\* The program sees nothing, and may or may not be told why.
Hidden ==
    /\ hides
    /\ memory' = Empty
    /\ flagged' \in BOOLEAN
    /\ UNCHANGED medium

Start ==
    /\ ~up
    /\ up' = TRUE
    /\ Found \/ Hidden

\* Asked again, a damaged medium is refused and changes nothing.
Reload ==
    /\ up
    /\ (~lost /\ Found) \/ Hidden
    /\ UNCHANGED up

Next ==
    /\ Change \/ Save \/ HalfSave \/ PowerCut \/ Start \/ Reload
    /\ UNCHANGED kind

Spec == Init /\ [][Next]_vars

=============================================================================
