---------------------------- MODULE MessageStream ----------------------------
(***************************************************************************)
(* What a session promises about inbound messages (websockets/docs/        *)
(* guide.md): the application is given complete messages of the peer, each *)
(* at most once and in order; none is skipped unless there is an excuse,   *)
(* and an oversized one is never given.                                    *)
(***************************************************************************)
EXTENDS Naturals, Sequences

VARIABLES
    offered,   \* messages the peer completed that the application may see
    received,  \* messages the application was given
    excuse     \* a callback raised, or the application read too slowly

Init == offered = <<>> /\ received = <<>> /\ excuse = FALSE

Offer ==
    /\ Len(offered') = Len(offered) + 1
    /\ SubSeq(offered', 1, Len(offered)) = offered
    /\ UNCHANGED <<received, excuse>>

\* The place of the last message received among those offered.
Place == IF received = <<>> THEN 0
         ELSE CHOOSE k \in DOMAIN offered : offered[k] = received[Len(received)]

Take ==
    /\ \E k \in (Place + 1)..Len(offered) :
          /\ k = Place + 1 \/ excuse
          /\ received' = Append(received, offered[k])
    /\ UNCHANGED <<offered, excuse>>

Skip == excuse' = TRUE /\ UNCHANGED <<offered, received>>

Next == Offer \/ Take \/ Skip
Spec == Init /\ [][Next]_<<offered, received, excuse>>
=============================================================================
