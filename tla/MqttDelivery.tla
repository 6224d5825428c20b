---------------------------- MODULE MqttDelivery ----------------------------
(***************************************************************************)
(* What MQTTClient promises about a QoS 1 publish it accepted              *)
(* (mqtt/docs/guide.md): on_publish fires once, and only for a message the *)
(* broker has received; a message that is not confirmed is given up in a   *)
(* way the guide documents, never silently.                                *)
(***************************************************************************)
CONSTANT Messages
VARIABLE fate

Fates == {"none", "accepted", "delivered", "confirmed", "excused"}

Init == fate = [m \in Messages |-> "none"]

Becomes(m, from, to) == fate[m] \in from /\ fate'[m] = to

\* One step may move several messages: losing the connection or the session
\* excuses whatever was in flight.
Moves(m) ==
    \/ fate'[m] = fate[m]
    \/ Becomes(m, {"none"}, "accepted")
    \/ Becomes(m, {"accepted"}, "delivered")
    \/ Becomes(m, {"delivered"}, "confirmed")
    \/ Becomes(m, {"accepted", "delivered"}, "excused")

Next ==
    /\ fate' \in [Messages -> Fates]
    /\ \A m \in Messages : Moves(m)

Spec == Init /\ [][Next]_fate
=============================================================================
