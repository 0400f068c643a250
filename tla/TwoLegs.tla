------------------------------ MODULE TwoLegs -------------------------------
(***************************************************************************)
(* What a back-to-back user agent promises about its two legs, with no     *)
(* messages, handlers or registries: the caller's leg and the callee's     *)
(* leg go through their phases in lock step.  The callee's leg may be      *)
(* released before the caller's, never the other way round.                *)
(***************************************************************************)

VARIABLES inbound, outbound   \* the phases of the caller's and the callee's leg

Phase == {"none", "offered", "alerting", "connected", "released"}
Unanswered == {"offered", "alerting"}

Init == inbound = "none" /\ outbound = "none"

\* The caller's offer reaches a callee, or waits with no callee behind it.
Offer ==
  /\ inbound = "none" /\ outbound = "none"
  /\ inbound' = "offered"
  /\ outbound' \in {"none", "offered"}

Refuse ==
  /\ inbound = "none" /\ outbound = "none"
  /\ inbound' = "released"
  /\ UNCHANGED outbound

Alert ==
  /\ inbound = "offered" /\ outbound = "offered"
  /\ inbound' = "alerting" /\ outbound' = "alerting"

Connect ==
  /\ inbound \in Unanswered /\ outbound = inbound
  /\ inbound' = "connected" /\ outbound' = "connected"

\* Both ends, or the caller's alone when there is no other one left.
Release ==
  /\ inbound \in Unanswered \cup {"connected"}
  /\ inbound' = "released"
  /\ outbound' = IF outbound = "none" THEN "none" ELSE "released"

\* Only a connected call may lose its callee first.
LoseCallee ==
  /\ inbound = "connected" /\ outbound = "connected"
  /\ outbound' = "released"
  /\ UNCHANGED inbound

Next == Offer \/ Refuse \/ Alert \/ Connect \/ Release \/ LoseCallee

Spec == Init /\ [][Next]_<<inbound, outbound>>

=============================================================================
