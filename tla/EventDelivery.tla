---------------------------- MODULE EventDelivery ----------------------------
(***************************************************************************)
(* What the outbox of detections promises: the platform gets an event of   *)
(* each detection at least once, and the agent settles a detection, that   *)
(* is, forgets that it owes an event, only after that and once and for all.*)
(* What the platform refuses is owed for ever.                             *)
(***************************************************************************)
EXTENDS Naturals

CONSTANTS
  Rows,     \* detections
  Refused   \* those the platform does not accept

VARIABLES
  stage,    \* stage[r]: "none" before the detection, "owed", "settled"
  received  \* received[r]: its events at the platform

vars == <<stage, received>>

Init ==
  /\ stage = [r \in Rows |-> "none"]
  /\ received = [r \in Rows |-> 0]

Detect(r) ==
  /\ stage[r] = "none"
  /\ stage' = [stage EXCEPT ![r] = "owed"]
  /\ UNCHANGED received

\* Also a duplicate, and also after the agent has settled.
Receive(r) ==
  /\ r \notin Refused /\ stage[r] # "none"
  /\ received' = [received EXCEPT ![r] = @ + 1]
  /\ UNCHANGED stage

Settle(r) ==
  /\ stage[r] = "owed" /\ received[r] > 0
  /\ stage' = [stage EXCEPT ![r] = "settled"]
  /\ UNCHANGED received

Next == \E r \in Rows : Detect(r) \/ Receive(r) \/ Settle(r)

Spec == Init /\ [][Next]_vars
=============================================================================
