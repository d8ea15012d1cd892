----------------------------- MODULE ListReplica -----------------------------
(***************************************************************************)
(* What delta synchronisation guarantees of an agent's copy of the         *)
(* blocklist, whatever it misses: both only grow, and the copy has nothing *)
(* that was not published.  Verdicts is built on these actions, and        *)
(* SignatureFeed, which has the versions and the races, implements them.   *)
(***************************************************************************)
CONSTANT Keys  \* of blocklist rows

VARIABLES
  listed,  \* keys of the platform's rows
  local    \* keys of the agent's copies

vars == <<listed, local>>

Init == listed = {} /\ local = {}

Publish(K) ==
  /\ listed' = listed \cup K
  /\ UNCHANGED local

\* A delta can be partial, and older than the list.
Copy(K) ==
  /\ K \subseteq listed
  /\ local' = local \cup K
  /\ UNCHANGED listed

Next == \E K \in SUBSET Keys : Publish(K) \/ Copy(K)

Spec == Init /\ [][Next]_vars
=============================================================================
