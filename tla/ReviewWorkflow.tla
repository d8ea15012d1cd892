---------------------------- MODULE ReviewWorkflow ----------------------------
(***************************************************************************)
(* What the review workflow promises: the diagram that opens governance.py,*)
(* with publication and decision in one step, and two different people.    *)
(* A proposal can leave it before its rejection, when two requests decide  *)
(* at once or an approval is cut short; then nothing is promised.          *)
(***************************************************************************)
CONSTANTS Analysts, Proposals, NoOne

VARIABLES
  stage,     \* stage[p]: "none" before the proposal exists
  author,    \* author[p]
  reviewer,  \* reviewer[p]: who decided, NoOne before
  released   \* the proposals whose indicator was put in the blocklist

vars == <<stage, author, reviewer, released>>

Init ==
  /\ stage = [p \in Proposals |-> "none"]
  /\ author = [p \in Proposals |-> NoOne]
  /\ reviewer = [p \in Proposals |-> NoOne]
  /\ released = {}

Move(p, from, to) ==
  /\ stage[p] = from
  /\ stage' = [stage EXCEPT ![p] = to]

Propose(a, p) ==
  /\ Move(p, "none", "DRAFT")
  /\ author' = [author EXCEPT ![p] = a]
  /\ UNCHANGED <<reviewer, released>>

Submit(p) ==
  /\ Move(p, "DRAFT", "REVIEW")
  /\ UNCHANGED <<author, reviewer, released>>

Approve(a, p) ==
  /\ Move(p, "REVIEW", "PUBLISHED")
  /\ a # author[p]
  /\ reviewer' = [reviewer EXCEPT ![p] = a]
  /\ released' = released \cup {p}
  /\ UNCHANGED author

Reject(a, p) ==
  /\ Move(p, "REVIEW", "REJECTED")
  /\ a # author[p]
  /\ reviewer' = [reviewer EXCEPT ![p] = a]
  /\ UNCHANGED <<author, released>>

Dispute(p) ==
  /\ stage[p] \in {"DRAFT", "REVIEW", "PUBLISHED"}
  /\ stage' = [stage EXCEPT ![p] = "DISPUTED"]
  /\ reviewer' = [reviewer EXCEPT ![p] = NoOne]
  /\ released' = released \ {p}
  /\ UNCHANGED author

Next ==
  \E p \in Proposals :
    \/ Submit(p) \/ Dispute(p)
    \/ \E a \in Analysts : Propose(a, p) \/ Approve(a, p) \/ Reject(a, p)

Spec == Init /\ [][Next]_vars
=============================================================================
