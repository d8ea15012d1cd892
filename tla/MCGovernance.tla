---------------------------- MODULE MCGovernance ----------------------------
(* Instances of Governance for TLC.                                        *)
EXTENDS Governance, TLC

Symmetry ==
  Permutations(Analysts \ Admins) \cup Permutations(Handlers)
    \cup Permutations(Proposals)
=============================================================================
