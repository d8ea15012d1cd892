----------------------------- MODULE MCAccounts -----------------------------
(* Instance of AccountTrail, and of Accounts within it, for TLC.           *)
EXTENDS AccountTrail, TLC

\* The two statuses, a reset under another spelling, and all three fields at
\* once.
SomeBodies ==
  {[Nothing EXCEPT !.status = "off"], [Nothing EXCEPT !.status = "on"],
   [Nothing EXCEPT !.password = "new", !.exact = FALSE],
   [Nothing EXCEPT !.password = "new", !.role = "staff", !.status = "off"]}

\* Tokens and requests are interchangeable; Root is not.
Symmetry == Permutations(Tokens) \cup Permutations(Requests)
=============================================================================
