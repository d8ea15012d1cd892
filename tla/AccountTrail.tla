---------------------------- MODULE AccountTrail ----------------------------
(***************************************************************************)
(* Accounts composed with the audit trail of their changes.                *)
(*                                                                         *)
(* update_account keeps what it applied in a dictionary and writes one     *)
(* event when all fields are done; each field was committed on its own     *)
(* before that.  The account commands write no event.                      *)
(*                                                                         *)
(* Accounts lets a request end at any step.  Here the ends are told apart: *)
(* an answer, with or without an event, a refusal, a failure.  The only    *)
(* refusal after a commit is that of disabling oneself: the password       *)
(* policy is checked before the first commit, and no account is deleted.   *)
(*                                                                         *)
(* Logins, and what an event says beyond actor and target, are left out.   *)
(***************************************************************************)
EXTENDS Accounts

VARIABLES
  changes,  \* the dictionary of the request is not empty
  \* history
  owed      \* the request applied a field of its target

trailVars == <<changes, owed>>

TrailInit ==
  /\ Init
  /\ changes = [r \in Requests |-> FALSE]
  /\ owed = [r \in Requests |-> FALSE]

-----------------------------------------------------------------------------
(* Seeded bugs.                                                            *)

\* The dictionary is not told of a status.
Apply_NotesNoStatus(r) ==
  /\ CommitPassword(r) \/ SetRole(r) \/ CommitDisable(r) \/ Enable(r)
  /\ LET field == AtPassword(r) \/ AtRole(r)
     IN  changes' = [changes EXCEPT ![r] = @ \/ (actor[r] # Nobody /\ field)]
  /\ owed' = [owed EXCEPT ![r] = TRUE]

\* The dictionary outlives the request.
Close_Keeps(r) ==
  /\ EndRequest(r)
  /\ owed' = [owed EXCEPT ![r] = FALSE]
  /\ UNCHANGED changes

-----------------------------------------------------------------------------
\* A field is committed, and a request of the console notes it.
Apply(r) ==
  /\ CommitPassword(r) \/ SetRole(r) \/ CommitDisable(r) \/ Enable(r)
  /\ changes' = [changes EXCEPT ![r] = actor[r] # Nobody]
  /\ owed' = [owed EXCEPT ![r] = TRUE]

Applied(r) == pc[r] = "patch" /\ AtStatus(r, "keep")

Close(r) ==
  /\ EndRequest(r)
  /\ owed' = [owed EXCEPT ![r] = FALSE]
  /\ changes' = [changes EXCEPT ![r] = FALSE]

\* The event is written, and then the request is answered.
Record(r) == Applied(r) /\ changes[r] /\ Close(r)

\* A command is over, or a request had nothing to change.
Return(r) == (pc[r] = "admin" \/ (Applied(r) /\ ~changes[r])) /\ Close(r)

Refuse(r) == pc[r] = "patch" /\ Refused(r) /\ Close(r)

\* A kill or a database error: what was committed stays without an event.
Fail(r) == Close(r)

\* The steps that apply no field of an account.  The event of a creation
\* follows at once, unless a failure cuts it short.
Others ==
  /\ \/ \E r \in Requests :
          \/ ReadAccount(r) \/ Require(r) \/ Revoke(r)
          \/ \E t \in Tokens : OpenSession(r, t) \/ ReadSession(r, t)
          \/ \E u \in Users :
               \/ StartLogin(r, u)
               \/ \E x \in Roles : CreateAccount(r, u, x)
               \/ \E p \in Bodies : StartPatch(r, u, p) \/ CliPatch(r, u, p)
     \/ \E t \in Tokens : Logout(t)
     \/ \E u \in Users, x \in Roles : CliCreate(u, x)
  /\ UNCHANGED trailVars

TrailNext ==
  \/ Others
  \/ \E r \in Requests :
       Apply(r) \/ Record(r) \/ Return(r) \/ Refuse(r) \/ Fail(r)

TrailSpec == TrailInit /\ [][TrailNext]_<<vars, trailVars>>

-----------------------------------------------------------------------------
TrailTypeOK ==
  /\ TypeOK
  /\ changes \in [Requests -> BOOLEAN] /\ owed \in [Requests -> BOOLEAN]
  /\ \A r \in Requests : changes[r] => actor[r] # Nobody /\ owed[r]

(* db/models.py:9, "every analyst action is written to the audit trail":   *)
(* a request of the console that changed the account of another is not     *)
(* answered without an event.  Fields are committed one by one before it,  *)
(* and the one refusal that comes after a commit is met on one's own       *)
(* account only; there the sentence does not hold.                         *)
OthersRecorded ==
  [][\A r \in Requests :
       owed[r] /\ (Return(r) \/ Refuse(r)) => actor[r] \in {Nobody, target[r]}
    ]_<<vars, trailVars>>
=============================================================================
