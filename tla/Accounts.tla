------------------------------ MODULE Accounts ------------------------------
(***************************************************************************)
(* Console accounts and sessions, under requests that overlap.             *)
(*                                                                         *)
(* A request holds one database session.  It resolves its cookie in two    *)
(* reads, the session row and then the account, and every change of an     *)
(* account is a transaction of its own: a PATCH may carry a password, a    *)
(* role and a status, applied in that order.  Each of them selects the     *)
(* account anew (the session's identity map holds it weakly, and nothing   *)
(* else holds it between two fields), and the mapper writes an attribute   *)
(* only when it differs from what was selected.  A revocation deletes the  *)
(* rows that its DELETE sees; on PostgreSQL a row inserted before the      *)
(* COMMIT survives it.                                                     *)
(*                                                                         *)
(* An account is found by its username in lower case, but its sessions are *)
(* revoked by the username as the request spells it: "Ann" finds ann, and  *)
(* revokes nothing.                                                        *)
(*                                                                         *)
(* Passwords and the analyst and viewer roles are not told apart, the      *)
(* gateway's SSO header keeps no state here, and the audit trail is        *)
(* AccountTrail's.                                                         *)
(***************************************************************************)
EXTENDS Naturals

CONSTANTS
  Users,     \* usernames
  Root,      \* the administrator made from the command line
  Tokens,    \* session tokens; their number bounds the sessions at one time
  Requests,  \* threads and command lines that may be at work at once
  Nobody,    \* no account; as an actor, the operator of the command line
  Bodies,    \* bound: the bodies of a PATCH that are sent
  MaxRevocations  \* bound: revocations of one account

Roles == {"staff", "admin"}  \* staff: viewer or analyst

\* A PATCH; "keep" is a field that is absent, and exact says whether the path
\* spells the username as it is stored.
Patches == [password : {"keep", "new"}, role : Roles \cup {"keep"},
            status : {"keep", "on", "off"}, exact : BOOLEAN]
Nothing == [password |-> "keep", role |-> "keep", status |-> "keep",
            exact |-> TRUE]

ASSUME AccountsAssumption ==
  /\ Root \in Users /\ Nobody \notin Users
  /\ Bodies \subseteq Patches
  /\ MaxRevocations \in Nat

VARIABLES
  role,      \* analyst_accounts.role, "none" without a row
  active,    \* analyst_accounts.is_active
  owner,     \* analyst_sessions.username of the token, Nobody without a row
  \* the requests
  pc,        \* what the request does next
  actor,     \* who is logging in, or the username of the session
  target,    \* the account that it changes
  known,     \* the role and status that it selected of that account
  patch,     \* the fields of the payload that are left to apply
  doomed,    \* rows deleted by its open transaction
  \* history
  revs,      \* committed revocations of the account, by its stored name
  opened,    \* opened[t]: revs of the owner when the row of t was committed
  spared,    \* tokens whose row was committed while a revocation was open
  forfeited  \* an administrator was removed in a way that nothing checks

accountVars == <<role, active>>
requestVars == <<pc, actor, target, known, patch, doomed>>
historyVars == <<revs, opened, spared, forfeited>>
vars == <<role, active, owner, pc, actor, target, known,
          patch, doomed, revs, opened, spared, forfeited>>

Rows == [role : Roles \cup {"none"}, active : BOOLEAN]
NoRow == [role |-> "none", active |-> FALSE]
Row(u) == [role |-> role[u], active |-> active[u]]

IsAdmin(u) == role[u] = "admin" /\ active[u]

\* Requests past their checks, which act on behalf of u.
Acting(r, u) == pc[r] \in {"admin", "patch", "loaded", "commit"} /\ actor[r] = u

Init ==
  /\ role = [u \in Users |-> IF u = Root THEN "admin" ELSE "none"]
  /\ active = [u \in Users |-> u = Root]
  /\ owner = [t \in Tokens |-> Nobody]
  /\ pc = [r \in Requests |-> "idle"]
  /\ actor = [r \in Requests |-> Nobody]
  /\ target = [r \in Requests |-> Nobody]
  /\ known = [r \in Requests |-> NoRow]
  /\ patch = [r \in Requests |-> Nothing]
  /\ doomed = [r \in Requests |-> {}]
  /\ revs = [u \in Users |-> 0]
  /\ opened = [t \in Tokens |-> 0]
  /\ spared = {}
  /\ forfeited = FALSE

\* The response; the database session is closed, what is open is rolled back.
Finish(r) ==
  /\ pc' = [pc EXCEPT ![r] = "idle"]
  /\ actor' = [actor EXCEPT ![r] = Nobody]
  /\ target' = [target EXCEPT ![r] = Nobody]
  /\ known' = [known EXCEPT ![r] = NoRow]
  /\ patch' = [patch EXCEPT ![r] = Nothing]
  /\ doomed' = [doomed EXCEPT ![r] = {}]

Goto(r, to) == pc' = [pc EXCEPT ![r] = to]

-----------------------------------------------------------------------------
(* Seeded bugs, one mistake each; not part of the specification.           *)

\* set_active does not revoke.
Doomed_ByPassword(r) ==
  {t \in Tokens : patch[r].password = "new" /\ patch[r].exact
                   /\ owner[t] = target[r]}

\* resolve_session trusts that a disabled account has no session.
MaySignIn_ByRole(u) == role[u] = "admin"

-----------------------------------------------------------------------------
(* Sessions.                                                               *)

\* authenticate, with the right password: the row is read once.
StartLogin(r, u) ==
  /\ pc[r] = "idle"
  /\ role[u] # "none" /\ active[u]
  /\ Goto(r, "login")
  /\ actor' = [actor EXCEPT ![r] = u]
  /\ UNCHANGED <<accountVars, owner, historyVars, target, known, patch,
                 doomed>>

\* open_session: the row is committed, whatever became of the account.  The
\* token is drawn at random: no row has it, nor a row about to be deleted.
OpenSession(r, t) ==
  LET u == actor[r] IN
  /\ pc[r] = "login"
  /\ owner[t] = Nobody /\ \A q \in Requests : t \notin doomed[q]
  /\ owner' = [owner EXCEPT ![t] = u]
  /\ opened' = [opened EXCEPT ![t] = revs[u]]
  /\ spared' = IF \E q \in Requests : pc[q] = "commit" /\ target[q] = u /\ patch[q].exact
               THEN spared \cup {t} ELSE spared
  /\ Finish(r)
  /\ UNCHANGED <<accountVars, revs, forfeited>>

\* The row goes, and its history with it.  The token of a row that is gone
\* opens nothing, so the model may use it for a later login.
Delete(S) ==
  /\ owner' = [t \in Tokens |-> IF t \in S THEN Nobody ELSE owner[t]]
  /\ opened' = [t \in Tokens |-> IF t \in S THEN 0 ELSE opened[t]]
  /\ spared' = spared \ S

\* close_session; also resolve_session, of a token past its expires_at.  Only
\* a request that presents the token can tell that time is over.
Logout(t) ==
  /\ owner[t] # Nobody
  /\ Delete({t})
  /\ UNCHANGED <<accountVars, requestVars, revs, forfeited>>

\* resolve_session reads the row of the cookie's token ...
ReadSession(r, t) ==
  /\ pc[r] = "idle"
  /\ owner[t] # Nobody
  /\ Goto(r, "session")
  /\ actor' = [actor EXCEPT ![r] = owner[t]]
  /\ UNCHANGED <<accountVars, owner, historyVars, target, known, patch, doomed>>

\* What an administrative endpoint requires of the account.
MaySignIn(u) == IsAdmin(u)

\* ... and then the account; require_analyst compares its role.
ReadAccount(r) ==
  /\ pc[r] = "session"
  /\ IF MaySignIn(actor[r])
       THEN /\ Goto(r, "admin")
            /\ UNCHANGED <<actor, target, known, patch, doomed>>
       ELSE Finish(r)
  /\ UNCHANGED <<accountVars, owner, historyVars>>

-----------------------------------------------------------------------------
(* Administration.                                                         *)

\* create_account, from the console or the command line.  The primary key
\* refuses a second row.
Create(u, x) ==
  /\ role[u] = "none"
  /\ role' = [role EXCEPT ![u] = x]
  /\ active' = [active EXCEPT ![u] = TRUE]
  /\ UNCHANGED <<owner, historyVars>>

CreateAccount(r, u, x) ==
  /\ pc[r] = "admin"
  /\ Create(u, x)
  /\ Finish(r)

CliCreate(u, x) == Create(u, x) /\ UNCHANGED requestVars

\* A PATCH of an account that exists, as every account does once it is made.
StartPatch(r, u, p) ==
  /\ pc[r] = "admin"
  /\ role[u] # "none"
  /\ Goto(r, "patch")
  /\ target' = [target EXCEPT ![r] = u]
  /\ patch' = [patch EXCEPT ![r] = p]
  /\ UNCHANGED <<accountVars, owner, historyVars, actor, known, doomed>>

\* `fasoshield account passwd` and `account disable`.
CliPatch(r, u, p) ==
  /\ pc[r] = "idle"
  /\ role[u] # "none"
  /\ [p EXCEPT !.exact = TRUE] \in
       {[Nothing EXCEPT !.password = "new"], [Nothing EXCEPT !.status = "off"]}
  /\ Goto(r, "patch")
  /\ target' = [target EXCEPT ![r] = u]
  /\ patch' = [patch EXCEPT ![r] = p]
  /\ UNCHANGED <<accountVars, owner, historyVars, actor, known, doomed>>

\* A field is applied when those before it are done.
AtPassword(r) == patch[r].password = "new"
AtRole(r) == ~AtPassword(r) /\ patch[r].role # "keep"
AtStatus(r, s) == ~AtPassword(r) /\ ~AtRole(r) /\ patch[r].status = s

\* An administrator may not disable their own account: 409, before anything
\* is selected, and the trail says nothing.
Refused(r) == AtStatus(r, "off") /\ target[r] = actor[r]

\* _require of the next field: SELECT.
Require(r) ==
  /\ pc[r] = "patch" /\ ~AtStatus(r, "keep") /\ ~Refused(r)
  /\ Goto(r, "loaded")
  /\ known' = [known EXCEPT ![r] = Row(target[r])]
  /\ UNCHANGED <<accountVars, owner, historyVars, actor, target, patch, doomed>>

\* The field is committed and what was selected for it is let go.
Done(r, field) ==
  /\ Goto(r, "patch")
  /\ patch' = [patch EXCEPT ![r][field] = "keep"]
  /\ known' = [known EXCEPT ![r] = NoRow]

Doomed(r) == {t \in Tokens : patch[r].exact /\ owner[t] = target[r]}

\* revoke_sessions: the DELETE of an open transaction.
Revoke(r) ==
  /\ pc[r] = "loaded"
  /\ AtPassword(r) \/ AtStatus(r, "off")
  /\ revs[target[r]] < MaxRevocations
  /\ Goto(r, "commit")
  /\ doomed' = [doomed EXCEPT ![r] = Doomed(r)]
  /\ UNCHANGED <<accountVars, owner, historyVars, actor, target, known, patch>>

\* Its COMMIT.
DeleteDoomed(r) ==
  /\ Delete(doomed[r])
  /\ doomed' = [doomed EXCEPT ![r] = {}]
  /\ revs' = IF patch[r].exact THEN [revs EXCEPT ![target[r]] = @ + 1] ELSE revs

CommitPassword(r) ==
  /\ pc[r] = "commit" /\ AtPassword(r)
  /\ DeleteDoomed(r)
  /\ Done(r, "password")
  /\ UNCHANGED <<accountVars, actor, target, forfeited>>

\* Nothing stops the command line, or two administrators that disable one
\* another at the same time.
CommitDisable(r) ==
  LET u == target[r] IN
  /\ pc[r] = "commit" /\ ~AtPassword(r)
  /\ active' = IF known[r].active THEN [active EXCEPT ![u] = FALSE] ELSE active
  /\ forfeited' = (forfeited \/ actor[r] = Nobody \/ \E q \in Requests : Acting(q, u))
  /\ DeleteDoomed(r)
  /\ Done(r, "status")
  /\ UNCHANGED <<role, actor, target>>

\* set_role.  Nothing stops a demotion either, of oneself or of another.
SetRole(r) ==
  LET u == target[r]  x == patch[r].role IN
  /\ pc[r] = "loaded" /\ AtRole(r)
  /\ role' = IF x # known[r].role THEN [role EXCEPT ![u] = x] ELSE role
  /\ forfeited' = (forfeited \/ x # "admin")
  /\ Done(r, "role")
  /\ UNCHANGED <<active, owner, actor, target, doomed, revs, opened, spared>>

Enable(r) ==
  LET u == target[r] IN
  /\ pc[r] = "loaded" /\ AtStatus(r, "on")
  /\ active' = IF known[r].active THEN active ELSE [active EXCEPT ![u] = TRUE]
  /\ Done(r, "status")
  /\ UNCHANGED <<role, owner, historyVars, actor, target, doomed>>

\* A response, a refusal, an error or a kill, at any step.
EndRequest(r) ==
  /\ pc[r] # "idle"
  /\ Finish(r)
  /\ UNCHANGED <<accountVars, owner, historyVars>>

-----------------------------------------------------------------------------
Next ==
  \/ \E r \in Requests :
       \/ ReadAccount(r) \/ Require(r) \/ Revoke(r) \/ CommitPassword(r)
       \/ CommitDisable(r) \/ SetRole(r) \/ Enable(r) \/ EndRequest(r)
       \/ \E t \in Tokens : OpenSession(r, t) \/ ReadSession(r, t)
       \/ \E u \in Users :
            \/ StartLogin(r, u)
            \/ \E x \in Roles : CreateAccount(r, u, x)
            \/ \E p \in Bodies : StartPatch(r, u, p) \/ CliPatch(r, u, p)
  \/ \E t \in Tokens : Logout(t)
  \/ \E u \in Users, x \in Roles : CliCreate(u, x)

Spec == Init /\ [][Next]_vars

-----------------------------------------------------------------------------
TypeOK ==
  /\ role \in [Users -> Roles \cup {"none"}]
  /\ active \in [Users -> BOOLEAN]
  /\ owner \in [Tokens -> Users \cup {Nobody}]
  /\ pc \in [Requests -> {"idle", "login", "session", "admin", "patch",
                        "loaded", "commit"}]
  /\ actor \in [Requests -> Users \cup {Nobody}]
  /\ target \in [Requests -> Users \cup {Nobody}]
  /\ known \in [Requests -> Rows]
  /\ patch \in [Requests -> Patches]
  /\ doomed \in [Requests -> SUBSET Tokens]
  /\ revs \in [Users -> Nat] /\ opened \in [Tokens -> Nat]
  /\ spared \subseteq Tokens /\ forfeited \in BOOLEAN
  /\ \A r \in Requests :
       /\ pc[r] = "idle" => actor[r] = Nobody
       /\ pc[r] \in {"login", "session", "admin"} => actor[r] # Nobody
       /\ pc[r] \in {"patch", "loaded", "commit"} <=> target[r] # Nobody

(* accounts.py:61, "A password change invalidates every live session", and *)
(* set_active alike: once a revocation that spells the name as it is       *)
(* stored is committed, the sessions that were open when it began are gone *)
(* for good, also when the account is enabled again.                       *)
RevokedForGood ==
  \A t \in Tokens :
    owner[t] # Nobody /\ t \notin spared => opened[t] = revs[owner[t]]

(* routes/auth.py:171, "Losing the last admin would lock the console       *)
(* permanently": the refusal to disable oneself is enough as long as       *)
(* administrators are only disabled from the console, one request at a     *)
(* time, and never demoted.                                                *)
SomeAdminLeft == forfeited \/ \E u \in Users : IsAdmin(u)
=============================================================================
