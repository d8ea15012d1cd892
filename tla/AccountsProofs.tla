--------------------------- MODULE AccountsProofs ---------------------------
(* Theorems about Accounts and AccountTrail, for any number of accounts,   *)
(* sessions and requests, and any bodies.                                  *)
EXTENDS AccountTrail, TLAPS

(* A row that is read, a field that is applied and the end of a request    *)
(* are of their types.                                                     *)
LEMMA RowType ==
  ASSUME TypeOK, NEW u \in Users PROVE Row(u) \in Rows
  BY DEF TypeOK, Row, Rows

LEMMA NothingType ==
  Nothing \in Patches /\ NoRow \in Rows
  BY DEF Nothing, NoRow, Patches, Rows, Roles

(* A database without accounts but Root's has its types.                   *)
LEMMA TypeInit == Init => TypeOK
<1> SUFFICES ASSUME Init PROVE TypeOK
  OBVIOUS
<1> USE AccountsAssumption DEF Init
<1>1. known \in [Requests -> Rows] /\ patch \in [Requests -> Patches]
  BY NothingType
<1>2. /\ role \in [Users -> Roles \cup {"none"}] /\ active \in [Users -> BOOLEAN]
      /\ owner \in [Tokens -> Users \cup {Nobody}] /\ opened \in [Tokens -> Nat]
      /\ revs \in [Users -> Nat] /\ doomed \in [Requests -> SUBSET Tokens]
      /\ spared \subseteq Tokens /\ forfeited \in BOOLEAN
  BY DEF Roles
<1>3. QED
  BY <1>1, <1>2 DEF TypeOK

LEMMA PatchType ==
  ASSUME NEW p \in Patches
  PROVE  /\ [p EXCEPT !["password"] = "keep"] \in Patches
         /\ [p EXCEPT !["role"] = "keep"] \in Patches
         /\ [p EXCEPT !["status"] = "keep"] \in Patches
  BY DEF Patches

(* Every step keeps the types.                                             *)
LEMMA TypeNext == TypeOK /\ [Next]_vars => TypeOK'
<1> SUFFICES ASSUME TypeOK, [Next]_vars PROVE TypeOK'
  OBVIOUS
<1> USE AccountsAssumption, NothingType DEF TypeOK, Goto, accountVars, requestVars,
      historyVars
<1>1. ASSUME NEW r \in Requests, ReadAccount(r) PROVE TypeOK'
  <2>1. CASE MaySignIn(actor[r])
    BY <1>1, <2>1, RowType DEF ReadAccount
  <2>2. CASE ~MaySignIn(actor[r])
    <3>1. Finish(r) /\ UNCHANGED <<role, active, owner, revs, opened, spared, forfeited>>
      BY <1>1, <2>2 DEF ReadAccount
    <3>2. QED
      BY <3>1 DEF Finish
  <2>3. QED
    BY <2>1, <2>2
<1>2. ASSUME NEW r \in Requests, Revoke(r) PROVE TypeOK'
  BY <1>2 DEF Revoke, Doomed
<1>3. ASSUME NEW r \in Requests, CommitPassword(r) PROVE TypeOK'
  <2>1. patch' \in [Requests -> Patches] /\ known' \in [Requests -> Rows]
    BY <1>3, PatchType DEF CommitPassword, Done
  <2>2. owner' \in [Tokens -> Users \cup {Nobody}] /\ opened' \in [Tokens -> Nat]
    BY <1>3 DEF CommitPassword, DeleteDoomed, Delete
  <2>3. /\ pc' = [pc EXCEPT ![r] = "patch"] /\ doomed' = [doomed EXCEPT ![r] = {}]
        /\ revs' \in [Users -> Nat] /\ spared' \subseteq Tokens
    BY <1>3 DEF CommitPassword, DeleteDoomed, Delete, Done
  <2>4. pc[r] = "commit" /\ UNCHANGED <<role, active, actor, target, forfeited>>
    BY <1>3 DEF CommitPassword
  <2>5. QED
    BY <2>1, <2>2, <2>3, <2>4
<1>4. ASSUME NEW r \in Requests, CommitDisable(r) PROVE TypeOK'
  <2>1. /\ patch' \in [Requests -> Patches] /\ known' \in [Requests -> Rows]
        /\ pc' = [pc EXCEPT ![r] = "patch"]
    BY <1>4, PatchType DEF CommitDisable, Done
  <2>2. active' \in [Users -> BOOLEAN] /\ forfeited' \in BOOLEAN
    BY <1>4 DEF CommitDisable
  <2>3. QED
    BY <1>4, <2>1, <2>2 DEF CommitDisable, DeleteDoomed, Delete
<1>5. ASSUME NEW r \in Requests, SetRole(r) PROVE TypeOK'
  <2>1. /\ patch' \in [Requests -> Patches] /\ known' \in [Requests -> Rows]
        /\ pc' = [pc EXCEPT ![r] = "patch"]
    BY <1>5, PatchType DEF SetRole, Done
  <2>2. patch[r].role \in Roles
    BY <1>5 DEF SetRole, AtRole, Patches
  <2>3. role' \in [Users -> Roles \cup {"none"}] /\ forfeited' \in BOOLEAN
    BY <1>5, <2>2 DEF SetRole
  <2>4. QED
    BY <1>5, <2>1, <2>3 DEF SetRole
<1>6. ASSUME NEW r \in Requests, Enable(r) PROVE TypeOK'
  <2>1. /\ patch' \in [Requests -> Patches] /\ known' \in [Requests -> Rows]
        /\ pc' = [pc EXCEPT ![r] = "patch"]
    BY <1>6, PatchType DEF Enable, Done
  <2>2. QED
    BY <1>6, <2>1 DEF Enable
<1>7. ASSUME NEW r \in Requests, EndRequest(r) PROVE TypeOK'
  BY <1>7 DEF EndRequest, Finish
<1>8. ASSUME NEW r \in Requests, NEW t \in Tokens, OpenSession(r, t) PROVE TypeOK'
  BY <1>8 DEF OpenSession, Finish
<1>9. ASSUME NEW r \in Requests, NEW t \in Tokens, ReadSession(r, t) PROVE TypeOK'
  BY <1>9 DEF ReadSession
<1>10. ASSUME NEW r \in Requests, NEW u \in Users, StartLogin(r, u) PROVE TypeOK'
  BY <1>10 DEF StartLogin
<1>11. ASSUME NEW r \in Requests, NEW u \in Users, NEW x \in Roles, CreateAccount(r, u, x)
       PROVE TypeOK'
  BY <1>11 DEF CreateAccount, Create, Finish
<1>12. ASSUME NEW r \in Requests, NEW u \in Users, NEW p \in Bodies, StartPatch(r, u, p)
       PROVE TypeOK'
  BY <1>12, RowType DEF StartPatch
<1>13. ASSUME NEW r \in Requests, NEW u \in Users, NEW p \in Bodies, CliPatch(r, u, p)
       PROVE TypeOK'
  BY <1>13, RowType DEF CliPatch
<1>14. ASSUME NEW t \in Tokens, Logout(t) PROVE TypeOK'
  BY <1>14 DEF Logout, Delete
<1>15. ASSUME NEW u \in Users, NEW x \in Roles, CliCreate(u, x) PROVE TypeOK'
  BY <1>15 DEF CliCreate, Create
<1>16. CASE UNCHANGED vars
  BY <1>16 DEF vars
<1>17. ASSUME NEW r \in Requests, Require(r) PROVE TypeOK'
  BY <1>17, RowType DEF Require
<1>18. QED
  BY <1>1, <1>2, <1>3, <1>4, <1>5, <1>6, <1>7, <1>8, <1>9, <1>10, <1>11, <1>12,
     <1>13, <1>14, <1>15, <1>16, <1>17 DEF Next

(* Every variable keeps its type; a request has an actor while it is at    *)
(* work for one, and a target exactly while it changes an account.         *)
THEOREM AccountsTyped == Spec => []TypeOK
  BY TypeInit, TypeNext, PTL DEF Spec

-----------------------------------------------------------------------------
(* RevokedForGood is not inductive: a COMMIT counts a revocation whose     *)
(* DELETE ran earlier.  Until then, each session of the account is about   *)
(* to go or was opened since.                                              *)
InDoubt ==
  \A r \in Requests, t \in Tokens :
    pc[r] = "commit" /\ patch[r].exact /\ owner[t] = target[r]
      => t \in doomed[r] \cup spared

RevokedInv == RevokedForGood /\ InDoubt

(* Whatever rows are deleted, and whoever else is at work, the rows that   *)
(* stay keep what the invariant says of them.                              *)
LEMMA RevokedNext == TypeOK /\ RevokedInv /\ [Next]_vars => RevokedInv'
<1> SUFFICES ASSUME TypeOK, RevokedInv, [Next]_vars PROVE RevokedInv'
  OBVIOUS
<1> USE AccountsAssumption DEF TypeOK, RevokedInv, RevokedForGood, InDoubt, Goto,
      accountVars, requestVars, historyVars
<1>1. ASSUME NEW r \in Requests, ReadAccount(r) PROVE RevokedInv'
  BY <1>1 DEF ReadAccount, Finish
<1>2. ASSUME NEW r \in Requests, Revoke(r) PROVE RevokedInv'
  BY <1>2 DEF Revoke, Doomed
<1>3. ASSUME NEW r \in Requests, DeleteDoomed(r), pc[r] = "commit",
             pc' = [pc EXCEPT ![r] = "patch"],
             \A q \in Requests \ {r} : patch'[q] = patch[q],
             target' = target
      PROVE  RevokedInv'
  BY <1>3 DEF DeleteDoomed, Delete
<1>4. ASSUME NEW r \in Requests, CommitPassword(r) PROVE RevokedInv'
  BY <1>3, <1>4 DEF CommitPassword, Done
<1>5. ASSUME NEW r \in Requests, CommitDisable(r) PROVE RevokedInv'
  BY <1>3, <1>5 DEF CommitDisable, Done
<1>6. ASSUME NEW r \in Requests, SetRole(r) PROVE RevokedInv'
  BY <1>6 DEF SetRole, Done
<1>7. ASSUME NEW r \in Requests, Enable(r) PROVE RevokedInv'
  BY <1>7 DEF Enable, Done
<1>8. ASSUME NEW r \in Requests, EndRequest(r) PROVE RevokedInv'
  BY <1>8 DEF EndRequest, Finish
<1>9. ASSUME NEW r \in Requests, NEW t \in Tokens, OpenSession(r, t) PROVE RevokedInv'
  BY <1>9 DEF OpenSession, Finish
<1>10. ASSUME NEW r \in Requests, NEW t \in Tokens, ReadSession(r, t) PROVE RevokedInv'
  BY <1>10 DEF ReadSession
<1>11. ASSUME NEW r \in Requests, NEW u \in Users, StartLogin(r, u) PROVE RevokedInv'
  BY <1>11 DEF StartLogin
<1>12. ASSUME NEW r \in Requests, NEW u \in Users, NEW x \in Roles, CreateAccount(r, u, x)
       PROVE RevokedInv'
  BY <1>12 DEF CreateAccount, Create, Finish
<1>13. ASSUME NEW r \in Requests, NEW u \in Users, NEW p \in Bodies, StartPatch(r, u, p)
       PROVE RevokedInv'
  BY <1>13 DEF StartPatch
<1>14. ASSUME NEW r \in Requests, NEW u \in Users, NEW p \in Bodies, CliPatch(r, u, p)
       PROVE RevokedInv'
  BY <1>14 DEF CliPatch
<1>15. ASSUME NEW t \in Tokens, Logout(t) PROVE RevokedInv'
  BY <1>15 DEF Logout, Delete
<1>16. ASSUME NEW u \in Users, NEW x \in Roles, CliCreate(u, x) PROVE RevokedInv'
  BY <1>16 DEF CliCreate, Create
<1>17. CASE UNCHANGED vars
  BY <1>17 DEF vars
<1>18. ASSUME NEW r \in Requests, Require(r) PROVE RevokedInv'
  BY <1>18 DEF Require
<1>19. QED
  BY <1>1, <1>2, <1>4, <1>5, <1>6, <1>7, <1>8, <1>9, <1>10, <1>11, <1>12, <1>13,
     <1>14, <1>15, <1>16, <1>17, <1>18 DEF Next

(* A session that was open when its account was revoked never comes back.  *)
THEOREM Revoked == Spec => []RevokedForGood
<1>1. Init => RevokedInv
  BY AccountsAssumption DEF Init, RevokedInv, RevokedForGood, InDoubt
<1>2. RevokedInv => RevokedForGood
  BY DEF RevokedInv
<1>3. QED
  BY TypeInit, TypeNext, RevokedNext, <1>1, <1>2, PTL DEF Spec

-----------------------------------------------------------------------------
(* SomeAdminLeft needs whoever is at work to be an administrator still:    *)
(* then the one who disables another is left.  A request that is about to  *)
(* disable an account is not at work for that account.                     *)
ActorsAreAdmins ==
  \A r \in Requests :
    pc[r] \in {"admin", "patch", "loaded", "commit"} /\ actor[r] # Nobody
      => IsAdmin(actor[r])

OthersOnly ==
  \A r \in Requests :
    /\ pc[r] = "loaded" => ~Refused(r)
    /\ pc[r] = "commit" => AtPassword(r) \/ target[r] # actor[r]

AdminInv ==
  /\ OthersOnly
  /\ forfeited \/ (ActorsAreAdmins /\ \E u \in Users : IsAdmin(u))

(* Until an administrator is demoted, disabled from the command line or    *)
(* disabled while at work, whoever acts is an administrator.               *)
LEMMA AdminNext == TypeOK /\ AdminInv /\ [Next]_vars => AdminInv'
<1> SUFFICES ASSUME TypeOK, AdminInv, [Next]_vars PROVE AdminInv'
  OBVIOUS
<1> USE AccountsAssumption DEF TypeOK, AdminInv, OthersOnly, ActorsAreAdmins, IsAdmin,
      Goto, AtPassword, AtRole, AtStatus, Refused, accountVars, requestVars,
      historyVars
<1>1. ASSUME NEW r \in Requests, ReadAccount(r) PROVE AdminInv'
  BY <1>1 DEF ReadAccount, Finish, MaySignIn
<1>2. ASSUME NEW r \in Requests, Revoke(r) PROVE AdminInv'
  BY <1>2 DEF Revoke
<1>3. ASSUME NEW r \in Requests, CommitPassword(r) PROVE AdminInv'
  BY <1>3 DEF CommitPassword, DeleteDoomed, Done
<1>4. ASSUME NEW r \in Requests, CommitDisable(r) PROVE AdminInv'
  BY <1>4 DEF CommitDisable, DeleteDoomed, Done, Acting
<1>5. ASSUME NEW r \in Requests, SetRole(r) PROVE AdminInv'
  BY <1>5 DEF SetRole, Done
<1>6. ASSUME NEW r \in Requests, Enable(r) PROVE AdminInv'
  BY <1>6 DEF Enable, Done
<1>7. ASSUME NEW r \in Requests, EndRequest(r) PROVE AdminInv'
  BY <1>7 DEF EndRequest, Finish
<1>8. ASSUME NEW r \in Requests, NEW t \in Tokens, OpenSession(r, t) PROVE AdminInv'
  BY <1>8 DEF OpenSession, Finish
<1>9. ASSUME NEW r \in Requests, NEW t \in Tokens, ReadSession(r, t) PROVE AdminInv'
  BY <1>9 DEF ReadSession
<1>10. ASSUME NEW r \in Requests, NEW u \in Users, StartLogin(r, u) PROVE AdminInv'
  BY <1>10 DEF StartLogin
<1>11. ASSUME NEW r \in Requests, NEW u \in Users, NEW x \in Roles, CreateAccount(r, u, x)
       PROVE AdminInv'
  BY <1>11 DEF CreateAccount, Create, Finish
<1>12. ASSUME NEW r \in Requests, NEW u \in Users, NEW p \in Bodies, StartPatch(r, u, p)
       PROVE AdminInv'
  BY <1>12 DEF StartPatch
<1>13. ASSUME NEW r \in Requests, NEW u \in Users, NEW p \in Bodies, CliPatch(r, u, p)
       PROVE AdminInv'
  BY <1>13 DEF CliPatch
<1>14. ASSUME NEW t \in Tokens, Logout(t) PROVE AdminInv'
  BY <1>14 DEF Logout
<1>15. ASSUME NEW u \in Users, NEW x \in Roles, CliCreate(u, x) PROVE AdminInv'
  BY <1>15 DEF CliCreate, Create
<1>16. CASE UNCHANGED vars
  BY <1>16 DEF vars
<1>17. ASSUME NEW r \in Requests, Require(r) PROVE AdminInv'
  BY <1>17 DEF Require
<1>18. QED
  BY <1>1, <1>2, <1>3, <1>4, <1>5, <1>6, <1>7, <1>8, <1>9, <1>10, <1>11, <1>12,
     <1>13, <1>14, <1>15, <1>16, <1>17 DEF Next

(* The console keeps an administrator, unless one was demoted, disabled    *)
(* from the command line, or disabled while they were at work.             *)
THEOREM AdminKept == Spec => []SomeAdminLeft
<1>1. Init => AdminInv
  BY AccountsAssumption DEF Init, AdminInv, OthersOnly, ActorsAreAdmins, IsAdmin
<1>2. AdminInv => SomeAdminLeft
  BY DEF AdminInv, SomeAdminLeft
<1>3. QED
  BY TypeInit, TypeNext, AdminNext, <1>1, <1>2, PTL DEF Spec
-----------------------------------------------------------------------------
(* A step of the composition is a step of Accounts: the trail only tells   *)
(* apart what Accounts does not.                                           *)
LEMMA TrailStep == [TrailNext]_<<vars, trailVars>> => [Next]_vars
<1> SUFFICES ASSUME TrailNext PROVE Next
  BY DEF trailVars
<1>1. CASE Others
  BY <1>1 DEF Others, Next
<1>2. ASSUME NEW r \in Requests, Apply(r) PROVE Next
  BY <1>2 DEF Apply, Next
<1>3. ASSUME NEW r \in Requests, EndRequest(r) PROVE Next
  BY <1>3 DEF Next
<1>4. QED
  BY <1>1, <1>2, <1>3 DEF TrailNext, Record, Return, Refuse, Fail, Close

(* Whatever Accounts promises, it promises with the trail too.             *)
THEOREM TrailImplementsAccounts == TrailSpec => Spec
<1>1. TrailInit => Init
  BY DEF TrailInit
<1>2. QED
  BY <1>1, TrailStep, PTL DEF TrailSpec, Spec

(* A request that applied a field is still changing that account, and has  *)
(* noted it if it is of the console: then it ends with an event, refused   *)
(* or by a failure.                                                        *)
Noted ==
  \A r \in Requests :
    owed[r] => pc[r] \in {"patch", "loaded", "commit"} /\ (actor[r] # Nobody => changes[r])

TrailInv == TrailTypeOK /\ Noted

LEMMA TrailInvInit == TrailInit => TrailInv
  BY TypeInit DEF TrailInit, TrailInv, TrailTypeOK, Noted

(* No step, but its own, makes a request that owes an event leave its      *)
(* account or change its actor.                                            *)
LEMMA OwingStays ==
  ASSUME TrailInv, Others, NEW q \in Requests, owed[q]
  PROVE  pc'[q] \in {"patch", "loaded", "commit"} /\ actor'[q] = actor[q]
<1> USE DEF TrailInv, TrailTypeOK, TypeOK, Noted, Goto
<1>1. ASSUME NEW r \in Requests, ReadAccount(r) \/ Require(r) \/ Revoke(r)
      PROVE  pc'[q] \in {"patch", "loaded", "commit"} /\ actor'[q] = actor[q]
  BY <1>1 DEF ReadAccount, Require, Revoke, Finish
<1>2. ASSUME NEW r \in Requests, NEW t \in Tokens, OpenSession(r, t) \/ ReadSession(r, t)
      PROVE  pc'[q] \in {"patch", "loaded", "commit"} /\ actor'[q] = actor[q]
  BY <1>2 DEF OpenSession, ReadSession, Finish
<1>3. ASSUME NEW r \in Requests, NEW u \in Users,
             StartLogin(r, u) \/ \E x \in Roles : CreateAccount(r, u, x)
      PROVE  pc'[q] \in {"patch", "loaded", "commit"} /\ actor'[q] = actor[q]
  BY <1>3 DEF StartLogin, CreateAccount, Finish
<1>4. ASSUME NEW r \in Requests, NEW u \in Users, NEW p \in Bodies,
             StartPatch(r, u, p) \/ CliPatch(r, u, p)
      PROVE  pc'[q] \in {"patch", "loaded", "commit"} /\ actor'[q] = actor[q]
  BY <1>4 DEF StartPatch, CliPatch
<1>5. ASSUME \/ \E t \in Tokens : Logout(t)
             \/ \E u \in Users, x \in Roles : CliCreate(u, x)
      PROVE  UNCHANGED <<pc, actor>>
  BY <1>5 DEF Logout, CliCreate, requestVars
<1>6. QED
  BY <1>1, <1>2, <1>3, <1>4, <1>5 DEF Others

(* Every step keeps what is noted.                                         *)
LEMMA TrailNextInv == TrailInv /\ [TrailNext]_<<vars, trailVars>> => TrailInv'
<1> SUFFICES ASSUME TrailInv, [TrailNext]_<<vars, trailVars>> PROVE TrailInv'
  OBVIOUS
<1> USE DEF TrailInv, TrailTypeOK, Noted
<1>1. TypeOK'
  BY TrailStep, TypeNext
<1>2. CASE Others
  BY <1>1, <1>2, OwingStays DEF Others, trailVars
<1>3. ASSUME NEW r \in Requests, Apply(r) PROVE TrailInv'
  <2>1. actor' = actor
    BY <1>3 DEF Apply, CommitPassword, SetRole, CommitDisable, Enable
  <2>2. pc' = [pc EXCEPT ![r] = "patch"]
    BY <1>3 DEF Apply, CommitPassword, SetRole, CommitDisable, Enable, Done, Goto
  <2>3. /\ changes' = [changes EXCEPT ![r] = actor[r] # Nobody]
        /\ owed' = [owed EXCEPT ![r] = TRUE]
    BY <1>3 DEF Apply
  <2>4. /\ changes'[r] <=> actor[r] # Nobody
        /\ owed'[r]
        /\ \A q \in Requests \ {r} : /\ changes'[q] = changes[q] /\ owed'[q] = owed[q]
                                   /\ pc'[q] = pc[q]
    BY <2>2, <2>3 DEF TypeOK
  <2>5. pc'[r] = "patch"
    BY <2>2 DEF TypeOK
  <2>6. changes' \in [Requests -> BOOLEAN] /\ owed' \in [Requests -> BOOLEAN]
    BY <2>3
  <2>7. TrailTypeOK'
    BY <1>1, <2>1, <2>4, <2>6
  <2>8. Noted'
    BY <2>1, <2>4, <2>5
  <2>9. QED
    BY <2>7, <2>8
<1>4. ASSUME NEW r \in Requests, Close(r) PROVE TrailInv'
  <2>1. \A q \in Requests \ {r} : /\ changes'[q] = changes[q] /\ owed'[q] = owed[q]
                                /\ pc'[q] = pc[q] /\ actor'[q] = actor[q]
    BY <1>4 DEF Close, EndRequest, Finish, TypeOK
  <2>2. ~changes'[r] /\ ~owed'[r]
    BY <1>4 DEF Close
  <2>3. changes' \in [Requests -> BOOLEAN] /\ owed' \in [Requests -> BOOLEAN]
    BY <1>4 DEF Close
  <2>4. QED
    BY <1>1, <2>1, <2>2, <2>3
<1>5. CASE UNCHANGED <<vars, trailVars>>
  BY <1>1, <1>5 DEF vars, trailVars
<1>6. QED
  BY <1>2, <1>3, <1>4, <1>5 DEF TrailNext, Record, Return, Refuse, Fail

(* Every variable keeps its type, and a dictionary that is not empty is of *)
(* the console and stands for a change that was committed.                 *)
THEOREM TrailTyped == TrailSpec => []TrailTypeOK
<1>1. TrailInv => TrailTypeOK
  BY DEF TrailInv
<1>2. QED
  BY <1>1, TrailInvInit, TrailNextInv, PTL DEF TrailSpec

(* A request that changed the account of another is not answered without   *)
(* an event.                                                               *)
THEOREM ForeignChangesRecorded == TrailSpec => OthersRecorded
<1>1. ASSUME TrailInv, NEW r \in Requests, Return(r) \/ Refuse(r), owed[r]
      PROVE  actor[r] \in {Nobody, target[r]}
  BY <1>1 DEF TrailInv, Noted, Return, Applied, Refuse, Refused
<1>2. TrailInv /\ [TrailNext]_<<vars, trailVars>> =>
        [\A r \in Requests :
           owed[r] /\ (Return(r) \/ Refuse(r)) => actor[r] \in {Nobody, target[r]}
        ]_<<vars, trailVars>>
  BY <1>1
<1>3. QED
  BY <1>2, TrailInvInit, TrailNextInv, PTL DEF TrailSpec, OthersRecorded
=============================================================================
