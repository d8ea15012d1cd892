------------------------------ MODULE Governance ------------------------------
(***************************************************************************)
(* The signature review workflow, as requests that interleave.             *)
(*                                                                         *)
(* A proposal lives in the console's database, the blocklist in            *)
(* signatures.db, and the audit trail is committed after the change it     *)
(* reports.  A request reads the proposal, checks it, and then writes in   *)
(* separate transactions: approve writes the blocklist, the proposal, the  *)
(* trail.  Nothing rechecks the status when it writes: the UPDATE is by id.*)
(* FastAPI runs these handlers in a thread pool.  The CLI can import a     *)
(* feed into the blocklist at any time.                                    *)
(*                                                                         *)
(* A request whose checks fail changes nothing and is left out.            *)
(***************************************************************************)
EXTENDS Naturals

CONSTANTS
  Analysts,   \* usernames with the analyst role or more
  Admins,     \* those that are administrators
  Handlers,   \* threads that serve requests
  Proposals,  \* proposal ids; their number bounds the model
  Values,     \* digests
  NoOne,      \* no analyst
  Empty,      \* NULL: no row, no certificate
  Feed,       \* the writer of an imported row
  MaxFailures \* bound: requests that end in the middle

ASSUME GovernanceAssumption ==
  /\ Admins \subseteq Analysts
  /\ NoOne \notin Analysts
  /\ Empty \notin Values \cup Proposals /\ Feed \notin Proposals /\ Empty # Feed
  /\ MaxFailures \in Nat

VARIABLES
  \* signature_proposals
  status,    \* status[p]: "none" before the row exists
  author,    \* created_by
  kind,      \* indicator_type
  value,
  reviewer,  \* reviewed_by, NoOne when NULL
  \* the blocklist, by primary key
  writer,    \* writer[k]: the proposal or Feed that wrote row k, or Empty
  cert,      \* cert[k]: its cert_sha256 column
  audit,     \* audit_events, as a set of [action, actor, target]
  \* the requests
  pc,        \* what the request does next
  op,        \* the operation, named as in the trail
  actor,
  target,
  failures,  \* requests that ended in the middle so far
  \* only observed, no guard reads them: the proposals on which
  raced,     \* a request passed its checks before another one's commit
  cut,       \* an approval ended between its row and its commit
  unaudited  \* a publication ended before its audit event

proposalVars == <<status, author, kind, value, reviewer>>
listVars     == <<writer, cert>>
requestVars  == <<pc, op, actor, target, failures>>
observerVars == <<raced, cut, unaudited>>
vars == <<status, author, kind, value, reviewer, writer, cert, audit,
          pc, op, actor, target, failures, raced, cut, unaudited>>

Kinds == {"sha256", "cert_sha256"}
Ops == {"none", "propose", "submit", "publish", "reject"}

\* A seeded bug: a certificate is stored under its bare digest.
RowKey_Bare(k, v) == <<"sha256", v>>

\* The primary key of an indicator.  A certificate's is a hash of a string
\* that holds its digest: deterministic, and no digest of a file.
RowKey(k, v) == <<k, v>>
Keys == Kinds \X Values

Init ==
  /\ status = [p \in Proposals |-> "none"]
  /\ author = [p \in Proposals |-> NoOne]
  /\ kind = [p \in Proposals |-> "sha256"]
  /\ value = [p \in Proposals |-> Empty]
  /\ reviewer = [p \in Proposals |-> NoOne]
  /\ writer = [k \in Keys |-> Empty]
  /\ cert = [k \in Keys |-> Empty]
  /\ audit = {}
  /\ pc = [h \in Handlers |-> "idle"]
  /\ op = [h \in Handlers |-> "none"]
  /\ actor = [h \in Handlers |-> NoOne]
  /\ target = [h \in Handlers |-> Empty]
  /\ failures = 0
  /\ raced = {} /\ cut = {} /\ unaudited = {}

\* The state a committed operation leaves.
Outcome(o) ==
  IF o = "submit" THEN "REVIEW"
  ELSE IF o = "publish" THEN "PUBLISHED" ELSE "REJECTED"

\* Requests that have checked p and not committed yet.
Pending(p) == {h \in Handlers : pc[h] \in {"publish", "commit"} /\ target[h] = p}

Begin(h, o, a, p, next) ==
  /\ pc[h] = "idle"
  /\ pc' = [pc EXCEPT ![h] = next]
  /\ op' = [op EXCEPT ![h] = o]
  /\ actor' = [actor EXCEPT ![h] = a]
  /\ target' = [target EXCEPT ![h] = p]

\* A request whose checks passed, with what they read.
Enter(h, o, a, p, next) ==
  /\ Begin(h, o, a, p, next)
  /\ raced' = IF Pending(p) = {} THEN raced ELSE raced \cup {p}
  /\ UNCHANGED <<cut, unaudited, failures>>

Finish(h) ==
  /\ pc' = [pc EXCEPT ![h] = "idle"]
  /\ op' = [op EXCEPT ![h] = "none"]
  /\ actor' = [actor EXCEPT ![h] = NoOne]
  /\ target' = [target EXCEPT ![h] = Empty]

Event(h) == [action |-> op[h], actor |-> actor[h], target |-> target[h]]

-----------------------------------------------------------------------------
(* Seeded bugs, one mistake each; not part of the specification.           *)

\* The four-eyes check is missing from approve.
StartApprove_Alone(h, a, p) ==
  /\ status[p] = "REVIEW"
  /\ Enter(h, "publish", a, p, "publish")
  /\ UNCHANGED <<proposalVars, listVars, audit>>

\* reject takes back a publication.
StartReject_Published(h, a, p) ==
  /\ status[p] \in {"REVIEW", "PUBLISHED"}
  /\ author[p] # a
  /\ Enter(h, "reject", a, p, "commit")
  /\ UNCHANGED <<proposalVars, listVars, audit>>

\* The trail is written before the transition.
StartSubmit_AuditFirst(h, a, p) ==
  /\ status[p] = "DRAFT"
  /\ author[p] = a \/ a \in Admins
  /\ Enter(h, "submit", a, p, "commit")
  /\ audit' = audit \cup {[action |-> "submit", actor |-> a, target |-> p]}
  /\ UNCHANGED <<proposalVars, listVars>>

\* The row is attributed to the reviewer.
Publish_ByActor(h) ==
  /\ pc[h] = "publish"
  /\ LET p == target[h]
         k == RowKey(kind[p], value[p])
     IN /\ writer' = [writer EXCEPT ![k] = actor[h]]
        /\ cert' = [cert EXCEPT ![k] =
                      IF kind[p] = "cert_sha256" THEN value[p] ELSE Empty]
  /\ pc' = [pc EXCEPT ![h] = "commit"]
  /\ UNCHANGED <<proposalVars, audit, op, actor, target, failures,
                 observerVars>>

\* A publication returns without its audit event.
CommitStatus_NoAudit(h) ==
  /\ pc[h] = "commit"
  /\ status' = [status EXCEPT ![target[h]] = Outcome(op[h])]
  /\ reviewer' = IF op[h] = "submit" THEN reviewer
                 ELSE [reviewer EXCEPT ![target[h]] = actor[h]]
  /\ IF op[h] = "publish" THEN Finish(h)
     ELSE /\ pc' = [pc EXCEPT ![h] = "audit"]
          /\ UNCHANGED <<op, actor, target>>
  /\ UNCHANGED <<author, kind, value, listVars, audit, failures, observerVars>>

\* A submission fills in reviewed_by too.
CommitStatus_Signs(h) ==
  /\ pc[h] = "commit"
  /\ status' = [status EXCEPT ![target[h]] = Outcome(op[h])]
  /\ reviewer' = [reviewer EXCEPT ![target[h]] = actor[h]]
  /\ pc' = [pc EXCEPT ![h] = "audit"]
  /\ UNCHANGED <<author, kind, value, listVars, audit, op, actor, target,
                 failures, observerVars>>

-----------------------------------------------------------------------------
\* create_proposal, with an indicator that passed its checks.
Propose(h, a, p, k, v) ==
  /\ status[p] = "none"
  /\ Begin(h, "propose", a, p, "audit")
  /\ status' = [status EXCEPT ![p] = "DRAFT"]
  /\ author' = [author EXCEPT ![p] = a]
  /\ kind' = [kind EXCEPT ![p] = k]
  /\ value' = [value EXCEPT ![p] = v]
  /\ UNCHANGED <<reviewer, listVars, audit, failures, observerVars>>

\* submit_for_review up to its checks: status and author are read once.
StartSubmit(h, a, p) ==
  /\ status[p] = "DRAFT"
  /\ author[p] = a \/ a \in Admins
  /\ Enter(h, "submit", a, p, "commit")
  /\ UNCHANGED <<proposalVars, listVars, audit>>

StartApprove(h, a, p) ==
  /\ status[p] = "REVIEW"
  /\ author[p] # a
  /\ Enter(h, "publish", a, p, "publish")
  /\ UNCHANGED <<proposalVars, listVars, audit>>

\* reject, with a note that says something.
StartReject(h, a, p) ==
  /\ status[p] = "REVIEW"
  /\ author[p] # a
  /\ Enter(h, "reject", a, p, "commit")
  /\ UNCHANGED <<proposalVars, listVars, audit>>

\* _publish: INSERT OR REPLACE of the whole row.
Publish(h) ==
  /\ pc[h] = "publish"
  /\ LET p == target[h]
         k == RowKey(kind[p], value[p])
     IN /\ writer' = [writer EXCEPT ![k] = p]
        /\ cert' = [cert EXCEPT ![k] =
                      IF kind[p] = "cert_sha256" THEN value[p] ELSE Empty]
  /\ pc' = [pc EXCEPT ![h] = "commit"]
  /\ UNCHANGED <<proposalVars, audit, op, actor, target, failures,
                 observerVars>>

\* UPDATE signature_proposals ... WHERE id = ?, whatever the status is now.
CommitStatus(h) ==
  /\ pc[h] = "commit"
  /\ status' = [status EXCEPT ![target[h]] = Outcome(op[h])]
  /\ reviewer' = IF op[h] = "submit" THEN reviewer
                 ELSE [reviewer EXCEPT ![target[h]] = actor[h]]
  /\ pc' = [pc EXCEPT ![h] = "audit"]
  /\ UNCHANGED <<author, kind, value, listVars, audit, op, actor, target,
                 failures, observerVars>>

\* record_audit, a transaction of its own.
RecordAudit(h) ==
  /\ pc[h] = "audit"
  /\ audit' = audit \cup {Event(h)}
  /\ Finish(h)
  /\ UNCHANGED <<proposalVars, listVars, failures, observerVars>>

\* The process is killed, or a database refuses a write.
Fail(h) ==
  /\ pc[h] # "idle" /\ failures < MaxFailures
  /\ failures' = failures + 1
  /\ LET lost == IF op[h] = "publish" THEN {target[h]} ELSE {}
     IN /\ cut' = IF pc[h] = "commit" THEN cut \cup lost ELSE cut
        /\ unaudited' = IF pc[h] = "audit" THEN unaudited \cup lost ELSE unaudited
  /\ Finish(h)
  /\ UNCHANGED <<proposalVars, listVars, audit, raced>>

\* `fasoshield db import`, one row of a feed with or without a certificate.
Import(v, c) ==
  /\ writer' = [writer EXCEPT ![RowKey("sha256", v)] = Feed]
  /\ cert' = [cert EXCEPT ![RowKey("sha256", v)] = c]
  /\ UNCHANGED <<proposalVars, audit, requestVars, observerVars>>

-----------------------------------------------------------------------------
Proceed(h) == Publish(h) \/ CommitStatus(h) \/ RecordAudit(h)

Next ==
  \/ \E h \in Handlers :
       \/ Proceed(h) \/ Fail(h)
       \/ \E a \in Analysts, p \in Proposals :
            \/ StartSubmit(h, a, p) \/ StartApprove(h, a, p) \/ StartReject(h, a, p)
            \/ \E k \in Kinds, v \in Values : Propose(h, a, p, k, v)
  \/ \E v \in Values, c \in Values \cup {Empty} : Import(v, c)

Spec == Init /\ [][Next]_vars

-----------------------------------------------------------------------------
TypeOK ==
  /\ status \in [Proposals -> {"none", "DRAFT", "REVIEW", "PUBLISHED", "REJECTED"}]
  /\ author \in [Proposals -> Analysts \cup {NoOne}]
  /\ kind \in [Proposals -> Kinds]
  /\ value \in [Proposals -> Values \cup {Empty}]
  /\ reviewer \in [Proposals -> Analysts \cup {NoOne}]
  /\ writer \in [Keys -> Proposals \cup {Feed, Empty}]
  /\ cert \in [Keys -> Values \cup {Empty}]
  /\ audit \subseteq [action : Ops, actor : Analysts, target : Proposals]
  /\ pc \in [Handlers -> {"idle", "publish", "commit", "audit"}]
  /\ op \in [Handlers -> Ops]
  /\ actor \in [Handlers -> Analysts \cup {NoOne}]
  /\ target \in [Handlers -> Proposals \cup {Empty}]
  /\ failures \in 0 .. MaxFailures
  /\ raced \subseteq Proposals /\ cut \subseteq Proposals
  /\ unaudited \subseteq Proposals

\* A scan or an agent finds the indicator: by file digest, or by certificate.
Listed(p) ==
  IF kind[p] = "sha256"
  THEN writer[RowKey("sha256", value[p])] # Empty
  ELSE \E k \in Keys : cert[k] = value[p]

Audited(o, p) == \E e \in audit : e.action = o /\ e.target = p

(* governance.py:10-12, the four-eyes rule, however requests interleave or *)
(* fail: who decided a proposal is not its author, in the table, in every  *)
(* event of the trail, and in a request that is still writing.             *)
FourEyes ==
  /\ \A p \in Proposals :
       status[p] \in {"PUBLISHED", "REJECTED"} =>
         reviewer[p] \notin {NoOne, author[p]}
  /\ \A e \in audit :
       e.action \in {"publish", "reject"} => e.actor # author[e.target]
  /\ \A h \in Handlers :
       pc[h] # "idle" /\ op[h] \in {"publish", "reject"} =>
         actor[h] # author[target[h]]

(* approve publishes before it commits the status, and nothing that writes *)
(* the blocklist later (another publication, an import) takes the          *)
(* indicator out of reach: what the console shows as PUBLISHED is detected.*)
PublishedIsListed ==
  \A p \in Proposals : status[p] = "PUBLISHED" => Listed(p)

(* A row that came from the workflow belongs to a proposal that was        *)
(* submitted, whatever became of it since.                                 *)
ListedWasSubmitted ==
  \A k \in Keys : writer[k] \in Proposals =>
    status[writer[k]] \in {"REVIEW", "PUBLISHED", "REJECTED"}

(* The trail never reports what did not happen: an event is of a           *)
(* transition that is committed, by someone entitled to it.                *)
TrailHonest ==
  \A e \in audit :
    /\ e.action = "propose" => e.actor = author[e.target]
    /\ e.action = "submit" =>
         /\ status[e.target] \notin {"none", "DRAFT"}
         /\ e.actor = author[e.target] \/ e.actor \in Admins
    /\ e.action = "publish" =>
         reviewer[e.target] # NoOne /\ Listed(e.target)
    /\ e.action = "reject" => reviewer[e.target] # NoOne

(* test_governance.py:144, test_rejected_proposal_never_reaches_the_       *)
(* blocklist: no row was written for a proposal that is REJECTED.          *)
RejectedNeverListed ==
  \A k \in Keys : writer[k] \in Proposals => status[writer[k]] # "REJECTED"

\* Nothing more is promised of a proposal whose requests raced, or whose
\* approval was cut in two.
Disturbed == raced \cup cut

(* The same of every other proposal, whatever races and fails beside it.   *)
RejectedInOrder ==
  \A k \in Keys :
    writer[k] \in Proposals \ Disturbed => status[writer[k]] # "REJECTED"

(* What a row that the workflow wrote tells of its proposal, whatever the  *)
(* requests did since: it was submitted, and it is not rejected unless its *)
(* requests raced or its approval was cut.                                 *)
RowsFromReview == ListedWasSubmitted /\ RejectedInOrder

(* db/models.py:97 "every publication must be attributable" and            *)
(* governance.py:12 "Every transition is written to the audit trail": a    *)
(* publication has its event, or the request that writes it is at it, also *)
(* when requests raced, unless that request was killed just then.          *)
Attributed ==
  \A p \in Proposals \ unaudited : status[p] = "PUBLISHED" =>
    \/ Audited("publish", p)
    \/ \E h \in Handlers :
         pc[h] = "audit" /\ op[h] = "publish" /\ target[h] = p

-----------------------------------------------------------------------------
(* The workflow as documented.  An approval takes effect when it writes    *)
(* the blocklist, before its status is committed.                          *)
Approvers(p) ==
  {actor[h] : h \in
     {g \in Handlers : pc[g] = "commit" /\ op[g] = "publish" /\ target[g] = p}}

TheOne(S) == CHOOSE x \in S : TRUE

StageOf(p) ==
  IF p \in Disturbed THEN "DISPUTED"
  ELSE IF Approvers(p) = {} THEN status[p] ELSE "PUBLISHED"

ReviewerOf(p) ==
  IF p \in Disturbed THEN NoOne
  ELSE IF Approvers(p) = {} THEN reviewer[p] ELSE TheOne(Approvers(p))

IsReleased(p) == StageOf(p) = "PUBLISHED"

Workflow == INSTANCE ReviewWorkflow WITH
  stage <- [p \in Proposals |-> StageOf(p)],
  reviewer <- [p \in Proposals |-> ReviewerOf(p)],
  released <- {p \in Proposals : IsReleased(p)}

(* Every proposal goes through the documented workflow (the diagram of     *)
(* governance.py and db/models.py:116), until its requests race or its     *)
(* approval is cut.                                                        *)
ImplementsWorkflow == Workflow!Spec
=============================================================================
