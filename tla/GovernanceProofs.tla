--------------------------- MODULE GovernanceProofs ---------------------------
(***************************************************************************)
(* What the review workflow keeps for any number of analysts, requests and *)
(* proposals, in whatever order the requests interleave, race and fail.    *)
(***************************************************************************)
EXTENDS Governance, TLAPS

\* The row that publishing p writes, and that no later write takes away.
HasRow(p) ==
  IF kind[p] = "sha256"
  THEN writer[RowKey("sha256", value[p])] # Empty
  ELSE cert[RowKey("cert_sha256", value[p])] = value[p]

Decided(p) == reviewer[p] # NoOne
Submitted(p) == status[p] \in {"REVIEW", "PUBLISHED", "REJECTED"}

ProposalInv ==
  \A p \in Proposals :
    /\ status[p] = "none" => reviewer[p] = NoOne
    /\ status[p] # "none" => author[p] \in Analysts /\ value[p] \in Values
    /\ Decided(p) => reviewer[p] # author[p]
    /\ status[p] \in {"PUBLISHED", "REJECTED"} => Decided(p)
    /\ status[p] = "PUBLISHED" => HasRow(p)

RowInv ==
  \A k \in Keys : writer[k] \in Proposals => Submitted(writer[k])

(* What a request knows at each of its steps.  Others may have moved the   *)
(* proposal on, but not back, and not its author.                          *)
RequestInv ==
  \A h \in Handlers : pc[h] # "idle" =>
    LET p == target[h] IN
    /\ op[h] # "none" /\ actor[h] \in Analysts /\ p \in Proposals
    /\ status[p] # "none"
    /\ op[h] = "propose" => pc[h] = "audit" /\ actor[h] = author[p]
    /\ op[h] = "submit" =>
         /\ actor[h] = author[p] \/ actor[h] \in Admins
         /\ pc[h] = "audit" => Submitted(p)
    /\ op[h] \in {"publish", "reject"} =>
         /\ Submitted(p)
         /\ actor[h] # author[p]
         /\ pc[h] = "audit" => Decided(p)
    /\ pc[h] = "publish" => op[h] = "publish"
    /\ op[h] = "publish" /\ pc[h] # "publish" => HasRow(p)

TrailInv ==
  \A e \in audit :
    LET p == e.target IN
    /\ status[p] # "none"
    /\ e.action = "propose" => e.actor = author[p]
    /\ e.action = "submit" =>
         Submitted(p) /\ (e.actor = author[p] \/ e.actor \in Admins)
    /\ e.action \in {"publish", "reject"} => Decided(p) /\ e.actor # author[p]
    /\ e.action = "publish" => HasRow(p)

GovInv == TypeOK /\ ProposalInv /\ RowInv /\ RequestInv /\ TrailInv

(* No proposal, no imported row and no request: nothing to go wrong yet. *)
LEMMA GovInit == Init => GovInv
  BY GovernanceAssumption
  DEF Init, GovInv, TypeOK, Kinds, Ops, Keys, ProposalInv, RowInv, RequestInv,
      TrailInv, Decided

\* A row is replaced, never taken out of reach.
LEMMA RowStays ==
  ASSUME TypeOK, NEW p \in Proposals, HasRow(p), UNCHANGED <<kind, value>>,
         value[p] \in Values,
         \/ UNCHANGED <<writer, cert>>
         \/ \E h \in Handlers : Publish(h) /\ target[h] \in Proposals
                                           /\ value[target[h]] \in Values
         \/ \E v \in Values, c \in Values \cup {Empty} : Import(v, c)
  PROVE  HasRow(p)'
<1>1. CASE UNCHANGED <<writer, cert>>
  BY <1>1 DEF HasRow, RowKey
<1>2. ASSUME NEW h \in Handlers, Publish(h), target[h] \in Proposals,
             value[target[h]] \in Values
      PROVE  HasRow(p)'
  BY <1>2, GovernanceAssumption DEF HasRow, Publish, RowKey, TypeOK, Keys, Kinds
<1>3. ASSUME NEW v \in Values, NEW c \in Values \cup {Empty}, Import(v, c)
      PROVE  HasRow(p)'
  BY <1>3, GovernanceAssumption DEF HasRow, Import, RowKey, TypeOK, Keys, Kinds
<1>4. QED
  BY <1>1, <1>2, <1>3

(* Every commit of a request, a failure and an import keep the invariant.*)
LEMMA GovNext == GovInv /\ [Next]_vars => GovInv'
<1> SUFFICES ASSUME GovInv, [Next]_vars PROVE GovInv'
  OBVIOUS
<1> USE GovernanceAssumption DEF proposalVars, listVars, requestVars, observerVars
<1>1. CASE UNCHANGED vars
  BY <1>1 DEF vars, GovInv, TypeOK, ProposalInv, RowInv, RequestInv, TrailInv,
              HasRow, Decided, Submitted
<1>2. ASSUME NEW h \in Handlers, NEW a \in Analysts, NEW p \in Proposals,
             NEW k \in Kinds, NEW v \in Values, Propose(h, a, p, k, v)
      PROVE  GovInv'
  <2>1. TypeOK'
    BY <1>2 DEF GovInv, TypeOK, Propose, Begin, Ops
  <2>2. \A q \in Proposals : status[q] # "none" =>
          /\ q # p
          /\ status'[q] = status[q] /\ author'[q] = author[q]
          /\ reviewer'[q] = reviewer[q] /\ HasRow(q)' = HasRow(q)
    BY <1>2 DEF GovInv, TypeOK, Propose, HasRow
  <2>3. ProposalInv'
    BY <1>2, <2>2 DEF GovInv, TypeOK, Propose, ProposalInv, Decided
  <2>4. RowInv'
    BY <1>2 DEF GovInv, TypeOK, Propose, RowInv, Submitted
  <2>5. RequestInv'
    BY <1>2, <2>2 DEF GovInv, TypeOK, Propose, Begin, RequestInv, Submitted, Decided
  <2>6. TrailInv'
    BY <1>2, <2>2 DEF GovInv, TypeOK, Propose, TrailInv, Submitted, Decided
  <2>7. QED
    BY <2>1, <2>3, <2>4, <2>5, <2>6 DEF GovInv
<1>3. ASSUME NEW h \in Handlers, NEW a \in Analysts, NEW p \in Proposals,
             StartSubmit(h, a, p) \/ StartApprove(h, a, p) \/ StartReject(h, a, p)
      PROVE  GovInv'
  BY <1>3 DEF GovInv, TypeOK, Ops, StartSubmit, StartApprove, StartReject, Enter, Begin,
              ProposalInv, RowInv, RequestInv, TrailInv, HasRow, Decided, Submitted
<1>4. ASSUME NEW h \in Handlers, Publish(h) PROVE GovInv'
  <2>1. target[h] \in Proposals /\ value[target[h]] \in Values /\ op[h] = "publish"
    BY <1>4 DEF GovInv, RequestInv, ProposalInv, Publish
  <2>2. RowKey(kind[target[h]], value[target[h]]) \in Keys
    BY <2>1 DEF GovInv, TypeOK, RowKey, Keys
  <2>3. TypeOK'
    BY <1>4, <2>1, <2>2 DEF GovInv, TypeOK, Publish
  <2>4. \A q \in Proposals : status[q] # "none" /\ HasRow(q) => HasRow(q)'
    BY <1>4, <2>1, RowStays DEF GovInv, ProposalInv, Publish
  <2>5. HasRow(target[h])'
    BY <1>4, <2>1, <2>2 DEF GovInv, TypeOK, Publish, HasRow, RowKey, Kinds
  <2>6. ProposalInv'
    BY <1>4, <2>4 DEF GovInv, ProposalInv, Publish, Decided
  <2>7. RowInv'
    BY <1>4, <2>1, <2>2 DEF GovInv, TypeOK, Publish, RowInv, RequestInv, Submitted
  <2>8. RequestInv'
    BY <1>4, <2>1, <2>4, <2>5
    DEF GovInv, TypeOK, Publish, RequestInv, Submitted, Decided
  <2>9. TrailInv'
    BY <1>4, <2>4 DEF GovInv, TypeOK, Publish, TrailInv, Submitted, Decided
  <2>10. QED
    BY <2>3, <2>6, <2>7, <2>8, <2>9 DEF GovInv
<1>5. ASSUME NEW h \in Handlers, CommitStatus(h) PROVE GovInv'
  BY <1>5 DEF GovInv, TypeOK, Ops, CommitStatus, Outcome, ProposalInv, RowInv,
              RequestInv, TrailInv, HasRow, Decided, Submitted
<1>6. ASSUME NEW h \in Handlers, RecordAudit(h) PROVE GovInv'
  BY <1>6 DEF GovInv, TypeOK, Ops, RecordAudit, Event, Finish, ProposalInv, RowInv,
              RequestInv, TrailInv, HasRow, Decided, Submitted
<1>7. ASSUME NEW h \in Handlers, Fail(h) PROVE GovInv'
  BY <1>7 DEF GovInv, TypeOK, Ops, Fail, Finish, ProposalInv, RowInv, RequestInv,
              TrailInv, HasRow, Decided, Submitted
<1>8. ASSUME NEW v \in Values, NEW c \in Values \cup {Empty}, Import(v, c)
      PROVE  GovInv'
  <2>1. \A q \in Proposals : status[q] # "none" /\ HasRow(q) => HasRow(q)'
    BY <1>8, RowStays DEF GovInv, ProposalInv, Import
  <2>2. TypeOK'
    BY <1>8 DEF GovInv, TypeOK, Import, RowKey, Keys, Kinds
  <2>3. ProposalInv'
    BY <1>8, <2>1 DEF GovInv, ProposalInv, Import, Decided
  <2>4. RowInv'
    BY <1>8 DEF GovInv, TypeOK, RowInv, Import, RowKey, Keys, Kinds, Submitted
  <2>5. RequestInv'
    BY <1>8, <2>1 DEF GovInv, RequestInv, Import, Decided, Submitted
  <2>6. TrailInv'
    BY <1>8, <2>1 DEF GovInv, TypeOK, TrailInv, Import, Decided, Submitted
  <2>7. QED
    BY <2>2, <2>3, <2>4, <2>5, <2>6 DEF GovInv
<1>9. QED
  BY <1>1, <1>2, <1>3, <1>4, <1>5, <1>6, <1>7, <1>8 DEF Next, Proceed

(* What requests, rows and the trail know of a proposal stays true while *)
(* handlers of governance.py interleave and fail.                        *)
THEOREM GovInvariant == Spec => []GovInv
  BY GovInit, GovNext, PTL DEF Spec

(* Every variable of the workflow keeps its type.                          *)
THEOREM GovernanceTyped == Spec => []TypeOK
<1>1. GovInv => TypeOK
  BY DEF GovInv
<1>2. QED
  BY GovInvariant, <1>1, PTL

(* No one decides on their own proposal.                                   *)
THEOREM NoSelfApproval == Spec => []FourEyes
<1>1. GovInv => FourEyes
  BY DEF GovInv, FourEyes, ProposalInv, RequestInv, TrailInv, Decided
<1>2. QED
  BY GovInvariant, <1>1, PTL

(* What the table shows as PUBLISHED is in the blocklist.                  *)
THEOREM PublishedIsDetected == Spec => []PublishedIsListed
<1>1. GovInv => PublishedIsListed
  BY DEF GovInv, TypeOK, PublishedIsListed, ProposalInv, HasRow, Listed, RowKey, Keys, Kinds
<1>2. QED
  BY GovInvariant, <1>1, PTL

(* A row of the workflow went through a submission.                        *)
THEOREM NoRowOfADraft == Spec => []ListedWasSubmitted
<1>1. GovInv => ListedWasSubmitted
  BY DEF GovInv, ListedWasSubmitted, RowInv, Submitted
<1>2. QED
  BY GovInvariant, <1>1, PTL

(* The audit trail reports only what was committed, by who may do it.      *)
THEOREM TrailTellsTheTruth == Spec => []TrailHonest
<1>1. GovInv => TrailHonest
  <2> SUFFICES ASSUME GovInv, NEW e \in audit
               PROVE  /\ e.action = "propose" => e.actor = author[e.target]
                      /\ e.action = "submit" =>
                           /\ status[e.target] \notin {"none", "DRAFT"}
                           /\ e.actor = author[e.target] \/ e.actor \in Admins
                      /\ e.action = "publish" =>
                           reviewer[e.target] # NoOne /\ Listed(e.target)
                      /\ e.action = "reject" => reviewer[e.target] # NoOne
    BY DEF TrailHonest
  <2>1. e.target \in Proposals
    BY DEF GovInv, TypeOK
  <2>2. HasRow(e.target) /\ status[e.target] # "none" => Listed(e.target)
    BY <2>1 DEF GovInv, TypeOK, ProposalInv, HasRow, Listed, RowKey, Keys, Kinds
  <2>3. QED
    BY <2>1, <2>2 DEF GovInv, TrailInv, Submitted, Decided
<1>2. QED
  BY GovInvariant, <1>1, PTL

-----------------------------------------------------------------------------
(* The refinement.  Where requests have not raced, what one of them read   *)
(* is still true when it writes.                                           *)
QuietInv ==
  /\ \A p \in Disturbed : status[p] # "none"
  /\ \A g, h \in Handlers :
       /\ pc[g] \in {"publish", "commit"} /\ pc[h] \in {"publish", "commit"}
       /\ target[g] = target[h] /\ target[h] \notin raced
       => g = h
  /\ \A h \in Handlers :
       pc[h] \in {"publish", "commit"} /\ target[h] \notin raced =>
         /\ op[h] = "submit" => status[target[h]] = "DRAFT"
         /\ op[h] \in {"publish", "reject"} => status[target[h]] = "REVIEW"

\* A request's checks passed.
Start(h, a, p) == StartSubmit(h, a, p) \/ StartApprove(h, a, p) \/ StartReject(h, a, p)

(* A request that is the only pending one keeps what its checks have read, *)
(* and one that is not marks its proposal.                                 *)
LEMMA QuietNext ==
  ASSUME GovInv, QuietInv, [Next]_vars
  PROVE  QuietInv'
<1> USE GovernanceAssumption
    DEF GovInv, TypeOK, RequestInv, QuietInv, Disturbed, observerVars
<1>1. CASE UNCHANGED vars
  BY <1>1 DEF vars
<1>2. ASSUME NEW h \in Handlers, NEW a \in Analysts, NEW p \in Proposals,
             NEW k \in Kinds, NEW v \in Values, Propose(h, a, p, k, v)
      PROVE  QuietInv'
  BY <1>2 DEF Propose, Begin
<1>3. ASSUME NEW h \in Handlers, NEW a \in Analysts, NEW p \in Proposals, Start(h, a, p)
      PROVE  QuietInv'
  <2>1. PICK o \in {"submit", "publish", "reject"}, n \in {"publish", "commit"} :
          /\ Enter(h, o, a, p, n) /\ UNCHANGED proposalVars
          /\ status[p] = IF o = "submit" THEN "DRAFT" ELSE "REVIEW"
    BY <1>3 DEF Start, StartSubmit, StartApprove, StartReject
  <2>2. \A g \in Handlers \ {h} :
          pc[g] \in {"publish", "commit"} /\ target[g] = p => p \in raced'
    BY <2>1 DEF Enter, Pending
  <2>3. \A g \in Handlers \ {h} :
          pc'[g] = pc[g] /\ op'[g] = op[g] /\ target'[g] = target[g]
    BY <2>1 DEF Enter, Begin
  <2>4. /\ raced \subseteq raced' /\ raced' \subseteq raced \cup {p}
        /\ cut' = cut /\ status' = status
        /\ target'[h] = p /\ op'[h] = o
    BY <2>1 DEF Enter, Begin, proposalVars
  <2>5. QED
    BY <2>1, <2>2, <2>3, <2>4
<1>4. ASSUME NEW h \in Handlers, Proceed(h) PROVE QuietInv'
  BY <1>4 DEF Proceed, Publish, CommitStatus, RecordAudit, Finish, Outcome, proposalVars
<1>5. ASSUME NEW h \in Handlers, Fail(h) PROVE QuietInv'
  BY <1>5 DEF Fail, Finish, proposalVars
<1>6. ASSUME NEW v \in Values, NEW c \in Values \cup {Empty}, Import(v, c)
      PROVE  QuietInv'
  BY <1>6 DEF Import, proposalVars, requestVars
<1>7. QED
  BY <1>1, <1>2, <1>3, <1>4, <1>5, <1>6 DEF Next, Start

(* The empty table is the start of the documented workflow.                *)
LEMMA WorkflowInit == Init => Workflow!Init
<1> SUFFICES ASSUME Init PROVE Workflow!Init
  OBVIOUS
<1>1. \A p \in Proposals : Approvers(p) = {} /\ p \notin Disturbed
  BY DEF Init, Approvers, Disturbed
<1>2. QED
  BY <1>1, GovernanceAssumption
  DEF Init, Workflow!Init, StageOf, ReviewerOf, IsReleased

\* What the workflow sees of q, and a step that leaves it as it is.
SameView(q) ==
  /\ StageOf(q)' = StageOf(q) /\ ReviewerOf(q)' = ReviewerOf(q)
  /\ IsReleased(q)' = IsReleased(q) /\ author'[q] = author[q]

(* A step that leaves the columns and the approvers of q leaves its view,  *)
(* and so does any step but the proposal's own when q was disturbed.       *)
LEMMA ViewStays ==
  ASSUME NEW q, author'[q] = author[q], q \in Disturbed' <=> q \in Disturbed,
         \/ q \in Disturbed
         \/ /\ Approvers(q)' = Approvers(q)
            /\ status'[q] = status[q] /\ reviewer'[q] = reviewer[q]
  PROVE  SameView(q)
  BY DEF SameView, StageOf, ReviewerOf, IsReleased

(* A step that leaves every view is a stutter of the workflow.             *)
LEMMA SameViews ==
  ASSUME author' = author, \A q \in Proposals : SameView(q)
  PROVE  UNCHANGED Workflow!vars
  BY DEF SameView, Workflow!vars

(* A request leaves the approvers of every other proposal.                 *)
LEMMA OtherApprovers ==
  ASSUME GovInv, NEW h \in Handlers, NEW p \in Proposals,
         \/ \E a \in Analysts :
              Start(h, a, p) \/ \E k \in Kinds, v \in Values : Propose(h, a, p, k, v)
         \/ target[h] = p /\ (Proceed(h) \/ Fail(h))
  PROVE  \A q \in Proposals \ {p} : Approvers(q)' = Approvers(q)
<1> USE GovernanceAssumption DEF GovInv, TypeOK, RequestInv, Approvers
<1>1. ASSUME NEW a \in Analysts,
             Start(h, a, p) \/ \E k \in Kinds, v \in Values : Propose(h, a, p, k, v)
      PROVE  \A q \in Proposals \ {p} : Approvers(q)' = Approvers(q)
  BY <1>1 DEF Propose, Start, StartSubmit, StartApprove, StartReject, Enter, Begin
<1>2. CASE target[h] = p /\ Publish(h)
  BY <1>2 DEF Publish
<1>3. CASE target[h] = p /\ CommitStatus(h)
  BY <1>3 DEF CommitStatus
<1>4. CASE target[h] = p /\ (RecordAudit(h) \/ Fail(h))
  BY <1>4 DEF RecordAudit, Fail, Finish
<1>5. QED
  BY <1>1, <1>2, <1>3, <1>4 DEF Proceed

(* Only publishing, its commit and a cut change the approvers of a         *)
(* proposal.                                                               *)
LEMMA SameApprovers ==
  ASSUME GovInv, NEW h \in Handlers, NEW p \in Proposals,
         \/ \E a \in Analysts :
              Start(h, a, p) \/ \E k \in Kinds, v \in Values : Propose(h, a, p, k, v)
         \/ target[h] = p /\ RecordAudit(h)
         \/ target[h] = p /\ Fail(h) /\ ~(pc[h] = "commit" /\ op[h] = "publish")
  PROVE  Approvers(p)' = Approvers(p)
<1> USE GovernanceAssumption DEF GovInv, TypeOK, RequestInv, Approvers
<1>1. ASSUME NEW a \in Analysts,
             Start(h, a, p) \/ \E k \in Kinds, v \in Values : Propose(h, a, p, k, v)
      PROVE  Approvers(p)' = Approvers(p)
  BY <1>1 DEF Propose, Start, StartSubmit, StartApprove, StartReject, Enter, Begin
<1>2. CASE target[h] = p /\ RecordAudit(h)
  BY <1>2 DEF RecordAudit, Finish
<1>3. CASE target[h] = p /\ Fail(h) /\ ~(pc[h] = "commit" /\ op[h] = "publish")
  BY <1>3 DEF Fail, Finish
<1>4. QED
  BY <1>1, <1>2, <1>3

(* A proposal that becomes disturbed leaves the workflow.                  *)
LEMMA DisputeStep ==
  ASSUME NEW p \in Proposals, author' = author, p \notin Disturbed, p \in Disturbed',
         StageOf(p) \in {"DRAFT", "REVIEW", "PUBLISHED"},
         \A q \in Proposals \ {p} : SameView(q)
  PROVE  Workflow!Next
<1>1. StageOf(p)' = "DISPUTED" /\ ReviewerOf(p)' = NoOne /\ ~IsReleased(p)'
  BY DEF StageOf, ReviewerOf, IsReleased
<1>2. Workflow!Dispute(p)
  BY <1>1 DEF SameView, Workflow!Dispute
<1>3. QED
  BY <1>2 DEF Workflow!Next

(* A publication maps to Approve, the commit of its status to a stutter,   *)
(* the other commits to Submit and Reject; checks that pass beside a       *)
(* pending request, and a cut, map to Dispute.                             *)
LEMMA WorkflowStep ==
  ASSUME GovInv, QuietInv, [Next]_vars
  PROVE  [Workflow!Next]_(Workflow!vars)
<1> USE GovernanceAssumption DEF proposalVars, listVars, requestVars, observerVars
<1>1. CASE UNCHANGED vars
  <2>1. \A q \in Proposals : Approvers(q)' = Approvers(q)
    BY <1>1 DEF vars, Approvers
  <2>2. QED
    BY <1>1, <2>1, ViewStays, SameViews DEF vars, Disturbed
<1>2. ASSUME NEW h \in Handlers, NEW a \in Analysts, NEW p \in Proposals,
             NEW k \in Kinds, NEW v \in Values, Propose(h, a, p, k, v)
      PROVE  [Workflow!Next]_(Workflow!vars)
  <2>1. Disturbed' = Disturbed /\ p \notin Disturbed
    BY <1>2 DEF Propose, Disturbed, QuietInv
  <2>2. \A q \in Proposals \ {p} : SameView(q)
    BY <1>2, <2>1, OtherApprovers, ViewStays DEF Propose, GovInv, TypeOK
  <2>3. Approvers(p) = {}
    BY <1>2 DEF Propose, Approvers, GovInv, RequestInv
  <2>4. Approvers(p)' = {}
    BY <1>2, <2>3, SameApprovers
  <2>5. /\ StageOf(p) = "none" /\ StageOf(p)' = "DRAFT"
        /\ ReviewerOf(p)' = ReviewerOf(p) /\ IsReleased(p)' = IsReleased(p)
    BY <1>2, <2>1, <2>3, <2>4
    DEF Propose, GovInv, TypeOK, StageOf, ReviewerOf, IsReleased
  <2>6. author' = [author EXCEPT ![p] = a]
    BY <1>2 DEF Propose
  <2>7. Workflow!Propose(a, p)
    BY <2>2, <2>5, <2>6 DEF SameView, Workflow!Propose, Workflow!Move
  <2>8. QED
    BY <2>7 DEF Workflow!Next
<1>3. ASSUME NEW h \in Handlers, NEW a \in Analysts, NEW p \in Proposals, Start(h, a, p)
      PROVE  [Workflow!Next]_(Workflow!vars)
  <2>1. /\ UNCHANGED <<status, author, reviewer, cut>>
        /\ raced' = IF Pending(p) = {} THEN raced ELSE raced \cup {p}
        /\ status[p] \in {"DRAFT", "REVIEW"}
    BY <1>3 DEF Start, StartSubmit, StartApprove, StartReject, Enter
  <2>2. \A q \in Proposals : Approvers(q)' = Approvers(q)
    BY <1>3, OtherApprovers, SameApprovers
  <2>3. \A q \in Proposals \ {p} : SameView(q)
    BY <2>1, <2>2, ViewStays DEF Disturbed
  <2>4. CASE p \in Disturbed' <=> p \in Disturbed
    BY <2>1, <2>2, <2>3, <2>4, ViewStays, SameViews
  <2>5. CASE p \notin Disturbed /\ p \in Disturbed'
    BY <2>1, <2>3, <2>5, DisputeStep DEF StageOf
  <2>6. Disturbed \subseteq Disturbed'
    BY <2>1 DEF Disturbed
  <2>7. QED
    BY <2>4, <2>5, <2>6
<1>4. ASSUME NEW h \in Handlers, NEW p \in Proposals, Publish(h), target[h] = p
      PROVE  [Workflow!Next]_(Workflow!vars)
  <2>1. UNCHANGED <<status, author, reviewer>> /\ Disturbed' = Disturbed
    BY <1>4 DEF Publish, Disturbed
  <2>2. \A q \in Proposals \ {p} : SameView(q)
    BY <1>4, <2>1, OtherApprovers, ViewStays DEF Proceed
  <2>3. CASE p \in Disturbed
    BY <2>1, <2>2, <2>3, ViewStays, SameViews
  <2>4. CASE p \notin Disturbed
    <3>1. /\ actor[h] \in Analysts /\ actor[h] # author[p]
          /\ status[p] = "REVIEW" /\ op[h] = "publish"
      BY <1>4, <2>4 DEF Publish, GovInv, RequestInv, QuietInv, Disturbed
    <3>2. Approvers(p) = {} /\ Approvers(p)' = {actor[h]}
      BY <1>4, <2>4, <3>1 DEF Publish, Approvers, QuietInv, GovInv, TypeOK, Disturbed
    <3>3. TheOne({actor[h]}) = actor[h]
      BY DEF TheOne
    <3>4. /\ StageOf(p) = "REVIEW" /\ StageOf(p)' = "PUBLISHED"
          /\ ReviewerOf(p)' = actor[h] /\ IsReleased(p)'
      BY <2>1, <2>4, <3>1, <3>2, <3>3 DEF StageOf, ReviewerOf, IsReleased
    <3>5. Workflow!Approve(actor[h], p)
      BY <2>1, <2>2, <2>4, <3>1, <3>4
      DEF SameView, Workflow!Approve, Workflow!Move
    <3>6. QED
      BY <3>1, <3>5 DEF Workflow!Next
  <2>5. QED
    BY <2>3, <2>4
<1>5. ASSUME NEW h \in Handlers, NEW p \in Proposals, CommitStatus(h), target[h] = p
      PROVE  [Workflow!Next]_(Workflow!vars)
  <2>1. author' = author /\ Disturbed' = Disturbed
    BY <1>5 DEF CommitStatus, Disturbed
  <2>2. \A q \in Proposals \ {p} : SameView(q)
    BY <1>5, <2>1, OtherApprovers, ViewStays DEF Proceed, CommitStatus, GovInv, TypeOK
  <2>3. CASE p \in Disturbed
    BY <2>1, <2>2, <2>3, ViewStays, SameViews
  <2>4. CASE p \notin Disturbed
    <3>1. /\ actor[h] \in Analysts
          /\ op[h] \in {"submit", "publish", "reject"}
          /\ Approvers(p)' = {}
      BY <1>5, <2>4
      DEF CommitStatus, Approvers, QuietInv, GovInv, TypeOK, Ops, RequestInv, Disturbed
    <3>2. ASSUME op[h] # "publish" PROVE Approvers(p) = {}
      BY <1>5, <2>4, <3>2
      DEF CommitStatus, Approvers, QuietInv, GovInv, TypeOK, Disturbed
    <3>3. CASE op[h] = "publish"
      <4>1. Approvers(p) = {actor[h]}
        BY <1>5, <2>4, <3>3
        DEF CommitStatus, Approvers, QuietInv, GovInv, TypeOK, Disturbed
      <4>2. TheOne({actor[h]}) = actor[h]
        BY DEF TheOne
      <4>3. status'[p] = "PUBLISHED" /\ reviewer'[p] = actor[h]
        BY <1>5, <3>1, <3>3 DEF CommitStatus, Outcome, GovInv, TypeOK
      <4>4. SameView(p)
        BY <2>1, <3>1, <4>1, <4>2, <4>3 DEF SameView, StageOf, ReviewerOf, IsReleased
      <4>5. QED
        BY <2>1, <2>2, <4>4, SameViews
    <3>4. CASE op[h] = "submit"
      <4>1. /\ StageOf(p) = "DRAFT" /\ StageOf(p)' = "REVIEW"
            /\ ReviewerOf(p)' = ReviewerOf(p)
            /\ IsReleased(p)' = IsReleased(p)
        BY <1>5, <2>1, <2>4, <3>1, <3>2, <3>4
        DEF CommitStatus, Outcome, QuietInv, GovInv, TypeOK, StageOf, ReviewerOf,
            IsReleased, Disturbed
      <4>2. Workflow!Submit(p)
        BY <2>1, <2>2, <4>1 DEF SameView, Workflow!Submit, Workflow!Move
      <4>3. QED
        BY <4>2 DEF Workflow!Next
    <3>5. CASE op[h] = "reject"
      <4>1. /\ StageOf(p) = "REVIEW" /\ StageOf(p)' = "REJECTED"
            /\ ReviewerOf(p)' = actor[h]
            /\ IsReleased(p)' = IsReleased(p)
            /\ actor[h] # author[p]
        BY <1>5, <2>1, <2>4, <3>1, <3>2, <3>5
        DEF CommitStatus, Outcome, QuietInv, GovInv, TypeOK, RequestInv, StageOf,
            ReviewerOf, IsReleased, Disturbed
      <4>2. Workflow!Reject(actor[h], p)
        BY <2>1, <2>2, <4>1 DEF SameView, Workflow!Reject, Workflow!Move
      <4>3. QED
        BY <3>1, <4>2 DEF Workflow!Next
    <3>6. QED
      BY <3>1, <3>3, <3>4, <3>5
  <2>5. QED
    BY <2>3, <2>4
<1>6. ASSUME NEW h \in Handlers, NEW p \in Proposals, target[h] = p, RecordAudit(h)
      PROVE  UNCHANGED Workflow!vars
  <2>1. \A q \in Proposals : Approvers(q)' = Approvers(q)
    BY <1>6, OtherApprovers, SameApprovers DEF Proceed
  <2>2. QED
    BY <1>6, <2>1, ViewStays, SameViews DEF RecordAudit, Disturbed
<1>7. ASSUME NEW h \in Handlers, NEW p \in Proposals, target[h] = p, Fail(h)
      PROVE  [Workflow!Next]_(Workflow!vars)
  <2>1. /\ UNCHANGED <<status, author, reviewer, raced>>
        /\ cut' = IF pc[h] = "commit" /\ op[h] = "publish" THEN cut \cup {p} ELSE cut
    BY <1>7 DEF Fail
  <2>2. \A q \in Proposals \ {p} : SameView(q)
    BY <1>7, <2>1, OtherApprovers, ViewStays DEF Disturbed
  <2>3. CASE p \in Disturbed
    BY <2>1, <2>2, <2>3, ViewStays, SameViews DEF Disturbed
  <2>4. CASE ~(pc[h] = "commit" /\ op[h] = "publish")
    BY <1>7, <2>1, <2>2, <2>4, SameApprovers, ViewStays, SameViews DEF Disturbed
  <2>5. CASE p \notin Disturbed /\ pc[h] = "commit" /\ op[h] = "publish"
    <3>1. actor[h] \in Approvers(p)
      BY <1>7, <2>5 DEF Approvers
    <3>2. StageOf(p) = "PUBLISHED" /\ p \in Disturbed'
      BY <2>1, <2>5, <3>1 DEF StageOf, Disturbed
    <3>3. QED
      BY <2>1, <2>2, <2>5, <3>2, DisputeStep
  <2>6. QED
    BY <2>3, <2>4, <2>5
<1>8. ASSUME NEW v \in Values, NEW c \in Values \cup {Empty}, Import(v, c)
      PROVE  UNCHANGED Workflow!vars
  <2>1. \A q \in Proposals : Approvers(q)' = Approvers(q)
    BY <1>8 DEF Import, Approvers
  <2>2. QED
    BY <1>8, <2>1, ViewStays, SameViews DEF Import, Disturbed
<1>9. \A h \in Handlers : pc[h] # "idle" => target[h] \in Proposals
  BY DEF GovInv, RequestInv
<1>10. QED
  BY <1>1, <1>2, <1>3, <1>4, <1>5, <1>6, <1>7, <1>8, <1>9
  DEF Next, Start, Proceed, Publish, CommitStatus, RecordAudit, Fail

(* Every proposal goes through the documented workflow until its requests  *)
(* race or its approval is cut, whatever happens to others.                *)
THEOREM WorkflowImplemented == Spec => ImplementsWorkflow
<1>1. Init => QuietInv
  BY DEF Init, QuietInv, Disturbed
<1>2. GovInv /\ QuietInv /\ [Next]_vars => QuietInv'
  BY QuietNext
<1>3. GovInv /\ QuietInv /\ [Next]_vars => [Workflow!Next]_(Workflow!vars)
  BY WorkflowStep
<1>4. QED
  BY WorkflowInit, GovInvariant, <1>1, <1>2, <1>3, PTL
  DEF Spec, ImplementsWorkflow, Workflow!Spec

(* The row of an undisturbed proposal stems from a publication that        *)
(* counts, or is about to.                                                 *)
RowCounts ==
  \A k \in Keys : writer[k] \in Proposals \ Disturbed =>
    \/ status[writer[k]] = "PUBLISHED"
    \/ Approvers(writer[k]) # {}

(* A proposal that is rejected has no row, unless it was disturbed.        *)
THEOREM RejectedHasNoRow == Spec => []RejectedInOrder
<1>1. Init => QuietInv /\ RowCounts
  BY GovernanceAssumption DEF Init, QuietInv, RowCounts, Disturbed
<1>2. GovInv /\ QuietInv /\ [Next]_vars => QuietInv'
  BY QuietNext
<1>3. ASSUME GovInv, QuietInv, RowCounts, [Next]_vars PROVE RowCounts'
  <2> USE <1>3, GovernanceAssumption DEF proposalVars, listVars, requestVars, observerVars
  <2>1. CASE UNCHANGED vars
    BY <2>1 DEF vars, RowCounts, Approvers, Disturbed
  <2>2. ASSUME NEW h \in Handlers, NEW a \in Analysts, NEW p \in Proposals,
               Start(h, a, p) \/ \E k \in Kinds, v \in Values : Propose(h, a, p, k, v)
        PROVE  RowCounts'
    <3>1. \A q \in Proposals : Approvers(q)' = Approvers(q)
      BY <2>2, OtherApprovers, SameApprovers
    <3>2. \A q \in Proposals : status[q] = "PUBLISHED" => status'[q] = "PUBLISHED"
      BY <2>2
      DEF Propose, Start, StartSubmit, StartApprove, StartReject, GovInv, TypeOK
    <3>3. writer' = writer /\ Disturbed \subseteq Disturbed'
      BY <2>2
      DEF Propose, Start, StartSubmit, StartApprove, StartReject, Enter, Disturbed
    <3>4. QED
      BY <3>1, <3>2, <3>3 DEF RowCounts
  <2>3. ASSUME NEW h \in Handlers, NEW p \in Proposals, Publish(h), target[h] = p
        PROVE  RowCounts'
    <3>1. \A q \in Proposals \ {p} : Approvers(q)' = Approvers(q)
      BY <2>3, OtherApprovers DEF Proceed
    <3>2. actor[h] \in Approvers(p)'
      <4>1. pc'[h] = "commit" /\ op'[h] = "publish" /\ target'[h] = p /\ actor'[h] = actor[h]
        BY <2>3 DEF Publish, GovInv, TypeOK, RequestInv
      <4>2. QED
        BY <4>1 DEF Approvers
    <3>3. Disturbed' = Disturbed
      BY <2>3 DEF Publish, Disturbed
    <3>4. QED
      BY <2>3, <3>1, <3>2, <3>3 DEF Publish, RowCounts, GovInv, TypeOK
  <2>4. ASSUME NEW h \in Handlers, NEW p \in Proposals, CommitStatus(h), target[h] = p
        PROVE  RowCounts'
    <3>1. \A q \in Proposals \ {p} :
            Approvers(q)' = Approvers(q) /\ status'[q] = status[q]
      <4>1. \A q \in Proposals \ {p} : Approvers(q)' = Approvers(q)
        BY <2>4, OtherApprovers DEF Proceed
      <4>2. QED
        BY <2>4, <4>1 DEF CommitStatus, GovInv, TypeOK
    <3>2. op[h] # "publish" /\ p \notin Disturbed =>
            status[p] # "PUBLISHED" /\ Approvers(p) = {}
      BY <2>4
      DEF CommitStatus, Approvers, QuietInv, GovInv, TypeOK, Ops, RequestInv, Disturbed
    <3>3. op[h] = "publish" => status'[p] = "PUBLISHED"
      BY <2>4 DEF CommitStatus, Outcome, GovInv, TypeOK
    <3>4. writer' = writer /\ Disturbed' = Disturbed
      BY <2>4 DEF CommitStatus, Disturbed
    <3>5. QED
      BY <3>1, <3>2, <3>3, <3>4 DEF RowCounts
  <2>5. ASSUME NEW h \in Handlers, NEW p \in Proposals, target[h] = p,
               RecordAudit(h) \/ Fail(h)
        PROVE  RowCounts'
    <3>1. \A q \in Proposals \ {p} : Approvers(q)' = Approvers(q)
      BY <2>5, OtherApprovers DEF Proceed
    <3>2. Approvers(p)' = Approvers(p) \/ p \in Disturbed'
      BY <2>5, SameApprovers DEF RecordAudit, Fail, Disturbed
    <3>3. UNCHANGED <<writer, status>> /\ Disturbed \subseteq Disturbed'
      BY <2>5 DEF RecordAudit, Fail, Disturbed
    <3>4. QED
      BY <3>1, <3>2, <3>3 DEF RowCounts
  <2>6. ASSUME NEW v \in Values, NEW c \in Values \cup {Empty}, Import(v, c)
        PROVE  RowCounts'
    <3>1. \A q \in Proposals : Approvers(q)' = Approvers(q)
      BY <2>6 DEF Import, Approvers
    <3>2. \A k \in Keys : writer'[k] \in Proposals => writer'[k] = writer[k]
      BY <2>6 DEF Import, RowKey, Keys, Kinds, GovInv, TypeOK
    <3>3. Disturbed' = Disturbed
      BY <2>6 DEF Import, Disturbed
    <3>4. QED
      BY <2>6, <3>1, <3>2, <3>3 DEF Import, RowCounts
  <2>7. \A h \in Handlers : pc[h] # "idle" => target[h] \in Proposals
    BY DEF GovInv, RequestInv
  <2>8. QED
    BY <2>1, <2>2, <2>3, <2>4, <2>5, <2>6, <2>7
    DEF Next, Start, Proceed, Publish, CommitStatus, RecordAudit, Fail
<1>4. GovInv /\ QuietInv /\ RowCounts => RejectedInOrder
  BY GovernanceAssumption
  DEF GovInv, TypeOK, QuietInv, RowCounts, RejectedInOrder, Approvers, Disturbed
<1>5. QED
  BY GovInvariant, <1>1, <1>2, <1>3, <1>4, PTL DEF Spec

(* Every row of the workflow comes from a submission, and from no          *)
(* rejection but of a disturbed proposal.                                  *)
THEOREM RowsReviewed == Spec => []RowsFromReview
  BY NoRowOfADraft, RejectedHasNoRow, PTL DEF RowsFromReview

(* A publication is in the trail, or its request is at it, unless that     *)
(* request was killed between the two.                                     *)
THEOREM PublicationAttributed == Spec => []Attributed
<1>1. Init => Attributed
  BY GovernanceAssumption DEF Init, Attributed
<1>2. ASSUME GovInv, Attributed, [Next]_vars PROVE Attributed'
  <2> USE <1>2, GovernanceAssumption
      DEF GovInv, TypeOK, Ops, Attributed, Audited, proposalVars, listVars, requestVars,
          observerVars
  <2>1. CASE UNCHANGED vars
    BY <2>1 DEF vars
  <2>2. ASSUME NEW h \in Handlers, NEW a \in Analysts, NEW p \in Proposals,
               \/ \E k \in Kinds, v \in Values : Propose(h, a, p, k, v)
               \/ StartSubmit(h, a, p) \/ StartApprove(h, a, p) \/ StartReject(h, a, p)
        PROVE  Attributed'
    BY <2>2 DEF Propose, StartSubmit, StartApprove, StartReject, Enter, Begin
  <2>3. ASSUME NEW h \in Handlers, Publish(h) PROVE Attributed'
    BY <2>3 DEF Publish
  <2>4. ASSUME NEW h \in Handlers, CommitStatus(h) PROVE Attributed'
    BY <2>4 DEF CommitStatus, Outcome, RequestInv
  <2>5. ASSUME NEW h \in Handlers, RecordAudit(h) PROVE Attributed'
    <3>1. \A q \in Proposals : Audited("publish", q) => Audited("publish", q)'
      BY <2>5 DEF RecordAudit
    <3>2. ASSUME NEW q \in Proposals \ unaudited, op[h] = "publish", target[h] = q
          PROVE  Audited("publish", q)'
      <4>1. Event(h) \in audit'
        BY <2>5 DEF RecordAudit
      <4>2. Event(h).action = "publish" /\ Event(h).target = q
        BY <3>2 DEF Event
      <4>3. QED
        BY <4>1, <4>2
    <3>3. \A g \in Handlers \ {h} :
            pc'[g] = pc[g] /\ op'[g] = op[g] /\ target'[g] = target[g]
      BY <2>5 DEF RecordAudit, Finish
    <3>4. status' = status
      BY <2>5 DEF RecordAudit
    <3>5. ASSUME NEW q \in Proposals \ unaudited, status[q] = "PUBLISHED"
          PROVE  \/ Audited("publish", q)'
                 \/ \E g \in Handlers :
                      pc'[g] = "audit" /\ op'[g] = "publish" /\ target'[g] = q
      <4> HIDE DEF Audited
      <4>1. CASE Audited("publish", q)
        BY <3>1, <4>1
      <4>2. ASSUME NEW g \in Handlers, pc[g] = "audit", op[g] = "publish", target[g] = q
            PROVE  \/ Audited("publish", q)'
                   \/ pc'[g] = "audit" /\ op'[g] = "publish" /\ target'[g] = q
        BY <3>2, <3>3, <4>2
      <4>3. QED
        BY <3>5, <4>1, <4>2
    <3>6. unaudited' = unaudited
      BY <2>5 DEF RecordAudit
    <3>7. QED
      BY <3>4, <3>5, <3>6
  <2>6. ASSUME NEW h \in Handlers, Fail(h) PROVE Attributed'
    BY <2>6 DEF Fail, Finish
  <2>7. ASSUME NEW v \in Values, NEW c \in Values \cup {Empty}, Import(v, c)
        PROVE  Attributed'
    BY <2>7 DEF Import
  <2>8. QED
    BY <2>1, <2>2, <2>3, <2>4, <2>5, <2>6, <2>7 DEF Next, Proceed
<1>3. QED
  BY GovInvariant, <1>1, <1>2, PTL DEF Spec
=============================================================================
