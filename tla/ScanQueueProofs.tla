-------------------------- MODULE ScanQueueProofs --------------------------
(***************************************************************************)
(* Proofs about ScanQueue, for any sets of workers, uploads and contents,  *)
(* with or without faults, kills and object storage.                       *)
(***************************************************************************)
EXTENDS ScanQueue, FiniteSetTheorems, TLAPS

(* A step of Next is one of these; each proof below has a step for each.   *)
LEMMA NextCases ==
  ASSUME Next, NEW P,
         \A u \in Uploads : StageUpload(u) => P,
         \A u \in Uploads : RejectUpload(u) => P,
         \A u \in Uploads : StampJob(u) => P,
         \A u \in Uploads : CommitJob(u) => P,
         \A u \in Uploads : ScanInline(u) => P,
         \A w \in Workers : StartWorker(w) \/ StopWorker(w) \/ BeginPass(w) \/ EndPass(w) => P,
         \A w \in Workers : SelectOldest(w) => P,
         \A w \in Workers : Claim(w) => P,
         \A w \in Workers : LoseRace(w) => P,
         \A w \in Workers : FailClaim(w) => P,
         \A p \in Procs : ScanFile(p) => P,
         \A p \in Procs : ReadSample(p) => P,
         \A p \in Procs : UpsertSample(p) => P,
         \A p \in Procs : FailUpsert(p) => P,
         \A p \in Procs : CheckQuarantine(p) => P,
         \A p \in Procs : WriteQuarantine(p) => P,
         \A p \in Procs : CopyToQuarantine(p) => P,
         \A p \in Procs : RaiseInPipeline(p) => P,
         \A w \in Workers : FinishJob(w) => P,
         \A w \in Workers : FailFinish(w) => P,
         \A p \in Procs : Unlink(p) => P,
         \A p \in Procs : Kill(p) => P
  PROVE  P
  BY DEF Next, Request, Poll, Pipeline, Record

-----------------------------------------------------------------------------
(* The empty database of a first start has the right types.              *)
LEMMA TypeInit == Init => TypeOK
  BY ScanQueueAssumption
  DEF Init, TypeOK, Types, Owns, Owning, Busy, Terminal, Verdicts, Procs

(* Every step of a request or a worker keeps the types.                  *)
LEMMA TypeNext == TypeOK /\ [Next]_vars => TypeOK'
<1> SUFFICES ASSUME TypeOK, [Next]_vars PROVE TypeOK'
  OBVIOUS
<1> USE ScanQueueAssumption
    DEF TypeOK, Types, Owns, Owning, Busy, Terminal, Verdicts, Procs, dbVars, world,
        Goto, Item, Settle
<1>1. CASE UNCHANGED vars
  BY <1>1 DEF vars
<1>2. CASE Next
  <2>1. \A u \in Uploads : StageUpload(u) => TypeOK'
    BY DEF StageUpload
  <2>2. \A u \in Uploads : RejectUpload(u) => TypeOK'
    BY DEF RejectUpload
  <2>3. \A u \in Uploads : StampJob(u) => TypeOK'
    BY DEF StampJob
  <2>4. \A u \in Uploads : CommitJob(u) => TypeOK'
    BY DEF CommitJob
  <2>5. \A u \in Uploads : ScanInline(u) => TypeOK'
    BY DEF ScanInline
  <2>6. \A w \in Workers :
          StartWorker(w) \/ StopWorker(w) \/ BeginPass(w) \/ EndPass(w) => TypeOK'
    BY DEF StartWorker, StopWorker, Stop, BeginPass, EndPass
  <2>7. \A w \in Workers : SelectOldest(w) => TypeOK'
    BY DEF SelectOldest, Queued
  <2>8. \A w \in Workers : Claim(w) => TypeOK'
    BY DEF Claim
  <2>9. \A w \in Workers : LoseRace(w) => TypeOK'
    BY DEF LoseRace
  <2>9f. \A w \in Workers : FailClaim(w) => TypeOK'
    BY DEF FailClaim, Stop
  <2>10. \A p \in Procs : ScanFile(p) => TypeOK'
    BY DEF ScanFile, ScanResults
  <2>11. \A p \in Procs : ReadSample(p) => TypeOK'
    BY DEF ReadSample
  <2>12. \A p \in Procs : UpsertSample(p) => TypeOK'
    BY DEF UpsertSample
  <2>13. \A p \in Procs : FailUpsert(p) => TypeOK'
    <3>1. \A p \in Workers : FailUpsert(p) => TypeOK'
      BY DEF FailUpsert
    <3>2. \A p \in Uploads : FailUpsert(p) => TypeOK'
      BY DEF FailUpsert
    <3> QED
      BY <3>1, <3>2
  <2>14. \A p \in Procs : CheckQuarantine(p) => TypeOK'
    BY DEF CheckQuarantine
  <2>15. \A p \in Procs : WriteQuarantine(p) => TypeOK'
    BY DEF WriteQuarantine
  <2>16. \A p \in Procs : CopyToQuarantine(p) => TypeOK'
    BY DEF CopyToQuarantine
  <2>17. \A p \in Procs : RaiseInPipeline(p) => TypeOK'
    BY DEF RaiseInPipeline
  <2>18. \A w \in Workers : FinishJob(w) => TypeOK'
    BY DEF FinishJob
  <2>19. \A w \in Workers : FailFinish(w) => TypeOK'
    BY DEF FailFinish
  <2>20. \A p \in Procs : Unlink(p) => TypeOK'
    BY DEF Unlink
  <2>21. \A p \in Procs : Kill(p) => TypeOK'
    BY DEF Kill, Stop
  <2> HIDE DEF TypeOK
  <2>22. QED
    BY <1>2, <2>1, <2>2, <2>3, <2>4, <2>5, <2>6, <2>7, <2>8, <2>9, <2>9f, <2>10,
       <2>11, <2>12, <2>13, <2>14, <2>15, <2>16, <2>17, <2>18, <2>19, <2>20,
       <2>21, NextCases
<1>3. QED
  BY <1>1, <1>2

(* Every variable keeps its range, and a process holds a job and a verdict *)
(* exactly at the steps of run_job that use them.                          *)
THEOREM TypeCorrect == Spec => []TypeOK
  BY TypeInit, TypeNext, PTL DEF Spec

-----------------------------------------------------------------------------
(* The conditional UPDATE of claim_next is the lock (jobs.py, module       *)
(* comment; DEPLOIEMENT.md promises no double processing): two workers     *)
(* never run the same job, and the job a worker runs is RUNNING.  It is    *)
(* what ImplementsWorkQueue promises of two workers, and is needed first.  *)
ExclusiveJob ==
  \A w \in Workers : Owns(w) =>
    /\ status[item[w]] = "RUNNING"
    /\ \A x \in Workers \ {w} : Owns(x) => item[x] # item[w]

(* The inductive invariant behind the properties of the queue.  Besides    *)
(* the two properties, it says where a job can be: a worker between its    *)
(* commit and its unlink has a job with an outcome, and a request that has *)
(* not answered has no job row.                                            *)
JobWithOutcome ==
  \A w \in Workers : pc[w] = "unlink" => status[item[w]] \in Terminal

NoRowBeforeAnswer ==
  \A u \in Uploads : status[u] # "none" => pc[u] = "served"

FileBeforeRow ==
  \A u \in Uploads : pc[u] \in {"staging", "commit"} => u \in staged

QueueInv ==
  /\ TypeOK
  /\ ExclusiveJob
  /\ StagedUntilTerminal
  /\ JobWithOutcome
  /\ NoRowBeforeAnswer
  /\ FileBeforeRow

(* No job and no file: the queue starts consistent.                      *)
LEMMA QueueInit == Init => QueueInv
  BY TypeInit, ScanQueueAssumption
  DEF Init, QueueInv, ExclusiveJob, StagedUntilTerminal, JobWithOutcome,
      NoRowBeforeAnswer, FileBeforeRow, Owns, Owning, Procs

(* Every step of a request or a worker keeps jobs, owners and files      *)
(* consistent.                                                           *)
LEMMA QueueNext == QueueInv /\ [Next]_vars => QueueInv'
<1> SUFFICES ASSUME QueueInv, [Next]_vars PROVE QueueInv'
  OBVIOUS
<1>1. TypeOK /\ TypeOK'
  BY TypeNext DEF QueueInv
<1> DEFINE Rest == /\ ExclusiveJob /\ StagedUntilTerminal /\ JobWithOutcome
                   /\ NoRowBeforeAnswer /\ FileBeforeRow
<1> USE <1>1, ScanQueueAssumption
    DEF TypeOK, Types, QueueInv, ExclusiveJob, StagedUntilTerminal,
        JobWithOutcome, NoRowBeforeAnswer, FileBeforeRow,
        Owns, Owning, Busy, Terminal, Procs, dbVars, world, Goto, Item, Settle
<1>2. CASE UNCHANGED vars
  BY <1>2 DEF vars
<1>3. CASE Next
  <2>1. \A u \in Uploads : StageUpload(u) => Rest'
    BY DEF StageUpload
  <2>2. \A u \in Uploads : RejectUpload(u) => Rest'
    BY DEF RejectUpload
  <2>3. \A u \in Uploads : StampJob(u) => Rest'
    BY DEF StampJob
  <2>4. \A u \in Uploads : CommitJob(u) => Rest'
    BY DEF CommitJob
  <2>5. \A u \in Uploads : ScanInline(u) => Rest'
    BY DEF ScanInline
  <2>6. \A w \in Workers :
          StartWorker(w) \/ StopWorker(w) \/ BeginPass(w) \/ EndPass(w) => Rest'
    BY DEF StartWorker, StopWorker, Stop, BeginPass, EndPass
  <2>7. \A w \in Workers : SelectOldest(w) => Rest'
    BY DEF SelectOldest, Queued
  <2>8. \A w \in Workers : Claim(w) => Rest'
    BY DEF Claim
  <2>9. \A w \in Workers : LoseRace(w) => Rest'
    BY DEF LoseRace
  <2>9f. \A w \in Workers : FailClaim(w) => Rest'
    BY DEF FailClaim, Stop
  <2>10. \A p \in Procs : ScanFile(p) => Rest'
    BY DEF ScanFile, ScanResults
  <2>11. \A p \in Procs : ReadSample(p) => Rest'
    BY DEF ReadSample
  <2>12. \A p \in Procs : UpsertSample(p) => Rest'
    BY DEF UpsertSample
  <2>13. \A p \in Procs : FailUpsert(p) => Rest'
    <3>1. ASSUME NEW p \in Workers, FailUpsert(p) PROVE Rest'
      <4>1. /\ pc' = [pc EXCEPT ![p] = "idle"]
            /\ item' = [item EXCEPT ![p] = None]
            /\ UNCHANGED <<status, staged>>
        BY <3>1 DEF FailUpsert
      <4> QED
        BY <4>1
    <3>2. \A p \in Uploads : FailUpsert(p) => Rest'
      BY DEF FailUpsert
    <3> QED
      BY <3>1, <3>2
  <2>14. \A p \in Procs : CheckQuarantine(p) => Rest'
    BY DEF CheckQuarantine
  <2>15. \A p \in Procs : WriteQuarantine(p) => Rest'
    BY DEF WriteQuarantine
  <2>16. \A p \in Procs : CopyToQuarantine(p) => Rest'
    BY DEF CopyToQuarantine
  <2>17. \A p \in Procs : RaiseInPipeline(p) => Rest'
    BY DEF RaiseInPipeline
  <2>18. \A w \in Workers : FinishJob(w) => Rest'
    BY DEF FinishJob
  <2>19. \A w \in Workers : FailFinish(w) => Rest'
    BY DEF FailFinish
  <2>20. \A p \in Procs : Unlink(p) => Rest'
    BY DEF Unlink
  <2>21. \A p \in Procs : Kill(p) => Rest'
    BY DEF Kill, Stop
  <2> HIDE DEF Rest
  <2>22. Rest'
    BY <1>3, <2>1, <2>2, <2>3, <2>4, <2>5, <2>6, <2>7, <2>8, <2>9, <2>9f, <2>10,
       <2>11, <2>12, <2>13, <2>14, <2>15, <2>16, <2>17, <2>18, <2>19, <2>20,
       <2>21, NextCases
  <2>23. QED
    BY <2>22 DEF Rest
<1>4. QED
  BY <1>2, <1>3

(* Jobs, their owners and their files stay consistent through races,     *)
(* faults and kills of run_job and claim_next.                           *)
THEOREM QueueInvariant == Spec => []QueueInv
  BY QueueInit, QueueNext, PTL DEF Spec

(* Two workers never run one job, and a job that is run is RUNNING: the    *)
(* conditional UPDATE of claim_next is a lock, whatever fails or dies.     *)
THEOREM Exclusive == Spec => []ExclusiveJob
<1>1. QueueInv => ExclusiveJob
  BY DEF QueueInv
<1>2. QED
  BY <1>1, QueueInvariant, PTL

(* The only copy of a queued upload is not deleted before its job has an   *)
(* outcome, whatever fails or dies.                                        *)
THEOREM NeverLost == Spec => []StagedUntilTerminal
<1>1. QueueInv => StagedUntilTerminal
  BY DEF QueueInv
<1>2. QED
  BY <1>1, QueueInvariant, PTL

-----------------------------------------------------------------------------
(* A DONE job is backed because each step of the pipeline that a verdict   *)
(* has passed has left its effect: the corpus row after the upsert, and    *)
(* for a detected sample the quarantine file before the job's commit.      *)
EffectsSoFar ==
  \A w \in Workers :
    /\ pc[w] \in {"put", "write", "copy"} => corpus[content[item[w]]] # "none"
    /\ pc[w] = "finish" /\ outcome[w] # "FAILED" =>
         /\ corpus[content[item[w]]] # "none"
         /\ outcome[w] = "FLAGGED" => InQuarantine(content[item[w]])

(* An upload to object storage is all or nothing.                          *)
S3IsAtomic == store = "s3" => \A c \in Contents : quarantine[c] # "partial"

BackedInv == QueueInv /\ EffectsSoFar /\ S3IsAtomic /\ DoneIsBacked

(* No job is DONE at the start.                                          *)
LEMMA BackedInit == Init => BackedInv
  BY QueueInit, ScanQueueAssumption
  DEF Init, BackedInv, EffectsSoFar, S3IsAtomic, DoneIsBacked, Procs

(* Every step keeps the effects that the steps before it have left.      *)
LEMMA BackedNext == BackedInv /\ [Next]_vars => BackedInv'
<1> SUFFICES ASSUME BackedInv, [Next]_vars PROVE BackedInv'
  OBVIOUS
<1>1. TypeOK /\ QueueInv'
  BY QueueNext DEF BackedInv, QueueInv
<1> DEFINE Rest == EffectsSoFar /\ S3IsAtomic /\ DoneIsBacked
<1>e. EffectsSoFar /\ S3IsAtomic /\ DoneIsBacked /\ NoRowBeforeAnswer /\ ExclusiveJob
  BY DEF BackedInv, QueueInv
<1> USE <1>1, <1>e, ScanQueueAssumption
    DEF TypeOK, Types, EffectsSoFar, S3IsAtomic, InQuarantine, DoneIsBacked, NoRowBeforeAnswer,
        ExclusiveJob, Owns, Owning, Busy, Terminal, Verdicts, Procs, dbVars, world,
        Goto, Item, Settle
<1>2. CASE UNCHANGED vars
  BY <1>2 DEF vars, BackedInv
<1>3. CASE Next
  <2>1. \A u \in Uploads : StageUpload(u) => Rest'
    BY DEF StageUpload
  <2>2. \A u \in Uploads : RejectUpload(u) => Rest'
    BY DEF RejectUpload
  <2>3. \A u \in Uploads : StampJob(u) => Rest'
    BY DEF StampJob
  <2>4. \A u \in Uploads : CommitJob(u) => Rest'
    BY DEF CommitJob
  <2>5. \A u \in Uploads : ScanInline(u) => Rest'
    BY DEF ScanInline
  <2>6. \A w \in Workers :
          StartWorker(w) \/ StopWorker(w) \/ BeginPass(w) \/ EndPass(w) => Rest'
    BY DEF StartWorker, StopWorker, Stop, BeginPass, EndPass
  <2>7. \A w \in Workers : SelectOldest(w) => Rest'
    BY DEF SelectOldest, Queued
  <2>8. \A w \in Workers : Claim(w) => Rest'
    BY DEF Claim
  <2>9. \A w \in Workers : LoseRace(w) => Rest'
    BY DEF LoseRace
  <2>9f. \A w \in Workers : FailClaim(w) => Rest'
    BY DEF FailClaim, Stop
  <2>10. \A p \in Procs : ScanFile(p) => Rest'
    BY DEF ScanFile, ScanResults, Verdicts
  <2>11. \A p \in Procs : ReadSample(p) => Rest'
    BY DEF ReadSample
  <2>12. \A p \in Procs : UpsertSample(p) => Rest'
    BY DEF UpsertSample
  <2>13. \A p \in Procs : FailUpsert(p) => Rest'
    BY DEF FailUpsert
  <2>14. \A p \in Procs : CheckQuarantine(p) => Rest'
    BY DEF CheckQuarantine
  <2>15. \A p \in Procs : WriteQuarantine(p) => Rest'
    BY DEF WriteQuarantine
  <2>16. \A p \in Procs : CopyToQuarantine(p) => Rest'
    BY DEF CopyToQuarantine
  <2>17. \A p \in Procs : RaiseInPipeline(p) => Rest'
    BY DEF RaiseInPipeline
  <2>18. \A w \in Workers : FinishJob(w) => Rest'
    BY DEF FinishJob
  <2>19. \A w \in Workers : FailFinish(w) => Rest'
    BY DEF FailFinish
  <2>20. \A p \in Procs : Unlink(p) => Rest'
    BY DEF Unlink
  <2>21. \A p \in Procs : Kill(p) => Rest'
    BY DEF Kill, Stop
  <2> HIDE DEF Rest
  <2>22. Rest'
    BY <1>3, <2>1, <2>2, <2>3, <2>4, <2>5, <2>6, <2>7, <2>8, <2>9, <2>9f, <2>10,
       <2>11, <2>12, <2>13, <2>14, <2>15, <2>16, <2>17, <2>18, <2>19, <2>20,
       <2>21, NextCases
  <2>23. QED
    BY <2>22 DEF Rest, BackedInv
<1>4. QED
  BY <1>2, <1>3

(* A DONE job never lies about the corpus or the quarantine.               *)
THEOREM Backed == Spec => []DoneIsBacked
<1>1. BackedInv => DoneIsBacked
  BY DEF BackedInv
<1>2. QED
  BY <1>1, BackedInit, BackedNext, PTL DEF Spec

-----------------------------------------------------------------------------
(* Counting.  An upload that has not been counted yet is a credit of its   *)
(* content; the count is incremented from a value that may be stale, and   *)
(* neither the value nor the one read has ever used up more credits than   *)
(* are gone.                                                               *)
Uncounted == {"scan", "get", "upsert"}

MayCount(u) ==
  \/ pc[u] \in {"idle", "staging", "commit"} \cup Uncounted
  \/ status[u] = "QUEUED"
  \/ \E w \in Workers : item[w] = u /\ pc[w] \in Uncounted

UploadsOf(c) == {u \in Uploads : content[u] = c}

Credit(c) == {u \in UploadsOf(c) : MayCount(u)}

HasRoom(c, n) == n + Cardinality(Credit(c)) <= Cardinality(UploadsOf(c))

CountInv ==
  /\ \A c \in Contents : HasRoom(c, scanCount[c])
  /\ \A p \in Procs : pc[p] = "upsert" => HasRoom(content[Item(p)], seen[p])

(* A process in the pipeline works for an upload.                          *)
LEMMA ItemTyped ==
  ASSUME TypeOK, NEW p \in Procs, pc[p] \in Uncounted
  PROVE  Item(p) \in Uploads /\ content[Item(p)] \in Contents
  BY ScanQueueAssumption DEF TypeOK, Types, Uncounted, Item, Procs, Owns, Owning

(* Credits are finite sets of uploads.                                     *)
LEMMA CreditFinite ==
  ASSUME NEW c
  PROVE  /\ IsFiniteSet(UploadsOf(c)) /\ IsFiniteSet(Credit(c))
         /\ Cardinality(Credit(c)) \in Nat /\ Cardinality(UploadsOf(c)) \in Nat
         /\ Cardinality(Credit(c)) <= Cardinality(UploadsOf(c))
<1>1. IsFiniteSet(UploadsOf(c))
  BY ScanQueueAssumption, FS_Subset DEF UploadsOf
<1>2. Credit(c) \in SUBSET UploadsOf(c)
  BY DEF Credit
<1>3. QED
  BY <1>1, <1>2, FS_Subset, FS_CardinalityType

(* A step that gives no credit leaves as much room as there was.           *)
LEMMA RoomKept ==
  ASSUME NEW c, NEW n \in Nat, HasRoom(c, n), content' = content,
         \A u \in Uploads : MayCount(u)' => MayCount(u)
  PROVE  HasRoom(c, n)'
<1>1. UploadsOf(c)' = UploadsOf(c) /\ Credit(c)' \in SUBSET Credit(c)
  BY DEF UploadsOf, Credit
<1>2. IsFiniteSet(Credit(c)) /\ Cardinality(Credit(c)) \in Nat /\ Cardinality(UploadsOf(c)) \in Nat
  BY CreditFinite
<1>3. Cardinality(Credit(c)') <= Cardinality(Credit(c)) /\ Cardinality(Credit(c)') \in Nat
  BY <1>1, <1>2, FS_Subset, FS_CardinalityType
<1>4. QED
  BY <1>1, <1>2, <1>3 DEF HasRoom

(* A step that uses an upload's credit makes room for one more.            *)
LEMMA RoomMade ==
  ASSUME NEW u \in Uploads, NEW c, content[u] = c, NEW n \in Nat, HasRoom(c, n), content' = content,
         MayCount(u), ~MayCount(u)', \A v \in Uploads : MayCount(v)' => MayCount(v)
  PROVE  HasRoom(c, n + 1)'
<1>1. /\ UploadsOf(c)' = UploadsOf(c) /\ u \in Credit(c)
      /\ Credit(c)' \in SUBSET (Credit(c) \ {u})
  BY DEF UploadsOf, Credit
<1>2. IsFiniteSet(Credit(c)) /\ Cardinality(Credit(c)) \in Nat /\ Cardinality(UploadsOf(c)) \in Nat
  BY CreditFinite
<1>3. /\ IsFiniteSet(Credit(c) \ {u})
      /\ Cardinality(Credit(c) \ {u}) = Cardinality(Credit(c)) - 1
  BY <1>1, <1>2, FS_RemoveElement
<1>4. Cardinality(Credit(c)') <= Cardinality(Credit(c)) - 1 /\ Cardinality(Credit(c)') \in Nat
  BY <1>1, <1>3, FS_Subset, FS_CardinalityType
<1>5. n + Cardinality(Credit(c)) <= Cardinality(UploadsOf(c))
  BY DEF HasRoom
<1>6. n + 1 + Cardinality(Credit(c)') <= Cardinality(UploadsOf(c)')
  BY <1>1, <1>2, <1>4, <1>5
<1>7. QED
  BY <1>6 DEF HasRoom

(* Only ReadSample reads the count, only UpsertSample writes it, and no    *)
(* step gives an upload its credit back.                                   *)
LEMMA NoCreditBack ==
  ASSUME QueueInv, Next
  PROVE  /\ content' = content /\ \A u \in Uploads : MayCount(u)' => MayCount(u)
         /\ \/ \E p \in Procs : ReadSample(p) \/ UpsertSample(p)
            \/ /\ scanCount' = scanCount
               /\ \A p \in Procs : pc'[p] = "upsert" =>
                    pc[p] = "upsert" /\ seen'[p] = seen[p] /\ Item(p)' = Item(p)
<1> DEFINE Step ==
             /\ content' = content
             /\ \A u \in Uploads : MayCount(u)' => MayCount(u)
             /\ \/ \E p \in Procs : ReadSample(p) \/ UpsertSample(p)
                \/ /\ scanCount' = scanCount
                   /\ \A p \in Procs : pc'[p] = "upsert" =>
                        pc[p] = "upsert" /\ seen'[p] = seen[p] /\ Item(p)' = Item(p)
<1>1. TypeOK /\ ExclusiveJob /\ NoRowBeforeAnswer
  BY DEF QueueInv
<1>2. QED
  <2> USE <1>1, ScanQueueAssumption
      DEF TypeOK, Types, ExclusiveJob, NoRowBeforeAnswer, Owns, Owning, Busy, Procs, dbVars,
          world, Goto, Item, Settle, MayCount, Uncounted
  <2>1. \A u \in Uploads : StageUpload(u) => Step
    BY DEF StageUpload
  <2>2. \A u \in Uploads : RejectUpload(u) => Step
    BY DEF RejectUpload
  <2>3. \A u \in Uploads : StampJob(u) => Step
    BY DEF StampJob
  <2>4. \A u \in Uploads : CommitJob(u) => Step
    BY DEF CommitJob
  <2>5. \A u \in Uploads : ScanInline(u) => Step
    BY DEF ScanInline
  <2>6. \A w \in Workers :
          StartWorker(w) \/ StopWorker(w) \/ BeginPass(w) \/ EndPass(w) => Step
    BY DEF StartWorker, StopWorker, Stop, BeginPass, EndPass
  <2>7. \A w \in Workers : SelectOldest(w) => Step
    BY DEF SelectOldest, Queued
  <2>8. \A w \in Workers : Claim(w) => Step
    BY DEF Claim
  <2>9. \A w \in Workers : LoseRace(w) => Step
    BY DEF LoseRace
  <2>9f. \A w \in Workers : FailClaim(w) => Step
    BY DEF FailClaim, Stop
  <2>10. \A p \in Procs : ScanFile(p) => Step
    BY DEF ScanFile
  <2>11. \A p \in Procs : ReadSample(p) => Step
    <3> SUFFICES ASSUME NEW p \in Procs, ReadSample(p)
                 PROVE  content' = content /\ \A u \in Uploads : MayCount(u)' => MayCount(u)
      OBVIOUS
    <3>1. QED
      BY DEF ReadSample
  <2>12. \A p \in Procs : UpsertSample(p) => Step
    <3> SUFFICES ASSUME NEW p \in Procs, UpsertSample(p)
                 PROVE  content' = content /\ \A u \in Uploads : MayCount(u)' => MayCount(u)
      OBVIOUS
    <3>1. QED
      BY DEF UpsertSample
  <2>13. \A p \in Procs : FailUpsert(p) => Step
    BY DEF FailUpsert
  <2>14. \A p \in Procs : CheckQuarantine(p) => Step
    BY DEF CheckQuarantine
  <2>15. \A p \in Procs : WriteQuarantine(p) => Step
    BY DEF WriteQuarantine
  <2>16. \A p \in Procs : CopyToQuarantine(p) => Step
    BY DEF CopyToQuarantine
  <2>17. \A p \in Procs : RaiseInPipeline(p) => Step
    BY DEF RaiseInPipeline
  <2>18. \A w \in Workers : FinishJob(w) => Step
    BY DEF FinishJob
  <2>19. \A w \in Workers : FailFinish(w) => Step
    BY DEF FailFinish
  <2>20. \A p \in Procs : Unlink(p) => Step
    BY DEF Unlink
  <2>21. \A p \in Procs : Kill(p) => Step
    BY DEF Kill, Stop
  <2> HIDE DEF Step
  <2>22. Step
    BY <2>1, <2>2, <2>3, <2>4, <2>5, <2>6, <2>7, <2>8, <2>9, <2>9f, <2>10,
       <2>11, <2>12, <2>13, <2>14, <2>15, <2>16, <2>17, <2>18, <2>19, <2>20,
       <2>21, NextCases
  <2>23. QED
    BY <2>22 DEF Step

(* An upload that is counted has used its credit.                          *)
LEMMA CreditUsed ==
  ASSUME QueueInv, NEW p \in Procs, UpsertSample(p), NEW u, u = Item(p)
  PROVE  MayCount(u) /\ ~MayCount(u)'
  BY ScanQueueAssumption
  DEF QueueInv, TypeOK, Types, ExclusiveJob, NoRowBeforeAnswer, UpsertSample, Owns, Owning,
      Procs, Goto, Item, Settle, MayCount, Uncounted

(* At first every upload has its credit and nothing is counted.            *)
LEMMA CountInit == Init => CountInv
<1> SUFFICES ASSUME Init PROVE CountInv
  OBVIOUS
<1>1. \A c \in Contents : scanCount[c] = 0
  BY DEF Init
<1>2. \A p \in Procs : pc[p] # "upsert"
  BY DEF Init
<1>3. QED
  BY <1>1, <1>2, CreditFinite DEF CountInv, HasRoom

(* Reads and upserts spend credits, the other steps leave them alone.      *)
LEMMA CountNext == QueueInv /\ CountInv /\ [Next]_vars => CountInv'
<1> SUFFICES ASSUME QueueInv, CountInv, [Next]_vars PROVE CountInv'
  OBVIOUS
<1>1. TypeOK /\ TypeOK' /\ scanCount \in [Contents -> Nat] /\ seen \in [Procs -> Nat]
      /\ pc \in [Procs -> Busy \cup {"off", "idle", "served"}]
  BY TypeNext DEF QueueInv, TypeOK, Types
<1>2. CASE UNCHANGED vars
  BY <1>2 DEF vars, CountInv, HasRoom, UploadsOf, Credit, MayCount, Item
<1>3. CASE Next
  <2>1. content' = content /\ \A u \in Uploads : MayCount(u)' => MayCount(u)
    BY <1>3, NoCreditBack
  <2>2. \A c \in Contents : \A n \in Nat : HasRoom(c, n) => HasRoom(c, n)'
    BY <2>1, RoomKept
  <2>3. CASE /\ scanCount' = scanCount
             /\ \A p \in Procs : pc'[p] = "upsert" =>
                  pc[p] = "upsert" /\ seen'[p] = seen[p] /\ Item(p)' = Item(p)
    <3>1. \A c \in Contents : HasRoom(c, scanCount[c])'
      BY <1>1, <2>2, <2>3 DEF CountInv
    <3>2. ASSUME NEW p \in Procs, pc'[p] = "upsert" PROVE HasRoom(content[Item(p)], seen[p])'
      <4>1. /\ content[Item(p)] \in Contents /\ seen[p] \in Nat
            /\ HasRoom(content[Item(p)], seen[p])
        BY <1>1, <2>3, <3>2, ItemTyped DEF CountInv, Uncounted
      <4>2. content'[Item(p)'] = content[Item(p)] /\ seen'[p] = seen[p]
        BY <2>1, <2>3, <3>2
      <4>3. QED
        BY <2>2, <4>1, <4>2
    <3>3. QED
      BY <3>1, <3>2 DEF CountInv
  <2>4. ASSUME NEW p \in Procs, ReadSample(p) PROVE CountInv'
    <3>1. /\ scanCount' = scanCount /\ item' = item
          /\ seen' = [seen EXCEPT ![p] = scanCount[content[Item(p)]]]
          /\ pc[p] = "get" /\ pc' = [pc EXCEPT ![p] = "upsert"]
      BY <2>4 DEF ReadSample, dbVars, Goto
    <3>2. \A c \in Contents : HasRoom(c, scanCount[c])'
      BY <1>1, <2>2, <3>1 DEF CountInv
    <3>3. ASSUME NEW q \in Procs, pc'[q] = "upsert" PROVE HasRoom(content[Item(q)], seen[q])'
      <4>1. Item(q)' = Item(q) /\ content'[Item(q)'] = content[Item(q)]
        BY <2>1, <3>1 DEF Item
      <4>2. content[Item(q)] \in Contents
        BY <1>1, <3>1, <3>3, ItemTyped DEF Uncounted
      <4>3. CASE q = p
        BY <1>1, <2>2, <3>1, <4>1, <4>2, <4>3 DEF CountInv
      <4>4. CASE q # p
        BY <1>1, <2>2, <3>1, <3>3, <4>1, <4>2, <4>4 DEF CountInv
      <4>5. QED
        BY <4>3, <4>4
    <3>4. QED
      BY <3>2, <3>3 DEF CountInv
  <2>5. ASSUME NEW p \in Procs, UpsertSample(p) PROVE CountInv'
    <3>0. PICK u \in Uploads, d \in Contents, n \in Nat :
            u = Item(p) /\ d = content[u] /\ n = seen[p]
      BY <1>1, <2>5, ItemTyped DEF UpsertSample, Uncounted
    <3>1. /\ item' = item /\ pc[p] = "upsert"
          /\ scanCount' = [scanCount EXCEPT ![d] = n + 1]
          /\ seen' = [seen EXCEPT ![p] = 0]
          /\ pc'[p] # "upsert" /\ \A q \in Procs \ {p} : pc'[q] = pc[q]
      BY <1>1, <2>5, <3>0 DEF UpsertSample, Goto, Settle
    <3>2. HasRoom(d, n)
      BY <3>0, <3>1 DEF CountInv
    <3>3. HasRoom(d, n + 1)'
      BY <2>1, <2>5, <3>0, <3>2, CreditUsed, RoomMade
    <3>4. ASSUME NEW c \in Contents PROVE HasRoom(c, scanCount[c])'
      BY <1>1, <2>2, <3>1, <3>3 DEF CountInv
    <3>5. ASSUME NEW q \in Procs, pc'[q] = "upsert" PROVE HasRoom(content[Item(q)], seen[q])'
      <4>1. q # p /\ pc[q] = "upsert"
        BY <3>1, <3>5
      <4>2. seen'[q] = seen[q] /\ content'[Item(q)'] = content[Item(q)]
        BY <1>1, <2>1, <3>1, <4>1 DEF Item
      <4>3. content[Item(q)] \in Contents /\ seen[q] \in Nat
        BY <1>1, <4>1, ItemTyped DEF Uncounted
      <4>4. QED
        BY <2>2, <4>1, <4>2, <4>3 DEF CountInv
    <3>6. QED
      BY <3>4, <3>5 DEF CountInv
  <2>6. QED
    BY <1>3, <2>3, <2>4, <2>5, NoCreditBack
<1>4. QED
  BY <1>2, <1>3

(* No interleaving of uploads, retries, stale reads and kills counts a     *)
(* content more often than it was sent.                                    *)
THEOREM Counted == Spec => []CountedAtMostOnce
<1>1. TypeOK /\ CountInv => CountedAtMostOnce
  <2> SUFFICES ASSUME TypeOK, CountInv, NEW c \in Contents
               PROVE  scanCount[c] <= Cardinality(UploadsOf(c))
    BY DEF CountedAtMostOnce, UploadsOf
  <2>1. scanCount[c] \in Nat /\ HasRoom(c, scanCount[c])
    BY DEF TypeOK, Types, CountInv
  <2>2. QED
    BY <2>1, CreditFinite DEF HasRoom
<1>2. QED
  BY <1>1, CountInit, CountNext, QueueInvariant, TypeCorrect, PTL DEF Spec

-----------------------------------------------------------------------------
(* Order.  A job that waits was stamped before it became visible, and a    *)
(* worker's choice was stamped before anything that waits became visible:  *)
(* the queue was searched for the oldest, and what came later is younger.  *)
OrderInv ==
  /\ \A u \in Uploads : created[u] <= clock
  /\ \A u \in Queued : created[u] <= queuedAt[u]
  /\ \A w \in Workers : pc[w] = "claim" =>
       /\ status[item[w]] # "none"
       /\ \A u \in Queued : queuedAt[u] >= created[item[w]]

(* The clock only moves on, and a visible job keeps its stamp.             *)
LEMMA OrderNext == QueueInv /\ OrderInv /\ [Next]_vars => OrderInv'
<1> SUFFICES ASSUME QueueInv, OrderInv, [Next]_vars PROVE OrderInv'
  OBVIOUS
<1>1. TypeOK /\ NoRowBeforeAnswer
  BY DEF QueueInv
<1> USE <1>1, ScanQueueAssumption
    DEF TypeOK, Types, OrderInv, NoRowBeforeAnswer, Owns, Owning, Busy, Queued, Procs, dbVars,
        world, Goto, Item, Settle
<1>2. CASE UNCHANGED vars
  BY <1>2 DEF vars
<1>3. CASE Next
  <2>1. \A u \in Uploads : StageUpload(u) => OrderInv'
    BY DEF StageUpload
  <2>2. \A u \in Uploads : RejectUpload(u) => OrderInv'
    BY DEF RejectUpload
  <2>3. \A u \in Uploads : StampJob(u) => OrderInv'
    BY DEF StampJob
  <2>4. \A u \in Uploads : CommitJob(u) => OrderInv'
    BY DEF CommitJob
  <2>5. \A u \in Uploads : ScanInline(u) => OrderInv'
    BY DEF ScanInline
  <2>6. \A w \in Workers :
          StartWorker(w) \/ StopWorker(w) \/ BeginPass(w) \/ EndPass(w) => OrderInv'
    BY DEF StartWorker, StopWorker, Stop, BeginPass, EndPass
  <2>7. \A w \in Workers : SelectOldest(w) => OrderInv'
    BY DEF SelectOldest, Queued
  <2>8. \A w \in Workers : Claim(w) => OrderInv'
    BY DEF Claim
  <2>9. \A w \in Workers : LoseRace(w) => OrderInv'
    BY DEF LoseRace
  <2>9f. \A w \in Workers : FailClaim(w) => OrderInv'
    BY DEF FailClaim, Stop
  <2>10. \A p \in Procs : ScanFile(p) => OrderInv'
    BY DEF ScanFile
  <2>11. \A p \in Procs : ReadSample(p) => OrderInv'
    BY DEF ReadSample
  <2>12. \A p \in Procs : UpsertSample(p) => OrderInv'
    BY DEF UpsertSample
  <2>13. \A p \in Procs : FailUpsert(p) => OrderInv'
    BY DEF FailUpsert
  <2>14. \A p \in Procs : CheckQuarantine(p) => OrderInv'
    BY DEF CheckQuarantine
  <2>15. \A p \in Procs : WriteQuarantine(p) => OrderInv'
    BY DEF WriteQuarantine
  <2>16. \A p \in Procs : CopyToQuarantine(p) => OrderInv'
    BY DEF CopyToQuarantine
  <2>17. \A p \in Procs : RaiseInPipeline(p) => OrderInv'
    BY DEF RaiseInPipeline
  <2>18. \A w \in Workers : FinishJob(w) => OrderInv'
    BY DEF FinishJob
  <2>19. \A w \in Workers : FailFinish(w) => OrderInv'
    BY DEF FailFinish
  <2>20. \A p \in Procs : Unlink(p) => OrderInv'
    BY DEF Unlink
  <2>21. \A p \in Procs : Kill(p) => OrderInv'
    BY DEF Kill, Stop
  <2> HIDE DEF OrderInv
  <2>22. QED
    BY <1>3, <2>1, <2>2, <2>3, <2>4, <2>5, <2>6, <2>7, <2>8, <2>9, <2>9f, <2>10,
       <2>11, <2>12, <2>13, <2>14, <2>15, <2>16, <2>17, <2>18, <2>19, <2>20,
       <2>21, NextCases
<1>4. QED
  BY <1>2, <1>3

(* No job that was already visible still waits when a worker claims one    *)
(* that was stamped later, however claims, kills and enqueues interleave.  *)
THEOREM InOrder == Spec => NoOvertaking
<1>1. Init => OrderInv
  BY ScanQueueAssumption DEF Init, OrderInv, Queued, Procs
<1>2. OrderInv => \A w \in Workers : pc[w] = "claim" /\ Owns(w)' =>
                    \A u \in Queued : queuedAt[u] >= created[item[w]]
  BY DEF OrderInv
<1>3. QED
  BY <1>1, <1>2, OrderNext, QueueInvariant, PTL DEF Spec, NoOvertaking

-----------------------------------------------------------------------------
(* Refinement: CommitJob is Submit, Claim is Take, FinishJob is Complete;  *)
(* an exception out of run_job, or the end of its process, is Abandon.     *)
LEMMA AbstractInit == Init => Abstract!Init
  BY ScanQueueAssumption
  DEF Init, Abstract!Init, Queued, HeldBy, Orphaned, Owns, Owning, Terminal, Procs

(* The steps that change neither a job row nor who runs it.                *)
LEMMA AbstractStutter ==
  ASSUME TypeOK, TypeOK', UNCHANGED status,
         \A w \in Workers : HeldBy(w)' = HeldBy(w)
  PROVE  UNCHANGED Abstract!vars
  BY DEF Abstract!vars, Queued, Orphaned

(* A worker that stops owning its RUNNING job without a commit.            *)
LEMMA AbstractAbandon ==
  ASSUME QueueInv, UNCHANGED status, NEW w \in Workers, Owns(w),
         HeldBy(w)' = {},
         \A x \in Workers \ {w} : HeldBy(x)' = HeldBy(x)
  PROVE  Abstract!Abandon(w)
<1>1. item[w] \in Uploads /\ status[item[w]] = "RUNNING"
  BY DEF QueueInv, TypeOK, Types, ExclusiveJob, Owns, Owning, Busy
<1>2. HeldBy(w) = {item[w]}
  BY DEF HeldBy
<1>3. \A x \in Workers \ {w} : item[w] \notin HeldBy(x)
  BY DEF QueueInv, ExclusiveJob, HeldBy
<1>4. Orphaned' = Orphaned \cup {item[w]}
  BY <1>1, <1>2, <1>3 DEF Orphaned
<1>5. [x \in Workers |-> HeldBy(x)]'
        = [[x \in Workers |-> HeldBy(x)] EXCEPT ![w] = {}]
  OBVIOUS
<1>6. QED
  BY <1>2, <1>4, <1>5 DEF Abstract!Abandon, Queued

(* Every step of the service is a step of WorkQueue or a stutter.        *)
LEMMA AbstractNext == QueueInv /\ [Next]_vars => [Abstract!Next]_(Abstract!vars)
<1> SUFFICES ASSUME QueueInv, [Next]_vars PROVE [Abstract!Next]_(Abstract!vars)
  OBVIOUS
<1>1. TypeOK /\ TypeOK'
  BY TypeNext DEF QueueInv
<1> DEFINE Step == [Abstract!Next]_(Abstract!vars)
           Quiet == UNCHANGED status /\ \A w \in Workers : HeldBy(w)' = HeldBy(w)
           Drops(w) == /\ UNCHANGED status /\ Owns(w) /\ HeldBy(w)' = {}
                       /\ \A x \in Workers \ {w} : HeldBy(x)' = HeldBy(x)
<1>q. Quiet => Step
  BY <1>1, AbstractStutter
<1>d. ASSUME NEW w \in Workers, Drops(w) PROVE Step
  BY <1>d, AbstractAbandon DEF Abstract!Next
<1>t. /\ pc \in [Procs -> Busy \cup {"off", "idle", "served"}]
      /\ item \in [Workers -> Uploads \cup {None}]
      /\ status \in [Uploads -> {"none", "QUEUED", "RUNNING"} \cup Terminal]
      /\ \A w \in Workers : Owns(w) => item[w] \in Uploads
  BY DEF QueueInv, TypeOK, Types
<1>x. \A w \in Workers : Owns(w) =>
        /\ status[item[w]] = "RUNNING"
        /\ \A x \in Workers \ {w} : item[w] \notin HeldBy(x)
  BY DEF QueueInv, ExclusiveJob, HeldBy
<1> USE <1>t, ScanQueueAssumption DEF Procs
<1>2. CASE UNCHANGED vars
  <2>1. Quiet
    BY <1>2 DEF vars, HeldBy, Owns
  <2>2. QED
    BY <1>q, <2>1
<1>3. CASE Next
  <2>1. \A u \in Uploads : StageUpload(u) => Step
    <3>1. \A u \in Uploads : StageUpload(u) => Quiet
      BY DEF StageUpload, HeldBy, Owns, Owning, Goto, dbVars, world
    <3>2. QED
      BY <3>1, <1>q
  <2>2. \A u \in Uploads : RejectUpload(u) => Step
    <3>1. \A u \in Uploads : RejectUpload(u) => Quiet
      BY DEF RejectUpload, HeldBy, Owns, Owning, Goto, dbVars, world
    <3>2. QED
      BY <3>1, <1>q
  <2>3. \A u \in Uploads : StampJob(u) => Step
    <3>1. \A u \in Uploads : StampJob(u) => Quiet
      BY DEF StampJob, HeldBy, Owns, Owning, Goto, dbVars, world
    <3>2. QED
      BY <3>1, <1>q
  <2>4. \A u \in Uploads : CommitJob(u) => Step
    <3> SUFFICES ASSUME NEW u \in Uploads, CommitJob(u) PROVE Abstract!Submit(u)
      BY DEF Abstract!Next
    <3>1. status[u] = "none" /\ \A w \in Workers : HeldBy(w)' = HeldBy(w)
      BY DEF CommitJob, QueueInv, NoRowBeforeAnswer, HeldBy, Owns, Owning, Goto, dbVars, world
    <3>2. \A w \in Workers : u \notin HeldBy(w)
      BY <3>1, <1>x DEF HeldBy
    <3>3. u \notin Abstract!Known
      BY <3>1, <3>2 DEF Abstract!Known, Abstract!Taken, Queued, Orphaned, Terminal
    <3>4. status' = [status EXCEPT ![u] = "QUEUED"]
      BY DEF CommitJob
    <3>5. Queued' = Queued \cup {u}
      BY <3>4 DEF Queued
    <3>6. /\ UNCHANGED <<[w \in Workers |-> HeldBy(w)], Orphaned>>
          /\ UNCHANGED {v \in Uploads : status[v] \in Terminal}
      BY <3>1, <3>4 DEF Orphaned, Terminal
    <3>7. QED
      BY <3>3, <3>5, <3>6 DEF Abstract!Submit
  <2>5. \A u \in Uploads : ScanInline(u) => Step
    <3>1. \A u \in Uploads : ScanInline(u) => Quiet
      BY DEF ScanInline, HeldBy, Owns, Owning, Goto, dbVars, world
    <3>2. QED
      BY <3>1, <1>q
  <2>6. \A w \in Workers :
          StartWorker(w) \/ StopWorker(w) \/ BeginPass(w) \/ EndPass(w) => Step
    <3>1. \A w \in Workers :
            StartWorker(w) \/ StopWorker(w) \/ BeginPass(w) \/ EndPass(w) => Quiet
      BY DEF StartWorker, StopWorker, Stop, BeginPass, EndPass, HeldBy, Owns, Owning,
             Goto, dbVars, world
    <3>2. QED
      BY <3>1, <1>q
  <2>7. \A w \in Workers : SelectOldest(w) => Step
    <3>1. \A w \in Workers : SelectOldest(w) => Quiet
      BY DEF SelectOldest, HeldBy, Owns, Owning, Goto, dbVars, world
    <3>2. QED
      BY <3>1, <1>q
  <2>8. \A w \in Workers : Claim(w) => Step
    <3> SUFFICES ASSUME NEW w \in Workers, Claim(w)
                 PROVE  item[w] \in Uploads /\ Abstract!Take(w, item[w])
      BY DEF Abstract!Next
    <3>1. /\ item[w] \in Uploads /\ status[item[w]] = "QUEUED"
          /\ status' = [status EXCEPT ![item[w]] = "RUNNING"]
    <4>1. item[w] # None
      BY DEF Claim, QueueInv, TypeOK
    <4>2. QED
      BY <4>1 DEF Claim
    <3>2. /\ HeldBy(w) = {} /\ HeldBy(w)' = {item[w]}
          /\ \A x \in Workers \ {w} : HeldBy(x)' = HeldBy(x)
      BY DEF Claim, HeldBy, Owns, Owning, Goto, dbVars, world
    <3>3. Queued' = Queued \ {item[w]} /\ item[w] \in Queued
      BY <3>1 DEF Queued
    <3>4. UNCHANGED {v \in Uploads : status[v] \in Terminal}
      BY <3>1 DEF Terminal
    <3>5. UNCHANGED Orphaned
      BY <3>1, <3>2 DEF Orphaned
    <3>6. [x \in Workers |-> HeldBy(x)]'
            = [[x \in Workers |-> HeldBy(x)] EXCEPT ![w] = {item[w]}]
      BY <3>2
    <3>7. QED
      BY <3>1, <3>2, <3>3, <3>4, <3>5, <3>6 DEF Abstract!Take
  <2>9. \A w \in Workers : LoseRace(w) => Step
    <3>1. \A w \in Workers : LoseRace(w) => Quiet
      BY DEF LoseRace, HeldBy, Owns, Owning, Goto, dbVars, world
    <3>2. QED
      BY <3>1, <1>q
  <2>9f. \A w \in Workers : FailClaim(w) => Step
    <3>1. \A w \in Workers : FailClaim(w) => Quiet \/ (w \in Workers /\ Drops(w))
      BY DEF FailClaim, HeldBy, Owns, Owning, Goto, dbVars, world
    <3>2. QED
      BY <3>1, <1>q, <1>d
  <2>10. \A p \in Procs : ScanFile(p) => Step
    <3>1. \A p \in Procs : ScanFile(p) => Quiet
      BY DEF ScanFile, Settle, HeldBy, Owns, Owning, Goto, dbVars, world
    <3>2. QED
      BY <3>1, <1>q
  <2>11. \A p \in Procs : ReadSample(p) => Step
    <3>1. \A p \in Procs : ReadSample(p) => Quiet
      BY DEF ReadSample, HeldBy, Owns, Owning, Goto, dbVars, world
    <3>2. QED
      BY <3>1, <1>q
  <2>12. \A p \in Procs : UpsertSample(p) => Step
    <3>1. \A p \in Procs : UpsertSample(p) => Quiet
      BY DEF UpsertSample, HeldBy, Owns, Owning, Goto, dbVars, world, Settle
    <3>2. QED
      BY <3>1, <1>q
  <2>13. \A p \in Procs : FailUpsert(p) => Step
    <3>1. \A u \in Uploads : FailUpsert(u) => Quiet
      BY DEF FailUpsert, HeldBy, Owns, Owning, Goto, dbVars, world
    <3>2. ASSUME NEW w \in Workers, FailUpsert(w) PROVE Quiet \/ Drops(w)
      <4>1. UNCHANGED status /\ \A x \in Workers \ {w} : HeldBy(x)' = HeldBy(x)
        BY <3>2 DEF FailUpsert, HeldBy, Owns, Owning, Goto, dbVars, world
      <4>2. HeldBy(w)' = {}
        BY <3>2 DEF FailUpsert, HeldBy, Owns, Owning, Goto
      <4>3. HeldBy(w) = {} \/ Owns(w)
        BY DEF HeldBy
      <4>4. QED
        BY <4>1, <4>2, <4>3
    <3>3. QED
      BY <3>1, <3>2, <1>q, <1>d
  <2>14. \A p \in Procs : CheckQuarantine(p) => Step
    <3>1. \A p \in Procs : CheckQuarantine(p) => Quiet
      BY DEF CheckQuarantine, HeldBy, Owns, Owning, Goto, dbVars, world, Settle
    <3>2. QED
      BY <3>1, <1>q
  <2>15. \A p \in Procs : WriteQuarantine(p) => Step
    <3>1. \A p \in Procs : WriteQuarantine(p) => Quiet
      BY DEF WriteQuarantine, HeldBy, Owns, Owning, Goto, dbVars, world, Settle
    <3>2. QED
      BY <3>1, <1>q
  <2>16. \A p \in Procs : CopyToQuarantine(p) => Step
    <3>1. \A p \in Procs : CopyToQuarantine(p) => Quiet
      BY DEF CopyToQuarantine, HeldBy, Owns, Owning, Goto, dbVars, world, Settle
    <3>2. QED
      BY <3>1, <1>q
  <2>17. \A p \in Procs : RaiseInPipeline(p) => Step
    <3>1. \A p \in Procs : RaiseInPipeline(p) => Quiet
      BY DEF RaiseInPipeline, HeldBy, Owns, Owning, Goto, dbVars, world, Settle
    <3>2. QED
      BY <3>1, <1>q
  <2>18. \A w \in Workers : FinishJob(w) => Step
    <3> SUFFICES ASSUME NEW w \in Workers, FinishJob(w) PROVE Abstract!Complete(w)
      BY DEF Abstract!Next
    <3>1. PICK s \in Terminal : status' = [status EXCEPT ![item[w]] = s]
      BY DEF FinishJob, Terminal
    <3>2. item[w] \in Uploads /\ status[item[w]] = "RUNNING"
      BY <1>x DEF FinishJob, Owns, Owning
    <3>3. /\ HeldBy(w) = {item[w]} /\ HeldBy(w)' = {}
          /\ \A x \in Workers \ {w} : HeldBy(x)' = HeldBy(x)
      BY DEF FinishJob, HeldBy, Owns, Owning, Goto, dbVars, world
    <3>4. {v \in Uploads : status[v] \in Terminal}'
            = {v \in Uploads : status[v] \in Terminal} \cup {item[w]}
      BY <3>1, <3>2
    <3>5. UNCHANGED Queued
      BY <3>1, <3>2 DEF Queued, Terminal
    <3>6. UNCHANGED Orphaned
      BY <3>1, <3>2, <3>3 DEF Orphaned, Terminal
    <3>7. [x \in Workers |-> HeldBy(x)]'
            = [[x \in Workers |-> HeldBy(x)] EXCEPT ![w] = {}]
      BY <3>3
    <3>8. QED
      BY <3>3, <3>4, <3>5, <3>6, <3>7 DEF Abstract!Complete
  <2>19. \A w \in Workers : FailFinish(w) => Step
    <3>1. \A w \in Workers : FailFinish(w) => Quiet \/ (w \in Workers /\ Drops(w))
      BY DEF FailFinish, HeldBy, Owns, Owning, Goto, dbVars, world
    <3>2. QED
      BY <3>1, <1>q, <1>d
  <2>20. \A p \in Procs : Unlink(p) => Step
    <3>1. \A p \in Procs : Unlink(p) => Quiet
      BY DEF Unlink, HeldBy, Owns, Owning, Goto, dbVars, world
    <3>2. QED
      BY <3>1, <1>q
  <2>21. \A p \in Procs : Kill(p) => Step
    <3>1. \A u \in Uploads : Kill(u) => Quiet
      BY DEF Kill, HeldBy, Owns, Owning, Goto, dbVars, world
    <3>2. ASSUME NEW w \in Workers, Kill(w) PROVE Quiet \/ Drops(w)
      <4>1. UNCHANGED status /\ \A x \in Workers \ {w} : HeldBy(x)' = HeldBy(x)
        BY <3>2 DEF Kill, HeldBy, Owns, Owning, Goto, dbVars, world
      <4>2. HeldBy(w)' = {}
        BY <3>2 DEF Kill, HeldBy, Owns, Owning, Goto
      <4>3. HeldBy(w) = {} \/ Owns(w)
        BY DEF HeldBy
      <4>4. QED
        BY <4>1, <4>2, <4>3
    <3>3. QED
      BY <3>1, <3>2, <1>q, <1>d
  <2> HIDE DEF Step
  <2>22. Step
    BY <1>3, <2>1, <2>2, <2>3, <2>4, <2>5, <2>6, <2>7, <2>8, <2>9, <2>9f, <2>10,
       <2>11, <2>12, <2>13, <2>14, <2>15, <2>16, <2>17, <2>18, <2>19, <2>20,
       <2>21, NextCases
  <2>23. QED
    BY <2>22 DEF Step
<1>4. QED
  BY <1>2, <1>3

(* The conditional UPDATE implements the promised queue, for any number of *)
(* workers and jobs: one worker and at most one outcome per job.           *)
THEOREM QueueImplemented == Spec => ImplementsWorkQueue
<1>1. Spec => Abstract!Init /\ [][Abstract!Next]_(Abstract!vars)
  BY AbstractInit, AbstractNext, QueueInvariant, PTL DEF Spec
<1>2. QED
  BY <1>1 DEF ImplementsWorkQueue, Abstract!Spec
=============================================================================
