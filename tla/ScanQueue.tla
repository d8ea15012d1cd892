------------------------------ MODULE ScanQueue ------------------------------
(***************************************************************************)
(* The scan service: uploads, the deferred queue and its workers.          *)
(*                                                                         *)
(* POST /v1/scan stages the upload.  A small one is scanned by the request *)
(* itself; a large one becomes a row of scan_jobs and a ScanWorker, in the *)
(* API process or standalone, claims it later.  Requests and workers run   *)
(* the same pipeline: scan, upsert the sample in the corpus, copy a        *)
(* detected sample to quarantine, delete the staged file.  A worker also   *)
(* records the outcome in the job row, before the deletion.                *)
(*                                                                         *)
(* The processes are the workers and the requests; the request of upload u *)
(* is the process u.  A step is what one process does between two points   *)
(* where another can see or change the shared state: a database            *)
(* transaction, a quarantine or a staging file operation.                  *)
(***************************************************************************)
EXTENDS Naturals, FiniteSets

CONSTANTS
  Workers,   \* ScanWorker threads, over all processes and containers
  Uploads,   \* uploads, each with its request and, when large, its job row
  Contents,  \* distinct file contents, named by SHA-256
  None,      \* "no upload"
  MayFault,  \* scan_file, the database or the quarantine may raise
  MaxStops   \* bound: how often a process is stopped, killed or refused a claim

ASSUME ScanQueueAssumption ==
  /\ Workers \cap Uploads = {}
  /\ None \notin Uploads
  /\ IsFiniteSet(Uploads)
  /\ MayFault \in BOOLEAN /\ MaxStops \in Nat

Procs == Workers \cup Uploads

VARIABLES
  \* the database
  status,      \* scan_jobs.status of the upload's job, "none" without a row
  created,     \* scan_jobs.created_at
  queuedAt,    \* history: the clock when the job row became visible
  verdict,     \* scan_jobs.verdict
  corpus,      \* samples.verdict of the content, "none" without a row
  scanCount,   \* samples.scan_count
  \* the file system and the object store
  staged,      \* uploads whose file is in the staging directory
  quarantine,  \* state of the content's quarantine file
  \* the world
  clock,       \* datetime.now, at the resolution that created_at can tell
  content,     \* content[u]: what the client of u sends
  store,       \* the quarantine of this deployment: "local" or "s3"
  stops,       \* history: how often a process was stopped, killed or refused
  \* the processes
  pc,          \* what the process does next
  item,        \* item[w]: the job in the hands of worker w
  seen,        \* scan_count read by persist_sample, 0 when no row was found
  outcome      \* verdict of the running scan, or "FAILED" once it raised

dbVars    == <<status, created, queuedAt, verdict, corpus, scanCount>>
world     == <<content, store, stops>>
procVars  == <<pc, item, seen, outcome>>
vars == <<status, created, queuedAt, verdict, corpus, scanCount, staged,
          quarantine, clock, content, store, stops, pc, item, seen, outcome>>

Verdicts == {"CLEAN", "FLAGGED"}  \* FLAGGED: SUSPICIOUS or MALICIOUS

\* Steps of run_job at which the worker owns the job it claimed.
Owning == {"scan", "get", "upsert", "put", "write", "copy", "finish"}

\* Steps at which a request or a worker has something to lose.
Busy == Owning \cup {"select", "claim", "staging", "commit", "unlink"}

Item(p) == IF p \in Uploads THEN p ELSE item[p]

Queued == {u \in Uploads : status[u] = "QUEUED"}

Init ==
  /\ status = [u \in Uploads |-> "none"]
  /\ created = [u \in Uploads |-> 0]
  /\ queuedAt = [u \in Uploads |-> 0]
  /\ verdict = [u \in Uploads |-> "none"]
  /\ corpus = [c \in Contents |-> "none"]
  /\ scanCount = [c \in Contents |-> 0]
  /\ staged = {}
  /\ quarantine = [c \in Contents |-> "absent"]
  /\ clock = 0
  /\ content \in [Uploads -> Contents]
  /\ store \in {"local", "s3"}
  /\ stops = 0
  /\ pc = [p \in Procs |-> IF p \in Workers THEN "off" ELSE "idle"]
  /\ item = [w \in Workers |-> None]
  /\ seen = [p \in Procs |-> 0]
  /\ outcome = [p \in Procs |-> "none"]

Goto(p, to) == pc' = [pc EXCEPT ![p] = to]

Stop == stops < MaxStops /\ stops' = stops + 1

-----------------------------------------------------------------------------
(* Seeded bugs.  Each is an action or a helper below with one mistake, the *)
(* kind a change of jobs.py could make; replacing the original by it must  *)
(* break a property.  They are not part of the specification.              *)

\* The UPDATE loses its AND status = 'QUEUED'.
Claim_Unconditional(w) ==
  /\ pc[w] = "claim"
  /\ status' = [status EXCEPT ![item[w]] = "RUNNING"]
  /\ Goto(w, "scan")
  /\ UNCHANGED <<created, queuedAt, verdict, corpus, scanCount, staged,
                 quarantine, clock, world, item, seen, outcome>>

\* The test of rowcount is missing: the loser runs the job too.
LoseRace_RunsAnyway(w) ==
  /\ pc[w] = "claim"
  /\ status[item[w]] # "QUEUED"
  /\ Goto(w, "scan")
  /\ UNCHANGED <<dbVars, item, staged, quarantine, clock, world, seen, outcome>>

\* No ORDER BY.
SelectOldest_AnyOrder(w) ==
  /\ pc[w] = "select"
  /\ \E u \in Queued : item' = [item EXCEPT ![w] = u]
  /\ Goto(w, "claim")
  /\ UNCHANGED <<dbVars, staged, quarantine, clock, world, seen, outcome>>

\* No WHERE status = 'QUEUED': the oldest job of all.
SelectOldest_AnyStatus(w) ==
  /\ pc[w] = "select"
  /\ \E u \in {v \in Uploads : status[v] # "none"} :
       /\ \A v \in Uploads : status[v] # "none" => created[u] <= created[v]
       /\ item' = [item EXCEPT ![w] = u]
  /\ Goto(w, "claim")
  /\ UNCHANGED <<dbVars, staged, quarantine, clock, world, seen, outcome>>

\* The staged file is deleted before the outcome is recorded.
Settle_UnlinkFirst(p) == "unlink"

\* The except clause logs a failed scan and goes on.
ScanFile_GoesOn(p) ==
  /\ pc[p] = "scan"
  /\ \E r \in Verdicts \cup {"FAILED"} : outcome' = [outcome EXCEPT ![p] = r]
  /\ Goto(p, "get")
  /\ UNCHANGED <<dbVars, staged, quarantine, clock, world, item, seen>>

\* The quarantine copy becomes "best effort".
RaiseInPipeline_Swallowed(p) ==
  /\ MayFault
  /\ pc[p] \in {"get", "put", "write", "copy"}
  /\ Goto(p, IF p \in Workers THEN "finish" ELSE "unlink")
  /\ UNCHANGED <<dbVars, staged, quarantine, clock, world, item, seen, outcome>>

-----------------------------------------------------------------------------
(* The request: stage the upload, then answer 4xx, 202 or 200.             *)

StageUpload(u) ==
  /\ pc[u] = "idle"
  /\ staged' = staged \cup {u}
  /\ Goto(u, "staging")
  /\ UNCHANGED <<dbVars, quarantine, clock, world, item, seen, outcome>>

\* 413 over the size cap, 422 for an empty file; the client may try again.
RejectUpload(u) ==
  /\ pc[u] = "staging"
  /\ staged' = staged \ {u}
  /\ Goto(u, "idle")
  /\ UNCHANGED <<dbVars, quarantine, clock, world, item, seen, outcome>>

\* enqueue stamps created_at when the row is flushed.  Time may pass before,
\* so two jobs may or may not have the same created_at.
StampJob(u) ==
  /\ pc[u] = "staging"
  /\ \E now \in {clock, clock + 1} :
       /\ clock' = now
       /\ created' = [created EXCEPT ![u] = now]
  /\ Goto(u, "commit")
  /\ UNCHANGED <<status, queuedAt, verdict, corpus, scanCount, staged,
                 quarantine, world, item, seen, outcome>>

\* 202: the commit makes the row visible, maybe after that of a later job.
CommitJob(u) ==
  /\ pc[u] = "commit"
  /\ status' = [status EXCEPT ![u] = "QUEUED"]
  /\ queuedAt' = [queuedAt EXCEPT ![u] = clock]
  /\ Goto(u, "served")
  /\ UNCHANGED <<created, verdict, corpus, scanCount, staged, quarantine, clock,
                 world, item, seen, outcome>>

\* 200: at or under async_scan_threshold_bytes the request scans the file.
ScanInline(u) ==
  /\ pc[u] = "staging"
  /\ Goto(u, "scan")
  /\ UNCHANGED <<dbVars, staged, quarantine, clock, world, item, seen, outcome>>

-----------------------------------------------------------------------------
(* claim_next, called by drain_once until it returns None.                 *)

\* ScanWorker.start, or the container's restart.
StartWorker(w) ==
  /\ pc[w] = "off"
  /\ Goto(w, "idle")
  /\ UNCHANGED <<dbVars, staged, quarantine, clock, world, item, seen, outcome>>

\* The loop sees the stop event between two passes.
StopWorker(w) ==
  /\ Stop
  /\ pc[w] = "idle"
  /\ Goto(w, "off")
  /\ UNCHANGED <<dbVars, staged, quarantine, clock, content, store, item, seen,
                 outcome>>

BeginPass(w) ==
  /\ pc[w] = "idle"
  /\ Goto(w, "select")
  /\ UNCHANGED <<dbVars, staged, quarantine, clock, world, item, seen, outcome>>

\* SELECT ... WHERE status = 'QUEUED' ORDER BY created_at LIMIT 1
SelectOldest(w) ==
  /\ pc[w] = "select"
  /\ \E u \in Queued :
       /\ \A v \in Queued : created[u] <= created[v]
       /\ item' = [item EXCEPT ![w] = u]
  /\ Goto(w, "claim")
  /\ UNCHANGED <<dbVars, staged, quarantine, clock, world, seen, outcome>>

EndPass(w) ==
  /\ pc[w] = "select"
  /\ Queued = {}
  /\ Goto(w, "idle")
  /\ UNCHANGED <<dbVars, staged, quarantine, clock, world, item, seen, outcome>>

\* UPDATE ... SET status = 'RUNNING' WHERE id = ... AND status = 'QUEUED'
Claim(w) ==
  /\ pc[w] = "claim"
  /\ status[item[w]] = "QUEUED"
  /\ status' = [status EXCEPT ![item[w]] = "RUNNING"]
  /\ Goto(w, "scan")
  /\ UNCHANGED <<created, queuedAt, verdict, corpus, scanCount, staged, quarantine,
                 clock, world, item, seen, outcome>>

\* rowcount 0: claim_next returns None, which ends the pass.
LoseRace(w) ==
  /\ pc[w] = "claim"
  /\ status[item[w]] # "QUEUED"
  /\ item' = [item EXCEPT ![w] = None]
  /\ Goto(w, "idle")
  /\ UNCHANGED <<dbVars, staged, quarantine, clock, world, seen, outcome>>

\* claim_next raises: its SELECT, its UPDATE, or the refresh that follows the
\* commit, when the row is RUNNING and nobody will run it.  The loop logs the
\* error and goes on.  MaxStops bounds these too: a database that refused for
\* ever would leave every job in the queue.
FailClaim(w) ==
  /\ MayFault /\ Stop
  /\ pc[w] \in {"select", "claim", "scan"}
  /\ item' = [item EXCEPT ![w] = None]
  /\ Goto(w, "idle")
  /\ UNCHANGED <<dbVars, staged, quarantine, clock, content, store, seen, outcome>>

-----------------------------------------------------------------------------
(* run_job and the inline scan: the same steps, with different endings.    *)

\* Where a process goes when its try block is over: run_job records the
\* outcome in the job row, the request only deletes the staged file.
Settle(p) == IF p \in Workers THEN "finish" ELSE "unlink"

ScanResults(p) ==
  IF Item(p) \in staged
    THEN Verdicts \cup (IF MayFault THEN {"FAILED"} ELSE {})
    ELSE {"FAILED"}

\* engine.scan_file: the verdict depends on the content and on the signature
\* base of the moment, so two scans of one content may differ.
ScanFile(p) ==
  /\ pc[p] = "scan"
  /\ \E r \in ScanResults(p) :
       /\ outcome' = [outcome EXCEPT ![p] = r]
       /\ Goto(p, IF r = "FAILED" THEN Settle(p) ELSE "get")
  /\ UNCHANGED <<dbVars, staged, quarantine, clock, world, item, seen>>

\* persist_sample: db.get
ReadSample(p) ==
  /\ pc[p] = "get"
  /\ seen' = [seen EXCEPT ![p] = scanCount[content[Item(p)]]]
  /\ Goto(p, "upsert")
  /\ UNCHANGED <<dbVars, staged, quarantine, clock, world, item, outcome>>

\* persist_sample: the commit of an update, or of an insert that finds no
\* row.  scan_count + 1 was computed from the value that db.get returned.
UpsertSample(p) ==
  LET c == content[Item(p)] IN
  /\ pc[p] = "upsert"
  /\ seen[p] > 0 \/ scanCount[c] = 0
  /\ corpus' = [corpus EXCEPT ![c] = outcome[p]]
  /\ scanCount' = [scanCount EXCEPT ![c] = seen[p] + 1]
  /\ seen' = [seen EXCEPT ![p] = 0]
  /\ Goto(p, IF outcome[p] = "CLEAN" THEN Settle(p) ELSE "put")
  /\ UNCHANGED <<status, created, queuedAt, verdict, staged, quarantine, clock, world,
                 item, outcome>>

\* The flush of persist_sample fails: two inserts of one primary key, or the
\* database refuses.  The session then rejects every statement until it is
\* rolled back, which nobody does: in run_job the handler's own commit raises
\* too, so the job row stays RUNNING and the staged file stays.  The worker's
\* loop logs the exception and goes on.  The request deletes its file, 500.
FailUpsert(p) ==
  /\ pc[p] = "upsert"
  /\ MayFault \/ (seen[p] = 0 /\ scanCount[content[Item(p)]] > 0)
  /\ seen' = [seen EXCEPT ![p] = 0]
  /\ IF p \in Workers
       THEN /\ Goto(p, "idle")
            /\ item' = [item EXCEPT ![p] = None]
            /\ outcome' = [outcome EXCEPT ![p] = "none"]
       ELSE /\ Goto(p, "unlink")
            /\ outcome' = [outcome EXCEPT ![p] = "FAILED"]
            /\ UNCHANGED item
  /\ UNCHANGED <<dbVars, staged, quarantine, clock, world>>

\* QuarantineStore.put: nothing to do when the hash is already there.
CheckQuarantine(p) ==
  /\ pc[p] = "put"
  /\ Goto(p, IF quarantine[content[Item(p)]] = "absent" THEN "write"
                                                        ELSE Settle(p))
  /\ UNCHANGED <<dbVars, staged, quarantine, clock, world, item, seen, outcome>>

\* An S3 upload appears at once; write_bytes first truncates the target.
WriteQuarantine(p) ==
  /\ pc[p] = "write"
  /\ quarantine' = [quarantine EXCEPT ![content[Item(p)]] =
                      IF store = "s3" THEN "whole" ELSE "partial"]
  /\ Goto(p, IF store = "s3" THEN Settle(p) ELSE "copy")
  /\ UNCHANGED <<dbVars, staged, clock, world, item, seen, outcome>>

CopyToQuarantine(p) ==
  /\ pc[p] = "copy"
  /\ quarantine' = [quarantine EXCEPT ![content[Item(p)]] = "whole"]
  /\ Goto(p, Settle(p))
  /\ UNCHANGED <<dbVars, staged, clock, world, item, seen, outcome>>

\* db.get or the quarantine raises: the except clause of run_job turns it
\* into FAILED, the request answers 500.
RaiseInPipeline(p) ==
  /\ MayFault
  /\ pc[p] \in {"get", "put", "write", "copy"}
  /\ outcome' = [outcome EXCEPT ![p] = "FAILED"]
  /\ Goto(p, Settle(p))
  /\ UNCHANGED <<dbVars, staged, quarantine, clock, world, item, seen>>

\* The commit in run_job's finally clause.
FinishJob(w) ==
  LET u == item[w] IN
  /\ pc[w] = "finish"
  /\ status' = [status EXCEPT ![u] =
                  IF outcome[w] = "FAILED" THEN "FAILED" ELSE "DONE"]
  /\ verdict' = [verdict EXCEPT ![u] =
                  IF outcome[w] = "FAILED" THEN @ ELSE outcome[w]]
  /\ Goto(w, "unlink")
  /\ UNCHANGED <<created, queuedAt, corpus, scanCount, staged, quarantine, clock,
                 world, item, seen, outcome>>

\* That commit raises: run_job does not reach the unlink.
FailFinish(w) ==
  /\ MayFault
  /\ pc[w] = "finish"
  /\ item' = [item EXCEPT ![w] = None]
  /\ outcome' = [outcome EXCEPT ![w] = "none"]
  /\ Goto(w, "idle")
  /\ UNCHANGED <<dbVars, staged, quarantine, clock, world, seen>>

\* staged.unlink(missing_ok=True); a worker then looks for another job.
Unlink(p) ==
  /\ pc[p] = "unlink"
  /\ staged' = staged \ {Item(p)}
  /\ outcome' = [outcome EXCEPT ![p] = "none"]
  /\ IF p \in Workers
       THEN item' = [item EXCEPT ![p] = None] /\ Goto(p, "select")
       ELSE UNCHANGED item /\ Goto(p, "served")
  /\ UNCHANGED <<dbVars, quarantine, clock, world, seen>>

\* The process dies: kill, power cut, or stop() giving up on the thread.
Kill(p) ==
  /\ Stop
  /\ pc[p] \in Busy
  /\ Goto(p, IF p \in Workers THEN "off" ELSE "served")
  /\ item' = IF p \in Workers THEN [item EXCEPT ![p] = None] ELSE item
  /\ seen' = [seen EXCEPT ![p] = 0]
  /\ outcome' = [outcome EXCEPT ![p] = "none"]
  /\ UNCHANGED <<dbVars, staged, quarantine, clock, content, store>>

-----------------------------------------------------------------------------
Request(u) ==
  \/ StageUpload(u) \/ RejectUpload(u)
  \/ StampJob(u) \/ CommitJob(u) \/ ScanInline(u)

Poll(w) ==
  \/ StartWorker(w) \/ BeginPass(w) \/ EndPass(w)
  \/ SelectOldest(w) \/ Claim(w) \/ LoseRace(w)

Pipeline(p) ==
  \/ ScanFile(p) \/ ReadSample(p) \/ UpsertSample(p) \/ FailUpsert(p)
  \/ CheckQuarantine(p) \/ WriteQuarantine(p) \/ CopyToQuarantine(p)
  \/ RaiseInPipeline(p) \/ Unlink(p)

Record(w) == FinishJob(w) \/ FailFinish(w)

Next ==
  \/ \E u \in Uploads : Request(u)
  \/ \E w \in Workers : Poll(w) \/ StopWorker(w) \/ FailClaim(w) \/ Record(w)
  \/ \E p \in Procs : Pipeline(p) \/ Kill(p)

Spec == Init /\ [][Next]_vars

(* The operating system schedules every worker's thread, and a stopped     *)
(* worker is started again; requests owe us nothing.                       *)
Fairness == \A w \in Workers : WF_vars(Poll(w) \/ Pipeline(w) \/ Record(w))

FairSpec == Spec /\ Fairness

-----------------------------------------------------------------------------
Terminal == {"DONE", "FAILED"}
Owns(w) == pc[w] \in Owning

Types ==
  /\ status \in [Uploads -> {"none", "QUEUED", "RUNNING"} \cup Terminal]
  /\ created \in [Uploads -> Nat] /\ queuedAt \in [Uploads -> Nat]
  /\ clock \in Nat
  /\ verdict \in [Uploads -> Verdicts \cup {"none"}]
  /\ corpus \in [Contents -> Verdicts \cup {"none"}]
  /\ scanCount \in [Contents -> Nat]
  /\ staged \subseteq Uploads
  /\ quarantine \in [Contents -> {"absent", "partial", "whole"}]
  /\ content \in [Uploads -> Contents]
  /\ store \in {"local", "s3"} /\ stops \in Nat
  /\ pc \in [Procs -> Busy \cup {"off", "idle", "served"}]
  /\ item \in [Workers -> Uploads \cup {None}]
  /\ seen \in [Procs -> Nat]
  /\ outcome \in [Procs -> Verdicts \cup {"none", "FAILED"}]

(* The values of the variables, and what a process holds at each step: a   *)
(* worker has an item from its SELECT to its unlink, and a process has a   *)
(* verdict from its scan to the end of its pipeline.                       *)
TypeOK ==
  /\ Types
  /\ \A w \in Workers :
       /\ pc[w] \notin {"staging", "commit", "served"}
       /\ (item[w] # None) <=> (Owns(w) \/ pc[w] \in {"claim", "unlink"})
  /\ \A u \in Uploads : pc[u] \notin {"off", "select", "claim", "finish"}
  /\ \A p \in Procs :
       /\ pc[p] \in {"get", "upsert", "put", "write", "copy"}
            => outcome[p] \in Verdicts
       /\ pc[p] = "finish" => outcome[p] # "none"

(* The staged file is the only copy of a large upload until its job has an *)
(* outcome: whatever fails or dies, a job that may still have to be        *)
(* scanned has its file (run_job unlinks after the commit).                *)
StagedUntilTerminal ==
  \A u \in Uploads : status[u] \in {"QUEUED", "RUNNING"} => u \in staged

(* What QuarantineStore.put leaves when it returns: a file, and with       *)
(* object storage the whole sample.                                        *)
InQuarantine(c) ==
  /\ quarantine[c] # "absent"
  /\ store = "s3" => quarantine[c] = "whole"

(* A DONE job tells the truth: its content is in the corpus, and when the  *)
(* job says "detected" the quarantine has the sample, over races, faults   *)
(* and crashes in the middle of a write.                                   *)
DoneIsBacked ==
  \A u \in Uploads : status[u] = "DONE" =>
    /\ corpus[content[u]] # "none"
    /\ verdict[u] = "FLAGGED" => InQuarantine(content[u])

(* No upload is counted twice in samples.scan_count: over claims, retries  *)
(* and crashes, a content has at most one scan per upload of it.           *)
CountedAtMostOnce ==
  \A c \in Contents : scanCount[c] <= Cardinality({u \in Uploads : content[u] = c})

(* claim_next orders by created_at, and that is what keeps a job from      *)
(* starving under load: no worker claims a job stamped after another one   *)
(* was already visible in the queue, while that other one still waits.     *)
NoOvertaking ==
  [][\A w \in Workers : pc[w] = "claim" /\ Owns(w)' =>
       \A u \in Queued : queuedAt[u] >= created[item[w]]]_vars

(* Every queued job is claimed: a lost race or an exception in one job     *)
(* never stops the worker's loop (jobs.py:185, "never let the worker       *)
(* thread die"), and a stopped one starts again.                           *)
EveryJobClaimed ==
  \A u \in Uploads : status[u] = "QUEUED" ~> status[u] # "QUEUED"

(* run_job is documented as "recording success or failure" (jobs.py:87),   *)
(* and SECURITE.md:93-94 as marking a job that fails FAILED: a RUNNING job *)
(* always has a worker.                                                    *)
RunningHasWorker ==
  \A u \in Uploads : status[u] = "RUNNING" => \E w \in Workers : Owns(w) /\ item[w] = u

-----------------------------------------------------------------------------
(* The queue promised by WorkQueue: pending are the QUEUED rows, a worker  *)
(* holds a job from its claim to its commit, and a job is abandoned when   *)
(* it is RUNNING in the table and in nobody's hands.                       *)
HeldBy(w) == IF Owns(w) THEN {item[w]} ELSE {}

Orphaned ==
  {u \in Uploads : status[u] = "RUNNING" /\ \A w \in Workers : u \notin HeldBy(w)}

Abstract == INSTANCE WorkQueue WITH
  Jobs <- Uploads,
  pending <- Queued,
  held <- [w \in Workers |-> HeldBy(w)],
  completed <- {u \in Uploads : status[u] \in Terminal},
  abandoned <- Orphaned

(* The conditional UPDATE implements the queue: every step of the service  *)
(* is a step of WorkQueue or changes nothing that it can see, so a job     *)
(* gets one worker, one outcome, and never comes back.                     *)
ImplementsWorkQueue == Abstract!Spec
=============================================================================
