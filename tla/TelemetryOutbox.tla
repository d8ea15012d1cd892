--------------------------- MODULE TelemetryOutbox ---------------------------
(***************************************************************************)
(* The agent's detections table as an outbox of telemetry events.          *)
(*                                                                         *)
(* A scan inserts a row per detection; flushTelemetry reads the rows that  *)
(* are not reported, sends each one and marks it.  Four kinds of coroutine *)
(* do this at the same time: the daily worker, the screen's scan button,   *)
(* the worker of a new package and the download watcher, which inserts and *)
(* leaves the sending to others.  Each DAO call and each request is a      *)
(* suspension point.  POST /v1/telemetry appends one event and commits.    *)
(***************************************************************************)
EXTENDS Naturals, FiniteSets

CONSTANTS
  Worker,      \* the periodic ScanWorker: WorkManager runs one at a time
  Screens,     \* coroutines of runScan
  Packages,    \* NewPackageWorkers
  Downloads,   \* passes of the download watcher
  Rows,        \* ids of the detections table; their number bounds the model
  Refused,     \* rows that the platform answers with 422
  MaxFailures  \* bound on kills, database errors and network errors

Scanners == {Worker} \cup Screens
Flushers == Scanners \cup Packages
Tasks    == Flushers \cup Downloads

ASSUME TelemetryOutboxAssumption ==
  /\ IsFiniteSet(Flushers)
  /\ Refused \subseteq Rows
  /\ MaxFailures \in Nat

VARIABLES
  row,       \* row[r]: "absent", "pending" (reported = 0), "reported", "pruned"
  old,       \* rows whose detectedAt is before the retention cutoff
  received,  \* received[r]: telemetry_events of the platform for the row
  failures,  \* failures so far
  pc,        \* what the task does next
  pending,   \* the rows its flush read and has not dealt with
  current    \* the row it sent, as a set of at most one

vars == <<row, old, received, failures, pc, pending, current>>

Init ==
  /\ row = [r \in Rows |-> "absent"]
  /\ old = {}
  /\ received = [r \in Rows |-> 0]
  /\ failures = 0
  /\ pc = [t \in Tasks |-> "idle"]
  /\ pending = [t \in Tasks |-> {}]
  /\ current = [t \in Tasks |-> {}]

Goto(t, to) == pc' = [pc EXCEPT ![t] = to]

Fail ==
  /\ failures < MaxFailures
  /\ failures' = failures + 1

-----------------------------------------------------------------------------
(* Seeded bugs, one mistake each; not part of the specification.           *)

\* The download watcher flushes as well, outside of any worker.
InsertRow_Flushes(t) ==
  /\ pc[t] = "insert"
  /\ \E r \in Rows : row[r] = "absent" /\ row' = [row EXCEPT ![r] = "pending"]
  /\ Goto(t, IF t \in Scanners THEN "insert" ELSE "read")
  /\ UNCHANGED <<old, received, failures, pending, current>>

\* The DELETE loses its reported = 1.
Prune_AllOld(t) ==
  /\ pc[t] \in {"insert"} /\ t \in Scanners
  /\ row' = [r \in Rows |->
               IF row[r] # "absent" /\ r \in old THEN "pruned" ELSE row[r]]
  /\ Goto(t, "read")
  /\ UNCHANGED <<old, received, failures, pending, current>>

\* The UPDATE has a wrong condition and matches no row.
MarkReported_Nothing(t) ==
  /\ pc[t] = "mark"
  /\ pending' = [pending EXCEPT ![t] = @ \ current[t]]
  /\ current' = [current EXCEPT ![t] = {}]
  /\ Goto(t, "loop")
  /\ UNCHANGED <<row, old, received, failures>>

\* runCatching is around the loop: one refusal ends the flush.
Refuse_EndsFlush(t) ==
  /\ pc[t] = "loop"
  /\ \E r \in pending[t] \cap Refused : TRUE
  /\ pending' = [pending EXCEPT ![t] = {}]
  /\ Goto(t, "idle")
  /\ UNCHANGED <<row, old, received, failures, current>>

-----------------------------------------------------------------------------
(* Scans.                                                                  *)

\* doWork, runScan, or a triage that is under way.  runScan returns while a
\* scan is on, but it clears "scanning" before it flushes.
Start(t) ==
  /\ pc[t] = "idle"
  /\ t \in Screens => \A s \in Screens : pc[s] # "insert"
  /\ Goto(t, "insert")
  /\ UNCHANGED <<row, old, received, failures, pending, current>>

\* detectionDao.insert; a full scan goes on to the next detection.
InsertRow(t) ==
  /\ pc[t] = "insert"
  /\ \E r \in Rows : row[r] = "absent" /\ row' = [row EXCEPT ![r] = "pending"]
  /\ Goto(t, IF t \in Scanners THEN "insert"
             ELSE IF t \in Packages THEN "read" ELSE "idle")
  /\ UNCHANGED <<old, received, failures, pending, current>>

\* The package or the download is clean.  A package's worker flushes anyway,
\* unless the package is gone.
NoDetection(t) ==
  /\ pc[t] = "insert" /\ t \notin Scanners
  /\ \E to \in {"idle"} \cup (IF t \in Packages THEN {"read"} ELSE {}) : Goto(t, to)
  /\ UNCHANGED <<row, old, received, failures, pending, current>>

\* pruneReportedBefore, at the end of a full scan.
Prune(t) ==
  /\ pc[t] = "insert" /\ t \in Scanners
  /\ row' = [r \in Rows |->
               IF row[r] = "reported" /\ r \in old THEN "pruned" ELSE row[r]]
  /\ Goto(t, "read")
  /\ UNCHANGED <<old, received, failures, pending, current>>

-----------------------------------------------------------------------------
(* flushTelemetry.                                                         *)

ReadUnreported(t) ==
  /\ pc[t] = "read"
  /\ pending' = [pending EXCEPT ![t] = {r \in Rows : row[r] = "pending"}]
  /\ Goto(t, "loop")
  /\ UNCHANGED <<row, old, received, failures, current>>

\* The platform commits the event and its answer arrives.
Deliver(t) ==
  /\ pc[t] = "loop"
  /\ \E r \in pending[t] \ Refused :
       /\ received' = [received EXCEPT ![r] = @ + 1]
       /\ current' = [current EXCEPT ![t] = {r}]
  /\ Goto(t, "mark")
  /\ UNCHANGED <<row, old, failures, pending>>

\* 422: runCatching swallows it and the loop goes on.
Refuse(t) ==
  /\ pc[t] = "loop"
  /\ \E r \in pending[t] \cap Refused : pending' = [pending EXCEPT ![t] = @ \ {r}]
  /\ UNCHANGED <<row, old, received, failures, pc, current>>

\* A network error, before the event is committed or after it.
SendFails(t) ==
  /\ Fail
  /\ pc[t] = "loop"
  /\ \E r \in pending[t] \ Refused :
       /\ pending' = [pending EXCEPT ![t] = @ \ {r}]
       /\ \E n \in {0, 1} : received' = [received EXCEPT ![r] = @ + n]
  /\ UNCHANGED <<row, old, pc, current>>

MarkReported(t) ==
  /\ pc[t] = "mark"
  /\ row' = [r \in Rows |->
               IF r \in current[t] /\ row[r] # "pruned" THEN "reported" ELSE row[r]]
  /\ pending' = [pending EXCEPT ![t] = @ \ current[t]]
  /\ current' = [current EXCEPT ![t] = {}]
  /\ Goto(t, "loop")
  /\ UNCHANGED <<old, received, failures>>

EndFlush(t) ==
  /\ pc[t] = "loop" /\ pending[t] = {}
  /\ Goto(t, "idle")
  /\ UNCHANGED <<row, old, received, failures, pending, current>>

\* A DAO call throws.  The screen still flushes after a failed scan; a flush
\* ends, and markReported is outside of the runCatching of its request.
DatabaseFails(t) ==
  /\ Fail
  /\ pc[t] \in {"insert", "read", "mark"}
  /\ Goto(t, IF pc[t] = "insert" /\ t \in Screens THEN "read" ELSE "idle")
  /\ pending' = [pending EXCEPT ![t] = {}]
  /\ current' = [current EXCEPT ![t] = {}]
  /\ UNCHANGED <<row, old, received>>

-----------------------------------------------------------------------------
\* Ninety days pass for a row, reported or not.
Age(r) ==
  /\ row[r] # "absent"
  /\ old' = old \cup {r}
  /\ UNCHANGED <<row, received, failures, pc, pending, current>>

\* The system kills the agent's process: every coroutine stops.
Kill ==
  /\ Fail
  /\ pc' = [t \in Tasks |-> "idle"]
  /\ pending' = [t \in Tasks |-> {}]
  /\ current' = [t \in Tasks |-> {}]
  /\ UNCHANGED <<row, old, received>>

Scan(t) == InsertRow(t) \/ NoDetection(t) \/ Prune(t)

Flush(t) ==
  \/ ReadUnreported(t) \/ Deliver(t) \/ Refuse(t) \/ MarkReported(t) \/ EndFlush(t)

Next ==
  \/ \E t \in Tasks : Start(t) \/ Scan(t) \/ Flush(t) \/ SendFails(t) \/ DatabaseFails(t)
  \/ \E r \in Rows : Age(r)
  \/ Kill

Spec == Init /\ [][Next]_vars

(* A coroutine that runs goes on, and WorkManager runs the periodic scan   *)
(* again and again.  Nobody has to press the button or install anything.   *)
Fairness ==
  /\ \A t \in Tasks : WF_vars(Scan(t)) /\ WF_vars(Flush(t))
  /\ WF_vars(Start(Worker))

FairSpec == Spec /\ Fairness

-----------------------------------------------------------------------------
TypeOK ==
  /\ row \in [Rows -> {"absent", "pending", "reported", "pruned"}]
  /\ old \subseteq Rows
  /\ received \in [Rows -> Nat]
  /\ failures \in 0 .. MaxFailures
  /\ pc \in [Tasks -> {"idle", "insert", "read", "loop", "mark"}]
  /\ \A t \in Tasks : pc[t] \in {"read", "loop", "mark"} => t \in Flushers
  /\ pending \in [Tasks -> SUBSET Rows]
  /\ current \in [Tasks -> SUBSET Rows]

(* Daos.kt:56-59: a row that is not reported "still owes the platform an   *)
(* event", so the agent forgets or marks only what the platform has, over  *)
(* overlapping flushes, lost answers and kills.                            *)
OwedIsKept ==
  \A r \in Rows : row[r] \in {"reported", "pruned"} => received[r] > 0

(* What remains of "sent at most once" (AgentRepository.kt:176-177) when   *)
(* flushes overlap and answers get lost: between two failures, a coroutine *)
(* reports a detection once, however often it flushes.                     *)
OncePerFlusher ==
  \A r \in Rows : received[r] <= Cardinality(Flushers) * (failures + 1)

-----------------------------------------------------------------------------
(* The promise.  A row that was pruned stays settled: ids are not reused.  *)
StageOf(r) ==
  IF row[r] = "absent" THEN "none"
  ELSE IF row[r] = "pending" THEN "owed" ELSE "settled"

Delivery == INSTANCE EventDelivery WITH stage <- [r \in Rows |-> StageOf(r)]

(* Daos.kt:56-59 and AgentRepository.kt:175-178 together: detected, then   *)
(* received, then settled, in this order for every row, never back, while  *)
(* flushes overlap, mark what others have marked or pruned, and get killed.*)
ImplementsDelivery == Delivery!Spec

(* Every detection the platform can accept is reported in the end, also    *)
(* beside one that it refuses for ever.                                    *)
EventuallyReported ==
  \A r \in Rows \ Refused : row[r] = "pending" ~> row[r] # "pending"
=============================================================================
