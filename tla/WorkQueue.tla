------------------------------ MODULE WorkQueue ------------------------------
(***************************************************************************)
(* What the deferred scan queue promises, without saying how: a job that   *)
(* was submitted is pending, is taken by one worker, and then is either    *)
(* completed or abandoned by that worker.  It is never taken twice.        *)
(*                                                                         *)
(* src/fasoshield/jobs.py has no broker: the scan_jobs table is the queue  *)
(* and a conditional UPDATE is the lock.  Module ScanQueue models that     *)
(* code and implements this specification.                                 *)
(***************************************************************************)
CONSTANTS Jobs, Workers

VARIABLES
  pending,    \* jobs waiting for a worker
  held,       \* held[w]: the jobs worker w is running, at most one
  completed,  \* jobs whose outcome, success or failure, is recorded
  abandoned   \* jobs that were taken and will never have an outcome

vars == <<pending, held, completed, abandoned>>

Taken == UNION {held[w] : w \in Workers}
Known == pending \cup Taken \cup completed \cup abandoned

Init ==
  /\ pending = {}
  /\ held = [w \in Workers |-> {}]
  /\ completed = {}
  /\ abandoned = {}

Submit(j) ==
  /\ j \notin Known
  /\ pending' = pending \cup {j}
  /\ UNCHANGED <<held, completed, abandoned>>

Take(w, j) ==
  /\ j \in pending
  /\ held[w] = {}
  /\ pending' = pending \ {j}
  /\ held' = [held EXCEPT ![w] = {j}]
  /\ UNCHANGED <<completed, abandoned>>

Complete(w) ==
  /\ held[w] # {}
  /\ completed' = completed \cup held[w]
  /\ held' = [held EXCEPT ![w] = {}]
  /\ UNCHANGED <<pending, abandoned>>

Abandon(w) ==
  /\ held[w] # {}
  /\ abandoned' = abandoned \cup held[w]
  /\ held' = [held EXCEPT ![w] = {}]
  /\ UNCHANGED <<pending, completed>>

Next ==
  \/ \E j \in Jobs : Submit(j)
  \/ \E w \in Workers, j \in Jobs : Take(w, j)
  \/ \E w \in Workers : Complete(w)
  \/ \E w \in Workers : Abandon(w)

Spec == Init /\ [][Next]_vars
=============================================================================
