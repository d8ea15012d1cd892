----------------------- MODULE TelemetryOutboxProofs -----------------------
(* Theorems about TelemetryOutbox, for any number of coroutines, rows and  *)
(* failures.                                                               *)
EXTENDS TelemetryOutbox, FiniteSetTheorems, TLAPS

(* OwedIsKept is not inductive: a flush marks the row it sent some steps   *)
(* earlier, so that row has to be known to the platform by then.           *)
OutboxInv ==
  /\ TypeOK
  /\ OwedIsKept
  /\ \A t \in Tasks : \A r \in current[t] : received[r] > 0

(* The empty outbox of a first launch satisfies the invariant.             *)
LEMMA OutboxInit == Init => OutboxInv
  BY TelemetryOutboxAssumption DEF Init, OutboxInv, TypeOK, OwedIsKept

(* Every step of a coroutine, and a kill, keeps the invariant.             *)
LEMMA OutboxNext == OutboxInv /\ [Next]_vars => OutboxInv'
<1> SUFFICES ASSUME OutboxInv, [Next]_vars PROVE OutboxInv'
  OBVIOUS
<1> USE TelemetryOutboxAssumption DEF OutboxInv, TypeOK, OwedIsKept, Goto, Fail
<1>1. ASSUME NEW t \in Tasks, Start(t) PROVE OutboxInv'
  BY <1>1 DEF Start
<1>2. ASSUME NEW t \in Tasks, InsertRow(t) PROVE OutboxInv'
  BY <1>2 DEF InsertRow, Flushers, Scanners
<1>3. ASSUME NEW t \in Tasks, NoDetection(t) PROVE OutboxInv'
  BY <1>3 DEF NoDetection, Flushers, Scanners
<1>4. ASSUME NEW t \in Tasks, Prune(t) PROVE OutboxInv'
  BY <1>4 DEF Prune, Flushers, Scanners
<1>5. ASSUME NEW t \in Tasks, ReadUnreported(t) PROVE OutboxInv'
  BY <1>5 DEF ReadUnreported
<1>6. ASSUME NEW t \in Tasks, Deliver(t) PROVE OutboxInv'
  <2>1. PICK r \in pending[t] \ Refused :
          /\ received' = [received EXCEPT ![r] = @ + 1]
          /\ current' = [current EXCEPT ![t] = {r}]
    BY <1>6 DEF Deliver
  <2>2. r \in Rows
    OBVIOUS
  <2>3. \A q \in Rows : received'[q] \in Nat /\ received'[q] >= received[q]
    BY <2>1, <2>2
  <2>4. received'[r] > 0
    BY <2>1, <2>2
  <2>5. TypeOK'
    BY <1>6, <2>1, <2>2, <2>3 DEF Deliver
  <2>6. OwedIsKept'
    BY <1>6, <2>3 DEF Deliver
  <2>7. \A u \in Tasks : \A q \in current'[u] : received'[q] > 0
    BY <2>1, <2>3, <2>4
  <2>8. QED
    BY <2>5, <2>6, <2>7
<1>7. ASSUME NEW t \in Tasks, Refuse(t) PROVE OutboxInv'
  BY <1>7 DEF Refuse
<1>8. ASSUME NEW t \in Tasks, SendFails(t) PROVE OutboxInv'
  <2>1. PICK r \in pending[t] \ Refused, n \in {0, 1} :
          /\ pending' = [pending EXCEPT ![t] = @ \ {r}]
          /\ received' = [received EXCEPT ![r] = @ + n]
    BY <1>8 DEF SendFails
  <2>2. r \in Rows
    OBVIOUS
  <2>3. \A q \in Rows : received'[q] \in Nat /\ received'[q] >= received[q]
    BY <2>1, <2>2
  <2>4. TypeOK'
    BY <1>8, <2>1, <2>2, <2>3 DEF SendFails
  <2>5. OwedIsKept'
    BY <1>8, <2>3 DEF SendFails
  <2>6. \A u \in Tasks : \A q \in current'[u] : received'[q] > 0
    BY <1>8, <2>3 DEF SendFails
  <2>7. QED
    BY <2>4, <2>5, <2>6
<1>9. ASSUME NEW t \in Tasks, MarkReported(t) PROVE OutboxInv'
  BY <1>9 DEF MarkReported
<1>10. ASSUME NEW t \in Tasks, EndFlush(t) PROVE OutboxInv'
  BY <1>10 DEF EndFlush
<1>11. ASSUME NEW t \in Tasks, DatabaseFails(t) PROVE OutboxInv'
  BY <1>11 DEF DatabaseFails, Flushers, Scanners
<1>12. ASSUME NEW r \in Rows, Age(r) PROVE OutboxInv'
  BY <1>12 DEF Age
<1>13. CASE Kill
  BY <1>13 DEF Kill
<1>14. CASE UNCHANGED vars
  BY <1>14 DEF vars
<1>15. QED
  BY <1>1, <1>2, <1>3, <1>4, <1>5, <1>6, <1>7, <1>8, <1>9, <1>10, <1>11, <1>12,
     <1>13, <1>14 DEF Next, Scan, Flush

(* Every variable of the outbox keeps its type.                            *)
THEOREM OutboxTyped == Spec => []TypeOK
<1>1. OutboxInv => TypeOK
  BY DEF OutboxInv
<1>2. QED
  BY OutboxInit, OutboxNext, <1>1, PTL DEF Spec

(* No detection is marked or forgotten before the platform has it.         *)
THEOREM NothingForgotten == Spec => []OwedIsKept
<1>1. OutboxInv => OwedIsKept
  BY DEF OutboxInv
<1>2. QED
  BY OutboxInit, OutboxNext, <1>1, PTL DEF Spec

-----------------------------------------------------------------------------
(* The bound on duplicates.  Until the next failure, the coroutines that   *)
(* may still send a row are those that have not sent it since the last     *)
(* one: all but the ones about to mark it while the row is pending, and    *)
(* then those whose flush read it before it was marked.                    *)
MaySend(r) ==
  IF row[r] \in {"absent", "pending"}
  THEN {t \in Flushers : r \notin current[t]}
  ELSE {t \in Flushers : r \in pending[t] \ current[t]}

Bound == Cardinality(Flushers) * (failures + 1)

Credit(r) == received[r] + Cardinality(MaySend(r)) <= Bound

CreditInv ==
  /\ TypeOK
  /\ \A t \in Tasks : pc[t] # "mark" => current[t] = {}
  /\ \A t \in Tasks : \A p, q \in current[t] : p = q
  /\ \A r \in Rows : Credit(r)

(* The coroutines that flush are finitely many, and the worker is one.     *)
LEMMA Counts ==
  /\ Cardinality(Flushers) \in Nat \ {0}
  /\ \A S \in SUBSET Flushers : /\ Cardinality(S) \in Nat
                                /\ Cardinality(S) <= Cardinality(Flushers)
  /\ \A S \in SUBSET Flushers : \A T \in SUBSET S : Cardinality(T) <= Cardinality(S)
<1>1. IsFiniteSet(Flushers) /\ Flushers # {}
  BY TelemetryOutboxAssumption DEF Flushers, Scanners
<1>2. \A S \in SUBSET Flushers : IsFiniteSet(S) /\ Cardinality(S) <= Cardinality(Flushers)
  BY <1>1, FS_Subset
<1>3. \A S \in SUBSET Flushers : Cardinality(S) \in Nat
  BY <1>2, FS_CardinalityType
<1>4. Cardinality(Flushers) # 0
  BY <1>1, FS_EmptySet
<1>5. \A S \in SUBSET Flushers : \A T \in SUBSET S : Cardinality(T) <= Cardinality(S)
  BY <1>2, FS_Subset
<1>6. QED
  BY <1>2, <1>3, <1>4, <1>5

(* Some steps neither send nor fail, and let no one send again.            *)
LEMMA CreditKept ==
  ASSUME CreditInv, NEW r \in Rows, received'[r] = received[r], failures' = failures,
         MaySend(r)' \subseteq MaySend(r)
  PROVE  Credit(r)'
<1>1. MaySend(r) \in SUBSET Flushers /\ MaySend(r)' \in SUBSET Flushers
  BY DEF MaySend
<1>2. /\ Cardinality(MaySend(r)) \in Nat /\ Cardinality(MaySend(r)') \in Nat
      /\ Cardinality(MaySend(r)') <= Cardinality(MaySend(r))
  BY <1>1, Counts
<1>3. Bound \in Nat /\ Bound' = Bound
  BY Counts DEF Bound, CreditInv, TypeOK
<1>4. received[r] \in Nat /\ Credit(r)
  BY DEF CreditInv, TypeOK
<1>5. QED
  BY <1>2, <1>3, <1>4 DEF Credit

(* A failure pays for one more event, or for every coroutine starting over.*)
LEMMA CreditOfFailure ==
  ASSUME CreditInv, NEW r \in Rows, failures' = failures + 1,
         \/ received'[r] = received[r]
         \/ received'[r] = received[r] + 1 /\ MaySend(r)' \subseteq MaySend(r)
  PROVE  Credit(r)'
<1>1. MaySend(r) \in SUBSET Flushers /\ MaySend(r)' \in SUBSET Flushers
  BY DEF MaySend
<1> DEFINE n == Cardinality(Flushers)
           old_ == Cardinality(MaySend(r))
           new_ == Cardinality(MaySend(r)')
<1>2. /\ n \in Nat \ {0} /\ old_ \in Nat /\ new_ \in Nat /\ new_ <= n
      /\ MaySend(r)' \subseteq MaySend(r) => new_ <= old_
  BY <1>1, Counts
<1>3. received[r] \in Nat /\ failures \in Nat /\ received[r] + old_ <= n * (failures + 1)
  BY DEF CreditInv, TypeOK, Credit, Bound
<1>4. n * (failures + 1 + 1) = n * (failures + 1) + n /\ n * (failures + 1) \in Nat
  <2> HIDE DEF n
  <2>1. QED
    BY <1>2, <1>3
<1>5. received'[r] + new_ <= n * (failures + 1) + n
  <2> HIDE DEF n, old_, new_
  <2> DEFINE b == n * (failures + 1)
  <2>1. b \in Nat /\ received[r] + old_ <= b
    BY <1>3, <1>4
  <2> HIDE DEF b
  <2>2. received'[r] + new_ <= b + n
    BY <1>2, <1>3, <2>1
  <2>3. QED
    BY <2>2 DEF b
<1>6. QED
  BY <1>4, <1>5 DEF Credit, Bound

(* At first launch every coroutine may send each row once.                 *)
LEMMA CreditInit == Init => CreditInv
<1> SUFFICES ASSUME Init PROVE CreditInv
  OBVIOUS
<1>1. TypeOK
  BY OutboxInit DEF OutboxInv
<1>2. \A r \in Rows : Credit(r)
  <2> TAKE r \in Rows
  <2>1. MaySend(r) \in SUBSET Flushers
    BY DEF MaySend
  <2>2. Cardinality(MaySend(r)) <= Cardinality(Flushers) /\ Cardinality(MaySend(r)) \in Nat
        /\ Cardinality(Flushers) \in Nat
    BY <2>1, Counts
  <2>3. received[r] = 0 /\ Bound = Cardinality(Flushers)
    BY <2>2 DEF Init, Bound
  <2>4. QED
    BY <2>2, <2>3 DEF Credit
<1>3. QED
  BY <1>1, <1>2 DEF Init, CreditInv

(* Sending spends a coroutine's credit for the row; marking takes it back  *)
(* from all who have not read the row.                                     *)
LEMMA CreditNext == OutboxInv /\ CreditInv /\ [Next]_vars => CreditInv'
<1> SUFFICES ASSUME OutboxInv, CreditInv, [Next]_vars PROVE CreditInv'
  OBVIOUS
<1>0. TypeOK'
  BY OutboxNext DEF OutboxInv
<1> DEFINE Control == /\ \A t \in Tasks : pc[t] \in {"read", "loop", "mark"} => t \in Flushers
                      /\ \A t \in Tasks : pc[t] # "mark" => current[t] = {}
                      /\ \A t \in Tasks : \A p, q \in current[t] : p = q
<1>a. Control
  BY DEF CreditInv, TypeOK
<1>b. Flushers \subseteq Tasks
  BY DEF Tasks
<1>1. ASSUME NEW t \in Tasks, Start(t) \/ NoDetection(t) \/ EndFlush(t) PROVE CreditInv'
  <2>1. Control'
    BY <1>1, <1>a DEF Start, NoDetection, EndFlush, Goto, CreditInv, TypeOK, Flushers, Scanners
  <2>2. \A r \in Rows : Credit(r)'
    BY <1>1, CreditKept DEF Start, NoDetection, EndFlush, MaySend
  <2>3. QED
    BY <1>0, <2>1, <2>2 DEF CreditInv
<1>2. ASSUME NEW t \in Tasks, InsertRow(t) \/ Prune(t) PROVE CreditInv'
  <2>1. Control'
    BY <1>2, <1>a DEF InsertRow, Prune, Goto, CreditInv, TypeOK, Flushers
  <2>2. \A r \in Rows : MaySend(r)' \subseteq MaySend(r)
    BY <1>2 DEF InsertRow, Prune, MaySend, CreditInv, TypeOK
  <2>3. \A r \in Rows : Credit(r)'
    BY <1>2, <2>2, CreditKept DEF InsertRow, Prune
  <2>4. QED
    BY <1>0, <2>1, <2>3 DEF CreditInv
<1>3. ASSUME NEW t \in Tasks, ReadUnreported(t) PROVE CreditInv'
  <2>1. Control'
    BY <1>3, <1>a DEF ReadUnreported, Goto, CreditInv, TypeOK
  <2>2. \A r \in Rows : MaySend(r)' \subseteq MaySend(r)
    BY <1>3, <1>b DEF ReadUnreported, MaySend, CreditInv, TypeOK
  <2>3. \A r \in Rows : Credit(r)'
    BY <1>3, <2>2, CreditKept DEF ReadUnreported
  <2>4. QED
    BY <1>0, <2>1, <2>3 DEF CreditInv
<1>4. ASSUME NEW t \in Tasks, Deliver(t) PROVE CreditInv'
  <2>1. PICK r \in pending[t] \ Refused :
          /\ received' = [received EXCEPT ![r] = @ + 1]
          /\ current' = [current EXCEPT ![t] = {r}]
    BY <1>4 DEF Deliver
  <2>2. r \in Rows /\ t \in Flushers /\ current[t] = {}
    BY <1>4, <1>a DEF Deliver, CreditInv, TypeOK
  <2>3. Control'
    BY <1>4, <1>a, <2>1, <2>2 DEF Deliver, Goto, CreditInv, TypeOK
  <2>4. ASSUME NEW q \in Rows, q # r PROVE Credit(q)'
    <3>1. received'[q] = received[q] /\ failures' = failures
      BY <1>4, <2>1, <2>4 DEF Deliver, CreditInv, TypeOK
    <3>2. MaySend(q)' \subseteq MaySend(q)
      BY <1>4, <1>b, <2>1, <2>2, <2>4 DEF Deliver, MaySend, CreditInv, TypeOK
    <3>3. QED
      BY <3>1, <3>2, CreditKept
  <2>5. Credit(r)'
    <3>1. MaySend(r)' = MaySend(r) \ {t} /\ t \in MaySend(r)
      BY <1>4, <1>b, <2>1, <2>2 DEF Deliver, MaySend, CreditInv, TypeOK
    <3>2. MaySend(r) \in SUBSET Flushers
      BY DEF MaySend
    <3>3. IsFiniteSet(MaySend(r)) /\ Cardinality(MaySend(r)) \in Nat
      BY <3>2, TelemetryOutboxAssumption, FS_Subset, FS_CardinalityType
    <3>4. Cardinality(MaySend(r)') = Cardinality(MaySend(r)) - 1
      BY <3>1, <3>3, FS_RemoveElement
    <3>5. received'[r] = received[r] + 1 /\ Bound' = Bound /\ received[r] \in Nat
      BY <1>4, <2>1, <2>2 DEF Deliver, Bound, CreditInv, TypeOK
    <3>6. Bound \in Nat
      BY Counts DEF Bound, CreditInv, TypeOK
    <3>7. Credit(r)
      BY <2>2 DEF CreditInv
    <3>8. QED
      BY <3>3, <3>4, <3>5, <3>6, <3>7 DEF Credit
  <2>6. QED
    BY <1>0, <2>3, <2>4, <2>5 DEF CreditInv
<1>5. ASSUME NEW t \in Tasks, Refuse(t) PROVE CreditInv'
  <2>1. Control'
    BY <1>5, <1>a DEF Refuse, CreditInv, TypeOK
  <2>2. \A r \in Rows : MaySend(r)' \subseteq MaySend(r)
    BY <1>5, <1>b DEF Refuse, MaySend, CreditInv, TypeOK
  <2>3. \A r \in Rows : Credit(r)'
    BY <1>5, <2>2, CreditKept DEF Refuse
  <2>4. QED
    BY <1>0, <2>1, <2>3 DEF CreditInv
<1>6. ASSUME NEW t \in Tasks, SendFails(t) PROVE CreditInv'
  <2>1. PICK r \in pending[t] \ Refused, n \in {0, 1} :
          /\ pending' = [pending EXCEPT ![t] = @ \ {r}]
          /\ received' = [received EXCEPT ![r] = @ + n]
    BY <1>6 DEF SendFails
  <2>2. r \in Rows
    BY DEF CreditInv, TypeOK
  <2>3. Control'
    BY <1>6, <1>a DEF SendFails, CreditInv, TypeOK
  <2>4. \A q \in Rows : MaySend(q)' \subseteq MaySend(q)
    BY <1>6, <1>b, <2>1 DEF SendFails, MaySend, CreditInv, TypeOK
  <2>5. \A q \in Rows : received'[q] = received[q] \/ received'[q] = received[q] + 1
    BY <2>1, <2>2 DEF CreditInv, TypeOK
  <2>6. \A q \in Rows : Credit(q)'
    BY <1>6, <2>4, <2>5, CreditOfFailure DEF SendFails, Fail
  <2>7. QED
    BY <1>0, <2>3, <2>6 DEF CreditInv
<1>7. ASSUME NEW t \in Tasks, MarkReported(t) PROVE CreditInv'
  <2>1. Control'
    BY <1>7, <1>a DEF MarkReported, Goto, CreditInv, TypeOK
  <2>2. \A r \in Rows : MaySend(r)' \subseteq MaySend(r)
    <3> SUFFICES ASSUME NEW r \in Rows, NEW u \in MaySend(r)' PROVE u \in MaySend(r)
      OBVIOUS
    <3>1. u \in Flushers /\ u \in Tasks
      BY <1>b DEF MaySend
    <3>2. CASE r \in current[t]
      BY <1>7, <3>1, <3>2 DEF MarkReported, MaySend, CreditInv, TypeOK
    <3>3. CASE r \notin current[t]
      BY <1>7, <3>1, <3>3 DEF MarkReported, MaySend, CreditInv, TypeOK
    <3>4. QED
      BY <3>2, <3>3
  <2>3. \A r \in Rows : Credit(r)'
    BY <1>7, <2>2, CreditKept DEF MarkReported
  <2>4. QED
    BY <1>0, <2>1, <2>3 DEF CreditInv
<1>8. ASSUME NEW t \in Tasks, DatabaseFails(t) PROVE CreditInv'
  <2>1. Control'
    BY <1>8, <1>a DEF DatabaseFails, Goto, CreditInv, TypeOK, Flushers, Scanners
  <2>2. \A r \in Rows : Credit(r)'
    BY <1>8, CreditOfFailure DEF DatabaseFails, Fail
  <2>3. QED
    BY <1>0, <2>1, <2>2 DEF CreditInv
<1>9. ASSUME NEW r \in Rows, Age(r) PROVE CreditInv'
  <2>1. Control'
    BY <1>9, <1>a DEF Age
  <2>2. \A q \in Rows : Credit(q)'
    BY <1>9, CreditKept DEF Age, MaySend
  <2>3. QED
    BY <1>0, <2>1, <2>2 DEF CreditInv
<1>10. CASE Kill
  <2>1. Control'
    BY <1>10 DEF Kill
  <2>2. \A r \in Rows : Credit(r)'
    BY <1>10, CreditOfFailure DEF Kill, Fail
  <2>3. QED
    BY <1>0, <2>1, <2>2 DEF CreditInv
<1>11. CASE UNCHANGED vars
  <2>1. Control'
    BY <1>11, <1>a DEF vars
  <2>2. \A r \in Rows : Credit(r)'
    BY <1>11, CreditKept DEF vars, MaySend
  <2>3. QED
    BY <1>0, <2>1, <2>2 DEF CreditInv
<1>12. QED
  BY <1>1, <1>2, <1>3, <1>4, <1>5, <1>6, <1>7, <1>8, <1>9, <1>10, <1>11
  DEF Next, Scan, Flush

(* Between two failures a coroutine reports a detection at most once.      *)
THEOREM DuplicatesBounded == Spec => []OncePerFlusher
<1>1. CreditInv => OncePerFlusher
  <2> SUFFICES ASSUME CreditInv, NEW r \in Rows PROVE received[r] <= Bound
    BY DEF OncePerFlusher, Bound
  <2>1. MaySend(r) \in SUBSET Flushers
    BY DEF MaySend
  <2>2. Cardinality(MaySend(r)) \in Nat
    BY <2>1, Counts
  <2>3. Credit(r) /\ received[r] \in Nat /\ Bound \in Nat
    BY Counts DEF CreditInv, TypeOK, Bound
  <2>4. QED
    BY <2>2, <2>3 DEF Credit
<1>2. QED
  BY OutboxInit, OutboxNext, CreditInit, CreditNext, <1>1, PTL DEF Spec
-----------------------------------------------------------------------------
(* The refinement.  Each row maps to its stage, and a step changes the     *)
(* stage of one row, or the events of one row, or nothing.  A flush sends  *)
(* only rows that exist and marks one at a time.                           *)
DeliveryInv ==
  /\ OutboxInv
  /\ \A t \in Tasks : \A r \in pending[t] \cup current[t] : row[r] # "absent"
  /\ \A t \in Tasks : \A q, r \in current[t] : q = r

LEMMA DeliveryInvInit == Init => DeliveryInv
  BY OutboxInit DEF DeliveryInv, Init

LEMMA DeliveryInvNext == DeliveryInv /\ [Next]_vars => DeliveryInv'
<1> SUFFICES ASSUME DeliveryInv, [Next]_vars PROVE DeliveryInv'
  OBVIOUS
<1>0. OutboxInv'
  BY OutboxNext DEF DeliveryInv
<1> DEFINE Exist == /\ \A t \in Tasks : \A r \in pending[t] \cup current[t] : row[r] # "absent"
                    /\ \A t \in Tasks : \A q, r \in current[t] : q = r
<1>a. TypeOK /\ Exist
  BY DEF DeliveryInv, OutboxInv
<1>1. ASSUME NEW t \in Tasks, Start(t) \/ NoDetection(t) \/ EndFlush(t) PROVE Exist'
  BY <1>1, <1>a DEF Start, NoDetection, EndFlush
<1>2. ASSUME NEW t \in Tasks, InsertRow(t) PROVE Exist'
  BY <1>2, <1>a DEF InsertRow, TypeOK
<1>3. ASSUME NEW t \in Tasks, Prune(t) PROVE Exist'
  BY <1>3, <1>a DEF Prune, TypeOK
<1>4. ASSUME NEW t \in Tasks, ReadUnreported(t) PROVE Exist'
  BY <1>4, <1>a DEF ReadUnreported, TypeOK
<1>5. ASSUME NEW t \in Tasks, Deliver(t) PROVE Exist'
  BY <1>5, <1>a DEF Deliver, TypeOK
<1>6. ASSUME NEW t \in Tasks, Refuse(t) \/ SendFails(t) PROVE Exist'
  BY <1>6, <1>a DEF Refuse, SendFails, TypeOK
<1>7. ASSUME NEW t \in Tasks, MarkReported(t) PROVE Exist'
  BY <1>7, <1>a DEF MarkReported, TypeOK
<1>8. ASSUME NEW t \in Tasks, DatabaseFails(t) PROVE Exist'
  BY <1>8, <1>a DEF DatabaseFails, TypeOK
<1>9. ASSUME Kill PROVE Exist'
  BY <1>9 DEF Kill
<1>10. ASSUME UNCHANGED vars \/ \E r \in Rows : Age(r) PROVE Exist'
  BY <1>10, <1>a DEF vars, Age
<1>11. QED
  BY <1>0, <1>1, <1>2, <1>3, <1>4, <1>5, <1>6, <1>7, <1>8, <1>9, <1>10
  DEF DeliveryInv, Next, Scan, Flush

LEMMA DeliveryInit == Init => Delivery!Init
  BY DEF Init, Delivery!Init, StageOf

(* A step that moves no row to another stage and sends nothing stutters.   *)
LEMMA DeliveryStutters ==
  ASSUME UNCHANGED received, \A r \in Rows : StageOf(r)' = StageOf(r)
  PROVE  UNCHANGED Delivery!vars
  BY DEF Delivery!vars

(* An event of a row that exists and is not refused is a Receive.          *)
LEMMA DeliveryReceives ==
  ASSUME TypeOK, UNCHANGED row, NEW r \in Rows \ Refused, row[r] # "absent",
         received' = [received EXCEPT ![r] = @ + 1]
  PROVE  Delivery!Next
<1>1. StageOf(r) # "none"
  BY DEF StageOf, TypeOK
<1>2. Delivery!Receive(r)
  BY <1>1 DEF Delivery!Receive, StageOf
<1>3. QED
  BY <1>2 DEF Delivery!Next

(* Every step of the outbox is a step of the promise, or none.             *)
LEMMA DeliveryNext == DeliveryInv /\ [Next]_vars => [Delivery!Next]_(Delivery!vars)
<1> SUFFICES ASSUME DeliveryInv, [Next]_vars
             PROVE  Delivery!Next \/ UNCHANGED Delivery!vars
  OBVIOUS
<1>a. /\ TypeOK /\ OwedIsKept
      /\ \A t \in Tasks : \A r \in current[t] : received[r] > 0
      /\ \A t \in Tasks : \A r \in pending[t] \cup current[t] : row[r] # "absent"
      /\ \A t \in Tasks : \A q, r \in current[t] : q = r
  BY DEF DeliveryInv, OutboxInv
<1>1. ASSUME NEW t \in Tasks,
             \/ Start(t) \/ NoDetection(t) \/ EndFlush(t) \/ ReadUnreported(t)
             \/ Refuse(t) \/ DatabaseFails(t)
      PROVE  UNCHANGED Delivery!vars
  <2>1. UNCHANGED <<row, received>>
    BY <1>1 DEF Start, NoDetection, EndFlush, ReadUnreported, Refuse, DatabaseFails
  <2>2. QED
    BY <2>1, DeliveryStutters DEF StageOf
<1>2. ASSUME NEW t \in Tasks, InsertRow(t) PROVE Delivery!Next
  <2>1. PICK r \in Rows : row[r] = "absent" /\ row' = [row EXCEPT ![r] = "pending"]
    BY <1>2 DEF InsertRow
  <2>2. StageOf(r) = "none" /\ StageOf(r)' = "owed"
    BY <2>1, <1>a DEF StageOf, TypeOK
  <2>3. \A q \in Rows \ {r} : StageOf(q)' = StageOf(q)
    BY <2>1, <1>a DEF StageOf, TypeOK
  <2>4. Delivery!Detect(r)
    BY <1>2, <2>2, <2>3 DEF InsertRow, Delivery!Detect
  <2>5. QED
    BY <2>4 DEF Delivery!Next
<1>3. ASSUME NEW t \in Tasks, Prune(t) PROVE UNCHANGED Delivery!vars
  <2>1. \A r \in Rows : StageOf(r)' = StageOf(r)
    BY <1>3 DEF Prune, StageOf
  <2>2. QED
    BY <1>3, <2>1, DeliveryStutters DEF Prune
<1>4. ASSUME NEW t \in Tasks, Deliver(t) PROVE Delivery!Next
  <2>1. PICK r \in pending[t] \ Refused : received' = [received EXCEPT ![r] = @ + 1]
    BY <1>4 DEF Deliver
  <2>2. r \in Rows \ Refused /\ row[r] # "absent"
    BY <2>1, <1>a DEF TypeOK
  <2>3. QED
    BY <1>4, <1>a, <2>1, <2>2, DeliveryReceives DEF Deliver
<1>5. ASSUME NEW t \in Tasks, SendFails(t)
      PROVE  Delivery!Next \/ UNCHANGED Delivery!vars
  <2>1. PICK r \in pending[t] \ Refused, n \in {0, 1} :
          received' = [received EXCEPT ![r] = @ + n]
    BY <1>5 DEF SendFails
  <2>2. r \in Rows \ Refused /\ row[r] # "absent"
    BY <2>1, <1>a DEF TypeOK
  <2>3. CASE n = 0
    <3>1. UNCHANGED <<row, received>>
      BY <1>5, <1>a, <2>1, <2>2, <2>3 DEF SendFails, TypeOK
    <3>2. QED
      BY <3>1, DeliveryStutters DEF StageOf
  <2>4. CASE n = 1
    BY <1>5, <1>a, <2>1, <2>2, <2>4, DeliveryReceives DEF SendFails
  <2>5. QED
    BY <2>3, <2>4
<1>6. ASSUME NEW t \in Tasks, MarkReported(t)
      PROVE  Delivery!Next \/ UNCHANGED Delivery!vars
  <2>1. CASE \A r \in current[t] : row[r] # "pending"
    <3>1. \A r \in Rows : StageOf(r)' = StageOf(r)
      BY <1>6, <1>a, <2>1 DEF MarkReported, StageOf, TypeOK
    <3>2. QED
      BY <1>6, <3>1, DeliveryStutters DEF MarkReported
  <2>2. CASE \E r \in current[t] : row[r] = "pending"
    <3>1. PICK r \in current[t] : row[r] = "pending"
      BY <2>2
    <3>2. r \in Rows /\ received[r] > 0
      BY <3>1, <1>a DEF TypeOK
    <3>3. \A q \in current[t] : q = r
      BY <3>1, <1>a
    <3>4. StageOf(r) = "owed" /\ StageOf(r)' = "settled"
      BY <1>6, <3>1, <3>2 DEF MarkReported, StageOf
    <3>5. \A q \in Rows \ {r} : StageOf(q)' = StageOf(q)
      BY <1>6, <3>3 DEF MarkReported, StageOf
    <3>6. Delivery!Settle(r)
      BY <1>6, <3>2, <3>4, <3>5 DEF MarkReported, Delivery!Settle
    <3>7. QED
      BY <3>2, <3>6 DEF Delivery!Next
  <2>3. QED
    BY <2>1, <2>2
<1>7. CASE Kill \/ UNCHANGED vars \/ \E r \in Rows : Age(r)
  <2>1. UNCHANGED <<row, received>>
    BY <1>7 DEF Kill, Age, vars
  <2>2. QED
    BY <2>1, DeliveryStutters DEF StageOf
<1>8. QED
  BY <1>1, <1>2, <1>3, <1>4, <1>5, <1>6, <1>7 DEF Next, Scan, Flush, DeliveryInv

(* The outbox keeps the promise of at-least-once delivery: detected, then  *)
(* received, then settled, for any number of coroutines, rows, failures    *)
(* and kills.                                                              *)
THEOREM DeliveryImplemented == Spec => ImplementsDelivery
<1>1. Spec => Delivery!Init /\ [][Delivery!Next]_(Delivery!vars)
  BY DeliveryInvInit, DeliveryInvNext, DeliveryInit, DeliveryNext, PTL DEF Spec
<1>2. QED
  BY <1>1 DEF ImplementsDelivery, Delivery!Spec
=============================================================================
