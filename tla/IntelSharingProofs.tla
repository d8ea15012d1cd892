------------------------- MODULE IntelSharingProofs -------------------------
(* Theorems about IntelSharing and the rate limiter in front of it, for    *)
(* any rows, exports, callers, rates and bursts.                           *)
EXTENDS IntelSharing, FiniteSetTheorems, TLAPS

-----------------------------------------------------------------------------
(* The token bucket.  What a caller was let through in a window, and what  *)
(* its bucket would hold now, never exceed the budget of the window.       *)
LevelNow(c) ==
  IF c \in seen THEN AtMost(tokens[c] + (clock - last[c]) * PerMinute, Full) ELSE Full

WithinBudget(c) ==
  Cost * admitted[c] + LevelNow(c) <= Full + (clock - opened) * PerMinute

BucketInv ==
  /\ clock \in Nat \ {0}
  /\ LimiterTypeOK
  /\ \A c \in Callers : last[c] <= clock
  /\ opened <= clock
  /\ opened = 0 => \A c \in Callers : admitted[c] = 0
  /\ PerMinute > 0 /\ opened # 0 => \A c \in Callers : WithinBudget(c)

(* A bucket has room for at least one token.                               *)
LEMMA Room == Full \in Int /\ Full >= Cost /\ Cost = 60
<1>1. CASE Burst < 1
  BY <1>1, RateLimiterAssumption DEF Full, Cost
<1>2. CASE Burst >= 1
  <2>1. Full = 60 * Burst
    BY <1>2, RateLimiterAssumption DEF Full, Cost
  <2>2. QED
    BY <1>2, <2>1, RateLimiterAssumption DEF Cost
<1>3. QED
  BY <1>1, <1>2, RateLimiterAssumption

(* Time that passes earns a non-negative amount.                           *)
LEMMA Earned ==
  ASSUME NEW n \in Nat, PerMinute > 0
  PROVE  n * PerMinute \in Nat /\ (n + 1) * PerMinute = n * PerMinute + PerMinute
  BY RateLimiterAssumption

(* What a request may find in the bucket is never more than LevelNow.      *)
LEMMA LevelFound ==
  ASSUME BucketInv, PerMinute > 0, NEW c \in Callers
  PROVE  /\ LevelNow(c) \in 0 .. Full
         /\ \A level \in Levels(c, clock) : level \in 0 .. LevelNow(c)
<1>1. tokens[c] \in 0 .. Full /\ last[c] \in Nat /\ last[c] <= clock /\ clock \in Nat
  BY DEF BucketInv, LimiterTypeOK
<1>2. clock - last[c] \in Nat
  BY <1>1
<1>3. (clock - last[c]) * PerMinute \in Nat
  BY <1>2, Earned
<1>4. LevelNow(c) \in 0 .. Full
  BY <1>1, <1>3, Room DEF LevelNow, AtMost
<1>5. QED
  BY <1>4, Room DEF Levels, LevelNow

(* A bucket that was just written holds what was written.                  *)
LEMMA LevelKept ==
  ASSUME BucketInv, NEW c \in Callers, NEW level \in 0 .. Full,
         Keep(c, level, clock), clock' = clock
  PROVE  /\ LevelNow(c)' = level
         /\ \A d \in Callers \ {c} : LevelNow(d)' = LevelNow(d)
         /\ last' \in [Callers -> Nat] /\ tokens' \in [Callers -> 0 .. Full]
         /\ seen' \subseteq Callers /\ opened' = opened
         /\ \A d \in Callers : last'[d] <= clock
<1> USE DEF BucketInv, LimiterTypeOK, Keep
<1>1. /\ c \in seen' /\ tokens'[c] = level /\ last'[c] = clock
      /\ \A d \in Callers \ {c} :
           tokens'[d] = tokens[d] /\ last'[d] = last[d] /\ (d \in seen' <=> d \in seen)
  OBVIOUS
<1>2. LevelNow(c)' = level
  BY <1>1, Room, RateLimiterAssumption DEF LevelNow, AtMost
<1>3. \A d \in Callers \ {c} : LevelNow(d)' = LevelNow(d)
  BY <1>1 DEF LevelNow, AtMost
<1>4. QED
  BY <1>1, <1>2, <1>3

(* A request that is let through pays for itself.                          *)
LEMMA AdmitKeeps ==
  ASSUME BucketInv, NEW c \in Callers, Admit(c, clock), clock' = clock
  PROVE  BucketInv'
<1>1. CASE UNCHANGED limiterVars
  BY <1>1 DEF limiterVars, BucketInv, LimiterTypeOK, WithinBudget, LevelNow
<1>2. CASE PerMinute > 0
           /\ \E level \in Levels(c, clock) : level >= Cost /\ Keep(c, level - Cost, clock)
           /\ Observe(c)
  <2>1. PICK level \in Levels(c, clock) : level >= Cost /\ Keep(c, level - Cost, clock)
    BY <1>2
  <2>2. level \in 0 .. LevelNow(c) /\ LevelNow(c) \in 0 .. Full
    BY <1>2, LevelFound
  <2>3. level - Cost \in 0 .. Full
    BY <2>1, <2>2, Room
  <2>4. /\ LevelNow(c)' = level - Cost
        /\ \A d \in Callers \ {c} : LevelNow(d)' = LevelNow(d)
        /\ last' \in [Callers -> Nat] /\ tokens' \in [Callers -> 0 .. Full]
        /\ seen' \subseteq Callers /\ opened' = opened
        /\ \A d \in Callers : last'[d] <= clock
    BY <2>1, <2>3, LevelKept
  <2>5. admitted' \in [Callers -> Nat]
    BY <1>2 DEF Observe, BucketInv, LimiterTypeOK
  <2>6. opened = 0 => admitted' = admitted
    BY <1>2 DEF Observe
  <2>7. ASSUME opened # 0, NEW d \in Callers PROVE WithinBudget(d)'
    <3>1. WithinBudget(d) /\ opened \in Nat /\ admitted[d] \in Nat
      BY <1>2, <2>7 DEF BucketInv, LimiterTypeOK
    <3>2. (clock - opened) * PerMinute \in Nat
      BY <1>2, <3>1, Earned DEF BucketInv
    <3>3. LevelNow(d) \in 0 .. Full
      BY <1>2, LevelFound
    <3>4. CASE d = c
      <4>1. admitted'[d] = admitted[d] + 1
        BY <1>2, <2>7, <3>4 DEF Observe, BucketInv, LimiterTypeOK
      <4>2. QED
        BY <2>2, <2>4, <3>1, <3>2, <3>4, <4>1, Room DEF WithinBudget
    <3>5. CASE d # c
      <4>1. admitted'[d] = admitted[d]
        BY <1>2, <2>7, <3>5 DEF Observe, BucketInv, LimiterTypeOK
      <4>2. LevelNow(d)' = LevelNow(d)
        BY <2>4, <3>5
      <4>3. QED
        BY <2>4, <3>1, <4>1, <4>2 DEF WithinBudget
    <3>6. QED
      BY <3>4, <3>5
  <2>8. QED
    BY <2>4, <2>5, <2>6, <2>7 DEF BucketInv, LimiterTypeOK
<1>3. QED
  BY <1>1, <1>2 DEF Admit

(* A refusal keeps what was refilled, and no more.                         *)
LEMMA DenyKeeps ==
  ASSUME BucketInv, NEW c \in Callers, Deny(c, clock), clock' = clock
  PROVE  BucketInv'
<1>1. PICK level \in Levels(c, clock) : Keep(c, level, clock)
  BY DEF Deny
<1>2. PerMinute > 0 /\ level \in 0 .. LevelNow(c) /\ LevelNow(c) \in 0 .. Full
  BY LevelFound DEF Deny
<1>3. level \in 0 .. Full
  BY <1>2, Room
<1>4. /\ LevelNow(c)' = level
      /\ \A d \in Callers \ {c} : LevelNow(d)' = LevelNow(d)
      /\ last' \in [Callers -> Nat] /\ tokens' \in [Callers -> 0 .. Full]
      /\ seen' \subseteq Callers /\ opened' = opened
      /\ \A d \in Callers : last'[d] <= clock
  BY <1>1, <1>3, LevelKept
<1>5. ASSUME opened # 0, NEW d \in Callers PROVE WithinBudget(d)'
  <2>1. WithinBudget(d) /\ opened \in Nat /\ admitted[d] \in Nat /\ admitted' = admitted
    BY <1>2, <1>5 DEF BucketInv, LimiterTypeOK, Deny
  <2>2. (clock - opened) * PerMinute \in Nat
    BY <1>2, <2>1, Earned DEF BucketInv
  <2>3. LevelNow(d)' \in Int /\ LevelNow(d)' <= LevelNow(d) /\ LevelNow(d) \in Int
    BY <1>2, <1>4, LevelFound, Room
  <2>4. QED
    BY <1>4, <2>1, <2>2, <2>3, Room DEF WithinBudget
<1>6. QED
  BY <1>4, <1>5 DEF BucketInv, LimiterTypeOK, Deny

(* A second adds the rate to the budget, and at most that to a bucket.     *)
LEMMA TickKeeps ==
  ASSUME BucketInv, clock' = clock + 1, UNCHANGED limiterVars
  PROVE  BucketInv'
<1> USE DEF limiterVars
<1>1. ASSUME PerMinute > 0, opened # 0, NEW c \in Callers PROVE WithinBudget(c)'
  <2>1. WithinBudget(c) /\ opened \in Nat /\ admitted[c] \in Nat /\ clock \in Nat
        /\ last[c] \in Nat /\ tokens[c] \in 0 .. Full /\ clock - opened \in Nat
        /\ clock - last[c] \in Nat
    BY <1>1 DEF BucketInv, LimiterTypeOK
  <2>2. /\ (clock - opened) * PerMinute \in Nat
        /\ (clock' - opened) * PerMinute = (clock - opened) * PerMinute + PerMinute
    <3>1. clock' - opened = (clock - opened) + 1
      BY <2>1
    <3>2. QED
      BY <1>1, <2>1, <3>1, Earned
  <2>3. /\ (clock - last[c]) * PerMinute \in Nat
        /\ (clock' - last[c]) * PerMinute = (clock - last[c]) * PerMinute + PerMinute
    <3>1. clock' - last[c] = (clock - last[c]) + 1
      BY <2>1
    <3>2. QED
      BY <1>1, <2>1, <3>1, Earned
  <2>4. LevelNow(c) \in Int /\ LevelNow(c)' \in Int /\ LevelNow(c)' <= LevelNow(c) + PerMinute
    BY <1>1, <2>1, <2>3, Room, RateLimiterAssumption DEF LevelNow, AtMost
  <2>5. QED
    BY <2>1, <2>2, <2>4, Room, RateLimiterAssumption DEF WithinBudget
<1>2. QED
  BY <1>1 DEF BucketInv, LimiterTypeOK

(* A restart forgets the buckets together with the window, and a window    *)
(* opens on buckets that are at most full.                                 *)
LEMMA WindowKeeps ==
  ASSUME BucketInv, clock' = clock, Forget \/ OpenWindow(clock)
  PROVE  BucketInv'
<1>1. CASE Forget
  BY <1>1, Room DEF Forget, BucketInv, LimiterTypeOK
<1>2. CASE OpenWindow(clock)
  <2>1. ASSUME PerMinute > 0, NEW c \in Callers PROVE WithinBudget(c)'
    <3>1. LevelNow(c)' = LevelNow(c) /\ admitted'[c] = 0 /\ opened' = clock
      BY <1>2 DEF OpenWindow, LevelNow, BucketInv
    <3>2. LevelNow(c) \in 0 .. Full
      BY <2>1, LevelFound
    <3>3. (clock' - opened') * PerMinute = 0 /\ clock \in Nat
      BY <3>1, RateLimiterAssumption DEF BucketInv
    <3>4. QED
      BY <3>1, <3>2, <3>3, Room DEF WithinBudget
  <2>2. QED
    BY <1>2, <2>1 DEF OpenWindow, BucketInv, LimiterTypeOK
<1>3. QED
  BY <1>1, <1>2

(* No step but these touches the buckets.                                  *)
LEMMA BucketNext == BucketInv /\ [Next]_vars => BucketInv'
<1> SUFFICES ASSUME BucketInv, [Next]_vars PROVE BucketInv'
  OBVIOUS
<1>1. ASSUME clock' = clock, UNCHANGED limiterVars PROVE BucketInv'
  BY <1>1 DEF limiterVars, BucketInv, LimiterTypeOK, WithinBudget, LevelNow
<1>2. CASE UNCHANGED vars
  BY <1>1, <1>2 DEF vars
<1>3. CASE Tick
  BY <1>3, TickKeeps DEF Tick
<1>4. CASE WriteRows
  BY <1>1, <1>4 DEF WriteRows
<1>5. ASSUME NEW x \in Exporters, NEW c \in Callers, RequestExport(x, c) PROVE BucketInv'
  BY <1>5, AdmitKeeps DEF RequestExport, Begin
<1>6. ASSUME NEW x \in Exporters, RunCommand(x) PROVE BucketInv'
  BY <1>1, <1>6 DEF RunCommand, Begin
<1>7. ASSUME NEW x \in Exporters,
             ReadExport(x) \/ BuildDocument(x) \/ RecordAudit(x) \/ Deliver(x) \/ ExportFails(x)
      PROVE  BucketInv'
  BY <1>1, <1>7 DEF ReadExport, BuildDocument, RecordAudit, Deliver, ExportFails
<1>8. ASSUME NEW c \in Callers, OtherRequest(c) PROVE BucketInv'
  BY <1>8, AdmitKeeps DEF OtherRequest
<1>9. ASSUME NEW c \in Callers, RefuseRequest(c) PROVE BucketInv'
  BY <1>9, DenyKeeps DEF RefuseRequest
<1>10. CASE ServerRestarts
  BY <1>10, WindowKeeps DEF ServerRestarts
<1>11. CASE Watch
  BY <1>11, WindowKeeps DEF Watch
<1>12. QED
  BY <1>2, <1>3, <1>4, <1>5, <1>6, <1>7, <1>8, <1>9, <1>10, <1>11 DEF Next, Export

(* Full buckets and no window.                                             *)
LEMMA BucketInit == Init => BucketInv
  BY Room DEF Init, LimiterInit, BucketInv, LimiterTypeOK

(* A caller never gets more than a burst and the rate in a window of one   *)
(* process, whatever requests, refusals and restarts surround it.          *)
THEOREM BudgetBounded == Spec => []BudgetKept
<1>1. BucketInv => BudgetKept
  <2> SUFFICES ASSUME BucketInv, PerMinute > 0, opened # 0, NEW c \in Callers
               PROVE  Cost * admitted[c] <= Full + (clock - opened) * PerMinute
    BY DEF BudgetKept, Budget
  <2>1. WithinBudget(c) /\ LevelNow(c) \in 0 .. Full /\ admitted[c] \in Nat
        /\ opened \in Nat /\ clock - opened \in Nat
    BY LevelFound DEF BucketInv, LimiterTypeOK
  <2>2. (clock - opened) * PerMinute \in Nat
    BY <2>1, Earned
  <2>3. QED
    BY <2>1, <2>2, Room DEF WithinBudget
<1>2. QED
  BY BucketInit, BucketNext, <1>1, PTL DEF Spec

-----------------------------------------------------------------------------
(* Types.                                                                  *)
SharingInv == TypeOK /\ BucketInv

(* An export that read nothing yet has an empty answer.                    *)
LEMMA NoRowsTyped == NoRows \in [rows : Rows, whole : BOOLEAN]
<1>1. [i \in {} |-> NoContent] \in [{} -> Contents] /\ {} \in SUBSET Indicators
  OBVIOUS
<1>2. QED
  BY <1>1 DEF NoRows, Rows

(* No export has parameters before it begins.                              *)
LEMMA NoAskIsNone == NoAsk \notin Asks
  BY DEF NoAsk, Asks, Forms

(* What an export that is under way writes into the audit trail.           *)
LEMMA EntryTyped ==
  ASSUME TypeOK, NEW x \in Exporters, xpc[x] # "idle"
  PROVE  Entry(x) \in [export : 1 .. MaxExports, form : Forms]
<1>1. ask[x] \in Asks /\ number[x] \in 1 .. MaxExports
  BY IntelSharingAssumption DEF TypeOK
<1>2. ask[x].form \in Forms
  BY <1>1 DEF Asks
<1>3. QED
  BY <1>1, <1>2 DEF Entry

(* Every step of a writer, an export and the limiter keeps the types.      *)
LEMMA TypeNext == SharingInv /\ [Next]_vars => SharingInv'
<1> SUFFICES ASSUME SharingInv, [Next]_vars PROVE SharingInv'
  OBVIOUS
<1>1. BucketInv' /\ LimiterTypeOK'
  BY BucketNext DEF SharingInv, BucketInv
<1>2. TypeOK /\ BucketInv
  BY DEF SharingInv
<1> USE <1>1, <1>2, IntelSharingAssumption
    DEF TypeOK, baseVars, exportVars, ExportAt
<1>3. CASE UNCHANGED vars
  BY <1>3 DEF vars, SharingInv
<1>4. CASE Tick
  BY <1>4 DEF Tick, SharingInv
<1>5. CASE WriteRows
  BY <1>5 DEF WriteRows, SharingInv
<1>6. ASSUME NEW x \in Exporters, NEW a \in Asks, Begin(x, a) PROVE SharingInv'
  BY <1>6, NoAskIsNone DEF Begin, SharingInv
<1>7. ASSUME NEW x \in Exporters, ReadExport(x) PROVE SharingInv'
  <2>1. ask[x] \in Asks
    BY <1>7 DEF ReadExport
  <2>2. PICK S \in SUBSET Listed : picked' = [picked EXCEPT ![x] =
           [rows |-> [i \in S |-> content[i]], whole |-> ask[x].form = "misp" /\ S = Listed]]
    BY <1>7 DEF ReadExport, Answers
  <2>3. [i \in S |-> content[i]] \in Rows
    BY <2>2 DEF Listed, Rows
  <2>4. picked' \in [Exporters -> [rows : Rows, whole : BOOLEAN]]
    BY <2>2, <2>3
  <2>5. TypeOK'
    BY <1>7, <2>1, <2>4 DEF ReadExport
  <2>6. QED
    BY <2>5 DEF SharingInv
<1>8. ASSUME NEW x \in Exporters, BuildDocument(x) PROVE SharingInv'
  BY <1>8, NoRowsTyped DEF BuildDocument, AfterBuild, SharingInv
<1>9. ASSUME NEW x \in Exporters, RecordAudit(x) PROVE SharingInv'
  <2>1. Entry(x) \in [export : 1 .. MaxExports, form : Forms]
    BY <1>9, EntryTyped DEF RecordAudit
  <2> HIDE DEF ExportAt
  <2>2. audited' \cup delivered \subseteq [export : 1 .. MaxExports, form : Forms]
    BY <1>9, <2>1 DEF RecordAudit
  <2>3. /\ xpc' \in [Exporters -> {"idle", "read", "build", "audit", "answer"}]
        /\ xpc'[x] = "answer" /\ \A y \in Exporters \ {x} : xpc'[y] = xpc[y]
    BY <1>9 DEF RecordAudit, ExportAt
  <2>4. TypeOK'
    BY <1>9, <2>2, <2>3 DEF RecordAudit
  <2>5. QED
    BY <2>4 DEF SharingInv
<1>10. ASSUME NEW x \in Exporters, Deliver(x) PROVE SharingInv'
  <2>1. Entry(x) \in [export : 1 .. MaxExports, form : Forms]
    BY <1>10, EntryTyped DEF Deliver
  <2> HIDE DEF ExportAt
  <2>2. audited \cup delivered' \subseteq [export : 1 .. MaxExports, form : Forms]
    BY <1>10, <2>1 DEF Deliver
  <2>3. /\ xpc' \in [Exporters -> {"idle", "read", "build", "audit", "answer"}]
        /\ xpc'[x] = "idle" /\ \A y \in Exporters \ {x} : xpc'[y] = xpc[y]
    BY <1>10 DEF Deliver, ExportAt
  <2>4. ask' \in [Exporters -> Asks \cup {NoAsk}] /\ number' \in [Exporters -> 0 .. MaxExports]
    BY <1>10 DEF Deliver
  <2>5. \A y \in Exporters :
          /\ xpc'[y] # "idle" <=> ask'[y] # NoAsk
          /\ xpc'[y] # "idle" => number'[y] # 0
          /\ xpc'[y] = "audit" => ask'[y].via = "api"
    BY <1>10, <2>3 DEF Deliver
  <2>6. TypeOK'
    BY <1>10, <2>2, <2>3, <2>4, <2>5 DEF Deliver
  <2>7. QED
    BY <2>6 DEF SharingInv
<1>11. ASSUME NEW X \in SUBSET Exporters, EndExports(X), UNCHANGED <<clock, baseVars>>,
              faults < MaxFaults, faults' = faults + 1
       PROVE  SharingInv'
  BY <1>11, NoAskIsNone, NoRowsTyped DEF EndExports, SharingInv
<1>12. ASSUME UNCHANGED <<clock, faults, baseVars, exportVars>> PROVE SharingInv'
  BY <1>12 DEF SharingInv
<1> HIDE DEF TypeOK
<1>13. QED
  BY <1>3, <1>4, <1>5, <1>6, <1>7, <1>8, <1>9, <1>10, <1>11, <1>12
  DEF Next, Export, RequestExport, RunCommand, OtherRequest, RefuseRequest,
      ExportFails, ServerRestarts, Watch

(* An empty base, no export, full buckets.                                 *)
LEMMA TypeInit == Init => SharingInv
  BY BucketInit, NoAskIsNone, NoRowsTyped, IntelSharingAssumption
  DEF Init, SharingInv, TypeOK, BucketInv

(* Every variable of base, exports and buckets keeps its type.             *)
THEOREM SharingTyped == Spec => []TypeOK
<1>1. SharingInv => TypeOK
  BY DEF SharingInv
<1>2. QED
  BY TypeInit, TypeNext, <1>1, PTL DEF Spec

(* The invariant, for the theorems below.                                  *)
LEMMA SharingAlways == Spec => []SharingInv
  BY TypeInit, TypeNext, PTL DEF Spec

-----------------------------------------------------------------------------
(* An export of the API that is about to answer has its event.             *)
AuditInv ==
  /\ SharingAudited
  /\ \A x \in Exporters : xpc[x] = "answer" /\ ask[x].via = "api" => Entry(x) \in audited

(* Only RecordAudit leads an export of the API to its answer.              *)
LEMMA AuditNext == SharingInv /\ AuditInv /\ [Next]_vars => AuditInv'
<1> SUFFICES ASSUME SharingInv, AuditInv, [Next]_vars PROVE AuditInv'
  OBVIOUS
<1>1. TypeOK
  BY DEF SharingInv
<1> USE <1>1 DEF AuditInv, SharingAudited, TypeOK, baseVars, exportVars, ExportAt, Entry
<1>2. CASE UNCHANGED exportVars
  BY <1>2
<1>3. ASSUME NEW x \in Exporters, NEW a \in Asks, Begin(x, a) PROVE AuditInv'
  BY <1>3 DEF Begin
<1>4. ASSUME NEW x \in Exporters, ReadExport(x) PROVE AuditInv'
  BY <1>4 DEF ReadExport
<1>5. ASSUME NEW x \in Exporters, BuildDocument(x) PROVE AuditInv'
  BY <1>5 DEF BuildDocument, AfterBuild
<1>6. ASSUME NEW x \in Exporters, RecordAudit(x) PROVE AuditInv'
  BY <1>6 DEF RecordAudit
<1>7. ASSUME NEW x \in Exporters, Deliver(x) PROVE AuditInv'
  BY <1>7 DEF Deliver
<1>8. ASSUME NEW X \in SUBSET Exporters, EndExports(X) PROVE AuditInv'
  BY <1>8 DEF EndExports
<1> HIDE DEF AuditInv
<1>9. QED
  BY <1>2, <1>3, <1>4, <1>5, <1>6, <1>7, <1>8
  DEF Next, Export, vars, Tick, WriteRows, RequestExport, RunCommand, OtherRequest,
      RefuseRequest, ExportFails, ServerRestarts, Watch

(* Every document that left through the API has its audit event, whatever  *)
(* requests fail and whenever the process ends.                            *)
THEOREM Audited == Spec => []SharingAudited
<1>1. Init => AuditInv
  BY DEF Init, AuditInv, SharingAudited
<1>2. AuditInv => SharingAudited
  BY DEF AuditInv
<1>3. QED
  BY SharingAlways, AuditNext, <1>1, <1>2, PTL DEF Spec

-----------------------------------------------------------------------------
(* Identifiers.  An indicator's identifier and its pattern are made of the *)
(* kind and the value of one digest, whatever row it came from.            *)
Named(a) ==
  \E digest :
    \/ a.id = <<"indicator", <<"cert", digest>>>> /\ a.pattern = <<"x509-certificate", digest>>
    \/ a.id = <<"indicator", <<"file", digest>>>> /\ a.pattern = <<"file", digest>>

GoodDoc(d) ==
  /\ DOMAIN d = {"indicators", "malware", "relations", "events"}
  /\ \A a \in d.indicators : Named(a)
  /\ \A r \in d.relations :
       (\E a \in d.indicators : r.source = a.id) /\ r.target \in d.malware

DocInv ==
  /\ DOMAIN doc = Exporters
  /\ GoodDoc(partner)
  /\ \A x \in Exporters : GoodDoc(doc[x])

(* Of two named indicators, the identifiers tell as much as the patterns.  *)
LEMMA NamedApart ==
  ASSUME NEW a, NEW b, Named(a), Named(b)
  PROVE  a.id = b.id <=> a.pattern = b.pattern
  BY DEF Named

(* Every row becomes a named indicator.                                    *)
LEMMA RowNamed ==
  ASSUME NEW i, NEW r
  PROVE  Named(Indicator(i, r))
<1>1. CASE r.cert # NoCert
  BY <1>1 DEF Named, Indicator, IndicatorId, Seed, Pattern
<1>2. CASE r.cert = NoCert
  BY <1>2 DEF Named, Indicator, IndicatorId, Seed, Pattern
<1>3. QED
  BY <1>1, <1>2

(* A bundle brings both ends of each of its relationships.                 *)
LEMMA StixGood ==
  ASSUME NEW R
  PROVE  GoodDoc(StixBundle(R))
<1> DEFINE d == StixBundle(R)
<1>1. /\ DOMAIN d = {"indicators", "malware", "relations", "events"}
      /\ d.indicators = {Indicator(i, R[i]) : i \in DOMAIN R}
      /\ d.malware = {MalwareId(R[i]) : i \in DOMAIN R}
      /\ d.relations = {Relation(i, R[i]) : i \in DOMAIN R}
  BY DEF StixBundle
<1>2. \A a \in d.indicators : Named(a)
  BY <1>1, RowNamed
<1>3. ASSUME NEW r \in d.relations
      PROVE  (\E a \in d.indicators : r.source = a.id) /\ r.target \in d.malware
  <2>1. PICK i \in DOMAIN R : r = Relation(i, R[i])
    BY <1>1
  <2>2. r.source = Indicator(i, R[i]).id /\ r.target = MalwareId(R[i])
    BY <2>1 DEF Relation, Indicator
  <2>3. QED
    BY <1>1, <2>1, <2>2
<1>4. QED
  BY <1>1, <1>2, <1>3 DEF GoodDoc

(* A MISP event has no STIX objects, and an empty document nothing at all. *)
LEMMA EventGood ==
  /\ GoodDoc(EmptyBundle)
  /\ \A R, whole, day : GoodDoc(MispEvent(R, whole, day))
  BY DEF GoodDoc, EmptyBundle, MispEvent

(* What the partner had and what it imports resolve within their union.    *)
LEMMA UnionGood ==
  ASSUME NEW d, NEW e, GoodDoc(d), GoodDoc(e)
  PROVE  GoodDoc([k \in DOMAIN d |-> d[k] \cup e[k]])
<1> DEFINE u == [k \in DOMAIN d |-> d[k] \cup e[k]]
<1>1. /\ DOMAIN u = {"indicators", "malware", "relations", "events"}
      /\ u.indicators = d.indicators \cup e.indicators
      /\ u.malware = d.malware \cup e.malware
      /\ u.relations = d.relations \cup e.relations
  BY DEF GoodDoc
<1> HIDE DEF u
<1>2. GoodDoc(u)
  BY <1>1 DEF GoodDoc
<1>3. QED
  BY <1>2 DEF u

(* Only BuildDocument makes a document and only Deliver imports one.       *)
LEMMA DocNext == DocInv /\ [Next]_vars => DocInv'
<1> SUFFICES ASSUME DocInv, [Next]_vars PROVE DocInv'
  OBVIOUS
<1> USE DEF exportVars, baseVars
<1>1. CASE UNCHANGED <<doc, partner>>
  BY <1>1 DEF DocInv
<1>2. ASSUME NEW x \in Exporters, BuildDocument(x) PROVE DocInv'
  <2>1. PICK d : GoodDoc(d) /\ doc' = [doc EXCEPT ![x] = d]
    BY <1>2, StixGood, EventGood DEF BuildDocument
  <2>2. partner' = partner
    BY <1>2 DEF BuildDocument
  <2>3. QED
    BY <2>1, <2>2 DEF DocInv
<1>3. ASSUME NEW x \in Exporters, Deliver(x) PROVE DocInv'
  <2>1. GoodDoc(partner')
    BY <1>3, UnionGood DEF Deliver, DocInv
  <2>2. doc' = [doc EXCEPT ![x] = EmptyBundle]
    BY <1>3 DEF Deliver
  <2>3. QED
    BY <2>1, <2>2, EventGood DEF DocInv
<1>4. ASSUME NEW X, EndExports(X) PROVE DocInv'
  BY <1>4, EventGood DEF EndExports, DocInv
<1>5. QED
  BY <1>1, <1>2, <1>3, <1>4
  DEF Next, Export, vars, Tick, WriteRows, RequestExport, RunCommand, Begin, OtherRequest,
      RefuseRequest, ReadExport, RecordAudit, ExportFails, ServerRestarts, Watch

(* Whatever exports a partner imports, and whatever it missed, its objects *)
(* are not duplicated and its relationships resolve.                       *)
THEOREM Consistent == Spec => []PartnerConsistent
<1>1. Init => DocInv
  BY EventGood DEF Init, DocInv
<1>2. DocInv => PartnerConsistent
  <2> SUFFICES ASSUME DocInv PROVE PartnerConsistent
    OBVIOUS
  <2>1. \A a, b \in partner.indicators : a.id = b.id <=> a.pattern = b.pattern
    BY NamedApart DEF DocInv, GoodDoc
  <2>2. \A r \in partner.relations :
          r.source \in {a.id : a \in partner.indicators} /\ r.target \in partner.malware
    BY DEF DocInv, GoodDoc
  <2>3. QED
    BY <2>1, <2>2 DEF PartnerConsistent
<1>3. QED
  BY DocNext, <1>1, <1>2, PTL DEF Spec

-----------------------------------------------------------------------------
(* MISP events.  An event's identifier is made of a day and of how many    *)
(* rows the event lists.                                                   *)
NamedEvent(e) ==
  /\ DOMAIN e.attributes \subseteq Indicators
  /\ \E day : e.uuid = <<"misp-event", day, Cardinality(DOMAIN e.attributes)>>

\* S is what an export of the whole base has read, or what one listed.
WasWhole(S) ==
  \/ \E x \in Exporters : picked[x].whole /\ S = DOMAIN picked[x].rows
  \/ \E x \in Exporters : \E e \in doc[x].events : e.whole /\ S = DOMAIN e.attributes
  \/ \E e \in partner.events : e.whole /\ S = DOMAIN e.attributes

(* What whole exports have read lies in the base, and of two one contains  *)
(* the other: the base never loses a row.                                  *)
Chain ==
  /\ \A S : WasWhole(S) => S \subseteq Listed
  /\ \A S, T : WasWhole(S) /\ WasWhole(T) => S \subseteq T \/ T \subseteq S

(* A row whose certificate was not replaced is listed by the value it has: *)
(* in documents, and in what was read for one.                             *)
CurrentRows(R) ==
  \A i \in DOMAIN R : i \in Listed /\ (i \notin recert => R[i].cert = content[i].cert)

CurrentEvent(e) ==
  \A i \in DOMAIN e.attributes :
    i \in Listed /\ (i \notin recert => e.attributes[i] = Value(i, content[i]))

Current ==
  /\ \A x \in Exporters : CurrentRows(picked[x].rows)
  /\ \A x \in Exporters : \A e \in doc[x].events : CurrentEvent(e)
  /\ \A e \in partner.events : CurrentEvent(e)

EventInv ==
  /\ DOMAIN doc = Exporters /\ "events" \in DOMAIN partner
  /\ \A e \in partner.events : NamedEvent(e)
  /\ \A x \in Exporters : \A e \in doc[x].events : NamedEvent(e)
  /\ Chain

(* A base that grows, and a read of all of it, keep the chain.             *)
LEMMA ChainGrows ==
  ASSUME Chain, Listed \subseteq Listed',
         \A S : WasWhole(S)' => WasWhole(S) \/ S = Listed
  PROVE  Chain'
<1>1. ASSUME NEW S, WasWhole(S)' PROVE S \subseteq Listed
  BY <1>1 DEF Chain
<1>2. ASSUME NEW S, NEW T, WasWhole(S)', WasWhole(T)' PROVE S \subseteq T \/ T \subseteq S
  <2>1. CASE S = Listed \/ T = Listed
    BY <1>1, <1>2, <2>1
  <2>2. CASE WasWhole(S) /\ WasWhole(T)
    BY <2>2 DEF Chain
  <2>3. QED
    BY <1>2, <2>1, <2>2
<1>3. QED
  BY <1>1, <1>2 DEF Chain

(* Rows are replaced, never removed.                                       *)
LEMMA BaseGrows == SharingInv /\ [Next]_vars => Listed \subseteq Listed'
<1> SUFFICES ASSUME SharingInv, [Next]_vars PROVE Listed \subseteq Listed'
  OBVIOUS
<1>1. CASE UNCHANGED addedAt
  BY <1>1 DEF Listed
<1>2. CASE WriteRows
  BY <1>2, IntelSharingAssumption DEF WriteRows, Listed, SharingInv, TypeOK
<1>3. QED
  BY <1>1, <1>2
  DEF Next, Export, vars, baseVars, Tick, RequestExport, RunCommand, Begin, OtherRequest,
      RefuseRequest, ReadExport, BuildDocument, RecordAudit, Deliver, ExportFails,
      ServerRestarts, Watch

(* What an export reads, builds and delivers stays in the chain.           *)
LEMMA EventNext == SharingInv /\ EventInv /\ [Next]_vars => EventInv'
<1> SUFFICES ASSUME SharingInv, EventInv, [Next]_vars PROVE EventInv'
  OBVIOUS
<1> USE DEF exportVars, baseVars
<1>1. Listed \subseteq Listed' /\ Chain
  BY BaseGrows DEF EventInv
<1>2. /\ TypeOK /\ DOMAIN doc = Exporters
      /\ picked \in [Exporters -> [rows : Rows, whole : BOOLEAN]]
  BY DEF SharingInv, TypeOK, EventInv
<1>3. CASE UNCHANGED <<picked, doc, partner>>
  <2>1. \A S : WasWhole(S)' => WasWhole(S)
    BY <1>3 DEF WasWhole
  <2>2. Chain'
    BY <1>1, <2>1, ChainGrows
  <2>3. QED
    BY <1>3, <2>2 DEF EventInv, NamedEvent
<1>4. ASSUME NEW x \in Exporters, ReadExport(x) PROVE EventInv'
  <2>1. PICK S \in SUBSET Listed : picked' = [picked EXCEPT ![x] =
           [rows |-> [i \in S |-> content[i]], whole |-> ask[x].form = "misp" /\ S = Listed]]
    BY <1>4 DEF ReadExport, Answers
  <2>2. doc' = doc /\ partner' = partner
    BY <1>4 DEF ReadExport
  <2>3. /\ picked'[x].whole => DOMAIN picked'[x].rows = Listed
        /\ \A y \in Exporters \ {x} : picked'[y] = picked[y]
    BY <1>2, <2>1
  <2>4. \A T : WasWhole(T)' => WasWhole(T) \/ T = Listed
    BY <2>2, <2>3 DEF WasWhole
  <2>5. Chain'
    BY <1>1, <2>4, ChainGrows
  <2>6. QED
    BY <2>2, <2>5 DEF EventInv, NamedEvent
<1>5. ASSUME NEW x \in Exporters, BuildDocument(x) PROVE EventInv'
  <2> DEFINE R == picked[x].rows
             e == [uuid |-> MispUuid(R, clock \div DayLength),
                   whole |-> picked[x].whole,
                   attributes |-> [i \in DOMAIN R |-> Value(i, R[i])]]
  <2>1. DOMAIN R \subseteq Indicators
    BY <1>2 DEF Rows
  <2>2. NamedEvent(e)
    BY <2>1 DEF NamedEvent, MispUuid
  <2>3. PICK d : /\ doc' = [doc EXCEPT ![x] = d]
                 /\ d.events \subseteq {e}
    <3>1. CASE ask[x].form = "stix"
      <4>1. doc' = [doc EXCEPT ![x] = StixBundle(R)] /\ StixBundle(R).events = {}
        BY <1>5, <3>1 DEF BuildDocument, StixBundle
      <4>2. QED
        BY <4>1
    <3>2. CASE ask[x].form # "stix"
      <4>1. doc' = [doc EXCEPT ![x] = MispEvent(R, picked[x].whole, clock \div DayLength)]
        BY <1>5, <3>2 DEF BuildDocument
      <4>2. MispEvent(R, picked[x].whole, clock \div DayLength).events = {e}
        BY DEF MispEvent
      <4>3. QED
        BY <4>1, <4>2
    <3>3. QED
      BY <3>1, <3>2
  <2>4. /\ picked' = [picked EXCEPT ![x] = NoRows]
        /\ partner' = partner
    BY <1>5 DEF BuildDocument
  <2>5. /\ doc'[x].events \subseteq {e} /\ DOMAIN doc' = Exporters
        /\ \A y \in Exporters \ {x} : doc'[y] = doc[y]
    BY <1>2, <2>3
  <2>6. /\ ~picked'[x].whole
        /\ \A y \in Exporters \ {x} : picked'[y] = picked[y]
    BY <1>2, <2>4 DEF NoRows
  <2>7. e.whole = picked[x].whole /\ DOMAIN e.attributes = DOMAIN picked[x].rows
    OBVIOUS
  <2> HIDE DEF R, e
  <2>8. ASSUME NEW T, WasWhole(T)' PROVE WasWhole(T)
    BY <2>4, <2>5, <2>6, <2>7, <2>8 DEF WasWhole
  <2>9. Chain'
    BY <1>1, <2>8, ChainGrows
  <2>10. \A y \in Exporters : \A f \in doc'[y].events : NamedEvent(f)
    BY <2>2, <2>5 DEF EventInv
  <2>11. QED
    BY <2>4, <2>5, <2>9, <2>10 DEF EventInv, NamedEvent
<1>6. ASSUME NEW x \in Exporters, Deliver(x) PROVE EventInv'
  <2>1. /\ "events" \in DOMAIN partner'
        /\ partner'.events = partner.events \cup doc[x].events
        /\ doc' = [doc EXCEPT ![x] = EmptyBundle]
        /\ picked' = picked
    BY <1>6 DEF Deliver, EventInv
  <2>2. /\ doc'[x].events = {} /\ DOMAIN doc' = Exporters
        /\ \A y \in Exporters \ {x} : doc'[y] = doc[y]
    BY <1>2, <2>1 DEF EmptyBundle
  <2>3. ASSUME NEW T, WasWhole(T)' PROVE WasWhole(T)
    BY <2>1, <2>2, <2>3 DEF WasWhole
  <2>4. Chain'
    BY <1>1, <2>3, ChainGrows
  <2>5. QED
    BY <2>1, <2>2, <2>4 DEF EventInv, NamedEvent
<1>7. ASSUME NEW X, EndExports(X) PROVE EventInv'
  <2>1. /\ DOMAIN doc' = Exporters /\ partner' = partner
        /\ \A y \in Exporters : doc'[y] = EmptyBundle \/ doc'[y] = doc[y]
        /\ \A y \in Exporters : picked'[y] = NoRows \/ picked'[y] = picked[y]
    BY <1>7 DEF EndExports
  <2>2. EmptyBundle.events = {} /\ ~NoRows.whole
    BY DEF EmptyBundle, NoRows
  <2>3. ASSUME NEW T, WasWhole(T)' PROVE WasWhole(T)
    BY <2>1, <2>2, <2>3 DEF WasWhole
  <2>4. Chain'
    BY <1>1, <2>3, ChainGrows
  <2>5. QED
    BY <2>1, <2>2, <2>4 DEF EventInv, NamedEvent
<1>8. QED
  BY <1>3, <1>4, <1>5, <1>6, <1>7
  DEF Next, Export, vars, Tick, WriteRows, RequestExport, RunCommand, Begin, OtherRequest,
      RefuseRequest, RecordAudit, ExportFails, ServerRestarts, Watch

(* Rows and events stay current: a write that changes a certificate marks  *)
(* its row, and an event is made of what was read.                         *)
LEMMA StaysCurrent ==
  ASSUME SharingInv, [Next]_vars
  PROVE  /\ \A R : CurrentRows(R) => CurrentRows(R)'
         /\ \A e : CurrentEvent(e) => CurrentEvent(e)'
<1>1. /\ Listed \subseteq Listed' /\ recert \subseteq recert'
      /\ \A i \in Listed \ recert' : content'[i].cert = content[i].cert
  <2>1. CASE UNCHANGED <<addedAt, content, recert>>
    BY <2>1 DEF Listed
  <2>2. CASE WriteRows
    <3>1. Listed \subseteq Listed'
      BY BaseGrows
    <3>2. \E S \in SUBSET Indicators \ {{}} : \E new \in [S -> Contents] :
            /\ addedAt' = [i \in Indicators |-> IF i \in S THEN clock ELSE addedAt[i]]
            /\ content' = [i \in Indicators |-> IF i \in S THEN new[i] ELSE content[i]]
            /\ recert' = recert \cup {i \in S \cap Listed : new[i].cert # content[i].cert}
      BY <2>2, Zenon DEF WriteRows
    <3>3. PICK S, new :
            /\ S \subseteq Indicators
            /\ content' = [i \in Indicators |-> IF i \in S THEN new[i] ELSE content[i]]
            /\ recert' = recert \cup {i \in S \cap Listed : new[i].cert # content[i].cert}
      BY <3>2
    <3>4. \A i \in Listed \ recert' : content'[i].cert = content[i].cert
      BY <3>3 DEF Listed
    <3>5. QED
      BY <3>1, <3>3, <3>4
  <2>3. QED
    BY <2>1, <2>2
    DEF Next, Export, vars, baseVars, Tick, RequestExport, RunCommand, Begin, OtherRequest,
        RefuseRequest, ReadExport, BuildDocument, RecordAudit, Deliver, ExportFails,
        ServerRestarts, Watch
<1>2. ASSUME NEW R, CurrentRows(R) PROVE CurrentRows(R)'
  BY <1>1, <1>2 DEF CurrentRows
<1>3. \A i \in Listed \ recert' : Value(i, content'[i]) = Value(i, content[i])
  BY <1>1 DEF Value
<1>4. ASSUME NEW e, CurrentEvent(e) PROVE CurrentEvent(e)'
  BY <1>1, <1>3, <1>4 DEF CurrentEvent
<1>5. QED
  BY <1>2, <1>4

(* What an export reads and builds is current, and so is what it brings.   *)
LEMMA CurrentNext ==
  SharingInv /\ EventInv /\ Current /\ [Next]_vars => Current'
<1> SUFFICES ASSUME SharingInv, EventInv, Current, [Next]_vars PROVE Current'
  OBVIOUS
<1> USE DEF exportVars, baseVars
<1>1. /\ \A R : CurrentRows(R) => CurrentRows(R)'
      /\ \A e : CurrentEvent(e) => CurrentEvent(e)'
  BY StaysCurrent
<1>2. DOMAIN doc = Exporters /\ "events" \in DOMAIN partner /\ DOMAIN picked = Exporters
  BY DEF EventInv, SharingInv, TypeOK
<1>3. ASSUME \A x \in Exporters : picked'[x] = picked[x] \/ CurrentRows(picked[x].rows)',
             \A x \in Exporters : doc'[x].events \subseteq doc[x].events
               \/ \A e \in doc'[x].events : CurrentEvent(e)',
             \A e \in partner'.events :
               e \in partner.events \/ \E x \in Exporters : e \in doc[x].events
      PROVE  Current'
  <2>1. ASSUME NEW x \in Exporters PROVE CurrentRows(picked[x].rows)'
    BY <1>1, <1>3 DEF Current
  <2>2. ASSUME NEW x \in Exporters, NEW e \in doc'[x].events PROVE CurrentEvent(e)'
    BY <1>1, <1>3 DEF Current
  <2>3. ASSUME NEW e \in partner'.events PROVE CurrentEvent(e)'
    BY <1>1, <1>3 DEF Current
  <2>4. QED
    BY <2>1, <2>2, <2>3 DEF Current
<1>4. CASE UNCHANGED <<picked, doc, partner>>
  BY <1>3, <1>4
<1>5. ASSUME NEW x \in Exporters, ReadExport(x) PROVE Current'
  <2>1. PICK S \in SUBSET Listed : picked' = [picked EXCEPT ![x] =
           [rows |-> [i \in S |-> content[i]], whole |-> ask[x].form = "misp" /\ S = Listed]]
    BY <1>5 DEF ReadExport, Answers
  <2>2. CurrentRows(picked'[x].rows)
    BY <1>2, <2>1 DEF CurrentRows
  <2>3. /\ CurrentRows(picked[x].rows)'
        /\ \A y \in Exporters \ {x} : picked'[y] = picked[y]
    BY <1>1, <1>2, <2>1, <2>2
  <2>4. doc' = doc /\ partner' = partner
    BY <1>5 DEF ReadExport
  <2>5. QED
    BY <1>3, <2>3, <2>4
<1>6. ASSUME NEW x \in Exporters, BuildDocument(x) PROVE Current'
  <2> DEFINE R == picked[x].rows
  <2>1. \A e \in MispEvent(R, picked[x].whole, clock \div DayLength).events :
          CurrentEvent(e)
    <3>1. \A i \in DOMAIN R :
            i \in Listed /\ (i \notin recert => Value(i, R[i]) = Value(i, content[i]))
      BY DEF Current, CurrentRows, Value
    <3> HIDE DEF R
    <3>2. QED
      BY <3>1 DEF MispEvent, CurrentEvent
  <2>2. StixBundle(R).events = {}
    BY DEF StixBundle
  <2>3. PICK d : doc' = [doc EXCEPT ![x] = d] /\ \A e \in d.events : CurrentEvent(e)
    BY <1>6, <2>1, <2>2 DEF BuildDocument
  <2>4. /\ \A e \in doc'[x].events : CurrentEvent(e)'
        /\ \A y \in Exporters \ {x} : doc'[y] = doc[y]
    BY <1>1, <1>2, <2>3
  <2>5. /\ picked' = [picked EXCEPT ![x] = NoRows] /\ partner' = partner
        /\ CurrentRows(NoRows.rows)'
    BY <1>6 DEF BuildDocument, CurrentRows, NoRows
  <2>6. \A y \in Exporters : picked'[y] = picked[y] \/ CurrentRows(picked[y].rows)'
    BY <1>2, <2>5
  <2>7. QED
    BY <1>3, <2>4, <2>5, <2>6
<1>7. ASSUME NEW x \in Exporters, Deliver(x) PROVE Current'
  <2>1. /\ partner'.events = partner.events \cup doc[x].events
        /\ doc' = [doc EXCEPT ![x] = EmptyBundle] /\ picked' = picked
    BY <1>7 DEF Deliver, EventInv
  <2>2. \A y \in Exporters : doc'[y].events \subseteq doc[y].events
    BY <1>2, <2>1 DEF EmptyBundle
  <2>3. QED
    BY <1>3, <2>1, <2>2
<1>8. ASSUME NEW X, EndExports(X) PROVE Current'
  <2>1. /\ partner' = partner
        /\ \A y \in Exporters : doc'[y] = EmptyBundle \/ doc'[y] = doc[y]
        /\ \A y \in Exporters : picked'[y] = NoRows \/ picked'[y] = picked[y]
    BY <1>8 DEF EndExports
  <2>2. EmptyBundle.events = {} /\ CurrentRows(NoRows.rows)'
    BY DEF EmptyBundle, NoRows, CurrentRows
  <2>3. QED
    BY <1>3, <2>1, <2>2
<1>9. QED
  BY <1>4, <1>5, <1>6, <1>7, <1>8
  DEF Next, Export, vars, Tick, WriteRows, RequestExport, RunCommand, Begin, OtherRequest,
      RefuseRequest, RecordAudit, ExportFails, ServerRestarts, Watch

(* Two whole events under one identifier list equally many rows, of which  *)
(* one has all the other's: the same.                                      *)
LEMMA SameUuidSameRows ==
  ASSUME EventInv, NEW a \in partner.events, NEW b \in partner.events,
         a.uuid = b.uuid, a.whole, b.whole
  PROVE  DOMAIN a.attributes = DOMAIN b.attributes
<1> DEFINE A == DOMAIN a.attributes
           B == DOMAIN b.attributes
<1>1. NamedEvent(a) /\ NamedEvent(b)
  BY DEF EventInv
<1>2. Cardinality(A) = Cardinality(B)
  <2>1. PICK c : a.uuid = <<"misp-event", c, Cardinality(A)>>
    BY <1>1 DEF NamedEvent
  <2>2. PICK d : b.uuid = <<"misp-event", d, Cardinality(B)>>
    BY <1>1 DEF NamedEvent
  <2> HIDE DEF A, B
  <2>3. a.uuid[3] = Cardinality(A)
    BY <2>1
  <2>4. b.uuid[3] = Cardinality(B)
    BY <2>2
  <2>5. QED
    BY <2>3, <2>4
<1>3. IsFiniteSet(A) /\ IsFiniteSet(B)
  BY <1>1, FS_Subset, IntelSharingAssumption DEF NamedEvent
<1>4. WasWhole(A) /\ WasWhole(B)
  BY DEF WasWhole
<1>5. A \subseteq B \/ B \subseteq A
  BY <1>4 DEF EventInv, Chain
<1> HIDE DEF A, B
<1>6. A = B
  BY <1>2, <1>3, <1>5, FS_Subset
<1>7. QED
  BY <1>6 DEF A, B

(* Whatever the order of writes, exports and imports on a day, two events  *)
(* of the whole base under one identifier list the same rows, and differ   *)
(* in the values of rows whose certificate was replaced, if at all.        *)
THEOREM EventsNameTheBase == Spec => []EventNamesBase
<1>1. Init => EventInv /\ Current
  BY DEF Init, EventInv, Chain, WasWhole, Current, CurrentRows, NoRows, EmptyBundle
<1>2. EventInv /\ Current => EventNamesBase
  <2> SUFFICES ASSUME EventInv, Current, NEW a \in partner.events, NEW b \in partner.events,
                      a.uuid = b.uuid, a.whole, b.whole,
                      NEW i \in DOMAIN a.attributes, a.attributes[i] \notin Values(b)
               PROVE  i \in recert
    BY DEF EventNamesBase, Values
  <2>1. i \in DOMAIN b.attributes
    BY SameUuidSameRows
  <2>2. a.attributes[i] # b.attributes[i]
    BY <2>1 DEF Values
  <2>3. CurrentEvent(a) /\ CurrentEvent(b)
    BY DEF Current
  <2>4. QED
    BY <2>1, <2>2, <2>3 DEF CurrentEvent
<1>3. QED
  BY SharingAlways, EventNext, CurrentNext, <1>1, <1>2, PTL DEF Spec
=============================================================================
