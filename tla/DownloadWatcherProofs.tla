----------------------- MODULE DownloadWatcherProofs -----------------------
(* Theorems about DownloadWatcher, for any number of files, overlapping    *)
(* passes and faults.                                                       *)
EXTENDS DownloadWatcher, TLAPS

(* A watermark is 0 or the time of some row, so a row that is still added  *)
(* at it is tied, and the other APKs up to it have been looked at.         *)
Reached(m) == m = 0 \/ \E f \in Files : addedAt[f] = m

Covered(m) ==
  \A f \in Apks \ tied : addedAt[f] # 0 /\ addedAt[f] <= m => f \in Done

\* Up to the newest row the pass met, or up to one that it will meet.
Met(p, f) ==
  addedAt[f] <= newest[p] \/ \E g \in todo[p] : addedAt[f] <= addedAt[g]

(* NothingSkipped is not inductive: a pass moves the watermark to a time   *)
(* it met many steps earlier.  Each pass carries a debt: the APKs between  *)
(* the watermark it read and any row of its cursor are done, or still in   *)
(* the cursor, or in its hands.  Rows come in the order of their time, so  *)
(* this covers whatever becomes the newest row.  Tied files are excused.   *)
PassInv(p) ==
  /\ pc[p] \in {"idle", "failed"} => since[p] = 0 /\ newest[p] = 0
  /\ todo[p] \subseteq Downloaded
  /\ since[p] <= newest[p]
  /\ Reached(since[p]) /\ Covered(since[p])
  /\ Reached(newest[p])
  /\ pc[p] = "query" => newest[p] = since[p]
  /\ pc[p] = "inspect" => file[p] \in Apks
  /\ pc[p] \in {"visit", "inspect"} =>
       \A f \in Apks \ tied : addedAt[f] # 0 /\ addedAt[f] > since[p] /\ Met(p, f)
         => f \in todo[p] \/ f \in Done \/ (pc[p] = "inspect" /\ f = file[p])

WatchInv ==
  /\ TypeOK
  /\ \A f \in Files : addedAt[f] <= clock
  /\ Reached(watermark) /\ Covered(watermark)
  /\ Reached(saved) /\ Covered(saved)
  /\ \A p \in Passes : PassInv(p)

(* Before the first download there is nothing to skip.                     *)
LEMMA WatchInit == Init => WatchInv
<1> SUFFICES ASSUME Init PROVE WatchInv
  OBVIOUS
<1> USE DownloadWatcherAssumption DEF Init
<1>1. TypeOK
  <2>1. access \in BOOLEAN /\ running \in BOOLEAN /\ armed \in BOOLEAN /\ notified \in BOOLEAN
    BY Zenon
  <2>2. QED
    BY <2>1, SMT DEF TypeOK
<1>2. Reached(0) /\ Covered(0) /\ \A f \in Files : addedAt[f] <= clock
  BY DEF Reached, Covered
<1>3. \A p \in Passes : PassInv(p)
  BY <1>2 DEF PassInv, Downloaded
<1>4. QED
  BY <1>1, <1>2, <1>3 DEF WatchInv

(* Every step of the device and of a pass keeps the invariant.             *)
LEMMA WatchNext == WatchInv /\ [Next]_vars => WatchInv'
<1> SUFFICES ASSUME WatchInv, [Next]_vars PROVE WatchInv'
  OBVIOUS
<1> USE DownloadWatcherAssumption DEF WatchInv, PassAt
<1>1. ASSUME \/ Tick \/ GrantAccess \/ StartProcess \/ UNCHANGED vars
      PROVE  WatchInv'
  <2> USE <1>1 DEF Tick, GrantAccess, StartProcess, vars, worldVars, serviceVars,
          markVars, resultVars, passVars
  <2>1. UNCHANGED <<addedAt, tied, markVars, resultVars, passVars>>
    OBVIOUS
  <2>2. TypeOK' /\ \A f \in Files : addedAt'[f] <= clock'
    <3>1. CASE Tick
      BY <3>1 DEF TypeOK
    <3>2. CASE GrantAccess
      BY <3>2 DEF TypeOK
    <3>3. CASE StartProcess
      BY <3>3 DEF TypeOK
    <3>4. CASE UNCHANGED vars
      BY <3>4 DEF TypeOK
    <3>5. QED
      BY <1>1, <3>1, <3>2, <3>3, <3>4
  <2>3. \A p \in Passes : PassInv(p)'
    BY <2>1 DEF PassInv, Downloaded, Reached, Covered, Done, Met
  <2>4. QED
    BY <2>1, <2>2, <2>3 DEF Reached, Covered, Done
<1>2. ASSUME SavePrefs PROVE WatchInv'
  BY <1>2 DEF SavePrefs, worldVars, serviceVars, resultVars, passVars, TypeOK,
       Reached, Covered, PassInv, Done, Met, Downloaded
<1>3. ASSUME Kill PROVE WatchInv'
  <2>1. /\ UNCHANGED <<clock, addedAt, tied, saved, inspected, unreadable>> /\ watermark' = saved
        /\ \A p \in Passes : todo'[p] = {} /\ pc'[p] = "idle" /\ since'[p] = 0 /\ newest'[p] = 0
        /\ Done' = Done
    BY <1>3 DEF Kill, resultVars, Done
  <2>2. TypeOK'
    <3>1. access' \in BOOLEAN /\ running' \in BOOLEAN /\ armed' \in BOOLEAN /\ notified' \in BOOLEAN
      BY <1>3, Zenon DEF Kill, TypeOK
    <3>2. QED
      BY <1>3, <2>1, <3>1, SMT DEF Kill, TypeOK
  <2>3. \A p \in Passes : PassInv(p)'
    BY <2>1 DEF PassInv, Downloaded, Reached, Covered, TypeOK
  <2>4. QED
    BY <2>1, <2>2, <2>3 DEF Reached, Covered
<1>4. ASSUME NEW f \in Files, DownloadFile(f) PROVE WatchInv'
  <2>1. /\ addedAt[f] = 0 /\ addedAt' = [addedAt EXCEPT ![f] = clock]
        /\ tied' = IF \E g \in Files : addedAt[g] = clock THEN tied \cup {f} ELSE tied
        /\ UNCHANGED <<clock, access, serviceVars, markVars, resultVars, passVars>>
    BY <1>4 DEF DownloadFile
  <2>2. TypeOK'
    BY <1>4 DEF DownloadFile, TypeOK, serviceVars, markVars, resultVars, passVars
  <2>3. \A g \in Files : addedAt'[g] <= clock'
    BY <2>1 DEF TypeOK
  <2>4. ASSUME NEW m \in Nat, Reached(m)
        PROVE  /\ Reached(m)' /\ m <= clock
               /\ f \notin tied' => m < clock
    <3>1. clock \in Nat \ {0} /\ \A g \in Files : addedAt[g] \in Nat
      BY DEF TypeOK
    <3>2. f \notin tied' => \A g \in Files : addedAt[g] # clock
      BY <2>1
    <3>3. m <= clock /\ (f \notin tied' => m < clock)
      BY <2>4, <3>1, <3>2 DEF Reached
    <3>4. Reached(m)'
      BY <2>1, <2>4 DEF Reached, TypeOK
    <3>5. QED
      BY <3>3, <3>4
  <2>5. ASSUME NEW m \in Nat, Reached(m), Covered(m) PROVE Covered(m)'
    <3>1. tied \subseteq tied' /\ clock \in Nat
      BY <2>1 DEF TypeOK
    <3>2. QED
      BY <2>1, <2>4, <2>5, <3>1 DEF Covered, Done, resultVars, TypeOK
  <2>6. ASSUME NEW p \in Passes PROVE PassInv(p)'
    <3>1. since[p] \in Nat /\ newest[p] \in Nat /\ PassInv(p)
      BY DEF TypeOK
    <3>2. newest[p] <= clock /\ (f \notin tied' => newest[p] < clock)
      BY <2>4, <3>1 DEF PassInv
    <3>3. /\ UNCHANGED <<pc, since, todo, newest, file, inspected, unreadable>>
          /\ todo[p] \subseteq Files /\ Done' = Done
      BY <2>1 DEF passVars, resultVars, TypeOK, Done
    <3>4. Reached(since[p])' /\ Reached(newest[p])' /\ Covered(since[p])'
      <4>1. \E h \in Files : newest[p] = 0 \/ addedAt'[h] = newest[p]
        BY <2>4, <3>1 DEF PassInv, Reached
      <4>2. Reached(since[p])' /\ Covered(since[p])'
        BY <2>1, <2>4, <2>5, <3>1, <3>3 DEF PassInv, Reached, Covered
      <4>3. QED
        BY <3>3, <4>1, <4>2 DEF Reached
    <3>5. ASSUME NEW g \in Apks \ tied', addedAt'[g] # 0, addedAt'[g] > since[p], Met(p, g)',
                 pc[p] \in {"visit", "inspect"}
          PROVE  g \in todo[p] \/ g \in Done \/ (pc[p] = "inspect" /\ g = file[p])
      <4>1. \A h \in Files : addedAt[h] \in Nat /\ addedAt[h] <= clock
        BY DEF TypeOK
      <4>2. /\ \A h \in Files \ {f} : addedAt'[h] = addedAt[h]
            /\ addedAt'[f] = clock /\ clock \in Nat /\ g \notin tied /\ g \in Files
        BY <2>1 DEF TypeOK
      <4>3. f \notin todo[p]
        BY <2>1, <3>1 DEF PassInv, Downloaded
      <4>4. g # f
        <5>1. CASE addedAt'[g] <= newest[p]
          BY <3>1, <3>2, <4>2, <5>1
        <5>2. ASSUME NEW h \in todo[p], addedAt'[g] <= addedAt'[h], g = f PROVE FALSE
          <6>1. addedAt[h] = clock
            BY <3>3, <4>1, <4>2, <4>3, <5>2
          <6>2. QED
            BY <2>1, <3>3, <5>2, <6>1
        <5>3. QED
          BY <3>3, <3>5, <5>1, <5>2 DEF Met
      <4>5. Met(p, g)
        BY <3>3, <3>5, <4>2, <4>3, <4>4 DEF Met
      <4>6. QED
        BY <3>1, <3>5, <4>2, <4>4, <4>5 DEF PassInv
    <3>6. \A h \in todo[p] : addedAt'[h] # 0
      BY <2>1, <3>1, <3>3 DEF PassInv, Downloaded, TypeOK
    <3>7. QED
      BY <3>1, <3>3, <3>4, <3>5, <3>6 DEF PassInv, Downloaded
  <2>7. watermark \in Nat /\ saved \in Nat
    BY DEF TypeOK
  <2>8. Reached(watermark)' /\ Covered(watermark)' /\ Reached(saved)' /\ Covered(saved)'
    BY <2>1, <2>4, <2>5, <2>7 DEF markVars, Reached, Covered
  <2>9. QED
    BY <2>2, <2>3, <2>6, <2>8
<1>5. ASSUME NEW p \in Passes, BeginPass(p) PROVE WatchInv'
  <2>1. /\ UNCHANGED <<clock, addedAt, tied, watermark, saved, inspected, unreadable, todo, file>>
        /\ Done' = Done
        /\ pc' = [pc EXCEPT ![p] = "query"]
        /\ since' = [since EXCEPT ![p] = watermark]
        /\ newest' = [newest EXCEPT ![p] = watermark]
    BY <1>5 DEF BeginPass, worldVars, markVars, resultVars, Done
  <2>2. TypeOK'
    <3>1. access' \in BOOLEAN /\ running' \in BOOLEAN /\ armed' \in BOOLEAN /\ notified' \in BOOLEAN
      BY <1>5, Zenon DEF BeginPass, worldVars, serviceVars, TypeOK
    <3>2. faults' = faults
      BY <1>5 DEF BeginPass
    <3>3. QED
      BY <2>1, <3>1, <3>2, SMT DEF TypeOK
  <2>3. \A q \in Passes : PassInv(q)'
    BY <2>1 DEF PassInv, Downloaded, Reached, Covered, Met, TypeOK
  <2>4. QED
    BY <2>1, <2>2, <2>3 DEF Reached, Covered
<1>6. ASSUME NEW p \in Passes, QueryRows(p) PROVE WatchInv'
  BY <1>6 DEF QueryRows, worldVars, serviceVars, markVars, resultVars, TypeOK,
       Reached, Covered, PassInv, Done, Met, Downloaded
<1>7. ASSUME NEW p \in Passes, VisitRow(p) PROVE WatchInv'
  <2>1. PICK f \in todo[p] :
          /\ todo' = [todo EXCEPT ![p] = @ \ {f}]
          /\ newest' = [newest EXCEPT ![p] = IF addedAt[f] > @ THEN addedAt[f] ELSE @]
          /\ file' = [file EXCEPT ![p] = IF f \in Apks THEN f ELSE None]
          /\ pc' = [pc EXCEPT ![p] = IF f \in Apks THEN "inspect" ELSE "visit"]
          /\ \A g \in todo[p] : addedAt[f] <= addedAt[g]
    BY <1>7 DEF VisitRow
  <2>2. f \in Files /\ pc[p] = "visit"
    BY <1>7 DEF VisitRow, TypeOK
  <2>3. /\ UNCHANGED <<clock, addedAt, tied, access, running, armed, faults, notified, watermark,
                       saved, inspected, unreadable, since>>
        /\ Done' = Done
    BY <1>7 DEF VisitRow, worldVars, serviceVars, markVars, resultVars, Done
  <2>4. TypeOK'
    BY <2>1, <2>2, <2>3 DEF TypeOK
  <2>5. Reached(addedAt[f]) /\ addedAt[f] \in Nat
    BY <2>2 DEF Reached, TypeOK
  <2>6. ASSUME NEW q \in Passes, q # p PROVE PassInv(q)'
    <3>1. /\ pc'[q] = pc[q] /\ newest'[q] = newest[q]
          /\ todo'[q] = todo[q] /\ file'[q] = file[q]
      BY <2>1, <2>6 DEF TypeOK
    <3>2. QED
      BY <2>3, <3>1 DEF PassInv, Downloaded, Reached, Covered, Met
  <2>7. PassInv(p)'
    <3>1. /\ pc'[p] = (IF f \in Apks THEN "inspect" ELSE "visit")
          /\ todo'[p] = todo[p] \ {f}
          /\ newest'[p] = (IF addedAt[f] > newest[p] THEN addedAt[f] ELSE newest[p])
          /\ file'[p] = (IF f \in Apks THEN f ELSE None)
      BY <2>1 DEF TypeOK
    <3>2. /\ since[p] \in Nat /\ newest[p] \in Nat /\ PassInv(p)
          /\ \A g \in Files : addedAt[g] \in Nat
      BY DEF TypeOK
    <3>3. Reached(newest[p])' /\ Reached(since[p])' /\ Covered(since[p])'
      BY <2>3, <2>5, <3>1, <3>2 DEF PassInv, Downloaded, Reached, Covered
    <3>4. since'[p] <= newest'[p]
      BY <2>3, <2>5, <3>1, <3>2 DEF PassInv, Downloaded
    <3>5. ASSUME NEW g \in Apks \ tied, addedAt[g] # 0, addedAt[g] > since[p], Met(p, g)'
          PROVE  g \in todo'[p] \/ g \in Done \/ (pc'[p] = "inspect" /\ g = file'[p])
      <4>1. Met(p, g)
        BY <2>2, <2>3, <3>1, <3>2, <3>5 DEF Met
      <4>2. g \in todo[p] \/ g \in Done
        BY <2>2, <3>2, <3>5, <4>1 DEF PassInv, Downloaded
      <4>3. QED
        BY <3>1, <4>2
    <3>6. QED
      BY <2>2, <2>3, <3>1, <3>3, <3>4, <3>5 DEF PassInv, Downloaded
  <2>8. QED
    BY <2>3, <2>4, <2>6, <2>7 DEF Reached, Covered
<1>8. ASSUME NEW p \in Passes, Inspect(p) PROVE WatchInv'
  <2>1. /\ UNCHANGED <<clock, addedAt, tied, watermark, saved, since, todo, newest>>
        /\ pc[p] = "inspect" /\ pc' = [pc EXCEPT ![p] = "visit"]
        /\ file' = [file EXCEPT ![p] = None]
        /\ Done' = Done \cup {file[p]}
    BY <1>8 DEF Inspect, worldVars, markVars, Done
  <2>2. TypeOK'
    BY <1>8, <2>1 DEF Inspect, worldVars, serviceVars, markVars, TypeOK, PassInv
  <2>3. \A q \in Passes : PassInv(q)'
    BY <2>1 DEF PassInv, Downloaded, Reached, Covered, Met, TypeOK
  <2>4. QED
    BY <2>1, <2>2, <2>3 DEF Reached, Covered
<1>9. ASSUME NEW p \in Passes, EndPass(p) PROVE WatchInv'
  <2>1. /\ UNCHANGED <<clock, addedAt, tied, saved, inspected, unreadable, todo, file>>
        /\ Done' = Done
        /\ pc[p] = "visit" /\ todo[p] = {} /\ pc' = [pc EXCEPT ![p] = "idle"]
        /\ since' = [since EXCEPT ![p] = 0] /\ newest' = [newest EXCEPT ![p] = 0]
        /\ watermark' = IF newest[p] > since[p] THEN newest[p] ELSE watermark
    BY <1>9 DEF EndPass, worldVars, resultVars, Done
  <2>2. TypeOK'
    BY <1>9, <2>1 DEF EndPass, worldVars, serviceVars, resultVars, TypeOK
  <2>3. Reached(newest[p]) /\ Covered(newest[p])
    BY <2>1 DEF PassInv, Downloaded, Covered, Met, TypeOK
  <2>4. Reached(0) /\ Covered(0)
    BY DEF Reached, Covered, TypeOK
  <2>5. \A q \in Passes : PassInv(q)'
    BY <2>1, <2>4 DEF PassInv, Downloaded, Reached, Covered, Met, TypeOK
  <2>6. QED
    BY <2>1, <2>2, <2>3, <2>5 DEF Reached, Covered
<1>10. ASSUME NEW p \in Passes, QueryFails(p) PROVE WatchInv'
  <2>1. /\ UNCHANGED <<clock, addedAt, tied, watermark, saved, inspected, unreadable, todo, file>>
        /\ Done' = Done
        /\ pc' = [pc EXCEPT ![p] = "failed"]
        /\ since' = [since EXCEPT ![p] = 0] /\ newest' = [newest EXCEPT ![p] = 0]
    BY <1>10 DEF QueryFails, worldVars, markVars, resultVars, Done
  <2>2. TypeOK'
    BY <1>10, <2>1 DEF QueryFails, worldVars, serviceVars, TypeOK
  <2>3. Reached(0) /\ Covered(0)
    BY DEF Reached, Covered, TypeOK
  <2>4. \A q \in Passes : PassInv(q)'
    BY <2>1, <2>3 DEF PassInv, Downloaded, Reached, Covered, Met, TypeOK
  <2>5. QED
    BY <2>1, <2>2, <2>4 DEF Reached, Covered
<1>11. QED
  BY <1>1, <1>2, <1>3, <1>4, <1>5, <1>6, <1>7, <1>8, <1>9, <1>10 DEF Next, Pass

(* Every variable of the watcher keeps its type.                           *)
THEOREM WatcherTyped == Spec => []TypeOK
<1>1. WatchInv => TypeOK
  BY DEF WatchInv
<1>2. QED
  BY WatchInit, WatchNext, <1>1, PTL DEF Spec

(* The watermark never passes an APK that was not looked at.               *)
THEOREM NoApkSkipped == Spec => []NothingSkipped
<1>1. WatchInv => NothingSkipped
  BY DownloadWatcherAssumption
  DEF WatchInv, NothingSkipped, Covered, Downloaded
<1>2. QED
  BY WatchInit, WatchNext, <1>1, PTL DEF Spec
=============================================================================
