--------------------------- MODULE DownloadWatcher ---------------------------
(***************************************************************************)
(* The agent's watch over the download folder.                             *)
(*                                                                         *)
(* ProtectionService lives as long as the process and owns a watcher.  If  *)
(* all-files access is there when it starts, the watcher registers an      *)
(* observer and launches a first pass; every change of MediaStore launches *)
(* another one.  A pass reads a watermark in seconds, queries the rows     *)
(* added after it, inspects the APKs among them, oldest first, and moves   *)
(* the watermark.  Passes overlap: the observer waits for none of them.    *)
(*                                                                         *)
(* A row of MediaStore appears when its file is complete.                  *)
(***************************************************************************)
EXTENDS Naturals

CONSTANTS
  Files,         \* rows of MediaStore
  Apks,          \* those that isApkCandidate accepts
  Passes,        \* coroutines of inspectNewDownloads that may overlap
  MaxTime,       \* bound on the clock
  MaxFaults,     \* bound on kills of the process and failed queries
  None

ASSUME DownloadWatcherAssumption ==
  /\ Apks \subseteq Files /\ None \notin Files
  /\ MaxTime \in Nat \ {0} /\ MaxFaults \in Nat

VARIABLES
  clock,      \* the time, in seconds
  addedAt,    \* addedAt[f]: DATE_ADDED, 0 before the download
  tied,       \* files added in a second that already had a row (only observed)
  access,     \* all-files access is granted
  running,    \* the process, with its service, is alive
  armed,      \* the observer is registered
  notified,   \* a change, or the start, has to launch a pass
  faults,     \* kills and failed queries so far
  watermark,  \* lastDownloadScanSeconds, as the process sees it
  saved,      \* the same on disk: apply() writes it later
  inspected,  \* files whose content was assessed
  unreadable, \* files that could not be read when a pass came to them
  pc,         \* what the pass does next
  since,      \* the watermark it read
  todo,       \* rows of its cursor still to come
  newest,     \* the largest DATE_ADDED it has met
  file        \* the file it inspects

worldVars == <<clock, addedAt, tied, access>>
serviceVars == <<running, armed>>
markVars == <<watermark, saved>>
resultVars == <<inspected, unreadable>>
passVars == <<pc, since, todo, newest, file>>
vars == <<clock, addedAt, tied, access, running, armed, notified, faults, watermark,
          saved, inspected, unreadable, pc, since, todo, newest, file>>

Init ==
  /\ clock = 1
  /\ addedAt = [f \in Files |-> 0] /\ tied = {}
  /\ access = FALSE
  /\ running = FALSE /\ armed = FALSE /\ notified = FALSE
  /\ faults = 0
  /\ watermark = 0 /\ saved = 0
  /\ inspected = {} /\ unreadable = {}
  /\ pc = [p \in Passes |-> "idle"]
  /\ since = [p \in Passes |-> 0]
  /\ todo = [p \in Passes |-> {}]
  /\ newest = [p \in Passes |-> 0]
  /\ file = [p \in Passes |-> None]

Downloaded == {f \in Files : addedAt[f] # 0}
Done == inspected \cup unreadable

PassAt(p, to) == pc' = [pc EXCEPT ![p] = to]

-----------------------------------------------------------------------------
(* Seeded bugs, one mistake each; not part of the specification.           *)

\* The service only registers the observer.
StartProcess_NoPass ==
  /\ ~running
  /\ running' = TRUE /\ armed' = access
  /\ UNCHANGED <<worldVars, notified, faults, markVars, resultVars, passVars>>

\* The watermark moves with each row instead of at the end of the pass.
VisitRow_Advances(p) ==
  /\ pc[p] = "visit"
  /\ \E f \in todo[p] :
       /\ \A g \in todo[p] : addedAt[f] <= addedAt[g]
       /\ todo' = [todo EXCEPT ![p] = @ \ {f}]
       /\ newest' = [newest EXCEPT ![p] = IF addedAt[f] > @ THEN addedAt[f] ELSE @]
       /\ watermark' = addedAt[f]
       /\ file' = [file EXCEPT ![p] = IF f \in Apks THEN f ELSE None]
       /\ PassAt(p, IF f \in Apks THEN "inspect" ELSE "visit")
  /\ UNCHANGED <<worldVars, serviceVars, notified, faults, saved, resultVars,
                 since>>

\* isApkCandidate is not asked.
VisitRow_AllFiles(p) ==
  /\ pc[p] = "visit"
  /\ \E f \in todo[p] :
       /\ \A g \in todo[p] : addedAt[f] <= addedAt[g]
       /\ todo' = [todo EXCEPT ![p] = @ \ {f}]
       /\ newest' = [newest EXCEPT ![p] = IF addedAt[f] > @ THEN addedAt[f] ELSE @]
       /\ file' = [file EXCEPT ![p] = f]
       /\ PassAt(p, "inspect")
  /\ UNCHANGED <<worldVars, serviceVars, notified, faults, markVars,
                 resultVars, since>>

-----------------------------------------------------------------------------
(* The device.                                                             *)

Tick ==
  /\ clock < MaxTime
  /\ clock' = clock + 1
  /\ UNCHANGED <<addedAt, tied, access, serviceVars, notified, faults,
                 markVars, resultVars, passVars>>

\* MediaStore gets a row and notifies its observers.
DownloadFile(f) ==
  /\ addedAt[f] = 0
  /\ addedAt' = [addedAt EXCEPT ![f] = clock]
  /\ tied' = IF \E g \in Files : addedAt[g] = clock THEN tied \cup {f} ELSE tied
  /\ notified' = (notified \/ armed)
  /\ UNCHANGED <<clock, access, serviceVars, faults, markVars, resultVars,
                 passVars>>

\* The user comes back from the settings; the service is not told.
GrantAccess ==
  /\ ~access
  /\ access' = TRUE
  /\ UNCHANGED <<clock, addedAt, tied, serviceVars, notified, faults, markVars,
                 resultVars, passVars>>

\* FasoShieldApp, BootReceiver or a sticky restart: the service is created,
\* and its watcher looks at the access once.
StartProcess ==
  /\ ~running
  /\ running' = TRUE /\ armed' = access /\ notified' = access
  /\ UNCHANGED <<worldVars, faults, markVars, resultVars, passVars>>

\* The process dies, with its passes and what apply() has not written.  Android
\* also kills it when the user takes the access back.
Kill ==
  /\ running /\ faults < MaxFaults
  /\ access' \in {access, FALSE}
  /\ faults' = faults + 1
  /\ running' = FALSE /\ armed' = FALSE /\ notified' = FALSE
  /\ watermark' = saved
  /\ pc' = [p \in Passes |-> "idle"]
  /\ since' = [p \in Passes |-> 0]
  /\ todo' = [p \in Passes |-> {}]
  /\ newest' = [p \in Passes |-> 0]
  /\ file' = [p \in Passes |-> None]
  /\ UNCHANGED <<clock, addedAt, tied, saved, resultVars>>

SavePrefs ==
  /\ saved # watermark
  /\ saved' = watermark
  /\ UNCHANGED <<worldVars, serviceVars, notified, faults, watermark,
                 resultVars, passVars>>

-----------------------------------------------------------------------------
(* inspectNewDownloads.                                                    *)

\* onChange or start launches it; changes in between share one launch here.
BeginPass(p) ==
  /\ notified /\ pc[p] \in {"idle", "failed"}
  /\ notified' = FALSE
  /\ since' = [since EXCEPT ![p] = watermark]
  /\ newest' = [newest EXCEPT ![p] = watermark]
  /\ PassAt(p, "query")
  /\ UNCHANGED <<worldVars, serviceVars, faults, markVars, resultVars, todo,
                 file>>

QueryRows(p) ==
  /\ pc[p] = "query"
  /\ todo' = [todo EXCEPT ![p] = {f \in Downloaded : addedAt[f] > since[p]}]
  /\ PassAt(p, "visit")
  /\ UNCHANGED <<worldVars, serviceVars, notified, faults, markVars, resultVars, since,
                 newest, file>>

\* The content resolver throws: the pass ends, and nothing tries again.
QueryFails(p) ==
  /\ pc[p] = "query" /\ faults < MaxFaults
  /\ faults' = faults + 1
  /\ since' = [since EXCEPT ![p] = 0]
  /\ newest' = [newest EXCEPT ![p] = 0]
  /\ PassAt(p, "failed")
  /\ UNCHANGED <<worldVars, serviceVars, notified, markVars, resultVars, todo,
                 file>>

\* moveToNext, in the order of DATE_ADDED.
VisitRow(p) ==
  /\ pc[p] = "visit"
  /\ \E f \in todo[p] :
       /\ \A g \in todo[p] : addedAt[f] <= addedAt[g]
       /\ todo' = [todo EXCEPT ![p] = @ \ {f}]
       /\ newest' = [newest EXCEPT ![p] = IF addedAt[f] > @ THEN addedAt[f] ELSE @]
       /\ file' = [file EXCEPT ![p] = IF f \in Apks THEN f ELSE None]
       /\ PassAt(p, IF f \in Apks THEN "inspect" ELSE "visit")
  /\ UNCHANGED <<worldVars, serviceVars, notified, faults, markVars,
                 resultVars, since>>

\* assessDownloadedApk; null when the hash meets an I/O error, mostly because the
\* file was moved or deleted.  The pass goes on, and past the file for good.
Inspect(p) ==
  /\ pc[p] = "inspect"
  /\ \/ inspected' = inspected \cup {file[p]} /\ UNCHANGED unreadable
     \/ unreadable' = unreadable \cup {file[p]} /\ UNCHANGED inspected
  /\ file' = [file EXCEPT ![p] = None]
  /\ PassAt(p, "visit")
  /\ UNCHANGED <<worldVars, serviceVars, notified, faults, markVars, since,
                 todo, newest>>

\* The end of a pass: the watermark becomes the newest row it has met.
EndPass(p) ==
  /\ pc[p] = "visit" /\ todo[p] = {}
  /\ watermark' = IF newest[p] > since[p] THEN newest[p] ELSE watermark
  /\ since' = [since EXCEPT ![p] = 0]
  /\ newest' = [newest EXCEPT ![p] = 0]
  /\ PassAt(p, "idle")
  /\ UNCHANGED <<worldVars, serviceVars, notified, faults, saved, resultVars,
                 todo, file>>

Pass(p) == BeginPass(p) \/ QueryRows(p) \/ VisitRow(p) \/ Inspect(p) \/ EndPass(p)

Next ==
  \/ Tick \/ GrantAccess \/ StartProcess \/ Kill \/ SavePrefs
  \/ \E f \in Files : DownloadFile(f)
  \/ \E p \in Passes : Pass(p) \/ QueryFails(p)

Spec == Init /\ [][Next]_vars

(* Coroutines run, and Android restarts a sticky service.                  *)
Fairness == WF_vars(StartProcess) /\ \A p \in Passes : WF_vars(Pass(p))

FairSpec == Spec /\ Fairness

-----------------------------------------------------------------------------
TypeOK ==
  /\ clock \in 1 .. MaxTime
  /\ addedAt \in [Files -> 0 .. MaxTime] /\ tied \subseteq Files
  /\ access \in BOOLEAN /\ running \in BOOLEAN
  /\ armed \in BOOLEAN /\ notified \in BOOLEAN
  /\ faults \in 0 .. MaxFaults
  /\ watermark \in 0 .. MaxTime /\ saved \in 0 .. MaxTime
  /\ inspected \subseteq Apks /\ unreadable \subseteq Apks
  /\ pc \in [Passes -> {"idle", "failed", "query", "visit", "inspect"}]
  /\ since \in [Passes -> 0 .. MaxTime] /\ newest \in [Passes -> 0 .. MaxTime]
  /\ todo \in [Passes -> SUBSET Files]
  /\ file \in [Passes -> Apks \cup {None}]

(* Prefs.kt:37-42: the watermark never passes an APK that nobody looked    *)
(* at, in memory or on disk, while passes overlap and end in any order and *)
(* kills cut them short.  The one exception is an APK added in a second    *)
(* that already had a row: DATE_ADDED counts seconds, and the query asks   *)
(* for rows after the watermark, not at it.                                *)
NothingSkipped ==
  \A f \in (Apks \cap Downloaded) \ tied :
    addedAt[f] <= watermark \/ addedAt[f] <= saved => f \in Done

(* "Inspects every APK that lands in it" (ApkDownloadWatcher.kt:23): a     *)
(* download is looked at once the observer is registered, also when the    *)
(* process is killed and restarted, unless MediaStore refuses the query,   *)
(* the APK came in the second of another row, or the user takes the access *)
(* back.  A file that cannot be read is looked at once, in vain.           *)
EveryApkInspected ==
  \A f \in Apks : armed /\ f \in Downloaded
                  ~> f \in Done \cup tied \/ ~access \/ \E p \in Passes : pc[p] = "failed"
=============================================================================
