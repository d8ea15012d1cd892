---------------------------- MODULE SignatureFeed ----------------------------
(***************************************************************************)
(* Signature distribution: the national blocklist, its timestamp version   *)
(* and the delta synchronisation of one agent.                             *)
(*                                                                         *)
(* HashDB keeps the blocklist and a version in SQLite.  A writer (the      *)
(* approval of a proposal, or the CLI's imports) stamps and commits rows,  *)
(* then stamps and commits the version: two transactions and two readings  *)
(* of the clock.  GET /v1/signatures/updates reads the rows newer than the *)
(* client's version, then the version, and signs both.  The agent applies  *)
(* the rows, then stores the version.  It has two callers that do not know *)
(* each other, the daily worker and the screen's scan button.              *)
(*                                                                         *)
(* Timestamps are seconds: that is the granularity of a version, and       *)
(* entries_since truncates added_at to it.  0 stands for "never".          *)
(***************************************************************************)
EXTENDS Naturals

CONSTANTS
  Writers,     \* threads and processes that write the signature base
  Indicators,  \* blocklist keys
  Syncs,       \* coroutines of the agent that may run syncSignatures
  MaxTime,     \* bound on the clock
  MaxWrites,   \* bound on writes
  MaxFaults    \* bound on dead writers, lost answers and kills of the agent

ASSUME SignatureFeedAssumption ==
  MaxTime \in Nat \ {0} /\ MaxWrites \in Nat /\ MaxFaults \in Nat

VARIABLES
  clock,         \* datetime.now, in seconds
  faults,        \* faults so far
  writes,        \* writes begun so far
  \* signatures.db
  addedAt,       \* addedAt[i]: blocklist.added_at, 0 without a row
  version,       \* meta.version, 0 before the first write
  \* the writers
  wpc,           \* what the writer does next
  rows,          \* the indicators it writes
  stamp,         \* the time it read last
  \* the agent
  local,         \* local[i]: added_at of the copy in Room, 0 without one
  localVersion,  \* Prefs.signatureVersion, as the running process sees it
  savedVersion,  \* the same on disk: apply() writes it later
  spc,           \* what the coroutine does next
  remote,        \* the version the server announced
  since,         \* the version it asked updates for
  delta,         \* the rows of the answer, as a function like local
  newVersion,    \* the version of the answer
  \* only observed: no guard reads them
  announced,     \* the highest version the server ever had
  late,          \* rows inserted with a time that a version had reached
  torn           \* rows inserted between the two reads of an answer

serverVars == <<addedAt, version>>
writerVars == <<wpc, rows, stamp>>
agentVars  == <<local, localVersion, savedVersion>>
syncVars   == <<spc, remote, since, delta, newVersion>>
observerVars == <<announced, late, torn>>
vars == <<clock, faults, writes, addedAt, version, wpc, rows, stamp, local,
          localVersion, savedVersion, spc, remote, since, delta, newVersion,
          announced, late, torn>>

NoRows == [i \in Indicators |-> 0]

Init ==
  /\ clock = 1
  /\ faults = 0 /\ writes = 0
  /\ addedAt = NoRows
  /\ version = 0
  /\ wpc = [w \in Writers |-> "idle"]
  /\ rows = [w \in Writers |-> {}]
  /\ stamp = [w \in Writers |-> 0]
  /\ local = NoRows
  /\ localVersion = 0
  /\ savedVersion = 0
  /\ spc = [s \in Syncs |-> "idle"]
  /\ remote = [s \in Syncs |-> 0]
  /\ since = [s \in Syncs |-> 0]
  /\ delta = [s \in Syncs |-> NoRows]
  /\ newVersion = [s \in Syncs |-> 0]
  /\ announced = 0 /\ late = {} /\ torn = {}

WriterAt(w, to) == wpc' = [wpc EXCEPT ![w] = to]
SyncAt(s, to) == spc' = [spc EXCEPT ![s] = to]

Fault == faults < MaxFaults /\ faults' = faults + 1

-----------------------------------------------------------------------------
(* Seeded bugs, one mistake each; not part of the specification.           *)

\* The version is pushed one second ahead so that it always increases.
StampVersion_Ahead(w) ==
  /\ wpc[w] = "bump"
  /\ stamp' = [stamp EXCEPT ![w] = clock + 1]
  /\ WriterAt(w, "write")
  /\ UNCHANGED <<clock, faults, writes, serverVars, rows, agentVars, syncVars,
                 observerVars>>

\* The floor moves to the next second.
ReadEntries_SkipsSecond(s) ==
  /\ spc[s] = "entries"
  /\ delta' = [delta EXCEPT ![s] = [i \in Indicators |->
                 IF addedAt[i] > since[s] + 1 THEN addedAt[i] ELSE 0]]
  /\ SyncAt(s, "version")
  /\ UNCHANGED <<clock, faults, writes, serverVars, writerVars, agentVars, remote,
                 since, newVersion, observerVars>>

\* The local version is stored before the rows are applied.
ReadVersion_StoresFirst(s) ==
  /\ spc[s] = "version"
  /\ newVersion' = [newVersion EXCEPT ![s] = version]
  /\ localVersion' = version
  /\ SyncAt(s, "apply")
  /\ UNCHANGED <<clock, faults, writes, serverVars, writerVars, local, savedVersion,
                 remote, since, delta, observerVars>>

\* applyBlocklistDelta clears the table before it inserts the rows.
ApplyDelta_Clears(s) ==
  /\ spc[s] = "apply"
  /\ local' = delta[s]
  /\ SyncAt(s, "store")
  /\ UNCHANGED <<clock, faults, writes, serverVars, writerVars, localVersion,
                 savedVersion, remote, since, delta, newVersion, observerVars>>

-----------------------------------------------------------------------------
Tick ==
  /\ clock < MaxTime
  /\ clock' = clock + 1
  /\ UNCHANGED <<faults, writes, serverVars, writerVars, agentVars, syncVars,
                 observerVars>>

(* HashDB.add of one row, import_csv of several with one timestamp, and    *)
(* import_official_csv, which writes no blocklist row but a version.       *)
BeginWrite(w, S) ==
  /\ wpc[w] = "idle" /\ writes < MaxWrites
  /\ writes' = writes + 1
  /\ rows' = [rows EXCEPT ![w] = S]
  /\ stamp' = [stamp EXCEPT ![w] = clock]
  /\ WriterAt(w, "insert")
  /\ UNCHANGED <<clock, faults, serverVars, agentVars, syncVars, observerVars>>

\* INSERT OR REPLACE of every row, one transaction.
InsertRows(w) ==
  /\ wpc[w] = "insert"
  /\ addedAt' = [i \in Indicators |->
                   IF i \in rows[w] THEN stamp[w] ELSE addedAt[i]]
  /\ WriterAt(w, "bump")
  /\ late' = IF stamp[w] <= announced THEN late \cup rows[w] ELSE late \ rows[w]
  /\ torn' = IF \E s \in Syncs : spc[s] = "version" THEN torn \cup rows[w]
                                                     ELSE torn \ rows[w]
  /\ UNCHANGED <<clock, faults, writes, version, rows, stamp, agentVars,
                 syncVars, announced>>

\* _bump_version reads the clock, then writes.
StampVersion(w) ==
  /\ wpc[w] = "bump"
  /\ stamp' = [stamp EXCEPT ![w] = clock]
  /\ WriterAt(w, "write")
  /\ UNCHANGED <<clock, faults, writes, serverVars, rows, agentVars, syncVars,
                 observerVars>>

WriteVersion(w) ==
  /\ wpc[w] = "write"
  /\ version' = stamp[w]
  /\ rows' = [rows EXCEPT ![w] = {}]
  /\ stamp' = [stamp EXCEPT ![w] = 0]
  /\ WriterAt(w, "idle")
  /\ announced' = IF stamp[w] > announced THEN stamp[w] ELSE announced
  /\ UNCHANGED <<clock, faults, writes, addedAt, agentVars, syncVars, late,
                 torn>>

\* The writer's process dies; a row may stay without its version.
WriterDies(w) ==
  /\ Fault
  /\ wpc[w] # "idle"
  /\ rows' = [rows EXCEPT ![w] = {}]
  /\ stamp' = [stamp EXCEPT ![w] = 0]
  /\ WriterAt(w, "idle")
  /\ UNCHANGED <<clock, writes, serverVars, agentVars, syncVars, observerVars>>

-----------------------------------------------------------------------------
(* syncSignatures, and the two routes it calls.                            *)

\* GET /v1/signatures/version
AskVersion(s) ==
  /\ spc[s] = "idle"
  /\ remote' = [remote EXCEPT ![s] = version]
  /\ SyncAt(s, "compare")
  /\ UNCHANGED <<clock, faults, writes, serverVars, writerVars, agentVars, since,
                 delta, newVersion, observerVars>>

UpToDate(s) ==
  /\ spc[s] = "compare"
  /\ remote[s] = localVersion
  /\ remote' = [remote EXCEPT ![s] = 0]
  /\ SyncAt(s, "idle")
  /\ UNCHANGED <<clock, faults, writes, serverVars, writerVars, agentVars, since,
                 delta, newVersion, observerVars>>

AskUpdates(s) ==
  /\ spc[s] = "compare"
  /\ remote[s] # localVersion
  /\ remote' = [remote EXCEPT ![s] = 0]
  /\ since' = [since EXCEPT ![s] = localVersion]
  /\ SyncAt(s, "entries")
  /\ UNCHANGED <<clock, faults, writes, serverVars, writerVars, agentVars, delta,
                 newVersion, observerVars>>

\* entries_since: rows of a second after the client's version.
ReadEntries(s) ==
  /\ spc[s] = "entries"
  /\ delta' = [delta EXCEPT ![s] = [i \in Indicators |->
                 IF addedAt[i] > since[s] THEN addedAt[i] ELSE 0]]
  /\ SyncAt(s, "version")
  /\ UNCHANGED <<clock, faults, writes, serverVars, writerVars, agentVars, remote,
                 since, newVersion, observerVars>>

\* version(); the answer is signed and the agent accepts it.
ReadVersion(s) ==
  /\ spc[s] = "version"
  /\ newVersion' = [newVersion EXCEPT ![s] = version]
  /\ SyncAt(s, "apply")
  /\ UNCHANGED <<clock, faults, writes, serverVars, writerVars, agentVars, remote,
                 since, delta, observerVars>>

\* applyBlocklistDelta: one Room upsert.
ApplyDelta(s) ==
  /\ spc[s] = "apply"
  /\ local' = [i \in Indicators |->
                 IF delta[s][i] # 0 THEN delta[s][i] ELSE local[i]]
  /\ SyncAt(s, "store")
  /\ UNCHANGED <<clock, faults, writes, serverVars, writerVars, localVersion,
                 savedVersion, remote, since, delta, newVersion, observerVars>>

StoreVersion(s) ==
  /\ spc[s] = "store"
  /\ localVersion' = newVersion[s]
  /\ since' = [since EXCEPT ![s] = 0]
  /\ delta' = [delta EXCEPT ![s] = NoRows]
  /\ newVersion' = [newVersion EXCEPT ![s] = 0]
  /\ SyncAt(s, "idle")
  /\ UNCHANGED <<clock, faults, writes, serverVars, writerVars, local, savedVersion,
                 remote, observerVars>>

\* SharedPreferences writes its file in the background.
SavePrefs ==
  /\ savedVersion # localVersion
  /\ savedVersion' = localVersion
  /\ UNCHANGED <<clock, faults, writes, serverVars, writerVars, local, localVersion,
                 syncVars, observerVars>>

\* A network error, or a bundle the verifier refuses: the exception leaves
\* the base and the version alone.
SyncFails(s) ==
  /\ Fault
  /\ spc[s] \in {"compare", "entries", "version", "apply"}
  /\ remote' = [remote EXCEPT ![s] = 0]
  /\ since' = [since EXCEPT ![s] = 0]
  /\ delta' = [delta EXCEPT ![s] = NoRows]
  /\ newVersion' = [newVersion EXCEPT ![s] = 0]
  /\ SyncAt(s, "idle")
  /\ UNCHANGED <<clock, writes, serverVars, writerVars, agentVars,
                 observerVars>>

\* The system kills the agent: coroutines stop, unsaved preferences are lost.
AgentKilled ==
  /\ Fault
  /\ localVersion' = savedVersion
  /\ spc' = [s \in Syncs |-> "idle"]
  /\ remote' = [s \in Syncs |-> 0]
  /\ since' = [s \in Syncs |-> 0]
  /\ delta' = [s \in Syncs |-> NoRows]
  /\ newVersion' = [s \in Syncs |-> 0]
  /\ UNCHANGED <<clock, writes, serverVars, writerVars, local, savedVersion,
                 observerVars>>

-----------------------------------------------------------------------------
Write(w) == InsertRows(w) \/ StampVersion(w) \/ WriteVersion(w)

Sync(s) ==
  \/ AskVersion(s) \/ UpToDate(s) \/ AskUpdates(s) \/ ReadEntries(s)
  \/ ReadVersion(s) \/ ApplyDelta(s) \/ StoreVersion(s)

Next ==
  \/ Tick
  \/ \E w \in Writers : WriterDies(w) \/ Write(w)
                        \/ \E S \in SUBSET Indicators : BeginWrite(w, S)
  \/ \E s \in Syncs : Sync(s) \/ SyncFails(s)
  \/ SavePrefs \/ AgentKilled

Spec == Init /\ [][Next]_vars

(* A writer that started goes on, and the agent synchronises again and     *)
(* again (WorkManager's periodic work): faults being bounded, each of      *)
(* these ends.  Nobody has to write.                                       *)
Fairness ==
  /\ \A w \in Writers : WF_vars(Write(w))
  /\ \A s \in Syncs : WF_vars(Sync(s))

FairSpec == Spec /\ Fairness

-----------------------------------------------------------------------------
Rows == [Indicators -> 0 .. MaxTime]

TypeOK ==
  /\ clock \in 1 .. MaxTime
  /\ faults \in 0 .. MaxFaults /\ writes \in 0 .. MaxWrites
  /\ addedAt \in Rows /\ version \in 0 .. MaxTime
  /\ wpc \in [Writers -> {"idle", "insert", "bump", "write"}]
  /\ rows \in [Writers -> SUBSET Indicators]
  /\ stamp \in [Writers -> 0 .. MaxTime]
  /\ local \in Rows
  /\ localVersion \in 0 .. MaxTime /\ savedVersion \in 0 .. MaxTime
  /\ spc \in [Syncs -> {"idle", "compare", "entries", "version", "apply",
                       "store"}]
  /\ remote \in [Syncs -> 0 .. MaxTime] /\ since \in [Syncs -> 0 .. MaxTime]
  /\ delta \in [Syncs -> Rows] /\ newVersion \in [Syncs -> 0 .. MaxTime]
  /\ announced \in 0 .. MaxTime
  /\ late \subseteq Indicators /\ torn \subseteq Indicators

\* A version the agent has, or is about to have, is one the server announced.
NeverAhead ==
  /\ announced <= clock
  /\ localVersion <= announced /\ savedVersion <= announced
  /\ \A s \in Syncs : newVersion[s] <= announced

(* The heart of delta synchronisation: an agent at version v has a copy of *)
(* every row up to v, since it will never ask for those again, and v is    *)
(* not in the server's future, where rows would still be stamped below it. *)
(* It holds while writers overlap, answers are lost, the agent is killed   *)
(* between its two writes and synchronisations overlap.  A row can be      *)
(* missed in two ways only: it was inserted with a time that a version had *)
(* already reached, or between the two reads of an answer.                 *)
NothingSkipped ==
  /\ NeverAhead
  /\ \A i \in Indicators \ (late \cup torn) :
       addedAt[i] # 0 /\ addedAt[i] <= localVersion => local[i] # 0

-----------------------------------------------------------------------------
Replica == INSTANCE ListReplica WITH
  Keys <- Indicators,
  listed <- {i \in Indicators : addedAt[i] # 0},
  local <- {i \in Indicators : local[i] # 0}

(* What the verdicts of an agent rely on (module Verdicts), whatever is    *)
(* late, torn, lost or repeated: the agent's table only grows, by rows     *)
(* that were published, and no detection disappears with a delta           *)
(* (SignatureStore.applyBlocklistDelta upserts).                           *)
ImplementsReplica == Replica!Spec

-----------------------------------------------------------------------------
(* Row and version are both committed: the write is over, or the row of a  *)
(* writer that died went out with the version of a later write.            *)
Written(i) == addedAt[i] # 0 /\ addedAt[i] <= version

\* A slower writer has put an older version over a newer one.
SetBack == version < announced

(* governance.py:122-123 of approve: the indicator "reaches agents at      *)
(* their next delta synchronisation", unless the row is late or torn, or   *)
(* the version that published it was set back.                             *)
ReachesAgents ==
  \A i \in Indicators :
    Written(i) ~> local[i] # 0 \/ i \in late \cup torn \/ SetBack

(* The same promise, less what hashdb.py:211-212 says of rows of a second  *)
(* that counts as delivered: it does not expect a torn answer.             *)
ApprovedReachAgents ==
  \A i \in Indicators : Written(i) ~> local[i] # 0 \/ i \in late \/ SetBack
=============================================================================
