# FasoShield: TLA+ models and proofs

FasoShield is a mobile antivirus: a Python platform (FastAPI service, SQLite
or PostgreSQL, a signature base, a console for analysts) and an Android agent
written in Kotlin.  This directory holds TLA+ specifications of the parts of
it in which several actors share state, the TLC configurations that check
them, and theorems that TLAPS checks.  Paths below are relative to the root
of the repository; `agent/` stands for
`android/app/src/main/java/bf/fasoshield/agent/`.

## 1. The system

| Component | State it keeps | Operations | Hard behaviour | What makes it correct |
|---|---|---|---|---|
| Deferred scan queue (`jobs.py`, `routes/scan.py`) | `scan_jobs`, the staging directory | stage an upload, enqueue, claim, run, record the outcome, delete the file | workers in several processes claim by a conditional UPDATE; any step may raise; any process may die | one worker per job, no file lost before its outcome, a DONE job is true, every queued job is claimed |
| Quarantine stores (`storage.py`) | files by SHA-256, locally or in S3 | `put` | a copy that is cut short | what a DONE job refers to is there, and whole |
| Signature base (`engine/hashdb.py`, `routes/signatures.py`) | `blocklist`, `official_apps`, `meta.version` in `signatures.db` | add, imports, `version`, `entries_since` | a row and its version are two transactions; an answer is two reads; versions are seconds | an agent at version v holds every row up to v |
| Agent synchronisation (`AgentRepository.syncSignatures`, `SignatureStore`, `Prefs`) | the local base, `signatureVersion` | compare, download, verify, apply, store the version | two callers, kills, preferences written later | nothing is skipped, every row arrives |
| Bundle signing (`signing.py`, `BundleVerifier.kt`) | none | sign, verify | a canonical form shared by two languages | a refused bundle changes nothing |
| Review workflow (`governance.py`, `routes/governance.py`) | `signature_proposals`, `audit_events`, and the blocklist | propose, submit, approve, reject | check, then write in three transactions; requests overlap | four eyes, what is PUBLISHED is detected, what is REJECTED is not, an honest trail |
| Accounts and sessions (`accounts.py`, `routes/auth.py`, `deps.py`) | `analyst_accounts`, `analyst_sessions` | create, PATCH (password, role, status), log in, log out, resolve a session | three commits per PATCH; logins and other requests overlap with a revocation; the last administrator | a revoked session never comes back, an administrator is left, no change of another's account is answered without an event |
| Detections and telemetry (`AgentRepository.kt`, `Daos.kt`, `routes/telemetry.py`) | the `detections` table, `telemetry_events` | scan, insert, flush, mark, prune | flushes overlap; answers get lost; a row the platform refuses | nothing owed is forgotten, everything acceptable is reported, duplicates are bounded |
| Download watcher (`ApkDownloadWatcher.kt`, `ProtectionService.kt`) | a watermark in seconds | observe, query, inspect, advance | passes overlap, kills, late permission | the watermark passes no APK nobody looked at |
| Scan engine, reputation, agent scan (`engine/`, `routes/reputation.py`, `agent/scan/`) | the corpus's verdict, `official_apps`, the last result on the device | scan, score, look a hash up, merge, triage | lists change between two steps; lookups fail; the rules exist in two languages | a lookup only adds, a listed application ends up convicted, the two copies of the rules agree |
| Rate limiter (`api/middleware.py`) | token buckets in the memory of a process | take a token or refuse | lazy refill with readings of a clock, callers that share a bucket, a restart | no window exceeds a burst and the rate |
| Intelligence export (`intel.py`, `routes/intel.py`, `cli.py`) | none; it reads `blocklist` and writes `audit_events` | STIX and MISP documents, through the API or the command | exports overlap with writes, are cut, fail or get lost; the partner imports by identifier | identifiers mean one thing, relationships resolve, what left is audited |
| Statistics, console page, CLI, settings, wiring, Android screens, presentations, CI | none of their own | | | not modelled |

How they interact: a request stages an upload and either scans it or leaves a
row of `scan_jobs` to the workers; both write the corpus and the quarantine.
An approval (or a CLI import) writes the signature base; the agent copies it
by deltas and a partner CERT by exports, both behind the rate limiter.  The agent's scans and its watcher write the detections table, and
its workers send it to the platform.  Everything is shared through databases,
files or HTTP.  Nothing is passed in memory between threads except, on the
agent, the preferences and the flag that the screen calls `scanning`.

`PROJECT.json` lists every component with its status, every hazard at its
line, and the source lines of every definition.

## 2. The modules

Each specification is at the granularity at which another process can see or
change the shared state: one step per database transaction, file operation,
DAO call, request or read of the clock.  Operators that end in `_Something`,
in the part of each module headed *Seeded bugs*, are wrong versions of an
action.  They belong to no specification; each exists to show that a property
fails when the code has that mistake.

Some modules have *observers*: variables that steps write and no guard reads,
so that they constrain nothing.  They record that something the code does not
prevent has happened to a row, a file or a proposal, and properties speak about
everything else in the same behaviour.  They stand where one would otherwise
assume that it does not happen.

### ScanQueue, WorkQueue
`ScanQueue` has two kinds of processes, the worker threads and one request per
upload.  `status`, `created`, `verdict` are columns of `scan_jobs`; `corpus`
and `scanCount` of `samples`; `staged` and `quarantine` are files.
`StageUpload` to `ScanInline` are `POST /v1/scan`; `SelectOldest`, `Claim` and
`LoseRace` are `claim_next`, and `FailClaim` is an error of the database in
one of its statements, the last of which comes after its commit; `ScanFile` to `Unlink` are `run_job` and
`persist_sample`, which the inline scan shares.  `FailUpsert` keeps what the
code does when the session's flush fails: the commit of the `finally` clause
raises as well.  The engine's verdict is nondeterministic, since the signature
base may change between two scans of one content.  `WorkQueue` is the promise
of a queue (submit, take, complete, abandon); `ScanQueue!ImplementsWorkQueue`
is the refinement: `CommitJob` is Submit, `Claim` is Take, `FinishJob` is
Complete, an exception after the claim or a kill is Abandon.

### SignatureFeed, ListReplica
`BeginWrite`, `InsertRows`, `StampVersion`, `WriteVersion` are
`HashDB.add`/`import_csv` and `_bump_version`: two commits and two readings of
a clock in seconds.  `AskVersion` to `StoreVersion` are `syncSignatures` with
the two routes it calls; `ReadEntries` and `ReadVersion` are separate because
`signature_updates` opens two connections.  A copy is identified by its
`added_at`.  `localVersion` is what the running process sees of the
preferences, `savedVersion` what a restart finds.  Writers overlap, and may
set the version back (`SetBack`).  The observers mark the two ways in which a
row can be missed: `late` rows were inserted with a time that a version had
reached (`announced` is the highest one), which `hashdb.py:211-212` accepts for
rows of the same second ("considered already delivered"), and `torn` rows
between the two reads of an answer, which no document accepts:
`feed_torn_update` shows one.  A row that is published again is neither, until
it is one again.  `MaxWrites` bounds the writes, `MaxFaults` the deaths of
writers, lost answers and kills of the agent.

`ListReplica` is what all this guarantees without any excuse: the agent's table
only grows, and only by published rows.  `SignatureFeed!ImplementsReplica` is
the refinement, and `Verdicts` takes its `Publish` and `Sync` from it.

### Governance, ReviewWorkflow
A request reads the proposal and checks it (`StartSubmit`, `StartApprove`,
`StartReject`), then writes: `Publish` the blocklist, `CommitStatus` the
proposal, `RecordAudit` the trail.  Nothing is checked again, as in the code.
`Propose` and `Import` complete it; `Fail` ends a request after any commit.
`RowKey` is the primary key of the blocklist, where a certificate is stored
under a derived key.  Three observers mark proposals: `raced` when a request
passed its checks before another one's commit, `cut` when an approval ended
between its row and its commit, `unaudited` when a publication ended before its
event.  `ReviewWorkflow` is the diagram that opens `governance.py`.  The refinement
lets a publication take effect when the blocklist is written, which is before
the status is committed, and maps a proposal that is raced or cut to the stage
`DISPUTED`, of which the workflow promises nothing: each proposal follows the
diagram up to that step, whatever happens to others.  `RowsFromReview` says
what the rows of the blocklist still tell of any proposal, disputed or not.

### Accounts
`StartLogin` and `OpenSession` are a login, whose session row is committed
after the password was checked and whatever became of the account since.
`ReadSession` and `ReadAccount` are the two reads of `resolve_session`, after
which an administrative request trusts what it read.  A PATCH starts with
`StartPatch` and applies its fields in the order of `update_account`, each in
a transaction of its own; a revocation is a DELETE (`Revoke`), which fixes the
set `doomed`, and its COMMIT.  Each field selects the account anew (`Require`,
which is `_require`: the session holds its objects weakly, and nothing else
holds this one between two fields); `known` is what it selected, and an
attribute equal to it is not written.  A request may end at any
step.  `exact` says whether the path spells the username as it is stored:
`_require` normalises it and `revoke_sessions` does not.  The command line
acts as `Nobody`.

### AccountTrail
`Accounts` composed with the event of `update_account`.  `changes` says that
its dictionary is not empty (`Apply`).  A request that ends at any step in
`Accounts` is told apart here: it writes its event (`Record`), has none to write
(`Return`), is refused with a 409 (`Refuse`) or fails (`Fail`).  The commands
have no dictionary, and `Return` without an event.  The history variable `owed`
says that a request has committed a field.

### TelemetryOutbox, EventDelivery
Coroutines (the daily worker, `runScan`, `NewPackageWorker`, the watcher)
insert rows, prune, read the unreported ones, send and mark them.  `Deliver`
is a request whose answer arrives; `SendFails` covers both a request that never
arrived and an answer that got lost; `Refuse` is a 422.  `received` counts the
platform's events of a row.  `EventDelivery` is the promise: a detection is
owed, received, then settled, in this order and for good; what the platform
refuses stays owed.  A row that is marked or pruned is settled, and since ids
are not reused a flush that still holds it changes nothing.

### DownloadWatcher
`StartProcess` is the creation of the service, which looks at the file access
once; `DownloadFile` adds a MediaStore row and notifies; `BeginPass` to
`EndPass` are `inspectNewDownloads`.  `Kill` is also what Android does to the
process when the user takes the access back.  `watermark` and `saved` are the
preference in memory and on disk.  The observer `tied` marks files added in a
second that already had one.

### Verdicts
A behaviour is about one application.  A finding is the name of its rule, so
that a set of findings is what `_dedupe` leaves, and `app.traits` are the rules
whose condition the APK meets.  `Severity`, `Score` and `VerdictOf` are
`models.py` and `Scoring`; `Server*` are the rules of `heuristics.py`, `Agent*`
those of `Heuristics.kt`, kept apart because the code has them twice.
`StartScan` and `FinishScan` are `scan_file`; `Publish` and `ImportOfficial`
are the writes of the two lists.  Two rows of the blocklist can name the
application: the row of its own digest, and a row of another file that carries
its certificate (`Rows`).  No row is ever removed, but `INSERT OR REPLACE`
writes the certificate anew: a digest that is published again without one
(an approval of a file does that) leaves its row without.  `signed` are the
rows that carry the certificate, `localSigned` the agent's copies that do, and
the observer `replaced` marks rows whose certificate a later publication
changed.  `Sync` is any delta that `ListReplica` allows, also a partial one, and
an old one too: an answer that another synchronisation overtook may bring a
replaced row as it was.  `ScanPackage` is the offline pass; `StartAppScan` runs
it every day and at the button, for every application but those of the ROM
(`AppScanner.kt:40`), and `ScanNewPackage` when any package is installed or
replaced.  `SettleAppScan` and `LookupFails` are the two outcomes of
`withReputation`, a request later.  `Assess` is the check of a downloaded file:
it keeps no state of its own, so that it is an operator.  `AgentRegistry` is
empty because `replaceOfficialApps` has no caller.  `Shown` is the verdict on
the screen.

### RateLimiter, IntelSharing
`RateLimiter` is `RateLimitMiddleware`: `Admit` and `Deny` are `_allow` with its
two answers, `Forget` is the end of the process.  Time is in seconds and a token
is 60 units, so that a bucket gains `PerMinute` units a second and no fraction
is lost.  `opened` and `admitted` observe one window and are read by no action.
Its actions take the time as a parameter and `IntelSharing` makes them part of
its own: `RequestExport` and `OtherRequest` are admitted, `RefuseRequest` is a
429.  An export then takes `ReadExport` (the query of `entries` or
`entries_since` with its cut), `BuildDocument` (`stix_bundle` or `misp_event`,
with identifiers that stand for the strings the UUIDs are derived from),
`RecordAudit` and `Deliver`; `RunCommand` is `fasoshield intel`, which has
neither limiter nor event.  `WriteRows` is any transaction on the blocklist.
`Cut` is the limit, which the routes keep positive and the command does not.
The attributes of an event are values, the certificate of a row that has one and
the digest of any other.  `partner` is what the receiver has imported; it, the
mark `whole` on an event and the keys of its attributes exist only in the
model, and the observer `recert` marks rows whose certificate was replaced.  The telemetry of the outbox passes
the same limiter: a 429 is one of its `SendFails`, and the two are not composed,
since a bucket that other phones keep empty refuses a phone for ever.

`MC*` modules hold the constants and symmetry sets of TLC's instances,
`*Proofs` modules the theorems.

## 3. The runs

| Run | Instance | What it shows |
|---|---|---|
| `scanqueue` | 2 workers, 2 uploads of one content, either quarantine, any fault of the pipeline, 1 kill, stop or failed claim | `WorkQueue` is implemented, so that claims are exclusive; they are in order, files outlive their jobs, DONE is backed (in object storage by whole files), no upload is counted twice, every queued job is claimed |
| `scanqueue_lost_outcome` | 2 workers, no fault, no kill | violation: a job stays RUNNING without a worker |
| `feed` | 2 overlapping writers, 1 row, 2 synchronisations, 3 seconds, 2 writes, 2 faults | an agent at a version has every row up to it that is not late or torn and its version is none of the future (`NothingSkipped`), every such row arrives unless the version stays set back, the agent's table implements `ListReplica` |
| `feed_torn_update` | 1 writer, 1 synchronisation, a write between the reads of an answer | violation: its row never arrives |
| `governance` | 2 analysts, 2 overlapping requests, 2 proposals, 1 failure, imports | four eyes, an honest trail, no row of a draft, nor of a rejected proposal that was not disputed, detection of what is published, an event of each publication whose request was not killed at it, `ReviewWorkflow` is implemented |
| `governance_both_decide` | 2 overlapping requests, no failure | violation: REJECTED and in the blocklist |
| `accounts` | 2 accounts, 2 requests and the command line, 2 sessions, 4 bodies, 1 revocation of each account | a session that was open when its account was revoked never comes back; an administrator is left unless one was demoted, disabled from the command line or disabled while at work; a request that changed another's account is not answered without an event (`OthersRecorded`) |
| `outbox` | 4 coroutines, 2 rows of which one is refused, 1 failure | `EventDelivery` is implemented, duplicates are bounded, acceptable rows are reported |
| `watcher` | 2 overlapping passes, 2 APKs and a photo, 2 seconds, 1 fault | the watermark skips no APK but a tied one, every other APK is looked at, unless the access is taken back |
| `verdicts` | 7 applications, 1 failed lookup, 1 row published again with another certificate, both lists growing | lookups only add, a conviction of the platform is shown and its suspicion convicts nothing that is clean (`OnlineOnlyAdds`); the two rule sets agree; the download's check and the scan agree; trusted applications whose certificate the scan did not find listed stay quiet; a row that keeps naming an application by what its daily scan sees convicts it in the end (`ListedStaysConvicted`) |
| `verdicts_clone` | the same, no failed lookup and no replaced row | violation: a clone of a pinned official package is shown clean for ever |
| `sharing` | 2 digests, rows with and without a certificate, full and cut exports, 1 caller with a burst of one and a token every two seconds, 2 seconds, 2 writes, 2 exports, 1 fault or restart | the partner's objects stay consistent, two events of the whole base under one identifier list the same rows and differ only in values of rows whose certificate was replaced between them (`EventNamesBase`), what left through the API is audited, no window exceeds its budget |

Bounds.  The interesting cases need two actors on one datum: two workers and
two jobs (a race and a job left waiting), two uploads of one content (two
first scans), two requests on one proposal, a file and a certificate with the
same digest, two passes with different watermarks, one row beside a refused
one, two exports around a replaced row, a row that carries the certificate
another row is filed under.  The clocks stop at `MaxTime`: three seconds give the two writes of the
feed any order of stamps, equal or not, and a third moment for the version of a
write that died; two let the three files of the watcher be tied or not.  The
feed has one row, which two writers replace: with several, none depends on
another.  The run of the workflow has no administrator, whose submissions for
an author make it seven times larger; the theorems hold for any set of them.  The applications of `verdicts`
have scores on both sides of both thresholds, with and without the finding
that a sideload adds, each kind of provenance (trusted and scanned every day,
trusted and of the ROM, neither), both kinds of certificate, and a file that
the platform cannot parse; one replaced row is enough to take a certificate off
one row while another keeps it.  The theorems hold for any set of applications
and any number of replaced rows.  `MaxFailures` and `MaxFaults` bound kills,
lost answers and database or query errors; one is enough because every failure
erases the coroutine state and leaves only what the following steps must cope
with, and the theorems hold for any number.  Faults of `scanqueue` and ends
of requests in `accounts` have no budget: they may happen at any step, any
number of times.  `MaxStops` bounds the kills of a worker and the errors of
its claims, since a thread that is killed for ever, or whose database refuses
for ever, claims nothing.
`MaxRevocations` bounds the history that `RevokedForGood` compares: one
revocation is enough to part the sessions before it from those after, and an
account can be enabled again.  A burst of one token and two seconds to earn
the next put a request on each side of the refill; both exports fall into one
day, which is the case in which their identifiers may meet.  Symmetry is declared where no liveness
property is checked and no action names an element.  Deadlock is off only for
the watcher, where the clock ends and all files are there.

Fairness.  `ScanQueue`: threads are scheduled (weak fairness of each worker),
and clients owe nothing.
`SignatureFeed`: a writer that started goes on, and WorkManager repeats
the synchronisation (`ScanWorker.schedule`).  `Verdicts`: the same worker
scans, a scan that started ends, and each row arrives on the device in the end
(`SignatureFeed!ReachesAgents` says which do not); nobody has to upload or
publish anything, or to install an application again.  `TelemetryOutbox`: coroutines run, and the
periodic worker starts again; nobody has to press the button or install
anything.  `DownloadWatcher`: passes run, and Android restarts a sticky
service.  Weak fairness is enough everywhere: no property waits for an action
that others keep disabling.

## 4. The theorems

All hold for every value of the constants, under the named assumptions on
them.  `Spec => []P` is proved from an inductive invariant, with one case per
action.

| Module | Assumes | Theorems | Argument |
|---|---|---|---|
| ScanQueueProofs | finitely many uploads | `TypeCorrect`, `Exclusive`, `NeverLost`, `Backed`, `Counted`, `InOrder`, `QueueImplemented` | `QueueInv` adds where a job can be: a worker between its commit and its unlink holds a job with an outcome (otherwise the unlink could take the file of a job that waits), and a request that has not answered has no job row. `BackedInv` adds the effects of the steps that a verdict has passed. `CountInv` gives each upload one credit, which it has until it is counted: the count, and each stale copy of it that a process is about to increment, stays within the credits that are gone. `OrderInv` says that a worker's choice is older than the appearance of whatever waits. The refinement needs `QueueInv` in every step |
| SignatureFeedProofs | nothing | `Complete`, `FeedTyped`, `ReplicaImplemented` | `FeedInv`: each version that the agent has, or is about to have, was announced and is covered by its rows and those of the answer on its way.  A row that is inserted later is not below such a version unless it is late.  Between the two reads of an answer no version bounds what the second will find, so the invariant there covers every row of the base (`AllWith`), and a row inserted then is torn.  The refinement adds that an answer holds only rows of the base |
| GovernanceProofs | nothing | `GovernanceTyped`, `NoSelfApproval`, `PublishedIsDetected`, `TrailTellsTheTruth`, `RowsReviewed`, `WorkflowImplemented`, `PublicationAttributed` | `GovInv` says what each request still knows at each step after others moved the proposal.  `QuietInv`: as long as a proposal is not disturbed at most one request is between its checks and its commit, and what it read is still true; a second one disturbs it. With that each step maps to one of the workflow's, or to Dispute, and a row's proposal is published or about to be |
| TelemetryOutboxProofs | finitely many coroutines | `OutboxTyped`, `NothingForgotten`, `DuplicatesBounded`, `DeliveryImplemented` | `OutboxInv`: the row a flush is about to mark is known to the platform. The refinement adds that a flush holds rows that exist and marks one at a time. `CreditInv`: events received plus the coroutines that may still send the row stay within the bound; a send spends one, a failure pays for all |
| AccountsProofs | nothing | `AccountsTyped`, `Revoked`, `AdminKept`, `TrailTyped`, `ForeignChangesRecorded`, `TrailImplementsAccounts` | `RevokedInv`: between the DELETE and the COMMIT of a revocation, each session of the account is about to go or was opened since. `AdminInv`: until a removal that nothing checks, whoever acts is an administrator, and a request that is about to disable an account acts for another. `TrailInv`: a request that applied a field is still changing that account and, if it is of the console, has noted it, so that it ends with an event or refused. Each step of the composition is one of `Accounts`, whose theorems hold of it |
| DownloadWatcherProofs | nothing | `WatcherTyped`, `NoApkSkipped` | `WatchInv`: a pass owes every APK between its `since` and its `newest`, so that ending it, late or early, leaves none behind; a row that appears later is newer, or tied |
| VerdictsProofs | finitely many YARA rules, disjoint from the others | `VerdictsTyped`, `LookupOnlyAdds`, `PortKeepsUp`, `ScanConfirmsTriage`, `TrustedStaysQuiet` | the score counts findings per level, and the cardinality lemmas make the verdict monotone in the findings (`VerdictMonotone`) and bound what one MEDIUM finding adds (`SuspicionDoesNotConvict`, `SuspicionShows`). `VerdictInv` carries from the offline pass to the merge that only an application of no trusted provenance is asked about, and that of a trusted one that no label names only a listed certificate is found |
| IntelSharingProofs | a finite set of blocklist keys | `SharingTyped`, `Consistent`, `EventsNameTheBase`, `Audited`, `BudgetBounded` | `BucketInv`: what a caller got in a window and what its bucket would hold now never exceed the budget. `DocInv`: each document resolves within itself, and identifiers and patterns are made of the same kind and digest. `EventInv`: the rows that whole exports listed form a chain below the base, so that two of one size are equal; `Current`: each attribute is the value that the row has now, unless its certificate was replaced. `AuditInv`: an export of the API at its answer has its event |

Only model-checked: liveness (`EveryJobClaimed`, `ReachesAgents`,
`EventuallyReported`, `EveryApkInspected`, `ListedStaysConvicted`), which is
out of the prover's reach.

## 5. Where the code and its documents disagree

Shown by a run:
- `scanqueue_lost_outcome`: `run_job` is to record success or failure, but two
  first scans of one content leave the loser RUNNING (`jobs.py:104`).
- `feed_torn_update`: an approved indicator is to reach agents at their next
  synchronisation, but one may never arrive (`routes/signatures.py:40`).
- `governance_both_decide`: a rejected proposal is never to reach the
  blocklist, but two decisions at once leave it there (`governance.py:181`).
- `verdicts_clone`: a repackaged clone is to be malicious whatever its source,
  but the registry that would tell never reaches the device
  (`SignatureStore.kt:31`).  With `AgentRegistry` equal to `registry` the same
  property holds.

Met while modelling, and described under the hazards of `PROJECT.json`:
`drain_once` stops early when a pass loses a race; a FAILED job deletes the
only copy of a detected sample; the local quarantine accepts a file that a
kill cut short; the version is not monotonic when writers overlap; an older
answer can replace a newer copy when synchronisations overlap; an import
writes the blocklist beside the workflow; a kill between two commits leaves a
publication without its audit event; telemetry is not exactly once; a file
downloaded in the second of the watermark is never looked at, and one whose
hash meets a passing I/O error is not hashed again; access granted
after the service started arms nothing until it restarts; `AppScanner.kt:16`
speaks of a local blocklist by certificate or APK hash, but an installed
application is never looked up by hash offline, so that a file whose download
the local blocklist convicted may be shown clean until a lookup succeeds;
a password changed, or an account disabled, under another spelling of its name
("Ann") keeps its sessions (`accounts.py:161`), and so does a login whose
password was checked before the change; a PATCH that changes the
role or the password of its own administrator and disables them is refused
after it committed the first and leaves no event (`routes/auth.py:172`), though
`db/models.py:9` speaks of every analyst action; the account commands leave none
either; nothing calls `purge_expired_sessions`;
`permission_hoarding` is missing from the Kotlin rules; the registry being
empty on the device, a genuine official application is reported for its own
brand name; importing the seed registry again, where certificates are blank,
drops the pinned ones; publishing a digest again without a certificate takes
the certificate off its row (`hashdb.py:106`), and once a delta brings the row
so, or a synchronisation that was overtaken brings an older copy, the
certificate no longer convicts on the device; a claim whose refresh fails after
its commit leaves the job RUNNING (`jobs.py:82`).

A suspicion of the platform: `ReputationTest.kt:115-123` says that "on its own
it must not be enough to flag an otherwise clean application" and asserts CLEAN
for a result without findings.  No application that is looked up is without
findings: those of a store, of the ROM and of its updaters are not asked about,
and any other has `sideloaded` (LOW, 10), which with the suspicion (MEDIUM, 25)
passes the threshold of 30.  Every sideloaded application that the platform
suspects is therefore shown SUSPICIOUS, however clean it is otherwise.
`OnlineOnlyAdds` does not demand it: it says that such an answer convicts
nothing.  `TriageAgrees` states it as what the code does, since it compares the
scan with the download's check, which shows a suspicion as it is.

About the limiter: `middleware.py:91-93` says that one device cannot exhaust the
budget of others, but every phone of a fleet presents one agent key and shares
its bucket; behind the reverse proxy that the deployment guide asks for,
requests without a key share the proxy's address, since the middleware reads
`request.client` where `deps.py` honours trusted proxies; with a burst of 1 the
first request of a caller is refused unless two readings of the clock agree;
buckets are never removed while the process lives.

About exports: rows that carry one certificate become several objects of one
identifier, without their file hashes; when a row's threat is renamed the
relationship to the old name stays with the partner, against
`intel.py:10-12`, which promises updates in place; partial exports of one day
with equally many rows share a MISP identifier, and so do two whole exports of
one day around a row whose certificate or threat is replaced, with other
attributes under one identifier; the next day's export of the same rows is a
new event; `entries_since` is not sorted,
so that a cut export holds no particular rows; imported rows are exported
although `intel.py:14` speaks of reviewed ones; and the command writes no audit
event, where `routes/intel.py:3-4` calls sharing recorded.

## 6. Not modelled

APK and DEX parsing, YARA, cryptography, HTTP, the layouts, markings and object
times of STIX and MISP documents, HTML and Android screens: formats and libraries, without state that several
actors share.  Statistics and listings read only.  In the models themselves,
what is left out: the polling of a job, requests whose checks fail, the
permissions and names behind a rule of the scan engine, threat names in
`Verdicts`, the summary counters of the agent, its scans of one application that
overlap, alerts, MediaStore rows that become visible
after their `DATE_ADDED`, the gateway's SSO headers, and the blocking that
SQLite adds to what PostgreSQL allows two transactions.

## 7. Plan

1. `Accounts` composed with `Governance`: a decision needs a live session of
   an analyst.
2. The canonical form of a bundle in its two implementations.
3. Publication: `Governance` and `SignatureFeed` composed, from an approval to
   a row on every device, as `SignatureFeed` and `Verdicts` are through
   `ListReplica`.
