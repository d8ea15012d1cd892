------------------------------ MODULE Verdicts ------------------------------
(***************************************************************************)
(* What the platform and the agent conclude about one application, while   *)
(* the signature base and the registry of official applications grow.      *)
(*                                                                         *)
(* The platform scans an uploaded copy (ScanEngine.scan_file) and keeps    *)
(* the verdict in its corpus.  The agent scans the installed application   *)
(* offline (AppScanner, Heuristics), then asks the platform about the hash *)
(* of those it could not settle (Reputation); it also checks the file when *)
(* it is downloaded (DownloadTriage), whose one effect is a row of the     *)
(* detections table.  Both sides have their own copy of the rules, score   *)
(* findings in the same way and read lists that change between two steps   *)
(* of a scan.                                                              *)
(*                                                                         *)
(* A finding is the name of its rule: one finding per rule is what _dedupe *)
(* leaves.  What a rule looks at in the APK is abstracted to the set of    *)
(* rules whose condition the APK meets, app.traits.                        *)
(***************************************************************************)
EXTENDS Naturals, FiniteSets

CONSTANTS
  Apps,       \* the applications considered; a behaviour is about one of them
  YaraRules,  \* rules of the YARA layer
  YaraLevel,  \* YaraLevel[y]: the severity a YARA rule declares
  MaxReplaced, \* bound on the rows published again with another content
  MaxFaults   \* bound on lost answers and unreadable APKs

Levels == {"INFO", "LOW", "MEDIUM", "HIGH", "CRITICAL"}

HighRules     == {"package_lookalike", "brand_in_label", "sms_exfiltration",
                  "spyware_combo"}
MediumRules   == {"send_sms", "overlay", "dropper", "permission_hoarding",
                  "legacy_target_sdk", "platform_suspicious"}
LowRules      == {"debuggable", "sideloaded"}
CriticalRules == {"hash_blocklist", "cert_blocklist", "cert_mismatch",
                  "platform_malicious"}
OwnRules == HighRules \cup MediumRules \cup LowRules \cup CriticalRules
              \cup {"official_app"}
Rules == OwnRules \cup YaraRules

\* Rules whose condition depends on the APK alone.
Traits ==
  HighRules \cup (MediumRules \ {"platform_suspicious"}) \cup {"debuggable"}

(* cert: the signing certificate, the registry's own one or another;       *)
(* installer: how it came to the device, "generic" for the platform's APK  *)
(* installer and any other that is neither a store nor part of the ROM;    *)
(* valid, certRead: what Androguard manages to parse; yara: the rules that *)
(* match the file.                                                         *)
App == [traits : SUBSET Traits, cert : {"none", "official", "other"},
        installer : {"preinstalled", "store", "oem", "generic", "none"},
        valid : BOOLEAN, certRead : BOOLEAN, yara : SUBSET YaraRules]

ASSUME VerdictsAssumption ==
  /\ IsFiniteSet(Rules)
  /\ YaraRules \cap OwnRules = {}
  /\ YaraLevel \in [YaraRules -> Levels]
  /\ Apps \subseteq App
  /\ MaxReplaced \in Nat
  /\ MaxFaults \in Nat

VARIABLES
  app,       \* the application of this behaviour
  listed,    \* blocklist rows: "own", of its digest, "kin", of another
  signed,    \* those that carry the certificate which signs it
  replaced,  \* observer: rows published again with or without it
  registry,  \* official_apps: "near", an entry its name imitates; "bare" or
             \* "certified", its own package without and with a certificate
  spc,       \* "idle" or "scanning": the platform's scan
  found,     \* findings of that scan so far
  corpus,    \* Sample.verdict, "UNKNOWN" without a row
  local,     \* the agent's copies of rows
  localSigned, \* those that carry the certificate
  apc,       \* "idle" or "asking": the agent's scan
  offline,   \* findings of its offline pass
  result,    \* the last finished scan: its findings and the answer it used
  faults     \* faults so far

lists        == <<listed, signed, replaced>>
copies       == <<local, localSigned>>
platformVars == <<lists, registry>>
scanVars     == <<spc, found, corpus>>
agentVars    == <<apc, offline, result>>
vars == <<app, listed, signed, replaced, registry, spc, found, corpus, local,
          localSigned, apc, offline, result, faults>>

Rows == {"own", "kin"}

Fault == faults < MaxFaults /\ faults' = faults + 1

-----------------------------------------------------------------------------
(* Scoring, the same on both sides.                                        *)

Severity(r) ==
  CASE r \in YaraRules     -> YaraLevel[r]
    [] r \in CriticalRules -> "CRITICAL"
    [] r \in HighRules     -> "HIGH"
    [] r \in MediumRules   -> "MEDIUM"
    [] r \in LowRules      -> "LOW"
    [] OTHER               -> "INFO"

Count(F, level) == Cardinality({r \in F : Severity(r) = level})

Score(F) ==
  10 * Count(F, "LOW") + 25 * Count(F, "MEDIUM") + 45 * Count(F, "HIGH")
    + 100 * Count(F, "CRITICAL")

\* The cap of the score at 100 is above both thresholds.
VerdictOf(F) ==
  IF Count(F, "CRITICAL") > 0 \/ Score(F) >= 70 THEN "MALICIOUS"
  ELSE IF Score(F) >= 30 THEN "SUSPICIOUS" ELSE "CLEAN"

Rank == [CLEAN |-> 0, SUSPICIOUS |-> 1, MALICIOUS |-> 2]

-----------------------------------------------------------------------------
(* Seeded bugs, one mistake each; not part of the specification.           *)

\* The corpus is asked before the blocklist.
Reputation_CorpusFirst ==
  IF corpus = "UNKNOWN" /\ "own" \in listed THEN "MALICIOUS" ELSE corpus

\* The microphone rule was not ported.
AgentPermissions_NoSpyware ==
  app.traits \cap {"sms_exfiltration", "send_sms", "overlay", "dropper"}

\* An unknown installer is not an unofficial one.
InstallSource_Known ==
  {r \in {"sideloaded"} : app.installer \notin {"store", "none"}}

\* Provenance is not looked at.
NeedsLookup_Any(F) == VerdictOf(F) # "MALICIOUS"

\* The platform's opinion overrides the device's.
Merge_Overrides(F, answer) ==
  IF answer \in {"NONE", "UNKNOWN"} THEN F
  ELSE {r \in {"platform_malicious"} : answer = "MALICIOUS"}
         \cup {r \in {"platform_suspicious"} : answer = "SUSPICIOUS"}

-----------------------------------------------------------------------------
(* The rules of the platform, on what it could parse of the APK.           *)

ServerCert == IF app.certRead THEN app.cert ELSE "none"

\* The package is in the registry with the certificate that signs it.
Genuine(entries, cert) == "certified" \in entries /\ cert = "official"

Mismatch(entries, cert) == "certified" \in entries /\ cert # "none"

Unregistered(entries) == {"bare", "certified"} \cap entries = {}

\* Traits that show only while a registered name is imitated.
Imitates(entries) == IF "near" \in entries THEN {"package_lookalike"} ELSE {}

ServerImpersonation ==
  IF Mismatch(registry, ServerCert) THEN {"cert_mismatch"}
  ELSE {r \in {"brand_in_label"} \cup Imitates(registry) :
          r \in app.traits /\ Unregistered(registry)}

ServerPermissions ==
  app.traits \cap {"sms_exfiltration", "send_sms", "overlay", "spyware_combo",
                   "dropper", "permission_hoarding"}

ServerHygiene == app.traits \cap {"debuggable", "legacy_target_sdk"}

ServerHeuristics ==
  IF ~app.valid THEN {}
  ELSE IF Genuine(registry, ServerCert) THEN {"official_app"}
  ELSE ServerImpersonation \cup ServerPermissions \cup ServerHygiene

\* lookup_cert, on a certificate that could be read.
CertHits ==
  {r \in {"cert_blocklist"} : signed # {} /\ ServerCert # "none"}

\* GET /v1/reputation: the blocklist by hash, then the corpus.
Reputation == IF "own" \in listed THEN "MALICIOUS" ELSE corpus

-----------------------------------------------------------------------------
(* The rules of the agent, on what PackageManager says.                    *)

(* The official_apps table of the agent: replaceOfficialApps, which fills  *)
(* it, has no caller.                                                      *)
AgentRegistry == {}

AgentImpersonation ==
  IF Mismatch(AgentRegistry, app.cert) THEN {"cert_mismatch"}
  ELSE {r \in {"brand_in_label"} \cup Imitates(AgentRegistry) :
          r \in app.traits /\ Unregistered(AgentRegistry)}

AgentPermissions ==
  app.traits \cap {"sms_exfiltration", "send_sms", "overlay", "spyware_combo",
                   "dropper"}

AgentHygiene == app.traits \cap {"debuggable", "legacy_target_sdk"}

TrustedProvenance == app.installer \in {"preinstalled", "store", "oem"}

InstallSource == {r \in {"sideloaded"} : app.installer # "store"}

AgentHeuristics ==
  IF Genuine(AgentRegistry, app.cert) THEN {"official_app"}
  ELSE AgentImpersonation
         \cup (IF TrustedProvenance THEN {}
               ELSE AgentPermissions \cup InstallSource \cup AgentHygiene)

\* scanPackage looks certificates up, never hashes.
AgentFindings ==
  {r \in {"cert_blocklist"} : localSigned # {} /\ app.cert # "none"}
    \cup AgentHeuristics

NeedsLookup(F) == VerdictOf(F) # "MALICIOUS" /\ ~TrustedProvenance

\* A conviction is CRITICAL, a suspicion MEDIUM, anything else adds nothing.
Merge(F, answer) ==
  F \cup {r \in {"platform_malicious"} : answer = "MALICIOUS"}
    \cup {r \in {"platform_suspicious"} : answer = "SUSPICIOUS"}

(* assessDownloadedApk and DownloadTriage.assess, on the same file before  *)
(* it is installed: the local blocklist by hash, then the platform.        *)
Assess(answer) ==
  IF "own" \in local THEN "MALICIOUS"
  ELSE IF answer \in {"MALICIOUS", "SUSPICIOUS"} THEN answer ELSE "CLEAN"

Shown == VerdictOf(Merge(result.findings, result.answer))

\* Of the keys of the rows; SignatureFeed implements it.
Replica == INSTANCE ListReplica WITH Keys <- Rows

-----------------------------------------------------------------------------
Init ==
  /\ app \in Apps
  /\ listed = {} /\ signed = {} /\ replaced = {}
  /\ registry \in {{}, {"near"}}
  /\ spc = "idle" /\ found = {} /\ corpus = "UNKNOWN"
  /\ local = {} /\ localSigned = {}
  /\ apc = "idle" /\ offline = {}
  /\ result = [findings |-> {}, answer |-> "NONE"]
  /\ faults = 0

(* A row that names the application, by its digest or by the certificate   *)
(* that signs it: INSERT OR REPLACE.  No row is ever removed, but one that *)
(* is published again may gain or lose the certificate.                    *)
Publish(row, withCert) ==
  /\ row \in listed \/ row = "own" \/ withCert
  /\ Replica!Publish({row})
  /\ signed' = IF withCert THEN signed \cup {row} ELSE signed \ {row}
  /\ replaced' = replaced \cup {r \in {row} \cap listed : signed' # signed}
  /\ Cardinality(replaced') <= MaxReplaced
  /\ UNCHANGED <<app, registry, scanVars, localSigned, agentVars, faults>>

\* import_official_csv of the application's package: INSERT OR REPLACE.
ImportOfficial(entry) ==
  /\ registry' = (registry \cap {"near"}) \cup {entry}
  /\ UNCHANGED <<app, lists, scanVars, copies, agentVars, faults>>

\* The same of an application whose name this one imitates.
ImportImitated ==
  /\ registry' = registry \cup {"near"}
  /\ UNCHANGED <<app, lists, scanVars, copies, agentVars, faults>>

\* scan_file, layers 1 and 2: the hash and the YARA rules.
StartScan ==
  /\ spc = "idle"
  /\ spc' = "scanning"
  /\ found' = {r \in {"hash_blocklist"} : "own" \in listed} \cup app.yara
  /\ UNCHANGED <<app, platformVars, corpus, copies, agentVars, faults>>

\* Seeded bug: an APK that cannot be parsed is an ERROR.
FinishScan_Error ==
  /\ spc = "scanning"
  /\ corpus' = IF ~app.valid THEN "ERROR"
                ELSE VerdictOf(found \cup CertHits \cup ServerHeuristics)
  /\ spc' = "idle"
  /\ found' = {}
  /\ UNCHANGED <<app, platformVars, copies, agentVars, faults>>

\* Certificate, heuristics, verdict; persist_sample replaces the old one.
FinishScan ==
  /\ spc = "scanning"
  /\ corpus' = VerdictOf(found \cup CertHits \cup ServerHeuristics)
  /\ spc' = "idle"
  /\ found' = {}
  /\ UNCHANGED <<app, platformVars, copies, agentVars, faults>>

(* syncSignatures: a delta, which may miss rows and holds no official_apps.*)
(* An answer that overlaps another synchronisation can bring a row as it   *)
(* was before it was replaced.                                             *)
Sync ==
  /\ \E K \in SUBSET listed :
       /\ Replica!Copy(K)
       /\ \E C \in SUBSET K :
            /\ \A r \in K \ replaced : r \in C <=> r \in signed
            /\ localSigned' = (localSigned \ K) \cup C
  /\ UNCHANGED <<app, platformVars, scanVars, agentVars, faults>>

\* scanPackage, before the network is asked.
ScanPackage ==
  /\ apc = "idle"
  /\ apc' = "asking"
  /\ offline' = AgentFindings
  /\ UNCHANGED <<app, platformVars, scanVars, copies, result, faults>>

\* scanInstalledApps, every day or at the user's request, skips the ROM's.
StartAppScan == app.installer # "preinstalled" /\ ScanPackage

\* scanNewPackage, when any package is installed or replaced.
ScanNewPackage == ScanPackage

EndAppScan(answer) ==
  /\ apc = "asking"
  /\ apc' = "idle"
  /\ offline' = {}
  /\ result' = [findings |-> offline, answer |-> answer]
  /\ UNCHANGED <<app, platformVars, scanVars, copies>>

\* withReputation: the platform is asked only about what is not settled.
SettleAppScan ==
  /\ EndAppScan(IF NeedsLookup(offline) THEN Reputation ELSE "NONE")
  /\ UNCHANGED faults

\* No network, or the APK cannot be hashed: the offline verdict stands.
LookupFails == NeedsLookup(offline) /\ EndAppScan("NONE") /\ Fault

Next ==
  \/ \E row \in Rows, withCert \in BOOLEAN : Publish(row, withCert)
  \/ \E entry \in {"bare", "certified"} : ImportOfficial(entry)
  \/ ImportImitated
  \/ StartScan \/ FinishScan \/ Sync
  \/ StartAppScan \/ ScanNewPackage \/ SettleAppScan \/ LookupFails

Spec == Init /\ [][Next]_vars

(* ScanWorker synchronises and scans every day, and a scan that started    *)
(* ends.  A row arrives in the end, unless it is one of those for which    *)
(* SignatureFeed!ReachesAgents promises nothing.  Nobody has to upload or  *)
(* publish anything, or to install the application again.                  *)
Arrives(row) == row \in listed \ local /\ Sync /\ row \in local'

Fairness ==
  /\ \A row \in Rows : WF_vars(Arrives(row))
  /\ WF_vars(StartAppScan) /\ WF_vars(SettleAppScan)

FairSpec == Spec /\ Fairness

-----------------------------------------------------------------------------
Grades == {"CLEAN", "SUSPICIOUS", "MALICIOUS"}

TypeOK ==
  /\ app \in Apps
  /\ listed \subseteq Rows
  /\ signed \subseteq listed /\ replaced \subseteq listed
  /\ local \subseteq listed /\ localSigned \subseteq local
  /\ registry \subseteq {"near", "bare", "certified"}
  /\ spc \in {"idle", "scanning"} /\ found \subseteq Rules
  /\ corpus \in Grades \cup {"UNKNOWN"}
  /\ apc \in {"idle", "asking"} /\ offline \subseteq Rules
  /\ result \in [findings : SUBSET Rules,
                 answer : Grades \cup {"UNKNOWN", "NONE"}]
  /\ faults \in 0 .. MaxFaults

(* Reputation.merge: "the lookup can only add to what the device already   *)
(* decided on its own".  What the user sees is at least as severe as the   *)
(* offline verdict and is a conviction when the platform convicts.  A      *)
(* suspicion of the platform is a nudge: it convicts nothing that the      *)
(* offline pass found clean.                                               *)
OnlineOnlyAdds ==
  LET own == VerdictOf(result.findings) IN
  /\ Rank[own] <= Rank[Shown]
  /\ result.answer = "MALICIOUS" => Shown = "MALICIOUS"
  /\ own = "CLEAN" /\ result.answer = "SUSPICIOUS" => Shown # "MALICIOUS"

(* The Kotlin rules are a port of the Python ones: when both sides have    *)
(* the same rows with its certificate, an offline pass over a sideloaded   *)
(* application is no milder than the platform's certificate and heuristic  *)
(* layers.  Two differences of the code are set apart: permission_hoarding,*)
(* which only the platform has, and the registry, which only the platform  *)
(* fills.                                                                  *)
AgentKeepsUp ==
  /\ ~TrustedProvenance /\ "permission_hoarding" \notin app.traits
  /\ registry = {} /\ localSigned = signed
  => Rank[VerdictOf(ServerHeuristics \cup CertHits)]
       <= Rank[VerdictOf(AgentFindings)]

(* Heuristics.kt:9-12: an application of trusted provenance for which the  *)
(* scan that is shown found no listed certificate, and which no            *)
(* impersonation rule names, is shown clean, whatever its permissions and  *)
(* whatever the platform thinks of its file.                               *)
QuietOnTrusted ==
  /\ TrustedProvenance
  /\ "brand_in_label" \notin app.traits
  /\ "cert_blocklist" \notin result.findings
  => Shown = "CLEAN"

(* DownloadTriage.kt:81-83 warns of a conviction only, since "the agent    *)
(* will scan the application again at install time anyway": a scan with    *)
(* the same lists and the same answer convicts what the download's check   *)
(* convicts, and shows no less than it found suspicious: an application    *)
(* that is looked up has the finding "sideloaded", and the two weigh 35,   *)
(* whatever else is known of it (README, section 5).                       *)
TriageAgrees ==
  ~TrustedProvenance =>
    Rank[Assess(Reputation)]
      <= Rank[VerdictOf(Merge(AgentFindings, Reputation))]

(* The blocklist names the application in a way that its daily scan sees:  *)
(* by its digest, or by the certificate of a row which no later            *)
(* publication replaced by one with another certificate or none.           *)
Convicting ==
  \/ "own" \in listed /\ ~TrustedProvenance
  \/ /\ signed \ replaced # {}
     /\ app.cert # "none" /\ app.installer # "preinstalled"

(* An application that stays named this way ends up shown as malicious,    *)
(* and no platform verdict, registration or older synchronisation takes    *)
(* that back.  A lookup that fails does take back what a digest convicts,  *)
(* until the next scan: for good means once lookups stop failing, as they  *)
(* do after MaxFaults.                                                     *)
ListedStaysConvicted == <>[]Convicting => <>[](Shown = "MALICIOUS")

(* Heuristics.kt:87-89: a repackaged clone, an official package signed by  *)
(* another certificate, "is malicious whatever its source".                *)
CloneConvicted ==
  <>[]("certified" \in registry /\ app.cert = "other")
    => <>[](Shown = "MALICIOUS")
=============================================================================
