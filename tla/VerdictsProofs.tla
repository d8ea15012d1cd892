--------------------------- MODULE VerdictsProofs ---------------------------
(***************************************************************************)
(* Scoring is monotone in the findings, and what follows from it for the   *)
(* verdicts of the two sides: for any applications, YARA rules and faults. *)
(***************************************************************************)
EXTENDS Verdicts, FiniteSetTheorems, TLAPS

(* How many findings of a level there are, among the rules.                *)
LEMMA CountTyped ==
  ASSUME NEW F \in SUBSET Rules, NEW level
  PROVE  /\ IsFiniteSet({r \in F : Severity(r) = level})
         /\ Count(F, level) \in Nat
<1>1. IsFiniteSet({r \in F : Severity(r) = level})
  BY FS_Subset, VerdictsAssumption
<1>2. QED
  BY <1>1, FS_CardinalityType DEF Count

(* A finding more never lowers a count.                                    *)
LEMMA CountMonotone ==
  ASSUME NEW G \in SUBSET Rules, NEW F \in SUBSET G, NEW level
  PROVE  Count(F, level) <= Count(G, level)
<1>1. {r \in F : Severity(r) = level} \subseteq {r \in G : Severity(r) = level}
  OBVIOUS
<1>2. IsFiniteSet({r \in G : Severity(r) = level})
  BY CountTyped
<1>3. QED
  BY <1>1, <1>2, FS_Subset DEF Count

(* One finding more raises the count of its level by at most one.          *)
LEMMA CountAdd ==
  ASSUME NEW F \in SUBSET Rules, NEW r \in Rules, NEW level
  PROVE  /\ Count(F \cup {r}, level) <= Count(F, level) + 1
         /\ Severity(r) # level => Count(F \cup {r}, level) = Count(F, level)
<1> DEFINE A == {x \in F : Severity(x) = level}
           B == {x \in F \cup {r} : Severity(x) = level}
<1>1. IsFiniteSet(A) /\ Cardinality(A) \in Nat
  BY CountTyped, FS_CardinalityType
<1>2. B = IF Severity(r) = level THEN A \cup {r} ELSE A
  OBVIOUS
<1>3. /\ Count(F, level) = Cardinality(A)
      /\ Count(F \cup {r}, level) = Cardinality(B)
  BY DEF Count
<1> HIDE DEF A, B
<1>4. Cardinality(A \cup {r}) <= Cardinality(A) + 1
  BY <1>1, FS_AddElement
<1>5. QED
  BY <1>1, <1>2, <1>3, <1>4

(* A finding of a level counts.                                            *)
LEMMA CountMember ==
  ASSUME NEW F \in SUBSET Rules, NEW r \in F
  PROVE  Count(F, Severity(r)) >= 1
<1>1. Count({r}, Severity(r)) = 1
  <2>1. {x \in {r} : Severity(x) = Severity(r)} = {r}
    OBVIOUS
  <2>2. QED
    BY <2>1, FS_Singleton DEF Count
<1>2. Count({r}, Severity(r)) <= Count(F, Severity(r))
  BY CountMonotone
<1>3. QED
  BY <1>1, <1>2, CountTyped

(* A verdict is one of three.                                              *)
LEMMA VerdictTyped == \A F : VerdictOf(F) \in Grades
  BY DEF VerdictOf, Grades

(* compute_verdict is monotone: a finding more never makes a verdict       *)
(* milder.                                                                 *)
LEMMA VerdictMonotone ==
  ASSUME NEW G \in SUBSET Rules, NEW F \in SUBSET G
  PROVE  Rank[VerdictOf(F)] <= Rank[VerdictOf(G)]
<1>1. \A level \in Levels :
        /\ Count(F, level) \in Nat /\ Count(G, level) \in Nat
        /\ Count(F, level) <= Count(G, level)
  BY CountTyped, CountMonotone
<1>2. Score(F) \in Nat /\ Score(G) \in Nat /\ Score(F) <= Score(G)
  BY <1>1 DEF Score, Levels
<1>3. Count(F, "CRITICAL") > 0 => Count(G, "CRITICAL") > 0
  BY <1>1 DEF Levels
<1>4. QED
  BY <1>2, <1>3 DEF VerdictOf, Rank

-----------------------------------------------------------------------------
(* The findings that the agent computes are rules.                         *)
LEMMA FindingsTyped ==
  ASSUME TypeOK
  PROVE  /\ AgentFindings \in SUBSET Rules
         /\ ServerHeuristics \cup CertHits \in SUBSET Rules
  BY VerdictsAssumption
  DEF TypeOK, App, AgentFindings, AgentHeuristics, AgentImpersonation,
      AgentPermissions, AgentHygiene, InstallSource, ServerHeuristics,
      ServerImpersonation, ServerPermissions, ServerHygiene, CertHits,
      Imitates, Rules, OwnRules, HighRules, MediumRules, LowRules,
      CriticalRules, Traits

(* Merging an answer adds at most one finding.                             *)
LEMMA MergeTyped ==
  ASSUME NEW F \in SUBSET Rules, NEW answer
  PROVE  Merge(F, answer) \in SUBSET Rules /\ F \subseteq Merge(F, answer)
  BY DEF Merge, Rules, OwnRules, CriticalRules, MediumRules

(* The severities of the findings that the arguments below count.          *)
LEMMA KnownSeverities ==
  /\ Severity("platform_malicious") = "CRITICAL"
  /\ Severity("platform_suspicious") = "MEDIUM"
  /\ Severity("sideloaded") = "LOW"
  BY VerdictsAssumption
  DEF Severity, OwnRules, CriticalRules, HighRules, MediumRules, LowRules

(* A conviction by the platform is one of the merged findings.             *)
LEMMA ConvictionConvicts ==
  ASSUME NEW F \in SUBSET Rules
  PROVE  VerdictOf(Merge(F, "MALICIOUS")) = "MALICIOUS"
<1>1. "platform_malicious" \in Merge(F, "MALICIOUS")
  BY DEF Merge
<1>2. Count(Merge(F, "MALICIOUS"), "CRITICAL") >= 1
  BY <1>1, MergeTyped, CountMember, KnownSeverities
<1>3. Count(Merge(F, "MALICIOUS"), "CRITICAL") \in Nat
  BY MergeTyped, CountTyped
<1>4. QED
  BY <1>2, <1>3 DEF VerdictOf

(* A suspicion of the platform about a sideloaded application shows: the   *)
(* two findings together reach the threshold.                              *)
LEMMA SuspicionShows ==
  ASSUME NEW F \in SUBSET Rules, "sideloaded" \in F
  PROVE  Rank["SUSPICIOUS"] <= Rank[VerdictOf(Merge(F, "SUSPICIOUS"))]
<1> DEFINE G == Merge(F, "SUSPICIOUS")
<1>1. G \in SUBSET Rules /\ "sideloaded" \in G /\ "platform_suspicious" \in G
  BY MergeTyped DEF Merge
<1>2. Count(G, "LOW") >= 1 /\ Count(G, "MEDIUM") >= 1
  <2> HIDE DEF G
  <2>1. QED
    BY <1>1, CountMember, KnownSeverities
<1>3. \A level \in Levels : Count(G, level) \in Nat
  BY <1>1, CountTyped
<1> HIDE DEF G
<1>4. Score(G) >= 30
  BY <1>2, <1>3 DEF Score, Levels
<1>5. QED
  BY <1>4 DEF VerdictOf, Rank, G

(* A suspicion of the platform alone does not convict: it adds one MEDIUM  *)
(* finding to a score below the lower threshold.                           *)
LEMMA SuspicionDoesNotConvict ==
  ASSUME NEW F \in SUBSET Rules, VerdictOf(F) = "CLEAN"
  PROVE  VerdictOf(Merge(F, "SUSPICIOUS")) # "MALICIOUS"
<1> DEFINE G == F \cup {"platform_suspicious"}
<1>1. Merge(F, "SUSPICIOUS") = G
  BY DEF Merge
<1>2. "platform_suspicious" \in Rules
  BY DEF Rules, OwnRules, MediumRules
<1>3. \A level \in Levels :
        /\ Count(F, level) \in Nat /\ Count(G, level) \in Nat
        /\ Count(G, level) <= Count(F, level) + 1
        /\ level # "MEDIUM" => Count(G, level) = Count(F, level)
  BY <1>2, CountTyped, CountAdd, KnownSeverities
<1> HIDE DEF G
<1>4. Count(F, "CRITICAL") = 0 /\ Score(F) < 30
  BY <1>3 DEF VerdictOf, Levels, Score
<1>5. Count(G, "CRITICAL") = 0 /\ Score(G) <= Score(F) + 25 /\ Score(F) \in Nat
        /\ Score(G) \in Nat
  BY <1>3, <1>4 DEF Score, Levels
<1>6. QED
  BY <1>1, <1>4, <1>5 DEF VerdictOf

-----------------------------------------------------------------------------
(* What a scan of the agent carries to its end: only an application of no  *)
(* trusted provenance is asked about, and of a trusted one that no label   *)
(* names there is nothing to say but that its certificate is listed.       *)
Quiet == TrustedProvenance /\ "brand_in_label" \notin app.traits

VerdictInv ==
  /\ TypeOK
  /\ Quiet => /\ offline \subseteq {"cert_blocklist"}
              /\ result.findings \subseteq {"cert_blocklist"}
  /\ TrustedProvenance => result.answer = "NONE"

(* Nothing is scanned yet.                                                 *)
LEMMA VerdictInit == Init => VerdictInv
  BY VerdictsAssumption DEF Init, VerdictInv, TypeOK, Quiet, Grades, Rules

(* The offline pass on a sideloaded and on a quiet application.            *)
LEMMA OfflinePass ==
  ASSUME TypeOK
  PROVE  /\ ~TrustedProvenance => "sideloaded" \in AgentFindings
         /\ Quiet => AgentFindings \subseteq {"cert_blocklist"}
  BY DEF TypeOK, AgentFindings, AgentHeuristics, AgentRegistry, Genuine,
         Mismatch, AgentImpersonation, Imitates, Unregistered, InstallSource,
         Quiet, TrustedProvenance

(* Every step keeps it.                                                    *)
LEMMA VerdictNext == VerdictInv /\ [Next]_vars => VerdictInv'
<1> SUFFICES ASSUME VerdictInv, [Next]_vars
             PROVE  VerdictInv'
  OBVIOUS
<1> USE VerdictsAssumption
    DEF VerdictInv, TypeOK, Quiet, TrustedProvenance, platformVars,
        scanVars, agentVars, lists, copies
<1>1. CASE UNCHANGED vars
  BY <1>1 DEF vars
<1>2. ASSUME NEW row \in Rows, NEW withCert \in BOOLEAN,
             Publish(row, withCert)
      PROVE  VerdictInv'
  BY <1>2 DEF Publish, Replica!Publish
<1>3. ASSUME NEW entry \in {"bare", "certified"}, ImportOfficial(entry)
      PROVE  VerdictInv'
  BY <1>3 DEF ImportOfficial
<1>4. CASE ImportImitated
  BY <1>4 DEF ImportImitated
<1>5. CASE StartScan
  BY <1>5 DEF StartScan, App, Rules, OwnRules, CriticalRules
<1>6. CASE FinishScan
  BY <1>6, VerdictTyped DEF FinishScan
<1>7. CASE Sync
  BY <1>7 DEF Sync, Replica!Copy
<1>8. CASE StartAppScan \/ ScanNewPackage
  BY <1>8, OfflinePass, FindingsTyped
  DEF StartAppScan, ScanNewPackage, ScanPackage
<1>9. CASE SettleAppScan
  <2>1. Reputation \in Grades \cup {"UNKNOWN"}
    BY DEF Reputation, Grades
  <2>2. QED
    BY <1>9, <2>1 DEF SettleAppScan, EndAppScan, NeedsLookup
<1>10. CASE LookupFails
  BY <1>10 DEF LookupFails, EndAppScan, Fault
<1>11. QED
  BY <1>1, <1>2, <1>3, <1>4, <1>5, <1>6, <1>7, <1>8, <1>9, <1>10 DEF Next

(* The invariant, once for the theorems below.                             *)
LEMMA VerdictAlways == Spec => []VerdictInv
  BY VerdictInit, VerdictNext, PTL DEF Spec

-----------------------------------------------------------------------------
(* Verdicts, findings and lists have their types at every step.            *)
THEOREM VerdictsTyped == Spec => []TypeOK
<1>1. VerdictInv => TypeOK
  BY DEF VerdictInv
<1>2. QED
  BY <1>1, VerdictAlways, PTL

(* Reputation.merge never makes the device's own verdict milder, nor a     *)
(* conviction by the platform, and a suspicion of the platform convicts    *)
(* nothing that was clean.                                                 *)
THEOREM LookupOnlyAdds == Spec => []OnlineOnlyAdds
<1>1. VerdictInv => OnlineOnlyAdds
  <2> SUFFICES ASSUME VerdictInv PROVE OnlineOnlyAdds
    OBVIOUS
  <2>1. result.findings \in SUBSET Rules
    BY DEF VerdictInv, TypeOK
  <2>2. Rank[VerdictOf(result.findings)] <= Rank[Shown]
    BY <2>1, MergeTyped, VerdictMonotone DEF Shown
  <2>3. result.answer = "MALICIOUS" => Shown = "MALICIOUS"
    BY <2>1, ConvictionConvicts DEF Shown
  <2>4. QED
    BY <2>1, <2>2, <2>3, SuspicionDoesNotConvict DEF OnlineOnlyAdds, Shown
<1>2. QED
  BY <1>1, VerdictAlways, PTL

(* For a sideloaded application that no entry of the registry concerns,    *)
(* the ported rules are no milder than the platform's.                     *)
THEOREM PortKeepsUp == Spec => []AgentKeepsUp
<1>1. VerdictInv => AgentKeepsUp
  <2> SUFFICES ASSUME VerdictInv, ~TrustedProvenance,
                      "permission_hoarding" \notin app.traits,
                      registry = {}, localSigned = signed
               PROVE  Rank[VerdictOf(ServerHeuristics \cup CertHits)]
                        <= Rank[VerdictOf(AgentFindings)]
    BY DEF AgentKeepsUp
  <2>1. ServerHeuristics \subseteq AgentHeuristics
    BY DEF ServerHeuristics, AgentHeuristics, AgentRegistry, Genuine, Mismatch,
           ServerImpersonation, AgentImpersonation, Imitates, Unregistered,
           ServerPermissions, AgentPermissions, ServerHygiene, AgentHygiene
  <2>2. CertHits \subseteq AgentFindings
    BY DEF CertHits, ServerCert, AgentFindings
  <2>3. ServerHeuristics \cup CertHits \subseteq AgentFindings
    BY <2>1, <2>2 DEF AgentFindings
  <2>4. AgentFindings \in SUBSET Rules
    BY FindingsTyped DEF VerdictInv
  <2>5. QED
    BY <2>3, <2>4, VerdictMonotone
<1>2. QED
  BY <1>1, VerdictAlways, PTL

(* A scan convicts what the check of the download convicts.                *)
THEOREM ScanConfirmsTriage == Spec => []TriageAgrees
<1>1. VerdictInv => TriageAgrees
  <2> SUFFICES ASSUME VerdictInv, ~TrustedProvenance
               PROVE  Rank[Assess(Reputation)]
                        <= Rank[VerdictOf(Merge(AgentFindings, Reputation))]
    BY DEF TriageAgrees
  <2>1. AgentFindings \in SUBSET Rules /\ "sideloaded" \in AgentFindings
    BY FindingsTyped, OfflinePass DEF VerdictInv
  <2>2. "own" \in local => Reputation = "MALICIOUS"
    BY DEF VerdictInv, TypeOK, Reputation
  <2>3. CASE Reputation = "MALICIOUS"
    BY <2>1, <2>3, ConvictionConvicts DEF Assess, Rank
  <2>4. CASE Reputation = "SUSPICIOUS"
    BY <2>1, <2>2, <2>4, SuspicionShows DEF Assess
  <2>5. CASE Reputation \notin {"MALICIOUS", "SUSPICIOUS"}
    BY <2>2, <2>5, VerdictTyped DEF Assess, Rank, Grades
  <2>6. QED
    BY <2>3, <2>4, <2>5
<1>2. QED
  BY <1>1, VerdictAlways, PTL

(* Nothing is shown about a trusted application that no impersonation rule *)
(* names, unless its scan found the certificate listed.                    *)
THEOREM TrustedStaysQuiet == Spec => []QuietOnTrusted
<1>1. Count({}, "CRITICAL") = 0 /\ Score({}) = 0
  <2>1. \A level : {r \in {} : Severity(r) = level} = {}
    OBVIOUS
  <2>2. \A level : Count({}, level) = 0
    BY <2>1, FS_EmptySet DEF Count
  <2>3. QED
    BY <2>2 DEF Score
<1>2. VerdictOf(Merge({}, "NONE")) = "CLEAN"
  BY <1>1 DEF VerdictOf, Merge
<1>3. VerdictInv => QuietOnTrusted
  <2> SUFFICES ASSUME VerdictInv, Quiet,
                      "cert_blocklist" \notin result.findings
               PROVE  Shown = "CLEAN"
    BY DEF Quiet, QuietOnTrusted
  <2>1. result.findings = {} /\ result.answer = "NONE"
    BY DEF VerdictInv, Quiet
  <2>2. QED
    BY <1>2, <2>1 DEF Shown
<1>4. QED
  BY <1>3, VerdictAlways, PTL
=============================================================================
