SPECIFICATION FairSpec
CONSTANTS
  Apps <- MCApps
  YaraRules <- MCYaraRules
  YaraLevel <- MCYaraLevel
  MaxReplaced = 1
  MaxFaults = 1
INVARIANTS TypeOK OnlineOnlyAdds AgentKeepsUp TriageAgrees
  QuietOnTrusted
PROPERTIES ListedStaysConvicted
