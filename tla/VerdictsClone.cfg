SPECIFICATION FairSpec
CONSTANTS
  Apps <- MCApps
  YaraRules <- MCYaraRules
  YaraLevel <- MCYaraLevel
  MaxReplaced = 0
  MaxFaults = 0
PROPERTIES CloneConvicted
