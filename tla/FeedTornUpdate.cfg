SPECIFICATION FairSpec
CONSTANTS
  Writers = {w1}
  Indicators = {i1}
  Syncs = {s1}
  MaxTime = 3
  MaxWrites = 2
  MaxFaults = 0
PROPERTIES ApprovedReachAgents
