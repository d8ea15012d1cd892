SPECIFICATION FairSpec
CONSTANTS
  Writers = {w1, w2}
  Indicators = {i1}
  Syncs = {s1, s2}
  MaxTime = 3
  MaxWrites = 2
  MaxFaults = 2
INVARIANTS TypeOK NothingSkipped
PROPERTIES ReachesAgents ImplementsReplica
