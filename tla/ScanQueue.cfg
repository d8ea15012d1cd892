SPECIFICATION FairSpec
CONSTANTS
  Workers = {w1, w2}
  Uploads = {u1, u2}
  Contents = {c1}
  None = None
  MayFault = TRUE
  MaxStops = 1
INVARIANTS TypeOK StagedUntilTerminal DoneIsBacked CountedAtMostOnce
PROPERTIES NoOvertaking ImplementsWorkQueue EveryJobClaimed
