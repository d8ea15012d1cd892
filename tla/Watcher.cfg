SPECIFICATION FairSpec
CONSTANTS
  Files = {apk1, apk2, photo}
  Apks = {apk1, apk2}
  Passes = {p1, p2}
  MaxTime = 2
  MaxFaults = 1
  None = None
INVARIANTS TypeOK NothingSkipped
PROPERTIES EveryApkInspected
CHECK_DEADLOCK FALSE
