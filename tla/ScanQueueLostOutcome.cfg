SPECIFICATION Spec
CONSTANTS
  Workers = {w1, w2}
  Uploads = {u1, u2}
  Contents = {c1}
  None = None
  MayFault = FALSE
  MaxStops = 0
INVARIANTS RunningHasWorker
