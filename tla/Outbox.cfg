SPECIFICATION FairSpec
CONSTANTS
  Worker = worker
  Screens = {screen}
  Packages = {package}
  Downloads = {download}
  Rows = {r1, r2}
  Refused = {r2}
  MaxFailures = 1
INVARIANTS TypeOK OncePerFlusher
PROPERTIES EventuallyReported ImplementsDelivery
