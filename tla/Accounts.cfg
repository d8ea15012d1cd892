SPECIFICATION TrailSpec
CONSTANTS
  Users = {root, deputy}
  Root = root
  Tokens = {t1, t2}
  Requests = {r1, r2}
  Nobody = Nobody
  Bodies <- SomeBodies
  MaxRevocations = 1
SYMMETRY Symmetry
INVARIANTS TrailTypeOK RevokedForGood SomeAdminLeft
PROPERTIES OthersRecorded
