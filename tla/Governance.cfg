SPECIFICATION Spec
CONSTANTS
  Analysts = {ann, bob}
  Admins = {}
  Handlers = {h1, h2}
  Proposals = {p1, p2}
  Values = {v1}
  NoOne = NoOne
  Empty = Empty
  Feed = Feed
  MaxFailures = 1
SYMMETRY Symmetry
INVARIANTS TypeOK FourEyes TrailHonest RowsFromReview PublishedIsListed Attributed
PROPERTIES ImplementsWorkflow
