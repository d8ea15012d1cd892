SPECIFICATION Spec
CONSTANTS
  Analysts = {ann, bob, adm}
  Admins = {adm}
  Handlers = {h1, h2}
  Proposals = {p1}
  Values = {v1}
  NoOne = NoOne
  Empty = Empty
  Feed = Feed
  MaxFailures = 0
INVARIANTS RejectedNeverListed
