CONSTANTS
  p1 = p1  p2 = p2  o1 = o1  o2 = o2  c1 = c1  c2 = c2  f1 = f1  f2 = f2
  NoOracle = NoOracle  NoCore = NoCore  NoFeed = NoFeed
  Pools = {p1, p2}
  Oracles = {o1, o2}
  DefaultOracle = o1
  QuexCores = {c1, c2}
  Feeds = {f1, f2}
  MaxVersion = 2
  MaxRequests = 3
SPECIFICATION Spec
SYMMETRY Symmetry
INVARIANTS
  QuexTypeOK
  EqualVersionsEqualFeeds
  OwnRequestIsAnswerable
PROPERTIES
  OnlyANewOracleOrphans
