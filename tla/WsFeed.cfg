CONSTANTS
  Conns = {c1, c2}
  Names = {h1}
  Channels = {h1}
  Served = {h1}
  MaxQuote = 1
  MaxQueue = 1
  MaxFetchFailures = 1
SPECIFICATION FairSpec
INVARIANTS
  Mirrored
  NoLeak
PROPERTY LatestWins
