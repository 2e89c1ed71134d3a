CONSTANTS
  Conns = {c1, c2}
  Names = {h1}
  Channels = {h1}
  Served = {h1}
  MaxQuote = 1
  MaxQueue = 2
  MaxFetchFailures = 1
  MaxHooks = 2
  MaxBreaks = 1
SPECIFICATION LiveFairSpec
INVARIANTS
  Agreement
  NeverForgotten
PROPERTIES
  IsAClient
  FollowsMarket
