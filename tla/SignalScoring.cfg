CONSTANTS
  Readers = {r1}
  Loop = loop
  Forced = {f1}
  Prices <- MCPrices
  Entries <- MCEntries
  Wall = 1
  HalfAtr = 2
  MinInterval = 2
  Horizon = 2
  Lookback = 9
  MaxTime = 2
  MaxSignals = 1
  MaxFailures = 1
SPECIFICATION FairSpec
INVARIANT VerdictStands
PROPERTY EveryHorizonResolves
