CONSTANTS
  Kinds = {"oi", "gex", "pain", "lines"}
  Gamma <- MCGamma
  Steps = 4
  Halvings = 2
  NoValue = NoValue
  AllStrikes <- MCAll
  Future <- MCFuture
  Chains <- MCChains
  Chain0 <- MCChain0
  Samples <- MCSamples
  Spots <- MCSpots
  AtmOf <- MCAtmOf
  ChartFilters <- MCFilters
  LineContracts = {1, 2}
  MaxTimes = 2
SPECIFICATION ChartSpec
INVARIANTS
  PainIsLeast
  FlipIsBracketed
PROPERTIES
  PaintedIsCurrent
  ViewKept
  CatchesUp
