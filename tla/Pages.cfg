CONSTANTS
  Instruments = {1, 2}
  NoData = NoData
  None = None
  Null = Null
  All <- MCAll
  Live <- MCLive
  Filters <- MCFilters
  Filter0 = 2
  Ranges <- MCRanges
  Timeframes = {5, 15}
  Expiries = 2
  Counts = {1, 2}
  Count0 = 1
  StrikeCounts = {1}
  Strike0 = 1
  Contracts <- MCContracts
  Ranked <- MCRanked
  Behind <- MCBehind
  Wire <- MCWire
  Shown <- MCShown
  Answers <- MCAnswers
  Fails <- MCFails
  FirstSnaps = 2
  MaxSnaps = 3
  MaxAsked = 2
  MaxPresses = 2
SPECIFICATION FairSpec
INVARIANTS
  TypeOK
  SelectionIsOfShownData
  AtmInView
PROPERTIES
  OwnDataReturns
  SkeletonEnds
  OnlyItsFeeds
  CardsKeepTheirWord
