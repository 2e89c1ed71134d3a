CONSTANTS
  Threads = {t1, t2}
  Instruments = {nifty}
  NoThread = NoThread
  NoInstrument = NoInstrument
  ChainLegs <- BothLegs
  SpotTtl = 2
  ChainTtl = 3
  StartTime = 2
  MaxTime = 4
SPECIFICATION FairSpec
INVARIANTS
  TypeOK
  OneRefresh
  MockOnlyBeforeLive
  RefreshSkipsNobody
PROPERTIES
  RequestsReturn
  QuotesThrottled
  LastGoodMovesForward
