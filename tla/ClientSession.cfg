CONSTANTS
  t1 = t1
  t2 = t2
  r1 = r1
  r2 = r2
  Tabs <- MCTabs
  RequestsOf <- MCRequestsOf
  LoadsOf <- MCLoadsOf
  MaxTokens = 3
  Signers = {t2}
  MaxFaults = 1
SPECIFICATION FairSpec
INVARIANT RefusedForCause
PROPERTIES
  NobodyWaitsForever
  SignedOutEverywhere
