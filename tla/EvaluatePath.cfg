CONSTANTS
  PathPrices <- MCPrices
  HalfAtrs = {1}
  MaxBars = 2
SPECIFICATION PathSpec
INVARIANTS
  ReturnsVerdict
  SignsAgree
CHECK_DEADLOCK FALSE
