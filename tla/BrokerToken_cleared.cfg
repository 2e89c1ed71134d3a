CONSTANTS
  Requests = {r1}
  EnvFile = TRUE
  Clears = TRUE
  Failures = FALSE
  MaxChoices = 4
  MaxRestarts = 2
SPECIFICATION Spec
SYMMETRY Symmetry
CHECK_DEADLOCK FALSE
INVARIANT ClearedStaysCleared
