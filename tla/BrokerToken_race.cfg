CONSTANTS
  Requests = {r1, r2, r3}
  EnvFile = TRUE
  Clears = TRUE
  Failures = TRUE
  MaxChoices = 5
  MaxRestarts = 2
SPECIFICATION Spec
SYMMETRY Symmetry
CHECK_DEADLOCK FALSE
PROPERTY LoneSaveSticks
