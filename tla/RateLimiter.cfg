CONSTANTS
  Keys = {a, b}
  MaxRequests = 2
  Window = 4
  Second = 2
  MaxTime = 10
SPECIFICATION Spec
SYMMETRY Symmetry
INVARIANT AtMostPerWindow
PROPERTIES
  RetryIsEnough
  RefusedForCause
