CONSTANTS
  N = 6
  GCStackSize = 6
  Budget = 5
SPECIFICATION Spec
INVARIANT InFlightSurvive
PROPERTY CallersRootsAreKept
CHECK_DEADLOCK FALSE
