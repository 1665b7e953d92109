CONSTANTS
  N = 6
  GCStackSize = 12
  Budget = 5
SPECIFICATION Spec
INVARIANT LocalsSurvive
CHECK_DEADLOCK FALSE
