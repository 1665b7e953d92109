CONSTANTS
  N = 3
  GCStackSize = 2
  Names = {}
  Nodes <- MCNodes
  Backings = {b1}
  NoName = NoName
  NoBacking = NoBacking
  Ops = {"cons", "number", "pushgc", "ptr", "setcar", "setcdr"}
SPECIFICATION Spec
INVARIANTS HeapSound BackingReleasedOnce
PROPERTIES LostOnlyByOverflow
CHECK_DEADLOCK FALSE
