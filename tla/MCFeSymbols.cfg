CONSTANTS
  a = a
  b = b
  N = 9
  GCStackSize = 4
  Names <- MCNames
  Nodes <- MCNodes
  Backings = {}
  NoName = NoName
  NoBacking = NoBacking
  Ops = {"set"}
SPECIFICATION Spec
INVARIANTS JobCellsAlive SymbolTableSound
PROPERTY SymbolsAreForever
CHECK_DEADLOCK FALSE
