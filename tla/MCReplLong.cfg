CONSTANTS
  Pieces <- MCLongLine
  PieceMax = 5
  AccMax = 13
SPECIFICATION ReplSpec
INVARIANT WholeFormIsDiscarded
CHECK_DEADLOCK FALSE
