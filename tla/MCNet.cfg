CONSTANTS
  Handles = {h1, h2}
  NoHandle = NoHandle
  FdMax = 1
  AddressMax = 2
  SignalMax = 1
  Timeouts <- MCTimeouts
  SendMax = 2
  LenMax = 2
  Room = 2
  InMax = 3
  Nul = 2
  BreakMax = 1
SPECIFICATION NetSpec
INVARIANTS SocketsOwned HeldAreReady BytesInOrder
PROPERTIES NilIsTheEnd ConnectEnds CallsEnd
CHECK_DEADLOCK FALSE
