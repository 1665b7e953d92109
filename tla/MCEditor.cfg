CONSTANTS
  Contents <- MCContents
  UndoCap = 2
  CoalesceCap = 2
  KillCap = 1
  CommandMax = 4
  StaleMarks = FALSE
  Delays = {0, 3}
  Repeats = {0, 1}
  Precision = 2
  PollFloor = 2
  PollCap = 2
  ArmMax = 3
  KeyMax = 3
  EditMax = 2
SPECIFICATION EditorSpec
INVARIANTS
  NeitherLostNorRevived
  CleanIsOnDisk
PROPERTIES
  Undoing
  ChangesAreMarked
  NoBusySpin
  QuitIsAsked
  TimersFire
  EditorEnds
CHECK_DEADLOCK FALSE
