CONSTANTS
  GuardMax = 3
  RootMax = 3
  CallMax = 4
  Errors = {e1, e2}
  Overflowed = Overflowed
  NoError = NoError
  k1 = k1
  k2 = k2
  k3 = k3
  k4 = k4
  pair = pair
  Unhashable = {pair}
  Long = {k1, k2}
  Keys = {k1, k2, k3, k4}
  Values = {1, 2}
  Absent = Absent
  Hash <- MCHash
  FirstCap = 4
  CapMax = 8
  Cells = {c1, c2}
  Allocators = {malloc, arena}
  SizeMax = 2
  ContainerCalls = 4
  Strings <- MCStrings
  Files <- MCFiles
  Stale = {0, 2}
  Seps = {0, 1}
  Indices <- MCIndices
  Numbers <- MCNumbers
  Radixes = {2, 3}
  IntMax = 8
  EntryMax = 2
SPECIFICATION RuntimeSpec
INVARIANTS
  GuardsSound
  ResourcesOwned
  TableSound
  BackingsOwned
  ElementsAreKept
  NothingLeftBehind
  AnswersAreRight
PROPERTIES
  Unwinds
  ErrorsEnd
  IsDictionary
CHECK_DEADLOCK FALSE
