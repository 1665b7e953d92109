CONSTANTS
  N = 3
  StartHeaps <- MCStartHeaps
  StartRoots <- MCStartRoots
  Programs <- MCPrograms
  Texts <- MCTexts
  Uses = {"load", "read-all", "read-string"}
  DepthMax = 3
  FileSystems <- MCFileSystems
  Main <- MCMain
  GuardMax = 4
  BuildDepthMax = 2
  Pieces <- MCPieces
  PieceMax = 4
  AccMax = 15
SPECIFICATION CommandSpec
INVARIANTS CollectionIsAtomic ReadersAreIndependent FilesAreThoseBeingRead BundleIsTheProgram RequiredOnce FormsAreWhole
PROPERTIES MarkAndSweepEnd CommandEnds
CHECK_DEADLOCK FALSE
