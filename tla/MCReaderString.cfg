CONSTANTS
  Programs <- MCPrograms
  Texts <- MCShortTexts
  Uses = {"read-string"}
  DepthMax = 3
SPECIFICATION ReaderSpec
INVARIANT StringsStayApart
CHECK_DEADLOCK FALSE
