SPECIFICATION FairSpec
CONSTANTS
  FileSizes <- MCFileSizes
  RawSize = 4
  WrapWidths <- MCWrapWidths
  IovMax = 3
  MaxAgain = 2
CHECK_DEADLOCK FALSE
INVARIANTS
  StdoutIsWrappedText
  PendingIsNext
  FailsOnlyOnError
PROPERTIES
  Ends
