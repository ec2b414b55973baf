SPECIFICATION FairSpec
CONSTANTS
  Inputs <- MCInputs
  RawSize = 4
CHECK_DEADLOCK FALSE
INVARIANTS
  StdoutIsDecodedText
  ExitTellsVerdict
PROPERTY
  Ends
