SPECIFICATION Spec
CONSTANTS
  Calls <- MCCalls
CHECK_DEADLOCK FALSE
INVARIANTS
  IndInv
  LoadsInInput
  ResultsAgree
PROPERTY
  RoundsSpec
