SPECIFICATION Spec
CONSTANTS
  Inputs <- MCInputs
  RawSize = 4
CHECK_DEADLOCK FALSE
INVARIANT
  GarbageIsIgnored
