SPECIFICATION Spec
CONSTANTS
  Ops = {"enc", "dec"}
  Sources <- MCSources
  Extras = {0, 1, 2, 3}
  OMP_THRESHOLD = 8
  MaxThreads = 3
  Kernels <- MCKernels
  WordSize = 65536
CHECK_DEADLOCK FALSE
INVARIANT
  AcceptsOnlyWellFormed
