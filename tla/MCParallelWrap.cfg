SPECIFICATION Spec
CONSTANTS
  Ops = {"enc", "dec"}
  Sources <- MCWrapSources
  Extras = {0, 1, 2, 3}
  OMP_THRESHOLD = 8
  MaxThreads = 3
  Kernels <- MCKernels
  WordSize = 64
CHECK_DEADLOCK FALSE
INVARIANT
  PartsAreDisjoint
