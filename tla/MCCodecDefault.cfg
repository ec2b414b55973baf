SPECIFICATION Spec
CONSTANTS
  Threads = {t1, t2}
  Builds <- MCBuilds
  Machines <- MCMachines
  Flags <- MCFlags
INVARIANT
  DefaultIsDetected
