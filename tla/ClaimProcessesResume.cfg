SPECIFICATION Spec
CONSTANTS
  MaxPid = 1
  Manifest <- MCOne
  MaxKernels = 2
  MaxCalls = 2
  NoSnapshot = NoSnapshot
INVARIANTS
  ProcessesResume
CHECK_DEADLOCK FALSE
