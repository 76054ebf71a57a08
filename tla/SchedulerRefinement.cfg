SPECIFICATION Spec
CONSTANTS
  MaxPid = 3
  MaxLate = 1
  CpuCap = 1
  MemCap = 2
  CpuQuotas = {1}
  MemQuotas = {1}
INVARIANTS
  TypeOK
  ScheduledOnce
  NoneLost
  OneIsolate
  RepeatOffenderIsInit
PROPERTIES
  RoundRobinTurns
  InitProtected
\* The system stops after Kernel.stop once every host task has ended.
CHECK_DEADLOCK FALSE
