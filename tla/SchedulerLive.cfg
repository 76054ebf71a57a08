SPECIFICATION FairSpec
CONSTANTS
  MaxPid = 2
  MaxLate = 2
  CpuCap = 2
  MemCap = 2
  CpuQuotas = {1, 2}
  MemQuotas = {1}
PROPERTIES
  EveryProgramEnds
CHECK_DEADLOCK FALSE
