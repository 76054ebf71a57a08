SPECIFICATION FairSpec
CONSTANTS
  MaxPid = 2
  Manifest <- MCManifest
  MaxKernels = 3
  MaxCalls = 2
  NoSnapshot = NoSnapshot
CHECK_DEADLOCK FALSE
INVARIANTS
  TypeOK
  CallsRunInSlices
  RebootKeepsWork
PROPERTIES
  StoppedLoopsEnd
