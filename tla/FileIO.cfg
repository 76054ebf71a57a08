SPECIFICATION Spec
CONSTANTS
  sh = sh
  guest = guest
  mnt = mnt
  doc = doc
  zero = zero
  Process = {sh, guest}
  Uid <- MCUid
  Gid <- MCUid
  Path <- MCPath
  Up = Up
  InitialNodes <- MCNodes
  InitialFds <- MCFds
  Volume <- MCVolume
  Image <- MCImage
  Flag = {{"w"}, {"r", "a"}}
  Chunk = {1}
  MaxCalls = 3
  MaxListeners = 2
CHECK_DEADLOCK FALSE
INVARIANTS
  ProcFdsAgree
PROPERTIES
  DescriptorKeepsFile
  OnlyRacersLoseBytes
