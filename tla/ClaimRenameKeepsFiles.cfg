SPECIFICATION Spec
CONSTANTS
  a = a
  b = b
  disk = disk
  Name = {a, b}
  Data = {empty, x}
  Empty = empty
  NoData = NoData
  Path <- MCPath
  MaxNodes = 4
  MaxSaves = 2
  ImageFile = {disk}
  InitialImage <- MCImage
  Unreadable = Unreadable
  MountPoint <- MCMountPoint
  MaxMounts = 1
  MaxReboots = 1
  MaxCrashes = 1
  RunOn = FALSE
CHECK_DEADLOCK FALSE
PROPERTIES
  RenameKeepsFiles
