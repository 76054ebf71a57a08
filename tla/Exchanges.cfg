SPECIFICATION AllSpec
CONSTANTS
  z = z
  Name = {x, y, z}
  Zone = {z}
  Query = {q1, q2, q3}
  Ttl = 2
  MaxTime = 4
  alice = alice
  bob = bob
  carol = carol
  Node = {alice, bob, carol}
  Peers <- MCPeers
  MaxBlocks = 4
  User = {ui, sh, cat}
  Program = {sh, cat}
  Loyal = {sh}
  Length = 1
  MaxPtys = 2
  MaxWritten = 2
  MaxReboots = 1
CHECK_DEADLOCK FALSE
INVARIANTS
  AnsweredOnce
  PeersCatchUp
PROPERTIES
  EveryQueryAnswered
  WorkEnds
  
  ImplementsStreams
  BytesAreRead
