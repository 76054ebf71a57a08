SPECIFICATION Spec
CONSTANTS
  Caller = {c1}
  Name = {a, b}
  Content = {e, x}
  Empty = e
  MaxDepth = 2
  MaxId = 3
  Ops = {"open", "create", "read", "write", "mkdir", "readdir", "unlink"}
  NoCaller = NoCaller
  NoInode = NoInode
  NoBlob = NoBlob
  NoEntry = NoEntry
  NoNode = NoNode
INVARIANTS
  CacheAgrees
  TreeOK
