SPECIFICATION Spec
CONSTANTS
  Caller = {c1, c2}
  Name = {a}
  Content = {e, x}
  Empty = e
  MaxDepth = 2
  MaxId = 2
  Ops = {"create", "write", "mkdir", "unlink", "rename", "unmount"}
  NoCaller = NoCaller
  NoInode = NoInode
  NoBlob = NoBlob
  NoEntry = NoEntry
  NoNode = NoNode
INVARIANTS
  SizeIsLength
SYMMETRY CallerSymmetry
