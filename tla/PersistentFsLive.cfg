SPECIFICATION FairSpec
CONSTANTS
  Caller = {c1, c2}
  Name = {a}
  Content = {e}
  Empty = e
  MaxDepth = 2
  MaxId = 2
  Ops = {"create", "write", "mkdir", "unlink", "unmount"}
  NoCaller = NoCaller
  NoInode = NoInode
  NoBlob = NoBlob
  NoEntry = NoEntry
  NoNode = NoNode
PROPERTIES
  TransactionsEnd
