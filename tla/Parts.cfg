SPECIFICATION Spec
CONSTANTS
  Keys = {1, 2}
  Vals = {0, 1}
  MaxSize = 2
  MaxAdds = 6
  MaxLives = 3
  MaxFail = 1
  WalLogs = 3
  WalLives = 3
  WalFails = 1
  WalMarks = 2
  Absent = Absent
  Empty = Empty
  DLogs = 4
  DLives = 3
  NoFile = NoFile
  TreeNames = {1, 2}
  Sizes = {1, 3}
  Memories = {5, 20}
  Targets = {40, 70}
  TreeBounds <- Trees
  CThreads = {"fuse", "revoke"}
  CInums = {1, 8}
  Addrs = {"A", "B"}
  AddrBounds <- Addresses
  MFiles = {1, 2, 3}
  MaxMoves = 2
  MaxPuts = 4
  MaxLostCalls = 2
  DirtyInums = {1, 2}
  MaxChanges = 4
  MaxBeats = 3
INVARIANTS
  ScanIsNewest
  TablesReadBack
  ReplayIsExact
  
  
  
  MoveKeepsNewest
  
CHECK_DEADLOCK FALSE
