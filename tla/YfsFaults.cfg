SPECIFICATION Spec
CONSTANTS
  c1 = c1
  c2 = c2
  Clients = {c1, c2}
  NoExtent = NoExtent
  NotCached = NotCached
  Gone = Gone
  FileBit = 8
  Ops = {"create", "read", "write", "unlink", "setattr"}
  Names = {"a"}
  Bytes = {1}
  MaxSize = 2
  MaxInum = 2
  MaxFail = 1
  Inums <- AllInums
  Locks <- AllInums
SYMMETRY ClientSymmetry
INVARIANTS
  ReadsLatest
  WrittenBack
  
CHECK_DEADLOCK FALSE
