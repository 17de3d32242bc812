SPECIFICATION Spec
CONSTANTS
  c1 = c1
  c2 = c2
  Clients = {c1, c2}
  NoExtent = NoExtent
  NotCached = NotCached
  Gone = Gone
  FileBit = 8
  Ops = {"create", "mkdir", "unlink"}
  Names = {"a", "b"}
  Bytes = {1}
  MaxSize = 1
  MaxInum = 4
  MaxFail = 0
  Inums <- AllInums
  Locks <- AllInums
SYMMETRY ClientSymmetry
INVARIANTS
  TreeTakesEveryFile
CHECK_DEADLOCK FALSE
