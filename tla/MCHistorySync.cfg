CONSTANTS
  Run = {r1, r2}
  None = None
  Direction = {"to", "from"}
  N = 2
  DirOf <- MCDirOf
  TokenOf <- MCTokenOf
  PageSize = 1
  Slots = 1
SPECIFICATION Spec
INVARIANTS SyncIsComplete
PROPERTY FeeIsKept EverySyncEnds
CHECK_DEADLOCK FALSE
