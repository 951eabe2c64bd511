SPECIFICATION TablesSpec
CONSTANTS
  Contract = {a, b, x}
  Known = {a, b}
  Caller = {c1, c2}
  MaxCalls = 2
  MaxEdits = 2
  Address = {p}
  Name = {n1}
  Expected = "secret"
  Presented = {"secret", "other"}
  MaxRpcs = 3
  MaxRequests = 3
INVARIANTS CallsCover StatusIsTrue
PROPERTIES ImplementsWatchedSet UserEditsHold
CHECK_DEADLOCK FALSE
