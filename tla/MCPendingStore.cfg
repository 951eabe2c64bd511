CONSTANTS
  Hash = {h1, h2}
  Sent = {h1}
  RecentTTL = 1
  MaxCrashes = 2
  DbErrors = TRUE
  Absent = Absent
  Live = Live
SPECIFICATION Spec
INVARIANTS RecentCovers StampedStaysOut
PROPERTY KeepsContract Forgotten
CHECK_DEADLOCK FALSE
