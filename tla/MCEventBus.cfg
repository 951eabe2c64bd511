SPECIFICATION Spec
CONSTANTS
  MaxStored = 1
  Retention = {0, 1}
  MaxDay = 1
  Producer = {tx, gas}
  Stream = {s1}
  ChanCap = 1
  MaxEvents = 2
  MaxCalls = 1
  MaxCrashes = 1
CHECK_DEADLOCK FALSE
INVARIANTS TableBounded NoSendOnClosed PanelAgrees
PROPERTIES NobodyIsStuck
