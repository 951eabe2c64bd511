SPECIFICATION AppSpec
CONSTANTS
  Balance = {1, 2}
  Threshold = 2
  UpdatesCap = 1
  MaxPolls = 4
  MaxReplaced = 1
  Request = {q}
INVARIANTS AlertPerDip DbOutlivesServer
PROPERTIES ShutdownEnds PollersEnd
CHECK_DEADLOCK FALSE
