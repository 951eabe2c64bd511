CONSTANTS
  Hash = {"swap", "spam"}
  LegsOf <- MCLegs
  Own = {"swap"}
  Swaps = {"swap"}
  Lookback = 2
  PageSize = 1
  Cap = 6
  MaxDeferral = 1
  Lag = 2
  MaxBlock = 5
  MaxTime = 6
SPECIFICATION Spec
INVARIANT TypeOK AtMostOnce NoSkip
CHECK_DEADLOCK FALSE
