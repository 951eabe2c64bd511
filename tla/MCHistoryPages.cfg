SPECIFICATION PagesSpec
CONSTANTS
  Legs <- MCLegs
  Wallet = "w"
  Limits = {0, 2}
  DefaultLimit = 3
  MaxScrolls = 1
INVARIANTS ScrollIsFaithful MergeKeepsLegs
CHECK_DEADLOCK FALSE
