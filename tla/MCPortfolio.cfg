SPECIFICATION PortfolioSpec
CONSTANTS
  Listed = {a, b}
  MaxChanges = 2
  Reader = {v1, v2}
  TTL = 1
  FetchTimeout = 1
  MaxNow = 3
  MaxReads = 3
PROPERTIES AnswersServe
CHECK_DEADLOCK FALSE
