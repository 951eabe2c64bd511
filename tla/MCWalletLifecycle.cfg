CONSTANTS
  c1 = c1
  c2 = c2
  c3 = c3
  p1 = p1
  p2 = p2
  Call = {c1, c2, c3}
  Request <- MCRequest
  Serial = TRUE
  MaxCrashes = 2
  MaxReveals = 1
  None = None
SPECIFICATION Spec
INVARIANTS RestartRestores SecretFitsRecord BackupsAgree InheritsOnlyLate
PROPERTY MonitorsFollow
CHECK_DEADLOCK FALSE
