SPECIFICATION Spec
CONSTANTS
  u1 = u1
  p1 = p1
  p2 = p2
  c1 = c1
  m1 = m1
  Log = {f1}
  Line <- MCLine
  NoUUID = NoUUID
  MaxLines = 2
  MaxUpset = 1
  CheckEvery = 2
  NoRow = NoRow
  Rollout = {p1, p2}
  SessOf <- MCSessOf
  Scenarios <- MCCopied
  CallId = {c1}
  NoModel = NoModel
  Fallback = Fallback
  GcInterval = 2
  CodexUpsets = 1
INVARIANT
  TotalsAreDifferences
CHECK_DEADLOCK FALSE
