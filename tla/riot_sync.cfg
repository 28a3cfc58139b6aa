SPECIFICATION Spec
CONSTANTS
  u1 = u1
  u2 = u2
  p1 = p1
  p2 = p2
  r1 = r1
  r2 = r2
  User = {u1}
  Puuid = {p1, p2}
  Request = {r1}
  Owner <- OneSession
  NoAccount = NoAccount
  MaxAttempts = 2
  MaxAccounts = 2
  MaxJobs = 2
  MaxPlayed = 0
  MaxCrashes = 0
  MaxOpen = 1
  MaxStalls = 1
  MaxAccountsAndStalls = 2
  InitialCount = 1
  PageSize = 1
  ExtraPages = 1
  SummarySize = 1
  UsableSize = 1
INVARIANTS TypeOK PendingHasJob UsableMeansSynced AtMostOnePrimary
CHECK_DEADLOCK FALSE
SYMMETRY PuuidSymmetry
