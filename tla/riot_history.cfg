SPECIFICATION FairSpec
CONSTANTS
  u1 = u1
  u2 = u2
  p1 = p1
  p2 = p2
  r1 = r1
  r2 = r2
  User = {u1}
  Puuid = {p1}
  Request = {r1}
  Owner <- OneSession
  NoAccount = NoAccount
  MaxAttempts = 1
  MaxAccounts = 1
  MaxJobs = 2
  MaxPlayed = 2
  MaxCrashes = 1
  MaxOpen = 1
  MaxStalls = 1
  MaxAccountsAndStalls = 2
  InitialCount = 1
  PageSize = 1
  ExtraPages = 1
  SummarySize = 1
  UsableSize = 0
INVARIANTS HistoryCovered
PROPERTIES CursorAdvances SyncSettles
CHECK_DEADLOCK FALSE
