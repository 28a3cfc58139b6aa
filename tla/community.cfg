SPECIFICATION FairSpec
CONSTANTS
  u1 = u1
  u2 = u2
  u3 = u3
  u4 = u4
  g1 = g1
  r1 = r1
  r2 = r2
  User = {u1, u2, u3, u4}
  Group = {g1}
  Request = {r1, r2}
  None = None
  Capacities = {1, None}
  MaxPosts = 1
  MaxNotices = 2
  MaxReports = 3
  Scopes <- SmallScopes
INVARIANTS TypeOK OverbookedOnlyByOverlap DeletedStaysCleared WithdrawnUnblocked ReportsBounded FlagsAreTrue ListsMatchDetails
PROPERTIES ContractKept NoticeSettles
CHECK_DEADLOCK FALSE
