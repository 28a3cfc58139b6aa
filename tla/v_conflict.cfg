SPECIFICATION DecisionsSpec
CONSTANTS
  NoTeam = NoTeam
  u1 = u1
  u2 = u2
  u3 = u3
  Voters = {u1, u2, u3}
  Ballots <- FourBallots
  MaxParticipants = 5
  MaxConfirmations = 4
  TOP = TOP
  JUNGLE = JUNGLE
  None = None
  Lanes <- TwoLanes
  Rosters <- OneRoster
  Orders <- TwoOrders
  ByHand <- OneByHand
  MaxAsked = 2
  h1 = h1
  h2 = h2
  Caller = {h1, h2}
  Exclusions <- NothingOrOne
  Locks <- SomeLocks
  Champions = {1, 2, 3}
  Unmapped = 0
  NoAccount = NoAccount
  TopLimit = 2
  MeaningfulGames = 2
  Histories <- FiveHistories
  Processed = {0, 6}
  MaxSyncs = 1
  MaxSummaries = 2
PROPERTIES ConflictIsReal
SYMMETRY Symmetry
CHECK_DEADLOCK FALSE
