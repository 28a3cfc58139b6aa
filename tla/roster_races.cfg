SPECIFICATION CreatedSpec
CONSTANTS
  NoTeam = NoTeam
  NoSeat = NoSeat
  NoUser = NoUser
  NoVote = NoVote
  NoKey = NoKey
  u1 = u1
  u2 = u2
  u3 = u3
  s1 = s1
  s2 = s2
  TOP = TOP
  Users = {u1, u2, u3}
  Admins = {}
  Lanes = {TOP}
  FILL = FILL
  Keys = {}
  Slots = {s1, s2}
  Worker = Worker
  Handlers = {"addPlayers", "updatePlayer", "lock", "manualBalance", "generate", "assign", "reopen"}
  Ballots <- ApproveOnly
  Winners = {"A"}
  Rsvps = {"ACCEPTED"}
  Tracked = {}
  Faults = FALSE
  MaxResults = 1
  MaxVersion = 1
  MaxJobs = 2
  MaxCandidates = 1
INVARIANTS BalancedMeansSeated CandidatesAssignable
SYMMETRY ThreePlayerSymmetry
