SPECIFICATION BalancedSpec
CONSTANTS
  NoTeam = NoTeam
  NoSeat = NoSeat
  NoUser = NoUser
  NoVote = NoVote
  NoKey = NoKey
  u1 = u1
  u2 = u2
  u3 = u3
  s1 = s1
  s2 = s2
  TOP = TOP
  Users = {u1, u2}
  Admins = {}
  Lanes = {TOP}
  FILL = FILL
  Keys = {}
  Slots = {s1, s2}
  Worker = Worker
  Handlers = {"submit", "confirm", "resolve", "reopen"}
  Ballots <- ObjectOnly
  Winners = {"A"}
  Rsvps = {"ACCEPTED"}
  Tracked = {}
  Faults = TRUE
  MaxResults = 1
  MaxVersion = 2
  MaxJobs = 2
  MaxCandidates = 1
INVARIANTS StatsMirrorResult MatchReflectsResult VotesBelongToResult ViewsAddUp
SYMMETRY TwoPlayerSymmetry
