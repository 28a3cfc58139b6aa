------------------------- MODULE InhouseMatchProofs -------------------------
(***************************************************************************)
(* Proof of ResultInv: the stats, the status of the match and the votes    *)
(* follow the result through every interleaving of the handlers, for every *)
(* value of the constants.  Proof of CountInv: an undisturbed recount      *)
(* always has the last word.                                               *)
(***************************************************************************)
EXTENDS InhouseMatchTypes

-----------------------------------------------------------------------------
(* Where a step leaves the request that takes it. *)

MatchOps == {"addPlayers", "updatePlayer", "lock", "manualBalance", "generate", "assign", "reopen"}

(* Nothing is left to do about the result, or nothing that has begun yet. *)
Settles(p) ==
  \/ req'[p].pc \in {"idle", "announce"}
  \/ req'[p].op \in MatchOps /\ req'[p].pc = "commit"
  \/ req'[p].op = "resolve" /\ req'[p].pc = "readResult"

ReadsRoster(p) ==
  /\ req'[p].op = "submit" /\ req'[p].pc = "readResult" /\ req'[p].players = Roster
  /\ UNCHANGED rows

PassesCheck(p) ==
  /\ At(p, "submit", "readResult")
  /\ req'[p].op = "submit" /\ req'[p].pc = "commit"
  /\ req'[p].players = req[p].players /\ req'[p].seats = req[p].seats
  /\ ResultInputReady(req[p].players, req[p].seats)
  /\ UNCHANGED rows

ReadsVoter(p) ==
  /\ req'[p].op = "confirm" /\ req'[p].pc = "readResult" /\ req'[p].who \in Roster
  /\ UNCHANGED rows

ReadsVersion(p) ==
  /\ At(p, "confirm", "readResult")
  /\ req'[p].op = "confirm" /\ req'[p].pc = "record" /\ req'[p].who = req[p].who
  /\ result.id # 0 /\ req'[p].rid = result.id /\ req'[p].version = result.version
  /\ UNCHANGED rows

NamesResult(p) ==
  /\ req'[p].rid # 0
  /\ \/ req'[p].pc \in {"finalizeRead", "finalizeCommit", "enqueue"}
     \/ req'[p].op = "resolve" /\ req'[p].pc = "commit"

Moves(p) ==
  /\ \A q \in Procs \ {p} : req'[q] = req[q]
  /\ \/ Settles(p) \/ ReadsRoster(p) \/ PassesCheck(p) \/ ReadsVoter(p) \/ ReadsVersion(p)
     \/ NamesResult(p)

(* A request that is over, or has only messages left, has nothing left to write. *)
LEMMA LeaveMoves ==
  ASSUME NEW p \in Procs, req \in [Procs -> Request], Leave(p)
  PROVE  Moves(p)
BY DEF Leave, Carry, Idle, Moves, Settles

(* Neither has one that is left with messages to send. *)
LEMMA ThenSendMoves ==
  ASSUME NEW p \in Procs, NEW messages, req \in [Procs -> Request], ThenSend(p, messages)
  PROVE  Moves(p)
BY DEF ThenSend, Carry, Idle, Moves, Settles

(* Requests of MatchesService and MatchmakingService never write a result of their own. *)
LEMMA MatchRequestMoves ==
  ASSUME TypeOK, NEW p \in Procs, BeginMatchRequest(p) \/ ContinueMatchRequest(p)
  PROVE  Moves(p)
<1>1. req \in [Procs -> Request]
  BY DEF TypeOK
<1>2. CASE ContinueMatchRequest(p)
  BY <1>1, <1>2, LeaveMoves DEF ContinueMatchRequest, AddPlayersCommit, UpdatePlayerCommit,
     LockCommit, ManualBalanceCommit, GenerateCommit, AssignCommit, ReopenCommit
<1>3. CASE AddPlayersRead(p)
  BY <1>1, <1>3 DEF AddPlayersRead, Carry, Idle, Moves, Settles, MatchOps
<1>4. CASE UpdatePlayerRead(p)
  BY <1>1, <1>4 DEF UpdatePlayerRead, Carry, Idle, Moves, Settles, MatchOps
<1>5. CASE LockRead(p)
  BY <1>1, <1>5 DEF LockRead, Carry, Idle, Moves, Settles, MatchOps
<1>6. CASE ManualBalanceRead(p)
  BY <1>1, <1>6 DEF ManualBalanceRead, Carry, Idle, Moves, Settles, MatchOps
<1>7. CASE GenerateRead(p)
  BY <1>1, <1>7 DEF GenerateRead, Carry, Idle, Moves, Settles, MatchOps
<1>8. CASE AssignRead(p)
  BY <1>1, <1>8 DEF AssignRead, Carry, Idle, Moves, Settles, MatchOps
<1>9. CASE ReopenRead(p)
  BY <1>1, <1>9 DEF ReopenRead, Carry, Idle, Moves, Settles, MatchOps
<1> QED
  BY <1>2, <1>3, <1>4, <1>5, <1>6, <1>7, <1>8, <1>9 DEF BeginMatchRequest

(* Where each step of a result request, or of the worker, leaves it. *)
LEMMA ResultRequestMoves ==
  ASSUME TypeOK, ResultsNamed, NEW p \in Procs,
         BeginResultRequest(p) \/ ContinueResultRequest(p) \/ TakeJob(p) \/ Die(p)
  PROVE  Moves(p)
<1>1. req \in [Procs -> Request] /\ req[p] \in Request
  BY DEF TypeOK
<1>2. CASE SubmitReadMatch(p)
  BY <1>1, <1>2 DEF SubmitReadMatch, Carry, Idle, Moves, ReadsRoster
<1>3. CASE SubmitReadResult(p)
  <2>1. CASE Leave(p)
    BY <1>1, <2>1, LeaveMoves
  <2>2. CASE ~SubmitRefused(req[p]) /\ Carry(p, [req[p] EXCEPT !.pc = "commit", !.rid = result.id])
    BY <1>1, <1>3, <2>2 DEF SubmitReadResult, SubmitRefused, At, Carry, Request, Moves, PassesCheck
  <2> QED
    BY <1>3, <2>1, <2>2 DEF SubmitReadResult
<1>4. CASE SubmitCommit(p)
  BY <1>1, <1>4, ThenSendMoves DEF SubmitCommit
<1>5. CASE ConfirmReadMatch(p)
  BY <1>1, <1>5 DEF ConfirmReadMatch, Carry, Idle, Moves, ReadsVoter
<1>6. CASE ConfirmReadResult(p)
  <2>1. CASE Leave(p)
    BY <1>1, <2>1, LeaveMoves
  <2>2. CASE /\ result.id # 0
             /\ Carry(p, [req[p] EXCEPT !.pc = "record", !.rid = result.id,
                                        !.version = result.version])
    BY <1>1, <1>6, <2>2 DEF ConfirmReadResult, At, Carry, Request, Moves, ReadsVersion
  <2> QED
    BY <1>6, <2>1, <2>2 DEF ConfirmReadResult
<1>7. CASE ConfirmRecord(p)
  <2>1. CASE Leave(p)
    BY <1>1, <2>1, LeaveMoves
  <2>2. CASE Carry(p, [Idle EXCEPT !.op = "confirm", !.pc = "finalizeRead", !.rid = req[p].rid])
    <3>1. req[p].rid # 0
      BY <1>7 DEF ConfirmRecord, At, ResultsNamed, AboutResult
    <3> QED
      BY <1>1, <2>2, <3>1 DEF Carry, Idle, Moves, NamesResult
  <2> QED
    BY <1>7, <2>1, <2>2 DEF ConfirmRecord
<1>8. CASE TakeJob(p)
  <2>1. Head(jobs) \in 1 .. MaxResults
    <3>1. jobs \in Seq(1 .. MaxResults) /\ jobs # <<>>
      BY <1>8 DEF TakeJob, ResultsNamed
    <3> QED
      BY <3>1, HeadTailProperties
  <2>2. Head(jobs) # 0
    BY <2>1
  <2> QED
    BY <1>1, <1>8, <2>2 DEF TakeJob, Carry, Idle, Moves, NamesResult
<1>9. CASE FinalizeRead(p)
  <2>1. CASE Leave(p)
    BY <1>1, <2>1, LeaveMoves
  <2>2. CASE Carry(p, [req[p] EXCEPT !.pc = "finalizeCommit", !.status = CountedStatus,
                                     !.prev = result.status, !.players = JoinedPlayers])
    <3>1. req[p].rid # 0
      BY <1>9 DEF FinalizeRead, ResultsNamed, AboutResult
    <3> QED
      BY <1>1, <2>2, <3>1 DEF Carry, Request, Moves, NamesResult
  <2> QED
    BY <1>9, <2>1, <2>2 DEF FinalizeRead
<1>10. CASE FinalizeCommit(p)
  <2>1. CASE ThenSend(p, Transition(req[p]))
    BY <1>1, <2>1, ThenSendMoves
  <2>2. CASE Carry(p, [req[p] EXCEPT !.pc = "enqueue"])
    <3>1. req[p].rid # 0
      BY <1>10 DEF FinalizeCommit, ResultsNamed, AboutResult
    <3> QED
      BY <1>1, <2>2, <3>1 DEF Carry, Request, Moves, NamesResult
  <2> QED
    BY <1>10, <2>1, <2>2 DEF FinalizeCommit
<1>11. CASE EnqueueFinalize(p)
  BY <1>1, <1>11, ThenSendMoves DEF EnqueueFinalize
<1>12. CASE ResolveReadMatch(p)
  BY <1>1, <1>12 DEF ResolveReadMatch, Carry, Idle, Moves, Settles
<1>13. CASE ResolveReadResult(p)
  <2>1. CASE Leave(p)
    BY <1>1, <2>1, LeaveMoves
  <2>2. CASE ~Leave(p)
    <3>1. PICK factual \in BOOLEAN :
            Carry(p, [req[p] EXCEPT !.pc = "commit", !.rid = result.id, !.factual = factual])
      BY <1>13, <2>2 DEF ResolveReadResult
    <3>2. result.id # 0 /\ At(p, "resolve", "readResult")
      BY <1>13, <2>2 DEF ResolveReadResult
    <3> QED
      BY <1>1, <3>1, <3>2 DEF At, Carry, Request, Moves, NamesResult
  <2> QED
    BY <2>1, <2>2
<1>14. CASE ResolveCommit(p)
  BY <1>1, <1>14, ThenSendMoves DEF ResolveCommit
<1>15. CASE SubmitFails(p) \/ FinalizeFails(p) \/ ResolveFails(p) \/ Die(p)
  BY <1>1, <1>15, LeaveMoves DEF SubmitFails, FinalizeFails, ResolveFails, Die
<1>16. CASE Announce(p)
  BY <1>1, <1>16 DEF Announce, Carry, Idle, Request, Moves, Settles
<1> QED
  BY <1>2, <1>3, <1>4, <1>5, <1>6, <1>7, <1>8, <1>9, <1>10, <1>11, <1>12, <1>13, <1>14, <1>15,
     <1>16 DEF BeginResultRequest, ContinueResultRequest

(* Every step of the system is the move of one request, or changes nothing. *)
LEMMA StepMoves ==
  ASSUME TypeOK, ResultsNamed, Next
  PROVE  \E p \in Procs : Moves(p)
BY MatchRequestMoves, ResultRequestMoves DEF Next, Continue

-----------------------------------------------------------------------------
(* What a step does to the rows. *)

(* Writing a lineup removes nobody: the row of a player stays, whatever its status. *)
LEMMA SeatedKeepsRoster ==
  ASSUME TypeOK, NEW lineup, player' = Seated(lineup)
  PROVE  Roster \subseteq Roster'
BY DEF TypeOK, PlayerRow, Seated, Roster

(* No handler removes a player: a roster read earlier is a part of the roster now. *)
LEMMA RosterGrows ==
  ASSUME TypeOK, [Next]_vars
  PROVE  Roster \subseteq Roster'
<1>1. CASE UNCHANGED player
  BY <1>1 DEF Roster
<1>2. ASSUME NEW p \in Procs, AddPlayersCommit(p)
      PROVE  Roster \subseteq Roster'
  BY <1>2 DEF AddPlayersCommit, Roster
<1>3. ASSUME NEW p \in Procs, UpdatePlayerCommit(p)
      PROVE  Roster \subseteq Roster'
  BY <1>3 DEF UpdatePlayerCommit, UpdatedRow, Roster, TypeOK, PlayerRow
<1>4. ASSUME NEW p \in Procs, LockCommit(p) \/ ReopenCommit(p)
      PROVE  Roster \subseteq Roster'
  BY <1>4 DEF LockCommit, ReopenCommit, matchVars, Roster, TypeOK, PlayerRow
<1>5. ASSUME NEW p \in Procs, ManualBalanceCommit(p) \/ AssignCommit(p)
      PROVE  Roster \subseteq Roster'
  BY <1>5, SeatedKeepsRoster DEF ManualBalanceCommit, AssignCommit
<1>6. ASSUME NEW p \in Procs, BeginMatchRequest(p) \/ BeginResultRequest(p) \/ GenerateCommit(p)
                              \/ ContinueResultRequest(p) \/ TakeJob(p) \/ Die(p)
      PROVE  UNCHANGED player
  BY <1>6 DEF BeginMatchRequest, BeginResultRequest, ContinueResultRequest, AddPlayersRead,
     UpdatePlayerRead, LockRead, ManualBalanceRead, GenerateRead, AssignRead, ReopenRead,
     GenerateCommit, SubmitReadMatch, SubmitReadResult, SubmitCommit, SubmitFails,
     ConfirmReadMatch, ConfirmReadResult, ConfirmRecord, TakeJob, FinalizeRead, FinalizeCommit,
     FinalizeFails, EnqueueFinalize, ResolveReadMatch, ResolveReadResult, ResolveCommit,
     ResolveFails, Announce, Die, rows, matchVars
<1>7. CASE UNCHANGED vars
  BY <1>1, <1>7 DEF vars, rows, matchVars
<1> QED
  BY <1>1, <1>2, <1>3, <1>4, <1>5, <1>6, <1>7 DEF Next, Continue, ContinueMatchRequest

ResultStage == {"RESULT_PENDING", "CONFIRMED", "DISPUTED"}

(* The four things a step can do to a result, its stats and its votes. *)
Keeps ==
  /\ UNCHANGED <<result, lastId, stats>>
  /\ matchStatus' = matchStatus \/ matchStatus' \notin ResultStage
  /\ \/ UNCHANGED votes
     \/ \E p \in Procs : /\ At(p, "confirm", "record") /\ result.id = req[p].rid
                         /\ votes' = [votes EXCEPT ![req[p].who][req[p].version] = req[p].vote]

Discards ==
  /\ result' = NoResult /\ votes' = NoVotes /\ stats' = [u \in Users |-> NoStat]
  /\ matchStatus' = "RECRUITING" /\ UNCHANGED lastId

Marks ==
  \E status \in ResultStatus :
    /\ result.id # 0 /\ result'.id = result.id /\ result'.status = status
    /\ result'.version >= result.version
    /\ stats' = MarkStats(status)
    /\ matchStatus' = MatchStatusOf(status)
    /\ UNCHANGED <<lastId, votes>>

Affects == Keeps \/ Discards \/ Marks \/ \E p \in Procs : SubmitCommit(p)

(* A step leaves the result alone, discards it, marks it or replaces it, as Affects says. *)
LEMMA StepAffects ==
  ASSUME TypeOK, ResultsNamed, [Next]_vars
  PROVE  Affects
<1>1. CASE UNCHANGED rows
  BY <1>1 DEF rows, matchVars, resultVars, Keeps, Affects
<1>2. ASSUME NEW p \in Procs, BeginMatchRequest(p) \/ BeginResultRequest(p) \/ TakeJob(p) \/ Die(p)
                \/ SubmitReadResult(p) \/ SubmitFails(p) \/ ConfirmReadResult(p)
                \/ FinalizeRead(p) \/ FinalizeFails(p) \/ EnqueueFinalize(p)
                \/ ResolveReadResult(p) \/ ResolveFails(p) \/ Announce(p)
      PROVE  UNCHANGED rows
  BY <1>2 DEF BeginMatchRequest, BeginResultRequest, AddPlayersRead,
     UpdatePlayerRead, LockRead, ManualBalanceRead, GenerateRead, AssignRead, ReopenRead,
     SubmitReadMatch, SubmitReadResult, SubmitFails,
     ConfirmReadMatch, ConfirmReadResult, TakeJob, FinalizeRead,
     FinalizeFails, EnqueueFinalize, ResolveReadMatch, ResolveReadResult,
     ResolveFails, Announce, Die
<1>3. ASSUME NEW p \in Procs, AddPlayersCommit(p) \/ UpdatePlayerCommit(p) \/ LockCommit(p)
                \/ ManualBalanceCommit(p) \/ GenerateCommit(p) \/ AssignCommit(p)
      PROVE  Keeps
  BY <1>3 DEF AddPlayersCommit, UpdatePlayerCommit, LockCommit, ManualBalanceCommit,
     GenerateCommit, AssignCommit, NoResultChange, resultVars, ResultStage, Keeps
<1>4. ASSUME NEW p \in Procs, ReopenCommit(p)
      PROVE  Keeps \/ Discards
  BY <1>4 DEF ReopenCommit, DiscardResult, matchVars, ResultStage, Keeps, Discards
<1>5. ASSUME NEW p \in Procs, ConfirmRecord(p)
      PROVE  Keeps
  BY <1>5 DEF ConfirmRecord, matchVars, Keeps
<1>6. ASSUME NEW p \in Procs, FinalizeCommit(p)
      PROVE  Marks
  <2>1. /\ req[p].status \in ResultStatus
        /\ result \in ResultRow /\ result.version \in 1 .. MaxVersion
        /\ req[p].rid # 0
    BY <1>6 DEF FinalizeCommit, TypeOK, Request, ResultRow, Versions, ResultsNamed, AboutResult
  <2> QED
    BY <1>6, <2>1, BoundsAssumption DEF FinalizeCommit, ResultRow, Marks
<1>7. ASSUME NEW p \in Procs, ResolveCommit(p)
      PROVE  Marks
  <2>1. /\ result \in ResultRow /\ result.version \in 1 .. MaxVersion
        /\ req[p].rid # 0
    BY <1>7 DEF ResolveCommit, TypeOK, ResultRow, Versions, ResultsNamed
  <2> QED
    BY <1>7, <2>1, BoundsAssumption DEF ResolveCommit, ResultRow, ResultStatus, MatchStatusOf, Marks
<1> QED
  BY <1>1, <1>2, <1>3, <1>4, <1>5, <1>6, <1>7
     DEF Next, Continue, ContinueMatchRequest, ContinueResultRequest, Affects, vars

-----------------------------------------------------------------------------
(* Lineups. *)

(* A match has at least one lane, hence players. *)
LEMMA MatchSizePositive == MatchSize \in Nat /\ MatchSize > 0 /\ Cardinality(Lanes) \in Nat
<1>1. Cardinality(Lanes) \in Nat /\ Cardinality(Lanes) # 0
  BY LanesAssumption, FS_CardinalityType, FS_EmptySet
<1> QED
  BY <1>1 DEF MatchSize

(* A set of players with a seat in each lane of one team, and no more players than lanes. *)
LEMMA TeamCoversLanes ==
  ASSUME NEW team \in SUBSET Users, NEW seats \in Lineup,
         Cardinality(team) = Cardinality(Lanes),
         Lanes \subseteq {seats[u][2] : u \in team}
  PROVE  {seats[u][2] : u \in team} = Lanes
<1> DEFINE T == {seats[u][2] : u \in team}
           f == [u \in team |-> seats[u][2]]
<1>1. IsFiniteSet(team)
  BY UsersAssumption, FS_Subset
<1>2. f \in Surjection(team, T)
  BY DEF Surjection
<1>3. IsFiniteSet(T) /\ Cardinality(T) <= Cardinality(team)
  BY <1>1, <1>2, FS_Surjection
<1> HIDE DEF T
<1>4. Lanes \in SUBSET T
  BY DEF T
<1>5. Cardinality(Lanes) <= Cardinality(T) /\ (Cardinality(T) = Cardinality(Lanes) => T = Lanes)
  BY <1>3, <1>4, FS_Subset
<1>6. Cardinality(T) \in Nat
  BY <1>3, FS_CardinalityType
<1> QED
  BY <1>3, <1>5, <1>6, MatchSizePositive DEF T

(***************************************************************************)
(* What assertQuickResultInputReady establishes: the players sit on every  *)
(* lane of each team, and there are as many players as seats, so that      *)
(* every lane of each team is taken once.                                  *)
(***************************************************************************)
LEMMA ReadyLineup ==
  ASSUME NEW players \in SUBSET Users, NEW seats \in Lineup, ResultInputReady(players, seats)
  PROVE  /\ {seats[u] : u \in players} = LaneSeats
         /\ Cardinality(players) = MatchSize
         /\ \A u \in players : seats[u] # NoSeat
<1> DEFINE Team(t) == {u \in players : seats[u][1] = t}
<1>1. \A u \in players : seats[u] \in Seats
  BY DEF Lineup, ResultInputReady
<1>2. \A t \in TeamSide : /\ Cardinality(Team(t)) = Cardinality(Lanes)
                          /\ Lanes \subseteq {seats[u][2] : u \in Team(t)}
                          /\ Team(t) \in SUBSET Users
  BY DEF ResultInputReady
<1> HIDE DEF Team
<1>3. \A t \in TeamSide : {seats[u][2] : u \in Team(t)} = Lanes
  BY <1>2, TeamCoversLanes
<1>4. {seats[u] : u \in players} = LaneSeats
  <2>1. ASSUME NEW u \in players
        PROVE  seats[u] \in LaneSeats
    <3>1. seats[u][1] \in TeamSide /\ u \in Team(seats[u][1])
      BY <1>1 DEF Seats, Team
    <3>2. seats[u][2] \in Lanes
      BY <1>3, <3>1
    <3> QED
      BY <1>1, <3>1, <3>2 DEF Seats, LaneSeats
  <2>2. ASSUME NEW seat \in LaneSeats
        PROVE  \E u \in players : seats[u] = seat
    <3>1. seat[1] \in TeamSide /\ seat[2] \in Lanes /\ seat = <<seat[1], seat[2]>>
      BY DEF LaneSeats
    <3>2. PICK u \in Team(seat[1]) : seats[u][2] = seat[2]
      BY <1>3, <3>1
    <3>3. u \in players /\ seats[u][1] = seat[1]
      BY <3>2 DEF Team
    <3> QED
      BY <1>1, <3>1, <3>2, <3>3 DEF Seats
  <2> QED
    BY <2>1, <2>2
<1>5. Cardinality(players) = MatchSize
  <2>1. players = Team("A") \cup Team("B") /\ Team("A") \cap Team("B") = {}
    BY <1>1 DEF Team, Seats, TeamSide
  <2>2. IsFiniteSet(Team("A")) /\ IsFiniteSet(Team("B"))
    BY <1>2, UsersAssumption, FS_Subset DEF TeamSide
  <2>3. Cardinality(players) = Cardinality(Team("A")) + Cardinality(Team("B")) - Cardinality({})
    BY <2>1, <2>2, FS_Union
  <2> QED
    BY <1>2, <2>3, FS_EmptySet, MatchSizePositive DEF TeamSide, MatchSize
<1> QED
  BY <1>4, <1>5 DEF ResultInputReady

(* Two full rosters read at different times are the same one. *)
LEMMA ComparableFullRosters ==
  ASSUME NEW S \in SUBSET Users, NEW T \in SUBSET Users, S \subseteq T \/ T \subseteq S,
         Cardinality(S) = MatchSize, Cardinality(T) = MatchSize
  PROVE  S = T
<1>1. IsFiniteSet(S) /\ IsFiniteSet(T)
  BY UsersAssumption, FS_Subset
<1> QED
  BY <1>1, FS_Subset

-----------------------------------------------------------------------------
(* The parts of the invariant, one after the other. *)

(* A match starts without a result, stats, votes, jobs or requests. *)
LEMMA InitResultInv == Init => ResultInv
<1> SUFFICES ASSUME Init PROVE ResultInv
  OBVIOUS
<1>1. /\ result = NoResult /\ lastId = 0 /\ votes = NoVotes /\ stats = [u \in Users |-> NoStat]
      /\ jobs = <<>> /\ req = [p \in Procs |-> Idle]
      /\ matchStatus \in {"RECRUITING", "BALANCED"}
  BY DEF Init, CreatedInit, BalancedInit, Start, CreatedMatch, BalancedMatch
<1>2. StatPlayers = {}
  BY <1>1 DEF StatPlayers
<1>3. \A p \in Procs : req[p].op = "idle" /\ req[p].pc = "idle" /\ req[p].rid = 0
  BY <1>1 DEF Idle
<1>4. Snapshots = {{}} /\ SnapshotChain
  BY <1>2, <1>3 DEF Submitting, Snapshots, SnapshotChain
<1>5. SubmissionsReady /\ ResultsNamed /\ VotesInProgress
  BY <1>1, <1>3 DEF SubmissionsReady, ResultsNamed, AboutResult, VotesInProgress, At, NoResult
<1>6. StatsMirrorResult /\ LineupComplete /\ MatchReflectsResult
  BY <1>1, <1>2 DEF StatsMirrorResult, LineupComplete, MatchReflectsResult, NoResult
<1>7. VotesBelongToResult
  BY <1>1 DEF VotesBelongToResult, NoVotes
<1> QED
  BY <1>4, <1>5, <1>6, <1>7 DEF ResultInv

(* The players and seats a submission writes are a full lineup. *)
LEMMA SubmissionLineup ==
  ASSUME TypeOK, SubmissionsReady, SnapshotChain, NEW p \in Procs, At(p, "submit", "commit")
  PROVE  /\ req[p].players \in SUBSET Users
         /\ req[p].players \in Snapshots
         /\ {req[p].seats[u] : u \in req[p].players} = LaneSeats
         /\ Cardinality(req[p].players) = MatchSize
         /\ \A u \in req[p].players : req[p].seats[u] # NoSeat
<1>1. req[p].players \in SUBSET Users /\ req[p].seats \in Lineup
  BY DEF TypeOK, Request
<1>2. ResultInputReady(req[p].players, req[p].seats)
  BY DEF SubmissionsReady
<1>3. req[p].players \in Snapshots
  BY DEF At, Submitting, Snapshots
<1> QED
  BY <1>1, <1>2, <1>3, ReadyLineup

(***************************************************************************)
(* After a submission the stats are those of its own lineup and nothing    *)
(* else: the stats it overwrites were those of the same players, because   *)
(* both lineups are full rosters read from a roster that only grows.       *)
(***************************************************************************)
LEMMA SubmissionReplacesStats ==
  ASSUME TypeOK, ResultInv, NEW p \in Procs, SubmitCommit(p)
  PROVE  /\ StatPlayers' = req[p].players
         /\ \A u \in StatPlayers' :
              stats'[u].seat = req[p].seats[u] /\ stats'[u].status = "PARTIAL"
         /\ result'.id # 0 /\ result'.status = "PARTIAL"
         /\ matchStatus' = "RESULT_PENDING"
<1>1. At(p, "submit", "commit") /\ WriteStats(req[p])
  BY DEF SubmitCommit
<1>2. /\ req[p].players \in SUBSET Users /\ req[p].players \in Snapshots
      /\ Cardinality(req[p].players) = MatchSize
      /\ \A u \in req[p].players : req[p].seats[u] # NoSeat
  BY <1>1, SubmissionLineup DEF ResultInv
<1>3. StatPlayers \subseteq req[p].players
  <2>1. CASE result.id = 0
    BY <2>1 DEF ResultInv, StatsMirrorResult
  <2>2. CASE result.id # 0
    <3>1. Cardinality(StatPlayers) = MatchSize /\ StatPlayers \in SUBSET Users
      BY <2>2 DEF ResultInv, LineupComplete, StatPlayers
    <3>2. StatPlayers \subseteq req[p].players \/ req[p].players \subseteq StatPlayers
      BY <1>2 DEF ResultInv, SnapshotChain, Snapshots
    <3> QED
      BY <1>2, <3>1, <3>2, ComparableFullRosters
  <2> QED
    BY <2>1, <2>2
<1>4. \A u \in Users : stats'[u] = IF u \in req[p].players
                                     THEN [seat |-> req[p].seats[u], status |-> "PARTIAL"]
                                     ELSE stats[u]
  BY <1>1 DEF WriteStats
<1>5. \A u \in Users : u \in StatPlayers' <=> u \in req[p].players
  <2>1. \A u \in req[p].players : stats'[u] # NoStat
    <3> SUFFICES ASSUME NEW u \in req[p].players PROVE stats'[u] # NoStat
      OBVIOUS
    <3>1. u \in Users /\ req[p].seats[u] # NoSeat
      BY <1>2
    <3>2. stats'[u] = [seat |-> req[p].seats[u], status |-> "PARTIAL"]
      BY <1>4, <3>1
    <3>3. stats'[u].seat # NoStat.seat
      BY <3>1, <3>2 DEF NoStat
    <3> QED
      BY <3>3
  <2>2. \A u \in Users \ req[p].players : stats'[u] = NoStat
    BY <1>3, <1>4 DEF StatPlayers
  <2> QED
    BY <2>1, <2>2 DEF StatPlayers
<1>6. StatPlayers' = req[p].players
  BY <1>2, <1>5 DEF StatPlayers
<1>7. result'.id # 0 /\ result'.status = "PARTIAL" /\ matchStatus' = "RESULT_PENDING"
  <2>1. CASE CreateResult(req[p])
    BY <2>1 DEF CreateResult, SubmitCommit, TypeOK
  <2>2. CASE OverwriteResult(req[p])
    BY <2>2 DEF OverwriteResult, SubmitCommit, TypeOK, ResultRow
  <2> QED
    BY <2>1, <2>2 DEF SubmitCommit
<1>8. ASSUME NEW u \in StatPlayers'
      PROVE  stats'[u].seat = req[p].seats[u] /\ stats'[u].status = "PARTIAL"
  <2>1. u \in req[p].players /\ u \in Users
    BY <1>2, <1>6
  <2>2. stats'[u] = [seat |-> req[p].seats[u], status |-> "PARTIAL"]
    BY <1>4, <2>1
  <2> QED
    BY <2>2
<1> QED
  BY <1>6, <1>7, <1>8

(* Marking changes the status of the stats, never whose they are. *)
LEMMA MarkingKeepsStatPlayers ==
  ASSUME TypeOK, LineupComplete, result.id # 0, NEW status, stats' = MarkStats(status)
  PROVE  /\ StatPlayers' = StatPlayers
         /\ \A u \in StatPlayers : stats'[u].status = status /\ stats'[u].seat = stats[u].seat
<1>1. \A u \in StatPlayers : stats[u] \in StatRow /\ stats[u].seat # NoSeat
  <2>1. \A u \in StatPlayers : stats[u].seat \in LaneSeats
    BY DEF LineupComplete
  <2>2. NoSeat \notin LaneSeats
    BY SeatAssumption DEF LaneSeats, Seats, Positions
  <2> QED
    BY <2>1, <2>2 DEF TypeOK, StatPlayers
<1>2. \A u \in StatPlayers : /\ stats'[u].status = status /\ stats'[u].seat = stats[u].seat
                             /\ stats'[u] # NoStat
  BY <1>1 DEF MarkStats, StatPlayers, StatRow, NoStat
<1>3. \A u \in Users \ StatPlayers : stats'[u] = NoStat
  BY DEF MarkStats, StatPlayers
<1> QED
  BY <1>2, <1>3 DEF StatPlayers

(* Whatever a step does to the result it does to the stats as well. *)
LEMMA StatsMirrorPreserved ==
  ASSUME TypeOK, ResultInv, [Next]_vars
  PROVE  StatsMirrorResult'
<1>1. CASE Keeps
  BY <1>1 DEF Keeps, ResultInv, StatsMirrorResult, StatPlayers
<1>2. CASE Discards
  BY <1>2 DEF Discards, StatsMirrorResult, StatPlayers, NoResult
<1>3. CASE Marks
  <2>1. PICK status \in ResultStatus :
          /\ result.id # 0 /\ result'.id = result.id /\ result'.status = status
          /\ stats' = MarkStats(status)
    BY <1>3 DEF Marks
  <2>2. StatPlayers' = StatPlayers /\ \A u \in StatPlayers : stats'[u].status = status
    BY <2>1, MarkingKeepsStatPlayers DEF ResultInv
  <2> QED
    BY <2>1, <2>2 DEF ResultInv, StatsMirrorResult
<1>4. ASSUME NEW p \in Procs, SubmitCommit(p)
      PROVE  StatsMirrorResult'
  <2>1. StatPlayers' = req[p].players /\ \A u \in StatPlayers' : stats'[u].status = "PARTIAL"
    BY <1>4, SubmissionReplacesStats
  <2>2. result'.id # 0 /\ result'.status = "PARTIAL"
    BY <1>4, SubmissionReplacesStats
  <2>3. req[p].players # {}
    <3>1. Cardinality(req[p].players) = MatchSize
      BY <1>4, SubmissionLineup DEF ResultInv, SubmitCommit
    <3> QED
      BY <3>1, FS_EmptySet, MatchSizePositive
  <2> QED
    BY <2>1, <2>2, <2>3 DEF StatsMirrorResult
<1> QED
  BY <1>1, <1>2, <1>3, <1>4, StepAffects DEF Affects, ResultInv

(* A step keeps the lineup of the stats, replaces it by a full one, or deletes it whole. *)
LEMMA LineupPreserved ==
  ASSUME TypeOK, ResultInv, [Next]_vars
  PROVE  LineupComplete'
<1>1. CASE Keeps
  BY <1>1 DEF Keeps, ResultInv, LineupComplete, StatPlayers
<1>2. CASE Discards
  BY <1>2 DEF Discards, LineupComplete, NoResult
<1>3. CASE Marks
  <2>1. PICK status \in ResultStatus : result.id # 0 /\ stats' = MarkStats(status)
    BY <1>3 DEF Marks
  <2>2. StatPlayers' = StatPlayers /\ \A u \in StatPlayers : stats'[u].seat = stats[u].seat
    BY <2>1, MarkingKeepsStatPlayers DEF ResultInv
  <2>3. {stats[u].seat : u \in StatPlayers} = LaneSeats /\ Cardinality(StatPlayers) = MatchSize
    BY <2>1 DEF ResultInv, LineupComplete
  <2> QED
    BY <2>2, <2>3 DEF LineupComplete
<1>4. ASSUME NEW p \in Procs, SubmitCommit(p)
      PROVE  LineupComplete'
  <2>1. StatPlayers' = req[p].players /\ \A u \in StatPlayers' : stats'[u].seat = req[p].seats[u]
    BY <1>4, SubmissionReplacesStats
  <2>2. /\ {req[p].seats[u] : u \in req[p].players} = LaneSeats
        /\ Cardinality(req[p].players) = MatchSize
    BY <1>4, SubmissionLineup DEF ResultInv, SubmitCommit
  <2>3. {stats'[u].seat : u \in StatPlayers'} = {req[p].seats[u] : u \in req[p].players}
    BY <2>1
  <2> QED
    BY <2>1, <2>2, <2>3 DEF LineupComplete
<1> QED
  BY <1>1, <1>2, <1>3, <1>4, StepAffects DEF Affects, ResultInv

(* A step that names a result stage in the match writes the same one in the result. *)
LEMMA MatchStatusPreserved ==
  ASSUME TypeOK, ResultInv, [Next]_vars
  PROVE  MatchReflectsResult'
<1>1. CASE Keeps
  BY <1>1 DEF Keeps, ResultStage, ResultInv, MatchReflectsResult
<1>2. CASE Discards
  BY <1>2 DEF Discards, MatchReflectsResult
<1>3. CASE Marks
  BY <1>3 DEF Marks, MatchStatusOf, ResultStatus, MatchReflectsResult
<1>4. ASSUME NEW p \in Procs, SubmitCommit(p)
      PROVE  MatchReflectsResult'
  BY <1>4, SubmissionReplacesStats DEF MatchReflectsResult
<1> QED
  BY <1>1, <1>2, <1>3, <1>4, StepAffects DEF Affects, ResultInv

(* A step leaves the snapshots there are, takes the roster as it is, or empties the stats. *)
LEMMA SnapshotsFrom ==
  ASSUME TypeOK, ResultInv, [Next]_vars, NEW S \in Snapshots'
  PROVE  S \in Snapshots \/ S = Roster \/ S = {}
<1>1. CASE S = StatPlayers'
  <2>1. CASE Keeps \/ Discards
    BY <1>1, <2>1 DEF Keeps, Discards, StatPlayers, Snapshots
  <2>2. CASE Marks
    BY <1>1, <2>2, MarkingKeepsStatPlayers DEF Marks, Snapshots, ResultInv
  <2>3. ASSUME NEW p \in Procs, SubmitCommit(p)
        PROVE  S \in Snapshots
    BY <1>1, <2>3, SubmissionReplacesStats, SubmissionLineup DEF ResultInv, SubmitCommit
  <2> QED
    BY <2>1, <2>2, <2>3, StepAffects DEF Affects, ResultInv
<1>2. ASSUME NEW q \in Procs, Submitting(q)', S = req'[q].players
      PROVE  S \in Snapshots \/ S = Roster
  <2>1. CASE req'[q] = req[q]
    BY <1>2, <2>1 DEF Submitting, Snapshots
  <2>2. CASE Moves(q)
    <3>1. ReadsRoster(q) \/ PassesCheck(q)
      BY <1>2, <2>2 DEF Submitting, Moves, Settles, MatchOps, ReadsVoter, ReadsVersion, NamesResult
    <3> QED
      BY <1>2, <3>1 DEF ReadsRoster, PassesCheck, At, Submitting, Snapshots
  <2>3. CASE Next
    BY <2>1, <2>2, <2>3, StepMoves DEF Moves, ResultInv
  <2>4. CASE UNCHANGED vars
    BY <2>1, <2>4 DEF vars
  <2> QED
    BY <2>3, <2>4
<1> QED
  BY <1>1, <1>2 DEF Snapshots

(* A new snapshot is the roster of its moment, which contains all the earlier ones. *)
LEMMA ChainPreserved ==
  ASSUME TypeOK, ResultInv, [Next]_vars
  PROVE  SnapshotChain'
<1>1. \A S \in Snapshots : S \subseteq Roster
  BY DEF ResultInv, SnapshotChain
<1>2. \A S, T \in Snapshots : S \subseteq T \/ T \subseteq S
  BY DEF ResultInv, SnapshotChain
<1>3. ASSUME NEW S \in Snapshots'
      PROVE  S \subseteq Roster'
  BY <1>1, <1>3, SnapshotsFrom, RosterGrows
<1>4. ASSUME NEW S \in Snapshots', NEW T \in Snapshots'
      PROVE  S \subseteq T \/ T \subseteq S
  <2>1. S \in Snapshots \/ S = Roster \/ S = {}
    BY SnapshotsFrom
  <2>2. T \in Snapshots \/ T = Roster \/ T = {}
    BY SnapshotsFrom
  <2> QED
    BY <1>1, <1>2, <2>1, <2>2
<1> QED
  BY <1>3, <1>4 DEF SnapshotChain

(* A submission reaches its transaction only past assertQuickResultInputReady. *)
LEMMA SubmissionsReadyPreserved ==
  ASSUME TypeOK, ResultInv, [Next]_vars
  PROVE  SubmissionsReady'
<1> SUFFICES ASSUME NEW q \in Procs, At(q, "submit", "commit")'
             PROVE  ResultInputReady(req[q].players, req[q].seats)'
  BY DEF SubmissionsReady
<1>1. CASE req'[q] = req[q]
  <2>1. ResultInputReady(req[q].players, req[q].seats)
    BY <1>1 DEF ResultInv, SubmissionsReady, At
  <2> QED
    BY <1>1, <2>1 DEF ResultInputReady
<1>2. CASE Moves(q)
  <2>1. PassesCheck(q)
    BY <1>2 DEF At, Moves, Settles, MatchOps, ReadsRoster, ReadsVoter, ReadsVersion, NamesResult
  <2> QED
    BY <2>1 DEF PassesCheck, ResultInputReady
<1>3. CASE Next
  BY <1>1, <1>2, <1>3, StepMoves DEF Moves, ResultInv
<1>4. CASE UNCHANGED vars
  BY <1>1, <1>4 DEF vars
<1> QED
  BY <1>3, <1>4

(* The queue holds ids of results only: a vote queues the id it read. *)
LEMMA JobsPreserved ==
  ASSUME TypeOK, ResultsNamed, [Next]_vars
  PROVE  jobs' \in Seq(1 .. MaxResults)
<1>1. jobs \in Seq(1 .. MaxResults)
  BY DEF ResultsNamed
<1>2. \A p \in Procs : req[p].rid # 0 => req[p].rid \in 1 .. MaxResults
  BY BoundsAssumption DEF TypeOK, Request
<1>3. ASSUME NEW p \in Procs, TakeJob(p)
      PROVE  jobs' \in Seq(1 .. MaxResults)
  <2>1. jobs # <<>> /\ jobs' = Tail(jobs)
    BY <1>3 DEF TakeJob
  <2> QED
    BY <1>1, <2>1, HeadTailProperties
<1>4. ASSUME NEW p \in Procs, EnqueueFinalize(p)
      PROVE  jobs' \in Seq(1 .. MaxResults)
  <2>1. jobs' = Append(jobs, req[p].rid) /\ req[p].rid \in 1 .. MaxResults
    BY <1>2, <1>4 DEF EnqueueFinalize, ResultsNamed, AboutResult
  <2> QED
    BY <1>1, <2>1
<1>5. ASSUME NEW p \in Procs, Die(p)
      PROVE  jobs' \in Seq(1 .. MaxResults)
  <2>1. CASE UNCHANGED jobs
    BY <1>1, <2>1
  <2>2. CASE jobs' = <<req[p].rid>> \o jobs /\ req[p].rid # 0
    <3>1. <<req[p].rid>> \in Seq(1 .. MaxResults)
      BY <1>2, <2>2
    <3>2. <<req[p].rid>> \o jobs \in Seq(1 .. MaxResults)
      BY <1>1, <3>1, ConcatProperties
    <3> QED
      BY <2>2, <3>2
  <2> QED
    BY <1>5, <2>1, <2>2 DEF Die
<1>6. ASSUME NEW p \in Procs, BeginMatchRequest(p) \/ ContinueMatchRequest(p)
                \/ BeginResultRequest(p)
                \/ SubmitReadResult(p) \/ SubmitCommit(p) \/ SubmitFails(p)
                \/ ConfirmReadResult(p) \/ ConfirmRecord(p) \/ FinalizeRead(p)
                \/ FinalizeCommit(p) \/ FinalizeFails(p)
                \/ ResolveReadResult(p) \/ ResolveCommit(p) \/ ResolveFails(p) \/ Announce(p)
      PROVE  UNCHANGED jobs
  BY <1>6 DEF BeginMatchRequest, ContinueMatchRequest, BeginResultRequest, AddPlayersRead,
     UpdatePlayerRead, LockRead, ManualBalanceRead, GenerateRead, AssignRead, ReopenRead,
     AddPlayersCommit, UpdatePlayerCommit, LockCommit, ManualBalanceCommit, GenerateCommit,
     AssignCommit, ReopenCommit, NoResultChange, SubmitReadMatch, SubmitReadResult, SubmitCommit,
     SubmitFails, ConfirmReadMatch, ConfirmReadResult, ConfirmRecord, FinalizeRead,
     FinalizeCommit, FinalizeFails, ResolveReadMatch, ResolveReadResult, ResolveCommit,
     ResolveFails, Announce
<1>7. CASE UNCHANGED jobs
  BY <1>1, <1>7
<1> QED
  BY <1>3, <1>4, <1>5, <1>6, <1>7 DEF Next, Continue, ContinueResultRequest, vars

(* A request or a job about a result keeps the id it read, and that id is not 0. *)
LEMMA NamesPreserved ==
  ASSUME TypeOK, ResultInv, [Next]_vars
  PROVE  ResultsNamed'
<1>1. jobs' \in Seq(1 .. MaxResults)
  BY JobsPreserved DEF ResultInv
<1>2. ASSUME NEW q \in Procs, req'[q].pc \in AboutResult \/ At(q, "resolve", "commit")'
      PROVE  req'[q].rid # 0
  <2>1. CASE req'[q] = req[q]
    BY <1>2, <2>1 DEF ResultInv, ResultsNamed, At
  <2>2. CASE Moves(q)
    BY <1>2, <2>2 DEF AboutResult, At, Moves, Settles, MatchOps, ReadsRoster, PassesCheck,
       ReadsVoter, ReadsVersion, NamesResult
  <2>3. CASE Next
    BY <2>1, <2>2, <2>3, StepMoves DEF Moves, ResultInv
  <2>4. CASE UNCHANGED vars
    BY <2>1, <2>4 DEF vars
  <2> QED
    BY <2>3, <2>4
<1> QED
  BY <1>1, <1>2 DEF ResultsNamed

(***************************************************************************)
(* Over a step a result stays, with no smaller version; or it is gone; or  *)
(* it is a new one, whose id no request has read before.                   *)
(***************************************************************************)
LEMMA ResultEvolves ==
  ASSUME TypeOK, ResultInv, [Next]_vars
  PROVE  /\ lastId' >= lastId /\ result'.id <= lastId'
         /\ \/ result'.id = result.id /\ result'.version >= result.version
            \/ result'.id = 0
            \/ result.id = 0 /\ result'.id > lastId
<1>1. /\ result.id <= lastId /\ lastId \in Nat /\ result.id \in Nat /\ result.version \in Nat
  BY BoundsAssumption DEF TypeOK, ResultRow, Versions, ResultInv, VotesInProgress
<1>2. CASE Keeps
  BY <1>1, <1>2 DEF Keeps
<1>3. CASE Discards
  BY <1>1, <1>3 DEF Discards, NoResult
<1>4. CASE Marks
  BY <1>1, <1>4 DEF Marks
<1>5. ASSUME NEW p \in Procs, SubmitCommit(p)
      PROVE  /\ lastId' >= lastId /\ result'.id <= lastId'
             /\ \/ result'.id = result.id /\ result'.version >= result.version
                \/ result'.id = 0
                \/ result.id = 0 /\ result'.id > lastId
  <2>1. CASE CreateResult(req[p])
    BY <1>1, <2>1 DEF CreateResult
  <2>2. CASE OverwriteResult(req[p])
    <3>1. result'.id = result.id /\ result'.version = result.version + 1 /\ lastId' = lastId
      BY <2>2 DEF OverwriteResult, TypeOK, ResultRow
    <3> QED
      BY <1>1, <3>1
  <2> QED
    BY <1>5, <2>1, <2>2 DEF SubmitCommit
<1> QED
  BY <1>2, <1>3, <1>4, <1>5, StepAffects DEF Affects, ResultInv

(* While a vote is on its way its voter stays a player and versions only grow. *)
LEMMA VotesInProgressPreserved ==
  ASSUME TypeOK, ResultInv, [Next]_vars
  PROVE  VotesInProgress'
<1>1. result'.id <= lastId'
  BY ResultEvolves
<1>2. /\ \A q \in Procs : req[q] \in Request /\ req[q].rid \in Nat /\ req[q].version \in Nat
      /\ result.id \in Nat /\ result.version \in Nat /\ lastId \in Nat
      /\ result'.id \in Nat /\ result'.version \in Nat /\ lastId' \in Nat
  <2>1. TypeOK'
    BY StepType
  <2> QED
    BY <2>1, BoundsAssumption, SMTT(30) DEF TypeOK, Request, ResultRow, Versions
<1>3. ASSUME NEW q \in Procs, req'[q] = req[q]
      PROVE  /\ req'[q].op = "confirm" /\ req'[q].pc \in {"readResult", "record"}
                  => req'[q].who \in Roster'
             /\ req'[q].pc = "record" =>
                  /\ req'[q].op = "confirm"
                  /\ req'[q].rid <= lastId'
                  /\ req'[q].rid = result'.id => req'[q].version <= result'.version
  <2>1. req[q].op = "confirm" /\ req[q].pc \in {"readResult", "record"} => req[q].who \in Roster'
    BY RosterGrows DEF ResultInv, VotesInProgress
  <2>2. ASSUME req[q].pc = "record"
        PROVE  /\ req[q].op = "confirm"
               /\ req[q].rid <= lastId'
               /\ req[q].rid = result'.id => req[q].version <= result'.version
    <3>1. /\ req[q].op = "confirm" /\ req[q].rid <= lastId
          /\ req[q].rid = result.id => req[q].version <= result.version
          /\ req[q].rid # 0
      BY <2>2 DEF ResultInv, VotesInProgress, ResultsNamed, AboutResult
    <3> QED
      BY <1>2, <3>1, ResultEvolves
  <2> QED
    BY <1>3, <2>1, <2>2
<1>4. ASSUME NEW q \in Procs, Moves(q)
      PROVE  /\ req'[q].op = "confirm" /\ req'[q].pc \in {"readResult", "record"}
                  => req'[q].who \in Roster'
             /\ req'[q].pc = "record" =>
                  /\ req'[q].op = "confirm"
                  /\ req'[q].rid <= lastId'
                  /\ req'[q].rid = result'.id => req'[q].version <= result'.version
  <2>1. CASE ReadsVersion(q)
    BY <1>1, <1>2, <2>1 DEF ReadsVersion, At, rows, matchVars, resultVars, Roster, ResultInv,
       VotesInProgress
  <2>2. CASE ReadsVoter(q)
    BY <2>2, RosterGrows DEF ReadsVoter
  <2>3. CASE Settles(q) \/ ReadsRoster(q) \/ PassesCheck(q) \/ NamesResult(q)
    BY <2>3 DEF Settles, MatchOps, ReadsRoster, PassesCheck, NamesResult
  <2> QED
    BY <1>4, <2>1, <2>2, <2>3 DEF Moves
<1>5. CASE Next
  BY <1>1, <1>3, <1>4, <1>5, StepMoves DEF Moves, ResultInv, VotesInProgress
<1>6. CASE UNCHANGED vars
  BY <1>1, <1>3, <1>6 DEF vars, VotesInProgress
<1> QED
  BY <1>5, <1>6

(* A vote recorded is on the present result, and the votes go when the result does. *)
LEMMA VotesPreserved ==
  ASSUME TypeOK, ResultInv, [Next]_vars
  PROVE  VotesBelongToResult'
<1> SUFFICES ASSUME NEW u \in Users, NEW v \in Versions, votes'[u][v] # NoVote
             PROVE  result'.id # 0 /\ v <= result'.version /\ u \in Roster'
  BY DEF VotesBelongToResult
<1>1. /\ v \in Nat /\ result.version \in Nat /\ result'.version \in Nat
  <2>1. TypeOK'
    BY StepType
  <2> QED
    BY <2>1, BoundsAssumption DEF TypeOK, ResultRow, Versions
<1>2. votes[u][v] # NoVote => result.id # 0 /\ v <= result.version /\ u \in Roster'
  BY RosterGrows DEF ResultInv, VotesBelongToResult
<1>3. CASE Keeps
  <2>1. CASE votes[u][v] # NoVote
    BY <1>2, <1>3, <2>1 DEF Keeps
  <2>2. ASSUME NEW p \in Procs, At(p, "confirm", "record"), result.id = req[p].rid,
               votes' = [votes EXCEPT ![req[p].who][req[p].version] = req[p].vote],
               votes[u][v] = NoVote
        PROVE  result'.id # 0 /\ v <= result'.version /\ u \in Roster'
    <3>1. u = req[p].who /\ v = req[p].version
      BY <2>2 DEF TypeOK
    <3>2. /\ req[p].who \in Roster /\ req[p].version <= result.version /\ result.id # 0
      BY <2>2 DEF ResultInv, VotesInProgress, ResultsNamed, AboutResult, At
    <3> QED
      BY <1>3, <3>1, <3>2, RosterGrows DEF Keeps
  <2> QED
    BY <1>3, <2>1, <2>2 DEF Keeps
<1>4. CASE Discards
  BY <1>4 DEF Discards, NoVotes
<1>5. CASE Marks
  BY <1>1, <1>2, <1>5 DEF Marks
<1>6. ASSUME NEW p \in Procs, SubmitCommit(p)
      PROVE  result'.id # 0 /\ v <= result'.version /\ u \in Roster'
  <2>1. result.id # 0 /\ v <= result.version /\ u \in Roster'
    BY <1>2, <1>6 DEF SubmitCommit
  <2>2. result'.id = result.id /\ result'.version = result.version + 1
    BY <1>6, <2>1 DEF SubmitCommit, CreateResult, OverwriteResult, TypeOK, ResultRow
  <2> QED
    BY <1>1, <2>1, <2>2
<1> QED
  BY <1>3, <1>4, <1>5, <1>6, StepAffects DEF Affects, ResultInv

(* ResultInv is inductive once the state is typed. *)
LEMMA ResultInvPreserved == TypeOK /\ ResultInv /\ [Next]_vars => ResultInv'
<1> SUFFICES ASSUME TypeOK, ResultInv, [Next]_vars PROVE ResultInv'
  OBVIOUS
<1> QED
  BY ChainPreserved, SubmissionsReadyPreserved, NamesPreserved, VotesInProgressPreserved,
     StatsMirrorPreserved, LineupPreserved, MatchStatusPreserved, VotesPreserved DEF ResultInv

(***************************************************************************)
(* In every behaviour the requests in progress can only write what the     *)
(* result allows: submissions hold one and the same full roster, and votes *)
(* and jobs name results and versions that were there.                     *)
(***************************************************************************)
THEOREM ResultInvariance == Spec => []ResultInv
<1>1. Init => TypeOK /\ ResultInv
  BY InitType, InitResultInv
<1>2. (TypeOK /\ ResultInv) /\ [Next]_vars => (TypeOK /\ ResultInv)'
  BY StepType, ResultInvPreserved
<1> QED
  BY <1>1, <1>2, PTL DEF Spec

(* The stats always carry the status of the result, and exist while it does. *)
THEOREM StatsFollowResult == Spec => []StatsMirrorResult
<1>1. ResultInv => StatsMirrorResult
  BY DEF ResultInv
<1> QED
  BY <1>1, ResultInvariance, PTL

(* A result always has the stats of one complete lineup. *)
THEOREM ResultHasLineup == Spec => []LineupComplete
<1>1. ResultInv => LineupComplete
  BY DEF ResultInv
<1> QED
  BY <1>1, ResultInvariance, PTL

(* A match whose status speaks of a result has that result in that status. *)
THEOREM MatchFollowsResult == Spec => []MatchReflectsResult
<1>1. ResultInv => MatchReflectsResult
  BY DEF ResultInv
<1> QED
  BY <1>1, ResultInvariance, PTL

(* Every confirmation on record is a player's, on a version the present result has had. *)
THEOREM VotesFollowResult == Spec => []VotesBelongToResult
<1>1. ResultInv => VotesBelongToResult
  BY DEF ResultInv
<1> QED
  BY <1>1, ResultInvariance, PTL

-----------------------------------------------------------------------------
(***************************************************************************)
(* The recount.  A vote's own finalization may write a status counted      *)
(* before other votes; what repairs it is that somebody always counts      *)
(* again: a request that has still to read the votes, a vote's request     *)
(* that has still to queue its job, or a job that waits.                   *)
(***************************************************************************)
Finalizing == {"finalizeRead", "finalizeCommit", "enqueue"}

CountsLater(p) ==
  /\ req[p].rid = result.id
  /\ req[p].pc \in {"finalizeRead", "enqueue"} \/ At(p, "confirm", "finalizeCommit")

RecountPending ==
  \/ \E p \in Procs : CountsLater(p)
  \/ \E i \in DOMAIN jobs : jobs[i] = result.id

(* The worker has counted the votes of the result and not written the status yet. *)
Deciding(p) == req[p].pc = "finalizeCommit" /\ req[p].op # "confirm" /\ req[p].rid = result.id

(* Until somebody counts again, the status written or about to be written is the counted one. *)
CountInv ==
  /\ \A p \in Procs : req[p].rid <= lastId
  /\ jobs \in Seq(1 .. lastId)
  /\ \A p \in Procs : req[p].pc \in Finalizing => req[p].op = "confirm" \/ p = Worker
  /\ result.id # 0 /\ result.version = 1 =>
       /\ \/ result.status = CountedStatus
          \/ RecountPending
          \/ \E p \in Procs : Deciding(p)
       /\ \A p \in Procs : Deciding(p) => req[p].status = CountedStatus \/ RecountPending

(* While there is a result, who plays and who is a captain stay the same. *)
RosterStands == result.id # 0 => UNCHANGED <<JoinedPlayers, Captains>>

(* Nor does an operator decide the result instead of the votes. *)
Undisturbed == RosterStands /\ ~ \E p \in Procs : ResolveCommit(p)

(* A step that has nothing to do with counting. *)
PassesBy(p) ==
  /\ UNCHANGED <<result, lastId, votes, jobs>>
  /\ \A q \in Procs \ {p} : req'[q] = req[q]
  /\ req[p].pc \notin Finalizing
  /\ req'[p].pc \notin Finalizing
  /\ req'[p].rid <= lastId

(* Ids are numbers. *)
LEMMA IdsTyped ==
  ASSUME TypeOK
  PROVE  /\ result.id \in Nat /\ lastId \in Nat
         /\ \A p \in Procs : req[p] \in Request /\ req[p].rid \in Nat
         /\ result \in ResultRow /\ result.version \in Nat
BY BoundsAssumption DEF TypeOK, ResultRow, Request, Versions

(* A request that is over reads no id, and counts nothing. *)
LEMMA LeavePassesBy ==
  ASSUME TypeOK, NEW p \in Procs, Leave(p), req[p].pc \notin Finalizing,
         UNCHANGED <<result, lastId, votes, jobs>>
  PROVE  PassesBy(p)
<1>1. req' = [req EXCEPT ![p] = Idle] /\ Idle.pc = "idle" /\ Idle.rid = 0
  BY DEF Leave, Carry, Idle
<1>2. lastId \in Nat /\ req \in [Procs -> Request]
  BY IdsTyped DEF TypeOK
<1> QED
  BY <1>1, <1>2 DEF PassesBy, Finalizing

(* Neither does one that has messages left to send; it remembers the id it named. *)
LEMMA ThenSendRequest ==
  ASSUME TypeOK, NEW p \in Procs, NEW messages, ThenSend(p, messages)
  PROVE  /\ \A q \in Procs \ {p} : req'[q] = req[q]
         /\ req'[p].pc \notin Finalizing
         /\ req'[p].rid \in {0, req[p].rid}
<1>1. req \in [Procs -> Request]
  BY DEF TypeOK
<1> QED
  BY <1>1 DEF ThenSend, Carry, Idle, Finalizing

(* The requests of MatchesService and MatchmakingService do not count votes. *)
LEMMA MatchRequestPassesBy ==
  ASSUME TypeOK, ResultInv, NEW p \in Procs,
         BeginMatchRequest(p) \/ (ContinueMatchRequest(p) /\ UNCHANGED result)
  PROVE  PassesBy(p)
<1>1. /\ req \in [Procs -> Request] /\ lastId \in Nat
      /\ 0 <= lastId /\ result.id \in Nat
  BY IdsTyped DEF TypeOK
<1>2. CASE AddPlayersRead(p) \/ UpdatePlayerRead(p) \/ LockRead(p) \/ ManualBalanceRead(p)
           \/ GenerateRead(p) \/ AssignRead(p)
  <2>1. UNCHANGED <<result, lastId, votes, jobs>> /\ req[p] = Idle
    BY <1>2 DEF AddPlayersRead, UpdatePlayerRead, LockRead, ManualBalanceRead, GenerateRead,
       AssignRead, Starts, rows, resultVars
  <2>2. ASSUME NEW r, Carry(p, r), r.pc = "commit", r.rid = 0
        PROVE  PassesBy(p)
    BY <1>1, <2>1, <2>2 DEF Carry, PassesBy, Finalizing, Idle
  <2>3. CASE AddPlayersRead(p)
    BY <2>2, <2>3 DEF AddPlayersRead, Idle
  <2>4. CASE UpdatePlayerRead(p)
    BY <2>2, <2>4 DEF UpdatePlayerRead, Idle
  <2>5. CASE LockRead(p) \/ ManualBalanceRead(p) \/ GenerateRead(p) \/ AssignRead(p)
    BY <2>2, <2>5 DEF LockRead, ManualBalanceRead, GenerateRead, AssignRead, Idle
  <2> QED
    BY <1>2, <2>3, <2>4, <2>5
<1>3. CASE ReopenRead(p)
  <2>1. result.id <= lastId
    BY DEF ResultInv, VotesInProgress
  <2>2. /\ UNCHANGED <<result, lastId, votes, jobs>> /\ req[p] = Idle
        /\ \A q \in Procs \ {p} : req'[q] = req[q]
        /\ req'[p].pc = "commit" /\ req'[p].rid = result.id
    BY <1>1, <1>3 DEF ReopenRead, Starts, Carry, Idle, rows, resultVars
  <2> QED
    BY <1>1, <2>1, <2>2 DEF PassesBy, Finalizing, Idle
<1>4. CASE ContinueMatchRequest(p) /\ UNCHANGED result
  <2>1. Leave(p) /\ req[p].pc = "commit"
    BY <1>4 DEF ContinueMatchRequest, AddPlayersCommit, UpdatePlayerCommit, LockCommit,
       ManualBalanceCommit, GenerateCommit, AssignCommit, ReopenCommit, At
  <2>2. CASE ReopenCommit(p)
    <3>1. UNCHANGED votes
      <4>1. NoResult.id = 0
        BY DEF NoResult
      <4> QED
        BY <1>4, <2>2, <4>1 DEF ReopenCommit, DiscardResult, matchVars
    <3> QED
      BY <1>4, <2>1, <2>2, <3>1, LeavePassesBy DEF ReopenCommit, Finalizing
  <2>3. CASE ~ ReopenCommit(p)
    <3>1. UNCHANGED <<result, lastId, votes, jobs>>
      BY <1>4, <2>3 DEF ContinueMatchRequest, AddPlayersCommit, UpdatePlayerCommit, LockCommit,
         ManualBalanceCommit, GenerateCommit, AssignCommit, NoResultChange, resultVars
    <3> QED
      BY <2>1, <3>1, LeavePassesBy DEF Finalizing
  <2> QED
    BY <2>2, <2>3
<1> QED
  BY <1>2, <1>3, <1>4 DEF BeginMatchRequest

(* Handlers never die here. *)
LEMMA ResultRequestPassesBy ==
  ASSUME TypeOK, ResultInv, CountInv, NEW p \in Procs,
         \/ BeginResultRequest(p) \/ SubmitReadResult(p) \/ SubmitFails(p)
         \/ ConfirmReadResult(p) \/ (ConfirmRecord(p) /\ Leave(p))
         \/ ResolveReadResult(p) \/ ResolveFails(p) \/ Announce(p)
  PROVE  PassesBy(p)
<1>1. /\ req \in [Procs -> Request] /\ lastId \in Nat /\ 0 <= lastId
      /\ result.id \in Nat /\ result.id <= lastId /\ req[p].rid <= lastId
      /\ req[p] \in Request
  BY IdsTyped DEF TypeOK, ResultInv, VotesInProgress, CountInv
<1>2. ASSUME NEW r, Carry(p, r), r.pc \notin Finalizing, r.rid <= lastId,
             req[p].pc \notin Finalizing, UNCHANGED <<result, lastId, votes, jobs>>
      PROVE  PassesBy(p)
  BY <1>1, <1>2 DEF Carry, PassesBy
<1>3. CASE BeginResultRequest(p)
  <2>1. UNCHANGED <<rows, jobs>> /\ req[p] = Idle
    BY <1>3 DEF BeginResultRequest, SubmitReadMatch, ConfirmReadMatch, ResolveReadMatch, Starts
  <2>2. UNCHANGED <<result, lastId, votes, jobs>> /\ req[p].pc \notin Finalizing
    BY <2>1 DEF rows, resultVars, Idle, Finalizing
  <2>3. ASSUME NEW r, Carry(p, r), r.pc = "readResult", r.rid = 0
        PROVE  PassesBy(p)
    BY <1>1, <1>2, <2>2, <2>3 DEF Finalizing
  <2>4. CASE SubmitReadMatch(p)
    BY <2>3, <2>4 DEF SubmitReadMatch, Idle
  <2>5. CASE ConfirmReadMatch(p)
    BY <2>3, <2>5 DEF ConfirmReadMatch, Idle
  <2>6. CASE ResolveReadMatch(p)
    BY <2>3, <2>6 DEF ResolveReadMatch, Idle
  <2> QED
    BY <1>3, <2>4, <2>5, <2>6 DEF BeginResultRequest
<1>4. CASE Leave(p) /\ ~ BeginResultRequest(p)
  <2>1. req[p].pc \notin Finalizing
    BY <1>4 DEF SubmitReadResult, SubmitFails, ConfirmReadResult, ConfirmRecord,
       ResolveReadResult, ResolveFails, Announce, At, Finalizing
  <2>2. CASE ConfirmRecord(p)
    <3>1. result.id # req[p].rid /\ UNCHANGED votes
      <4>1. req'[p].pc = "idle"
        BY <1>1, <1>4 DEF Leave, Carry, Idle
      <4>2. ~ Carry(p, [Idle EXCEPT !.op = "confirm", !.pc = "finalizeRead", !.rid = req[p].rid])
        BY <1>1, <4>1 DEF Carry, Idle
      <4> QED
        BY <2>2, <4>2 DEF ConfirmRecord
    <3>2. UNCHANGED <<result, lastId, jobs>>
      BY <2>2 DEF ConfirmRecord
    <3> QED
      BY <1>4, <2>1, <3>1, <3>2, LeavePassesBy
  <2>3. CASE ~ ConfirmRecord(p)
    <3>1. UNCHANGED <<rows, jobs>>
      BY <1>4, <2>3 DEF SubmitReadResult, SubmitFails, ConfirmReadResult,
         ResolveReadResult, ResolveFails, Announce
    <3>2. UNCHANGED <<result, lastId, votes, jobs>>
      BY <3>1 DEF rows, resultVars
    <3> QED
      BY <1>4, <2>1, <3>2, LeavePassesBy
  <2> QED
    BY <2>2, <2>3
<1>5. CASE SubmitReadResult(p) /\ ~ Leave(p)
  <2>1. /\ Carry(p, [req[p] EXCEPT !.pc = "commit", !.rid = result.id])
        /\ UNCHANGED <<result, lastId, votes, jobs>> /\ req[p].pc \notin Finalizing
    BY <1>5 DEF SubmitReadResult, At, Finalizing, rows, resultVars
  <2>2. [req[p] EXCEPT !.pc = "commit", !.rid = result.id].pc \notin Finalizing
    BY <1>1 DEF Request, Finalizing
  <2>3. [req[p] EXCEPT !.pc = "commit", !.rid = result.id].rid <= lastId
    BY <1>1 DEF Request
  <2> QED
    BY <1>2, <2>1, <2>2, <2>3
<1>6. CASE ConfirmReadResult(p) /\ ~ Leave(p)
  <2> DEFINE r == [req[p] EXCEPT !.pc = "record", !.rid = result.id, !.version = result.version]
  <2>1. /\ Carry(p, r)
        /\ UNCHANGED <<result, lastId, votes, jobs>> /\ req[p].pc \notin Finalizing
    BY <1>6 DEF ConfirmReadResult, At, Finalizing, rows, resultVars
  <2>2. r.pc \notin Finalizing
    BY <1>1 DEF Request, Finalizing
  <2>3. r.rid <= lastId
    BY <1>1 DEF Request
  <2> QED
    BY <1>2, <2>1, <2>2, <2>3
<1>7. CASE ResolveReadResult(p) /\ ~ Leave(p)
  <2>1. PICK factual \in BOOLEAN :
          Carry(p, [req[p] EXCEPT !.pc = "commit", !.rid = result.id, !.factual = factual])
    BY <1>7 DEF ResolveReadResult
  <2> DEFINE r == [req[p] EXCEPT !.pc = "commit", !.rid = result.id, !.factual = factual]
  <2>2. UNCHANGED <<result, lastId, votes, jobs>> /\ req[p].pc \notin Finalizing
    BY <1>7 DEF ResolveReadResult, At, Finalizing, rows, resultVars
  <2>3. r.pc \notin Finalizing
    BY <1>1 DEF Request, Finalizing
  <2>4. r.rid <= lastId
    BY <1>1 DEF Request
  <2> QED
    BY <1>2, <2>1, <2>2, <2>3, <2>4
<1>8. CASE Announce(p)
  <2>1. PICK m \in req[p].send : Carry(p, IF req[p].send = {m} THEN Idle
                                           ELSE [req[p] EXCEPT !.send = @ \ {m}])
    BY <1>8 DEF Announce
  <2>2. UNCHANGED <<result, lastId, votes, jobs>> /\ req[p].pc = "announce"
    BY <1>8 DEF Announce, rows, resultVars
  <2>3. CASE Leave(p)
    BY <2>2, <2>3, LeavePassesBy DEF Finalizing
  <2>4. CASE Carry(p, [req[p] EXCEPT !.send = @ \ {m}])
    <3>1. [req[p] EXCEPT !.send = @ \ {m}].pc = "announce"
      BY <1>1, <2>2 DEF Request
    <3>2. [req[p] EXCEPT !.send = @ \ {m}].rid <= lastId
      BY <1>1 DEF Request
    <3> QED
      BY <1>2, <2>2, <2>4, <3>1, <3>2 DEF Finalizing
  <2> QED
    BY <2>1, <2>3, <2>4 DEF Leave
<1> QED
  BY <1>3, <1>4, <1>5, <1>6, <1>7, <1>8 DEF SubmitFails, ResolveFails

-----------------------------------------------------------------------------
(* The invariant. *)

(* The count changes with the votes, the roster and the facts of the result only. *)
LEMMA CountStands ==
  ASSUME RosterStands, result.id # 0, UNCHANGED votes,
         result'.winner = result.winner, result'.version = result.version
  PROVE  CountedStatus' = CountedStatus
BY DEF RosterStands, CountedStatus, LatestVotes

(* A step that passes by leaves the count, the status and whoever counts again as they are. *)
LEMMA PassingKeepsCount ==
  ASSUME TypeOK, CountInv, RosterStands, NEW p \in Procs, PassesBy(p)
  PROVE  CountInv'
<1>1. UNCHANGED <<result, lastId, votes, jobs>>
  BY DEF PassesBy
<1>2. \A q \in Procs : req'[q].rid <= lastId'
  BY <1>1 DEF PassesBy, CountInv
<1>3. jobs' \in Seq(1 .. lastId')
  BY <1>1 DEF CountInv
<1>4. \A q \in Procs : (CountsLater(q)' <=> CountsLater(q)) /\ (Deciding(q)' <=> Deciding(q))
  <2> TAKE q \in Procs
  <2>1. CASE q = p
    BY <1>1, <2>1 DEF PassesBy, Finalizing, CountsLater, Deciding, At
  <2>2. CASE q # p
    BY <1>1, <2>2 DEF PassesBy, CountsLater, Deciding, At
  <2> QED
    BY <2>1, <2>2
<1>5. RecountPending' <=> RecountPending
  BY <1>1, <1>4 DEF RecountPending
<1>6. ASSUME NEW q \in Procs, Deciding(q)
      PROVE  req'[q] = req[q]
  BY <1>6 DEF PassesBy, Finalizing, Deciding
<1>7. result.id # 0 => CountedStatus' = CountedStatus
  BY <1>1, CountStands
<1>8. \A q \in Procs : req'[q].pc \in Finalizing => req'[q].op = "confirm" \/ q = Worker
  BY DEF PassesBy, CountInv
<1> QED
  BY <1>1, <1>2, <1>3, <1>4, <1>5, <1>6, <1>7, <1>8 DEF CountInv

(* The processes of CountInv, after a step of p that leaves the result and its id. *)
LEMMA CountersKept ==
  ASSUME TypeOK, CountInv, NEW p \in Procs, lastId' = lastId,
         \A q \in Procs \ {p} : req'[q] = req[q],
         req'[p].rid <= lastId,
         req'[p].pc \in Finalizing => req'[p].op = "confirm" \/ p = Worker
  PROVE  /\ \A q \in Procs : req'[q].rid <= lastId'
         /\ \A q \in Procs : req'[q].pc \in Finalizing => req'[q].op = "confirm" \/ q = Worker
BY DEF CountInv

(* Whoever else counts again still does. *)
LEMMA OthersStillCount ==
  ASSUME NEW p \in Procs, \A q \in Procs \ {p} : req'[q] = req[q], result'.id = result.id
  PROVE  \A q \in Procs \ {p} : /\ CountsLater(q)' <=> CountsLater(q)
                                /\ Deciding(q)' <=> Deciding(q)
BY DEF CountsLater, Deciding, At

(* A recorded vote is counted by the request that recorded it. *)
LEMMA RecordKeepsCount ==
  ASSUME TypeOK, ResultInv, CountInv, RosterStands, NEW p \in Procs, ConfirmRecord(p)
  PROVE  CountInv'
<1>1. CASE Leave(p)
  BY <1>1, ResultRequestPassesBy, PassingKeepsCount
<1>2. CASE ~ Leave(p)
  <2>1. /\ result.id = req[p].rid
        /\ Carry(p, [Idle EXCEPT !.op = "confirm", !.pc = "finalizeRead", !.rid = req[p].rid])
        /\ UNCHANGED <<result, lastId, jobs>>
    BY <1>2 DEF ConfirmRecord
  <2>2. /\ req'[p].op = "confirm" /\ req'[p].pc = "finalizeRead" /\ req'[p].rid = req[p].rid
        /\ \A q \in Procs \ {p} : req'[q] = req[q]
    BY <2>1 DEF TypeOK, Carry, Idle
  <2>3. CountsLater(p)'
    BY <2>1, <2>2 DEF CountsLater
  <2>4. RecountPending'
    BY <2>3 DEF RecountPending
  <2>5. req'[p].rid <= lastId
    BY <2>2 DEF CountInv
  <2> QED
    BY <2>1, <2>2, <2>4, <2>5, CountersKept DEF CountInv
<1> QED
  BY <1>1, <1>2

(* A job taken from the queue is in the hands of the worker. *)
LEMMA TakingKeepsCount ==
  ASSUME TypeOK, CountInv, RosterStands, NEW p \in Procs, TakeJob(p)
  PROVE  CountInv'
<1>1. /\ p = Worker /\ req[p] = Idle /\ jobs # <<>> /\ jobs' = Tail(jobs)
      /\ UNCHANGED rows
      /\ Carry(p, [Idle EXCEPT !.op = "finalizeJob", !.pc = "finalizeRead", !.rid = Head(jobs)])
  BY DEF TakeJob
<1>2. UNCHANGED <<result, lastId, votes>>
  BY <1>1 DEF rows, resultVars
<1>3. jobs \in Seq(1 .. lastId) /\ lastId \in Nat
  BY IdsTyped DEF CountInv
<1>4. /\ Head(jobs) \in 1 .. lastId /\ Head(jobs) = jobs[1] /\ jobs' \in Seq(1 .. lastId)
      /\ Len(jobs') = Len(jobs) - 1 /\ \A i \in 1 .. Len(jobs) - 1 : jobs'[i] = jobs[i + 1]
  BY <1>1, <1>3, HeadTailProperties
<1>5. /\ req'[p].pc = "finalizeRead" /\ req'[p].rid = Head(jobs)
      /\ \A q \in Procs \ {p} : req'[q] = req[q]
  BY <1>1 DEF TypeOK, Carry, Idle
<1>6. ~ CountsLater(p) /\ ~ Deciding(p) /\ ~ Deciding(p)'
  BY <1>1, <1>5 DEF CountsLater, Deciding, At, Idle
<1>7. \A q \in Procs \ {p} : /\ CountsLater(q)' <=> CountsLater(q)
                             /\ Deciding(q)' <=> Deciding(q)
  BY <1>2, <1>5, OthersStillCount
<1>8. RecountPending => RecountPending'
  <2>1. ASSUME NEW q \in Procs, CountsLater(q)
        PROVE  RecountPending'
    BY <1>6, <1>7, <2>1 DEF RecountPending
  <2>2. ASSUME NEW i \in DOMAIN jobs, jobs[i] = result.id
        PROVE  RecountPending'
    <3>1. i \in 1 .. Len(jobs) /\ Len(jobs) \in Nat
      BY <1>3
    <3>2. CASE i = 1
      <4>1. CountsLater(p)'
        BY <1>2, <1>4, <1>5, <2>2, <3>2 DEF CountsLater
      <4> QED
        BY <4>1 DEF RecountPending
    <3>3. CASE i # 1
      <4>1. i - 1 \in 1 .. Len(jobs') /\ jobs'[i - 1] = jobs[i]
        BY <1>4, <3>1, <3>3
      <4>2. i - 1 \in DOMAIN jobs'
        BY <1>4, <4>1
      <4> QED
        BY <1>2, <2>2, <4>1, <4>2 DEF RecountPending
    <3> QED
      BY <3>2, <3>3
  <2> QED
    BY <2>1, <2>2 DEF RecountPending
<1>9. /\ \A q \in Procs : req'[q].rid <= lastId'
      /\ \A q \in Procs : req'[q].pc \in Finalizing => req'[q].op = "confirm" \/ q = Worker
  BY <1>1, <1>2, <1>3, <1>4, <1>5, CountersKept
<1>10. result.id # 0 => CountedStatus' = CountedStatus
  BY <1>2, CountStands
<1>11. \A q \in Procs : Deciding(q)' => Deciding(q) /\ req'[q] = req[q]
  BY <1>5, <1>6, <1>7
<1>12. (\E q \in Procs : Deciding(q)) => \E q \in Procs : Deciding(q)'
  BY <1>6, <1>7
<1> QED
  BY <1>2, <1>4, <1>8, <1>9, <1>10, <1>11, <1>12 DEF CountInv

(* The vote's request queues the job it promised. *)
LEMMA EnqueueKeepsCount ==
  ASSUME TypeOK, ResultInv, CountInv, RosterStands, NEW p \in Procs, EnqueueFinalize(p)
  PROVE  CountInv'
<1>1. /\ req[p].pc = "enqueue" /\ jobs' = Append(jobs, req[p].rid) /\ UNCHANGED rows
      /\ ThenSend(p, Transition(req[p]))
  BY DEF EnqueueFinalize
<1>2. UNCHANGED <<result, lastId, votes>>
  BY <1>1 DEF rows, resultVars
<1>3. jobs \in Seq(1 .. lastId) /\ lastId \in Nat /\ req[p].rid \in 1 .. lastId
  <2>1. req[p].rid # 0 /\ req[p].rid \in Nat /\ req[p].rid <= lastId
    BY <1>1, IdsTyped DEF ResultInv, ResultsNamed, AboutResult, CountInv
  <2> QED
    BY <2>1, IdsTyped DEF CountInv
<1>4. /\ jobs' \in Seq(1 .. lastId) /\ Len(jobs') = Len(jobs) + 1
      /\ jobs'[Len(jobs) + 1] = req[p].rid
      /\ \A i \in 1 .. Len(jobs) : jobs'[i] = jobs[i]
  BY <1>1, <1>3, AppendProperties
<1>5. /\ \A q \in Procs \ {p} : req'[q] = req[q]
      /\ req'[p].pc \notin Finalizing /\ req'[p].rid \in {0, req[p].rid}
  BY <1>1, ThenSendRequest
<1>6. \A q \in Procs \ {p} : /\ CountsLater(q)' <=> CountsLater(q)
                             /\ Deciding(q)' <=> Deciding(q)
  BY <1>2, <1>5, OthersStillCount
<1>7. ~ Deciding(p) /\ ~ Deciding(p)'
  BY <1>1, <1>5 DEF Deciding, Finalizing
<1>8. RecountPending => RecountPending'
  <2>1. CASE req[p].rid = result.id
    <3>1. Len(jobs) + 1 \in DOMAIN jobs'
      BY <1>3, <1>4
    <3> QED
      BY <1>2, <1>4, <2>1, <3>1 DEF RecountPending
  <2>2. CASE req[p].rid # result.id
    <3>1. ~ CountsLater(p)
      BY <2>2 DEF CountsLater
    <3>2. DOMAIN jobs = 1 .. Len(jobs) /\ DOMAIN jobs' = 1 .. Len(jobs') /\ Len(jobs) \in Nat
      BY <1>3, <1>4
    <3>3. \A i \in DOMAIN jobs : i \in DOMAIN jobs' /\ jobs'[i] = jobs[i]
      BY <1>4, <3>2
    <3> QED
      BY <1>2, <1>6, <3>1, <3>3 DEF RecountPending
  <2> QED
    BY <2>1, <2>2
<1>9. /\ \A q \in Procs : req'[q].rid <= lastId'
      /\ \A q \in Procs : req'[q].pc \in Finalizing => req'[q].op = "confirm" \/ q = Worker
  BY <1>2, <1>3, <1>5, CountersKept
<1>10. result.id # 0 => CountedStatus' = CountedStatus
  BY <1>2, CountStands
<1>11. \A q \in Procs : Deciding(q)' => Deciding(q) /\ req'[q] = req[q]
  BY <1>5, <1>6, <1>7
<1>12. (\E q \in Procs : Deciding(q)) => \E q \in Procs : Deciding(q)'
  BY <1>6, <1>7
<1> QED
  BY <1>2, <1>4, <1>8, <1>9, <1>10, <1>11, <1>12 DEF CountInv

(* Nobody is waiting but p: whoever else counted, or was deciding, still is. *)
LEMMA PendingFromOthers ==
  ASSUME NEW p \in Procs, \A q \in Procs \ {p} : req'[q] = req[q],
         UNCHANGED <<result, jobs>> \/ (result'.id = result.id /\ UNCHANGED jobs),
         ~ CountsLater(p), RecountPending
  PROVE  RecountPending'
<1>1. \A q \in Procs \ {p} : CountsLater(q)' <=> CountsLater(q)
  BY OthersStillCount
<1> QED
  BY <1>1 DEF RecountPending

(***************************************************************************)
(* Reading the votes: the request of a vote still has to queue its job;    *)
(* the worker decides with the count of this very moment.                  *)
(***************************************************************************)
LEMMA ReadingKeepsCount ==
  ASSUME TypeOK, ResultInv, CountInv, RosterStands, NEW p \in Procs, FinalizeRead(p)
  PROVE  CountInv'
<1>1. req[p].pc = "finalizeRead" /\ UNCHANGED <<rows, jobs>>
  BY DEF FinalizeRead
<1>2. UNCHANGED <<result, lastId, votes, jobs>>
  BY <1>1 DEF rows, resultVars
<1>3. /\ req \in [Procs -> Request] /\ req[p] \in Request /\ lastId \in Nat
      /\ req[p].rid <= lastId /\ (req[p].op = "confirm" \/ p = Worker)
  BY <1>1, IdsTyped DEF TypeOK, CountInv, Finalizing
<1>4. result.id # 0 => CountedStatus' = CountedStatus
  BY <1>2, CountStands
<1>5. CASE Leave(p) /\ result.id # req[p].rid
  <2>1. /\ \A q \in Procs \ {p} : req'[q] = req[q]
        /\ req'[p].pc = "idle" /\ req'[p].rid = 0
    BY <1>3, <1>5 DEF Leave, Carry, Idle
  <2>2. ~ CountsLater(p) /\ ~ Deciding(p) /\ ~ Deciding(p)'
    BY <1>5, <2>1 DEF CountsLater, Deciding
  <2>3. RecountPending => RecountPending'
    BY <1>2, <2>1, <2>2, PendingFromOthers
  <2>4. \A q \in Procs : Deciding(q)' <=> Deciding(q)
    BY <1>2, <2>1, <2>2, OthersStillCount
  <2>5. \A q \in Procs : Deciding(q)' => req'[q] = req[q]
    BY <2>1, <2>2
  <2>6. /\ \A q \in Procs : req'[q].rid <= lastId'
        /\ \A q \in Procs : req'[q].pc \in Finalizing => req'[q].op = "confirm" \/ q = Worker
    BY <1>2, <1>3, <2>1, CountersKept DEF Finalizing
  <2> QED
    BY <1>2, <1>4, <2>3, <2>4, <2>5, <2>6 DEF CountInv
<1>6. CASE /\ result.id = req[p].rid
           /\ Carry(p, [req[p] EXCEPT !.pc = "finalizeCommit", !.status = CountedStatus,
                                      !.prev = result.status, !.players = JoinedPlayers])
  <2>1. /\ \A q \in Procs \ {p} : req'[q] = req[q]
        /\ req'[p].pc = "finalizeCommit" /\ req'[p].rid = req[p].rid
        /\ req'[p].op = req[p].op /\ req'[p].status = CountedStatus
    BY <1>3, <1>6 DEF Carry, Request
  <2>2. /\ \A q \in Procs : req'[q].rid <= lastId'
        /\ \A q \in Procs : req'[q].pc \in Finalizing => req'[q].op = "confirm" \/ q = Worker
    BY <1>2, <1>3, <2>1, CountersKept
  <2>3. CASE req[p].op = "confirm"
    <3>1. CountsLater(p)'
      BY <1>2, <1>6, <2>1, <2>3 DEF CountsLater, At
    <3>2. RecountPending'
      BY <3>1 DEF RecountPending
    <3> QED
      BY <1>2, <2>2, <3>2 DEF CountInv
  <2>4. CASE req[p].op # "confirm"
    <3>1. p = Worker /\ Deciding(p)'
      BY <1>2, <1>3, <1>6, <2>1, <2>4 DEF Deciding
    <3>2. \A q \in Procs : Deciding(q)' => q = p
      <4> TAKE q \in Procs
      <4>1. CASE q # p
        BY <2>1, <2>2, <3>1, <4>1 DEF Deciding, Finalizing
      <4> QED
        BY <4>1
    <3> QED
      BY <1>2, <1>4, <2>1, <2>2, <3>1, <3>2 DEF CountInv
  <2> QED
    BY <2>3, <2>4
<1> QED
  BY <1>5, <1>6 DEF FinalizeRead

(* The status written is the counted one, or somebody counts again. *)
LEMMA WritingKeepsCount ==
  ASSUME TypeOK, ResultInv, CountInv, RosterStands, NEW p \in Procs, FinalizeCommit(p)
  PROVE  CountInv'
<1>1. /\ req[p].pc = "finalizeCommit" /\ result.id = req[p].rid
      /\ result' = [result EXCEPT !.status = req[p].status]
      /\ UNCHANGED <<lastId, votes, jobs>>
  BY DEF FinalizeCommit
<1>2. /\ req \in [Procs -> Request] /\ req[p] \in Request /\ lastId \in Nat
      /\ req[p].rid <= lastId /\ (req[p].op = "confirm" \/ p = Worker)
      /\ result.id # 0
  BY <1>1, IdsTyped DEF TypeOK, CountInv, Finalizing, ResultInv, ResultsNamed, AboutResult
<1>3. /\ result'.id = result.id /\ result'.version = result.version
      /\ result'.winner = result.winner /\ result'.status = req[p].status
  BY <1>1 DEF TypeOK, ResultRow
<1>4. CountedStatus' = CountedStatus
  BY <1>1, <1>2, <1>3, CountStands
<1>5. CASE req[p].op = "confirm"
  <2>1. Carry(p, [req[p] EXCEPT !.pc = "enqueue"])
    BY <1>5 DEF FinalizeCommit
  <2>2. /\ \A q \in Procs \ {p} : req'[q] = req[q]
        /\ req'[p].pc = "enqueue" /\ req'[p].rid = req[p].rid /\ req'[p].op = "confirm"
    BY <1>2, <1>5, <2>1 DEF Carry, Request
  <2>3. CountsLater(p)'
    BY <1>1, <1>3, <2>2 DEF CountsLater
  <2>4. RecountPending'
    BY <2>3 DEF RecountPending
  <2>5. /\ \A q \in Procs : req'[q].rid <= lastId'
        /\ \A q \in Procs : req'[q].pc \in Finalizing => req'[q].op = "confirm" \/ q = Worker
    BY <1>1, <1>2, <2>2, CountersKept
  <2> QED
    BY <1>1, <2>4, <2>5 DEF CountInv
<1>6. CASE req[p].op # "confirm"
  <2>1. ThenSend(p, Transition(req[p]))
    BY <1>6 DEF FinalizeCommit
  <2>2. /\ \A q \in Procs \ {p} : req'[q] = req[q]
        /\ req'[p].pc \notin Finalizing /\ req'[p].rid \in {0, req[p].rid}
    BY <2>1, ThenSendRequest
  <2>3. ~ CountsLater(p) /\ Deciding(p)
    BY <1>1, <1>6 DEF CountsLater, Deciding, At
  <2>4. RecountPending => RecountPending'
    BY <1>1, <1>3, <2>2, <2>3, PendingFromOthers
  <2>5. \A q \in Procs : ~ Deciding(q)'
    <3> TAKE q \in Procs
    <3>1. CASE q = p
      BY <2>2, <3>1 DEF Deciding, Finalizing
    <3>2. CASE q # p
      BY <1>2, <1>6, <2>2, <3>2 DEF Deciding, Finalizing, CountInv
    <3> QED
      BY <3>1, <3>2
  <2>6. result.version = 1 => req[p].status = CountedStatus \/ RecountPending
    BY <1>2, <2>3 DEF CountInv
  <2>7. /\ \A q \in Procs : req'[q].rid <= lastId'
        /\ \A q \in Procs : req'[q].pc \in Finalizing => req'[q].op = "confirm" \/ q = Worker
    BY <1>1, <1>2, <2>2, CountersKept
  <2> QED
    BY <1>1, <1>3, <1>4, <2>4, <2>5, <2>6, <2>7 DEF CountInv
<1> QED
  BY <1>5, <1>6

(* A finalization of a result that is gone is about no result there is. *)
LEMMA FailingKeepsCount ==
  ASSUME TypeOK, CountInv, RosterStands, NEW p \in Procs, FinalizeFails(p)
  PROVE  CountInv'
<1>1. /\ req[p].pc = "finalizeCommit" /\ result.id # req[p].rid /\ Leave(p)
      /\ UNCHANGED <<rows, jobs>>
  BY DEF FinalizeFails
<1>2. UNCHANGED <<result, lastId, votes, jobs>>
  BY <1>1 DEF rows, resultVars
<1>3. /\ \A q \in Procs \ {p} : req'[q] = req[q]
      /\ req'[p].pc = "idle" /\ req'[p].rid = 0
  BY <1>1 DEF TypeOK, Leave, Carry, Idle
<1>4. ~ CountsLater(p) /\ ~ Deciding(p) /\ ~ Deciding(p)'
  BY <1>1, <1>3 DEF CountsLater, Deciding
<1>5. RecountPending => RecountPending'
  BY <1>2, <1>3, <1>4, PendingFromOthers
<1>6. \A q \in Procs : (Deciding(q)' <=> Deciding(q)) /\ (Deciding(q)' => req'[q] = req[q])
  BY <1>2, <1>3, <1>4, OthersStillCount
<1>7. lastId \in Nat /\ 0 <= lastId
  BY IdsTyped
<1>8. /\ \A q \in Procs : req'[q].rid <= lastId'
      /\ \A q \in Procs : req'[q].pc \in Finalizing => req'[q].op = "confirm" \/ q = Worker
  BY <1>2, <1>3, <1>7, CountersKept DEF Finalizing
<1>9. result.id # 0 => CountedStatus' = CountedStatus
  BY <1>2, CountStands
<1> QED
  BY <1>2, <1>5, <1>6, <1>8, <1>9 DEF CountInv

(* Without votes the policy leaves the result open. *)
LEMMA NoVotesDecideNothing ==
  ASSUME NEW n \in Nat, NEW captains, NEW winner, NEW latest, DOMAIN latest = {}
  PROVE  Evaluate(n, captains, winner, latest) = "PARTIAL"
<1>1. Confirmers(latest) = {} /\ Objectors(latest) = {} /\ Cardinality({}) = 0
  BY FS_EmptySet DEF Confirmers, Objectors
<1>2. ~ WinningTeamConflict(winner, latest)
  BY DEF WinningTeamConflict
<1>3. ~ CaptainsConfirmed(captains, latest)
  <2> SUFFICES ASSUME Cardinality(captains) >= 2, captains \subseteq {} PROVE FALSE
    BY <1>1 DEF CaptainsConfirmed
  <2>1. captains = {}
    OBVIOUS
  <2>2. Cardinality(captains) = 0
    BY <1>1, <2>1
  <2> QED
    BY <2>2
<1>4. ~ QuorumConfirmed(n, latest)
  BY <1>1 DEF QuorumConfirmed
<1> QED
  BY <1>1, <1>2, <1>3, <1>4 DEF Evaluate

(* A new result has the status of no votes; one that is overwritten leaves version 1 behind. *)
LEMMA SubmittingKeepsCount ==
  ASSUME TypeOK, ResultInv, CountInv, NEW p \in Procs, SubmitCommit(p)
  PROVE  CountInv'
<1>1. /\ At(p, "submit", "commit") /\ UNCHANGED <<player, votes, jobs>>
      /\ \E messages : ThenSend(p, messages)
      /\ CreateResult(req[p]) \/ OverwriteResult(req[p])
  BY DEF SubmitCommit
<1>2. /\ \A q \in Procs \ {p} : req'[q] = req[q]
      /\ req'[p].pc \notin Finalizing /\ req'[p].rid \in {0, req[p].rid}
  BY <1>1, ThenSendRequest
<1>3. /\ lastId \in Nat /\ lastId' \in Nat /\ lastId <= lastId'
      /\ \A q \in Procs : req[q].rid \in Nat /\ req[q].rid <= lastId
  BY <1>1, IdsTyped DEF CreateResult, OverwriteResult, CountInv
<1>4. \A q \in Procs : req'[q].rid \in Nat /\ req'[q].rid <= lastId
  BY <1>2, <1>3
<1>5. \A q \in Procs : req'[q].rid <= lastId'
  BY <1>3, <1>4
<1>6. jobs' \in Seq(1 .. lastId')
  <2>1. 1 .. lastId \subseteq 1 .. lastId'
    BY <1>3
  <2>2. Seq(1 .. lastId) \subseteq Seq(1 .. lastId')
    BY <2>1, SeqMonotonic
  <2> QED
    BY <1>1, <2>2 DEF CountInv
<1>7. \A q \in Procs : req'[q].pc \in Finalizing => req'[q].op = "confirm" \/ q = Worker
  BY <1>2 DEF CountInv
<1>8. CASE CreateResult(req[p])
  <2>1. /\ result.id = 0 /\ result'.id = lastId + 1 /\ result'.status = "PARTIAL"
        /\ result'.version = 1
    BY <1>8 DEF CreateResult
  <2>2. \A u \in Users, v \in Versions : votes'[u][v] = NoVote
    BY <1>1, <2>1 DEF ResultInv, VotesBelongToResult
  <2>3. 1 \in Versions
    BY BoundsAssumption DEF Versions
  <2>4. DOMAIN LatestVotes(result.version)' = {}
    BY <2>1, <2>2, <2>3 DEF LatestVotes
  <2>5. Cardinality(JoinedPlayers)' \in Nat
    <3>1. JoinedPlayers' \subseteq Users
      BY DEF JoinedPlayers
    <3> QED
      BY <3>1, UsersAssumption, FS_Subset, FS_CardinalityType
  <2>6. CountedStatus' = "PARTIAL"
    BY <2>4, <2>5, NoVotesDecideNothing DEF CountedStatus
  <2>7. \A q \in Procs : ~ Deciding(q)'
    BY <1>3, <1>4, <2>1 DEF Deciding
  <2> QED
    BY <1>5, <1>6, <1>7, <2>1, <2>6, <2>7 DEF CountInv
<1>9. CASE OverwriteResult(req[p])
  <2>1. result'.version # 1
    BY <1>9, BoundsAssumption DEF OverwriteResult, TypeOK, ResultRow, Versions
  <2> QED
    BY <1>5, <1>6, <1>7, <2>1 DEF CountInv
<1> QED
  BY <1>1, <1>8, <1>9

(* A result that is gone has no status to be counted. *)
LEMMA ReopeningKeepsCount ==
  ASSUME TypeOK, CountInv, NEW p \in Procs, ReopenCommit(p), ~ UNCHANGED result
  PROVE  CountInv'
<1>1. result'.id = 0 /\ Leave(p) /\ UNCHANGED <<lastId, jobs>>
  <2>1. result' = NoResult
    BY DEF ReopenCommit, DiscardResult, matchVars
  <2> QED
    BY <2>1 DEF ReopenCommit, NoResult
<1>2. /\ \A q \in Procs \ {p} : req'[q] = req[q]
      /\ req'[p].pc = "idle" /\ req'[p].rid = 0
  BY <1>1 DEF TypeOK, Leave, Carry, Idle
<1>3. lastId \in Nat /\ 0 <= lastId
  BY IdsTyped
<1>4. /\ \A q \in Procs : req'[q].rid <= lastId'
      /\ \A q \in Procs : req'[q].pc \in Finalizing => req'[q].op = "confirm" \/ q = Worker
  BY <1>1, <1>2, <1>3, CountersKept DEF Finalizing
<1> QED
  BY <1>1, <1>4 DEF CountInv

(* Every step of a behaviour that nobody disturbs, one lemma for each kind. *)
LEMMA CountPreserved ==
  ASSUME Faults = FALSE, TypeOK, ResultInv, CountInv, [Next]_vars, [Undisturbed]_vars
  PROVE  CountInv'
<1>1. CASE UNCHANGED vars
  <2>1. /\ UNCHANGED <<result, lastId, votes, jobs, req>>
        /\ UNCHANGED <<player>>
    BY <1>1 DEF vars, rows, matchVars, resultVars
  <2> QED
    BY <2>1 DEF CountInv, RecountPending, CountsLater, Deciding, At, CountedStatus, JoinedPlayers,
       Captains, Roster, LatestVotes
<1>2. CASE Undisturbed /\ Next
  <2> USE DEF Undisturbed
  <2>1. PICK p \in Procs : BeginMatchRequest(p) \/ BeginResultRequest(p) \/ Continue(p)
    BY <1>2 DEF Next, Die
  <2>2. CASE BeginMatchRequest(p) \/ ContinueMatchRequest(p)
    <3>1. CASE BeginMatchRequest(p) \/ UNCHANGED result
      BY <1>2, <2>2, <3>1, MatchRequestPassesBy, PassingKeepsCount
    <3>2. CASE ContinueMatchRequest(p) /\ ~ UNCHANGED result
      <4>1. ReopenCommit(p)
        BY <3>2 DEF ContinueMatchRequest, AddPlayersCommit, UpdatePlayerCommit, LockCommit,
           ManualBalanceCommit, GenerateCommit, AssignCommit, NoResultChange, resultVars
      <4> QED
        BY <3>2, <4>1, ReopeningKeepsCount
    <3> QED
      BY <2>2, <3>1, <3>2
  <2>3. CASE BeginResultRequest(p) \/ SubmitReadResult(p) \/ SubmitFails(p)
             \/ ConfirmReadResult(p) \/ ResolveReadResult(p) \/ ResolveFails(p) \/ Announce(p)
    BY <1>2, <2>3, ResultRequestPassesBy, PassingKeepsCount
  <2>4. CASE SubmitCommit(p)
    BY <2>4, SubmittingKeepsCount
  <2>5. CASE ConfirmRecord(p)
    BY <1>2, <2>5, RecordKeepsCount
  <2>6. CASE TakeJob(p)
    BY <1>2, <2>6, TakingKeepsCount
  <2>7. CASE FinalizeRead(p)
    BY <1>2, <2>7, ReadingKeepsCount
  <2>8. CASE FinalizeCommit(p)
    BY <1>2, <2>8, WritingKeepsCount
  <2>9. CASE FinalizeFails(p)
    BY <1>2, <2>9, FailingKeepsCount
  <2>10. CASE EnqueueFinalize(p)
    BY <1>2, <2>10, EnqueueKeepsCount
  <2>11. ~ ResolveCommit(p)
    BY <1>2
  <2> QED
    BY <2>1, <2>2, <2>3, <2>4, <2>5, <2>6, <2>7, <2>8, <2>9, <2>10, <2>11
       DEF Continue, ContinueResultRequest
<1> QED
  BY <1>1, <1>2

(* No result, no request and no job at the start. *)
LEMMA InitCount == Init => CountInv
<1> SUFFICES ASSUME Init PROVE CountInv
  OBVIOUS
<1>1. result = NoResult /\ lastId = 0 /\ jobs = <<>> /\ req = [p \in Procs |-> Idle]
  BY DEF Init, CreatedInit, BalancedInit, Start
<1>2. \A p \in Procs : req[p].rid = 0 /\ req[p].pc = "idle"
  BY <1>1 DEF Idle
<1>3. result.id = 0
  BY <1>1 DEF NoResult
<1> QED
  BY <1>1, <1>2, <1>3 DEF CountInv, Finalizing

(* Once nobody is at work and no job waits, nobody is left to count again. *)
LEMMA QuietMeansCounted == CountInv => SettledMeansCounted
<1> SUFFICES ASSUME CountInv, Quiet, result.id # 0, result.version = 1
             PROVE  result.status = CountedStatus
  BY DEF SettledMeansCounted
<1>1. \A p \in Procs : ~ CountsLater(p) /\ ~ Deciding(p)
  BY DEF Quiet, CountsLater, Deciding, At
<1>2. DOMAIN jobs = {}
  BY DEF Quiet
<1> QED
  BY <1>1, <1>2 DEF CountInv, RecountPending

(***************************************************************************)
(* When no handler dies, the players stay as they are while there is a     *)
(* result and no operator resolves it, the votes always win in the end:    *)
(* a result never submitted again has, once all is quiet, the status its   *)
(* votes count up to.                                                      *)
(***************************************************************************)
THEOREM VotesWinInTheEnd ==
  ASSUME Faults = FALSE
  PROVE  Spec /\ [][Undisturbed]_vars => []SettledMeansCounted
<1>1. Init => TypeOK /\ ResultInv /\ CountInv
  BY InitType, InitResultInv, InitCount
<1>2. (TypeOK /\ ResultInv /\ CountInv) /\ [Next]_vars /\ [Undisturbed]_vars
        => (TypeOK /\ ResultInv /\ CountInv)'
  BY StepType, ResultInvPreserved, CountPreserved
<1>3. CountInv => SettledMeansCounted
  BY QuietMeansCounted
<1> QED
  BY <1>1, <1>2, <1>3, PTL DEF Spec
=============================================================================
