---------------------------- MODULE InhouseMatch ----------------------------
(***************************************************************************)
(* One in-house match under concurrent requests: the composition of        *)
(* Matches and Results over the shared rows, with handlers that may die    *)
(* between two steps.                                                      *)
(***************************************************************************)
EXTENDS Matches, Results

(* createMatch: a RECRUITING match without players. *)
CreatedMatch ==
  /\ matchStatus = "RECRUITING"
  /\ player = [u \in Users |-> NoPlayer]

(* The same match once its teams are set, as manual balance or assignment leaves it. *)
BalancedMatch ==
  /\ matchStatus = "BALANCED"
  /\ \E lineup \in Lineup, captains \in SUBSET Users :
       LET players == {u \in Users : lineup[u] # NoSeat}
       IN  /\ Cardinality(players) = MatchSize
           /\ ResultInputReady(players, lineup)
           /\ captains \subseteq players
           /\ player = [u \in Users |->
                IF u \in players
                  THEN [status |-> "LOCKED_IN", seat |-> lineup[u], captain |-> u \in captains]
                  ELSE NoPlayer]

Start ==
  /\ candidates = NoCandidates
  /\ selected = 0
  /\ result = NoResult
  /\ lastId = 0
  /\ votes = NoVotes
  /\ stats = [u \in Users |-> NoStat]
  /\ jobs = <<>>
  /\ outbox = {}
  /\ req = [p \in Procs |-> Idle]

CreatedInit == CreatedMatch /\ Start
BalancedInit == BalancedMatch /\ Start

Init == CreatedInit \/ BalancedInit

(***************************************************************************)
(* A handler dies: a database error, a transaction chosen as the victim of *)
(* a deadlock, or the process.  The job of a dead worker fails for good    *)
(* (attempts: 1), or goes back to the queue when the process died.         *)
(***************************************************************************)
Die(p) ==
  /\ Faults
  /\ req[p] # Idle
  /\ Leave(p)
  /\ \/ UNCHANGED jobs
     \/ /\ p = Worker /\ req[p].rid # 0 /\ Len(jobs) < MaxJobs
        /\ jobs' = <<req[p].rid>> \o jobs
  /\ UNCHANGED <<rows, outbox>>

Continue(p) == ContinueMatchRequest(p) \/ ContinueResultRequest(p) \/ TakeJob(p)

Next == \E p \in Procs :
          BeginMatchRequest(p) \/ BeginResultRequest(p) \/ Continue(p) \/ Die(p)

Spec == Init /\ [][Next]_vars

(* The two beginnings apart, for the runs. *)
CreatedSpec == CreatedInit /\ [][Next]_vars
BalancedSpec == BalancedInit /\ [][Next]_vars

(* A handler that has begun goes on, and the worker takes waiting jobs. *)
FairSpec == BalancedSpec /\ \A p \in Procs : WF_vars(Continue(p))

-----------------------------------------------------------------------------
(* Safety. *)

StatPlayers == {u \in Users : stats[u] # NoStat}

(***************************************************************************)
(* The stat rows exist exactly as long as the result does, and every one   *)
(* of them carries the status of the result, though submitting, voting,    *)
(* the worker, resolving and reopening write the two tables from different *)
(* snapshots (the power and history queries filter stats by statStatus).   *)
(***************************************************************************)
StatsMirrorResult ==
  /\ result.id = 0 <=> StatPlayers = {}
  /\ \A u \in StatPlayers : stats[u].status = result.status

(***************************************************************************)
(* The stats of a result are always one complete lineup, every lane of     *)
(* each team once, although a submission may write the seats of a lineup   *)
(* that was replaced or reopened after it was read, over the stats of      *)
(* another submission.                                                     *)
(***************************************************************************)
LineupComplete ==
  result.id # 0 =>
    /\ {stats[u].seat : u \in StatPlayers} = LaneSeats
    /\ Cardinality(StatPlayers) = MatchSize

(***************************************************************************)
(* A match that says it has a result (pending, disputed or confirmed) has  *)
(* one, and the two statuses agree.  The converse is not promised:         *)
(* lockMatch and the balance handlers may move a match with a result away. *)
(***************************************************************************)
MatchReflectsResult ==
  /\ matchStatus \in {"RESULT_PENDING", "CONFIRMED", "DISPUTED"} => result.id # 0
  /\ matchStatus = "RESULT_PENDING" => result.status = "PARTIAL"
  /\ matchStatus \in {"CONFIRMED", "DISPUTED"} => result.status = matchStatus

(***************************************************************************)
(* Confirmations are about the result that exists and a version it had:    *)
(* none survives a reopened match, and none is for a version to come, so   *)
(* a new submission starts without votes.                                  *)
(***************************************************************************)
VotesBelongToResult ==
  \A u \in Users, v \in Versions :
    votes[u][v] # NoVote => /\ result.id # 0
                            /\ v <= result.version
                            /\ u \in Roster

(***************************************************************************)
(* A BALANCED match seats a full lineup: as many players as the match has  *)
(* seats, no two in one seat, whichever balance, assignment, reopening or  *)
(* late added player raced (the result input screen is built from it).     *)
(***************************************************************************)
BalancedMeansSeated ==
  matchStatus = "BALANCED" =>
    LET seated == {u \in Users : player[u].seat # NoSeat}
    IN  /\ Cardinality(seated) = MatchSize
        /\ \A u, v \in seated : player[u].seat = player[v].seat => u = v

(***************************************************************************)
(* A candidate in the list can still be assigned as it stands: it seats    *)
(* current players only, each lane of each team once, even when the list   *)
(* was computed from a roster read long before it was written.             *)
(***************************************************************************)
CandidatesAssignable ==
  \A n \in 1 .. MaxCandidates :
    candidates[n] # NoLineup =>
      LET seated == {u \in Users : candidates[n][u] # NoSeat}
      IN  /\ seated \subseteq Roster
          /\ {candidates[n][u] : u \in seated} = LaneSeats
          /\ Cardinality(seated) = MatchSize

Quiet == jobs = <<>> /\ \A p \in Procs : req[p].pc \in {"idle", "announce"}

(***************************************************************************)
(* Once no request is in progress and the RESULT queue is empty, a result  *)
(* never submitted again has the status the policy gives to the votes on   *)
(* record, in spite of the votes' own finalizations overwriting each other *)
(* with stale statuses: the job queued after each of them counts again.    *)
(* A resubmission in between can leave a stale status for good.            *)
(***************************************************************************)
SettledMeansCounted == Quiet /\ result.id # 0 /\ result.version = 1 => result.status = CountedStatus

-----------------------------------------------------------------------------
(***************************************************************************)
(* The inductive invariant behind StatsMirrorResult, LineupComplete,       *)
(* MatchReflectsResult and VotesBelongToResult: what the requests in       *)
(* progress may still write.                                               *)
(***************************************************************************)
Submitting(p) == req[p].op = "submit" /\ req[p].pc \in {"readResult", "commit"}

Snapshots == {req[p].players : p \in {q \in Procs : Submitting(q)}} \cup {StatPlayers}

(* The roster only grows, so the rosters read at different times are comparable. *)
SnapshotChain ==
  /\ \A S \in Snapshots : S \subseteq Roster
  /\ \A S, T \in Snapshots : S \subseteq T \/ T \subseteq S

SubmissionsReady ==
  \A p \in Procs : At(p, "submit", "commit") => ResultInputReady(req[p].players, req[p].seats)

(* Requests and jobs that are about a result name one. *)
AboutResult == {"record", "finalizeRead", "finalizeCommit", "enqueue"}
ResultsNamed ==
  /\ jobs \in Seq(1 .. MaxResults)
  /\ \A p \in Procs :
       req[p].pc \in AboutResult \/ At(p, "resolve", "commit") => req[p].rid # 0

(* A vote to be recorded is a player's, on a version that the result it names had. *)
VotesInProgress ==
  /\ result.id <= lastId
  /\ \A p \in Procs :
       /\ req[p].op = "confirm" /\ req[p].pc \in {"readResult", "record"}
            => req[p].who \in Roster
       /\ req[p].pc = "record" => /\ req[p].op = "confirm"
                                  /\ req[p].rid <= lastId
                                  /\ req[p].rid = result.id => req[p].version <= result.version

(* What holds of the result, its stats and votes, and of the requests about them. *)
ResultInv ==
  /\ SnapshotChain
  /\ SubmissionsReady
  /\ ResultsNamed
  /\ VotesInProgress
  /\ StatsMirrorResult
  /\ LineupComplete
  /\ MatchReflectsResult
  /\ VotesBelongToResult

-----------------------------------------------------------------------------
(* Liveness. *)

(***************************************************************************)
(* Every joined player of a confirmed result is told so, by the vote that  *)
(* confirmed it or by a job, however the finalizations overlap.            *)
(***************************************************************************)
ConfirmationAnnounced ==
  \A u \in Users :
    result.status = "CONFIRMED" /\ player[u].status \in Joined
      ~> <<"RESULT_CONFIRMED", u>> \in outbox

-----------------------------------------------------------------------------
(***************************************************************************)
(* What the repository says and concurrent requests do not keep: a run     *)
(* refutes it.                                                             *)
(***************************************************************************)

(* submitQuickResult: a finalized result "cannot be overwritten". *)
FinalizedNotOverwritten ==
  [][result.status = "CONFIRMED" /\ result'.id = result.id
       => result'.version = result.version]_vars
=============================================================================
