---------------------------- MODULE MatchRecords ----------------------------
(***************************************************************************)
(* The PostgreSQL rows of ONE in-house match, the RESULT job queue, and    *)
(* the requests in progress: the state that MatchesService,                *)
(* MatchmakingService and ResultsService share.                            *)
(*                                                                         *)
(* The services run in one Node process.  A handler runs to its next await *)
(* without being interrupted, so one step of a request is one awaited      *)
(* Prisma call: a read, or a whole $transaction.  Between two steps any    *)
(* other request may take any of its own.  req[p] is what the handler p    *)
(* carries over its next await.                                            *)
(***************************************************************************)
EXTENDS ConfirmationPolicy

CONSTANTS
  Users,        \* accounts that can be added to the match
  Admins,       \* accounts told of a disputed result
  Lanes,        \* the five lanes; fewer in small instances
  FILL,         \* the one Position that is not a lane
  NoSeat,       \* team_side and assigned_role are null
  NoUser,
  NoVote,
  Keys, NoKey,  \* values of the idempotency-key header
  Slots,        \* HTTP requests that may be in progress at once
  Worker,       \* the BullMQ worker of the RESULT queue
  Handlers,     \* the endpoints called in this instance
  Ballots,      \* the votes cast in this instance
  Winners,      \* the winning teams named in this instance
  Rsvps,        \* the participation statuses sent in this instance
  Tracked,      \* the kinds of message recorded in this instance
  Faults,       \* whether a handler may die between two steps
  MaxResults, MaxVersion, MaxJobs, MaxCandidates   \* bounds

ParticipationStatus == {"INVITED", "ACCEPTED", "DECLINED", "LOCKED_IN"}

Joined == {"ACCEPTED", "LOCKED_IN"}

MatchStatus == {"DRAFT", "RECRUITING", "LOCKED", "BALANCED", "IN_PROGRESS",
                "RESULT_PENDING", "CONFIRMED", "DISPUTED", "CLOSED"}

MessageKind == {"POWER_RECALCULATION", "RESULT_CONFIRMATION_REQUEST",
                "RESULT_CONFIRMED", "RESULT_DISPUTED", "RESULT_ADMIN_RESOLVED"}

HandlerName == {"addPlayers", "updatePlayer", "lock", "manualBalance", "generate",
                "assign", "reopen", "submit", "confirm", "resolve"}

ASSUME UsersAssumption == IsFiniteSet(Users) /\ NoUser \notin Users
ASSUME LanesAssumption == IsFiniteSet(Lanes) /\ Lanes # {} /\ FILL \notin Lanes
ASSUME ProcsAssumption == Worker \notin Slots
ASSUME KeysAssumption == NoKey \notin Keys
ASSUME InputsAssumption ==
  /\ Handlers \subseteq HandlerName
  /\ Ballots \subseteq Vote
  /\ NoVote \notin Vote
  /\ Winners \subseteq TeamSide
  /\ Rsvps \subseteq ParticipationStatus
  /\ Tracked \subseteq MessageKind
  /\ Faults \in BOOLEAN
ASSUME BoundsAssumption ==
  /\ MaxResults \in Nat
  /\ MaxVersion \in Nat \ {0}
  /\ MaxJobs \in Nat \ {0}
  /\ MaxCandidates \in Nat \ {0}

Positions == Lanes \cup {FILL}
Seats == TeamSide \X Positions
LaneSeats == TeamSide \X Lanes

ASSUME SeatAssumption == NoSeat \notin Seats

(* Ten players, five lanes a side, in the code. *)
MatchSize == 2 * Cardinality(Lanes)

Versions == 1 .. MaxVersion
Procs == Slots \cup {Worker}
Accounts == Users \cup Admins
Lineup == [Users -> Seats \cup {NoSeat}]
NoLineup == [u \in Users |-> NoSeat]

-----------------------------------------------------------------------------
(* Rows.  An absent row is a value of its own. *)

PlayerRow == [status : ParticipationStatus \cup {"ABSENT"},
              seat : Seats \cup {NoSeat}, captain : BOOLEAN]
NoPlayer == [status |-> "ABSENT", seat |-> NoSeat, captain |-> FALSE]

(* id 0: no result.  Ids of deleted results are never used again. *)
ResultRow == [id : 0 .. MaxResults, status : ResultStatus, version : Versions,
              winner : TeamSide \cup {NoTeam}, key : Keys \cup {NoKey}, resolved : BOOLEAN]
NoResult == [id |-> 0, status |-> "PARTIAL", version |-> 1, winner |-> NoTeam,
             key |-> NoKey, resolved |-> FALSE]

(* seat NoSeat: the player has no stat row. *)
StatRow == [seat : Seats \cup {NoSeat}, status : ResultStatus]
NoStat == [seat |-> NoSeat, status |-> "PARTIAL"]

Message == MessageKind \X Accounts

Step == {"idle", "readResult", "commit", "record", "finalizeRead", "finalizeCommit",
         "enqueue", "announce"}

Request ==
  [op : HandlerName \cup {"idle", "finalizeJob"},
   pc : Step,
   who : Users \cup {NoUser},           \* the voter, the player to update
   players : SUBSET Users,              \* players of the match snapshot
   seats : Lineup,                      \* seats read, or to be written
   rsvp : ParticipationStatus \cup {"ABSENT"},
   captains : SUBSET Users,             \* rows to be written with isCaptain true,
   demoted : SUBSET Users,              \* and with isCaptain false
   unlock : BOOLEAN,                    \* the match was LOCKED when read
   candidate : 0 .. MaxCandidates,
   rid : 0 .. MaxResults,               \* id of the result read, 0: none
   version : Versions,                  \* version of the result read
   vote : Vote \cup {NoVote},
   winner : TeamSide \cup {NoTeam},
   key : Keys \cup {NoKey},
   factual : BOOLEAN,                   \* the resolution changes the facts
   status : ResultStatus,               \* status to be written
   prev : ResultStatus,                 \* status of the result read
   send : SUBSET Message]

Idle ==
  [op |-> "idle", pc |-> "idle", who |-> NoUser, players |-> {}, seats |-> NoLineup,
   rsvp |-> "ABSENT", captains |-> {}, demoted |-> {}, unlock |-> FALSE, candidate |-> 0, rid |-> 0,
   version |-> 1, vote |-> NoVote, winner |-> NoTeam, key |-> NoKey, factual |-> FALSE,
   status |-> "PARTIAL", prev |-> "PARTIAL", send |-> {}]

VARIABLES
  matchStatus,  \* inhouse_matches.status
  player,       \* inhouse_match_players
  candidates,   \* inhouse_matches.candidates_json, by candidateNo
  selected,     \* inhouse_matches.selected_candidate_no, 0: null
  result,       \* inhouse_match_results (match_id is unique)
  lastId,       \* the newest result id
  votes,        \* match_result_confirmations: newest vote by user and version
  stats,        \* inhouse_player_stats
  jobs,         \* waiting jobs of the RESULT queue
  outbox,       \* tracked messages handed to the other queues
  req           \* handlers in progress

matchVars == <<matchStatus, player, candidates, selected>>
resultVars == <<result, lastId, votes, stats>>
rows == <<matchVars, resultVars>>
vars == <<rows, jobs, outbox, req>>

(* Every row, job and request in progress has the columns its handlers rely on. *)
TypeOK ==
  /\ matchStatus \in MatchStatus
  /\ player \in [Users -> PlayerRow]
  /\ candidates \in [1 .. MaxCandidates -> Lineup]
  /\ selected \in 0 .. MaxCandidates
  /\ result \in ResultRow
  /\ lastId \in 0 .. MaxResults
  /\ votes \in [Users -> [Versions -> Vote \cup {NoVote}]]
  /\ stats \in [Users -> StatRow]
  /\ jobs \in Seq(0 .. MaxResults)
  /\ outbox \in SUBSET Message
  /\ req \in [Procs -> Request]

-----------------------------------------------------------------------------
Roster == {u \in Users : player[u].status # "ABSENT"}
JoinedPlayers == {u \in Users : player[u].status \in Joined}
Captains == {u \in Roster : player[u].captain}
NoVotes == [u \in Users |-> [v \in Versions |-> NoVote]]
NoCandidates == [n \in 1 .. MaxCandidates |-> NoLineup]

(* The votes ResultsService counts: newest of each user, current version. *)
LatestVotes(version) ==
  [u \in {w \in Users : votes[w][version] # NoVote} |-> votes[u][version]]

CountedStatus ==
  Evaluate(Cardinality(JoinedPlayers), Captains, result.winner, LatestVotes(result.version))

\* Mutant: only the number of players of each team is checked.
ResultInputReadyNoLanes(players, seats) ==
  /\ \A u \in players : seats[u] # NoSeat
  /\ \A t \in TeamSide :
       Cardinality({u \in players : seats[u][1] = t}) = Cardinality(Lanes)

(***************************************************************************)
(* assertQuickResultInputReady on the match snapshot: every player seated, *)
(* and each team has as many players as lanes and covers every lane.       *)
(***************************************************************************)
ResultInputReady(players, seats) ==
  /\ \A u \in players : seats[u] # NoSeat
  /\ \A t \in TeamSide :
       LET team == {u \in players : seats[u][1] = t}
       IN  /\ Cardinality(team) = Cardinality(Lanes)
           /\ Lanes \subseteq {seats[u][2] : u \in team}

(* Manual balance: everyone seated, full teams, no position twice in a team. *)
ManualLineups(players) ==
  {l \in Lineup :
     /\ \A u \in Users : l[u] = NoSeat <=> u \notin players
     /\ \A u, v \in players : l[u] = l[v] => u = v
     /\ \A t \in TeamSide : Cardinality({u \in players : l[u][1] = t}) = Cardinality(Lanes)}

\* Mutant: the algorithm may leave a player on FILL.
CandidateLineupsFill(players) == ManualLineups(players)

(* What the algorithm proposes: a manual lineup that covers the lanes. *)
CandidateLineups(players) ==
  {l \in ManualLineups(players) : \A u \in players : l[u][2] \in Lanes}

-----------------------------------------------------------------------------
(* Requests. *)

Starts(p, op) == p \in Slots /\ op \in Handlers /\ req[p] = Idle
At(p, op, pc) == req[p].op = op /\ req[p].pc = pc
Carry(p, r) == req' = [req EXCEPT ![p] = r]

(* The handler returns or throws: the request keeps nothing. *)
Leave(p) == Carry(p, Idle)

(* After the transaction only the messages are left to send. *)
ThenSend(p, messages) ==
  LET tracked == {m \in messages : m[1] \in Tracked}
  IN  Carry(p, IF tracked = {} THEN Idle
               ELSE [Idle EXCEPT !.op = req[p].op, !.pc = "announce", !.rid = req[p].rid,
                                     !.send = tracked])

(***************************************************************************)
(* Power jobs and notifications go out one awaited call at a time.  Their  *)
(* order is left open: the queues that take them are independent.          *)
(***************************************************************************)
Announce(p) ==
  /\ req[p].pc = "announce"
  /\ \E m \in req[p].send :
       /\ outbox' = outbox \cup {m}
       /\ Carry(p, IF req[p].send = {m} THEN Idle
                   ELSE [req[p] EXCEPT !.send = @ \ {m}])
  /\ UNCHANGED <<rows, jobs>>
=============================================================================
