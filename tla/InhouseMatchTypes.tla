------------------------- MODULE InhouseMatchTypes --------------------------
(* Proof that InhouseMatch keeps its types, for every value of the constants. *)
EXTENDS InhouseMatch, FiniteSetTheorems, SequenceTheorems, TLAPS

-----------------------------------------------------------------------------
(* What the helpers on requests keep. *)

(* An idle process is a request in progress of the lowest kind: it is typed. *)
LEMMA IdleType == Idle \in Request
BY UsersAssumption, BoundsAssumption DEF Idle, Request, HandlerName, Step, Lineup, NoLineup,
   ParticipationStatus, Versions, ResultStatus

(* Carrying a typed request keeps the table of requests typed. *)
LEMMA CarryType ==
  ASSUME NEW p \in Procs, NEW r \in Request, req \in [Procs -> Request], Carry(p, r)
  PROVE  req' \in [Procs -> Request]
BY DEF Carry

(* A handler that returns or throws keeps the table of requests typed. *)
LEMMA LeaveType ==
  ASSUME NEW p \in Procs, req \in [Procs -> Request], Leave(p)
  PROVE  req' \in [Procs -> Request]
BY IdleType, CarryType DEF Leave

(* So does one that is left with messages to send. *)
LEMMA ThenSendType ==
  ASSUME NEW p \in Procs, NEW messages \in SUBSET Message, req \in [Procs -> Request],
         ThenSend(p, messages)
  PROVE  req' \in [Procs -> Request]
<1> DEFINE tracked == {m \in messages : m[1] \in Tracked}
           sending == [Idle EXCEPT !.op = req[p].op, !.pc = "announce", !.rid = req[p].rid,
                                   !.send = tracked]
<1>1. tracked \in SUBSET Message
  OBVIOUS
<1>2. sending \in Request
  <2>1. /\ req[p].op \in HandlerName \cup {"idle", "finalizeJob"}
        /\ req[p].rid \in 0 .. MaxResults
    BY DEF Request
  <2> HIDE DEF tracked
  <2> QED
    BY <1>1, <2>1, IdleType DEF Request, Step
<1>3. Carry(p, IF tracked = {} THEN Idle ELSE sending)
  BY DEF ThenSend
<1> HIDE DEF sending, tracked
<1>4. (IF tracked = {} THEN Idle ELSE sending) \in Request
  BY <1>2, IdleType
<1> QED
  BY <1>3, <1>4, CarryType

-----------------------------------------------------------------------------
(* Type correctness: one lemma for each action. *)

(* A match just created, or just balanced, is typed. *)
LEMMA InitType == Init => TypeOK
<1> SUFFICES ASSUME Init PROVE TypeOK
  OBVIOUS
<1>0. (CreatedMatch \/ BalancedMatch) /\ Start
  BY DEF Init, CreatedInit, BalancedInit
<1>1. matchStatus \in MatchStatus
  BY <1>0 DEF CreatedMatch, BalancedMatch, MatchStatus
<1>2. player \in [Users -> PlayerRow]
  <2>1. CASE CreatedMatch
    BY <2>1 DEF CreatedMatch, NoPlayer, PlayerRow
  <2>2. CASE BalancedMatch
    <3>1. PICK lineup \in Lineup, captains \in SUBSET Users :
            player = [u \in Users |->
              IF u \in {w \in Users : lineup[w] # NoSeat}
                THEN [status |-> "LOCKED_IN", seat |-> lineup[u], captain |-> u \in captains]
                ELSE NoPlayer]
      BY <2>2 DEF BalancedMatch
    <3>2. \A u \in Users : lineup[u] \in Seats \cup {NoSeat} /\ (u \in captains) \in BOOLEAN
      BY DEF Lineup
    <3> QED
      BY <3>1, <3>2 DEF NoPlayer, PlayerRow, ParticipationStatus
  <2> QED
    BY <1>0, <2>1, <2>2
<1>3. /\ candidates \in [1 .. MaxCandidates -> Lineup]
      /\ selected \in 0 .. MaxCandidates
      /\ result \in ResultRow
      /\ lastId \in 0 .. MaxResults
  BY <1>0, BoundsAssumption DEF Start, NoCandidates, NoLineup, Lineup, NoResult, ResultRow,
     ResultStatus, Versions
<1>4. /\ votes \in [Users -> [Versions -> Vote \cup {NoVote}]]
      /\ stats \in [Users -> StatRow]
  BY <1>0 DEF Start, NoVotes, NoStat, StatRow, ResultStatus
<1>5. jobs \in Seq(0 .. MaxResults) /\ outbox \in SUBSET Message
  BY <1>0 DEF Start
<1>6. req \in [Procs -> Request]
  BY <1>0, IdleType DEF Start
<1> QED
  BY <1>1, <1>2, <1>3, <1>4, <1>5, <1>6 DEF TypeOK

(* addPlayers: the users to be created are remembered with one status and their captain flags. *)
LEMMA AddPlayersReadType ==
  ASSUME TypeOK, NEW p \in Procs, AddPlayersRead(p)
  PROVE  TypeOK'
<1>1. req' \in [Procs -> Request]
  <2>1. PICK new \in SUBSET (Users \ Roster) \ {{}}, rsvp \in Rsvps :
          \E caps \in SUBSET new :
            Carry(p, [Idle EXCEPT !.op = "addPlayers", !.pc = "commit", !.players = new,
                                  !.rsvp = rsvp, !.captains = caps])
    BY DEF AddPlayersRead
  <2>2. PICK caps \in SUBSET new :
          Carry(p, [Idle EXCEPT !.op = "addPlayers", !.pc = "commit", !.players = new,
                                !.rsvp = rsvp, !.captains = caps])
    BY <2>1
  <2>3. [Idle EXCEPT !.op = "addPlayers", !.pc = "commit", !.players = new,
                     !.rsvp = rsvp, !.captains = caps] \in Request
    BY IdleType, InputsAssumption, ZenonT(30) DEF Request, HandlerName, Step
  <2> QED
    BY <2>2, <2>3, CarryType DEF TypeOK
<1> QED
  BY <1>1 DEF AddPlayersRead, rows, matchVars, resultVars, TypeOK

(* addPlayers: the rows created are rows of players, without a seat. *)
LEMMA AddPlayersCommitType ==
  ASSUME TypeOK, NEW p \in Procs, AddPlayersCommit(p)
  PROVE  TypeOK'
<1>1. req' \in [Procs -> Request]
  BY LeaveType DEF AddPlayersCommit, TypeOK
<1>2. player' \in [Users -> PlayerRow]
  <2>1. req[p].rsvp \in ParticipationStatus \cup {"ABSENT"}
    BY DEF TypeOK, Request
  <2>2. \A u \in Users : [status |-> req[p].rsvp, seat |-> NoSeat,
                          captain |-> u \in req[p].captains] \in PlayerRow
    BY <2>1 DEF PlayerRow
  <2> QED
    BY <2>2 DEF AddPlayersCommit, TypeOK
<1> QED
  BY <1>1, <1>2 DEF AddPlayersCommit, NoResultChange, resultVars, TypeOK

(* updatePlayer: the change asked for one player is remembered. *)
LEMMA UpdatePlayerReadType ==
  ASSUME TypeOK, NEW p \in Procs, UpdatePlayerRead(p)
  PROVE  TypeOK'
<1>1. PICK u \in Roster, rsvp \in Rsvps \cup {"ABSENT"} :
        \E up, down \in SUBSET {u} :
          /\ up \cap down = {}
          /\ Carry(p, [Idle EXCEPT !.op = "updatePlayer", !.pc = "commit", !.who = u,
                                   !.rsvp = rsvp, !.captains = up, !.demoted = down,
                                   !.unlock = matchStatus = "LOCKED"])
  BY DEF UpdatePlayerRead
<1>2. PICK up \in SUBSET {u}, down \in SUBSET {u}, unlock \in BOOLEAN :
        Carry(p, [Idle EXCEPT !.op = "updatePlayer", !.pc = "commit", !.who = u,
                              !.rsvp = rsvp, !.captains = up, !.demoted = down,
                              !.unlock = unlock])
  <2>1. (matchStatus = "LOCKED") \in BOOLEAN
    OBVIOUS
  <2> QED
    BY <1>1, <2>1, Zenon
<1>3. [Idle EXCEPT !.op = "updatePlayer", !.pc = "commit", !.who = u,
                   !.rsvp = rsvp, !.captains = up, !.demoted = down,
                   !.unlock = unlock] \in Request
  <2>1. /\ u \in Users /\ up \in SUBSET Users /\ down \in SUBSET Users
        /\ rsvp \in ParticipationStatus \cup {"ABSENT"}
    BY InputsAssumption DEF Roster
  <2> QED
    BY <2>1, IdleType, ZenonT(30) DEF Request, HandlerName, Step
<1>4. req' \in [Procs -> Request]
  BY <1>2, <1>3, CarryType DEF TypeOK
<1> QED
  BY <1>4 DEF UpdatePlayerRead, rows, matchVars, resultVars, TypeOK

(* updatePlayer: every row rewritten stays the row of a player. *)
LEMMA UpdatePlayerCommitType ==
  ASSUME TypeOK, NEW p \in Procs, UpdatePlayerCommit(p)
  PROVE  TypeOK'
<1>1. req' \in [Procs -> Request]
  BY LeaveType DEF UpdatePlayerCommit, TypeOK
<1>2. player' \in [Users -> PlayerRow]
  <2>1. req[p].rsvp \in ParticipationStatus \cup {"ABSENT"}
    BY DEF TypeOK, Request
  <2>2. \A u \in Users : UpdatedRow(req[p], u) \in PlayerRow
    BY <2>1 DEF TypeOK, UpdatedRow, PlayerRow, ParticipationStatus
  <2> QED
    BY <2>2 DEF UpdatePlayerCommit
<1>3. /\ matchStatus' \in MatchStatus
      /\ candidates' \in [1 .. MaxCandidates -> Lineup]
      /\ selected' \in 0 .. MaxCandidates
  BY BoundsAssumption DEF UpdatePlayerCommit, TypeOK, MatchStatus, NoCandidates, NoLineup, Lineup
<1> QED
  BY <1>1, <1>2, <1>3 DEF UpdatePlayerCommit, NoResultChange, resultVars, TypeOK

(* lockMatch: the check carries nothing but the request itself. *)
LEMMA LockReadType ==
  ASSUME TypeOK, NEW p \in Procs, LockRead(p)
  PROVE  TypeOK'
<1>1. [Idle EXCEPT !.op = "lock", !.pc = "commit"] \in Request
  BY IdleType DEF Request, HandlerName, Step
<1>2. req' \in [Procs -> Request]
  BY <1>1, CarryType DEF LockRead, TypeOK
<1> QED
  BY <1>2 DEF LockRead, rows, matchVars, resultVars, TypeOK

(* lockMatch: LOCKED_IN is a participation status, LOCKED a match status. *)
LEMMA LockCommitType ==
  ASSUME TypeOK, NEW p \in Procs, LockCommit(p)
  PROVE  TypeOK'
<1>1. req' \in [Procs -> Request]
  BY LeaveType DEF LockCommit, TypeOK
<1>2. player' \in [Users -> PlayerRow]
  BY DEF LockCommit, TypeOK, PlayerRow, ParticipationStatus
<1>3. matchStatus' \in MatchStatus
  BY DEF LockCommit, MatchStatus
<1> QED
  BY <1>1, <1>2, <1>3 DEF LockCommit, NoResultChange, resultVars, TypeOK

(* Writing a lineup keeps the rows of the players typed. *)
LEMMA SeatedType ==
  ASSUME TypeOK, NEW lineup \in Lineup
  PROVE  Seated(lineup) \in [Users -> PlayerRow]
<1>1. \A u \in Users : lineup[u] \in Seats \cup {NoSeat}
  BY DEF Lineup
<1> QED
  BY <1>1 DEF Seated, TypeOK, PlayerRow, ParticipationStatus

(* saveManualBalance: the lineup asked for is a lineup. *)
LEMMA ManualBalanceReadType ==
  ASSUME TypeOK, NEW p \in Procs, ManualBalanceRead(p)
  PROVE  TypeOK'
<1>1. PICK lineup \in ManualLineups(Roster) :
        Carry(p, [Idle EXCEPT !.op = "manualBalance", !.pc = "commit", !.seats = lineup])
  BY DEF ManualBalanceRead
<1>2. [Idle EXCEPT !.op = "manualBalance", !.pc = "commit", !.seats = lineup] \in Request
  BY IdleType DEF Request, HandlerName, Step, ManualLineups
<1>3. req' \in [Procs -> Request]
  BY <1>1, <1>2, CarryType DEF TypeOK
<1> QED
  BY <1>3 DEF ManualBalanceRead, rows, matchVars, resultVars, TypeOK

(* saveManualBalance: seating the lineup keeps the rows typed. *)
LEMMA ManualBalanceCommitType ==
  ASSUME TypeOK, NEW p \in Procs, ManualBalanceCommit(p)
  PROVE  TypeOK'
<1>1. req' \in [Procs -> Request]
  BY LeaveType DEF ManualBalanceCommit, TypeOK
<1>2. player' \in [Users -> PlayerRow]
  BY SeatedType DEF ManualBalanceCommit, TypeOK, Request
<1>3. matchStatus' \in MatchStatus /\ selected' \in 0 .. MaxCandidates
  BY BoundsAssumption DEF ManualBalanceCommit, MatchStatus
<1> QED
  BY <1>1, <1>2, <1>3 DEF ManualBalanceCommit, NoResultChange, resultVars, TypeOK

(* autoBalance and reroll: the players of the snapshot are users. *)
LEMMA GenerateReadType ==
  ASSUME TypeOK, NEW p \in Procs, GenerateRead(p)
  PROVE  TypeOK'
<1>1. [Idle EXCEPT !.op = "generate", !.pc = "commit", !.players = Roster] \in Request
  BY IdleType DEF Request, HandlerName, Step, Roster
<1>2. req' \in [Procs -> Request]
  BY <1>1, CarryType DEF GenerateRead, TypeOK
<1> QED
  BY <1>2 DEF GenerateRead, rows, matchVars, resultVars, TypeOK

(* autoBalance and reroll: the new list holds a lineup under every candidate number. *)
LEMMA GenerateCommitType ==
  ASSUME TypeOK, NEW p \in Procs, GenerateCommit(p)
  PROVE  TypeOK'
<1>1. req' \in [Procs -> Request]
  BY LeaveType DEF GenerateCommit, TypeOK
<1>2. candidates' \in [1 .. MaxCandidates -> Lineup]
  <2>1. PICK size \in 1 .. MaxCandidates :
          \E list \in [1 .. size -> CandidateLineups(req[p].players)] :
            candidates' = [n \in 1 .. MaxCandidates |-> IF n <= size THEN list[n] ELSE NoLineup]
    BY DEF GenerateCommit
  <2>2. PICK list \in [1 .. size -> CandidateLineups(req[p].players)] :
          candidates' = [n \in 1 .. MaxCandidates |-> IF n <= size THEN list[n] ELSE NoLineup]
    BY <2>1
  <2>3. \A n \in 1 .. size : list[n] \in Lineup
    BY DEF CandidateLineups, ManualLineups
  <2>4. NoLineup \in Lineup
    BY DEF NoLineup, Lineup
  <2> QED
    BY <2>2, <2>3, <2>4
<1> QED
  BY <1>1, <1>2 DEF GenerateCommit, NoResultChange, resultVars, TypeOK

(* assignCandidate: the candidate read is a lineup of the list. *)
LEMMA AssignReadType ==
  ASSUME TypeOK, NEW p \in Procs, AssignRead(p)
  PROVE  TypeOK'
<1>1. PICK n \in 1 .. MaxCandidates :
        Carry(p, [Idle EXCEPT !.op = "assign", !.pc = "commit", !.candidate = n,
                              !.seats = candidates[n]])
  BY DEF AssignRead
<1>2. [Idle EXCEPT !.op = "assign", !.pc = "commit", !.candidate = n,
                   !.seats = candidates[n]] \in Request
  <2>1. candidates[n] \in Lineup
    BY DEF TypeOK
  <2>2. n \in 0 .. MaxCandidates
    BY BoundsAssumption
  <2> QED
    BY <2>1, <2>2, IdleType, ZenonT(30) DEF Request, HandlerName, Step
<1>3. req' \in [Procs -> Request]
  BY <1>1, <1>2, CarryType DEF TypeOK
<1> QED
  BY <1>3 DEF AssignRead, rows, matchVars, resultVars, TypeOK

(* assignCandidate: seating the candidate keeps the rows typed. *)
LEMMA AssignCommitType ==
  ASSUME TypeOK, NEW p \in Procs, AssignCommit(p)
  PROVE  TypeOK'
<1>1. req' \in [Procs -> Request]
  BY LeaveType DEF AssignCommit, TypeOK
<1>2. player' \in [Users -> PlayerRow] /\ selected' \in 0 .. MaxCandidates
  BY SeatedType DEF AssignCommit, TypeOK, Request
<1>3. matchStatus' \in MatchStatus
  BY DEF AssignCommit, MatchStatus
<1> QED
  BY <1>1, <1>2, <1>3 DEF AssignCommit, NoResultChange, resultVars, TypeOK

(* reopenMatch: the id of the result read, or none, is remembered. *)
LEMMA ReopenReadType ==
  ASSUME TypeOK, NEW p \in Procs, ReopenRead(p)
  PROVE  TypeOK'
<1>1. [Idle EXCEPT !.op = "reopen", !.pc = "commit", !.rid = result.id] \in Request
  BY IdleType, ZenonT(30) DEF Request, HandlerName, Step, TypeOK, ResultRow
<1>2. req' \in [Procs -> Request]
  BY <1>1, CarryType DEF ReopenRead, TypeOK
<1> QED
  BY <1>2 DEF ReopenRead, rows, matchVars, resultVars, TypeOK

(* The values that stand for no result, no votes and no stats are typed. *)
LEMMA NothingType ==
  /\ NoResult \in ResultRow
  /\ NoVotes \in [Users -> [Versions -> Vote \cup {NoVote}]]
  /\ [u \in Users |-> NoStat] \in [Users -> StatRow]
  /\ NoCandidates \in [1 .. MaxCandidates -> Lineup]
BY BoundsAssumption DEF NoResult, ResultRow, ResultStatus, Versions, NoVotes, NoStat, StatRow,
   NoCandidates, NoLineup, Lineup

(* reopenMatch: the rows are typed whether the transaction commits or rolls back. *)
LEMMA ReopenCommitType ==
  ASSUME TypeOK, NEW p \in Procs, ReopenCommit(p)
  PROVE  TypeOK'
<1>1. req' \in [Procs -> Request]
  BY LeaveType DEF ReopenCommit, TypeOK
<1>2. CASE UNCHANGED <<matchVars, result, votes, stats>>
  BY <1>1, <1>2 DEF ReopenCommit, matchVars, TypeOK
<1>3. CASE /\ DiscardResult(req[p].rid)
           /\ player' = [u \in Users |->
                IF u \in Roster
                  THEN [player[u] EXCEPT !.seat = NoSeat, !.status = "ACCEPTED"] ELSE player[u]]
           /\ matchStatus' = "RECRUITING"
           /\ candidates' = NoCandidates
           /\ selected' = 0
  <2>1. /\ result' \in ResultRow
        /\ votes' \in [Users -> [Versions -> Vote \cup {NoVote}]]
        /\ stats' \in [Users -> StatRow]
    BY <1>3, NothingType DEF DiscardResult, TypeOK
  <2>2. player' \in [Users -> PlayerRow]
    BY <1>3 DEF TypeOK, PlayerRow, ParticipationStatus
  <2>3. matchStatus' \in MatchStatus
    BY <1>3 DEF MatchStatus
  <2>4. selected' \in 0 .. MaxCandidates
    <3>1. selected' = 0
      BY <1>3
    <3> QED
      BY <3>1, BoundsAssumption
  <2>5. candidates' \in [1 .. MaxCandidates -> Lineup]
    BY <1>3, NothingType
  <2> QED
    BY <1>1, <2>1, <2>2, <2>3, <2>4, <2>5 DEF ReopenCommit, TypeOK
<1> QED
  BY <1>2, <1>3 DEF ReopenCommit

(* submitQuickResult: the players and seats of the snapshot are remembered. *)
LEMMA SubmitReadMatchType ==
  ASSUME TypeOK, NEW p \in Procs, SubmitReadMatch(p)
  PROVE  TypeOK'
<1>1. PICK winner \in Winners, key \in Keys \cup {NoKey} :
        Carry(p, [Idle EXCEPT !.op = "submit", !.pc = "readResult", !.players = Roster,
                              !.seats = [u \in Users |-> player[u].seat],
                              !.winner = winner, !.key = key])
  BY DEF SubmitReadMatch
<1>2. [Idle EXCEPT !.op = "submit", !.pc = "readResult", !.players = Roster,
                   !.seats = [u \in Users |-> player[u].seat],
                   !.winner = winner, !.key = key] \in Request
  <2>1. [u \in Users |-> player[u].seat] \in Lineup
    BY DEF TypeOK, PlayerRow, Lineup
  <2>2. Roster \in SUBSET Users /\ winner \in TeamSide
    BY InputsAssumption DEF Roster
  <2> QED
    BY <2>1, <2>2, IdleType, ZenonT(30) DEF Request, HandlerName, Step
<1>3. req' \in [Procs -> Request]
  BY <1>1, <1>2, CarryType DEF TypeOK
<1> QED
  BY <1>3 DEF SubmitReadMatch, rows, matchVars, resultVars, TypeOK

(* submitQuickResult: the id of the result read is remembered. *)
LEMMA SubmitReadResultType ==
  ASSUME TypeOK, NEW p \in Procs, SubmitReadResult(p)
  PROVE  TypeOK'
<1>1. [req[p] EXCEPT !.pc = "commit", !.rid = result.id] \in Request
  <2>1. /\ req[p] \in Request
        /\ result.id \in 0 .. MaxResults
        /\ result.version \in Versions
        /\ result.status \in ResultStatus
    BY DEF TypeOK, ResultRow
  <2> QED
    BY <2>1 DEF Request, Step
<1>2. req' \in [Procs -> Request]
  BY <1>1, CarryType, LeaveType DEF SubmitReadResult, TypeOK
<1> QED
  BY <1>2 DEF SubmitReadResult, rows, matchVars, resultVars, TypeOK

(* The messages a handler sends are messages to accounts. *)
LEMMA ToType ==
  ASSUME NEW kind \in MessageKind, NEW accounts \in SUBSET Accounts
  PROVE  To(kind, accounts) \in SUBSET Message
BY DEF To, Message

(* submitQuickResult: the result and the stats written are typed, created or overwritten. *)
LEMMA SubmitCommitType ==
  ASSUME TypeOK, NEW p \in Procs, SubmitCommit(p)
  PROVE  TypeOK'
<1>1. req[p] \in Request
  BY DEF TypeOK
<1>2. req' \in [Procs -> Request]
  <2>1. PICK requester \in Accounts :
          ThenSend(p, To("RESULT_CONFIRMATION_REQUEST", req[p].players \ {requester})
                        \cup To("POWER_RECALCULATION", req[p].players))
    BY DEF SubmitCommit
  <2>2. /\ req[p].players \in SUBSET Accounts
        /\ req[p].players \ {requester} \in SUBSET Accounts
    BY <1>1 DEF Request, Accounts
  <2>3. /\ To("RESULT_CONFIRMATION_REQUEST", req[p].players \ {requester}) \in SUBSET Message
        /\ To("POWER_RECALCULATION", req[p].players) \in SUBSET Message
    BY <2>2, ToType DEF MessageKind
  <2>4. To("RESULT_CONFIRMATION_REQUEST", req[p].players \ {requester})
          \cup To("POWER_RECALCULATION", req[p].players) \in SUBSET Message
    BY <2>3
  <2> QED
    BY <2>1, <2>4, ThenSendType DEF TypeOK
<1>3. result' \in ResultRow /\ lastId' \in 0 .. MaxResults
  <2>1. req[p].winner \in TeamSide \cup {NoTeam} /\ req[p].key \in Keys \cup {NoKey}
    BY <1>1 DEF Request
  <2>2. CASE CreateResult(req[p])
    BY <2>1, <2>2, BoundsAssumption DEF CreateResult, ResultRow, ResultStatus, Versions, TypeOK
  <2>3. CASE OverwriteResult(req[p])
    <3>1. /\ result \in ResultRow
          /\ result.version \in 1 .. MaxVersion
      BY DEF TypeOK, ResultRow, Versions
    <3>2. result.version + 1 \in Versions
      BY <2>3, <3>1, BoundsAssumption DEF OverwriteResult, Versions
    <3> QED
      BY <2>1, <2>3, <3>1, <3>2 DEF OverwriteResult, ResultRow, ResultStatus, TypeOK
  <2> QED
    BY <2>2, <2>3 DEF SubmitCommit
<1>4. stats' \in [Users -> StatRow]
  <2>1. \A u \in Users : req[p].seats[u] \in Seats \cup {NoSeat}
    BY <1>1 DEF Request, Lineup
  <2> QED
    BY <2>1 DEF SubmitCommit, WriteStats, StatRow, ResultStatus, TypeOK
<1>5. matchStatus' \in MatchStatus
  BY DEF SubmitCommit, MatchStatus
<1> QED
  BY <1>2, <1>3, <1>4, <1>5 DEF SubmitCommit, TypeOK

(* submitQuickResult: a failed transaction changes no row. *)
LEMMA SubmitFailsType ==
  ASSUME TypeOK, NEW p \in Procs, SubmitFails(p)
  PROVE  TypeOK'
<1>1. req' \in [Procs -> Request]
  BY LeaveType DEF SubmitFails, TypeOK
<1> QED
  BY <1>1 DEF SubmitFails, rows, matchVars, resultVars, TypeOK

(* confirmResult: the voter is a player and the vote a vote. *)
LEMMA ConfirmReadMatchType ==
  ASSUME TypeOK, NEW p \in Procs, ConfirmReadMatch(p)
  PROVE  TypeOK'
<1>1. PICK u \in Roster, vote \in Ballots :
        Carry(p, [Idle EXCEPT !.op = "confirm", !.pc = "readResult", !.who = u, !.vote = vote])
  BY DEF ConfirmReadMatch
<1>2. [Idle EXCEPT !.op = "confirm", !.pc = "readResult", !.who = u, !.vote = vote] \in Request
  <2>1. u \in Users /\ vote \in Vote
    BY InputsAssumption DEF Roster
  <2> QED
    BY <2>1, IdleType DEF Request, HandlerName, Step
<1>3. req' \in [Procs -> Request]
  BY <1>1, <1>2, CarryType DEF TypeOK
<1> QED
  BY <1>3 DEF ConfirmReadMatch, rows, matchVars, resultVars, TypeOK

(* confirmResult: the id and the version of the result read are remembered. *)
LEMMA ConfirmReadResultType ==
  ASSUME TypeOK, NEW p \in Procs, ConfirmReadResult(p)
  PROVE  TypeOK'
<1>1. [req[p] EXCEPT !.pc = "record", !.rid = result.id, !.version = result.version] \in Request
  <2>1. /\ req[p] \in Request
        /\ result.id \in 0 .. MaxResults
        /\ result.version \in Versions
        /\ result.status \in ResultStatus
    BY DEF TypeOK, ResultRow
  <2> QED
    BY <2>1 DEF Request, Step
<1>2. req' \in [Procs -> Request]
  BY <1>1, CarryType, LeaveType DEF ConfirmReadResult, TypeOK
<1> QED
  BY <1>2 DEF ConfirmReadResult, rows, matchVars, resultVars, TypeOK

(* confirmResult: the vote goes into the table under its version. *)
LEMMA ConfirmRecordType ==
  ASSUME TypeOK, NEW p \in Procs, ConfirmRecord(p)
  PROVE  TypeOK'
<1>1. [Idle EXCEPT !.op = "confirm", !.pc = "finalizeRead", !.rid = req[p].rid] \in Request
  <2>1. req[p].rid \in 0 .. MaxResults
    BY DEF TypeOK, Request
  <2> QED
    BY <2>1, IdleType DEF Request, HandlerName, Step
<1>2. req' \in [Procs -> Request]
  BY <1>1, CarryType, LeaveType DEF ConfirmRecord, TypeOK
<1>3. votes' \in [Users -> [Versions -> Vote \cup {NoVote}]]
  <2>1. req[p].vote \in Vote \cup {NoVote}
    BY DEF TypeOK, Request
  <2> QED
    BY <2>1, SMTT(30) DEF ConfirmRecord, TypeOK
<1> QED
  BY <1>2, <1>3 DEF ConfirmRecord, matchVars, TypeOK

(* The worker takes the id at the head of the queue. *)
LEMMA TakeJobType ==
  ASSUME TypeOK, NEW p \in Procs, TakeJob(p)
  PROVE  TypeOK'
<1>1. /\ Head(jobs) \in 0 .. MaxResults
      /\ jobs' \in Seq(0 .. MaxResults)
  <2>1. jobs \in Seq(0 .. MaxResults) /\ jobs # <<>> /\ jobs' = Tail(jobs)
    BY DEF TakeJob, TypeOK
  <2> QED
    BY <2>1, HeadTailProperties
<1>2. [Idle EXCEPT !.op = "finalizeJob", !.pc = "finalizeRead", !.rid = Head(jobs)] \in Request
  BY <1>1, IdleType, ZenonT(30) DEF Request, HandlerName, Step
<1>3. req' \in [Procs -> Request]
  BY <1>2, CarryType DEF TakeJob, TypeOK
<1> QED
  BY <1>1, <1>3 DEF TakeJob, rows, matchVars, resultVars, TypeOK

(* The policy answers with a status. *)
LEMMA CountedStatusType == CountedStatus \in ResultStatus
BY DEF CountedStatus, Evaluate, ResultStatus

(* finalizeResultStatus: what is decided from the read is a status. *)
LEMMA FinalizeReadType ==
  ASSUME TypeOK, NEW p \in Procs, FinalizeRead(p)
  PROVE  TypeOK'
<1>1. [req[p] EXCEPT !.pc = "finalizeCommit", !.status = CountedStatus,
                     !.prev = result.status, !.players = JoinedPlayers] \in Request
  <2>1. /\ JoinedPlayers \in SUBSET Users
        /\ result.status \in ResultStatus
        /\ req[p] \in Request
    BY DEF JoinedPlayers, TypeOK, ResultRow
  <2> QED
    BY <2>1, CountedStatusType DEF Request, Step
<1>2. req' \in [Procs -> Request]
  BY <1>1, CarryType, LeaveType DEF FinalizeRead, TypeOK
<1> QED
  BY <1>2 DEF FinalizeRead, rows, matchVars, resultVars, TypeOK

(* Marking the stats keeps them typed. *)
LEMMA MarkStatsType ==
  ASSUME TypeOK, NEW status \in ResultStatus
  PROVE  MarkStats(status) \in [Users -> StatRow]
BY DEF MarkStats, TypeOK, StatRow, NoStat

(* The announcement of a transition consists of messages. *)
LEMMA TransitionType ==
  ASSUME NEW r \in Request
  PROVE  Transition(r) \in SUBSET Message
<1>1. r.players \in SUBSET Accounts /\ Admins \in SUBSET Accounts
  BY DEF Request, Accounts
<1>2. /\ To("POWER_RECALCULATION", r.players) \in SUBSET Message
      /\ To("RESULT_CONFIRMED", r.players) \in SUBSET Message
      /\ To("RESULT_DISPUTED", Admins) \in SUBSET Message
  BY <1>1, ToType DEF MessageKind
<1> QED
  BY <1>2 DEF Transition

(* finalizeResultStatus: the three statuses written are statuses. *)
LEMMA FinalizeCommitType ==
  ASSUME TypeOK, NEW p \in Procs, FinalizeCommit(p)
  PROVE  TypeOK'
<1>1. req[p] \in Request /\ req[p].status \in ResultStatus
  BY DEF TypeOK, Request
<1>2. req' \in [Procs -> Request]
  <2>1. [req[p] EXCEPT !.pc = "enqueue"] \in Request
    BY <1>1 DEF Request, Step
  <2>2. Transition(req[p]) \in SUBSET Message
    BY <1>1, TransitionType
  <2> QED
    BY <2>1, <2>2, CarryType, ThenSendType DEF FinalizeCommit, TypeOK
<1>3. result' \in ResultRow
  BY <1>1 DEF FinalizeCommit, ResultRow, TypeOK
<1>4. stats' \in [Users -> StatRow]
  BY <1>1, MarkStatsType DEF FinalizeCommit
<1>5. matchStatus' \in MatchStatus
  BY <1>1 DEF FinalizeCommit, MatchStatusOf, MatchStatus, ResultStatus
<1> QED
  BY <1>2, <1>3, <1>4, <1>5 DEF FinalizeCommit, TypeOK

(* finalizeResultStatus: nothing changes when the result is gone. *)
LEMMA FinalizeFailsType ==
  ASSUME TypeOK, NEW p \in Procs, FinalizeFails(p)
  PROVE  TypeOK'
<1>1. req' \in [Procs -> Request]
  BY LeaveType DEF FinalizeFails, TypeOK
<1> QED
  BY <1>1 DEF FinalizeFails, rows, matchVars, resultVars, TypeOK

(* finalizeResultStatus: the id queued again is the id of the result read. *)
LEMMA EnqueueFinalizeType ==
  ASSUME TypeOK, NEW p \in Procs, EnqueueFinalize(p)
  PROVE  TypeOK'
<1>1. req[p] \in Request /\ req[p].rid \in 0 .. MaxResults
  BY DEF TypeOK, Request
<1>2. Transition(req[p]) \in SUBSET Message
  BY <1>1, TransitionType
<1>3. req' \in [Procs -> Request]
  BY <1>2, ThenSendType DEF EnqueueFinalize, TypeOK
<1>4. jobs' \in Seq(0 .. MaxResults)
  BY <1>1 DEF EnqueueFinalize, TypeOK
<1> QED
  BY <1>3, <1>4 DEF EnqueueFinalize, rows, matchVars, resultVars, TypeOK

(* adminResolveDispute: the winner named and the joined players are remembered. *)
LEMMA ResolveReadMatchType ==
  ASSUME TypeOK, NEW p \in Procs, ResolveReadMatch(p)
  PROVE  TypeOK'
<1>1. PICK winner \in Winners :
        Carry(p, [Idle EXCEPT !.op = "resolve", !.pc = "readResult", !.winner = winner,
                              !.players = JoinedPlayers])
  BY DEF ResolveReadMatch
<1>2. [Idle EXCEPT !.op = "resolve", !.pc = "readResult", !.winner = winner,
                   !.players = JoinedPlayers] \in Request
  <2>1. winner \in TeamSide /\ JoinedPlayers \in SUBSET Users
    BY InputsAssumption DEF JoinedPlayers
  <2> QED
    BY <2>1, IdleType DEF Request, HandlerName, Step
<1>3. req' \in [Procs -> Request]
  BY <1>1, <1>2, CarryType DEF TypeOK
<1> QED
  BY <1>3 DEF ResolveReadMatch, rows, matchVars, resultVars, TypeOK

(* adminResolveDispute: the id of the disputed result is remembered. *)
LEMMA ResolveReadResultType ==
  ASSUME TypeOK, NEW p \in Procs, ResolveReadResult(p)
  PROVE  TypeOK'
<1>1. \A factual \in BOOLEAN :
        [req[p] EXCEPT !.pc = "commit", !.rid = result.id, !.factual = factual] \in Request
  <2>1. /\ req[p] \in Request
        /\ result.id \in 0 .. MaxResults
        /\ result.version \in Versions
        /\ result.status \in ResultStatus
    BY DEF TypeOK, ResultRow
  <2> QED
    BY <2>1 DEF Request, Step
<1>2. req' \in [Procs -> Request]
  BY <1>1, CarryType, LeaveType DEF ResolveReadResult, TypeOK
<1> QED
  BY <1>2 DEF ResolveReadResult, rows, matchVars, resultVars, TypeOK

(* adminResolveDispute: the resolved result is typed, its version raised or kept. *)
LEMMA ResolveCommitType ==
  ASSUME TypeOK, NEW p \in Procs, ResolveCommit(p)
  PROVE  TypeOK'
<1>1. req[p] \in Request
  BY DEF TypeOK
<1>2. req' \in [Procs -> Request]
  <2>1. PICK requester \in Accounts :
          ThenSend(p, To("POWER_RECALCULATION", req[p].players)
                        \cup To("RESULT_ADMIN_RESOLVED", req[p].players \ {requester}))
    BY DEF ResolveCommit
  <2>2. /\ req[p].players \in SUBSET Accounts
        /\ req[p].players \ {requester} \in SUBSET Accounts
    BY <1>1 DEF Request, Accounts
  <2>3. /\ To("POWER_RECALCULATION", req[p].players) \in SUBSET Message
        /\ To("RESULT_ADMIN_RESOLVED", req[p].players \ {requester}) \in SUBSET Message
    BY <2>2, ToType DEF MessageKind
  <2>4. To("POWER_RECALCULATION", req[p].players)
          \cup To("RESULT_ADMIN_RESOLVED", req[p].players \ {requester}) \in SUBSET Message
    BY <2>3
  <2> QED
    BY <2>1, <2>4, ThenSendType DEF TypeOK
<1>3. result' \in ResultRow
  <2>1. req[p].winner \in TeamSide \cup {NoTeam}
    BY <1>1 DEF Request
  <2>2. /\ result \in ResultRow
        /\ result.version \in 1 .. MaxVersion
    BY DEF TypeOK, ResultRow, Versions
  <2>3. (IF req[p].factual THEN result.version + 1 ELSE result.version) \in Versions
    BY <2>2, BoundsAssumption DEF ResolveCommit, Versions
  <2> QED
    BY <2>1, <2>2, <2>3 DEF ResolveCommit, ResultRow, ResultStatus
<1>4. stats' \in [Users -> StatRow]
  BY MarkStatsType DEF ResolveCommit, ResultStatus
<1>5. matchStatus' \in MatchStatus
  BY DEF ResolveCommit, MatchStatus
<1> QED
  BY <1>2, <1>3, <1>4, <1>5 DEF ResolveCommit, TypeOK

(* adminResolveDispute: a failed transaction changes no row. *)
LEMMA ResolveFailsType ==
  ASSUME TypeOK, NEW p \in Procs, ResolveFails(p)
  PROVE  TypeOK'
<1>1. req' \in [Procs -> Request]
  BY LeaveType DEF ResolveFails, TypeOK
<1> QED
  BY <1>1 DEF ResolveFails, rows, matchVars, resultVars, TypeOK

(* Sending a message moves it from the request to the outbox. *)
LEMMA AnnounceType ==
  ASSUME TypeOK, NEW p \in Procs, Announce(p)
  PROVE  TypeOK'
<1>1. req[p] \in Request /\ req[p].send \in SUBSET Message
  BY DEF TypeOK, Request
<1>2. PICK m \in req[p].send :
        /\ outbox' = outbox \cup {m}
        /\ Carry(p, IF req[p].send = {m} THEN Idle ELSE [req[p] EXCEPT !.send = @ \ {m}])
  BY DEF Announce
<1>3. (IF req[p].send = {m} THEN Idle ELSE [req[p] EXCEPT !.send = @ \ {m}]) \in Request
  BY <1>1, IdleType DEF Request
<1>4. req' \in [Procs -> Request] /\ outbox' \in SUBSET Message
  BY <1>1, <1>2, <1>3, CarryType DEF TypeOK
<1> QED
  BY <1>4 DEF Announce, rows, matchVars, resultVars, TypeOK

(* A handler that dies leaves the rows, and at most puts its job back. *)
LEMMA DieType ==
  ASSUME TypeOK, NEW p \in Procs, Die(p)
  PROVE  TypeOK'
<1>1. req' \in [Procs -> Request]
  BY LeaveType DEF Die, TypeOK
<1>2. jobs' \in Seq(0 .. MaxResults)
  <2>1. req[p].rid \in 0 .. MaxResults /\ jobs \in Seq(0 .. MaxResults)
    BY DEF TypeOK, Request
  <2>2. jobs' = jobs \/ jobs' = <<req[p].rid>> \o jobs
    BY DEF Die
  <2>3. <<req[p].rid>> \in Seq(0 .. MaxResults)
    BY <2>1
  <2>4. <<req[p].rid>> \o jobs \in Seq(0 .. MaxResults)
    BY <2>1, <2>3, ConcatProperties
  <2> QED
    BY <2>1, <2>2, <2>4
<1> QED
  BY <1>1, <1>2 DEF Die, rows, matchVars, resultVars, TypeOK

(* Every step, and stuttering, keeps the state typed. *)
LEMMA StepType ==
  ASSUME TypeOK, [Next]_vars
  PROVE  TypeOK'
<1>1. CASE UNCHANGED vars
  BY <1>1 DEF vars, rows, matchVars, resultVars, TypeOK
<1>2. ASSUME NEW p \in Procs, BeginMatchRequest(p) \/ ContinueMatchRequest(p)
      PROVE  TypeOK'
  BY <1>2, AddPlayersReadType, AddPlayersCommitType, UpdatePlayerReadType, UpdatePlayerCommitType,
     LockReadType, LockCommitType, ManualBalanceReadType, ManualBalanceCommitType,
     GenerateReadType, GenerateCommitType, AssignReadType, AssignCommitType, ReopenReadType,
     ReopenCommitType DEF BeginMatchRequest, ContinueMatchRequest
<1>3. ASSUME NEW p \in Procs, BeginResultRequest(p) \/ ContinueResultRequest(p)
      PROVE  TypeOK'
  BY <1>3, SubmitReadMatchType, SubmitReadResultType, SubmitCommitType, SubmitFailsType,
     ConfirmReadMatchType, ConfirmReadResultType, ConfirmRecordType, FinalizeReadType,
     FinalizeCommitType, FinalizeFailsType, EnqueueFinalizeType, ResolveReadMatchType,
     ResolveReadResultType, ResolveCommitType, ResolveFailsType, AnnounceType
     DEF BeginResultRequest, ContinueResultRequest
<1> QED
  BY <1>1, <1>2, <1>3, TakeJobType, DieType DEF Next, Continue

(***************************************************************************)
(* In every behaviour every row and every request in progress stays within *)
(* its type: no step of a handler stores a status, seat, version or job    *)
(* id outside the columns' ranges, whatever requests overlap.              *)
(***************************************************************************)
THEOREM TypeCorrect == Spec => []TypeOK
<1>1. Init => TypeOK
  BY InitType
<1>2. TypeOK /\ [Next]_vars => TypeOK'
  BY StepType
<1> QED
  BY <1>1, <1>2, PTL DEF Spec
=============================================================================
