---------------------------- MODULE LineupProofs ----------------------------
(***************************************************************************)
(* Proof of BalancedMeansSeated and CandidatesAssignable: every lineup     *)
(* that is stored, seated or about to be written is one of the same full   *)
(* roster, because no handler ever removes a player.                       *)
(*                                                                         *)
(* Proof of ViewsAddUp: what the history, the statistics, the leaderboard  *)
(* and the result screen show of a match follows from ResultInv and from   *)
(* every result naming a winner.                                           *)
(***************************************************************************)
EXTENDS MatchViews, InhouseMatchProofs

(* The players a lineup seats, and the lineup the players sit in. *)
SeatedBy(l) == {u \in Users : l[u] # NoSeat}
Sitting == [u \in Users |-> player[u].seat]

(* A lineup of exactly the players T, no two in one seat; and one on the lanes alone. *)
Arranges(l, T) == SeatedBy(l) = T /\ \A u, v \in T : l[u] = l[v] => u = v
OnLanes(l, T) == Arranges(l, T) /\ {l[u] : u \in T} = LaneSeats

Writing(p, op) == At(p, op, "commit")
LineupOps == {"manualBalance", "assign", "generate"}

(* Nobody has decided who plays: no lineup anywhere. *)
Undecided ==
  /\ matchStatus # "BALANCED"
  /\ \A u \in Users : player[u].seat = NoSeat
  /\ \A n \in 1 .. MaxCandidates : candidates[n] = NoLineup
  /\ \A p \in Procs, op \in LineupOps : ~ Writing(p, op)

(* Every lineup, wherever it is, is one of the players T of a full roster. *)
Agreed(T) ==
  /\ T \subseteq Roster /\ Cardinality(T) = MatchSize
  /\ matchStatus = "BALANCED" => Arranges(Sitting, T)
  /\ \A u \in Users \ T : player[u].seat = NoSeat
  /\ \A n \in 1 .. MaxCandidates : candidates[n] # NoLineup => OnLanes(candidates[n], T)
  /\ \A p \in Procs :
       /\ Writing(p, "manualBalance") \/ Writing(p, "assign") => Arranges(req[p].seats, T)
       /\ Writing(p, "generate") => req[p].players = T

LineupInv == Undecided \/ \E T \in SUBSET Users : Agreed(T)
-----------------------------------------------------------------------------
(* Lineups that fill the seats of the match. *)

(* There are as many lane seats as a match has players. *)
LEMMA LaneSeatsCount == IsFiniteSet(LaneSeats) /\ Cardinality(LaneSeats) = MatchSize
<1> DEFINE Side(t) == {t} \X Lanes
<1>1. ASSUME NEW t
      PROVE  IsFiniteSet(Side(t)) /\ Cardinality(Side(t)) = Cardinality(Lanes)
  <2> DEFINE f == [lane \in Lanes |-> <<t, lane>>]
  <2>1. f \in [Lanes -> Side(t)] /\ \A lane \in Lanes : f[lane] = <<t, lane>>
    OBVIOUS
  <2>2. \A a, b \in Lanes : f[a] = f[b] => a = b
    BY <2>1
  <2>3. \A s \in Side(t) : \E lane \in Lanes : f[lane] = s
    BY <2>1
  <2> HIDE DEF f, Side
  <2>4. f \in Bijection(Lanes, Side(t))
    BY <2>1, <2>2, <2>3 DEF Bijection, Injection, Surjection, IsInjective
  <2>5. ExistsBijection(Lanes, Side(t))
    BY <2>4 DEF ExistsBijection
  <2> QED
    BY <2>5, LanesAssumption, FS_Bijection
<1>2. LaneSeats = Side("A") \cup Side("B") /\ Side("A") \cap Side("B") = {}
  BY DEF LaneSeats, TeamSide
<1> HIDE DEF Side
<1>3. /\ IsFiniteSet(LaneSeats)
      /\ Cardinality(LaneSeats) = Cardinality(Side("A")) + Cardinality(Side("B")) - Cardinality({})
  BY <1>1, <1>2, FS_Union
<1> QED
  BY <1>1, <1>3, FS_EmptySet, MatchSizePositive DEF MatchSize

(* A lineup that is ready for a result seats no two of its players in one seat. *)
LEMMA ReadyArranges ==
  ASSUME NEW players \in SUBSET Users, NEW seats \in Lineup, ResultInputReady(players, seats)
  PROVE  \A u, v \in players : seats[u] = seats[v] => u = v
<1> DEFINE f == [u \in players |-> seats[u]]
<1>1. {seats[u] : u \in players} = LaneSeats /\ Cardinality(players) = MatchSize
  BY ReadyLineup
<1>2. f \in Surjection(players, LaneSeats)
  BY <1>1 DEF Surjection
<1>3. IsFiniteSet(players)
  BY UsersAssumption, FS_Subset
<1>4. f \in Injection(players, LaneSeats)
  BY <1>1, <1>2, <1>3, LaneSeatsCount, FS_Surjection
<1>5. \A u \in players : f[u] = seats[u]
  OBVIOUS
<1> HIDE DEF f
<1>6. \A u, v \in players : f[u] = f[v] => u = v
  BY <1>4 DEF Injection, IsInjective
<1> QED
  BY <1>5, <1>6

(* What a manual balance writes seats exactly the players it was made for. *)
LEMMA ManualArranges ==
  ASSUME NEW players \in SUBSET Users, NEW l \in ManualLineups(players)
  PROVE  Arranges(l, players)
BY DEF ManualLineups, Arranges, SeatedBy

(* What the algorithm proposes for a full roster takes every lane of each team. *)
LEMMA CandidateOnLanes ==
  ASSUME NEW players \in SUBSET Users, Cardinality(players) = MatchSize,
         NEW l \in CandidateLineups(players)
  PROVE  OnLanes(l, players)
<1> DEFINE f == [u \in players |-> l[u]]
<1>1. l \in ManualLineups(players) /\ l \in Lineup
  BY DEF CandidateLineups, ManualLineups
<1>2. Arranges(l, players)
  BY <1>1, ManualArranges
<1>3. ASSUME NEW u \in players
      PROVE  l[u] \in LaneSeats
  <2>1. l[u] \in Seats /\ l[u][2] \in Lanes
    BY <1>1 DEF ManualLineups, Lineup, CandidateLineups
  <2> QED
    BY <2>1 DEF Seats, LaneSeats
<1>4. f \in Injection(players, LaneSeats)
  <2>1. f \in [players -> LaneSeats] /\ \A u \in players : f[u] = l[u]
    BY <1>3
  <2>2. \A u, v \in players : f[u] = f[v] => u = v
    BY <1>2, <2>1 DEF Arranges
  <2> HIDE DEF f
  <2> QED
    BY <2>1, <2>2 DEF Injection, IsInjective
<1>5. f \in Surjection(players, LaneSeats)
  BY <1>4, LaneSeatsCount, FS_Injection
<1>6. {l[u] : u \in players} = LaneSeats
  BY <1>3, <1>5 DEF Surjection
<1> QED
  BY <1>2, <1>6 DEF OnLanes

(* A full roster that holds the players of another full roster is the same. *)
LEMMA FullRoster ==
  ASSUME NEW T \in SUBSET Users, T \subseteq Roster, Cardinality(T) = MatchSize,
         Cardinality(Roster) = MatchSize
  PROVE  T = Roster
BY ComparableFullRosters DEF Roster

-----------------------------------------------------------------------------
(* What a step does to lineups. *)

(* A lineup in a request is put there by one of three reads. *)
LEMMA LineupsTaken ==
  ASSUME TypeOK, NEW p \in Procs,
         BeginMatchRequest(p) \/ BeginResultRequest(p) \/ Continue(p) \/ Die(p)
  PROVE  /\ \A q \in Procs \ {p} : req'[q] = req[q]
         /\ \/ \A op \in LineupOps : ~ Writing(p, op)'
            \/ ManualBalanceRead(p) \/ GenerateRead(p) \/ AssignRead(p)
<1> DEFINE Moved == /\ \A q \in Procs \ {p} : req'[q] = req[q]
                    /\ \A op \in LineupOps : ~ Writing(p, op)'
<1>1. ASSUME NEW r, Carry(p, r), r.op \notin LineupOps \/ r.pc # "commit"
      PROVE  Moved
  BY <1>1 DEF TypeOK, Carry, Writing, At
<1>2. ASSUME Leave(p)
      PROVE  Moved
  <2>1. Idle.op = "idle"
    BY DEF Idle
  <2> QED
    BY <1>1, <1>2, <2>1 DEF Leave, LineupOps
<1>3. ASSUME NEW messages, ThenSend(p, messages)
      PROVE  Moved
  <2>1. ASSUME NEW send,
               Carry(p, [Idle EXCEPT !.op = req[p].op, !.pc = "announce", !.rid = req[p].rid,
                                     !.send = send])
        PROVE  Moved
    BY <1>1, <2>1 DEF Idle
  <2> QED
    BY <1>2, <1>3, <2>1 DEF ThenSend, Leave
<1>4. ASSUME AddPlayersRead(p) \/ UpdatePlayerRead(p) \/ LockRead(p) \/ ReopenRead(p)
             \/ SubmitReadMatch(p) \/ ConfirmReadMatch(p) \/ ResolveReadMatch(p) \/ TakeJob(p)
      PROVE  Moved
  <2>1. ASSUME AddPlayersRead(p) PROVE Moved
    BY <1>1, <2>1 DEF AddPlayersRead, Idle, LineupOps
  <2>2. ASSUME UpdatePlayerRead(p) PROVE Moved
    <3>1. PICK u, rsvp, up, down :
            Carry(p, [Idle EXCEPT !.op = "updatePlayer", !.pc = "commit", !.who = u,
                                  !.rsvp = rsvp, !.captains = up, !.demoted = down,
                                  !.unlock = matchStatus = "LOCKED"])
      BY <2>2, Zenon DEF UpdatePlayerRead
    <3>2. ASSUME NEW unlock
          PROVE  [Idle EXCEPT !.op = "updatePlayer", !.pc = "commit", !.who = u,
                              !.rsvp = rsvp, !.captains = up, !.demoted = down,
                              !.unlock = unlock].op = "updatePlayer"
      BY DEF Idle
    <3>3. "updatePlayer" \notin LineupOps
      BY DEF LineupOps
    <3> QED
      BY <1>1, <3>1, <3>2, <3>3, ZenonT(30)
  <2>3. ASSUME LockRead(p) \/ ReopenRead(p) PROVE Moved
    BY <1>1, <2>3 DEF LockRead, ReopenRead, Idle, LineupOps
  <2>4. ASSUME SubmitReadMatch(p) \/ ConfirmReadMatch(p) PROVE Moved
    BY <1>1, <2>4 DEF SubmitReadMatch, ConfirmReadMatch, Idle, LineupOps
  <2>5. ASSUME ResolveReadMatch(p) \/ TakeJob(p) PROVE Moved
    BY <1>1, <2>5 DEF ResolveReadMatch, TakeJob, Idle, LineupOps
  <2> QED
    BY <1>4, <2>1, <2>2, <2>3, <2>4, <2>5
<1>5. ASSUME ContinueMatchRequest(p) \/ Die(p) \/ SubmitFails(p) \/ FinalizeFails(p)
             \/ ResolveFails(p)
      PROVE  Moved
  BY <1>2, <1>5 DEF ContinueMatchRequest, AddPlayersCommit, UpdatePlayerCommit, LockCommit,
     ManualBalanceCommit, GenerateCommit, AssignCommit, ReopenCommit, Die, SubmitFails,
     FinalizeFails, ResolveFails
<1>6. ASSUME SubmitReadResult(p) \/ ConfirmReadResult(p) \/ FinalizeRead(p) \/ ResolveReadResult(p)
             \/ ConfirmRecord(p)
      PROVE  Moved
  <2> USE DEF LineupOps, At
  <2>0. req[p] \in Request
    BY DEF TypeOK
  <2>1. ASSUME SubmitReadResult(p) PROVE Moved
    BY <1>1, <1>2, <2>0, <2>1 DEF SubmitReadResult, Request
  <2>2. ASSUME ConfirmReadResult(p) PROVE Moved
    BY <1>1, <1>2, <2>0, <2>2 DEF ConfirmReadResult, Request
  <2>3. ASSUME FinalizeRead(p) PROVE Moved
    BY <1>1, <1>2, <2>0, <2>3 DEF FinalizeRead, Request
  <2>4. ASSUME ResolveReadResult(p) PROVE Moved
    BY <1>1, <1>2, <2>0, <2>4 DEF ResolveReadResult, Request
  <2>5. ASSUME ConfirmRecord(p) PROVE Moved
    BY <1>1, <1>2, <2>5 DEF ConfirmRecord, Idle
  <2> QED
    BY <1>6, <2>1, <2>2, <2>3, <2>4, <2>5
<1>7. ASSUME SubmitCommit(p) \/ EnqueueFinalize(p) \/ ResolveCommit(p)
      PROVE  Moved
  BY <1>3, <1>7 DEF SubmitCommit, EnqueueFinalize, ResolveCommit
<1>8. ASSUME FinalizeCommit(p) \/ Announce(p)
      PROVE  Moved
  <2>0. req[p] \in Request
    BY DEF TypeOK
  <2>1. ASSUME FinalizeCommit(p) PROVE Moved
    BY <1>1, <1>3, <2>0, <2>1 DEF FinalizeCommit, Request
  <2>2. ASSUME Announce(p) PROVE Moved
    <3>1. PICK r : Carry(p, r) /\ (r = Idle \/ r.pc = "announce")
      BY <2>0, <2>2 DEF Announce, Request
    <3> QED
      BY <1>1, <3>1 DEF Idle
  <2> QED
    BY <1>8, <2>1, <2>2
<1>9. ASSUME ManualBalanceRead(p) \/ GenerateRead(p) \/ AssignRead(p)
      PROVE  \A q \in Procs \ {p} : req'[q] = req[q]
  BY <1>9 DEF ManualBalanceRead, GenerateRead, AssignRead, Carry, TypeOK
<1> QED
  BY <1>4, <1>5, <1>6, <1>7, <1>8, <1>9
     DEF BeginMatchRequest, BeginResultRequest, Continue, ContinueResultRequest

(* No seat is taken and no candidate added; a match is not BALANCED anew. *)
KeepsLineups ==
  /\ matchStatus' = "BALANCED" =>
       matchStatus = "BALANCED" /\ \A u \in Roster : player'[u].seat = player[u].seat
  /\ \A u \in Users : player'[u].seat \in {player[u].seat, NoSeat}
  /\ \A n \in 1 .. MaxCandidates : candidates'[n] \in {candidates[n], NoLineup}

(* Three transactions write lineups, all others keep or clear what there is. *)
LEMMA LineupsWritten ==
  ASSUME TypeOK, NEW p \in Procs,
         BeginMatchRequest(p) \/ BeginResultRequest(p) \/ Continue(p) \/ Die(p)
  PROVE  KeepsLineups \/ ManualBalanceCommit(p) \/ AssignCommit(p) \/ GenerateCommit(p)
<1>1. ASSUME UNCHANGED matchVars
      PROVE  KeepsLineups
  BY <1>1 DEF matchVars, KeepsLineups
<1>2. ASSUME BeginMatchRequest(p) \/ BeginResultRequest(p) \/ TakeJob(p) \/ Die(p)
      PROVE  UNCHANGED matchVars
  BY <1>2 DEF BeginMatchRequest, BeginResultRequest, AddPlayersRead,
     UpdatePlayerRead, LockRead, ManualBalanceRead, GenerateRead, AssignRead, ReopenRead,
     SubmitReadMatch, ConfirmReadMatch, ResolveReadMatch, TakeJob, Die, rows
<1>3. ASSUME SubmitReadResult(p) \/ SubmitFails(p) \/ ConfirmReadResult(p) \/ ConfirmRecord(p)
             \/ FinalizeRead(p) \/ FinalizeFails(p) \/ EnqueueFinalize(p)
             \/ ResolveReadResult(p) \/ ResolveFails(p) \/ Announce(p)
      PROVE  UNCHANGED matchVars
  BY <1>3 DEF SubmitReadResult, SubmitFails, ConfirmReadResult, ConfirmRecord, FinalizeRead,
     FinalizeFails, EnqueueFinalize, ResolveReadResult, ResolveFails, Announce, rows
<1>4. ASSUME SubmitCommit(p) \/ FinalizeCommit(p) \/ ResolveCommit(p)
      PROVE  KeepsLineups
  BY <1>4 DEF SubmitCommit, FinalizeCommit, ResolveCommit, MatchStatusOf, KeepsLineups,
     TypeOK, Request, ResultStatus
<1>5. ASSUME AddPlayersCommit(p)
      PROVE  KeepsLineups
  <2>1. UNCHANGED <<matchStatus, candidates>>
    BY <1>5 DEF AddPlayersCommit
  <2>2. \A u \in Users : /\ player'[u].seat \in {player[u].seat, NoSeat}
                         /\ u \in Roster => player'[u].seat = player[u].seat
    BY <1>5 DEF AddPlayersCommit
  <2> QED
    BY <2>1, <2>2 DEF KeepsLineups, Roster
<1>6. ASSUME UpdatePlayerCommit(p)
      PROVE  KeepsLineups
  <2>1. \A u \in Users : player'[u].seat = player[u].seat
    BY <1>6 DEF UpdatePlayerCommit, UpdatedRow, TypeOK, PlayerRow
  <2>2. \/ UNCHANGED <<matchStatus, candidates>>
        \/ matchStatus' = "RECRUITING" /\ candidates' = NoCandidates
    BY <1>6 DEF UpdatePlayerCommit
  <2> QED
    BY <2>1, <2>2 DEF NoCandidates, KeepsLineups, Roster
<1>7. ASSUME LockCommit(p)
      PROVE  KeepsLineups
  BY <1>7 DEF LockCommit, KeepsLineups, TypeOK, PlayerRow
<1>8. ASSUME ReopenCommit(p)
      PROVE  KeepsLineups
  <2>1. CASE UNCHANGED matchVars
    BY <1>1, <2>1
  <2>2. CASE /\ player' = [u \in Users |->
                  IF u \in Roster
                    THEN [player[u] EXCEPT !.seat = NoSeat, !.status = "ACCEPTED"] ELSE player[u]]
             /\ matchStatus' = "RECRUITING" /\ candidates' = NoCandidates
    BY <2>2 DEF KeepsLineups, NoCandidates, TypeOK, PlayerRow
  <2> QED
    BY <1>8, <2>1, <2>2 DEF ReopenCommit
<1> QED
  BY <1>1, <1>2, <1>3, <1>4, <1>5, <1>6, <1>7, <1>8
     DEF Continue, ContinueMatchRequest, ContinueResultRequest
-----------------------------------------------------------------------------
(* The invariant. *)

(* A new match has no lineup; a balanced one has the lineup of its full roster. *)
LEMMA InitLineups == Init => LineupInv
<1>1. ASSUME Start
      PROVE  /\ \A n \in 1 .. MaxCandidates : candidates[n] = NoLineup
             /\ \A p \in Procs : req[p].op = "idle"
  BY <1>1 DEF Start, NoCandidates, Idle
<1>2. ASSUME CreatedInit
      PROVE  Undecided
  BY <1>1, <1>2 DEF CreatedInit, CreatedMatch, NoPlayer, Undecided, Writing, At, LineupOps
<1>3. ASSUME BalancedInit
      PROVE  \E T \in SUBSET Users : Agreed(T)
  <2>1. PICK lineup \in Lineup, captains \in SUBSET Users :
          LET players == {u \in Users : lineup[u] # NoSeat}
          IN  /\ Cardinality(players) = MatchSize
              /\ ResultInputReady(players, lineup)
              /\ player = [u \in Users |->
                   IF u \in players
                     THEN [status |-> "LOCKED_IN", seat |-> lineup[u], captain |-> u \in captains]
                     ELSE NoPlayer]
    BY <1>3 DEF BalancedInit, BalancedMatch
  <2> DEFINE T == {u \in Users : lineup[u] # NoSeat}
  <2>2. /\ Roster = T
        /\ \A u \in Users : player[u].seat = lineup[u]
    BY <2>1 DEF Roster, NoPlayer
  <2>3. \A u, v \in T : lineup[u] = lineup[v] => u = v
    BY <2>1, ReadyArranges
  <2>4. Arranges(Sitting, T)
    BY <2>2, <2>3 DEF Arranges, SeatedBy, Sitting
  <2>5. \A u \in Users \ T : player[u].seat = NoSeat
    BY <2>2
  <2>6. Cardinality(T) = MatchSize
    BY <2>1
  <2> HIDE DEF T
  <2>7. Agreed(T)
    BY <1>1, <1>3, <2>2, <2>4, <2>5, <2>6 DEF BalancedInit, Agreed, Writing, At
  <2>8. T \in SUBSET Users
    BY DEF T
  <2> QED
    BY <2>7, <2>8
<1> QED
  BY <1>2, <1>3 DEF Init, LineupInv

(* Without a lineup anywhere, only the reads of a full roster bring one up. *)
LEMMA UndecidedPreserved ==
  ASSUME TypeOK, Undecided, NEW p \in Procs,
         BeginMatchRequest(p) \/ BeginResultRequest(p) \/ Continue(p) \/ Die(p)
  PROVE  LineupInv'
<1>1. ~ AssignRead(p) /\ ~ ManualBalanceCommit(p) /\ ~ AssignCommit(p) /\ ~ GenerateCommit(p)
  BY DEF Undecided, AssignRead, ManualBalanceCommit, AssignCommit, GenerateCommit, Writing, LineupOps
<1>2. KeepsLineups
  BY <1>1, LineupsWritten
<1>3. /\ matchStatus' # "BALANCED"
      /\ \A u \in Users : player'[u].seat = NoSeat
      /\ \A n \in 1 .. MaxCandidates : candidates'[n] = NoLineup
  BY <1>2 DEF KeepsLineups, Undecided
<1>4. \A q \in Procs \ {p} : req'[q] = req[q]
  BY LineupsTaken
<1>5. CASE \A op \in LineupOps : ~ Writing(p, op)'
  <2>1. Undecided'
    BY <1>3, <1>4, <1>5 DEF Undecided, Writing, At
  <2> QED
    BY <2>1 DEF LineupInv
<1>6. CASE ManualBalanceRead(p) \/ GenerateRead(p)
  <2>. PICK T \in SUBSET Users : T = Roster
    BY DEF Roster
  <2>0. UNCHANGED matchVars /\ Roster' = T /\ T \in SUBSET Users /\ Cardinality(T) = MatchSize
    BY <1>6 DEF ManualBalanceRead, GenerateRead, rows, matchVars, Roster
  <2>1. \A q \in Procs \ {p}, op \in LineupOps : ~ Writing(q, op)'
    BY <1>4 DEF Undecided, Writing, At
  <2>2. /\ Writing(p, "manualBalance")' \/ Writing(p, "assign")' => Arranges(req'[p].seats, T)
        /\ Writing(p, "generate")' => req'[p].players = T
    <3>1. CASE ManualBalanceRead(p)
      <4>1. PICK l \in ManualLineups(T) :
              Carry(p, [Idle EXCEPT !.op = "manualBalance", !.pc = "commit", !.seats = l])
        BY <3>1 DEF ManualBalanceRead
      <4>2. req'[p].op = "manualBalance" /\ req'[p].seats = l
        BY <4>1 DEF Carry, Idle, TypeOK
      <4> QED
        BY <2>0, <4>1, <4>2, ManualArranges DEF Writing, At
    <3>2. CASE GenerateRead(p)
      BY <3>2 DEF GenerateRead, Carry, Idle, Writing, At, TypeOK
    <3> QED
      BY <1>6, <3>1, <3>2
  <2>3. Agreed(T)'
    <3>1. \A q \in Procs :
            /\ (Writing(q, "manualBalance") \/ Writing(q, "assign"))' => Arranges(req'[q].seats, T)
            /\ Writing(q, "generate")' => req'[q].players = T
      BY <2>1, <2>2 DEF LineupOps
    <3>2. T \subseteq Roster' /\ Cardinality(T) = MatchSize
      BY <2>0
    <3> QED
      BY <1>3, <3>1, <3>2 DEF Agreed
  <2> QED
    BY <2>0, <2>3 DEF LineupInv
<1> QED
  BY <1>1, <1>5, <1>6, LineupsTaken

(* Once the players of a full roster are agreed on, they stay so. *)
LEMMA AgreedPreserved ==
  ASSUME TypeOK, NEW T \in SUBSET Users, Agreed(T), NEW p \in Procs,
         BeginMatchRequest(p) \/ BeginResultRequest(p) \/ Continue(p) \/ Die(p)
  PROVE  Agreed(T)'
<1>1. T \subseteq Roster' /\ Cardinality(T) = MatchSize
  <2>1. Next
    BY DEF Next
  <2> QED
    BY <2>1, RosterGrows DEF Agreed
<1>2. \A q \in Procs :
        /\ (Writing(q, "manualBalance") \/ Writing(q, "assign"))' => Arranges(req'[q].seats, T)
        /\ Writing(q, "generate")' => req'[q].players = T
  <2>1. \A q \in Procs \ {p} : req'[q] = req[q]
    BY LineupsTaken
  <2>2. ASSUME NEW q \in Procs \ {p}
        PROVE  /\ (Writing(q, "manualBalance") \/ Writing(q, "assign"))' => Arranges(req'[q].seats, T)
               /\ Writing(q, "generate")' => req'[q].players = T
    BY <2>1 DEF Agreed, Writing, At
  <2>3. CASE \A op \in LineupOps : ~ Writing(p, op)'
    BY <2>2, <2>3 DEF LineupOps
  <2>4. ASSUME ManualBalanceRead(p)
        PROVE  req'[p].op = "manualBalance" /\ Arranges(req'[p].seats, T)
    <3>1. PICK l \in ManualLineups(Roster) :
            Carry(p, [Idle EXCEPT !.op = "manualBalance", !.pc = "commit", !.seats = l])
      BY <2>4 DEF ManualBalanceRead
    <3>2. req'[p].op = "manualBalance" /\ req'[p].seats = l
      BY <3>1 DEF Carry, Idle, TypeOK
    <3>3. T = Roster
      BY <2>4, FullRoster DEF ManualBalanceRead, Agreed
    <3> QED
      BY <3>1, <3>2, <3>3, ManualArranges
  <2>5. ASSUME GenerateRead(p)
        PROVE  req'[p].op = "generate" /\ req'[p].players = T
    <3>1. T = Roster
      BY <2>5, FullRoster DEF GenerateRead, Agreed
    <3> QED
      BY <2>5, <3>1 DEF GenerateRead, Carry, Idle, TypeOK
  <2>6. ASSUME AssignRead(p)
        PROVE  req'[p].op = "assign" /\ Arranges(req'[p].seats, T)
    <3>1. PICK n \in 1 .. MaxCandidates :
            /\ candidates[n] # NoLineup
            /\ Carry(p, [Idle EXCEPT !.op = "assign", !.pc = "commit", !.candidate = n,
                                     !.seats = candidates[n]])
      BY <2>6 DEF AssignRead
    <3>2. req'[p].op = "assign" /\ req'[p].seats = candidates[n]
      BY <3>1 DEF Carry, Idle, TypeOK
    <3> QED
      BY <3>1, <3>2 DEF Agreed, OnLanes
  <2> QED
    BY <2>2, <2>3, <2>4, <2>5, <2>6, LineupsTaken DEF Writing, At
<1>3. /\ matchStatus' = "BALANCED" => Arranges(Sitting', T)
      /\ \A u \in Users \ T : player'[u].seat = NoSeat
      /\ \A n \in 1 .. MaxCandidates : candidates'[n] # NoLineup => OnLanes(candidates'[n], T)
  <2>1. CASE KeepsLineups
    <3>1. \A u \in Users \ T : player'[u].seat = NoSeat
      BY <2>1 DEF KeepsLineups, Agreed
    <3>2. \A n \in 1 .. MaxCandidates : candidates'[n] # NoLineup => OnLanes(candidates'[n], T)
      BY <2>1 DEF KeepsLineups, Agreed
    <3>3. ASSUME matchStatus' = "BALANCED"
          PROVE  Arranges(Sitting', T)
      <4>1. Arranges(Sitting, T) /\ \A u \in T : player'[u].seat = player[u].seat
        BY <2>1, <3>3 DEF KeepsLineups, Agreed
      <4>2. \A u \in Users : Sitting'[u] = player'[u].seat /\ Sitting[u] = player[u].seat
        BY DEF Sitting
      <4> QED
        BY <3>1, <4>1, <4>2 DEF Arranges, SeatedBy
    <3> QED
      BY <3>1, <3>2, <3>3
  <2>2. CASE ManualBalanceCommit(p) \/ AssignCommit(p)
    <3> DEFINE l == req[p].seats
    <3>1. player' = Seated(l) /\ UNCHANGED candidates
      BY <2>2 DEF ManualBalanceCommit, AssignCommit
    <3>2. Arranges(l, T)
      BY <2>2 DEF ManualBalanceCommit, AssignCommit, Agreed, Writing
    <3> HIDE DEF l
    <3>3. \A u \in Users : player'[u].seat = IF u \in T THEN l[u] ELSE player[u].seat
      <4>1. ASSUME NEW u \in Users
            PROVE  /\ u \in T <=> l[u] # NoSeat
                   /\ player[u] \in PlayerRow
                   /\ player'[u] = IF l[u] = NoSeat THEN player[u]
                                   ELSE [player[u] EXCEPT !.seat = l[u], !.status = "LOCKED_IN"]
        BY <3>1, <3>2 DEF Seated, Arranges, SeatedBy, TypeOK
      <4> QED
        BY <4>1 DEF PlayerRow
    <3>4. \A u \in Users \ T : player'[u].seat = NoSeat
      BY <3>3 DEF Agreed
    <3>5. \A u \in Users : Sitting'[u] = player'[u].seat
      BY DEF Sitting
    <3>6. Arranges(Sitting', T)
      BY <3>2, <3>3, <3>4, <3>5 DEF Arranges, SeatedBy
    <3> QED
      BY <3>1, <3>4, <3>6 DEF Agreed
  <2>3. CASE GenerateCommit(p)
    <3>1. UNCHANGED <<matchStatus, player>> /\ UNCHANGED Sitting
      BY <2>3 DEF GenerateCommit, Sitting
    <3>2. req[p].players = T
      BY <2>3 DEF GenerateCommit, Agreed, Writing
    <3>3. \A n \in 1 .. MaxCandidates : candidates'[n] \in CandidateLineups(T) \cup {NoLineup}
      BY <2>3, <3>2, BoundsAssumption DEF GenerateCommit
    <3> QED
      BY <1>1, <3>1, <3>3, CandidateOnLanes DEF Agreed
  <2> QED
    BY <2>1, <2>2, <2>3, LineupsWritten
<1> QED
  BY <1>1, <1>2, <1>3 DEF Agreed

(* LineupInv is inductive once the state is typed. *)
LEMMA LineupsPreserved == TypeOK /\ LineupInv /\ [Next]_vars => LineupInv'
<1> SUFFICES ASSUME TypeOK, LineupInv, [Next]_vars PROVE LineupInv'
  OBVIOUS
<1>1. CASE UNCHANGED vars
  <2>1. UNCHANGED <<Undecided, Roster, Sitting>>
    BY <1>1 DEF vars, rows, matchVars, Undecided, Roster, Sitting, Writing, At
  <2>2. ASSUME NEW T \in SUBSET Users, Agreed(T)
        PROVE  Agreed(T)'
    BY <1>1, <2>1, <2>2 DEF vars, rows, matchVars, Agreed, Writing, At
  <2> QED
    BY <2>1, <2>2 DEF LineupInv
<1>2. ASSUME NEW p \in Procs,
             BeginMatchRequest(p) \/ BeginResultRequest(p) \/ Continue(p) \/ Die(p)
      PROVE  LineupInv'
  <2>1. ASSUME NEW T \in SUBSET Users, Agreed(T)
        PROVE  Agreed(T)'
    BY <1>2, <2>1, AgreedPreserved
  <2> QED
    BY <1>2, <2>1, UndecidedPreserved DEF LineupInv
<1> QED
  BY <1>1, <1>2 DEF Next

(***************************************************************************)
(* In every behaviour all lineups, stored, seated or carried by a request, *)
(* are of one full roster: late added players never get into one.          *)
(***************************************************************************)
THEOREM LineupInvariance == Spec => []LineupInv
<1>1. Init => TypeOK /\ LineupInv
  BY InitType, InitLineups
<1>2. (TypeOK /\ LineupInv) /\ [Next]_vars => (TypeOK /\ LineupInv)'
  BY StepType, LineupsPreserved
<1> QED
  BY <1>1, <1>2, PTL DEF Spec

(* A BALANCED match always seats a full lineup, no two players in one seat. *)
THEOREM BalancedIsSeated == Spec => []BalancedMeansSeated
<1>1. LineupInv => BalancedMeansSeated
  <2> SUFFICES ASSUME LineupInv, matchStatus = "BALANCED"
               PROVE  LET seated == {u \in Users : player[u].seat # NoSeat}
                      IN  /\ Cardinality(seated) = MatchSize
                          /\ \A u, v \in seated : player[u].seat = player[v].seat => u = v
    BY DEF BalancedMeansSeated
  <2>1. PICK T \in SUBSET Users : Agreed(T)
    BY DEF LineupInv, Undecided
  <2>2. Arranges(Sitting, T) /\ Cardinality(T) = MatchSize
    BY <2>1 DEF Agreed
  <2>3. \A u \in Users : Sitting[u] = player[u].seat
    BY DEF Sitting
  <2>4. {u \in Users : player[u].seat # NoSeat} = T
    BY <2>2, <2>3 DEF Arranges, SeatedBy
  <2> QED
    BY <2>2, <2>3, <2>4 DEF Arranges
<1> QED
  BY <1>1, LineupInvariance, PTL

(* A stored candidate can always be assigned: its players are in the match, one on each lane. *)
THEOREM CandidatesStayAssignable == Spec => []CandidatesAssignable
<1>1. LineupInv => CandidatesAssignable
  <2> SUFFICES ASSUME LineupInv, NEW n \in 1 .. MaxCandidates, candidates[n] # NoLineup
               PROVE  LET seated == {u \in Users : candidates[n][u] # NoSeat}
                      IN  /\ seated \subseteq Roster
                          /\ {candidates[n][u] : u \in seated} = LaneSeats
                          /\ Cardinality(seated) = MatchSize
    BY DEF CandidatesAssignable
  <2>1. PICK T \in SUBSET Users : Agreed(T)
    BY DEF LineupInv, Undecided
  <2>2. OnLanes(candidates[n], T) /\ T \subseteq Roster /\ Cardinality(T) = MatchSize
    BY <2>1 DEF Agreed
  <2>3. {u \in Users : candidates[n][u] # NoSeat} = T
    BY <2>2 DEF OnLanes, Arranges, SeatedBy
  <2> QED
    BY <2>2, <2>3 DEF OnLanes
<1> QED
  BY <1>1, LineupInvariance, PTL

-----------------------------------------------------------------------------
(* What the views show. *)

(* A submission or resolution that is not over yet. *)
NamesWinner(p) == req[p].op \in {"submit", "resolve"} /\ req[p].pc \in {"readResult", "commit"}

(* Every result, and every request that may write one, names a team; no match is closed. *)
WinnerInv ==
  /\ matchStatus # "CLOSED"
  /\ result.id # 0 => result.winner \in TeamSide
  /\ \A p \in Procs : NamesWinner(p) => req[p].winner \in TeamSide

-----------------------------------------------------------------------------
(* A request that names a winner has read it from its body, or keeps it. *)
LEMMA WinnersTaken ==
  ASSUME TypeOK, WinnerInv, NEW p \in Procs,
         BeginMatchRequest(p) \/ BeginResultRequest(p) \/ Continue(p) \/ Die(p)
  PROVE  \A q \in Procs : NamesWinner(q)' => req'[q].winner \in TeamSide
<1> DEFINE Safe(r) == \/ r.op \notin {"submit", "resolve"}
                      \/ r.pc \notin {"readResult", "commit"}
                      \/ r.winner \in TeamSide
           Goal == \A q \in Procs : NamesWinner(q)' => req'[q].winner \in TeamSide
<1>1. ASSUME NEW r, Carry(p, r), Safe(r)
      PROVE  Goal
  BY <1>1 DEF TypeOK, WinnerInv, NamesWinner, Carry
<1>2. ASSUME Leave(p)
      PROVE  Goal
  BY <1>1, <1>2 DEF Leave, Idle
<1>3. ASSUME NEW messages, ThenSend(p, messages)
      PROVE  Goal
  <2>1. ASSUME NEW send,
               Carry(p, [Idle EXCEPT !.op = req[p].op, !.pc = "announce", !.rid = req[p].rid,
                                     !.send = send])
        PROVE  Goal
    BY <1>1, <2>1 DEF Idle
  <2> QED
    BY <1>2, <1>3, <2>1 DEF ThenSend, Leave
<1>4. ASSUME BeginMatchRequest(p) \/ ConfirmReadMatch(p) \/ TakeJob(p)
      PROVE  Goal
  <2>1. ASSUME AddPlayersRead(p) PROVE Goal
    BY <1>1, <2>1 DEF AddPlayersRead, Idle
  <2>2. ASSUME UpdatePlayerRead(p) PROVE Goal
    <3>1. PICK u, rsvp, up, down :
            Carry(p, [Idle EXCEPT !.op = "updatePlayer", !.pc = "commit", !.who = u,
                                  !.rsvp = rsvp, !.captains = up, !.demoted = down,
                                  !.unlock = matchStatus = "LOCKED"])
      BY <2>2, Zenon DEF UpdatePlayerRead
    <3>2. ASSUME NEW unlock
          PROVE  Safe([Idle EXCEPT !.op = "updatePlayer", !.pc = "commit", !.who = u,
                                   !.rsvp = rsvp, !.captains = up, !.demoted = down,
                                   !.unlock = unlock])
      BY DEF Idle
    <3> HIDE DEF Safe, Goal
    <3> QED
      BY <1>1, <3>1, <3>2, Zenon
  <2>3. ASSUME LockRead(p) \/ ReopenRead(p) PROVE Goal
    BY <1>1, <2>3 DEF LockRead, ReopenRead, Idle
  <2>4. ASSUME ManualBalanceRead(p) PROVE Goal
    BY <1>1, <2>4 DEF ManualBalanceRead, Idle
  <2>5. ASSUME GenerateRead(p) \/ AssignRead(p) PROVE Goal
    BY <1>1, <2>5 DEF GenerateRead, AssignRead, Idle
  <2>6. ASSUME ConfirmReadMatch(p) \/ TakeJob(p) PROVE Goal
    BY <1>1, <2>6 DEF ConfirmReadMatch, TakeJob, Idle
  <2> QED
    BY <1>4, <2>1, <2>2, <2>3, <2>4, <2>5, <2>6 DEF BeginMatchRequest
<1>5. ASSUME SubmitReadMatch(p) \/ ResolveReadMatch(p)
      PROVE  Goal
  <2>1. ASSUME SubmitReadMatch(p) PROVE Goal
    BY <1>1, <2>1, InputsAssumption DEF SubmitReadMatch, Idle
  <2>2. ASSUME ResolveReadMatch(p) PROVE Goal
    BY <1>1, <2>2, InputsAssumption DEF ResolveReadMatch, Idle
  <2> QED
    BY <1>5, <2>1, <2>2
<1>6. ASSUME ContinueMatchRequest(p) \/ Die(p) \/ SubmitFails(p) \/ FinalizeFails(p)
             \/ ResolveFails(p)
      PROVE  Goal
  BY <1>2, <1>6 DEF ContinueMatchRequest, AddPlayersCommit, UpdatePlayerCommit, LockCommit,
     ManualBalanceCommit, GenerateCommit, AssignCommit, ReopenCommit, Die, SubmitFails,
     FinalizeFails, ResolveFails
<1>7. ASSUME SubmitReadResult(p) \/ ConfirmReadResult(p) \/ FinalizeRead(p) \/ ResolveReadResult(p)
             \/ ConfirmRecord(p)
      PROVE  Goal
  <2>0. req[p] \in Request /\ (NamesWinner(p) => req[p].winner \in TeamSide)
    BY DEF TypeOK, WinnerInv
  <2>1. ASSUME SubmitReadResult(p) PROVE Goal
    BY <1>1, <1>2, <2>0, <2>1 DEF SubmitReadResult, At, NamesWinner, Request
  <2>2. ASSUME ConfirmReadResult(p) PROVE Goal
    BY <1>1, <1>2, <2>0, <2>2 DEF ConfirmReadResult, Request
  <2>3. ASSUME FinalizeRead(p) PROVE Goal
    BY <1>1, <1>2, <2>0, <2>3 DEF FinalizeRead, Request
  <2>4. ASSUME ResolveReadResult(p) PROVE Goal
    BY <1>1, <1>2, <2>0, <2>4 DEF ResolveReadResult, At, NamesWinner, Request
  <2>5. ASSUME ConfirmRecord(p) PROVE Goal
    BY <1>1, <1>2, <2>5 DEF ConfirmRecord, Idle
  <2> QED
    BY <1>7, <2>1, <2>2, <2>3, <2>4, <2>5
<1>8. ASSUME SubmitCommit(p) \/ EnqueueFinalize(p) \/ ResolveCommit(p)
      PROVE  Goal
  BY <1>3, <1>8 DEF SubmitCommit, EnqueueFinalize, ResolveCommit
<1>9. ASSUME FinalizeCommit(p) \/ Announce(p)
      PROVE  Goal
  <2>0. req[p] \in Request
    BY DEF TypeOK
  <2>1. ASSUME FinalizeCommit(p) PROVE Goal
    BY <1>1, <1>3, <2>0, <2>1 DEF FinalizeCommit, Request
  <2>2. ASSUME Announce(p) PROVE Goal
    <3>1. PICK r : Carry(p, r) /\ (r = Idle \/ r.pc = "announce")
      BY <2>0, <2>2 DEF Announce, Request
    <3> QED
      BY <1>1, <3>1 DEF Idle
  <2> QED
    BY <1>9, <2>1, <2>2
<1> QED
  BY <1>4, <1>5, <1>6, <1>7, <1>8, <1>9
     DEF BeginResultRequest, Continue, ContinueResultRequest

(* What a step writes to the result names a team, and no step closes the match. *)
LEMMA WinnersWritten ==
  ASSUME TypeOK, WinnerInv, NEW p \in Procs,
         BeginMatchRequest(p) \/ BeginResultRequest(p) \/ Continue(p) \/ Die(p)
  PROVE  matchStatus' # "CLOSED" /\ (result'.id # 0 => result'.winner \in TeamSide)
<1> DEFINE Goal == matchStatus' # "CLOSED" /\ (result'.id # 0 => result'.winner \in TeamSide)
<1>1. ASSUME UNCHANGED result, matchStatus' = matchStatus \/ matchStatus' # "CLOSED"
      PROVE  Goal
  BY <1>1 DEF WinnerInv
<1>2. ASSUME BeginMatchRequest(p) \/ BeginResultRequest(p) \/ TakeJob(p) \/ Die(p)
      PROVE  Goal
  BY <1>1, <1>2 DEF BeginMatchRequest, BeginResultRequest, AddPlayersRead,
     UpdatePlayerRead, LockRead, ManualBalanceRead, GenerateRead, AssignRead, ReopenRead,
     SubmitReadMatch, ConfirmReadMatch, ResolveReadMatch, TakeJob, Die, rows, matchVars, resultVars
<1>3. ASSUME SubmitReadResult(p) \/ SubmitFails(p) \/ ConfirmReadResult(p) \/ ConfirmRecord(p)
             \/ FinalizeRead(p) \/ FinalizeFails(p) \/ EnqueueFinalize(p)
             \/ ResolveReadResult(p) \/ ResolveFails(p) \/ Announce(p)
      PROVE  Goal
  BY <1>1, <1>3 DEF SubmitReadResult, SubmitFails, ConfirmReadResult, ConfirmRecord, FinalizeRead,
     FinalizeFails, EnqueueFinalize, ResolveReadResult, ResolveFails, Announce, rows, matchVars,
     resultVars
<1>4. ASSUME AddPlayersCommit(p) \/ UpdatePlayerCommit(p) \/ LockCommit(p)
             \/ ManualBalanceCommit(p) \/ AssignCommit(p) \/ GenerateCommit(p)
      PROVE  Goal
  BY <1>1, <1>4 DEF AddPlayersCommit, UpdatePlayerCommit, LockCommit, ManualBalanceCommit,
     AssignCommit, GenerateCommit, NoResultChange, resultVars
<1>5. ASSUME ReopenCommit(p)
      PROVE  Goal
  <2>1. \/ UNCHANGED <<matchStatus, result>>
        \/ matchStatus' = "RECRUITING" /\ (UNCHANGED result \/ result' = NoResult)
    BY <1>5 DEF ReopenCommit, DiscardResult, matchVars
  <2>2. NoResult.id = 0
    BY DEF NoResult
  <2> QED
    BY <2>1, <2>2 DEF WinnerInv
<1>6. ASSUME SubmitCommit(p)
      PROVE  Goal
  <2>1. req[p].winner \in TeamSide /\ req[p] \in Request /\ result \in ResultRow
    BY <1>6 DEF SubmitCommit, At, NamesWinner, WinnerInv, TypeOK
  <2>2. matchStatus' = "RESULT_PENDING" /\ (CreateResult(req[p]) \/ OverwriteResult(req[p]))
    BY <1>6 DEF SubmitCommit
  <2>3. result'.winner = req[p].winner
    <3>1. CASE CreateResult(req[p])
      BY <3>1 DEF CreateResult
    <3>2. CASE OverwriteResult(req[p])
      BY <2>1, <3>2 DEF OverwriteResult, ResultRow
    <3> QED
      BY <2>2, <3>1, <3>2
  <2> QED
    BY <2>1, <2>2, <2>3
<1>7. ASSUME FinalizeCommit(p)
      PROVE  Goal
  <2>1. req[p].status \in ResultStatus /\ result \in ResultRow
    BY DEF TypeOK, Request
  <2>2. result'.id = result.id /\ result'.winner = result.winner
    BY <1>7, <2>1 DEF FinalizeCommit, ResultRow
  <2>3. matchStatus' \in {"RESULT_PENDING", "CONFIRMED", "DISPUTED"}
    BY <1>7, <2>1 DEF FinalizeCommit, MatchStatusOf, ResultStatus
  <2> QED
    BY <2>2, <2>3 DEF WinnerInv
<1>8. ASSUME ResolveCommit(p)
      PROVE  Goal
  <2>1. req[p].winner \in TeamSide /\ result \in ResultRow
    BY <1>8 DEF ResolveCommit, At, NamesWinner, WinnerInv, TypeOK
  <2>2. matchStatus' = "CONFIRMED" /\ result'.winner = req[p].winner
    BY <1>8, <2>1 DEF ResolveCommit, ResultRow
  <2> QED
    BY <2>1, <2>2
<1> QED
  BY <1>2, <1>3, <1>4, <1>5, <1>6, <1>7, <1>8
     DEF Continue, ContinueMatchRequest, ContinueResultRequest

(* WinnerInv holds at first and is inductive once the state is typed. *)
LEMMA WinnersAlwaysNamed == Spec => [](TypeOK /\ WinnerInv)
<1>1. Init => TypeOK /\ WinnerInv
  <2> SUFFICES ASSUME Init PROVE WinnerInv
    BY InitType
  <2>1. /\ matchStatus \in {"RECRUITING", "BALANCED"} /\ result = NoResult
        /\ req = [p \in Procs |-> Idle]
    BY DEF Init, CreatedInit, BalancedInit, Start, CreatedMatch, BalancedMatch
  <2> QED
    BY <2>1 DEF WinnerInv, NamesWinner, NoResult, Idle
<1>2. (TypeOK /\ WinnerInv) /\ [Next]_vars => (TypeOK /\ WinnerInv)'
  <2> SUFFICES ASSUME TypeOK, WinnerInv, [Next]_vars PROVE WinnerInv'
    BY StepType
  <2>1. CASE UNCHANGED vars
    BY <2>1 DEF vars, rows, matchVars, resultVars, WinnerInv, NamesWinner
  <2>2. CASE Next
    BY <2>2, WinnersTaken, WinnersWritten DEF Next, WinnerInv
  <2> QED
    BY <2>1, <2>2
<1> QED
  BY <1>1, <1>2, PTL DEF Spec

-----------------------------------------------------------------------------
(* Players on every lane of both teams: as many of them win as there are lanes. *)
LEMMA OneWinnerPerLane ==
  ASSUME NEW S \in SUBSET Users, NEW seatOf \in [S -> Seats \cup {NoSeat}],
         {seatOf[u] : u \in S} = LaneSeats, \A u, v \in S : seatOf[u] = seatOf[v] => u = v,
         NEW t \in TeamSide
  PROVE  Cardinality({u \in S : seatOf[u][1] = t}) = Cardinality(Lanes)
<1> DEFINE W == {u \in S : seatOf[u][1] = t}
           f == [u \in W |-> seatOf[u][2]]
<1>1. \A u \in S : seatOf[u] = <<seatOf[u][1], seatOf[u][2]>> /\ seatOf[u][2] \in Lanes
  BY DEF LaneSeats
<1>2. f \in [W -> Lanes] /\ \A u \in W : f[u] = seatOf[u][2]
  BY <1>1
<1>3. \A u, v \in W : f[u] = f[v] => u = v
  BY <1>1, <1>2
<1>4. \A lane \in Lanes : \E u \in W : f[u] = lane
  <2> TAKE lane \in Lanes
  <2>1. <<t, lane>> \in LaneSeats
    BY DEF LaneSeats
  <2>2. PICK u \in S : seatOf[u] = <<t, lane>>
    BY <2>1
  <2> QED
    BY <2>2
<1> HIDE DEF f, W
<1>5. f \in Bijection(W, Lanes)
  BY <1>2, <1>3, <1>4 DEF Bijection, Injection, Surjection, IsInjective
<1>6. IsFiniteSet(W)
  BY UsersAssumption, FS_Subset DEF W
<1>7. ExistsBijection(W, Lanes)
  BY <1>5 DEF ExistsBijection
<1> QED
  BY <1>6, <1>7, FS_Bijection DEF W

(* Of a match that is in the history, each lane of each team is one player's stat row. *)
LEMMA HistoryIsALineup ==
  ASSUME TypeOK, ResultInv, WinnerInv, matchStatus \in HistoryStatuses
  PROVE  /\ Cardinality(InHistory) = MatchSize
         /\ Cardinality(WinsIn(InHistory)) = Cardinality(Lanes)
<1> DEFINE seatOf == [u \in StatPlayers |-> stats[u].seat]
<1>1. result.id # 0 /\ result.winner \in TeamSide
  BY DEF HistoryStatuses, ResultInv, WinnerInv, MatchReflectsResult
<1>2. {stats[u].seat : u \in StatPlayers} = LaneSeats /\ Cardinality(StatPlayers) = MatchSize
  BY <1>1 DEF ResultInv, LineupComplete
<1>3. InHistory = StatPlayers /\ StatPlayers \in SUBSET Users
  BY DEF InHistory, StatPlayers
<1>4. \A u \in StatPlayers : stats[u].seat \in Seats \cup {NoSeat}
  BY DEF TypeOK, StatRow, StatPlayers
<1>5. seatOf \in Surjection(StatPlayers, LaneSeats)
  BY <1>2 DEF Surjection
<1>6. IsFiniteSet(StatPlayers)
  BY <1>3, UsersAssumption, FS_Subset
<1>7. seatOf \in Injection(StatPlayers, LaneSeats)
  BY <1>2, <1>5, <1>6, LaneSeatsCount, FS_Surjection
<1>8. /\ seatOf \in [StatPlayers -> Seats \cup {NoSeat}]
      /\ \A u \in StatPlayers : seatOf[u] = stats[u].seat
      /\ {seatOf[u] : u \in StatPlayers} = LaneSeats
  BY <1>2, <1>4
<1> HIDE DEF seatOf
<1>9. \A u, v \in StatPlayers : seatOf[u] = seatOf[v] => u = v
  BY <1>7 DEF Injection, IsInjective
<1>10. Cardinality({u \in StatPlayers : seatOf[u][1] = result.winner}) = Cardinality(Lanes)
  BY <1>1, <1>3, <1>8, <1>9, OneWinnerPerLane
<1>11. WinsIn(InHistory) = {u \in StatPlayers : seatOf[u][1] = result.winner}
  BY <1>1, <1>3, <1>8 DEF WinsIn
<1> QED
  BY <1>2, <1>3, <1>10, <1>11

(* The result screen checks what a submission checks: players count as lanes do. *)
LEMMA ScreenAgrees ==
  ASSUME TypeOK
  PROVE  CanSubmitResult <=>
           ~ SubmitRefused([players |-> Roster, seats |-> [u \in Users |-> player[u].seat],
                            key |-> NoKey])
<1> DEFINE seats == [u \in Users |-> player[u].seat]
           r == [players |-> Roster, seats |-> seats, key |-> NoKey]
<1>1. seats \in Lineup /\ Roster \in SUBSET Users /\ \A u \in Roster : seats[u] = player[u].seat
  BY DEF TypeOK, PlayerRow, Lineup, Roster
<1>2. r.players = Roster /\ r.seats = seats /\ r.key = NoKey
  OBVIOUS
<1> HIDE DEF seats, r
<1>3. ~ SubmitRefused(r) <=> ~ ResultStatusIs("CONFIRMED") /\ ResultInputReady(Roster, seats)
  BY <1>2 DEF SubmitRefused, IsReplay, ResultStatusIs
<1>4. ResultInputReady(Roster, seats) => Cardinality(Roster) = MatchSize
  BY <1>1, ReadyLineup
<1>5. ASSUME NEW t \in TeamSide
      PROVE  /\ {u \in Roster : player[u].seat[1] = t} = {u \in Roster : seats[u][1] = t}
             /\ {player[u].seat[2] : u \in {w \in Roster : seats[w][1] = t}}
                  = {seats[u][2] : u \in {w \in Roster : seats[w][1] = t}}
  BY <1>1
<1>6. CanSubmitResult <=> /\ Cardinality(Roster) = MatchSize
                          /\ ResultInputReady(Roster, seats)
                          /\ ~ ResultStatusIs("CONFIRMED")
  BY <1>1, <1>5 DEF CanSubmitResult, ResultInputReady
<1> QED
  BY <1>3, <1>4, <1>6 DEF r, seats

(***************************************************************************)
(* What the services show of a match always adds up: a win and a loss of   *)
(* each lane in the history, the same players in statistics and            *)
(* leaderboard, and a result screen that is open when a submission would   *)
(* pass.                                                                   *)
(***************************************************************************)
THEOREM ViewsAgree == Spec => []ViewsAddUp
<1>1. TypeOK /\ ResultInv /\ WinnerInv => ViewsAddUp
  <2> SUFFICES ASSUME TypeOK, ResultInv, WinnerInv PROVE ViewsAddUp
    OBVIOUS
  <2>1. CountedAsCompleted =>
          RecentlyListed /\ InHistory = InStatistics /\ InLeaderboard(InHistory) = InHistory
    BY DEF CountedAsCompleted, COMPLETED, REALIZED, RecentlyListed, HistoryStatuses, InHistory,
       InStatistics, InLeaderboard
  <2> QED
    BY <2>1, HistoryIsALineup, ScreenAgrees DEF ViewsAddUp
<1> QED
  BY <1>1, ResultInvariance, WinnersAlwaysNamed, PTL
=============================================================================
