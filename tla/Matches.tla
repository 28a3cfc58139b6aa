------------------------------ MODULE Matches ------------------------------
(***************************************************************************)
(* The operations of MatchesService, and the one of MatchmakingService,    *)
(* that write a match.  Each reads the match once, checks it, and later    *)
(* writes in one transaction what it decided from that snapshot: nothing   *)
(* is checked again when the transaction runs.                             *)
(*                                                                         *)
(* The requester passes the handler's authority check (host, captain,      *)
(* admin or group admin); who it is plays no part in what is written.      *)
(***************************************************************************)
EXTENDS MatchRecords

(* Rows of the match a Matches transaction may write. *)
NoResultChange == UNCHANGED <<resultVars, jobs, outbox>>

-----------------------------------------------------------------------------
(* addPlayers: the users not in the snapshot are created, all or none. *)

AddPlayersRead(p) ==
  /\ Starts(p, "addPlayers")
  /\ matchStatus \in {"DRAFT", "RECRUITING"}
  /\ \E new \in SUBSET (Users \ Roster) \ {{}}, rsvp \in Rsvps :
       \E caps \in SUBSET new :
         Carry(p, [Idle EXCEPT !.op = "addPlayers", !.pc = "commit", !.players = new,
                               !.rsvp = rsvp, !.captains = caps])
  /\ UNCHANGED <<rows, jobs, outbox>>

AddPlayersCommit(p) ==
  LET r == req[p] IN
  /\ At(p, "addPlayers", "commit")
  /\ \/ /\ r.players \cap Roster = {}
        /\ player' = [u \in Users |->
             IF u \in r.players
               THEN [status |-> r.rsvp, seat |-> NoSeat, captain |-> u \in r.captains]
               ELSE player[u]]
     \/ /\ r.players \cap Roster # {}    \* unique (matchId, userId)
        /\ UNCHANGED player
  /\ Leave(p)
  /\ UNCHANGED <<matchStatus, candidates, selected>> /\ NoResultChange

-----------------------------------------------------------------------------
(* updatePlayer: the row of one player; a LOCKED match goes back to RECRUITING. *)

UpdatePlayerRead(p) ==
  /\ Starts(p, "updatePlayer")
  /\ matchStatus \notin {"IN_PROGRESS", "CONFIRMED", "CLOSED"}
  /\ matchStatus \notin {"BALANCED", "RESULT_PENDING", "DISPUTED"}
  /\ \E u \in Roster, rsvp \in Rsvps \cup {"ABSENT"} :        \* ABSENT: not in the body
       \E up, down \in SUBSET {u} :
         /\ up \cap down = {}
         /\ Carry(p, [Idle EXCEPT !.op = "updatePlayer", !.pc = "commit", !.who = u,
                                  !.rsvp = rsvp, !.captains = up, !.demoted = down,
                                  !.unlock = matchStatus = "LOCKED"])
  /\ UNCHANGED <<rows, jobs, outbox>>

(* The row of player u after the transaction of request r. *)
UpdatedRow(r, u) ==
  LET status == IF u = r.who /\ r.rsvp # "ABSENT" THEN r.rsvp ELSE player[u].status
  IN  [player[u] EXCEPT
         !.status = IF r.unlock /\ status = "LOCKED_IN" THEN "ACCEPTED" ELSE status,
         !.captain = (@ \/ u \in r.captains) /\ u \notin r.demoted]

UpdatePlayerCommit(p) ==
  LET r == req[p] IN
  /\ At(p, "updatePlayer", "commit")
  /\ player' = [u \in Users |-> UpdatedRow(r, u)]
  /\ IF r.unlock
       THEN /\ matchStatus' = "RECRUITING"
            /\ candidates' = NoCandidates
            /\ selected' = 0
       ELSE UNCHANGED <<matchStatus, candidates, selected>>
  /\ Leave(p)
  /\ NoResultChange

-----------------------------------------------------------------------------
(* lockMatch: no condition on the status of the match. *)

LockRead(p) ==
  /\ Starts(p, "lock")
  /\ Cardinality(Roster) = MatchSize
  /\ JoinedPlayers = Roster
  /\ Carry(p, [Idle EXCEPT !.op = "lock", !.pc = "commit"])
  /\ UNCHANGED <<rows, jobs, outbox>>

LockCommit(p) ==
  /\ At(p, "lock", "commit")
  /\ player' = [u \in Users |->
       IF u \in Roster THEN [player[u] EXCEPT !.status = "LOCKED_IN"] ELSE player[u]]
  /\ matchStatus' = "LOCKED"
  /\ Leave(p)
  /\ UNCHANGED <<candidates, selected>> /\ NoResultChange

-----------------------------------------------------------------------------
\* Mutant: only players who are locked in already are written.
SeatedLockedOnly(lineup) ==
  [u \in Users |-> IF lineup[u] = NoSeat \/ player[u].status # "LOCKED_IN" THEN player[u]
                   ELSE [player[u] EXCEPT !.seat = lineup[u]]]

(* A lineup is written seat by seat; its players are locked in. *)
Seated(lineup) ==
  [u \in Users |-> IF lineup[u] = NoSeat THEN player[u]
                   ELSE [player[u] EXCEPT !.seat = lineup[u], !.status = "LOCKED_IN"]]

ManualBalanceRead(p) ==
  /\ Starts(p, "manualBalance")
  /\ matchStatus \notin {"IN_PROGRESS", "CONFIRMED", "CLOSED"}
  /\ Cardinality(Roster) = MatchSize
  /\ \E lineup \in ManualLineups(Roster) :
       Carry(p, [Idle EXCEPT !.op = "manualBalance", !.pc = "commit", !.seats = lineup])
  /\ UNCHANGED <<rows, jobs, outbox>>

ManualBalanceCommit(p) ==
  /\ At(p, "manualBalance", "commit")
  /\ player' = Seated(req[p].seats)
  /\ matchStatus' = "BALANCED"
  /\ selected' = 0
  /\ Leave(p)
  /\ UNCHANGED candidates /\ NoResultChange

-----------------------------------------------------------------------------
(***************************************************************************)
(* autoBalance and reroll: candidates for the players of the snapshot.     *)
(* Between the read and the write lie the power map, the match history and *)
(* the algorithm.  The list replaces the old one; the selected candidate   *)
(* and the status of the match are left alone.                             *)
(***************************************************************************)
GenerateRead(p) ==
  /\ Starts(p, "generate")
  /\ Cardinality(Roster) = MatchSize
  /\ JoinedPlayers = Roster
  /\ Carry(p, [Idle EXCEPT !.op = "generate", !.pc = "commit", !.players = Roster])
  /\ UNCHANGED <<rows, jobs, outbox>>

GenerateCommit(p) ==
  /\ At(p, "generate", "commit")
  /\ \E size \in 1 .. MaxCandidates :
       \E list \in [1 .. size -> CandidateLineups(req[p].players)] :
         candidates' = [n \in 1 .. MaxCandidates |-> IF n <= size THEN list[n] ELSE NoLineup]
  /\ Leave(p)
  /\ UNCHANGED <<matchStatus, player, selected>> /\ NoResultChange

(* assignCandidate: the lineup of the snapshot's list, whatever the status. *)
AssignRead(p) ==
  /\ Starts(p, "assign")
  /\ \E n \in 1 .. MaxCandidates :
       /\ candidates[n] # NoLineup
       /\ Carry(p, [Idle EXCEPT !.op = "assign", !.pc = "commit", !.candidate = n,
                                !.seats = candidates[n]])
  /\ UNCHANGED <<rows, jobs, outbox>>

AssignCommit(p) ==
  /\ At(p, "assign", "commit")
  /\ player' = Seated(req[p].seats)
  /\ matchStatus' = "BALANCED"
  /\ selected' = req[p].candidate
  /\ Leave(p)
  /\ UNCHANGED candidates /\ NoResultChange

-----------------------------------------------------------------------------
(***************************************************************************)
(* reopenMatch: the result of the snapshot and the stats are deleted (the  *)
(* confirmations go with the result), the seats are cleared.               *)
(***************************************************************************)
ReopenRead(p) ==
  /\ Starts(p, "reopen")
  /\ matchStatus \in {"LOCKED", "BALANCED", "RESULT_PENDING", "DISPUTED"}
  /\ ~(result.id # 0 /\ result.status = "CONFIRMED")
  /\ Carry(p, [Idle EXCEPT !.op = "reopen", !.pc = "commit", !.rid = result.id])
  /\ UNCHANGED <<rows, jobs, outbox>>

\* Mutant: the confirmations outlive the result.
DiscardResultNoCascade(rid) ==
  \/ rid = 0 /\ UNCHANGED <<result, votes, stats>>
  \/ /\ rid # 0 /\ result.id = rid
     /\ result' = NoResult /\ stats' = [u \in Users |-> NoStat]
     /\ UNCHANGED votes

DiscardResult(rid) ==
  \/ /\ rid = 0
     /\ UNCHANGED <<result, votes, stats>>
  \/ /\ rid # 0 /\ result.id = rid
     /\ result' = NoResult
     /\ votes' = NoVotes
     /\ stats' = [u \in Users |-> NoStat]

ReopenCommit(p) ==
  LET rid == req[p].rid IN
  /\ At(p, "reopen", "commit")
  /\ \/ /\ DiscardResult(rid)
        /\ player' = [u \in Users |->
             IF u \in Roster
               THEN [player[u] EXCEPT !.seat = NoSeat, !.status = "ACCEPTED"] ELSE player[u]]
        /\ matchStatus' = "RECRUITING"
        /\ candidates' = NoCandidates
        /\ selected' = 0
     \/ /\ rid # 0 /\ result.id # rid            \* the row is gone: rolled back
        /\ UNCHANGED <<matchVars, result, votes, stats>>
  /\ Leave(p)
  /\ UNCHANGED <<lastId, jobs, outbox>>

-----------------------------------------------------------------------------
BeginMatchRequest(p) ==
  \/ AddPlayersRead(p) \/ UpdatePlayerRead(p) \/ LockRead(p) \/ ManualBalanceRead(p)
  \/ GenerateRead(p) \/ AssignRead(p) \/ ReopenRead(p)

ContinueMatchRequest(p) ==
  \/ AddPlayersCommit(p) \/ UpdatePlayerCommit(p) \/ LockCommit(p) \/ ManualBalanceCommit(p)
  \/ GenerateCommit(p) \/ AssignCommit(p) \/ ReopenCommit(p)
=============================================================================
