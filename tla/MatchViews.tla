----------------------------- MODULE MatchViews -----------------------------
(***************************************************************************)
(* What other services show of the match: the history and statistics of a  *)
(* player, the leaderboard and the lists of a group, the result screen.    *)
(* They read the same rows, each with a condition of its own.              *)
(***************************************************************************)
EXTENDS InhouseMatch

(* match-status.policy.ts. *)
REALIZED == {"IN_PROGRESS", "RESULT_PENDING", "CONFIRMED", "DISPUTED", "CLOSED"}
COMPLETED == {"CONFIRMED", "CLOSED"}

ResultStatusIs(status) == result.id # 0 /\ result.status = status

(* getRecentMatches, and the count of completed matches, of a group. *)
RecentlyListed == matchStatus \in REALIZED
CountedAsCompleted == matchStatus \in COMPLETED /\ ResultStatusIs("CONFIRMED")

(* getInhouseHistory shows the stat row of a player as a win or as a loss. *)
HistoryStatuses == {"RESULT_PENDING", "CONFIRMED", "CLOSED", "DISPUTED"}
InHistory == {u \in Users : stats[u] # NoStat /\ matchStatus \in HistoryStatuses}
WinsIn(shown) == {u \in shown : result.id # 0 /\ stats[u].seat[1] = result.winner}

(* getUserStats, and getLeaderboard for the members of the group. *)
InStatistics == {u \in Users : stats[u] # NoStat /\ ResultStatusIs("CONFIRMED")}
InLeaderboard(members) == {u \in members : stats[u] # NoStat /\ ResultStatusIs("CONFIRMED")}

\* Mutant: a confirmed result is not looked at.
CanSubmitFinalized == ResultInputReady(Roster, [u \in Users |-> player[u].seat])

(* toResultInputState: the result screen is open for input. *)
CanSubmitResult ==
  /\ Cardinality(Roster) = MatchSize
  /\ \A u \in Roster : player[u].seat # NoSeat
  /\ \A t \in TeamSide :
       LET team == {u \in Roster : player[u].seat[1] = t}
       IN  Cardinality(team) = Cardinality(Lanes) /\ Lanes \subseteq {player[u].seat[2] : u \in team}
  /\ ~ ResultStatusIs("CONFIRMED")

-----------------------------------------------------------------------------
(***************************************************************************)
(* What is shown of the match adds up, whatever roster and lineup the      *)
(* result was submitted from and whatever has become of them since: a      *)
(* match in the history has one win and one loss of each lane; one that    *)
(* counts as completed is in the lists and statistics of exactly those     *)
(* players; and the result screen is open when a submission would pass.    *)
(***************************************************************************)
ViewsAddUp ==
  /\ matchStatus \in HistoryStatuses =>
       /\ Cardinality(InHistory) = MatchSize
       /\ Cardinality(WinsIn(InHistory)) = Cardinality(Lanes)
  /\ CountedAsCompleted =>
       RecentlyListed /\ InHistory = InStatistics /\ InLeaderboard(InHistory) = InHistory
  /\ CanSubmitResult <=>
       ~SubmitRefused([players |-> Roster, seats |-> [u \in Users |-> player[u].seat], key |-> NoKey])
=============================================================================
