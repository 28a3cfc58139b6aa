------------------------- MODULE ConfirmationPolicy -------------------------
(***************************************************************************)
(* ResultConfirmationPolicyService: what the votes of a match say about    *)
(* its submitted result.  The service is a pure function of the current    *)
(* votes, so it is an operator here.                                       *)
(*                                                                         *)
(* A vote is [action, proposal]: the ConfirmationAction of the row and the *)
(* winning team proposed in its diff (NoTeam when there is none).          *)
(***************************************************************************)
EXTENDS Integers, FiniteSets, Sequences

CONSTANT NoTeam

TeamSide == {"A", "B"}

ASSUME NoTeamAssumption == NoTeam \notin TeamSide

ConfirmationAction == {"CONFIRM", "SUGGEST_CHANGE", "DISPUTE"}

ResultStatus == {"PARTIAL", "CONFIRMED", "DISPUTED"}

Vote == [action : ConfirmationAction, proposal : TeamSide \cup {NoTeam}]

\* Mutant: the rows are sorted the other way round.
OldestByUser(confirmations) ==
  [u \in {c.userId : c \in {confirmations[i] : i \in 1 .. Len(confirmations)}} |->
     LET first == CHOOSE i \in 1 .. Len(confirmations) :
                    /\ confirmations[i].userId = u
                    /\ \A j \in 1 .. i - 1 : confirmations[j].userId # u
     IN  [action |-> confirmations[first].action, proposal |-> confirmations[first].proposal]]

(***************************************************************************)
(* The rows in the order of createdAt, newest last; of each user the row   *)
(* met first from the newest end counts.                                   *)
(***************************************************************************)
LatestByUser(confirmations) ==
  [u \in {c.userId : c \in {confirmations[i] : i \in 1 .. Len(confirmations)}} |->
     LET last == CHOOSE i \in 1 .. Len(confirmations) :
                   /\ confirmations[i].userId = u
                   /\ \A j \in i + 1 .. Len(confirmations) : confirmations[j].userId # u
     IN  [action |-> confirmations[last].action, proposal |-> confirmations[last].proposal]]

Confirmers(latest) == {u \in DOMAIN latest : latest[u].action = "CONFIRM"}

Objectors(latest) == DOMAIN latest \ Confirmers(latest)

(* Somebody, whatever the action of the vote, names another winner. *)
WinningTeamConflict(winner, latest) ==
  \E u \in DOMAIN latest : /\ latest[u].proposal # NoTeam
                           /\ winner # NoTeam
                           /\ latest[u].proposal # winner

\* Mutant: everyone who confirmed is a captain, instead of the converse.
CaptainsConfirmedSwapped(captains, latest) ==
  Cardinality(captains) >= 2 /\ Confirmers(latest) \subseteq captains /\ Confirmers(latest) # {}

CaptainsConfirmed(captains, latest) ==
  /\ Cardinality(captains) >= 2
  /\ captains \subseteq Confirmers(latest)

(***************************************************************************)
(* confirmCount / participantCount >= 0.7.  The quotient is a double in    *)
(* the code; for counts below 2^50 it reaches the double 0.7 exactly when  *)
(* the rational does, hence the integer comparison.                        *)
(***************************************************************************)
QuorumConfirmed(participantCount, latest) ==
  /\ participantCount > 0
  /\ 10 * Cardinality(Confirmers(latest)) >= 7 * participantCount

\* Mutant: the quorum is looked at before the dispute.
EvaluateQuorumFirst(participantCount, captains, winner, latest) ==
  IF CaptainsConfirmed(captains, latest) \/ QuorumConfirmed(participantCount, latest)
    THEN "CONFIRMED"
  ELSE IF Cardinality(Objectors(latest)) >= 2 \/ WinningTeamConflict(winner, latest)
    THEN "DISPUTED"
  ELSE "PARTIAL"

(* latest maps each user who voted to the user's newest vote. *)
Evaluate(participantCount, captains, winner, latest) ==
  IF Cardinality(Objectors(latest)) >= 2 \/ WinningTeamConflict(winner, latest)
    THEN "DISPUTED"
  ELSE IF CaptainsConfirmed(captains, latest) \/ QuorumConfirmed(participantCount, latest)
    THEN "CONFIRMED"
  ELSE "PARTIAL"
=============================================================================
