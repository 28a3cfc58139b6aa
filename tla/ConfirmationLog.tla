-------------------------- MODULE ConfirmationLog --------------------------
(***************************************************************************)
(* The policy over a growing table of confirmations: users vote, and vote  *)
(* again, on one version of a result whose winner is team A.  newest is    *)
(* the table of newest votes that MatchRecords keeps instead of the rows.  *)
(***************************************************************************)
EXTENDS ConfirmationPolicy

CONSTANTS Voters,            \* players of the match
          Ballots,           \* votes cast in this instance
          MaxParticipants,   \* bound on participantCount
          MaxConfirmations   \* bound on the number of rows

ASSUME LogAssumption == Ballots \subseteq Vote /\ MaxParticipants \in Nat

VARIABLES confirmations, newest, participantCount, captains

logVars == <<confirmations, newest, participantCount, captains>>

LogInit ==
  /\ confirmations = <<>>
  /\ newest = [u \in {} |-> {}]
  /\ participantCount \in 0 .. MaxParticipants
  /\ captains \in SUBSET Voters

(* matchResultConfirmation.create *)
Cast(u, vote) ==
  /\ Len(confirmations) < MaxConfirmations
  /\ confirmations' = Append(confirmations,
       [userId |-> u, action |-> vote.action, proposal |-> vote.proposal])
  /\ newest' = [v \in DOMAIN newest \cup {u} |-> IF v = u THEN vote ELSE newest[v]]
  /\ UNCHANGED <<participantCount, captains>>

LogNext == \E u \in Voters, vote \in Ballots : Cast(u, vote)

LogSpec == LogInit /\ [][LogNext]_logVars

Verdict == Evaluate(participantCount, captains, "A", LatestByUser(confirmations))

\* getDisputeDetail opens for a result that the finalization has found disputed.
DisputeOpens == Verdict = "DISPUTED"

\* buildDisputeSummary: the counts it shows to an operator.
DisputeSummary ==
  LET latest == LatestByUser(confirmations)
  IN  [confirms |-> Cardinality(Confirmers(latest)), conflicts |-> Cardinality(Objectors(latest)),
       winningTeamConflict |-> WinningTeamConflict("A", latest)]

Voted == {u \in Voters : newest' # newest /\ confirmations'[Len(confirmations')].userId = u}
Contests(u) == u \in DOMAIN newest /\ (newest[u].action # "CONFIRM" \/ newest[u].proposal = "B")
PlainApproval == confirmations' # confirmations
                 /\ confirmations'[Len(confirmations')].action = "CONFIRM"
                 /\ confirmations'[Len(confirmations')].proposal # "B"

(* A plain confirmation never unconfirms a result and never opens a dispute. *)
ApprovalNeverHurts ==
  [][PlainApproval => /\ Verdict = "CONFIRMED" => Verdict' = "CONFIRMED"
                      /\ Verdict' = "DISPUTED" => Verdict = "DISPUTED"]_logVars

(***************************************************************************)
(* A dispute ends by a new vote of somebody who contested: however many    *)
(* other players confirm, they cannot outvote it, and when nobody's newest *)
(* vote contests any more it is over, in whatever order the rows came. The *)
(* summary counts every user who voted once and shows a reason to review.  *)
(***************************************************************************)
DisputeEndsByItsAuthors ==
  [][/\ Verdict = "DISPUTED" /\ Verdict' # "DISPUTED" => \E u \in Voted : Contests(u)
     /\ (DisputeOpens =>
           /\ \E u \in Voters : Contests(u)
           /\ DisputeSummary.confirms + DisputeSummary.conflicts = Cardinality(DOMAIN newest)
           /\ DisputeSummary.conflicts > 0 \/ DisputeSummary.winningTeamConflict)']_logVars
=============================================================================
