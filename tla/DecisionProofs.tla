---------------------------- MODULE DecisionProofs ----------------------------
(***************************************************************************)
(* What Decisions answers is right for any number of voters and votes, of  *)
(* players, lanes, locks and requests.                                     *)
(***************************************************************************)
EXTENDS Decisions, FiniteSetTheorems, SequenceTheorems, WellFoundedInduction, TLAPS

-----------------------------------------------------------------------------
(* Confirmations. *)

Confirmation ==
  [userId : Voters, action : ConfirmationAction, proposal : TeamSide \cup {NoTeam}]

(* The newest row of a user is at position i of the table c. *)
IsNewest(c, u, i) ==
  /\ i \in 1 .. Len(c) /\ c[i].userId = u
  /\ \A j \in i + 1 .. Len(c) : c[j].userId # u

(* newest has the newest row of everybody who voted, and of nobody else. *)
Tallies(c, new) ==
  /\ new = [u \in DOMAIN new |-> new[u]]
  /\ \A i \in 1 .. Len(c) : c[i].userId \in DOMAIN new
  /\ \A u \in DOMAIN new : \E i \in 1 .. Len(c) :
       IsNewest(c, u, i) /\ new[u] = [action |-> c[i].action, proposal |-> c[i].proposal]

LogInv ==
  /\ confirmations \in Seq(Confirmation)
  /\ Tallies(confirmations, newest)
  /\ DOMAIN newest \subseteq Voters /\ IsFiniteSet(DOMAIN newest)
  /\ newest \in [DOMAIN newest -> Vote]
  /\ participantCount \in Nat /\ captains \subseteq Voters

(* A user has one newest row. *)
LEMMA OneNewest ==
  ASSUME NEW c, Len(c) \in Nat, NEW u, NEW i, NEW j, IsNewest(c, u, i), IsNewest(c, u, j)
  PROVE  i = j
BY DEF IsNewest

(* The policy finds in the rows what newest keeps. *)
LEMMA LatestIsNewest ==
  ASSUME NEW c \in Seq(Confirmation), NEW new, Tallies(c, new)
  PROVE  LatestByUser(c) = new
<1> DEFINE users == {row.userId : row \in {c[i] : i \in 1 .. Len(c)}}
<1>0. Len(c) \in Nat
  BY LenProperties
<1>1. users = DOMAIN new
  <2>1. \A i \in 1 .. Len(c) : c[i].userId \in DOMAIN new
    BY DEF Tallies
  <2>2. \A u \in DOMAIN new : \E i \in 1 .. Len(c) : c[i].userId = u
    BY DEF Tallies, IsNewest
  <2> QED
    BY <2>1, <2>2
<1>2. ASSUME NEW u \in DOMAIN new
      PROVE  LatestByUser(c)[u] = new[u]
  <2> DEFINE last == CHOOSE i \in 1 .. Len(c) : /\ c[i].userId = u
                                                /\ \A j \in i + 1 .. Len(c) : c[j].userId # u
  <2>1. PICK i \in 1 .. Len(c) :
          IsNewest(c, u, i) /\ new[u] = [action |-> c[i].action, proposal |-> c[i].proposal]
    BY DEF Tallies
  <2>2. \E k \in 1 .. Len(c) : c[k].userId = u /\ \A j \in k + 1 .. Len(c) : c[j].userId # u
    BY <2>1 DEF IsNewest
  <2>3. IsNewest(c, u, last)
    BY <2>2 DEF IsNewest
  <2>4. last = i
    BY <1>0, <2>1, <2>3, OneNewest
  <2>5. LatestByUser(c)[u] = [action |-> c[last].action, proposal |-> c[last].proposal]
    BY <1>1 DEF LatestByUser
  <2> QED
    BY <2>1, <2>4, <2>5
<1>3. LatestByUser(c) = [u \in DOMAIN new |-> LatestByUser(c)[u]]
  BY <1>1 DEF LatestByUser
<1> QED
  BY <1>2, <1>3 DEF Tallies

(* A further row replaces the newest vote of its user. *)
LEMMA TallyAppended ==
  ASSUME NEW c \in Seq(Confirmation), NEW new, Tallies(c, new), NEW row \in Confirmation
  PROVE  Tallies(Append(c, row),
                 [u \in DOMAIN new \cup {row.userId} |->
                    IF u = row.userId THEN [action |-> row.action, proposal |-> row.proposal]
                    ELSE new[u]])
<1> DEFINE d == Append(c, row)
<1> DEFINE after == [u \in DOMAIN new \cup {row.userId} |->
                       IF u = row.userId THEN [action |-> row.action, proposal |-> row.proposal]
                       ELSE new[u]]
<1>1. /\ Len(c) \in Nat /\ Len(d) = Len(c) + 1 /\ d[Len(c) + 1] = row
      /\ \A i \in 1 .. Len(c) : d[i] = c[i]
  BY AppendProperties, LenProperties
<1> HIDE DEF d
<1>2. \A i \in 1 .. Len(d) : i \in 1 .. Len(c) \/ i = Len(c) + 1
  BY <1>1
<1>3. ASSUME NEW i \in 1 .. Len(d)
      PROVE  d[i].userId \in DOMAIN after
  BY <1>1, <1>2 DEF Tallies
<1>4. ASSUME NEW u \in DOMAIN after
      PROVE  \E i \in 1 .. Len(d) :
               IsNewest(d, u, i) /\ after[u] = [action |-> d[i].action, proposal |-> d[i].proposal]
  <2>1. CASE u = row.userId
    <3>1. IsNewest(d, u, Len(c) + 1)
      BY <1>1, <2>1 DEF IsNewest
    <3> QED
      BY <1>1, <2>1, <3>1
  <2>2. CASE u # row.userId
    <3>1. PICK i \in 1 .. Len(c) :
            IsNewest(c, u, i) /\ new[u] = [action |-> c[i].action, proposal |-> c[i].proposal]
      BY <2>2 DEF Tallies
    <3>2. i \in 1 .. Len(d) /\ d[i] = c[i]
      BY <1>1
    <3>3. IsNewest(d, u, i)
      <4>1. d[i].userId = u
        BY <3>1, <3>2 DEF IsNewest
      <4>2. ASSUME NEW j \in i + 1 .. Len(d)
            PROVE  d[j].userId # u
        <5>1. j \in i + 1 .. Len(c) \/ j = Len(c) + 1
          BY <1>1
        <5> QED
          BY <1>1, <2>2, <3>1, <5>1 DEF IsNewest
      <4> QED
        BY <3>2, <4>1, <4>2 DEF IsNewest
    <3> QED
      BY <2>2, <3>1, <3>2, <3>3
  <2> QED
    BY <2>1, <2>2
<1>5. after = [u \in DOMAIN after |-> after[u]]
  OBVIOUS
<1>6. Tallies(d, after)
  <2> HIDE DEF after
  <2> QED
    BY <1>3, <1>4, <1>5 DEF Tallies
<1> QED
  BY <1>6 DEF d

(* What a vote changes. *)
Records(u, vote) ==
  /\ DOMAIN newest' = DOMAIN newest \cup {u}
  /\ newest'[u] = vote
  /\ \A v \in DOMAIN newest : v # u => newest'[v] = newest[v]
  /\ confirmations'[Len(confirmations')] =
       [userId |-> u, action |-> vote.action, proposal |-> vote.proposal]

LEMMA CastRecords ==
  ASSUME LogInv, NEW u \in Voters, NEW vote \in Ballots, Cast(u, vote)
  PROVE  LogInv' /\ Records(u, vote)
<1> DEFINE row == [userId |-> u, action |-> vote.action, proposal |-> vote.proposal]
<1>1. /\ confirmations' = Append(confirmations, row)
      /\ UNCHANGED <<participantCount, captains>>
      /\ vote \in Vote /\ row \in Confirmation
  BY LogAssumption DEF Cast, Vote, Confirmation
<1>2. newest' = [v \in DOMAIN newest \cup {u} |-> IF v = u THEN vote ELSE newest[v]]
  BY DEF Cast
<1>3. vote = [action |-> row.action, proposal |-> row.proposal]
  BY <1>1 DEF Vote
<1>4. row.userId = u
  OBVIOUS
<1> HIDE DEF row
<1>5. Tallies(confirmations', newest')
  <2>1. /\ confirmations \in Seq(Confirmation) /\ Tallies(confirmations, newest)
        /\ row \in Confirmation
    BY <1>1 DEF LogInv
  <2>2. Tallies(Append(confirmations, row),
                [v \in DOMAIN newest \cup {row.userId} |->
                   IF v = row.userId THEN [action |-> row.action, proposal |-> row.proposal]
                   ELSE newest[v]])
    BY <2>1, TallyAppended
  <2> QED
    BY <1>1, <1>2, <1>3, <1>4, <2>2
<1>6. confirmations' \in Seq(Confirmation) /\ confirmations'[Len(confirmations')] = row
  BY <1>1, AppendProperties, LenProperties DEF LogInv
<1>7. IsFiniteSet(DOMAIN newest')
  BY <1>2, FS_AddElement DEF LogInv
<1>8. newest' \in [DOMAIN newest' -> Vote] /\ DOMAIN newest' \subseteq Voters
  BY <1>1, <1>2 DEF LogInv
<1>9. LogInv'
  BY <1>1, <1>5, <1>6, <1>7, <1>8 DEF LogInv
<1> QED
  BY <1>2, <1>6, <1>9 DEF Records, row

LEMMA LogInvInit == LogInit => LogInv
<1> SUFFICES ASSUME LogInit PROVE LogInv
  OBVIOUS
<1>1. confirmations = <<>> /\ newest = [u \in {} |-> {}] /\ Len(confirmations) = 0
  BY DEF LogInit
<1>2. Tallies(confirmations, newest)
  BY <1>1 DEF Tallies
<1> QED
  BY <1>1, <1>2, FS_EmptySet, LogAssumption DEF LogInit, LogInv

LEMMA LogStep ==
  ASSUME LogInv, [DecisionsNext]_decisionVars
  PROVE  LogInv'
<1>1. CASE LogNext
  BY <1>1, CastRecords DEF LogNext
<1>2. CASE UNCHANGED logVars
  BY <1>2 DEF logVars, LogInv
<1> QED
  BY <1>1, <1>2 DEF DecisionsNext, decisionVars

LEMMA LogAlways == DecisionsSpec => []LogInv
BY LogInvInit, LogStep, PTL DEF DecisionsSpec, DecisionsInit

(* The verdict, from the newest votes. *)
LEMMA VerdictOfNewest ==
  ASSUME LogInv
  PROVE  /\ LatestByUser(confirmations) = newest
         /\ Verdict = Evaluate(participantCount, captains, "A", newest)
BY LatestIsNewest DEF LogInv, Verdict

(* How many confirm and object is a number. *)
LEMMA VotesCounted ==
  ASSUME NEW new, IsFiniteSet(DOMAIN new)
  PROVE  /\ IsFiniteSet(Confirmers(new)) /\ IsFiniteSet(Objectors(new))
         /\ Cardinality(Confirmers(new)) \in Nat /\ Cardinality(Objectors(new)) \in Nat
         /\ Cardinality(Confirmers(new)) + Cardinality(Objectors(new)) = Cardinality(DOMAIN new)
<1>1. /\ Confirmers(new) \subseteq DOMAIN new
      /\ Objectors(new) = DOMAIN new \ Confirmers(new)
      /\ DOMAIN new \cap Confirmers(new) = Confirmers(new)
  BY DEF Confirmers, Objectors
<1>2. IsFiniteSet(Confirmers(new)) /\ IsFiniteSet(Objectors(new))
  BY <1>1, FS_Subset, FS_Difference
<1>3. /\ Cardinality(Confirmers(new)) \in Nat /\ Cardinality(Objectors(new)) \in Nat
      /\ Cardinality(DOMAIN new) \in Nat
  BY <1>2, FS_CardinalityType
<1>4. Cardinality(Objectors(new)) = Cardinality(DOMAIN new) - Cardinality(Confirmers(new))
  BY <1>1, FS_Difference
<1> QED
  BY <1>2, <1>3, <1>4

(* Somebody names team B although team A is on record. *)
LEMMA ConflictNamesB ==
  ASSUME NEW new, new \in [DOMAIN new -> Vote]
  PROVE  WinningTeamConflict("A", new) <=> \E u \in DOMAIN new : new[u].proposal = "B"
<1>1. \A u \in DOMAIN new : new[u].proposal \in {"A", "B", NoTeam}
  BY DEF Vote, TeamSide
<1> QED
  BY <1>1, NoTeamAssumption DEF WinningTeamConflict, TeamSide

(* More who confirm and fewer who object confirm a result all the more. *)
LEMMA EvaluateMonotone ==
  ASSUME NEW old, NEW new, old \in [DOMAIN old -> Vote], new \in [DOMAIN new -> Vote],
         IsFiniteSet(DOMAIN old), IsFiniteSet(DOMAIN new), NEW n \in Nat, NEW leaders,
         Confirmers(old) \subseteq Confirmers(new), Objectors(new) \subseteq Objectors(old),
         WinningTeamConflict("A", new) => WinningTeamConflict("A", old)
  PROVE  /\ Evaluate(n, leaders, "A", old) = "CONFIRMED" => Evaluate(n, leaders, "A", new) = "CONFIRMED"
         /\ Evaluate(n, leaders, "A", new) = "DISPUTED" => Evaluate(n, leaders, "A", old) = "DISPUTED"
<1>1. /\ Cardinality(Confirmers(old)) \in Nat /\ Cardinality(Objectors(old)) \in Nat
      /\ Cardinality(Confirmers(new)) \in Nat /\ Cardinality(Objectors(new)) \in Nat
      /\ IsFiniteSet(Confirmers(new)) /\ IsFiniteSet(Objectors(old))
  BY VotesCounted
<1>2. Cardinality(Confirmers(old)) <= Cardinality(Confirmers(new))
  BY <1>1, FS_Subset
<1>3. Cardinality(Objectors(new)) <= Cardinality(Objectors(old))
  BY <1>1, FS_Subset
<1>4. QuorumConfirmed(n, old) => QuorumConfirmed(n, new)
  BY <1>1, <1>2 DEF QuorumConfirmed
<1>5. CaptainsConfirmed(leaders, old) => CaptainsConfirmed(leaders, new)
  BY DEF CaptainsConfirmed
<1>6. Cardinality(Objectors(new)) >= 2 => Cardinality(Objectors(old)) >= 2
  BY <1>1, <1>3
<1> QED
  BY <1>4, <1>5, <1>6 DEF Evaluate

(* Two tables of newest votes that differ in one user. *)
LEMMA VotersCompared ==
  ASSUME LogInv, LogInv', NEW u \in Voters, NEW vote \in Ballots, Records(u, vote)
  PROVE  /\ \A v : v # u => /\ v \in Confirmers(newest') <=> v \in Confirmers(newest)
                            /\ v \in Objectors(newest') <=> v \in Objectors(newest)
         /\ u \in Confirmers(newest') <=> vote.action = "CONFIRM"
         /\ u \in Objectors(newest') <=> vote.action # "CONFIRM"
BY DEF Records, Confirmers, Objectors

(***************************************************************************)
(* A plain confirmation (evaluate, ConfirmationAction.CONFIRM without a    *)
(* proposal) never unconfirms a result and never opens a dispute, whoever  *)
(* has voted before and how often.                                         *)
(***************************************************************************)
THEOREM ApprovalsNeverHurt == DecisionsSpec => ApprovalNeverHurts
<1> DEFINE Harmless == PlainApproval => /\ Verdict = "CONFIRMED" => Verdict' = "CONFIRMED"
                                        /\ Verdict' = "DISPUTED" => Verdict = "DISPUTED"
<1>1. LogInv /\ LogInv' /\ [DecisionsNext]_decisionVars => [Harmless]_logVars
  <2> SUFFICES ASSUME LogInv, LogInv', [DecisionsNext]_decisionVars, PlainApproval
               PROVE  /\ Verdict = "CONFIRMED" => Verdict' = "CONFIRMED"
                      /\ Verdict' = "DISPUTED" => Verdict = "DISPUTED"
    OBVIOUS
  <2>1. PICK u \in Voters, vote \in Ballots : Cast(u, vote)
    BY DEF DecisionsNext, decisionVars, LogNext, logVars, PlainApproval
  <2>2. Records(u, vote) /\ UNCHANGED <<participantCount, captains>>
    BY <2>1, CastRecords DEF Cast
  <2>3. vote.action = "CONFIRM" /\ vote.proposal # "B"
    BY <2>2 DEF Records, PlainApproval
  <2>4. Confirmers(newest) \subseteq Confirmers(newest') /\ Objectors(newest') \subseteq Objectors(newest)
    BY <2>2, <2>3, VotersCompared
  <2>5. WinningTeamConflict("A", newest') => WinningTeamConflict("A", newest)
    <3>1. /\ WinningTeamConflict("A", newest') <=> \E v \in DOMAIN newest' : newest'[v].proposal = "B"
          /\ WinningTeamConflict("A", newest) <=> \E v \in DOMAIN newest : newest[v].proposal = "B"
      BY ConflictNamesB DEF LogInv
    <3> QED
      BY <2>2, <2>3, <3>1 DEF Records
  <2>6. /\ Verdict = Evaluate(participantCount, captains, "A", newest)
        /\ Verdict' = Evaluate(participantCount, captains, "A", newest')
    <3>1. LatestByUser(confirmations') = newest'
      BY LatestIsNewest DEF LogInv
    <3> QED
      BY <2>2, <3>1, VerdictOfNewest DEF Verdict
  <2>7. /\ newest \in [DOMAIN newest -> Vote] /\ newest' \in [DOMAIN newest' -> Vote]
        /\ IsFiniteSet(DOMAIN newest) /\ IsFiniteSet(DOMAIN newest') /\ participantCount \in Nat
    BY DEF LogInv
  <2> QED
    BY <2>4, <2>5, <2>6, <2>7, EvaluateMonotone
<1> QED
  BY <1>1, LogAlways, PTL DEF DecisionsSpec, ApprovalNeverHurts

(* Why a dispute is open. *)
LEMMA DisputeExplained ==
  ASSUME LogInv, DisputeOpens
  PROVE  /\ \E u \in Voters : Contests(u)
         /\ DisputeSummary.confirms + DisputeSummary.conflicts = Cardinality(DOMAIN newest)
         /\ DisputeSummary.conflicts > 0 \/ DisputeSummary.winningTeamConflict
<1>1. /\ IsFiniteSet(DOMAIN newest) /\ DOMAIN newest \subseteq Voters
      /\ newest \in [DOMAIN newest -> Vote]
  BY DEF LogInv
<1>2. Cardinality(Objectors(newest)) >= 2 \/ WinningTeamConflict("A", newest)
  BY VerdictOfNewest DEF DisputeOpens, Evaluate
<1>3. DisputeSummary = [confirms |-> Cardinality(Confirmers(newest)),
                        conflicts |-> Cardinality(Objectors(newest)),
                        winningTeamConflict |-> WinningTeamConflict("A", newest)]
  BY VerdictOfNewest DEF DisputeSummary
<1>4. \E u \in Voters : Contests(u)
  <2>1. CASE WinningTeamConflict("A", newest)
    BY <1>1, <2>1, ConflictNamesB DEF Contests
  <2>2. CASE Cardinality(Objectors(newest)) >= 2
    <3>1. Objectors(newest) # {}
      BY <2>2, FS_EmptySet
    <3> QED
      BY <1>1, <3>1 DEF Objectors, Confirmers, Contests
  <2> QED
    BY <1>2, <2>1, <2>2
<1>5. Cardinality(Objectors(newest)) \in Nat
  BY <1>1, VotesCounted
<1> QED
  BY <1>1, <1>2, <1>3, <1>4, <1>5, VotesCounted

(***************************************************************************)
(* A dispute (evaluate, DISPUTED) ends only by a new vote of somebody who  *)
(* contested, however many others confirm; while it lasts somebody's       *)
(* newest vote contests, and buildDisputeSummary counts everybody who      *)
(* voted once and shows a reason.                                          *)
(***************************************************************************)
THEOREM DisputesEndByTheirAuthors == DecisionsSpec => DisputeEndsByItsAuthors
<1> DEFINE Ends == Verdict = "DISPUTED" /\ Verdict' # "DISPUTED" => \E u \in Voted : Contests(u)
<1> DEFINE Shown == DisputeOpens =>
                      /\ \E u \in Voters : Contests(u)
                      /\ DisputeSummary.confirms + DisputeSummary.conflicts = Cardinality(DOMAIN newest)
                      /\ DisputeSummary.conflicts > 0 \/ DisputeSummary.winningTeamConflict
<1>1. LogInv /\ LogInv' /\ [DecisionsNext]_decisionVars => [Ends]_logVars
  <2> SUFFICES ASSUME LogInv, LogInv', [DecisionsNext]_decisionVars, ~ UNCHANGED logVars,
                      Verdict = "DISPUTED", Verdict' # "DISPUTED"
               PROVE  \E u \in Voted : Contests(u)
    OBVIOUS
  <2>1. PICK u \in Voters, vote \in Ballots : Cast(u, vote)
    BY DEF DecisionsNext, decisionVars, LogNext
  <2>2. Records(u, vote) /\ UNCHANGED <<participantCount, captains>>
    BY <2>1, CastRecords DEF Cast
  <2>3. /\ Verdict = Evaluate(participantCount, captains, "A", newest)
        /\ Verdict' = Evaluate(participantCount, captains, "A", newest')
    <3>1. LatestByUser(confirmations') = newest'
      BY LatestIsNewest DEF LogInv
    <3> QED
      BY <2>2, <3>1, VerdictOfNewest DEF Verdict
  <2>4. u \in Voted
    BY <2>2, <2>3 DEF Records, Voted
  <2>5. ASSUME ~ Contests(u)
        PROVE  FALSE
    <3>1. u \notin Objectors(newest)
      BY <2>5 DEF Contests, Objectors, Confirmers
    <3>2. Objectors(newest) \subseteq Objectors(newest')
      BY <2>2, <3>1, VotersCompared
    <3>3. WinningTeamConflict("A", newest) => WinningTeamConflict("A", newest')
      <4>1. /\ WinningTeamConflict("A", newest') <=> \E v \in DOMAIN newest' : newest'[v].proposal = "B"
            /\ WinningTeamConflict("A", newest) <=> \E v \in DOMAIN newest : newest[v].proposal = "B"
        BY ConflictNamesB DEF LogInv
      <4> QED
        BY <2>2, <2>5, <4>1 DEF Records, Contests
    <3>4. /\ IsFiniteSet(Objectors(newest')) /\ Cardinality(Objectors(newest')) \in Nat
          /\ Cardinality(Objectors(newest)) \in Nat
      BY VotesCounted DEF LogInv
    <3>5. Cardinality(Objectors(newest)) <= Cardinality(Objectors(newest'))
      BY <3>2, <3>4, FS_Subset
    <3>6. Cardinality(Objectors(newest)) >= 2 => Cardinality(Objectors(newest')) >= 2
      BY <3>4, <3>5
    <3> QED
      BY <2>3, <3>3, <3>6 DEF Evaluate
  <2> QED
    BY <2>4, <2>5
<1>2. LogInv => Shown
  BY DisputeExplained
<1>3. LogInv /\ LogInv' /\ [DecisionsNext]_decisionVars => [Ends /\ Shown']_logVars
  <2>1. LogInv' => Shown'
    BY <1>2, PTL
  <2> QED
    BY <1>1, <2>1
<1> QED
  BY <1>3, LogAlways, PTL DEF DecisionsSpec, DisputeEndsByItsAuthors

-----------------------------------------------------------------------------
(* Lineups: which arrangement of a team is the best. *)

(* The least number of a set. *)
LEMMA LeastNumber ==
  ASSUME NEW S, S \subseteq Nat, S # {}
  PROVE  \E k \in S : \A j \in S : k <= j
<1>1. PICK k \in S : \A j \in S : ~ (<<j, k>> \in OpToRel(<, Nat))
  BY NatLessThanWellFounded, WFMin
<1>2. ASSUME NEW j \in S
      PROVE  k <= j
  <2>1. ~ (j < k)
    BY <1>1 DEF OpToRel
  <2> QED
    BY <2>1
<1> QED
  BY <1>2

Size == Len(Lanes)

LEMMA Sizes ==
  /\ Size \in Nat /\ Size > 0 /\ DOMAIN Lanes = 1 .. Size
  /\ Player = 1 .. 2 * Size /\ IsFiniteSet(Player) /\ Cardinality(Player) = 2 * Size
<1>1. Size \in Nat /\ Size > 0 /\ DOMAIN Lanes = 1 .. Size
  BY LineupAssumption, LenProperties, EmptySeq DEF Size
<1>2. IsFiniteSet(1 .. 2 * Size) /\ Cardinality(1 .. 2 * Size) = 2 * Size
  BY <1>1, FS_Interval
<1> QED
  BY <1>1, <1>2 DEF Player, Size

LEMMA TeamType ==
  ASSUME NEW t \in Teams
  PROVE  /\ t \in [1 .. Size -> Player] /\ DOMAIN t = 1 .. Size
         /\ \A i, j \in 1 .. Size : t[i] = t[j] => i = j
         /\ Range(t) = {t[i] : i \in 1 .. Size} /\ Range(t) \subseteq Player
BY DEF Teams, IsInjective, Range, Size

(* Teams with the same player in every lane are the same. *)
LEMMA SameTeam ==
  ASSUME NEW t \in Teams, NEW s \in Teams, \A e \in 1 .. Size : t[e] = s[e]
  PROVE  t = s
<1>1. t = [e \in 1 .. Size |-> t[e]] /\ s = [e \in 1 .. Size |-> s[e]]
  BY TeamType
<1>2. [e \in 1 .. Size |-> t[e]] = [e \in 1 .. Size |-> s[e]]
  OBVIOUS
<1> QED
  BY <1>1, <1>2

LEMMA CostIsNat ==
  ASSUME NEW t \in Teams
  PROVE  Cost(t) \in Nat
<1> DEFINE Costing(c) == {lane \in DOMAIN t : RoleCost(t[lane], lane) = c}
<1>1. DOMAIN t = 1 .. Size /\ IsFiniteSet(1 .. Size)
  BY Sizes, TeamType, FS_Interval
<1>2. ASSUME NEW c
      PROVE  Cardinality(Costing(c)) \in Nat
  <2>1. IsFiniteSet(Costing(c))
    BY <1>1, FS_Subset
  <2> QED
    BY <2>1, FS_CardinalityType
<1>3. /\ Cardinality(Costing(8)) \in Nat /\ Cardinality(Costing(12)) \in Nat
      /\ Cardinality(Costing(25)) \in Nat
  BY <1>2
<1>4. Cost(t) = 8 * Cardinality(Costing(8)) + 12 * Cardinality(Costing(12))
                  + 25 * Cardinality(Costing(25))
  BY DEF Cost
<1> HIDE DEF Costing
<1> QED
  BY <1>3, <1>4

(* Where a player stands in the order of the rows. *)
PlaceIn(order, i) == CHOOSE k \in DOMAIN order : order[k] = i

LEMMA PlacesDiffer ==
  ASSUME NEW order \in Orders, NEW i \in Player, NEW j \in Player
  PROVE  /\ PlaceIn(order, i) \in Nat /\ PlaceIn(order, j) \in Nat
         /\ PlaceIn(order, i) = PlaceIn(order, j) => i = j
<1>1. order \in Seq(Player) /\ Range(order) = Player /\ DOMAIN order \subseteq Nat
  BY LineupAssumption, LenProperties
<1>2. \A k \in Player : PlaceIn(order, k) \in DOMAIN order /\ order[PlaceIn(order, k)] = k
  <2> TAKE k \in Player
  <2>1. \E x \in DOMAIN order : order[x] = k
    BY <1>1 DEF Range
  <2> QED
    BY <2>1 DEF PlaceIn
<1> QED
  BY <1>1, <1>2

LEMMA BeforeMeans ==
  ASSUME NEW t \in Teams, NEW s \in Teams, NEW order
  PROVE  Before(t, s, order) <=>
           \E lane \in 1 .. Size : /\ PlaceIn(order, t[lane]) < PlaceIn(order, s[lane])
                                   /\ \A earlier \in 1 .. lane - 1 : t[earlier] = s[earlier]
BY TeamType DEF Before, PlaceIn

(* The search tries the teams in a strict order. *)
LEMMA BeforeIrreflexive ==
  ASSUME NEW order \in Orders, NEW t \in Teams
  PROVE  ~ Before(t, t, order)
<1>1. ASSUME NEW lane \in 1 .. Size
      PROVE  ~ PlaceIn(order, t[lane]) < PlaceIn(order, t[lane])
  <2>1. t[lane] \in Player
    BY TeamType
  <2> QED
    BY <2>1, PlacesDiffer
<1> QED
  BY <1>1, BeforeMeans

LEMMA BeforeTransitive ==
  ASSUME NEW order \in Orders, NEW t \in Teams, NEW s \in Teams, NEW r \in Teams,
         Before(t, s, order), Before(s, r, order)
  PROVE  Before(t, r, order)
<1>1. PICK k \in 1 .. Size : /\ PlaceIn(order, t[k]) < PlaceIn(order, s[k])
                             /\ \A e \in 1 .. k - 1 : t[e] = s[e]
  BY BeforeMeans
<1>2. PICK l \in 1 .. Size : /\ PlaceIn(order, s[l]) < PlaceIn(order, r[l])
                             /\ \A e \in 1 .. l - 1 : s[e] = r[e]
  BY BeforeMeans
<1>3. \A e \in 1 .. Size : /\ PlaceIn(order, t[e]) \in Nat /\ PlaceIn(order, s[e]) \in Nat
                           /\ PlaceIn(order, r[e]) \in Nat
  <2> TAKE e \in 1 .. Size
  <2>1. t[e] \in Player /\ s[e] \in Player /\ r[e] \in Player
    BY TeamType
  <2> QED
    BY <2>1, PlacesDiffer
<1>4. k \in Nat /\ l \in Nat /\ Size \in Nat
  BY Sizes
<1>5. CASE k <= l
  <2>1. PlaceIn(order, s[k]) <= PlaceIn(order, r[k])
    <3>1. CASE k = l
      BY <1>2, <1>3, <3>1
    <3>2. CASE k < l
      <4>1. s[k] = r[k]
        BY <1>2, <1>4, <3>2
      <4> QED
        BY <1>3, <4>1
    <3> QED
      BY <1>4, <1>5, <3>1, <3>2
  <2>2. PlaceIn(order, t[k]) < PlaceIn(order, r[k])
    BY <1>1, <1>3, <2>1
  <2>3. \A e \in 1 .. k - 1 : t[e] = r[e]
    BY <1>1, <1>2, <1>4, <1>5
  <2> QED
    BY <2>2, <2>3, BeforeMeans
<1>6. CASE l < k
  <2>1. t[l] = s[l]
    BY <1>1, <1>4, <1>6
  <2>2. \A e \in 1 .. l - 1 : t[e] = r[e]
    BY <1>1, <1>2, <1>4, <1>6
  <2> QED
    BY <1>2, <2>1, <2>2, BeforeMeans
<1> QED
  BY <1>4, <1>5, <1>6

LEMMA BeforeTotal ==
  ASSUME NEW order \in Orders, NEW t \in Teams, NEW s \in Teams, t # s
  PROVE  Before(t, s, order) \/ Before(s, t, order)
<1> DEFINE differ == {e \in 1 .. Size : t[e] # s[e]}
<1>1. differ # {}
  BY SameTeam
<1>2. PICK k \in differ : \A j \in differ : k <= j
  <2>1. differ \subseteq Nat
    BY Sizes
  <2> HIDE DEF differ
  <2> QED
    BY <1>1, <2>1, LeastNumber
<1>3. \A e \in 1 .. k - 1 : t[e] = s[e]
  BY <1>2, Sizes
<1>4. t[k] \in Player /\ s[k] \in Player /\ t[k] # s[k]
  BY <1>2, TeamType
<1>5. PlaceIn(order, t[k]) < PlaceIn(order, s[k]) \/ PlaceIn(order, s[k]) < PlaceIn(order, t[k])
  BY <1>4, PlacesDiffer
<1> QED
  BY <1>2, <1>3, <1>5, BeforeMeans

(* The first of the cheapest beats the others. *)
Beats(t, s, order) == Cost(t) < Cost(s) \/ (Cost(t) = Cost(s) /\ Before(t, s, order))

LEMMA BeatsOrders ==
  ASSUME NEW order \in Orders, NEW t \in Teams, NEW s \in Teams
  PROVE  /\ ~ Beats(t, t, order)
         /\ t # s => Beats(t, s, order) \/ Beats(s, t, order)
         /\ ~ (Beats(t, s, order) /\ Beats(s, t, order))
         /\ \A r \in Teams : Beats(t, s, order) /\ Beats(s, r, order) => Beats(t, r, order)
<1>1. Cost(t) \in Nat /\ Cost(s) \in Nat
  BY CostIsNat
<1>2. ~ (Before(t, s, order) /\ Before(s, t, order))
  BY BeforeIrreflexive, BeforeTransitive
<1>3. ASSUME NEW r \in Teams, Beats(t, s, order), Beats(s, r, order)
      PROVE  Beats(t, r, order)
  <2>1. Cost(r) \in Nat
    BY CostIsNat
  <2>2. Before(t, s, order) /\ Before(s, r, order) => Before(t, r, order)
    BY BeforeTransitive
  <2> QED
    BY <1>1, <1>3, <2>1, <2>2 DEF Beats
<1>4. t # s => Beats(t, s, order) \/ Beats(s, t, order)
  BY <1>1, BeforeTotal DEF Beats
<1>5. ~ Beats(t, t, order)
  BY <1>1, BeforeIrreflexive DEF Beats
<1>6. ~ (Beats(t, s, order) /\ Beats(s, t, order))
  BY <1>1, <1>2 DEF Beats
<1> QED
  BY <1>3, <1>4, <1>5, <1>6

LEMMA TeamsFinite == IsFiniteSet(Teams)
<1> DEFINE pairs == SUBSET ((1 .. Size) \X Player)
<1> DEFINE graph == [t \in Teams |-> {<<e, t[e]>> : e \in 1 .. Size}]
<1>1. IsFiniteSet(pairs)
  <2>1. IsFiniteSet(1 .. Size)
    BY Sizes, FS_Interval
  <2>2. IsFiniteSet((1 .. Size) \X Player)
    BY <2>1, Sizes, FS_Product
  <2> QED
    BY <2>2, FS_SUBSET
<1>2. graph \in [Teams -> pairs]
  BY TeamType
<1>3. ASSUME NEW t \in Teams, NEW s \in Teams, graph[t] = graph[s]
      PROVE  t = s
  <2>1. ASSUME NEW e \in 1 .. Size
        PROVE  t[e] = s[e]
    <3>1. <<e, t[e]>> \in graph[s]
      BY <1>3
    <3> QED
      BY <3>1
  <2> QED
    BY <2>1, SameTeam
<1>4. graph \in Injection(Teams, pairs)
  BY <1>2, <1>3 DEF Injection, IsInjective
<1> HIDE DEF graph, pairs
<1> QED
  BY <1>1, <1>4, FS_Injection

(* Among any arrangements there is a best one. *)
LEMMA BestExists ==
  ASSUME NEW order \in Orders, NEW fits \in SUBSET Teams, fits # {}
  PROVE  \E t \in fits : \A s \in fits \ {t} : Beats(t, s, order)
<1> DEFINE rivals(t) == {s \in fits : Beats(s, t, order)}
<1> DEFINE counts == {Cardinality(rivals(t)) : t \in fits}
<1>1. ASSUME NEW t \in fits
      PROVE  IsFiniteSet(rivals(t)) /\ Cardinality(rivals(t)) \in Nat
  <2>1. IsFiniteSet(rivals(t))
    BY TeamsFinite, FS_Subset
  <2> QED
    BY <2>1, FS_CardinalityType
<1>2. \E n \in counts : \A m \in counts : n <= m
  <2>1. counts \subseteq Nat /\ counts # {}
    BY <1>1
  <2> HIDE DEF counts
  <2> QED
    BY <2>1, LeastNumber
<1>3. PICK t \in fits : \A s \in fits : Cardinality(rivals(t)) <= Cardinality(rivals(s))
  BY <1>2
<1>4. ASSUME NEW s \in rivals(t)
      PROVE  FALSE
  <2>1. s \in fits /\ t \in Teams /\ s \in Teams /\ Beats(s, t, order)
    OBVIOUS
  <2>2. rivals(s) \subseteq rivals(t)
    BY <2>1, BeatsOrders
  <2>3. s \notin rivals(s)
    BY <2>1, BeatsOrders
  <2>4. rivals(s) # rivals(t)
    BY <2>3
  <2>5. Cardinality(rivals(s)) <= Cardinality(rivals(t))
    BY <1>1, <2>2, FS_Subset
  <2>6. Cardinality(rivals(s)) # Cardinality(rivals(t))
    BY <1>1, <2>2, <2>4, FS_Subset
  <2>7. Cardinality(rivals(t)) <= Cardinality(rivals(s))
    BY <1>3, <2>1
  <2> HIDE DEF rivals
  <2> QED
    BY <1>1, <2>1, <2>5, <2>6, <2>7
<1>5. ASSUME NEW s \in fits \ {t}
      PROVE  Beats(t, s, order)
  BY <1>4, <1>5, BeatsOrders
<1> QED
  BY <1>5

LEMMA BestRolesExist ==
  ASSUME NEW order \in Orders, NEW players, NEW locked, Arrangements(players, locked) # {}
  PROVE  BestRoles(players, locked, order) # {}
<1>1. Arrangements(players, locked) \in SUBSET Teams
  BY DEF Arrangements
<1>2. PICK t \in Arrangements(players, locked) :
        \A s \in Arrangements(players, locked) \ {t} : Beats(t, s, order)
  BY <1>1, BestExists
<1> QED
  BY <1>2 DEF BestRoles, Beats

LEMMA BestRolesMeans ==
  ASSUME NEW order \in Orders, NEW players, NEW locked, NEW t \in BestRoles(players, locked, order)
  PROVE  /\ t \in Teams /\ Range(t) = players
         /\ \A lane \in 1 .. Size : StaysIn(t[lane], lane, locked)
         /\ \A s \in BestRoles(players, locked, order) : s = t
<1>1. t \in Arrangements(players, locked) /\ t \in Teams
  BY DEF BestRoles, Arrangements
<1>2. ASSUME NEW s \in BestRoles(players, locked, order)
      PROVE  s = t
  <2>1. s \in Arrangements(players, locked) /\ s \in Teams
    BY DEF BestRoles, Arrangements
  <2>2. s # t => Beats(t, s, order) /\ Beats(s, t, order)
    BY <1>1, <2>1 DEF BestRoles, Beats
  <2> QED
    BY <1>1, <2>1, <2>2, BeatsOrders
<1>3. Range(t) = players /\ \A lane \in 1 .. Size : StaysIn(t[lane], lane, locked)
  BY <1>1, TeamType DEF Arrangements
<1> QED
  BY <1>1, <1>2, <1>3

(* A half of the players. *)
LEMMA HalfOfPlayers ==
  ASSUME NEW t \in Teams
  PROVE  /\ Range(t) \in kSubset(Size, Player)
         /\ IsFiniteSet(Range(t)) /\ Cardinality(Range(t)) = Size
<1>1. t \in Surjection(1 .. Size, Range(t)) /\ t \in Injection(1 .. Size, Range(t))
  <2>1. t \in [1 .. Size -> Range(t)]
    <3>1. t \in [1 .. Size -> Player] /\ \A e \in 1 .. Size : t[e] \in Range(t)
      BY TeamType
    <3> QED
      BY <3>1
  <2>2. \A y \in Range(t) : \E e \in 1 .. Size : t[e] = y
    BY TeamType
  <2>3. \A i, j \in 1 .. Size : t[i] = t[j] => i = j
    BY TeamType
  <2> QED
    BY <2>1, <2>2, <2>3 DEF Surjection, Injection, IsInjective
<1>2. IsFiniteSet(1 .. Size) /\ Cardinality(1 .. Size) = Size
  BY Sizes, FS_Interval
<1>3. ExistsBijection(1 .. Size, Range(t))
  BY <1>1 DEF ExistsBijection, Bijection
<1>4. IsFiniteSet(Range(t)) /\ Cardinality(Range(t)) = Size
  BY <1>2, <1>3, FS_Bijection
<1>5. Range(t) \in SUBSET Player
  BY TeamType
<1> QED
  BY <1>4, <1>5, Sizes DEF kSubset

-----------------------------------------------------------------------------
(* What Balanced returns, and when it returns something. *)

LEMMA BalancedMeans ==
  ASSUME NEW order \in Orders, NEW locked, NEW l \in Balanced(locked, order)
  PROVE  /\ l \in Lineup /\ Range(l.A) \in Splits(locked, order)
         /\ l.A \in BestRoles(Range(l.A), locked, order)
         /\ l.B \in BestRoles(Player \ Range(l.A), locked, order)
         /\ Range(l.B) = Player \ Range(l.A)
<1>1. PICK a \in Splits(locked, order) :
        l \in [A : BestRoles(a, locked, order), B : BestRoles(Player \ a, locked, order)]
  BY DEF Balanced
<1>2. l.A \in BestRoles(a, locked, order) /\ l.B \in BestRoles(Player \ a, locked, order)
  BY <1>1
<1>3. l.A \in Teams /\ Range(l.A) = a /\ l.B \in Teams /\ Range(l.B) = Player \ a
  BY <1>2, BestRolesMeans
<1>4. l \in [A : Teams, B : Teams]
  BY <1>1, <1>3
<1>5. l \in Lineup
  BY <1>3, <1>4 DEF Lineup
<1> QED
  BY <1>2, <1>3, <1>5

(* The players of a team settle the lanes of both. *)
LEMMA KeyTells ==
  ASSUME NEW order \in Orders, NEW locked,
         NEW l \in Balanced(locked, order), NEW m \in Balanced(locked, order), l.A = m.A
  PROVE  l = m
<1>1. l \in Lineup /\ l.B \in BestRoles(Player \ Range(l.A), locked, order)
  BY BalancedMeans
<1>2. m \in Lineup /\ m.B \in BestRoles(Player \ Range(l.A), locked, order)
  BY BalancedMeans
<1>3. l.B = m.B
  BY <1>1, <1>2, BestRolesMeans
<1>4. l = [A |-> l.A, B |-> l.B] /\ m = [A |-> m.A, B |-> m.B]
  BY <1>1, <1>2 DEF Lineup
<1> QED
  BY <1>3, <1>4

LEMMA LineupType ==
  ASSUME NEW l \in Lineup
  PROVE  /\ l.A \in Teams /\ l.B \in Teams /\ Range(l.A) \cap Range(l.B) = {}
         /\ Range(l.B) = Player \ Range(l.A)
<1>1. l.A \in Teams /\ l.B \in Teams /\ Range(l.A) \cap Range(l.B) = {}
  BY DEF Lineup
<1>2. /\ IsFiniteSet(Range(l.A)) /\ Cardinality(Range(l.A)) = Size /\ Range(l.A) \subseteq Player
      /\ IsFiniteSet(Range(l.B)) /\ Cardinality(Range(l.B)) = Size /\ Range(l.B) \subseteq Player
  BY <1>1, HalfOfPlayers, TeamType
<1>3. /\ IsFiniteSet(Player \ Range(l.A))
      /\ Cardinality(Player \ Range(l.A)) = 2 * Size - Cardinality(Player \cap Range(l.A))
  BY Sizes, FS_Difference
<1>4. Player \cap Range(l.A) = Range(l.A)
  BY <1>2
<1>5. Cardinality(Player \ Range(l.A)) = Size
  <2>1. Cardinality(Player \ Range(l.A)) = 2 * Size - Size
    BY <1>2, <1>3, <1>4
  <2> QED
    BY <2>1, Sizes
<1>6. Range(l.B) \subseteq Player \ Range(l.A)
  BY <1>1, <1>2
<1>7. Range(l.B) = Player \ Range(l.A)
  BY <1>2, <1>3, <1>5, <1>6, FS_Subset
<1> QED
  BY <1>1, <1>7

(* A lineup of the answer leaves the locked players where they sit. *)
LEMMA BalancedIsSeated ==
  ASSUME NEW order \in Orders, NEW locked \in SUBSET Player, seat \in Lineup,
         NEW l \in Balanced(locked, order)
  PROVE  Seated(l, locked, seat)
<1>1. /\ l \in Lineup /\ Range(l.A) \in Splits(locked, order)
      /\ l.A \in BestRoles(Range(l.A), locked, order)
      /\ l.B \in BestRoles(Range(l.B), locked, order)
  BY BalancedMeans
<1>2. /\ l.A \in Teams /\ l.B \in Teams /\ Range(l.B) = Player \ Range(l.A)
      /\ seat.A \in Teams /\ seat.B \in Teams /\ Range(seat.A) \cap Range(seat.B) = {}
  BY <1>1, LineupType
<1>3. \A i \in Player : StaysOn(i, IF i \in Range(l.A) THEN "A" ELSE "B", locked)
  BY <1>1 DEF Splits
<1>4. \A i \in locked : (i \in Range(l.A) => i \in Range(seat.A)) /\ (i \in Range(l.B) => i \in Range(seat.B))
  BY <1>2, <1>3 DEF StaysOn
<1>5. \A lane \in 1 .. Size : StaysIn(l.A[lane], lane, locked) /\ StaysIn(l.B[lane], lane, locked)
  BY <1>1, BestRolesMeans
<1>6. ASSUME NEW i \in locked, NEW lane \in 1 .. Size
      PROVE  (l.A[lane] = i => seat.A[lane] = i) /\ (l.B[lane] = i => seat.B[lane] = i)
  <2>1. seat.A[lane] \in Range(seat.A) /\ seat.B[lane] \in Range(seat.B)
    BY <1>2, TeamType
  <2>2. l.A[lane] \in Range(l.A) /\ l.B[lane] \in Range(l.B)
    BY <1>2, TeamType
  <2>3. (l.A[lane] = i \/ l.B[lane] = i) => i \in {seat.A[lane], seat.B[lane]}
    BY <1>5 DEF StaysIn
  <2> QED
    BY <1>2, <1>4, <2>1, <2>2, <2>3
<1>7. ASSUME NEW i \in locked, NEW lane \in 1 .. Size, seat.A[lane] = i
      PROVE  l.A[lane] = i
  <2>1. i \in Range(seat.A)
    BY <1>2, <1>7, TeamType
  <2>2. i \in Range(l.A)
    BY <1>2, <1>4, <2>1
  <2>3. PICK k \in 1 .. Size : l.A[k] = i
    BY <1>2, <2>2, TeamType
  <2>4. seat.A[k] = i
    BY <1>6, <2>3
  <2>5. k = lane
    BY <1>2, <1>7, <2>4, TeamType
  <2> QED
    BY <2>3, <2>5
<1>8. ASSUME NEW i \in locked, NEW lane \in 1 .. Size, seat.B[lane] = i
      PROVE  l.B[lane] = i
  <2>1. i \in Range(seat.B)
    BY <1>2, <1>8, TeamType
  <2>2. i \in Range(l.B)
    BY <1>2, <1>4, <2>1
  <2>3. PICK k \in 1 .. Size : l.B[k] = i
    BY <1>2, <2>2, TeamType
  <2>4. seat.B[k] = i
    BY <1>6, <2>3
  <2>5. k = lane
    BY <1>2, <1>8, <2>4, TeamType
  <2> QED
    BY <2>3, <2>5
<1> QED
  BY <1>6, <1>7, <1>8, Sizes DEF Seated

(* A lineup that fits makes the search find one. *)
LEMMA FittingIsFound ==
  ASSUME NEW order \in Orders, NEW locked \in SUBSET Player, locked = {} \/ seat \in Lineup,
         NEW l \in Lineup, order[1] \in Range(l.A), Seated(l, locked, seat)
  PROVE  Balanced(locked, order) # {}
<1> DEFINE a == Range(l.A)
<1>1. l.A \in Teams /\ l.B \in Teams /\ Range(l.B) = Player \ a
  BY LineupType
<1>2. \A i \in locked, lane \in 1 .. Size :
        (l.A[lane] = i => seat.A[lane] = i) /\ (l.B[lane] = i => seat.B[lane] = i)
  BY Sizes DEF Seated
<1>3. ASSUME NEW i \in locked
      PROVE  /\ i \in a => i \in Range(seat.A)
             /\ i \in Player \ a => i \in Range(seat.B)
  <2>1. seat.A \in Teams /\ seat.B \in Teams
    BY <1>3, LineupType
  <2>2. \A lane \in 1 .. Size : seat.A[lane] \in Range(seat.A) /\ seat.B[lane] \in Range(seat.B)
    BY <2>1, TeamType
  <2>3. i \in a => \E lane \in 1 .. Size : l.A[lane] = i
    BY <1>1, TeamType
  <2>4. i \in Player \ a => \E lane \in 1 .. Size : l.B[lane] = i
    BY <1>1, TeamType
  <2> QED
    BY <1>2, <2>2, <2>3, <2>4
<1>4. a \in Splits(locked, order)
  <2>1. a \in kSubset(Len(Lanes), Player)
    BY <1>1, HalfOfPlayers DEF Size
  <2>2. \A i \in Player : StaysOn(i, IF i \in a THEN "A" ELSE "B", locked)
    BY <1>3 DEF StaysOn
  <2> QED
    BY <2>1, <2>2 DEF Splits
<1>5. l.A \in Arrangements(a, locked)
  <2>1. \A lane \in DOMAIN l.A : StaysIn(l.A[lane], lane, locked)
    <3>1. DOMAIN l.A = 1 .. Size
      BY <1>1, TeamType
    <3>2. \A lane \in 1 .. Size : l.A[lane] \in locked => seat.A[lane] = l.A[lane]
      BY <1>2
    <3> QED
      BY <3>1, <3>2 DEF StaysIn
  <2> QED
    BY <1>1, <2>1 DEF Arrangements
<1>6. l.B \in Arrangements(Player \ a, locked)
  <2>1. \A lane \in DOMAIN l.B : StaysIn(l.B[lane], lane, locked)
    <3>1. DOMAIN l.B = 1 .. Size
      BY <1>1, TeamType
    <3>2. \A lane \in 1 .. Size : l.B[lane] \in locked => seat.B[lane] = l.B[lane]
      BY <1>2
    <3> QED
      BY <3>1, <3>2 DEF StaysIn
  <2> QED
    BY <1>1, <2>1 DEF Arrangements
<1>7. PICK t \in BestRoles(a, locked, order) : TRUE
  BY <1>5, BestRolesExist
<1>8. PICK s \in BestRoles(Player \ a, locked, order) : TRUE
  BY <1>6, BestRolesExist
<1>9. [A |-> t, B |-> s] \in [A : BestRoles(a, locked, order), B : BestRoles(Player \ a, locked, order)]
  BY <1>7, <1>8
<1> DEFINE both(p) == [A : BestRoles(p, locked, order), B : BestRoles(Player \ p, locked, order)]
<1>10. both(a) \in {both(p) : p \in Splits(locked, order)}
  BY <1>4
<1>11. [A |-> t, B |-> s] \in UNION {both(p) : p \in Splits(locked, order)}
  BY <1>9, <1>10
<1> QED
  BY <1>11 DEF Balanced

-----------------------------------------------------------------------------
(* The list of candidates: each is what its mode takes, given those before it. *)

UsedBy(list, keys, i) == keys \cup {Key(list[j].lineup) : j \in 1 .. i - 1}

Taken(list, balanced, ids, keys) ==
  /\ list \in Seq(Candidate)
  /\ \A i \in 1 .. Len(list) :
       list[i].lineup \in ModeTakes(list[i].mode, balanced, ids, UsedBy(list, keys, i))

LEMMA ModeTakesBalanced ==
  ASSUME NEW mode, NEW balanced, NEW ids, NEW used
  PROVE  /\ ModeTakes(mode, balanced, ids, used) \subseteq balanced
         /\ \A l \in ModeTakes(mode, balanced, ids, used) : <<mode, Key(l)>> \notin ids
         /\ ModeTakes(mode, balanced, ids, used) = {} =>
              \A l \in balanced : <<mode, Key(l)>> \in ids
         /\ \A l \in ModeTakes(mode, balanced, ids, used) :
              Key(l) \in used =>
                \A m \in balanced : <<mode, Key(m)>> \notin ids => Key(m) \in used
BY DEF ModeTakes

LEMMA ExtendedIsTaken ==
  ASSUME NEW balanced \in SUBSET Lineup, NEW ids, NEW keys, NEW mode \in Range(Modes),
         NEW list, Taken(list, balanced, ids, keys),
         NEW new \in Extended(list, mode, balanced, ids, keys)
  PROVE  /\ Taken(new, balanced, ids, keys)
         /\ new = <<>> => list = <<>> /\ \A l \in balanced : <<mode, Key(l)>> \in ids
<1> DEFINE used == keys \cup {Key(list[i].lineup) : i \in DOMAIN list}
<1> DEFINE takes == ModeTakes(mode, balanced, ids, used)
<1>1. list \in Seq(Candidate) /\ DOMAIN list = 1 .. Len(list) /\ Len(list) \in Nat
  BY LenProperties DEF Taken
<1>2. CASE takes = {}
  <2>1. new = list
    BY <1>2 DEF Extended
  <2>2. \A l \in balanced : <<mode, Key(l)>> \in ids
    <3>1. ModeTakes(mode, balanced, ids, used) = {}
      BY <1>2
    <3> HIDE DEF used, takes
    <3> QED
      BY <3>1, ModeTakesBalanced
  <2> QED
    BY <2>1, <2>2
<1>3. CASE takes # {}
  <2>1. PICK l \in takes : new = Append(list, [mode |-> mode, lineup |-> l])
    BY <1>3 DEF Extended
  <2> DEFINE added == [mode |-> mode, lineup |-> l]
  <2>2. l \in Lineup
    BY ModeTakesBalanced
  <2>3. added \in Candidate
    BY <2>2 DEF Candidate
  <2>4. /\ new \in Seq(Candidate) /\ Len(new) = Len(list) + 1
        /\ \A i \in 1 .. Len(list) : new[i] = list[i]
        /\ new[Len(list) + 1] = added
    BY <1>1, <2>1, <2>3, AppendProperties
  <2>5. ASSUME NEW i \in 1 .. Len(new)
        PROVE  new[i].lineup \in ModeTakes(new[i].mode, balanced, ids, UsedBy(new, keys, i))
    <3>1. CASE i \in 1 .. Len(list)
      <4>1. new[i] = list[i]
        BY <2>4, <3>1
      <4>2. \A j \in 1 .. i - 1 : new[j] = list[j]
        BY <1>1, <2>4, <3>1
      <4>3. UsedBy(new, keys, i) = UsedBy(list, keys, i)
        BY <4>2 DEF UsedBy
      <4> QED
        BY <3>1, <4>1, <4>3 DEF Taken
    <3>2. CASE i = Len(list) + 1
      <4>1. i - 1 = Len(list)
        BY <1>1, <3>2
      <4>2. UsedBy(new, keys, i) = used
        BY <1>1, <2>4, <4>1 DEF UsedBy
      <4>3. new[i].lineup = l /\ new[i].mode = mode
        BY <2>4, <3>2
      <4> QED
        BY <4>2, <4>3
    <3> QED
      BY <1>1, <2>4, <3>1, <3>2
  <2>6. new # <<>>
    BY <1>1, <2>4
  <2> QED
    BY <2>4, <2>5, <2>6 DEF Taken
<1> QED
  BY <1>2, <1>3

LEMMA CandidatesAreTaken ==
  ASSUME NEW balanced \in SUBSET Lineup, NEW ids, NEW keys,
         NEW list \in Candidates(balanced, ids, keys)
  PROVE  /\ Taken(list, balanced, ids, keys)
         /\ list = <<>> =>
              \A l \in balanced, m \in Range(Modes) : <<m, Key(l)>> \in ids
<1> DEFINE After(lists, mode) == UNION {Extended(l, mode, balanced, ids, keys) : l \in lists}
<1>1. Modes[1] \in Range(Modes) /\ Modes[2] \in Range(Modes) /\ Modes[3] \in Range(Modes)
  BY DEF Modes, Range
<1>2. PICK second \in After(After({<<>>}, Modes[1]), Modes[2]) :
        list \in Extended(second, Modes[3], balanced, ids, keys)
  BY DEF Candidates
<1>3. PICK first \in After({<<>>}, Modes[1]) :
        second \in Extended(first, Modes[2], balanced, ids, keys)
  OBVIOUS
<1>4. first \in Extended(<<>>, Modes[1], balanced, ids, keys)
  OBVIOUS
<1>5. Taken(<<>>, balanced, ids, keys)
  BY DEF Taken
<1> HIDE DEF After
<1> DEFINE mode == Modes[1]
<1>0. /\ mode \in Range(Modes) /\ first \in Extended(<<>>, mode, balanced, ids, keys)
  BY <1>1, <1>4
<1>6. /\ Taken(first, balanced, ids, keys)
      /\ first = <<>> => \A l \in balanced : <<Modes[1], Key(l)>> \in ids
  <2>1. /\ Taken(first, balanced, ids, keys)
        /\ first = <<>> => \A l \in balanced : <<mode, Key(l)>> \in ids
    <3> HIDE DEF mode
    <3> QED
      BY <1>0, <1>5, ExtendedIsTaken
  <2> QED
    BY <2>1
<1>7. /\ Taken(second, balanced, ids, keys)
      /\ second = <<>> => first = <<>> /\ \A l \in balanced : <<Modes[2], Key(l)>> \in ids
  BY <1>1, <1>3, <1>6, ExtendedIsTaken
<1>8. /\ Taken(list, balanced, ids, keys)
      /\ list = <<>> => second = <<>> /\ \A l \in balanced : <<Modes[3], Key(l)>> \in ids
  BY <1>1, <1>2, <1>7, ExtendedIsTaken
<1>9. Range(Modes) = {Modes[1], Modes[2], Modes[3]}
  BY DEF Modes, Range
<1> QED
  BY <1>6, <1>7, <1>8, <1>9

LEMMA BalancedAreLineups ==
  ASSUME NEW order \in Orders, NEW locked
  PROVE  Balanced(locked, order) \in SUBSET Lineup
BY BalancedMeans

-----------------------------------------------------------------------------
(* The behaviour of the lineups. *)

SeatOK(at) == at = None \/ at \in Lineup

(* A list whose candidates a request may store, or has stored. *)
ListOK(list) ==
  /\ list \in Seq(Candidate)
  /\ \A i, j \in DOMAIN list :
       Key(list[i].lineup) = Key(list[j].lineup) => list[i].lineup = list[j].lineup

CallOK(q) ==
  /\ q.pc = "generate" =>
       /\ q.kind \in {"autoBalance", "reroll"} /\ q.locked \in SUBSET Player
       /\ q.kind = "autoBalance" => q.ids = {}
       /\ q.kind = "reroll" => IdsOf(q.read) \subseteq q.ids
  /\ q.pc = "store" =>
       /\ ListOK(q.list)
       /\ \A i \in DOMAIN q.list : /\ IdOf(q.list[i]) \notin q.ids
                                   /\ Seated(q.list[i].lineup, q.locked, q.seen)
       /\ q.kind = "reroll" => IdsOf(q.read) \subseteq q.ids
  /\ q.pc = "assign" => q.lineup \in Lineup

LineupInv ==
  /\ SeatOK(seat) /\ ListOK(offered)
  /\ calling \in [Caller -> Range(calling)]
  /\ \A r \in Caller : CallOK(calling[r])

LEMMA ListedLineup ==
  ASSUME NEW list, ListOK(list), NEW i \in DOMAIN list
  PROVE  list[i].lineup \in Lineup
<1>1. list[i] \in Candidate
  BY ElementOfSeq, LenProperties DEF ListOK
<1> QED
  BY <1>1 DEF Candidate

(* Two candidates of an answer with the same key are the same lineup. *)
LEMMA AnswerKeys ==
  ASSUME NEW locked \in SUBSET Player, NEW order \in Orders, NEW ids, NEW keys, NEW list,
         locked = {} \/ seat \in Lineup,
         list \in Candidates(Balanced(locked, order), ids, keys)
  PROVE  /\ Taken(list, Balanced(locked, order), ids, keys)
         /\ ListOK(list)
         /\ \A i \in DOMAIN list : list[i].lineup \in Balanced(locked, order)
<1> DEFINE balanced == Balanced(locked, order)
<1>1. balanced \in SUBSET Lineup
  BY BalancedAreLineups
<1>2. Taken(list, balanced, ids, keys)
  <2>1. list \in Candidates(balanced, ids, keys)
    OBVIOUS
  <2> HIDE DEF balanced
  <2> QED
    BY <1>1, <2>1, CandidatesAreTaken
<1>3. list \in Seq(Candidate) /\ DOMAIN list = 1 .. Len(list)
  BY <1>2, LenProperties DEF Taken
<1>4. \A i \in DOMAIN list : list[i].lineup \in balanced
  <2> TAKE i \in DOMAIN list
  <2>1. list[i].lineup \in ModeTakes(list[i].mode, balanced, ids, UsedBy(list, keys, i))
    BY <1>2, <1>3 DEF Taken
  <2> HIDE DEF balanced
  <2> QED
    BY <2>1, ModeTakesBalanced
<1>5. ASSUME NEW i \in DOMAIN list, NEW j \in DOMAIN list,
             Key(list[i].lineup) = Key(list[j].lineup)
      PROVE  list[i].lineup = list[j].lineup
  BY <1>4, <1>5, KeyTells DEF Key
<1> QED
  BY <1>2, <1>3, <1>4, <1>5 DEF ListOK

(* What a request finds when it looks for candidates. *)
Found(r, order, list) ==
  LET q == calling[r]
  IN  /\ q.pc = "generate" /\ order \in Orders
      /\ q.locked = {} \/ seat \in Lineup
      /\ list \in Candidates(Balanced(q.locked, order), q.ids, q.keys)
      /\ list = <<>> => calling'[r] = [pc |-> "refused", order |-> order,
                                       reason |-> Reason(q.locked, order, q.ids, q.keys)]
      /\ list # <<>> => calling'[r] = [pc |-> "store", kind |-> q.kind, locked |-> q.locked,
                                       ids |-> q.ids, read |-> q.read, seen |-> seat,
                                       order |-> order, list |-> list]

LEMMA GenerateFinds ==
  ASSUME LineupInv, NEW r \in Caller, Generate(r)
  PROVE  /\ UNCHANGED <<roster, seat, offered>>
         /\ \A s \in Caller \ {r} : calling'[s] = calling[s]
         /\ \/ /\ calling'[r].pc = "refused"
               /\ calling'[r].reason = "LOCKED_PLAYER_ASSIGNMENT_MISSING"
            \/ \E order, list : Found(r, order, list)
<1> DEFINE q == calling[r]
<1>0. /\ q.pc = "generate" /\ UNCHANGED <<roster, seat, offered>>
      /\ calling \in [Caller -> Range(calling)]
  BY DEF Generate, LineupInv
<1>1. PICK order \in Orders :
        \/ Refuse(r, order, "LOCKED_PLAYER_ASSIGNMENT_MISSING")
        \/ /\ q.locked = {} \/ seat # None
           /\ \E list \in Candidates(Balanced(q.locked, order), q.ids, q.keys) :
                IF list = <<>> THEN Refuse(r, order, Reason(q.locked, order, q.ids, q.keys))
                ELSE Goto(r, [pc |-> "store", kind |-> q.kind, locked |-> q.locked,
                              ids |-> q.ids, read |-> q.read, seen |-> seat,
                              order |-> order, list |-> list])
  BY DEF Generate
<1>2. CASE Refuse(r, order, "LOCKED_PLAYER_ASSIGNMENT_MISSING")
  BY <1>0, <1>2 DEF Refuse, Goto
<1>3. CASE /\ q.locked = {} \/ seat # None
           /\ \E list \in Candidates(Balanced(q.locked, order), q.ids, q.keys) :
                IF list = <<>> THEN Refuse(r, order, Reason(q.locked, order, q.ids, q.keys))
                ELSE Goto(r, [pc |-> "store", kind |-> q.kind, locked |-> q.locked,
                              ids |-> q.ids, read |-> q.read, seen |-> seat,
                              order |-> order, list |-> list])
  <2>1. PICK list \in Candidates(Balanced(q.locked, order), q.ids, q.keys) :
          IF list = <<>> THEN Refuse(r, order, Reason(q.locked, order, q.ids, q.keys))
          ELSE Goto(r, [pc |-> "store", kind |-> q.kind, locked |-> q.locked,
                        ids |-> q.ids, read |-> q.read, seen |-> seat,
                        order |-> order, list |-> list])
    BY <1>3
  <2>2. q.locked = {} \/ seat \in Lineup
    BY <1>3 DEF LineupInv, SeatOK
  <2>3. CASE list = <<>>
    <3>1. /\ calling'[r] = [pc |-> "refused", order |-> order,
                            reason |-> Reason(q.locked, order, q.ids, q.keys)]
          /\ \A s \in Caller \ {r} : calling'[s] = calling[s]
      BY <1>0, <2>1, <2>3 DEF Refuse, Goto
    <3> QED
      BY <1>0, <2>1, <2>2, <2>3, <3>1 DEF Found
  <2>4. CASE list # <<>>
    <3>1. /\ calling'[r] = [pc |-> "store", kind |-> q.kind, locked |-> q.locked,
                            ids |-> q.ids, read |-> q.read, seen |-> seat,
                            order |-> order, list |-> list]
          /\ \A s \in Caller \ {r} : calling'[s] = calling[s]
      BY <1>0, <2>1, <2>4 DEF Goto
    <3> QED
      BY <1>0, <2>1, <2>2, <2>4, <3>1 DEF Found
  <2> QED
    BY <2>3, <2>4
<1> QED
  BY <1>1, <1>2, <1>3

(* Every candidate of a list that is found keeps the locks as they are. *)
LEMMA FoundKeepsLocks ==
  ASSUME NEW r \in Caller, NEW order, NEW list, Found(r, order, list),
         calling[r].locked \in SUBSET Player, NEW i \in DOMAIN list
  PROVE  Seated(list[i].lineup, calling[r].locked, seat)
<1>1. list[i].lineup \in Balanced(calling[r].locked, order) /\ order \in Orders
  BY AnswerKeys DEF Found
<1>2. CASE calling[r].locked = {}
  BY <1>2 DEF Seated
<1>3. CASE seat \in Lineup
  BY <1>1, <1>3, BalancedIsSeated
<1> QED
  BY <1>2, <1>3 DEF Found

(* What the caller of r sees of a step, and what the others keep. *)
LEMMA CallKeeps ==
  ASSUME LineupInv, NEW r \in Caller, NEW state, Goto(r, state), CallOK(state),
         SeatOK(seat'), ListOK(offered')
  PROVE  LineupInv'
<1>1. /\ calling' = [calling EXCEPT ![r] = state]
      /\ calling \in [Caller -> Range(calling)]
  BY DEF Goto, LineupInv
<1>2. calling'[r] = state /\ \A s \in Caller \ {r} : calling'[s] = calling[s]
  BY <1>1
<1>3. \A s \in Caller : CallOK(calling'[s])
  BY <1>2 DEF LineupInv
<1>4. (\A s \in Caller : CallOK(calling[s]))'
  BY <1>3 DEF CallOK, IdsOf
<1>5. calling' \in [Caller -> Range(calling')]
  BY <1>1 DEF Range
<1> QED
  BY <1>4, <1>5 DEF LineupInv, SeatOK, ListOK, Range

LEMMA AskKeeps ==
  ASSUME LineupInv, NEW r \in Caller, AskStep(r)
  PROVE  LineupInv'
<1>0. PICK locked \in Locks, extra \in Exclusions :
        \/ \E keys \in {extra.keys, KeysOf(offered)} : AutoBalance(r, locked, keys)
        \/ \E excludePrevious \in BOOLEAN : Reroll(r, locked, excludePrevious, extra)
  BY DEF AskStep
<1>1. locked \in SUBSET Player
  BY LineupAssumption
<1>2. ASSUME NEW keys, AutoBalance(r, locked, keys)
      PROVE  LineupInv'
  <2> DEFINE state == [pc |-> "generate", kind |-> "autoBalance", locked |-> locked,
                       ids |-> {}, keys |-> keys, read |-> <<>>]
  <2>1. Goto(r, state) /\ UNCHANGED <<seat, offered>>
    BY <1>2 DEF AutoBalance, Asks
  <2>2. CallOK(state)
    BY <1>1 DEF CallOK
  <2>3. SeatOK(seat') /\ ListOK(offered')
    BY <2>1 DEF LineupInv
  <2> QED
    BY <2>1, <2>2, <2>3, CallKeeps
<1>3. ASSUME NEW excludePrevious \in BOOLEAN, Reroll(r, locked, excludePrevious, extra)
      PROVE  LineupInv'
  <2> DEFINE keys == (IF excludePrevious THEN KeysOf(offered) ELSE {}) \cup extra.keys
  <2> DEFINE state == [pc |-> "generate", kind |-> "reroll", locked |-> locked,
                       ids |-> IdsOf(offered) \cup extra.ids, keys |-> keys, read |-> offered]
  <2>1. Goto(r, state) /\ UNCHANGED <<seat, offered>>
    BY <1>3 DEF Reroll, Asks
  <2>2. CallOK(state)
    BY <1>1 DEF CallOK
  <2>3. SeatOK(seat') /\ ListOK(offered')
    BY <2>1 DEF LineupInv
  <2> HIDE DEF state
  <2> QED
    BY <2>1, <2>2, <2>3, CallKeeps
<1> QED
  BY <1>0, <1>2, <1>3

LEMMA GenerateKeeps ==
  ASSUME LineupInv, NEW r \in Caller, Generate(r)
  PROVE  LineupInv'
<1> DEFINE q == calling[r]
<1>0. CallOK(q) /\ q.pc = "generate" /\ q.locked \in SUBSET Player
  BY DEF LineupInv, CallOK, Generate
<1>1. SeatOK(seat') /\ ListOK(offered')
  BY DEF LineupInv, Generate
<1>2. PICK state : Goto(r, state)
  BY DEF Generate, Refuse
<1>3. calling'[r] = state
  BY <1>2 DEF Goto, LineupInv
<1>4. CASE /\ calling'[r].pc = "refused"
           /\ calling'[r].reason = "LOCKED_PLAYER_ASSIGNMENT_MISSING"
  <2>1. CallOK(state)
    BY <1>3, <1>4 DEF CallOK
  <2> QED
    BY <1>1, <1>2, <2>1, CallKeeps
<1>5. ASSUME NEW order, NEW list, Found(r, order, list)
      PROVE  LineupInv'
  <2>1. CASE list = <<>>
    <3>1. CallOK(state)
      BY <1>3, <1>5, <2>1 DEF CallOK, Found
    <3> QED
      BY <1>1, <1>2, <3>1, CallKeeps
  <2>2. CASE list # <<>>
    <3>1. /\ state.pc = "store" /\ state.list = list /\ state.ids = q.ids /\ state.seen = seat
          /\ state.locked = q.locked /\ state.read = q.read /\ state.kind = q.kind
      BY <1>3, <1>5, <2>2 DEF Found
    <3>2. ListOK(list) /\ Taken(list, Balanced(q.locked, order), q.ids, q.keys)
      BY <1>0, <1>5, AnswerKeys DEF Found
    <3>3. ASSUME NEW i \in DOMAIN list
          PROVE  IdOf(list[i]) \notin q.ids
      <4>1. i \in 1 .. Len(list)
        BY <3>2, LenProperties DEF ListOK
      <4>2. list[i].lineup \in ModeTakes(list[i].mode, Balanced(q.locked, order), q.ids,
                                         UsedBy(list, q.keys, i))
        BY <3>2, <4>1 DEF Taken
      <4> QED
        BY <4>2, ModeTakesBalanced DEF IdOf
    <3>4. \A i \in DOMAIN list : Seated(list[i].lineup, q.locked, seat)
      BY <1>0, <1>5, FoundKeepsLocks
    <3>5. q.kind = "reroll" => IdsOf(q.read) \subseteq q.ids
      BY <1>0 DEF CallOK
    <3>6. CallOK(state)
      BY <3>1, <3>2, <3>3, <3>4, <3>5 DEF CallOK
    <3> QED
      BY <1>1, <1>2, <3>6, CallKeeps
  <2> QED
    BY <2>1, <2>2
<1> QED
  BY <1>4, <1>5, GenerateFinds

LEMMA LineupInductive ==
  ASSUME LineupInv, [DecisionsNext]_decisionVars
  PROVE  LineupInv'
<1>1. CASE UNCHANGED lineupVars
  BY <1>1 DEF LineupInv, SeatOK, ListOK, CallOK, IdsOf, Range, lineupVars
<1>2. ASSUME NEW r \in Caller, Persist(r)
      PROVE  LineupInv'
  <2>1. ListOK(calling[r].list)
    BY <1>2 DEF Persist, LineupInv, CallOK
  <2>2. CallOK(Resting)
    BY DEF CallOK, Resting
  <2>3. Goto(r, Resting) /\ SeatOK(seat') /\ ListOK(offered')
    BY <1>2, <2>1 DEF Persist, LineupInv
  <2> QED
    BY <2>2, <2>3, CallKeeps
<1>3. ASSUME NEW r \in Caller, AssignRead(r)
      PROVE  LineupInv'
  <2>1. PICK i \in DOMAIN offered : Goto(r, [pc |-> "assign", lineup |-> offered[i].lineup])
    BY <1>3 DEF AssignRead
  <2>2. CallOK([pc |-> "assign", lineup |-> offered[i].lineup])
    BY ListedLineup DEF CallOK, LineupInv
  <2>3. SeatOK(seat') /\ ListOK(offered')
    BY <1>3 DEF AssignRead, LineupInv
  <2> QED
    BY <2>1, <2>2, <2>3, CallKeeps
<1>4. ASSUME NEW r \in Caller, Assign(r)
      PROVE  LineupInv'
  <2>1. CallOK(Resting)
    BY DEF CallOK, Resting
  <2>2. Goto(r, Resting) /\ SeatOK(seat') /\ ListOK(offered')
    BY <1>4 DEF Assign, LineupInv, CallOK, SeatOK
  <2> QED
    BY <2>1, <2>2, CallKeeps
<1>5. CASE ManualBalance \/ Reopen
  <2>1. SeatOK(seat') /\ calling' = calling
    BY <1>5, ByHandAssumption DEF ManualBalance, Reopen, SeatOK
  <2>2. ListOK(offered')
    <3>1. ListOK(<<>>)
      BY EmptySeq DEF ListOK
    <3> QED
      BY <1>5, <3>1 DEF ManualBalance, Reopen, LineupInv
  <2> QED
    BY <2>1, <2>2 DEF LineupInv, SeatOK, ListOK, CallOK, IdsOf, Range
<1>6. CASE LineupNext
  BY <1>2, <1>3, <1>4, <1>5, <1>6, AskKeeps, GenerateKeeps DEF LineupNext
<1> QED
  BY <1>1, <1>6 DEF DecisionsNext, decisionVars, lineupVars

LEMMA LineupAlways == DecisionsSpec => []LineupInv
<1>1. DecisionsInit => LineupInv
  <2>1. ListOK(<<>>) /\ CallOK(Resting)
    BY EmptySeq DEF ListOK, CallOK, Resting
  <2>2. LineupInit => calling \in [Caller -> Range(calling)]
    BY DEF LineupInit, Range
  <2> QED
    BY <2>1, <2>2 DEF DecisionsInit, LineupInit, LineupInv, SeatOK
<1>2. LineupInv /\ [DecisionsNext]_decisionVars => LineupInv'
  BY LineupInductive
<1> QED
  BY <1>1, <1>2, PTL DEF DecisionsSpec

(* KeysIdentify: a key names team A only, and tells the candidates of a      *)
(* match apart, whatever was locked, rerolled and seated (candidateId,       *)
(* combinationKey).                                                          *)
THEOREM KeysTellLineups == DecisionsSpec => []KeysIdentify
<1>1. LineupInv => KeysIdentify
  BY DEF LineupInv, ListOK, KeysIdentify
<1> QED
  BY <1>1, LineupAlways, PTL

(* A request that has looked for candidates has found some, or none. *)
LEMMA GenerateStep ==
  ASSUME LineupInv, [DecisionsNext]_decisionVars, NEW r \in Caller,
         Generates(r) \/ (/\ Refuses(r)
                          /\ calling'[r].reason # "LOCKED_PLAYER_ASSIGNMENT_MISSING")
  PROVE  \E order, list : Found(r, order, list)
<1>0. calling \in [Caller -> Range(calling)] /\ calling[r].pc = "generate"
      /\ calling'[r].pc \in {"store", "refused"}
  BY DEF LineupInv, Generates, Refuses
<1>1. LineupNext
  BY <1>0 DEF DecisionsNext, decisionVars, lineupVars
<1>2. PICK s \in Caller : AskStep(s) \/ Generate(s) \/ Persist(s) \/ AssignRead(s) \/ Assign(s)
  BY <1>0, <1>1 DEF LineupNext, ManualBalance, Reopen
<1>3. \/ Generate(s)
      \/ calling[s].pc # "generate" /\ \E state : Goto(s, state)
  BY <1>2 DEF AskStep, AutoBalance, Reroll, Asks, Free, Persist, AssignRead, Assign
<1>4. CASE Generate(s)
  <2>1. s = r
    BY <1>0, <1>4, GenerateFinds
  <2> QED
    BY <1>0, <1>4, <2>1, GenerateFinds DEF Generates, Refuses
<1>5. CASE calling[s].pc # "generate" /\ \E state : Goto(s, state)
  BY <1>0, <1>5 DEF Goto
<1> QED
  BY <1>3, <1>4, <1>5

(* A list that is stored is the one that was found. *)
LEMMA StoreStep ==
  ASSUME LineupInv, [DecisionsNext]_decisionVars, NEW r \in Caller, Stores(r)
  PROVE  offered' = calling[r].list /\ CallOK(calling[r])
<1>0. /\ calling \in [Caller -> Range(calling)] /\ calling[r].pc = "store"
      /\ calling'[r].pc = "idle" /\ CallOK(calling[r])
  BY DEF LineupInv, Stores
<1>1. LineupNext
  BY <1>0 DEF DecisionsNext, decisionVars, lineupVars
<1>2. PICK s \in Caller : AskStep(s) \/ Generate(s) \/ Persist(s) \/ AssignRead(s) \/ Assign(s)
  BY <1>0, <1>1 DEF LineupNext, ManualBalance, Reopen
<1>3. \/ Persist(s)
      \/ calling[s].pc # "store" /\ \E state : Goto(s, state)
  BY <1>2 DEF AskStep, AutoBalance, Reroll, Asks, Free, Generate, Refuse, AssignRead, Assign
<1>4. CASE Persist(s)
  <2>1. s = r
    BY <1>0, <1>4 DEF Persist, Goto
  <2> QED
    BY <1>0, <1>4, <2>1 DEF Persist
<1>5. CASE calling[s].pc # "store" /\ \E state : Goto(s, state)
  BY <1>0, <1>5 DEF Goto
<1> QED
  BY <1>3, <1>4, <1>5

(* RerollMoves: what a reroll stores is new to its user, whatever is stored    *)
(* and seated while it computes; in another mode an excluded lineup comes back *)
(* only when nothing else is left (reroll, generateCandidates).                *)
THEOREM RerollsMove == DecisionsSpec => RerollMoves
<1>1. ASSUME LineupInv, [DecisionsNext]_decisionVars, NEW r \in Caller, Generates(r)
      PROVE  ComesBackLast(r)
  <2> SUFFICES ASSUME NEW i \in DOMAIN calling'[r].list,
                      Key(calling'[r].list[i].lineup) \in calling[r].keys,
                      NEW l \in Balanced(calling[r].locked, calling'[r].order),
                      <<calling'[r].list[i].mode, Key(l)>> \notin calling[r].ids
               PROVE  Key(l) \in calling[r].keys
                        \cup {Key(calling'[r].list[j].lineup) : j \in 1..(i - 1)}
    BY DEF ComesBackLast
  <2>1. PICK order, list : Found(r, order, list)
    BY <1>1, GenerateStep
  <2>2. list # <<>>
    BY <1>1, <2>1 DEF Found, Generates
  <2>3. calling'[r].order = order /\ calling'[r].list = list
    BY <2>1, <2>2 DEF Found
  <2> DEFINE q == calling[r]
  <2> DEFINE balanced == Balanced(q.locked, order)
  <2>4. q.locked \in SUBSET Player
    BY <1>1, <2>1 DEF LineupInv, CallOK, Found
  <2>5. Taken(list, balanced, q.ids, q.keys)
    BY <2>1, <2>4, AnswerKeys DEF Found
  <2>6. i \in 1 .. Len(list)
    BY <2>3, <2>5, LenProperties DEF Taken
  <2> DEFINE used == UsedBy(list, q.keys, i)
  <2>7. list[i].lineup \in ModeTakes(list[i].mode, balanced, q.ids, used)
    BY <2>5, <2>6 DEF Taken
  <2>8. Key(list[i].lineup) \in used =>
          \A m \in balanced : <<list[i].mode, Key(m)>> \notin q.ids => Key(m) \in used
    <3> HIDE DEF balanced, used
    <3> QED
      BY <2>7, ModeTakesBalanced
  <2>9. used = q.keys \cup {Key(list[j].lineup) : j \in 1..(i - 1)}
    BY DEF UsedBy
  <2>10. Key(list[i].lineup) \in used /\ l \in balanced /\ <<list[i].mode, Key(l)>> \notin q.ids
    BY <2>3, <2>9
  <2> QED
    BY <2>3, <2>8, <2>9, <2>10
<1>2. ASSUME LineupInv, [DecisionsNext]_decisionVars, NEW r \in Caller,
             Stores(r), calling[r].kind = "reroll"
      PROVE  OffersNew(r)
  <2> SUFFICES ASSUME NEW i \in DOMAIN offered'
               PROVE  /\ IdOf(offered'[i]) \notin calling[r].ids
                      /\ IdOf(offered'[i]) \in IdsOf(offered) => offered # calling[r].read
    BY DEF OffersNew
  <2>1. offered' = calling[r].list /\ CallOK(calling[r]) /\ calling[r].pc = "store"
    BY <1>2, StoreStep DEF Stores
  <2>2. IdOf(offered'[i]) \notin calling[r].ids /\ IdsOf(calling[r].read) \subseteq calling[r].ids
    BY <1>2, <2>1 DEF CallOK
  <2> QED
    BY <2>2 DEF IdsOf
<1>3. LineupInv /\ [DecisionsNext]_decisionVars =>
        [\A r \in Caller :
           /\ Generates(r) /\ calling[r].kind = "reroll" => ComesBackLast(r)
           /\ Stores(r) /\ calling[r].kind = "reroll" => OffersNew(r)]_lineupVars
  BY <1>1, <1>2
<1> QED
  BY <1>3, LineupAlways, PTL DEF DecisionsSpec, RerollMoves

(* The search finds something exactly when something fits. *)
LEMMA FoundMeansFitting ==
  ASSUME NEW order \in Orders, NEW locked \in SUBSET Player, locked = {} \/ seat \in Lineup
  PROVE  Balanced(locked, order) # {} <=>
           {l \in Lineup : order[1] \in Range(l.A) /\ Seated(l, locked, seat)} # {}
<1>1. ASSUME NEW l \in Balanced(locked, order)
      PROVE  l \in Lineup /\ order[1] \in Range(l.A) /\ Seated(l, locked, seat)
  <2>1. l \in Lineup /\ order[1] \in Range(l.A)
    BY BalancedMeans DEF Splits
  <2>2. CASE locked = {}
    BY <2>1, <2>2 DEF Seated
  <2>3. CASE seat \in Lineup
    BY <2>1, <2>3, BalancedIsSeated
  <2> QED
    BY <2>1, <2>2, <2>3
<1>2. \A l \in Lineup : order[1] \in Range(l.A) /\ Seated(l, locked, seat) => Balanced(locked, order) # {}
  BY FittingIsFound
<1> QED
  BY <1>1, <1>2

(* LocksKept: candidates leave the locked players where they sat when their    *)
(* seats were read; an automatic balance finds some whenever a lineup fits;     *)
(* and "all excluded" means every lineup, in every mode (respectsLockedTeams,   *)
(* findBestRoleAssignment, resolveCandidateFailureReason).                      *)
THEOREM LocksAreKept == DecisionsSpec => LocksKept
<1>1. ASSUME LineupInv, [DecisionsNext]_decisionVars, NEW r \in Caller,
             Stores(r), seat = calling[r].seen, NEW i \in DOMAIN offered'
      PROVE  Seated(offered'[i].lineup, calling[r].locked, seat)
  BY <1>1, StoreStep DEF Stores, CallOK
<1>2. ASSUME LineupInv, [DecisionsNext]_decisionVars, NEW r \in Caller,
             Refuses(r), calling'[r].reason # "LOCKED_PLAYER_ASSIGNMENT_MISSING"
      PROVE  RefusedRightly(r)
  <2>1. PICK order, list : Found(r, order, list)
    BY <1>2, GenerateStep
  <2> DEFINE q == calling[r]
  <2> DEFINE balanced == Balanced(q.locked, order)
  <2> DEFINE fitting == {l \in Lineup : order[1] \in Range(l.A) /\ Seated(l, q.locked, seat)}
  <2>2. list = <<>>
    BY <1>2, <2>1 DEF Found, Refuses
  <2>3. calling'[r].order = order /\ calling'[r].reason = Reason(q.locked, order, q.ids, q.keys)
    BY <2>1, <2>2 DEF Found
  <2>4. q.locked \in SUBSET Player /\ (q.kind = "autoBalance" => q.ids = {}) /\ order \in Orders
    BY <1>2, <2>1 DEF LineupInv, CallOK, Found
  <2>5. balanced # {} <=> fitting # {}
    BY <2>1, <2>4, FoundMeansFitting DEF Found
  <2>6. balanced \in SUBSET Lineup /\ <<>> \in Candidates(balanced, q.ids, q.keys)
    BY <2>1, <2>2, <2>4, BalancedAreLineups DEF Found
  <2>7. /\ q.ids = {} => balanced = {}
        /\ \A l \in balanced, m \in Range(Modes) : <<m, Key(l)>> \in q.ids
    <3>1. "BALANCED" \in Range(Modes)
      BY DEF Modes, Range
    <3> HIDE DEF balanced
    <3> QED
      BY <2>6, <3>1, CandidatesAreTaken
  <2>8. calling'[r].reason = "ALL_CANDIDATES_EXCLUDED" => balanced # {}
    BY <2>3 DEF Reason
  <2>9. /\ q.kind = "autoBalance" => fitting = {}
        /\ calling'[r].reason = "ALL_CANDIDATES_EXCLUDED" =>
             /\ fitting # {}
             /\ \A l \in balanced, m \in Range(Modes) : <<m, Key(l)>> \in q.ids
    <3> HIDE DEF balanced, fitting
    <3> QED
      BY <2>4, <2>5, <2>7, <2>8
  <2> QED
    BY <2>3, <2>9 DEF RefusedRightly
<1>3. LineupInv /\ [DecisionsNext]_decisionVars =>
        [\A r \in Caller :
           /\ Stores(r) /\ seat = calling[r].seen =>
                \A i \in DOMAIN offered' : Seated(offered'[i].lineup, calling[r].locked, seat)
           /\ Refuses(r) /\ calling'[r].reason # "LOCKED_PLAYER_ASSIGNMENT_MISSING" =>
                RefusedRightly(r)]_lineupVars
  BY <1>1, <1>2
<1> QED
  BY <1>3, LineupAlways, PTL DEF DecisionsSpec, LocksKept

-----------------------------------------------------------------------------
(* Champions: which of two stands first, among the rows of a summary. *)

FiniteRows(rows) == rows \in SUBSET Nat /\ IsFiniteSet(rows)

LEMMA CountsAreNat ==
  ASSUME NEW rows, FiniteRows(rows), NEW c
  PROVE  /\ Games(rows, c) \in Nat /\ Wins(rows, c) \in Nat
         /\ LatestSeasonGames(rows, c) \in Nat
<1>1. IsFiniteSet(RowsOf(rows, c))
  BY FS_Subset DEF FiniteRows, RowsOf
<1> DEFINE won == {i \in RowsOf(rows, c) : history[i].won}
<1> DEFINE latest == {i \in RowsOf(rows, c) : history[i].season = history[Min(rows)].season}
<1>2. IsFiniteSet(won) /\ IsFiniteSet(latest)
  <2>1. won \in SUBSET RowsOf(rows, c) /\ latest \in SUBSET RowsOf(rows, c)
    OBVIOUS
  <2> HIDE DEF won, latest
  <2> QED
    BY <1>1, <2>1, FS_Subset
<1>3. /\ Cardinality(RowsOf(rows, c)) \in Nat /\ Cardinality(won) \in Nat
      /\ Cardinality(latest) \in Nat
  BY <1>1, <1>2, FS_CardinalityType
<1> QED
  BY <1>3 DEF Games, Wins, LatestSeasonGames

(* The least of a set of numbers. *)
LEMMA MinIsLeast ==
  ASSUME NEW S, S \subseteq Nat, S # {}
  PROVE  Min(S) \in S /\ \A j \in S : Min(S) <= j
BY LeastNumber DEF Min

LEMMA LastPlayedTells ==
  ASSUME NEW rows, FiniteRows(rows), NEW c \in Played(rows)
  PROVE  /\ RowsOf(rows, c) # {} /\ Games(rows, c) >= 1
         /\ LastPlayed(rows, c) \in Nat /\ history[LastPlayed(rows, c)].champion = c
<1>1. RowsOf(rows, c) # {} /\ RowsOf(rows, c) \subseteq Nat
  BY DEF Played, RowsOf, FiniteRows
<1>2. LastPlayed(rows, c) \in RowsOf(rows, c)
  BY <1>1, MinIsLeast DEF LastPlayed
<1>3. Games(rows, c) # 0
  <2>1. IsFiniteSet(RowsOf(rows, c))
    BY FS_Subset DEF FiniteRows, RowsOf
  <2> QED
    BY <1>1, <2>1, FS_EmptySet DEF Games
<1>4. Games(rows, c) \in Nat
  BY CountsAreNat
<1> QED
  BY <1>1, <1>2, <1>3, <1>4 DEF RowsOf, FiniteRows

(* To outrank is a strict total order on the champions that were played. *)
LEMMA OutranksOrders ==
  ASSUME NEW rows, FiniteRows(rows), NEW c \in Played(rows), NEW d \in Played(rows)
  PROVE  /\ ~ Outranks(rows, c, c)
         /\ c # d => Outranks(rows, c, d) \/ Outranks(rows, d, c)
         /\ ~ (Outranks(rows, c, d) /\ Outranks(rows, d, c))
         /\ Outranks(rows, c, d) => Games(rows, d) <= Games(rows, c)
         /\ \A e \in Played(rows) :
              Outranks(rows, c, d) /\ Outranks(rows, d, e) => Outranks(rows, c, e)
<1>1. \A e \in Played(rows) :
        /\ Games(rows, e) \in Nat /\ LatestSeasonGames(rows, e) \in Nat
        /\ Wins(rows, e) \in Nat /\ LastPlayed(rows, e) \in Nat
  BY CountsAreNat, LastPlayedTells
<1>2. LastPlayed(rows, c) = LastPlayed(rows, d) => c = d
  BY LastPlayedTells
<1>3. ~ Outranks(rows, c, c)
  BY <1>1 DEF Outranks
<1>4. c # d => Outranks(rows, c, d) \/ Outranks(rows, d, c)
  BY <1>1, <1>2 DEF Outranks
<1>5. ~ (Outranks(rows, c, d) /\ Outranks(rows, d, c))
  BY <1>1 DEF Outranks
<1>6. Outranks(rows, c, d) => Games(rows, d) <= Games(rows, c)
  BY <1>1 DEF Outranks
<1>7. ASSUME NEW e \in Played(rows), Outranks(rows, c, d), Outranks(rows, d, e)
      PROVE  Outranks(rows, c, e)
  BY <1>1, <1>7 DEF Outranks
<1> QED
  BY <1>3, <1>4, <1>5, <1>6, <1>7

LEMMA PlayedFinite ==
  ASSUME NEW rows, FiniteRows(rows), NEW champions \in SUBSET Played(rows)
  PROVE  IsFiniteSet(champions) /\ Cardinality(champions) \in Nat
<1> DEFINE champion == [i \in rows |-> history[i].champion]
<1> DEFINE all == {history[i].champion : i \in rows}
<1>1. champion \in Surjection(rows, all)
  BY DEF Surjection
<1> HIDE DEF champion
<1>2. IsFiniteSet(all)
  BY <1>1, FS_Surjection DEF FiniteRows
<1>3. champions \in SUBSET all
  BY DEF Played
<1> HIDE DEF all
<1> QED
  BY <1>2, <1>3, FS_Subset, FS_CardinalityType

(* The sorted list has every champion once, and nobody before one who        *)
(* outranks him.                                                             *)
LEMMA InOrderSorts ==
  ASSUME NEW rows, FiniteRows(rows), NEW champions \in SUBSET Played(rows),
         NEW n, n = Cardinality(champions), NEW s, s = InOrder(rows, champions)
  PROVE  /\ n \in Nat /\ s \in [1 .. n -> champions]
         /\ \A c \in champions : \E i \in 1 .. n : s[i] = c
         /\ \A i, j \in 1 .. n : i < j => Outranks(rows, s[i], s[j])
<1> DEFINE ahead(c) == {d \in champions : Outranks(rows, d, c)}
<1> DEFINE rank(c) == Cardinality(ahead(c))
<1>0. IsFiniteSet(champions) /\ n \in Nat
  BY PlayedFinite
<1>1. ASSUME NEW c \in champions
      PROVE  IsFiniteSet(ahead(c)) /\ rank(c) \in Nat /\ rank(c) < n
  <2>1. c \in Played(rows)
    OBVIOUS
  <2>2. ahead(c) \subseteq champions \ {c}
    BY <2>1, OutranksOrders
  <2>3. IsFiniteSet(champions \ {c}) /\ Cardinality(champions \ {c}) = n - 1
    BY <1>0, FS_RemoveElement
  <2>4. IsFiniteSet(ahead(c)) /\ Cardinality(ahead(c)) <= n - 1
    <3> HIDE DEF ahead
    <3> QED
      BY <2>2, <2>3, FS_Subset
  <2>5. Cardinality(ahead(c)) \in Nat
    BY <2>4, FS_CardinalityType
  <2> HIDE DEF ahead
  <2> QED
    BY <1>0, <2>4, <2>5
<1>2. ASSUME NEW c \in champions, NEW d \in champions, Outranks(rows, c, d)
      PROVE  rank(c) < rank(d)
  <2>1. c \in Played(rows) /\ d \in Played(rows)
    OBVIOUS
  <2>2. ahead(c) \subseteq ahead(d)
    <3>1. ASSUME NEW e \in champions, Outranks(rows, e, c)
          PROVE  Outranks(rows, e, d)
      <4>1. e \in Played(rows)
        OBVIOUS
      <4> QED
        BY <1>2, <2>1, <3>1, <4>1, OutranksOrders
    <3> QED
      BY <3>1
  <2>3. c \in ahead(d) /\ c \notin ahead(c)
    BY <1>2, <2>1, OutranksOrders
  <2>4. ahead(c) # ahead(d)
    BY <2>3
  <2>5. IsFiniteSet(ahead(d)) /\ rank(c) \in Nat /\ rank(d) \in Nat
    BY <1>1
  <2>6. Cardinality(ahead(c)) <= Cardinality(ahead(d)) /\ Cardinality(ahead(c)) # Cardinality(ahead(d))
    <3> HIDE DEF ahead
    <3> QED
      BY <2>2, <2>4, <2>5, FS_Subset
  <2> HIDE DEF ahead
  <2> QED
    BY <2>5, <2>6
<1> HIDE DEF ahead
<1> DEFINE place == [c \in champions |-> rank(c) + 1]
<1>3. \A c, d \in champions : rank(c) = rank(d) => c = d
  <2> TAKE c \in champions, d \in champions
  <2>1. c \in Played(rows) /\ d \in Played(rows)
    OBVIOUS
  <2>2. c # d => rank(c) < rank(d) \/ rank(d) < rank(c)
    BY <1>2, <2>1, OutranksOrders
  <2>3. rank(c) \in Nat /\ rank(d) \in Nat
    BY <1>1
  <2> HIDE DEF rank
  <2> QED
    BY <2>2, <2>3
<1> HIDE DEF rank
<1>4. place \in Injection(champions, 1 .. n)
  <2>1. \A c \in champions : rank(c) + 1 \in 1 .. n
    BY <1>0, <1>1
  <2>2. place \in [champions -> 1 .. n]
    BY <2>1
  <2>3. \A c, d \in champions : place[c] = place[d] => c = d
    BY <1>1, <1>3
  <2> QED
    BY <2>2, <2>3 DEF Injection, IsInjective
<1>5. place \in Surjection(champions, 1 .. n)
  <2>1. IsFiniteSet(1 .. n) /\ Cardinality(1 .. n) = n
    BY <1>0, FS_Interval
  <2> HIDE DEF place
  <2> QED
    BY <1>4, <2>1, FS_Injection
<1>6. \A i \in 1 .. n : \E c \in champions : rank(c) = i - 1
  <2> TAKE i \in 1 .. n
  <2>1. PICK c \in champions : place[c] = i
    BY <1>5 DEF Surjection
  <2>2. rank(c) + 1 = i /\ rank(c) \in Nat
    BY <1>1, <2>1
  <2> QED
    BY <1>0, <2>2
<1>7. s = [i \in 1 .. n |-> CHOOSE c \in champions : rank(c) = i - 1]
  BY DEF InOrder, rank, ahead
<1>8. \A i \in 1 .. n : s[i] \in champions /\ rank(s[i]) = i - 1
  <2> TAKE i \in 1 .. n
  <2>1. s[i] = CHOOSE c \in champions : rank(c) = i - 1
    BY <1>7
  <2> QED
    BY <1>6, <2>1
<1>9. s \in [1 .. n -> champions]
  BY <1>7, <1>8
<1>10. ASSUME NEW c \in champions
       PROVE  \E i \in 1 .. n : s[i] = c
  <2>1. rank(c) \in Nat /\ rank(c) < n
    BY <1>1
  <2>2. rank(c) + 1 \in 1 .. n /\ (rank(c) + 1) - 1 = rank(c)
    BY <1>0, <2>1
  <2>3. s[rank(c) + 1] \in champions /\ rank(s[rank(c) + 1]) = rank(c)
    BY <1>8, <2>2
  <2> QED
    BY <1>3, <2>2, <2>3
<1>11. ASSUME NEW i \in 1 .. n, NEW j \in 1 .. n, i < j
       PROVE  Outranks(rows, s[i], s[j])
  <2>1. /\ s[i] \in champions /\ s[j] \in champions
        /\ rank(s[i]) = i - 1 /\ rank(s[j]) = j - 1
    BY <1>8
  <2>2. s[i] \in Played(rows) /\ s[j] \in Played(rows)
    BY <2>1
  <2>3. s[i] # s[j] /\ ~ (rank(s[j]) < rank(s[i]))
    BY <1>0, <1>11, <2>1
  <2> QED
    BY <1>2, <2>1, <2>2, <2>3, OutranksOrders
<1> QED
  BY <1>0, <1>9, <1>10, <1>11

(* A list of the most played champions, each once, as far as it goes. *)
Listing(rows, list) ==
  /\ list \in Seq(Played(rows)) /\ Len(list) <= TopLimit
  /\ \A i, j \in 1 .. Len(list) : list[i] = list[j] => i = j
  /\ \A c \in Played(rows) \ Range(list), d \in Range(list) : Games(rows, c) <= Games(rows, d)

LEMMA AddedLists ==
  ASSUME NEW rows, FiniteRows(rows), NEW list, Listing(rows, list), NEW threshold \in Nat,
         NEW new, new = Added(rows, list, threshold)
  PROVE  /\ Listing(rows, new) /\ Range(list) \subseteq Range(new)
         /\ \/ Range(new) = Range(list) \cup Picked(rows, threshold)
            \/ Len(new) = TopLimit
<1> DEFINE pool == Picked(rows, threshold) \ Range(list)
<1> DEFINE n == Cardinality(pool)
<1> DEFINE s == InOrder(rows, pool)
<1> DEFINE all == list \o s
<1> DEFINE m == IF Len(all) < TopLimit THEN Len(all) ELSE TopLimit
<1>1. pool \in SUBSET Played(rows)
  BY DEF Picked
<1>2. /\ n \in Nat /\ s \in [1 .. n -> pool]
      /\ \A c \in pool : \E i \in 1 .. n : s[i] = c
      /\ \A i, j \in 1 .. n : i < j => Outranks(rows, s[i], s[j])
  <2> HIDE DEF pool
  <2> QED
    BY <1>1, InOrderSorts
<1>3. /\ list \in Seq(Played(rows)) /\ Len(list) \in Nat /\ DOMAIN list = 1 .. Len(list)
      /\ TopLimit \in Nat /\ Len(list) <= TopLimit
      /\ Range(list) = {list[i] : i \in 1 .. Len(list)}
      /\ \A i \in 1 .. Len(list) : list[i] \in Played(rows)
  BY LenProperties, SummaryAssumption DEF Listing, Range
<1>4. /\ \A c \in Played(rows) : Games(rows, c) \in Nat
      /\ \A c \in pool : c \notin Range(list) /\ c \in Played(rows) /\ Games(rows, c) >= threshold
      /\ \A c \in Played(rows) \ pool : c \notin Range(list) => Games(rows, c) < threshold
  BY CountsAreNat DEF Picked
<1> HIDE DEF pool
<1>5. s \in Seq(Played(rows)) /\ Len(s) = n
  <2>1. \A i \in 1 .. n : s[i] \in Played(rows)
    BY <1>1, <1>2
  <2>2. s = [i \in 1 .. n |-> s[i]]
    BY <1>2
  <2> HIDE DEF s, n
  <2>3. [i \in 1 .. n |-> s[i]] \in Seq(Played(rows))
    BY <1>2, <2>1, IsASeq
  <2>4. s \in Seq(Played(rows)) /\ DOMAIN s = 1 .. n
    BY <1>2, <2>2, <2>3
  <2> QED
    BY <1>2, <2>4, LenProperties
<1> HIDE DEF s, n
<1>6. /\ all \in Seq(Played(rows)) /\ Len(all) = Len(list) + n
      /\ \A i \in 1 .. Len(list) : all[i] = list[i]
      /\ \A i \in 1 .. n : all[Len(list) + i] = s[i]
  <2>1. /\ all \in Seq(Played(rows)) /\ Len(all) = Len(list) + n
        /\ \A i \in 1 .. Len(list) + n :
             all[i] = IF i <= Len(list) THEN list[i] ELSE s[i - Len(list)]
    BY <1>3, <1>5, ConcatProperties
  <2>2. \A i \in 1 .. Len(list) : all[i] = list[i]
    BY <1>2, <1>3, <2>1
  <2>3. ASSUME NEW i \in 1 .. n
        PROVE  all[Len(list) + i] = s[i]
    <3>1. /\ Len(list) + i \in 1 .. Len(list) + n /\ ~ (Len(list) + i <= Len(list))
          /\ (Len(list) + i) - Len(list) = i
      BY <1>2, <1>3
    <3> QED
      BY <2>1, <3>1
  <2> HIDE DEF all
  <2> QED
    BY <2>1, <2>2, <2>3
<1> HIDE DEF all
<1>7. m \in Nat /\ Len(list) <= m /\ m <= Len(list) + n /\ m <= TopLimit
  BY <1>2, <1>3, <1>6
<1>8. m = Len(list) + n \/ m = TopLimit
  BY <1>6
<1>9. new = SubSeq(all, 1, m)
  BY DEF Added, all, s, pool
<1> HIDE DEF m
<1>10. /\ new \in Seq(Played(rows)) /\ Len(new) = m
       /\ \A i \in 1 .. m : new[i] = all[i]
  <2>1. \A i \in 1 .. m : all[i] \in Played(rows)
    BY <1>2, <1>3, <1>6, <1>7, LenProperties
  <2>2. /\ SubSeq(all, 1, m) \in Seq(Played(rows))
        /\ Len(SubSeq(all, 1, m)) = IF 1 <= m THEN m - 1 + 1 ELSE 0
        /\ \A i \in 1 .. m - 1 + 1 : SubSeq(all, 1, m)[i] = all[1 + i - 1]
    BY <1>7, <2>1, SubSeqProperties
  <2>3. m - 1 + 1 = m /\ \A i \in 1 .. m : 1 + i - 1 = i
    BY <1>7
  <2>4. Len(SubSeq(all, 1, m)) = m
    BY <1>7, <2>2
  <2>5. \A i \in 1 .. m : SubSeq(all, 1, m)[i] = all[i]
    BY <2>2, <2>3
  <2> QED
    BY <1>9, <2>2, <2>4, <2>5
(* Where the members of the new list come from. *)
<1>11. ASSUME NEW i \in 1 .. m
       PROVE  \/ i \in 1 .. Len(list) /\ new[i] = list[i]
              \/ \E k \in 1 .. n : i = Len(list) + k /\ new[i] = s[k]
  <2>1. CASE i <= Len(list)
    BY <1>3, <1>6, <1>10, <2>1
  <2>2. CASE i > Len(list)
    <3>1. i - Len(list) \in 1 .. n /\ i = Len(list) + (i - Len(list))
      BY <1>2, <1>3, <1>7, <2>2
    <3>2. new[i] = s[i - Len(list)]
      BY <1>6, <1>10, <3>1
    <3> QED
      BY <3>1, <3>2
  <2> QED
    BY <1>3, <1>7, <2>1, <2>2
<1>12. Range(new) = {new[i] : i \in 1 .. m}
  BY <1>10, LenProperties DEF Range
<1>13. Range(list) \subseteq Range(new)
  <2>1. ASSUME NEW i \in 1 .. Len(list)
        PROVE  i \in 1 .. m /\ new[i] = list[i]
    BY <1>3, <1>6, <1>7, <1>10
  <2> QED
    BY <1>3, <1>12, <2>1
<1>14. \A k \in 1 .. n : Len(list) + k <= m => s[k] \in Range(new)
  <2> TAKE k \in 1 .. n
  <2> HAVE Len(list) + k <= m
  <2>1. Len(list) + k \in 1 .. m
    BY <1>2, <1>3, <1>7
  <2>2. new[Len(list) + k] = s[k]
    BY <1>6, <1>10, <2>1
  <2> QED
    BY <1>12, <2>1, <2>2
<1>15. \A i, j \in 1 .. n : s[i] = s[j] => i = j
  <2> TAKE i \in 1 .. n, j \in 1 .. n
  <2>1. s[i] \in Played(rows) /\ s[j] \in Played(rows)
    BY <1>1, <1>2
  <2>2. ~ Outranks(rows, s[i], s[i])
    BY <2>1, OutranksOrders
  <2>3. (i < j => Outranks(rows, s[i], s[j])) /\ (j < i => Outranks(rows, s[j], s[i]))
    BY <1>2
  <2> QED
    BY <1>2, <2>2, <2>3
<1>16. ASSUME NEW i \in 1 .. m, NEW j \in 1 .. m, new[i] = new[j]
       PROVE  i = j
  <2>1. \A k \in 1 .. n, e \in 1 .. Len(list) : s[k] # list[e]
    BY <1>2, <1>3, <1>4
  <2>2. \A d, e \in 1 .. Len(list) : list[d] = list[e] => d = e
    BY DEF Listing
  <2> QED
    BY <1>11, <1>15, <1>16, <2>1, <2>2
<1>17. ASSUME NEW c \in Played(rows) \ Range(new), NEW d \in Range(new)
       PROVE  Games(rows, c) <= Games(rows, d)
  <2>1. PICK i \in 1 .. m : d = new[i]
    BY <1>12
  <2>2. CASE i \in 1 .. Len(list) /\ new[i] = list[i]
    <3>1. d \in Range(list) /\ c \notin Range(list)
      BY <1>3, <1>13, <1>17, <2>1, <2>2
    <3> QED
      BY <1>17, <3>1 DEF Listing
  <2>3. CASE \E k \in 1 .. n : i = Len(list) + k /\ new[i] = s[k]
    <3>1. PICK k \in 1 .. n : i = Len(list) + k /\ d = s[k]
      BY <2>1, <2>3
    <3>2. d \in pool /\ d \in Played(rows) /\ c \in Played(rows) /\ c \notin Range(list)
      BY <1>2, <1>4, <1>13, <1>17, <3>1
    <3>3. CASE c \in pool
      <4>1. PICK l \in 1 .. n : s[l] = c
        BY <1>2, <3>3
      <4>2. ~ (Len(list) + l <= m)
        BY <1>14, <1>17, <4>1
      <4>3. k < l
        BY <1>2, <1>3, <1>7, <3>1, <4>2
      <4>4. Outranks(rows, d, c)
        BY <1>2, <3>1, <4>1, <4>3
      <4> QED
        BY <3>2, <4>4, OutranksOrders
    <3>4. CASE c \notin pool
      <4>1. Games(rows, c) < threshold /\ threshold <= Games(rows, d)
        BY <1>4, <3>2, <3>4
      <4>2. Games(rows, c) \in Nat /\ Games(rows, d) \in Nat
        BY <1>4, <3>2
      <4> QED
        BY <4>1, <4>2
    <3> QED
      BY <3>3, <3>4
  <2> QED
    BY <1>11, <2>2, <2>3
<1>18. Listing(rows, new)
  BY <1>7, <1>10, <1>16, <1>17 DEF Listing
<1>19. m = Len(list) + n => Range(new) = Range(list) \cup Picked(rows, threshold)
  <2> HAVE m = Len(list) + n
  <2>1. \A k \in 1 .. n : Len(list) + k <= m
    BY <1>2, <1>3
  <2>2. pool \subseteq Range(new)
    BY <1>2, <1>14, <2>1
  <2>3. Range(new) \subseteq Range(list) \cup pool
    BY <1>2, <1>3, <1>11, <1>12
  <2> QED
    BY <1>13, <2>2, <2>3 DEF pool
<1> QED
  BY <1>8, <1>10, <1>13, <1>18, <1>19

(* What a summary shows: the most played, as many as there are. *)
LEMMA TopIsMostPlayed ==
  ASSUME NEW rows, FiniteRows(rows), NEW top, top = TopChampions(rows)
  PROVE  /\ Listing(rows, top)
         /\ Range(top) = Played(rows) \/ Len(top) = TopLimit
         /\ top = <<>> <=> Played(rows) = {}
<1> DEFINE first == Added(rows, <<>>, MeaningfulGames)
<1> DEFINE second == Added(rows, first, 2)
<1>1. TopLimit \in Nat /\ TopLimit # 0 /\ MeaningfulGames \in Nat
  BY SummaryAssumption
<1>2. Listing(rows, <<>>)
  <2>1. Range(<<>>) = {}
    BY DEF Range
  <2> QED
    BY <1>1, <2>1 DEF Listing
<1>3. Listing(rows, first)
  BY <1>1, <1>2, AddedLists
<1> HIDE DEF first
<1>4. Listing(rows, second)
  BY <1>3, AddedLists
<1> HIDE DEF second
<1>5. top = Added(rows, second, 1)
  BY DEF TopChampions, second, first
<1>6. /\ Listing(rows, top)
      /\ Range(top) = Range(second) \cup Picked(rows, 1) \/ Len(top) = TopLimit
  BY <1>4, <1>5, AddedLists
<1>7. Picked(rows, 1) = Played(rows)
  BY LastPlayedTells DEF Picked
<1>8. Range(second) \subseteq Played(rows)
  BY <1>4, LenProperties DEF Listing, Range
<1>9. Range(top) = Played(rows) \/ Len(top) = TopLimit
  BY <1>6, <1>7, <1>8
<1>10. top \in Seq(Played(rows)) /\ Range(top) = {top[i] : i \in 1 .. Len(top)}
       /\ Len(top) \in Nat /\ \A i \in 1 .. Len(top) : top[i] \in Played(rows)
  BY <1>6, LenProperties DEF Listing, Range
<1>11. ASSUME top = <<>>
       PROVE  Played(rows) = {}
  <2>1. Len(top) = 0
    BY <1>11
  <2> QED
    BY <1>1, <1>9, <1>10, <2>1
<1>12. ASSUME Played(rows) = {}
       PROVE  top = <<>>
  <2>1. Len(top) = 0
    BY <1>10, <1>12
  <2> QED
    BY <1>10, <2>1, EmptySeq
<1> QED
  BY <1>6, <1>9, <1>11, <1>12

-----------------------------------------------------------------------------
(* The rows, the account and what a request for a summary has read. *)

Account == {a \in [synced : BOOLEAN, processed : Nat, next : Nat, complete : BOOLEAN] :
              a.complete => a.synced}
Erased  == account = NoAccount /\ stored = {}

RowsInv ==
  /\ history \in Seq(Row) /\ stored \in SUBSET (1 .. Len(history))
  /\ account = NoAccount \/ account \in Account
  /\ syncs \in Nat /\ summaries \in Nat

(* A request that has read the diagnostics finds what they counted, unless   *)
(* a withdrawal erased everything meanwhile.                                 *)
ReadInv ==
  /\ \/ request = Idle
     \/ request \in [step : {"diagnostics"}, account : Account]
     \/ request \in [step : {"history"}, account : Account,
                     total : Nat, eligible : Nat, ranked : Nat]
  /\ request # Idle => request.account # NoAccount
  /\ request.step = "history" =>
       /\ request.ranked > 0 => request.eligible > 0
       /\ ~ Erased => /\ request.eligible > 0 => Eligible(stored) # {}
                      /\ request.ranked > 0 => Ranked(stored) # {}

(* The last list can only grow, unless everything was erased. *)
AnswerInv ==
  answer.top # <<>> /\ ~ Erased =>
    /\ answer.ranked \in BOOLEAN
    /\ \A c \in Listed(answer) :
         GamesOf(answer, c) \in Nat /\ GamesOf(answer, c) <= Games(History(stored, answer.ranked), c)
    /\ answer.ranked => /\ Ranked(stored) # {}
                        /\ request.step = "history" => request.ranked > 0

ChampionInv == RowsInv /\ ReadInv /\ AnswerInv

LEMMA RowsAreFinite ==
  ASSUME RowsInv
  PROVE  /\ FiniteRows(stored) /\ FiniteRows(Ranked(stored)) /\ FiniteRows(Eligible(stored))
         /\ \A b \in BOOLEAN : FiniteRows(History(stored, b))
         /\ \A i \in stored : history[i] \in Row
<1>1. Len(history) \in Nat /\ DOMAIN history = 1 .. Len(history)
      /\ \A i \in 1 .. Len(history) : history[i] \in Row
  BY LenProperties DEF RowsInv
<1>2. IsFiniteSet(1 .. Len(history))
  BY <1>1, FS_Interval
<1>3. \A rows : rows \in SUBSET stored => FiniteRows(rows)
  <2> TAKE rows
  <2> HAVE rows \in SUBSET stored
  <2>1. rows \in SUBSET (1 .. Len(history))
    BY DEF RowsInv
  <2>2. IsFiniteSet(rows)
    BY <1>2, <2>1, FS_Subset
  <2> QED
    BY <1>1, <2>1, <2>2 DEF FiniteRows
<1>4. stored \in SUBSET stored /\ Ranked(stored) \in SUBSET stored /\ Eligible(stored) \in SUBSET stored
  BY DEF Ranked, Eligible
<1>5. FiniteRows(stored) /\ FiniteRows(Ranked(stored)) /\ FiniteRows(Eligible(stored))
  BY <1>3, <1>4
<1>6. \A i \in stored : history[i] \in Row
  BY <1>1 DEF RowsInv
<1> QED
  BY <1>5, <1>6 DEF History

(* What a summary that shows something says. *)
LEMMA ReadyShows ==
  ASSUME NEW rows, FiniteRows(rows), NEW top, top = TopChampions(rows), top # <<>>,
         NEW acc, NEW diagnostics, NEW b, NEW a, a = Ready(acc, diagnostics, rows, b)
  PROVE  /\ a.top # <<>> /\ a.ranked = b /\ a.status # "EMPTY"
         /\ Listed(a) = Range(top) /\ Len(a.top) = Len(top) /\ Cardinality(Listed(a)) = Len(top)
         /\ \A c \in Listed(a) : GamesOf(a, c) = Games(rows, c)
<1>1. /\ Listing(rows, top) /\ top \in Seq(Played(rows))
      /\ DOMAIN top = 1 .. Len(top) /\ Len(top) \in Nat
      /\ \A i \in 1 .. Len(top) : top[i] \in Played(rows)
      /\ \A i, j \in 1 .. Len(top) : top[i] = top[j] => i = j
      /\ Range(top) = {top[i] : i \in 1 .. Len(top)}
  BY TopIsMostPlayed, LenProperties DEF Listing, Range
<1> DEFINE item(i) == [champion |-> top[i], games |-> Games(rows, top[i])]
<1>2. /\ a.top = [i \in 1 .. Len(top) |-> item(i)] /\ a.ranked = b /\ a.status # "EMPTY"
  BY <1>1 DEF Ready
<1>3. DOMAIN a.top = 1 .. Len(top) /\ \A i \in 1 .. Len(top) : a.top[i] = item(i)
  BY <1>2
<1>4. a.top \in Seq({item(i) : i \in 1 .. Len(top)})
  <2> DEFINE items == {item(i) : i \in 1 .. Len(top)}
  <2>1. \A i \in 1 .. Len(top) : item(i) \in items
    OBVIOUS
  <2> HIDE DEF items, item
  <2> QED
    BY <1>1, <1>2, <2>1, IsASeq DEF items
<1>5. Len(a.top) = Len(top)
  <2>1. DOMAIN a.top = 1 .. Len(a.top) /\ Len(a.top) \in Nat
    BY <1>4, LenProperties
  <2> QED
    BY <1>1, <1>3, <2>1
<1>6. a.top # <<>>
  <2>1. Len(top) # 0
    BY <1>1, EmptySeq
  <2> QED
    BY <1>5, <2>1
<1>7. Listed(a) = Range(top)
  <2>1. ASSUME NEW i \in 1 .. Len(top)
        PROVE  a.top[i].champion = top[i]
    <3>1. a.top[i] = item(i)
      BY <1>3
    <3>2. item(i).champion = top[i]
      OBVIOUS
    <3> HIDE DEF item
    <3> QED
      BY <3>1, <3>2
  <2>2. Listed(a) = {a.top[i].champion : i \in 1 .. Len(top)}
    BY <1>3 DEF Listed
  <2>3. Listed(a) \subseteq Range(top) /\ Range(top) \subseteq Listed(a)
    BY <1>1, <2>1, <2>2
  <2> QED
    BY <2>3
<1>8. Cardinality(Range(top)) = Len(top)
  <2>1. IsFiniteSet(1 .. Len(top)) /\ Cardinality(1 .. Len(top)) = Len(top)
    BY <1>1, FS_Interval
  <2>2. top \in [1 .. Len(top) -> Range(top)]
    <3>1. top \in [1 .. Len(top) -> Played(rows)]
      BY <1>1, LenProperties
    <3> QED
      BY <1>1, <3>1
  <2>3. top \in Surjection(1 .. Len(top), Range(top)) /\ top \in Injection(1 .. Len(top), Range(top))
    BY <1>1, <2>2 DEF Surjection, Injection, IsInjective
  <2>4. ExistsBijection(1 .. Len(top), Range(top))
    BY <2>3 DEF ExistsBijection, Bijection
  <2> QED
    BY <2>1, <2>4, FS_Bijection
<1>9. ASSUME NEW c \in Listed(a)
      PROVE  GamesOf(a, c) = Games(rows, c)
  <2>1. PICK i \in 1 .. Len(top) : top[i] = c
    BY <1>1, <1>7, <1>9
  <2>2. Range(a.top) = {item(j) : j \in 1 .. Len(top)}
    <3>1. Range(a.top) = {a.top[j] : j \in 1 .. Len(top)}
      BY <1>3 DEF Range
    <3>2. \A j \in 1 .. Len(top) : a.top[j] = item(j)
      BY <1>3
    <3> HIDE DEF item
    <3>3. /\ Range(a.top) \subseteq {item(j) : j \in 1 .. Len(top)}
          /\ {item(j) : j \in 1 .. Len(top)} \subseteq Range(a.top)
      BY <3>1, <3>2
    <3> QED
      BY <3>3
  <2>3. item(i) \in Range(a.top) /\ item(i).champion = c
    BY <2>1, <2>2
  <2>4. \A t \in Range(a.top) : t.champion = c => t.games = Games(rows, c)
    BY <2>2
  <2>5. GamesOf(a, c) = (CHOOSE t \in Range(a.top) : t.champion = c).games
    BY DEF GamesOf
  <2> QED
    BY <2>3, <2>4, <2>5
<1> QED
  BY <1>2, <1>5, <1>6, <1>7, <1>8, <1>9

-----------------------------------------------------------------------------
(* How a summary is answered. *)

(* No account, nothing stored, or the history that was read. *)
NoAccountAnswered ==
  /\ account = NoAccount
  /\ answer' = Empty("no_riot_account", NoAccount, NoDiagnostics, FALSE)
NothingStoredAnswered ==
  /\ request.step = "diagnostics" /\ request.account \in Account /\ request.account # NoAccount
  /\ stored = {}
  /\ \E queued \in BOOLEAN :
       answer' = Empty(NoRowsReason(request.account, queued), request.account,
                       NoDiagnostics, FALSE)
HistoryAnswered ==
  /\ request.step = "history" /\ request.account \in Account /\ request.account # NoAccount
  /\ request.total \in Nat /\ request.eligible \in Nat /\ request.ranked \in Nat
  /\ answer' = Answer(request.account, request, History(stored, request.ranked > 0),
                      request.ranked > 0)

LEMMA RequestStep ==
  ASSUME ReadInv
  PROVE  /\ request.step = "diagnostics" =>
              request.account \in Account /\ request.account # NoAccount
         /\ request.step = "history" =>
              /\ request.account \in Account /\ request.account # NoAccount
              /\ request.total \in Nat /\ request.eligible \in Nat /\ request.ranked \in Nat
BY DEF ReadInv, Idle

LEMMA ReplyKinds ==
  ASSUME ChampionInv, [DecisionsNext]_decisionVars, Replied
  PROVE  /\ UNCHANGED <<history, stored, account, syncs>>
         /\ request' = Idle /\ summaries' = summaries + 1
         /\ NoAccountAnswered \/ NothingStoredAnswered \/ HistoryAnswered
<1>1. ChampionNext
  BY DEF Replied, DecisionsNext, decisionVars, championVars
<1>2. SummaryBegin \/ ReadDiagnostics \/ ReadHistory
  BY <1>1 DEF ChampionNext, Replied, Store, SyncQueued, SyncEnds, EraseAll
<1>3. CASE SummaryBegin
  BY <1>1, <1>3 DEF SummaryBegin, Reply, Replied, ChampionNext, NoAccountAnswered
<1>4. CASE ReadDiagnostics
  BY <1>1, <1>4, RequestStep
  DEF ReadDiagnostics, Reply, Replied, ChampionNext, NothingStoredAnswered, ChampionInv
<1>5. CASE ReadHistory
  BY <1>1, <1>5, RequestStep DEF ReadHistory, Reply, ChampionNext, HistoryAnswered, ChampionInv
<1> QED
  BY <1>2, <1>3, <1>4, <1>5

(* An answer from the history either lists the champions of its rows, or     *)
(* there are none.                                                           *)
LEMMA HistoryAnswers ==
  ASSUME RowsInv, HistoryAnswered, NEW rows, rows = History(stored, request.ranked > 0),
         NEW top, top = TopChampions(rows)
  PROVE  /\ FiniteRows(rows) /\ answer'.ranked = (request.ranked > 0)
         /\ answer'.ranked \in BOOLEAN
         /\ answer'.top # <<>> <=> top # <<>>
         /\ top # <<>> => /\ answer' = Ready(request.account, request, rows, request.ranked > 0)
                          /\ answer'.status # "EMPTY" /\ rows # {}
         /\ top = <<>> => /\ answer' = Empty(EmptyReason(request.account, request, rows),
                                             request.account, request, request.ranked > 0)
                          /\ answer'.status = "EMPTY"
<1>1. (request.ranked > 0) \in BOOLEAN
  OBVIOUS
<1>2. FiniteRows(rows)
  BY <1>1, RowsAreFinite
<1>3. CASE top # <<>>
  <2>1. answer' = Ready(request.account, request, rows, request.ranked > 0)
    BY <1>3 DEF HistoryAnswered, Answer
  <2>2. answer'.top # <<>> /\ answer'.ranked = (request.ranked > 0) /\ answer'.status # "EMPTY"
    BY <1>2, <1>3, <2>1, ReadyShows
  <2>3. rows # {}
    <3>1. Played(rows) # {}
      BY <1>2, <1>3, TopIsMostPlayed
    <3> QED
      BY <3>1 DEF Played
  <2> QED
    BY <1>1, <1>2, <1>3, <2>1, <2>2, <2>3
<1>4. CASE top = <<>>
  <2>1. answer' = Empty(EmptyReason(request.account, request, rows), request.account, request,
                        request.ranked > 0)
    BY <1>4 DEF HistoryAnswered, Answer
  <2>2. answer'.top = <<>> /\ answer'.ranked = (request.ranked > 0) /\ answer'.status = "EMPTY"
    BY <2>1 DEF Empty
  <2> QED
    BY <1>1, <1>2, <1>4, <2>1, <2>2
<1> QED
  BY <1>3, <1>4

-----------------------------------------------------------------------------
(* ChampionInv is inductive. *)

(* Rows are only added, unless all are erased. *)
Grows == ~ Erased' => ~ Erased /\ stored \subseteq stored'

LEMMA FiniteLater == RowsInv' => (\A b \in BOOLEAN : FiniteRows(History(stored, b)))'
<1>1. RowsInv => \A b \in BOOLEAN : FiniteRows(History(stored, b))
  BY RowsAreFinite
<1> QED
  BY <1>1, PTL

LEMMA ScopesGrow ==
  ASSUME RowsInv, RowsInv', history' = history, stored \subseteq stored'
  PROVE  /\ Ranked(stored) \subseteq Ranked(stored)' /\ Eligible(stored) \subseteq Eligible(stored)'
         /\ \A b \in BOOLEAN : \A c :
              /\ Games(History(stored, b), c) \in Nat /\ Games(History(stored, b), c)' \in Nat
              /\ Games(History(stored, b), c) <= Games(History(stored, b), c)'
<1>1. Ranked(stored) \subseteq Ranked(stored)' /\ Eligible(stored) \subseteq Eligible(stored)'
  BY DEF Ranked, Eligible
<1>2. ASSUME NEW b \in BOOLEAN, NEW c
      PROVE  /\ Games(History(stored, b), c) \in Nat /\ Games(History(stored, b), c)' \in Nat
             /\ Games(History(stored, b), c) <= Games(History(stored, b), c)'
  <2> DEFINE now == RowsOf(History(stored, b), c)
  <2> DEFINE later == {i \in History(stored, b)' : history[i].champion = c}
  <2>1. now \subseteq later
    BY <1>1 DEF RowsOf, History
  <2>2. /\ Games(History(stored, b), c) = Cardinality(now)
        /\ Games(History(stored, b), c)' = Cardinality(later)
    BY DEF Games, RowsOf
  <2>3. IsFiniteSet(History(stored, b)')
    <3>1. FiniteRows(History(stored, b))'
      BY FiniteLater
    <3> QED
      BY <3>1 DEF FiniteRows
  <2>4. IsFiniteSet(later)
    <3>1. later \in SUBSET History(stored, b)'
      OBVIOUS
    <3> HIDE DEF later
    <3> QED
      BY <2>3, <3>1, FS_Subset
  <2> HIDE DEF now, later
  <2>5. IsFiniteSet(now) /\ Cardinality(now) <= Cardinality(later)
    BY <2>1, <2>4, FS_Subset
  <2>6. Cardinality(now) \in Nat /\ Cardinality(later) \in Nat
    BY <2>4, <2>5, FS_CardinalityType
  <2> QED
    BY <2>2, <2>5, <2>6
<1> QED
  BY <1>1, <1>2

LEMMA AnswerKept ==
  ASSUME AnswerInv, RowsInv, RowsInv', history' = history, answer' = answer, Grows,
         ~ Erased /\ Ranked(stored) # {} /\ answer.ranked =>
           (request'.step = "history" => request'.ranked > 0)
           \/ (request'.step = "history" /\ request' = request)
  PROVE  AnswerInv'
<1> SUFFICES ASSUME answer.top # <<>>, ~ Erased'
             PROVE  /\ answer.ranked \in BOOLEAN
                    /\ \A c \in Listed(answer) :
                         /\ GamesOf(answer, c) \in Nat
                         /\ GamesOf(answer, c) <= Games(History(stored, answer.ranked), c)'
                    /\ answer.ranked => /\ Ranked(stored)' # {}
                                        /\ request'.step = "history" => request'.ranked > 0
  BY DEF AnswerInv, Listed, GamesOf
<1>1. ~ Erased /\ stored \subseteq stored'
  BY DEF Grows
<1>2. /\ answer.ranked \in BOOLEAN
      /\ \A c \in Listed(answer) : /\ GamesOf(answer, c) \in Nat
                                   /\ GamesOf(answer, c) <= Games(History(stored, answer.ranked), c)
      /\ answer.ranked => /\ Ranked(stored) # {}
                          /\ request.step = "history" => request.ranked > 0
  BY <1>1 DEF AnswerInv
<1>3. /\ Ranked(stored) \subseteq Ranked(stored)'
      /\ \A b \in BOOLEAN : \A c :
           /\ Games(History(stored, b), c) \in Nat /\ Games(History(stored, b), c)' \in Nat
           /\ Games(History(stored, b), c) <= Games(History(stored, b), c)'
  BY <1>1, ScopesGrow
<1>4. ASSUME NEW c \in Listed(answer)
      PROVE  GamesOf(answer, c) \in Nat /\ GamesOf(answer, c) <= Games(History(stored, answer.ranked), c)'
  <2>1. PICK b \in BOOLEAN : b = answer.ranked
    BY <1>2
  <2>2. /\ GamesOf(answer, c) \in Nat /\ GamesOf(answer, c) <= Games(History(stored, b), c)
    BY <1>2, <2>1
  <2>3. GamesOf(answer, c) <= Games(History(stored, b), c)'
    BY <1>3, <2>2
  <2>4. Games(History(stored, answer.ranked), c)' = Games(History(stored, b), c)'
    BY <2>1
  <2> QED
    BY <2>2, <2>3, <2>4
<1>5. answer.ranked => /\ Ranked(stored)' # {}
                       /\ request'.step = "history" => request'.ranked > 0
  BY <1>1, <1>2, <1>3
<1> QED
  BY <1>2, <1>4, <1>5

LEMMA RequestKept ==
  ASSUME ReadInv, RowsInv, RowsInv', history' = history, request' = request, Grows
  PROVE  ReadInv'
<1>1. ~ Erased' => /\ ~ Erased /\ Ranked(stored) \subseteq Ranked(stored)'
                   /\ Eligible(stored) \subseteq Eligible(stored)'
  BY ScopesGrow DEF Grows
<1> QED
  BY <1>1 DEF ReadInv

LEMMA ReplyKeepsInv ==
  ASSUME ChampionInv, [DecisionsNext]_decisionVars, Replied
  PROVE  ChampionInv'
<1>1. /\ UNCHANGED <<history, stored, account, syncs>>
      /\ request' = Idle /\ summaries' = summaries + 1
      /\ NoAccountAnswered \/ NothingStoredAnswered \/ HistoryAnswered
  BY ReplyKinds
<1>2. RowsInv'
  BY <1>1 DEF ChampionInv, RowsInv
<1>3. Idle.step # "history"
  BY DEF Idle
<1>4. ReadInv'
  BY <1>1, <1>3 DEF ReadInv
<1>5. CASE NoAccountAnswered \/ NothingStoredAnswered
  <2>1. answer'.top = <<>>
    BY <1>5 DEF NoAccountAnswered, NothingStoredAnswered, Empty
  <2> QED
    BY <1>2, <1>4, <2>1 DEF ChampionInv, AnswerInv
<1>6. CASE HistoryAnswered
  <2> DEFINE rows == History(stored, request.ranked > 0)
  <2> DEFINE top == TopChampions(rows)
  <2>1. RowsInv
    BY DEF ChampionInv
  <2>2. /\ FiniteRows(rows) /\ answer'.ranked = (request.ranked > 0) /\ answer'.ranked \in BOOLEAN
        /\ answer'.top # <<>> <=> top # <<>>
        /\ top # <<>> => /\ answer' = Ready(request.account, request, rows, request.ranked > 0)
                         /\ rows # {}
    BY <1>6, <2>1, HistoryAnswers
  <2>3. ASSUME answer'.top # <<>>
        PROVE  /\ \A c \in Listed(answer') :
                    GamesOf(answer', c) \in Nat /\ GamesOf(answer', c) <= Games(rows, c)
               /\ answer'.ranked => Ranked(stored) # {}
    <3>1. \A c \in Listed(answer') : GamesOf(answer', c) = Games(rows, c)
      <4>1. answer' = Ready(request.account, request, rows, request.ranked > 0) /\ top # <<>>
        BY <2>2, <2>3
      <4> HIDE DEF rows
      <4> QED
        BY <2>2, <4>1, ReadyShows
    <3>2. \A c : Games(rows, c) \in Nat
      <4> HIDE DEF rows
      <4> QED
        BY <2>2, CountsAreNat
    <3>3. answer'.ranked => Ranked(stored) # {}
      BY <2>2, <2>3 DEF History
    <3> HIDE DEF rows
    <3> QED
      BY <3>1, <3>2, <3>3
  <2>4. Ranked(stored)' = Ranked(stored)
    BY <1>1 DEF Ranked
  <2>5. \A c : Games(History(stored, answer.ranked), c)' = Games(rows, c)
    BY <1>1, <2>2 DEF Games, RowsOf, History, Ranked, Eligible
  <2>6. AnswerInv'
    <3> HIDE DEF rows
    <3> QED
      BY <1>1, <1>3, <2>2, <2>3, <2>4, <2>5 DEF AnswerInv, Listed, GamesOf
  <2> QED
    BY <1>2, <1>4, <2>6 DEF ChampionInv
<1> QED
  BY <1>1, <1>5, <1>6

(* A step that answers nothing reads, stores, synchronises or erases. *)
LEMMA OtherKeepsInv ==
  ASSUME ChampionInv, ChampionNext, ~ Replied
  PROVE  ChampionInv'
<1>0. RowsInv /\ ReadInv /\ AnswerInv /\ history' = history
      /\ summaries' = summaries /\ summaries \in Nat /\ summaries + 1 # summaries
      /\ Len(history) \in Nat /\ DOMAIN history = 1 .. Len(history)
  BY LenProperties DEF ChampionInv, ChampionNext, Replied, RowsInv
<1>1. CASE SummaryBegin
  <2>1. /\ account # NoAccount /\ request' = [step |-> "diagnostics", account |-> account]
        /\ UNCHANGED <<answer, stored, account, syncs>>
    BY <1>0, <1>1 DEF SummaryBegin, Reply
  <2>2. RowsInv'
    BY <1>0, <2>1 DEF RowsInv
  <2>3. ReadInv'
    BY <1>0, <2>1 DEF ReadInv, RowsInv, Idle
  <2>4. Grows
    BY <2>1 DEF Grows, Erased
  <2>5. request'.step # "history"
    BY <2>1
  <2>6. AnswerInv'
    BY <1>0, <2>1, <2>2, <2>4, <2>5, AnswerKept
  <2> QED
    BY <2>2, <2>3, <2>6 DEF ChampionInv
<1>2. CASE ReadDiagnostics
  <2>1. /\ request.step = "diagnostics" /\ stored # {}
        /\ request' = [step |-> "history", account |-> request.account,
                       total |-> Cardinality(stored), eligible |-> Cardinality(Eligible(stored)),
                       ranked |-> Cardinality(Ranked(stored))]
        /\ UNCHANGED <<answer, stored, account, syncs>>
    BY <1>0, <1>2 DEF ReadDiagnostics, Reply
  <2>2. RowsInv'
    BY <1>0, <2>1 DEF RowsInv
  <2>3. IsFiniteSet(stored) /\ IsFiniteSet(Eligible(stored)) /\ IsFiniteSet(Ranked(stored))
    BY <1>0, RowsAreFinite DEF FiniteRows
  <2>4. /\ Cardinality(stored) \in Nat /\ Cardinality(Eligible(stored)) \in Nat
        /\ Cardinality(Ranked(stored)) \in Nat
    BY <2>3, FS_CardinalityType
  <2>5. /\ Cardinality(Eligible(stored)) = 0 <=> Eligible(stored) = {}
        /\ Cardinality(Ranked(stored)) = 0 <=> Ranked(stored) = {}
    BY <2>3, FS_EmptySet
  <2>6. Ranked(stored) \subseteq Eligible(stored)
    BY DEF Ranked, Eligible
  <2>7. Ranked(stored)' = Ranked(stored) /\ Eligible(stored)' = Eligible(stored)
    BY <1>0, <2>1 DEF Ranked, Eligible
  <2>8. request.account \in Account /\ request.account # NoAccount
    BY <1>0, <2>1, RequestStep
  <2>9. ReadInv'
    <3>1. request' \in [step : {"history"}, account : Account,
                        total : Nat, eligible : Nat, ranked : Nat]
      BY <2>1, <2>4, <2>8
    <3>2. /\ request'.account # NoAccount
          /\ request'.eligible = Cardinality(Eligible(stored))
          /\ request'.ranked = Cardinality(Ranked(stored))
      BY <2>1, <2>8
    <3>3. /\ request'.ranked > 0 => Ranked(stored) # {}
          /\ request'.eligible > 0 => Eligible(stored) # {}
          /\ request'.ranked > 0 => request'.eligible > 0
      BY <2>4, <2>5, <2>6, <3>2
    <3> QED
      BY <2>7, <3>1, <3>2, <3>3 DEF ReadInv
  <2>10. Grows
    BY <2>1 DEF Grows, Erased
  <2>11. Ranked(stored) # {} => request'.ranked > 0
    BY <2>1, <2>4, <2>5
  <2>12. AnswerInv'
    BY <1>0, <2>1, <2>2, <2>10, <2>11, AnswerKept
  <2> QED
    BY <2>2, <2>9, <2>12 DEF ChampionInv
<1>3. CASE ReadHistory
  BY <1>0, <1>3 DEF ReadHistory, Reply
<1>4. ASSUME NEW i \in DOMAIN history, Store(i)
      PROVE  ChampionInv'
  <2>1. /\ account # NoAccount /\ stored' = stored \cup {i}
        /\ UNCHANGED <<account, request, answer, syncs>>
    BY <1>4 DEF Store
  <2>2. RowsInv'
    BY <1>0, <1>4, <2>1 DEF RowsInv
  <2>3. Grows
    BY <2>1 DEF Grows, Erased
  <2> QED
    BY <1>0, <2>1, <2>2, <2>3, AnswerKept, RequestKept DEF ChampionInv
<1>5. CASE SyncQueued
  <2>1. /\ account # NoAccount /\ account' = [account EXCEPT !.processed = 0]
        /\ UNCHANGED <<stored, request, answer, syncs>>
    BY <1>5 DEF SyncQueued
  <2>2. RowsInv'
    BY <1>0, <2>1 DEF RowsInv, Account
  <2>3. Grows
    BY <2>1 DEF Grows, Erased
  <2> QED
    BY <1>0, <2>1, <2>2, <2>3, AnswerKept, RequestKept DEF ChampionInv
<1>6. ASSUME NEW processed \in Processed, NEW next \in 0..1, NEW complete \in BOOLEAN,
             SyncEnds(processed, next, complete)
      PROVE  ChampionInv'
  <2>1. /\ account # NoAccount /\ syncs' = syncs + 1
        /\ account' = [synced |-> TRUE, processed |-> processed,
                       next |-> IF account.complete THEN account.next ELSE next,
                       complete |-> account.complete \/ complete]
        /\ UNCHANGED <<stored, request, answer>>
    BY <1>6 DEF SyncEnds
  <2>2. account \in Account /\ processed \in Nat
    BY <1>0, <2>1, SummaryAssumption DEF RowsInv
  <2>3. account' \in Account
    <3>1. (account.complete \/ complete) \in BOOLEAN
      OBVIOUS
    <3>2. (IF account.complete THEN account.next ELSE next) \in Nat
      BY <2>2 DEF Account
    <3> QED
      BY <2>1, <2>2, <3>1, <3>2 DEF Account
  <2>4. RowsInv'
    BY <1>0, <2>1, <2>3 DEF RowsInv
  <2>5. Grows
    BY <2>1 DEF Grows, Erased
  <2> QED
    BY <1>0, <2>1, <2>4, <2>5, AnswerKept, RequestKept DEF ChampionInv
<1>7. CASE EraseAll
  <2>1. /\ stored' = {} /\ account' = NoAccount
        /\ UNCHANGED <<request, answer, syncs>>
    BY <1>7 DEF EraseAll
  <2>2. RowsInv'
    BY <1>0, <2>1 DEF RowsInv
  <2>3. Erased'
    BY <2>1 DEF Erased
  <2>4. ReadInv'
    BY <1>0, <2>1, <2>3 DEF ReadInv
  <2>5. AnswerInv'
    BY <2>3 DEF AnswerInv
  <2> QED
    BY <2>2, <2>4, <2>5 DEF ChampionInv
<1> QED
  BY <1>1, <1>2, <1>3, <1>4, <1>5, <1>6, <1>7 DEF ChampionNext

LEMMA ChampionInductive ==
  ASSUME ChampionInv, [DecisionsNext]_decisionVars
  PROVE  ChampionInv'
<1>1. CASE Replied
  BY <1>1, ReplyKeepsInv
<1>2. CASE UNCHANGED championVars
  <2>1. UNCHANGED <<history, stored, account, request, answer, syncs, summaries>>
    BY <1>2 DEF championVars
  <2>2. RowsInv'
    BY <2>1 DEF ChampionInv, RowsInv
  <2>3. Grows
    BY <2>1 DEF Grows, Erased
  <2>4. ReadInv'
    BY <2>1, <2>2, <2>3, RequestKept DEF ChampionInv
  <2>5. AnswerInv'
    BY <2>1, <2>2, <2>3, AnswerKept DEF ChampionInv
  <2> QED
    BY <2>2, <2>4, <2>5 DEF ChampionInv
<1>3. CASE ChampionNext /\ ~ Replied
  BY <1>3, OtherKeepsInv
<1> QED
  BY <1>1, <1>2, <1>3 DEF DecisionsNext, decisionVars, championVars

LEMMA ChampionAlways == DecisionsSpec => []ChampionInv
<1>1. DecisionsInit => ChampionInv
  <2> SUFFICES ASSUME DecisionsInit PROVE ChampionInv
    OBVIOUS
  <2>1. /\ history \in Seq(Row) /\ account \in {Fresh, NoAccount}
        /\ stored \in {i..Len(history) : i \in 1..(Len(history) + 1)}
        /\ request = Idle /\ answer = NoAnswer /\ syncs = 0 /\ summaries = 0
    BY HistoryAssumption DEF DecisionsInit, ChampionInit
  <2>2. stored \in SUBSET (1 .. Len(history))
    BY <2>1, LenProperties
  <2>3. Fresh \in Account
    BY DEF Fresh, Account
  <2>4. RowsInv
    BY <2>1, <2>2, <2>3 DEF RowsInv
  <2>5. ReadInv
    BY <2>1 DEF ReadInv, Idle
  <2>6. AnswerInv
    BY <2>1 DEF AnswerInv, NoAnswer
  <2> QED
    BY <2>4, <2>5, <2>6 DEF ChampionInv
<1>2. ChampionInv /\ [DecisionsNext]_decisionVars => ChampionInv'
  BY ChampionInductive
<1> QED
  BY <1>1, <1>2, PTL DEF DecisionsSpec

(* GamesNeverShrink: what was shown can only grow (findChampionHistoryByPuuid *)
(* reads every stored row of the scope, and rows are only added).            *)
THEOREM ShownGamesNeverShrink == DecisionsSpec => GamesNeverShrink
<1> DEFINE kept ==
      /\ answer.ranked => answer'.ranked
      /\ answer.ranked = answer'.ranked =>
           \A c \in Listed(answer) \cap Listed(answer') :
             GamesOf(answer, c) <= GamesOf(answer', c)
<1>1. ASSUME ChampionInv, [DecisionsNext]_decisionVars, Replied,
             answer.top # <<>>, answer'.top # <<>>
      PROVE  kept
  <2> DEFINE rows == History(stored, request.ranked > 0)
  <2> DEFINE top == TopChampions(rows)
  <2>1. NoAccountAnswered \/ NothingStoredAnswered \/ HistoryAnswered
    BY <1>1, ReplyKinds
  <2>2. HistoryAnswered
    BY <1>1, <2>1 DEF NoAccountAnswered, NothingStoredAnswered, Empty
  <2>3. /\ FiniteRows(rows) /\ answer'.ranked = (request.ranked > 0) /\ top # <<>> /\ rows # {}
        /\ answer' = Ready(request.account, request, rows, request.ranked > 0)
    BY <1>1, <2>2, HistoryAnswers DEF ChampionInv
  <2>4. \A c \in Listed(answer') : GamesOf(answer', c) = Games(rows, c)
    <3> HIDE DEF rows
    <3> QED
      BY <2>3, ReadyShows
  <2>5. ~ Erased
    BY <2>3 DEF History, Ranked, Eligible, Erased
  <2>6. /\ answer.ranked \in BOOLEAN
        /\ \A c \in Listed(answer) : GamesOf(answer, c) <= Games(History(stored, answer.ranked), c)
        /\ answer.ranked => request.ranked > 0
    BY <1>1, <2>2, <2>5 DEF ChampionInv, AnswerInv, HistoryAnswered
  <2>7. answer.ranked = answer'.ranked => History(stored, answer.ranked) = rows
    BY <2>3
  <2>8. answer.ranked => answer'.ranked
    BY <2>3, <2>6
  <2>9. ASSUME answer.ranked = answer'.ranked, NEW c \in Listed(answer) \cap Listed(answer')
        PROVE  GamesOf(answer, c) <= GamesOf(answer', c)
    <3>1. GamesOf(answer, c) <= Games(rows, c) /\ GamesOf(answer', c) = Games(rows, c)
      BY <2>4, <2>6, <2>7, <2>9
    <3> QED
      BY <3>1
  <2> QED
    BY <2>8, <2>9
<1>2. ChampionInv /\ [DecisionsNext]_decisionVars =>
        [Replied /\ answer.top # <<>> /\ answer'.top # <<>> => kept]_championVars
  BY <1>1
<1> QED
  BY <1>2, ChampionAlways, PTL DEF DecisionsSpec, GamesNeverShrink

LEMMA NothingPlayed == TopChampions({}) = <<>>
<1>1. FiniteRows({}) /\ Played({}) = {}
  BY FS_EmptySet DEF FiniteRows, Played
<1> QED
  BY <1>1, TopIsMostPlayed

(* EmptyIsTrue: nothing is shown only when there is nothing, and the reason  *)
(* given is the true one (resolveNoRowsReason and the reasons of             *)
(* getTopChampionSummaryForUser).                                            *)
THEOREM EmptySummariesAreTrue == DecisionsSpec => EmptyIsTrue
<1> DEFINE true ==
      /\ answer'.reason # "no_riot_account" =>
           TopChampions(History(stored, answer'.ranked)) = <<>>
      /\ CASE answer'.reason = "no_riot_account" -> account = NoAccount
           [] answer'.reason = "all_filtered" -> Eligible(stored) = {}
           [] answer'.reason = "mapping_failure" -> stored # {}
           [] OTHER -> stored = {} /\ (request.step = "history" => account = NoAccount)
<1>1. ASSUME ChampionInv, [DecisionsNext]_decisionVars, Replied, answer'.status = "EMPTY"
      PROVE  true
  <2>1. NoAccountAnswered \/ NothingStoredAnswered \/ HistoryAnswered
    BY <1>1, ReplyKinds
  <2>2. CASE NoAccountAnswered
    BY <2>2 DEF NoAccountAnswered, Empty
  <2>3. CASE NothingStoredAnswered
    <3>0. PICK queued \in BOOLEAN :
            answer' = Empty(NoRowsReason(request.account, queued), request.account,
                            NoDiagnostics, FALSE)
      BY <2>3 DEF NothingStoredAnswered
    <3>1. /\ stored = {} /\ request.step = "diagnostics" /\ answer'.ranked = FALSE
          /\ answer'.reason = NoRowsReason(request.account, queued)
      BY <2>3, <3>0 DEF NothingStoredAnswered, Empty
    <3>2. answer'.reason \in {"no_sync", "insufficient_backfill"}
      BY <3>1 DEF NoRowsReason
    <3>3. History(stored, answer'.ranked) = {}
      BY <3>1 DEF History, Eligible
    <3> QED
      BY <3>1, <3>2, <3>3, NothingPlayed
  <2>4. CASE HistoryAnswered
    <3> DEFINE rows == History(stored, request.ranked > 0)
    <3>1. /\ FiniteRows(rows) /\ answer'.ranked = (request.ranked > 0)
          /\ TopChampions(rows) = <<>>
          /\ answer' = Empty(EmptyReason(request.account, request, rows),
                             request.account, request, request.ranked > 0)
      BY <1>1, <2>4, HistoryAnswers DEF ChampionInv
    <3>2. answer'.reason = EmptyReason(request.account, request, rows)
      BY <3>1 DEF Empty
    <3>3. /\ request.step = "history" /\ request.ranked \in Nat /\ request.eligible \in Nat
          /\ request.ranked > 0 => request.eligible > 0
          /\ ~ Erased => /\ request.eligible > 0 => Eligible(stored) # {}
                         /\ request.ranked > 0 => Ranked(stored) # {}
      BY <1>1, <2>4 DEF HistoryAnswered, ChampionInv, ReadInv
    <3>4. CASE rows = {} /\ request.eligible = 0
      <4>1. answer'.reason = "all_filtered"
        BY <3>2, <3>4 DEF EmptyReason
      <4>2. Eligible(stored) = {}
        BY <3>3, <3>4 DEF History
      <4> HIDE DEF rows
      <4> QED
        BY <3>1, <4>1, <4>2 DEF rows
    <3>5. CASE rows = {} /\ request.eligible # 0
      <4>1. answer'.reason \in {"insufficient_backfill", "insufficient_sample"}
        BY <3>2, <3>5 DEF EmptyReason, Insufficient
      <4>2. Erased
        BY <3>3, <3>5 DEF History
      <4> HIDE DEF rows
      <4> QED
        BY <3>1, <4>1, <4>2 DEF rows, Erased
    <3>6. CASE rows # {}
      <4>1. Played(rows) = {}
        <5> HIDE DEF rows
        <5> QED
          BY <3>1, TopIsMostPlayed
      <4>2. rows \subseteq stored
        BY DEF History, Ranked, Eligible
      <4>3. \A i \in rows : history[i] \in Row
        BY <1>1, <4>2, RowsAreFinite DEF ChampionInv
      <4>4. \E i \in rows : history[i].champion = Unmapped
        <5> HIDE DEF rows
        <5> QED
          BY <3>6, <4>1, <4>3 DEF Played, Row
      <4>5. answer'.reason = "mapping_failure"
        BY <3>2, <3>6, <4>4 DEF EmptyReason
      <4>6. stored # {}
        BY <3>6, <4>2
      <4> HIDE DEF rows
      <4> QED
        BY <3>1, <4>5, <4>6 DEF rows
    <3> QED
      BY <3>4, <3>5, <3>6
  <2> QED
    BY <2>1, <2>2, <2>3, <2>4
<1>2. ChampionInv /\ [DecisionsNext]_decisionVars =>
        [Replied /\ answer'.status = "EMPTY" => true]_championVars
  BY <1>1
<1> QED
  BY <1>2, ChampionAlways, PTL DEF DecisionsSpec, EmptyIsTrue

(* MostPlayedListed: the champions listed are the most played, READY is said *)
(* of a complete history only, and a backfill is asked for when there is too *)
(* little (buildTopChampions, buildReadyStatus, buildSyncCoverageSummary).   *)
THEOREM TheMostPlayedAreListed == DecisionsSpec => MostPlayedListed
<1> DEFINE rows == History(stored, answer'.ranked)
<1> DEFINE listed ==
      /\ answer'.top # <<>> =>
           /\ Cardinality(Listed(answer')) = Len(answer'.top)
           /\ Listed(answer') = Played(rows) \/ Len(answer'.top) = TopLimit
           /\ \A c \in Played(rows) \ Listed(answer'), d \in Listed(answer') :
                 Games(rows, c) <= Games(rows, d)
      /\ answer'.status = "READY" =>
           /\ request.account.complete
           /\ ~ answer'.backfill
           /\ \E c \in Listed(answer') : Games(rows, c) >= MeaningfulGames
      /\ answer'.reason \in {"no_sync", "insufficient_backfill"} =>
           answer'.backfill
<1>1. ASSUME ChampionInv, [DecisionsNext]_decisionVars, Replied
      PROVE  listed
  <2>1. NoAccountAnswered \/ NothingStoredAnswered \/ HistoryAnswered
    BY <1>1, ReplyKinds
  <2>2. CASE NoAccountAnswered
    <3>1. answer'.top = <<>> /\ answer'.status = "EMPTY" /\ answer'.reason = "no_riot_account"
      BY <2>2 DEF NoAccountAnswered, Empty
    <3> QED
      BY <3>1
  <2>3. CASE NothingStoredAnswered
    <3>1. /\ answer'.top = <<>> /\ answer'.status = "EMPTY"
          /\ answer'.backfill = Backfill(request.account, NoDiagnostics)
      BY <2>3 DEF NothingStoredAnswered, Empty
    <3>2. request.account.complete => request.account.synced
      BY <2>3 DEF NothingStoredAnswered, Account
    <3>3. Backfill(request.account, NoDiagnostics)
      BY <2>3, <3>2 DEF Backfill, NeedsBackfill, NoDiagnostics, NothingStoredAnswered
    <3> QED
      BY <3>1, <3>3
  <2>4. CASE HistoryAnswered
    <3> DEFINE found == History(stored, request.ranked > 0)
    <3> DEFINE top == TopChampions(found)
    <3>1. /\ FiniteRows(found) /\ rows = found
          /\ answer'.top # <<>> <=> top # <<>>
          /\ top # <<>> => answer' = Ready(request.account, request, found, request.ranked > 0)
          /\ top = <<>> => answer' = Empty(EmptyReason(request.account, request, found),
                                           request.account, request, request.ranked > 0)
      BY <1>1, <2>4, HistoryAnswers DEF ChampionInv
    <3>2. request.account # NoAccount
      BY <2>4 DEF HistoryAnswered
    <3>3. CASE top = <<>>
      <4>1. /\ answer'.top = <<>> /\ answer'.status = "EMPTY"
            /\ answer'.reason = EmptyReason(request.account, request, found)
            /\ answer'.backfill = Backfill(request.account, request)
        BY <3>1, <3>3 DEF Empty
      <4>2. answer'.reason \in {"no_sync", "insufficient_backfill"} =>
              NeedsBackfill(request.account, request)
        BY <4>1 DEF EmptyReason, Insufficient
      <4> QED
        BY <3>2, <4>1, <4>2 DEF Backfill
    <3>4. CASE top # <<>>
      <4> HIDE DEF rows, found
      <4>1. answer' = Ready(request.account, request, found, request.ranked > 0)
        BY <3>1, <3>4
      <4>2. /\ Listed(answer') = Range(top) /\ Len(answer'.top) = Len(top)
            /\ Cardinality(Listed(answer')) = Len(top)
        BY <3>1, <3>4, <4>1, ReadyShows
      <4>3. /\ Listing(found, top)
            /\ Range(top) = Played(found) \/ Len(top) = TopLimit
        BY <3>1, TopIsMostPlayed
      <4>4. \A c \in Played(found) \ Range(top), d \in Range(top) :
              Games(found, c) <= Games(found, d)
        BY <4>3 DEF Listing
      <4>5. /\ answer'.backfill = Backfill(request.account, request)
            /\ answer'.reason = IF NeedsBackfill(request.account, request)
                                THEN "insufficient_backfill"
                                ELSE IF SmallSample(found) THEN "insufficient_sample" ELSE "none"
            /\ answer'.status = "READY" =>
                 ~ NeedsBackfill(request.account, request) /\ ~ SmallSample(found)
        BY <4>1 DEF Ready
      <4>6. answer'.status = "READY" => request.account.complete /\ ~ answer'.backfill
        BY <4>5 DEF Backfill, NeedsBackfill
      <4>7. ASSUME answer'.status = "READY"
            PROVE  \E c \in Range(top) : Games(found, c) >= MeaningfulGames
        <5>1. PICK c \in Played(found) : Games(found, c) >= MeaningfulGames
          BY <4>5, <4>7 DEF SmallSample, Picked
        <5>2. CASE c \in Range(top)
          BY <5>1, <5>2
        <5>3. CASE c \notin Range(top)
          <6>1. Len(top) \in Nat /\ Len(top) # 0 /\ Range(top) = {top[i] : i \in 1 .. Len(top)}
            BY <3>4, <4>3, LenProperties, EmptySeq DEF Listing, Range
          <6>2. PICK d : d \in Range(top)
            BY <6>1
          <6>3. Games(found, c) <= Games(found, d)
            BY <4>4, <5>3, <6>2
          <6>4. Games(found, c) \in Nat /\ Games(found, d) \in Nat /\ MeaningfulGames \in Nat
            BY <3>1, CountsAreNat, SummaryAssumption
          <6> QED
            BY <5>1, <6>2, <6>3, <6>4
        <5> QED
          BY <5>2, <5>3
      <4>8. answer'.reason \in {"no_sync", "insufficient_backfill"} => answer'.backfill
        BY <3>2, <4>5 DEF Backfill
      <4> QED
        BY <3>1, <4>2, <4>3, <4>4, <4>6, <4>7, <4>8
    <3> QED
      BY <3>3, <3>4
  <2> QED
    BY <2>1, <2>2, <2>3, <2>4
<1>2. ChampionInv /\ [DecisionsNext]_decisionVars => [Replied => listed]_championVars
  BY <1>1
<1> QED
  BY <1>2, ChampionAlways, PTL DEF DecisionsSpec, MostPlayedListed
=============================================================================
