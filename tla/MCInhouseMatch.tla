--------------------------- MODULE MCInhouseMatch ---------------------------
(* Values of the constants of InhouseMatch and MatchViews for TLC. *)
EXTENDS MatchViews, TLC

CONSTANTS u1, u2, u3, s1, s2, TOP

(* Votes: in favour, and against. *)
Approve == [action |-> "CONFIRM", proposal |-> NoTeam]
Object == [action |-> "DISPUTE", proposal |-> NoTeam]

ApproveOnly == {Approve}
ObjectOnly == {Object}
ApproveOrObject == {Approve, Object}

(* Users, and requests, are interchangeable in the safety runs. *)
TwoPlayerSymmetry == Permutations({u1, u2}) \cup Permutations({s1, s2})
ThreePlayerSymmetry == Permutations({u1, u2, u3}) \cup Permutations({s1, s2})
UserSymmetry == Permutations({u1, u2})
=============================================================================
