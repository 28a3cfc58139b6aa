----------------------------- MODULE MCRiotSync -----------------------------
(* Instances of RiotSync for TLC. *)
EXTENDS RiotSync, TLC

CONSTANTS u1, u2, p1, p2, r1, r2

OneSession == r1 :> u1
TwoUsers   == r1 :> u1 @@ r2 :> u2

PuuidSymmetry == Permutations({p1, p2})
=============================================================================
