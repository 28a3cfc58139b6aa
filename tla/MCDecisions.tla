---------------------------- MODULE MCDecisions ----------------------------
(* Values of the constants of Decisions for TLC. *)
EXTENDS Decisions

CONSTANTS u1, u2, u3, h1, h2, TOP, JUNGLE

FourBallots ==
  {[action |-> "CONFIRM", proposal |-> NoTeam], [action |-> "DISPUTE", proposal |-> NoTeam],
   [action |-> "SUGGEST_CHANGE", proposal |-> "B"], [action |-> "CONFIRM", proposal |-> "B"]}

Symmetry == Permutations({u1, u2, u3}) \cup Permutations({h1, h2})

TwoLanes == <<TOP, JUNGLE>>

Likes(primary, secondary, fill) ==
    [primary |-> primary, secondary |-> secondary, fill |-> fill]
OneRoster == {<<Likes(TOP, None, FALSE), Likes(TOP, None, FALSE),
                Likes(TOP, JUNGLE, TRUE), Likes(JUNGLE, None, TRUE)>>}
TwoOrders == {<<1, 2, 3, 4>>, <<4, 2, 1, 3>>}
SomeLocks == {{}, {2, 4}}
NothingOrOne ==
    {[ids |-> {}, keys |-> {}],
     [ids |-> {<<m, <<2, 1>>>> : m \in Range(Modes)}, keys |-> {<<2, 1>>}]}
OneByHand == {[A |-> <<2, 1>>, B |-> <<3, 4>>]}

Match(champion, category, won, season) ==
    [champion |-> champion, category |-> category, won |-> won, season |-> season]
R(champion, won, season) == Match(champion, "RANKED", won, season)
N(champion, won, season) == Match(champion, "NORMAL", won, season)
FiveHistories ==
    {<<R(2, TRUE, 2), R(3, FALSE, 2), R(3, TRUE, 2), R(2, TRUE, 2), R(1, TRUE, 1),
       R(1, FALSE, 1), R(1, TRUE, 1)>>,
     <<R(1, FALSE, 2), R(2, TRUE, 2), R(3, TRUE, 1), R(1, FALSE, 1), R(1, TRUE, 1)>>,
     <<N(1, TRUE, 2), R(2, TRUE, 2), N(1, FALSE, 2), N(3, TRUE, 1), N(1, TRUE, 1)>>,
     <<N(1, FALSE, 2), R(2, TRUE, 2), N(0, TRUE, 2), R(0, TRUE, 1)>>,
     <<Match(0, "IGNORED", FALSE, 2), Match(1, "IGNORED", FALSE, 2), N(0, FALSE, 1), N(2, TRUE, 1)>>}
=============================================================================
