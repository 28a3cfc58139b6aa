------------------------------- MODULE Lineups -------------------------------
(***************************************************************************)
(* How candidates for a match are found, and found again                   *)
(* (src/src/matchmaking/): splits of the players into two teams, the best  *)
(* lanes within a team, one candidate per balance mode, locked players and *)
(* exclusions. Which of the remaining splits a mode scores best is left    *)
(* open: every choice is explored. The rows of the players are read        *)
(* without an order, so every request may find them in another one.        *)
(* Requests overlap: reroll reads the stored list, then the seats, and     *)
(* stores its own list later still; assignCandidate seats a candidate of   *)
(* the list it read.                                                       *)
(***************************************************************************)
EXTENDS Naturals, Sequences, SequencesExt

CONSTANTS Lanes,        \* ROLE_ORDER, a sequence
          Rosters,      \* what the players of a match have entered
          Orders,       \* orders in which the rows of the players are read
          ByHand,       \* lineups entered by hand
          None,         \* no position, or nobody seated yet
          Locks,        \* lockedPlayerIds a request may carry
          Exclusions,   \* excludeCandidateIds and excludePreviousCombinationKeys
          Caller,       \* the requests that may be under way at a time
          MaxAsked      \* bound of the model: requests for candidates

Lane    == Range(Lanes)
Player  == 1..(2 * Len(Lanes))
Side    == {"A", "B"}
Modes   == <<"BALANCED", "POSITION_FIRST", "SKILL_FIRST">>
Profile == [primary : Lane \cup {None}, secondary : Lane \cup {None}, fill : BOOLEAN]

ASSUME LineupAssumption == /\ Lanes \in Seq(Lane) \ {<<>>} /\ IsInjective(Lanes)
                           /\ Rosters \subseteq [Player -> Profile]
                           /\ Orders \subseteq Seq(Player)
                           /\ \A o \in Orders : Len(o) = 2 * Len(Lanes) /\ Range(o) = Player
                           /\ Locks \subseteq SUBSET Player /\ MaxAsked \in Nat

VARIABLES roster,    \* positions of the players
          seat,      \* team side and role of the players, None before the first lineup
          offered,   \* candidatesJson
          calling,   \* the requests under way
          asked      \* requests for candidates so far

lineupVars == <<roster, seat, offered, calling, asked>>

\* A team lists its players by lane.
Teams     == {t \in [1..Len(Lanes) -> Player] : IsInjective(t)}
Lineup    == {l \in [A : Teams, B : Teams] : Range(l.A) \cap Range(l.B) = {}}
Candidate == {[mode |-> m, lineup |-> l] : m \in Range(Modes), l \in Lineup}

\* normalizeManualBalanceAssignments: every player once, one in each lane of a team.
ASSUME ByHandAssumption == ByHand \subseteq Lineup

\* A locked player stays on his side, and in his role.
StaysOn(i, side, locked) == i \in locked => i \in Range(seat[side])
StaysIn(i, lane, locked) ==
    i \in locked => i \in {seat.A[lane], seat.B[lane]}

\* respectsLockedTeams. The first player is always in team A.
SplitsInOrder(locked, order) ==   \* a slip: the locks of team B are not compared
    {a \in kSubset(Len(Lanes), Player) :
       /\ order[1] \in a
       /\ \A i \in a : StaysOn(i, "A", locked)}
Splits(locked, order) ==
    {a \in kSubset(Len(Lanes), Player) :
       /\ order[1] \in a
       /\ \A i \in Player : StaysOn(i, IF i \in a THEN "A" ELSE "B", locked)}

\* getRoleCost of a lane the player may have.
RoleCost(i, lane) ==
    CASE roster[i].primary = Lanes[lane]   -> 0
      [] roster[i].secondary = Lanes[lane] -> 8
      [] roster[i].fill                    -> 12
      [] OTHER                             -> 25

\* The sum over the lanes of a team; a lane costs 0, 8, 12 or 25.
Cost(team) ==
    LET Costing(c) == {lane \in DOMAIN team : RoleCost(team[lane], lane) = c}
    IN  8 * Cardinality(Costing(8)) + 12 * Cardinality(Costing(12)) + 25 * Cardinality(Costing(25))

\* The order in which the search tries teams.
Before(t, s, order) ==
    LET Place(i) == CHOOSE k \in DOMAIN order : order[k] = i
    IN  \E lane \in DOMAIN t :
                           /\ Place(t[lane]) < Place(s[lane])
                           /\ \A earlier \in 1..(lane - 1) : t[earlier] = s[earlier]

\* findBestRoleAssignment: the first of the cheapest, if there is any.
Arrangements(players, locked) ==
    {t \in Teams : /\ Range(t) = players
                   /\ \A lane \in DOMAIN t : StaysIn(t[lane], lane, locked)}
BestRolesTied(players, locked, order) ==   \* a slip: every one of the cheapest
    LET fits == Arrangements(players, locked)
    IN  {t \in fits : \A s \in fits : Cost(t) <= Cost(s)}
BestRoles(players, locked, order) ==
    LET fits == Arrangements(players, locked)
    IN  {t \in fits : \A s \in fits \ {t} :
           Cost(t) < Cost(s) \/ (Cost(t) = Cost(s) /\ Before(t, s, order))}

Balanced(locked, order) ==
    UNION {[A : BestRoles(a, locked, order), B : BestRoles(Player \ a, locked, order)] :
             a \in Splits(locked, order)}

\* candidateId and combinationKey: the key names team A alone.
Key(lineup) == lineup.A
IdOf(candidate) == <<candidate.mode, Key(candidate.lineup)>>

\* A mode takes a lineup whose key is not used yet, or else any.
ModeTakesAny(mode, balanced, ids, used) ==   \* a slip: keys are not compared
    {l \in balanced : <<mode, Key(l)>> \notin ids}
ModeTakes(mode, balanced, ids, used) ==
    LET ranked == {l \in balanced : <<mode, Key(l)>> \notin ids}
        unique == {l \in ranked : Key(l) \notin used}
    IN  IF unique # {} THEN unique ELSE ranked

\* A list with a candidate of one more mode, if there is any.
Extended(list, mode, balanced, ids, keys) ==
    LET used  == keys \cup {Key(list[i].lineup) : i \in DOMAIN list}
        takes == ModeTakes(mode, balanced, ids, used)
    IN  IF takes = {} THEN {list}
        ELSE {Append(list, [mode |-> mode, lineup |-> l]) : l \in takes}

\* The lists generateCandidates may return: one mode after the other.
Candidates(balanced, ids, keys) ==
    LET After(lists, mode) == UNION {Extended(list, mode, balanced, ids, keys) : list \in lists}
    IN  After(After(After({<<>>}, Modes[1]), Modes[2]), Modes[3])

\* resolveCandidateFailureReason: the search is tried again without the
\* exclusions, then without the locks.
Reason(locked, order, ids, keys) ==
    IF Balanced(locked, order) # {} /\ (ids # {} \/ keys # {}) THEN "ALL_CANDIDATES_EXCLUDED"
    ELSE IF locked # {} /\ Balanced({}, order) # {} THEN "LOCKED_ASSIGNMENT_CONFLICT"
    ELSE "NO_VALID_ROLE_ASSIGNMENT"

Resting == [pc |-> "idle"]
Free(r) == calling[r].pc \in {"idle", "refused"}
Goto(r, state) == calling' = [calling EXCEPT ![r] = state]

IdsOf(list)  == {IdOf(list[i]) : i \in DOMAIN list}
KeysOf(list) == {Key(list[i].lineup) : i \in DOMAIN list}

Asks(r, kind, locked, ids, keys, read) ==
    /\ Free(r) /\ asked < MaxAsked
    /\ asked' = asked + 1
    /\ Goto(r, [pc |-> "generate", kind |-> kind, locked |-> locked, ids |-> ids,
                keys |-> keys, read |-> read])
    /\ UNCHANGED <<roster, seat, offered>>

AutoBalance(r, locked, keys) == Asks(r, "autoBalance", locked, {}, keys, <<>>)

\* reroll excludes the ids of the stored list, its keys unless told not to, and
\* what the client asks for.
Reroll(r, locked, excludePrevious, extra) ==
    Asks(r, "reroll", locked, IdsOf(offered) \cup extra.ids,
         (IF excludePrevious THEN KeysOf(offered) ELSE {}) \cup extra.keys, offered)

Refuse(r, order, reason) ==
    Goto(r, [pc |-> "refused", order |-> order, reason |-> reason])

\* generateAndPersistCandidates: the seats are read and candidates computed. A
\* locked player without a seat is an error, an empty list is an error.
Generate(r) ==
    LET q == calling[r]
    IN  /\ q.pc = "generate"
        /\ \E order \in Orders :
             \/ /\ q.locked # {} /\ seat = None
                /\ Refuse(r, order, "LOCKED_PLAYER_ASSIGNMENT_MISSING")
             \/ /\ q.locked = {} \/ seat # None
                /\ \E list \in Candidates(Balanced(q.locked, order), q.ids, q.keys) :
                     IF list = <<>> THEN Refuse(r, order, Reason(q.locked, order, q.ids, q.keys))
                     ELSE Goto(r, [pc |-> "store", kind |-> q.kind, locked |-> q.locked,
                                   ids |-> q.ids, read |-> q.read, seen |-> seat,
                                   order |-> order, list |-> list])
        /\ UNCHANGED <<roster, seat, offered, asked>>

\* ... and stored, whatever has been stored or seated since.
Persist(r) ==
    /\ calling[r].pc = "store"
    /\ offered' = calling[r].list
    /\ Goto(r, Resting)
    /\ UNCHANGED <<roster, seat, asked>>

\* assignCandidate finds a candidate, and seats it later.
AssignRead(r) ==
    /\ Free(r)
    /\ \E i \in DOMAIN offered : Goto(r, [pc |-> "assign", lineup |-> offered[i].lineup])
    /\ UNCHANGED <<roster, seat, offered, asked>>
Assign(r) ==
    /\ calling[r].pc = "assign"
    /\ seat' = calling[r].lineup
    /\ Goto(r, Resting)
    /\ UNCHANGED <<roster, offered, asked>>

\* saveManualBalance seats a lineup of ByHand; reopenMatch clears seats and list.
ManualBalance ==
    /\ seat' \in ByHand
    /\ UNCHANGED <<roster, offered, calling, asked>>
Reopen ==
    /\ seat # None
    /\ seat' = None /\ offered' = <<>>
    /\ UNCHANGED <<roster, calling, asked>>

LineupInit ==
    /\ roster \in Rosters
    /\ seat = None /\ offered = <<>>
    /\ calling = [r \in Caller |-> Resting]
    /\ asked = 0

AskStep(r) == \E locked \in Locks, extra \in Exclusions :
    \/ \E keys \in {extra.keys, KeysOf(offered)} : AutoBalance(r, locked, keys)
    \/ \E excludePrevious \in BOOLEAN : Reroll(r, locked, excludePrevious, extra)

LineupNext ==
    \/ \E r \in Caller : AskStep(r) \/ Generate(r) \/ Persist(r) \/ AssignRead(r) \/ Assign(r)
    \/ ManualBalance \/ Reopen

LineupSpec == LineupInit /\ [][LineupNext]_lineupVars

-----------------------------------------------------------------------------
\* A key names team A only, and still tells the lineups of a list apart.
KeysIdentify ==
    \A i, j \in DOMAIN offered :
        Key(offered[i].lineup) = Key(offered[j].lineup) => offered[i].lineup = offered[j].lineup

Generates(r) == calling[r].pc = "generate" /\ calling'[r].pc = "store"
Refuses(r)   == calling[r].pc = "generate" /\ calling'[r].pc = "refused"
Stores(r)    == calling[r].pc = "store" /\ calling'[r].pc = "idle"

\* The locked players sit in a lineup as they do in another.
Seated(l, locked, at) == \A i \in locked, lane \in DOMAIN Lanes :
    (at.A[lane] = i <=> l.A[lane] = i) /\ (at.B[lane] = i <=> l.B[lane] = i)

\* A mode offers an excluded lineup only when it has nothing else left.
ComesBackLast(r) ==
    LET q       == calling[r]
        list    == calling'[r].list
        left(m) == {l \in Balanced(q.locked, calling'[r].order) : <<m, Key(l)>> \notin q.ids}
    IN  \A i \in DOMAIN list : Key(list[i].lineup) \in q.keys =>
            \A l \in left(list[i].mode) :
                Key(l) \in q.keys \cup {Key(list[j].lineup) : j \in 1..(i - 1)}

\* No candidate stored was excluded, or is repeated from the list replaced, unless
\* that is another list than the one the request has read.
OffersNew(r) ==
    \A i \in DOMAIN offered' :
        /\ IdOf(offered'[i]) \notin calling[r].ids
        /\ IdOf(offered'[i]) \in IdsOf(offered) => offered # calling[r].read

\* Whatever other requests store, seat and clear meanwhile, the list a reroll
\* stores has nothing that it or its user excluded, and repeats a lineup of the
\* list it replaces, in the mode it was offered in, only if that list is not the
\* one it had read. In another mode it offers an excluded lineup only when the
\* mode had nothing else left.
RerollMoves ==
    [][\A r \in Caller :
         /\ Generates(r) /\ calling[r].kind = "reroll" => ComesBackLast(r)
         /\ Stores(r) /\ calling[r].kind = "reroll" => OffersNew(r)]_lineupVars

\* A request is told that everything is excluded only if something fits, and each
\* candidate is excluded in every mode; an automatic balance, only if nothing fits.
RefusedRightly(r) ==
    LET q       == calling[r]
        order   == calling'[r].order
        fitting == {l \in Lineup : order[1] \in Range(l.A) /\ Seated(l, q.locked, seat)}
    IN  /\ q.kind = "autoBalance" => fitting = {}
        /\ calling'[r].reason = "ALL_CANDIDATES_EXCLUDED" =>
             /\ fitting # {}
             /\ \A l \in Balanced(q.locked, order), m \in Range(Modes) : <<m, Key(l)>> \in q.ids

\* Candidates keep every locked player where he sits, unless somebody has been
\* seated since the seats were read. An automatic balance is refused only when no
\* lineup with the first player in team A does so; and when every candidate is
\* said to be excluded there are some, each of them excluded in every mode.
LocksKept ==
    [][\A r \in Caller :
         /\ Stores(r) /\ seat = calling[r].seen =>
              \A i \in DOMAIN offered' : Seated(offered'[i].lineup, calling[r].locked, seat)
         /\ Refuses(r) /\ calling'[r].reason # "LOCKED_PLAYER_ASSIGNMENT_MISSING" =>
              RefusedRightly(r)]_lineupVars

\* What the failure reason says: no lineup fits the locked assignments.
ConflictIsReal ==
    [][\A r \in Caller : Refuses(r) /\ calling'[r].reason = "LOCKED_ASSIGNMENT_CONFLICT" =>
         ~ \E l \in Lineup : Seated(l, calling[r].locked, seat)]_lineupVars
=============================================================================
