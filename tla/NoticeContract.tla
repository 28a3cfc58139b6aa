--------------------------- MODULE NoticeContract ---------------------------
(***************************************************************************)
(* What notifications promise, apart from how they are queued, delivered   *)
(* and marked: a notification is announced once, handed over any number of *)
(* times until it is marked as sent and never afterwards, marked only when *)
(* it was handed over, and read at any time; nothing is taken back.        *)
(***************************************************************************)
EXTENDS Naturals

CONSTANT Notice

VARIABLES announced, handed, marked, read

contractVars == <<announced, handed, marked, read>>

Init ==
    /\ announced = {} /\ marked = {} /\ read = {}
    /\ handed = [n \in Notice |-> 0]

Announce(n) ==
    /\ announced' = announced \cup {n}
    /\ UNCHANGED <<handed, marked, read>>

HandOver(n) ==
    /\ n \in announced \ marked
    /\ handed' = [handed EXCEPT ![n] = @ + 1]
    /\ UNCHANGED <<announced, marked, read>>

Mark(n) ==
    /\ handed[n] > 0
    /\ marked' = marked \cup {n}
    /\ UNCHANGED <<announced, handed, read>>

Read(some) ==
    /\ some \subseteq announced
    /\ read' = read \cup some
    /\ UNCHANGED <<announced, handed, marked>>

Next ==
    \/ \E n \in Notice : Announce(n) \/ HandOver(n) \/ Mark(n)
    \/ \E some \in SUBSET Notice : Read(some)

Spec == Init /\ [][Next]_contractVars
=============================================================================
