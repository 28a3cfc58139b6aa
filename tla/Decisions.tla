------------------------------ MODULE Decisions ------------------------------
(***************************************************************************)
(* What the service works out from stored rows and answers to a client:    *)
(* the status of a result from its confirmations, the candidates of a      *)
(* match, the champions of a profile. The three share no table; each       *)
(* behaviour is about one of them, and the others stay as they began.      *)
(***************************************************************************)
EXTENDS ConfirmationLog, Lineups, ChampionSummary

VARIABLE subject

decisionVars == <<subject, logVars, lineupVars, championVars>>

DecisionsInit ==
    /\ subject \in {"confirmations", "lineups", "champions"}
    /\ LogInit /\ LineupInit /\ ChampionInit
    /\ subject # "confirmations" => participantCount = 0 /\ captains = {}
    /\ subject # "lineups" => roster = CHOOSE r \in Rosters : TRUE
    /\ subject # "champions" =>
         history = (CHOOSE h \in Histories : TRUE) /\ account = NoAccount /\ stored = {}

DecisionsNext ==
    /\ UNCHANGED subject
    /\ \/ subject = "confirmations" /\ LogNext /\ UNCHANGED <<lineupVars, championVars>>
       \/ subject = "lineups" /\ LineupNext /\ UNCHANGED <<logVars, championVars>>
       \/ subject = "champions" /\ ChampionNext /\ UNCHANGED <<logVars, lineupVars>>

DecisionsSpec == DecisionsInit /\ [][DecisionsNext]_decisionVars
=============================================================================
