--------------------------- MODULE ChampionSummary ---------------------------
(***************************************************************************)
(* The champions a profile shows                                           *)
(* (src/src/riot/riot-champion-summary.service.ts): a request reads the    *)
(* account, then the diagnostics, then the rows, while a synchronisation   *)
(* stores rows and updates the account, and a withdrawal erases both. What *)
(* the synchronisation writes is taken from RiotSync in outline.           *)
(***************************************************************************)
EXTENDS Naturals, Sequences, SequencesExt

CONSTANTS Champions,         \* champions with an id or a key, as numbers in the order of their keys
          Unmapped,          \* a champion whose name has no Latin letter or digit, and no id
          NoAccount,        \* no Riot account
          TopLimit,          \* topChampionLimit
          MeaningfulGames,   \* minimumMeaningfulGames
          Histories,         \* the matches a player may have played, newest first
          Processed,         \* values of processedMatchCount
          MaxSyncs, MaxSummaries   \* bounds of the model

ASSUME SummaryAssumption ==
    /\ Champions \subseteq Nat /\ Unmapped \notin Champions
    /\ TopLimit \in Nat \ {0} /\ MeaningfulGames \in Nat
    /\ Processed \subseteq Nat /\ {MaxSyncs, MaxSummaries} \subseteq Nat

VARIABLES history,   \* the matches the player has played
          stored,    \* those with a row in riot_match_participant_summaries
          account,   \* the account of the user, or NoAccount
          request,   \* what a request has read
          answer,    \* the last answer
          syncs, summaries   \* how many there have been

championVars == <<history, stored, account, request, answer, syncs, summaries>>

\* toParticipantSummaryRow: the row of a match. A match that lacks the player is
\* IGNORED, and so is a queue that is neither ranked, normal nor a custom game on
\* Summoner's Rift. The season is the year of the match.
Row == [champion : Champions \cup {Unmapped}, category : {"RANKED", "NORMAL", "IGNORED"},
        won : BOOLEAN, season : Nat]

ASSUME HistoryAssumption == Histories \subseteq Seq(Row)

Fresh == [synced |-> FALSE, processed |-> 0, next |-> 0, complete |-> FALSE]
Idle  == [step |-> "idle"]
NoDiagnostics == [total |-> 0, eligible |-> 0, ranked |-> 0]   \* emptyDiagnostics
NoAnswer == [status |-> "NONE", reason |-> "none", top |-> <<>>, ranked |-> FALSE,
             backfill |-> FALSE]

\* Rows are named by their place in the history: the newest has the least.
Ranked(rows)   == {i \in rows : history[i].category = "RANKED"}
Eligible(rows) == {i \in rows : history[i].category # "IGNORED"}

\* findChampionHistoryByPuuid, and a slip that reads the newest season alone.
HistoryOfSeason(rows, useRankedOnly) ==
    LET scope == IF useRankedOnly THEN Ranked(rows) ELSE Eligible(rows)
    IN  {i \in scope : history[i].season = history[Min(scope)].season}
History(rows, useRankedOnly) == IF useRankedOnly THEN Ranked(rows) ELSE Eligible(rows)

-----------------------------------------------------------------------------
RowsOf(rows, c) == {i \in rows : history[i].champion = c}
Games(rows, c)  == Cardinality(RowsOf(rows, c))
Wins(rows, c)   == Cardinality({i \in RowsOf(rows, c) : history[i].won})

\* resolveLatestSeasonKey: the season of the newest row.
LatestSeasonGames(rows, c) ==
    Cardinality({i \in RowsOf(rows, c) : history[i].season = history[Min(rows)].season})
LastPlayed(rows, c) == Min(RowsOf(rows, c))

OutranksBySeason(rows, c, d) ==   \* a slip: the latest season counts before all games
    \/ LatestSeasonGames(rows, c) > LatestSeasonGames(rows, d)
    \/ /\ LatestSeasonGames(rows, c) = LatestSeasonGames(rows, d)
       /\ \/ Games(rows, c) > Games(rows, d)
          \/ Games(rows, c) = Games(rows, d) /\ LastPlayed(rows, c) < LastPlayed(rows, d)

\* compareBuckets. Win rates are compared between equal numbers of games.
Outranks(rows, c, d) ==
    \/ Games(rows, c) > Games(rows, d)
    \/ /\ Games(rows, c) = Games(rows, d)
       /\ \/ LatestSeasonGames(rows, c) > LatestSeasonGames(rows, d)
          \/ /\ LatestSeasonGames(rows, c) = LatestSeasonGames(rows, d)
             /\ \/ Wins(rows, c) > Wins(rows, d)
                \/ /\ Wins(rows, c) = Wins(rows, d)
                   /\ LastPlayed(rows, c) < LastPlayed(rows, d)

Played(rows) == {history[i].champion : i \in rows} \cap Champions

\* The sorted buckets: a champion stands behind those who outrank it.
InOrder(rows, champions) ==
    [place \in 1..Cardinality(champions) |->
       CHOOSE c \in champions :
         Cardinality({d \in champions : Outranks(rows, d, c)}) = place - 1]

\* buildTopChampions takes the champions of each threshold in turn.
Picked(rows, threshold) == {c \in Played(rows) : Games(rows, c) >= threshold}
Added(rows, list, threshold) ==
    LET all == list \o InOrder(rows, Picked(rows, threshold) \ Range(list))
    IN  SubSeq(all, 1, IF Len(all) < TopLimit THEN Len(all) ELSE TopLimit)
TopChampions(rows) == Added(rows, Added(rows, Added(rows, <<>>, MeaningfulGames), 2), 1)

\* thresholdUsed < minimumMeaningfulGames
SmallSample(rows) == Picked(rows, MeaningfulGames) = {}

\* shouldMarkInsufficientBackfill. Its last condition, ranked rows that are
\* used and absent, is never true.
NeedsBackfill(acc, diagnostics) ==
    \/ ~ acc.complete
    \/ acc.synced /\ diagnostics.total = 0
    \/ /\ acc.processed >= 6
       /\ LET share == (6 * acc.processed) \div 10
          IN  diagnostics.total < IF share > 3 THEN share ELSE 3

Insufficient(acc, diagnostics) ==
    IF NeedsBackfill(acc, diagnostics) THEN "insufficient_backfill" ELSE "insufficient_sample"

\* resolveNoRowsReason, where queued says whether queuedMatchCount exceeds 0.
NoRowsReason(acc, queued) ==
    IF ~ acc.synced \/ (acc.processed = 0 /\ ~ queued /\ acc.next = 0) THEN "no_sync"
    ELSE "insufficient_backfill"

\* Why there is nothing to show, and a slip that blames the sample first.
EmptyReasonSample(acc, diagnostics, rows) == Insufficient(acc, diagnostics)
EmptyReason(acc, diagnostics, rows) ==
    IF rows = {}
    THEN IF diagnostics.eligible = 0 THEN "all_filtered" ELSE Insufficient(acc, diagnostics)
    ELSE IF \E i \in rows : history[i].champion = Unmapped THEN "mapping_failure"
    ELSE Insufficient(acc, diagnostics)

\* buildSyncCoverageSummary: the backfillSignal, that a client should ask for a
\* synchronisation.
Backfill(acc, diagnostics) == acc # NoAccount /\ NeedsBackfill(acc, diagnostics)

\* buildEmptyStatus
Empty(reason, acc, diagnostics, useRankedOnly) ==
    [status |-> "EMPTY", reason |-> reason, top |-> <<>>, ranked |-> useRankedOnly,
     backfill |-> Backfill(acc, diagnostics)]

\* buildReadyStatus
Ready(acc, diagnostics, rows, useRankedOnly) ==
    LET top    == TopChampions(rows)
        reason == IF NeedsBackfill(acc, diagnostics) THEN "insufficient_backfill"
                  ELSE IF SmallSample(rows) THEN "insufficient_sample" ELSE "none"
    IN  [status |-> IF reason = "none" THEN "READY" ELSE "PARTIAL", reason |-> reason,
         top |-> [i \in DOMAIN top |-> [champion |-> top[i], games |-> Games(rows, top[i])]],
         ranked |-> useRankedOnly, backfill |-> Backfill(acc, diagnostics)]

Answer(acc, diagnostics, rows, useRankedOnly) ==
    IF TopChampions(rows) = <<>>
    THEN Empty(EmptyReason(acc, diagnostics, rows), acc, diagnostics, useRankedOnly)
    ELSE Ready(acc, diagnostics, rows, useRankedOnly)

-----------------------------------------------------------------------------
Reply(a) == /\ answer' = a /\ request' = Idle /\ summaries' = summaries + 1

\* resolveAccount
SummaryBegin ==
    /\ request = Idle /\ summaries < MaxSummaries
    /\ IF account = NoAccount THEN Reply(Empty("no_riot_account", NoAccount, NoDiagnostics, FALSE))
       ELSE /\ request' = [step |-> "diagnostics", account |-> account]
            /\ UNCHANGED <<answer, summaries>>
    /\ UNCHANGED <<stored, account, syncs>>

\* getChampionHistoryDiagnosticsByPuuid. queuedMatchCount is not kept: it is open,
\* but nothing is processed that was not queued.
ReadDiagnostics ==
    /\ request.step = "diagnostics"
    /\ IF stored = {}
       THEN \E queued \in BOOLEAN :
              /\ request.account.processed > 0 => queued
              /\ Reply(Empty(NoRowsReason(request.account, queued), request.account,
                             NoDiagnostics, FALSE))
       ELSE /\ request' = [step |-> "history", account |-> request.account,
                           total |-> Cardinality(stored),
                           eligible |-> Cardinality(Eligible(stored)),
                           ranked |-> Cardinality(Ranked(stored))]
            /\ UNCHANGED <<answer, summaries>>
    /\ UNCHANGED <<stored, account, syncs>>

ReadHistory ==
    /\ request.step = "history"
    /\ Reply(Answer(request.account, request, History(stored, request.ranked > 0),
                    request.ranked > 0))
    /\ UNCHANGED <<stored, account, syncs>>

\* createParticipantSummaries stores the row of a match that has none yet.
Store(i) ==
    /\ account # NoAccount /\ i \notin stored
    /\ stored' = stored \cup {i}
    /\ UNCHANGED <<account, request, answer, syncs, summaries>>

\* The account is queued, and the synchronisation ends.
SyncQueued ==
    /\ account # NoAccount /\ account.processed > 0
    /\ account' = [account EXCEPT !.processed = 0]
    /\ UNCHANGED <<stored, request, answer, syncs, summaries>>
SyncEnds(processed, next, complete) ==
    /\ account # NoAccount /\ syncs < MaxSyncs
    /\ syncs' = syncs + 1
    /\ account' = [synced |-> TRUE, processed |-> processed,
                   next |-> IF account.complete THEN account.next ELSE next,
                   complete |-> account.complete \/ complete]
    /\ UNCHANGED <<stored, request, answer, summaries>>

\* withdrawMe erases the rows and the account in one transaction.
EraseAll ==
    /\ account # NoAccount
    /\ stored' = {} /\ account' = NoAccount
    /\ UNCHANGED <<request, answer, syncs, summaries>>

\* Rows outlive an account that was removed, and belong to the next one of the puuid.
ChampionInit == /\ history \in Histories /\ account \in {Fresh, NoAccount}
                /\ stored \in {i..Len(history) : i \in 1..(Len(history) + 1)}
                /\ request = Idle
                /\ answer = NoAnswer /\ syncs = 0 /\ summaries = 0

ChampionNext ==
    /\ UNCHANGED history
    /\ \/ SummaryBegin \/ ReadDiagnostics \/ ReadHistory
       \/ \E i \in DOMAIN history : Store(i)
       \/ SyncQueued
       \/ \E processed \in Processed, next \in 0..1, complete \in BOOLEAN :
            SyncEnds(processed, next, complete)
       \/ EraseAll

ChampionSpec == ChampionInit /\ [][ChampionNext]_championVars

-----------------------------------------------------------------------------
Replied == summaries' # summaries
Listed(a) == {a.top[i].champion : i \in DOMAIN a.top}
GamesOf(a, c) == (CHOOSE t \in Range(a.top) : t.champion = c).games

\* The champions listed are the most played of the scope that the diagnostics
\* chose, as stored when the history is read, and as many as there are. READY is
\* said only of a complete history and of a champion with enough games. A
\* backfill is asked for when the reason is a lack of one, and never with READY.
MostPlayedListed ==
    [][Replied =>
         LET rows == History(stored, answer'.ranked)
         IN  /\ answer'.top # <<>> =>
                  /\ Cardinality(Listed(answer')) = Len(answer'.top)
                  /\ Listed(answer') = Played(rows) \/ Len(answer'.top) = TopLimit
                  /\ \A c \in Played(rows) \ Listed(answer'), d \in Listed(answer') :
                        Games(rows, c) <= Games(rows, d)
             /\ answer'.status = "READY" =>
                  /\ request.account.complete
                  /\ ~ answer'.backfill
                  /\ \E c \in Listed(answer') : Games(rows, c) >= MeaningfulGames
             /\ answer'.reason \in {"no_sync", "insufficient_backfill"} =>
                  answer'.backfill]_championVars

\* Nothing is shown only if nothing in the scope can be shown, whatever has been
\* stored since the request began, and the reason is the true one: too few games
\* are blamed only when the rows were erased in the meantime.
EmptyIsTrue ==
    [][Replied /\ answer'.status = "EMPTY" =>
         /\ answer'.reason # "no_riot_account" =>
              TopChampions(History(stored, answer'.ranked)) = <<>>
         /\ CASE answer'.reason = "no_riot_account" -> account = NoAccount
              [] answer'.reason = "all_filtered" -> Eligible(stored) = {}
              [] answer'.reason = "mapping_failure" -> stored # {}
              [] OTHER -> stored = {} /\ (request.step = "history" => account = NoAccount)]_championVars

\* From one answer to the next no champion loses games, and the scope never goes
\* back from ranked games to all of them.
GamesNeverShrink ==
    [][Replied /\ answer.top # <<>> /\ answer'.top # <<>> =>
         /\ answer.ranked => answer'.ranked
         /\ answer.ranked = answer'.ranked =>
              \A c \in Listed(answer) \cap Listed(answer') :
                  GamesOf(answer, c) <= GamesOf(answer', c)]_championVars
=============================================================================
