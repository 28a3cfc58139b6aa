---------------------------- MODULE MatchHistory ----------------------------
(***************************************************************************)
(* How a synchronisation pages through the match history of a Riot        *)
(* account (src/src/riot/riot.service.ts): which pages it requests, and    *)
(* how far the stored cursor may move. Matches are numbered in the order   *)
(* they were played; Riot lists the newest first, so when n matches have   *)
(* been played, match m stands at position n - m, and every further match  *)
(* pushes the older ones down by one.                                      *)
(***************************************************************************)
EXTENDS Naturals, FiniteSets

CONSTANTS InitialCount,  \* RIOT_INITIAL_SYNC_MATCH_COUNT
          PageSize,      \* RIOT_MATCH_HISTORY_PAGE_SIZE
          ExtraPages,    \* RIOT_MATCH_HISTORY_EXTRA_PAGES_PER_SYNC
          SummarySize,   \* matches of the recent summary of a refresh (10)
          UsableSize     \* matches a usable snapshot needs (5)

ASSUME PageAssumption == /\ InitialCount \in Nat \ {0}
                         /\ PageSize \in Nat \ {0}
                         /\ ExtraPages \in Nat
                         /\ SummarySize \in Nat
                         /\ UsableSize \in Nat

\* The two kinds of a synchronisation.
SyncType == {"initial", "refresh"}

\* matchHistoryNextStart and matchHistoryComplete of an account row.
Cursor == [next : Nat, complete : BOOLEAN]

StartCursor == [next |-> 0, complete |-> FALSE]

\* The match ids Riot answers for one page, when n matches have been played.
MatchIds(n, start, count) == {m \in 1..n : n - m \in start..(start + count - 1)}

LatestPageSize(type) == IF type = "initial" THEN InitialCount ELSE PageSize

ExtraPagesOf(type) == IF type = "initial" THEN 0 ELSE ExtraPages

LatestPage(n, type) == MatchIds(n, 0, LatestPageSize(type))

\* areAllMatchIdsResolved, and a slip that never waits for an id.
NeverWaits(ids, resolved)  == TRUE
AllResolved(ids, resolved)  == ids \subseteq resolved

\* A slip: the backfill starts behind the latest page every time.
BackfillStartAgain(cursor, type) == LatestPageSize(type)

\* Where the first backfill page of a synchronisation starts.
BackfillStart(cursor, type) ==
    IF cursor.next = 0 THEN LatestPageSize(type) ELSE cursor.next

BackfillPage(n, cursor, type, i) ==
    MatchIds(n, BackfillStart(cursor, type) + (i - 1) * PageSize, PageSize)

\* Every id the pages of a synchronisation name. A complete history requests
\* the latest page alone.
PagedIds(n, cursor, type) ==
    LatestPage(n, type) \cup
        IF cursor.complete THEN {}
        ELSE UNION {BackfillPage(n, cursor, type, i) : i \in 1..ExtraPagesOf(type)}

\* The ids whose details are fetched again on every synchronisation: the whole
\* latest page of an initial one, its newest SummarySize ids otherwise.
PriorityIds(n, type) ==
    IF type = "initial" THEN LatestPage(n, type)
    ELSE LatestPage(n, type) \cap MatchIds(n, 0, SummarySize)

\* The ids whose details are requested: the priority ones, and what is not
\* stored yet.
DetailIds(n, cursor, type, known) ==
    PriorityIds(n, type) \cup (PagedIds(n, cursor, type) \ known)

\* Enough details of the recent matches arrived.
UsableDetails(n, type, failed) ==
    LET recent == PriorityIds(n, type)
        needed == IF Cardinality(recent) < UsableSize
                  THEN Cardinality(recent) ELSE UsableSize
    IN  Cardinality(recent \ failed) >= needed

\* The numbers of backfill pages whose ids are all resolved and that are no
\* shorter than requested, one page after the other.
PagesPassed(n, cursor, type, resolved) ==
    {k \in 0..ExtraPagesOf(type) : \A i \in 1..k :
        LET page == BackfillPage(n, cursor, type, i)
        IN  AllResolved(page, resolved) /\ Cardinality(page) = PageSize}

\* The cursor behind those pages, and behind a shorter page that is resolved as
\* well: the history ends there.
AdvanceThroughBackfill(n, cursor, type, resolved) ==
    LET passed == PagesPassed(n, cursor, type, resolved)
        pages  == CHOOSE k \in passed : k + 1 \notin passed
        next   == BackfillStart(cursor, type) + pages * PageSize
        last   == BackfillPage(n, cursor, type, pages + 1)
    IN  IF pages < ExtraPagesOf(type) /\ AllResolved(last, resolved)
        THEN [next |-> next + Cardinality(last), complete |-> TRUE]
        ELSE [next |-> next, complete |-> FALSE]

\* The cursor after a synchronisation that resolved the given ids: it passes
\* the latest page once, then one backfill page after the other.
AdvanceCursor(n, cursor, type, resolved) ==
    LET latest == LatestPage(n, type)
    IN  IF cursor.complete THEN cursor
        ELSE IF cursor.next = 0 /\ ~ AllResolved(latest, resolved) THEN StartCursor
        ELSE IF cursor.next = 0 /\ Cardinality(latest) < LatestPageSize(type)
        THEN [next |-> 0, complete |-> TRUE]
        ELSE AdvanceThroughBackfill(n, cursor, type, resolved)
=============================================================================
