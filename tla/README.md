# InhouseMakerCoreServer in TLA+

The server organises in-house League of Legends matches: groups and recruiting
posts bring ten players together, matchmaking splits them into two teams,
somebody submits the result, the players vote on it, and a confirmed result
feeds the power profiles. It is a NestJS application on PostgreSQL (Prisma)
and Redis (BullMQ), deployed as one restarting pm2 process.

Almost every handler of it reads rows, checks them, and writes some `await`s
later, so the subject of this directory is what handlers, queue workers,
crashes and retries do to each other. TLC checks the modules on small
instances; TLAPS proves most of their safety properties for every number of
users, rows, requests and jobs.

## Running

    tlc -config result_races.cfg MCInhouseMatch     # one run; see "Runs"
    tlc -config riot_sync.cfg MCRiotSync
    tlapm LineupProofs.tla                          # one proof module; see "Proofs"

## Inventory

| component (under `src/src/`) | state it keeps | operations | hard behaviour | what makes it correct | module |
|---|---|---|---|---|---|
| `matches/` | match row (status, candidates, selection), player rows | create, add and update players, lock, manual balance, assign candidate, reopen | every handler checks a snapshot and writes later | a balanced match seats a full lineup; candidates stay assignable | `Matches` |
| `results/` | result (unique per match), stats, votes | submit, confirm (vote), finalize, resolve a dispute; RESULT worker | votes, jobs, resubmissions and operators overlap | three statuses agree; stats are one lineup; votes belong to the facts they were cast on | `Results` |
| result confirmation policy | none | `evaluate` | quorum, captains, contradictions, repeated votes | newest votes count; approval never hurts; a dispute ends by its authors | `ConfirmationPolicy`, `ConfirmationLog` |
| `matchmaking/` | candidate list | auto balance, reroll | locks, exclusions and modes; list, seats and the write are awaits apart | locks are kept, rerolls move, failure reasons are true | `Lineups`, `Matches` |
| `riot/` accounts | accounts, sync status, cursor, match summaries | add, refresh, read, delete; RIOT_SYNC worker | retries, stale runs, redelivery, deletion during a sync | a pending row has a job; the cursor covers only stored matches; one primary account | `RiotSync`, `MatchHistory`, `RiotCalls` |
| `riot/` champion summary | none of its own | summary of a profile | three queries while a sync writes | the list is that of the stored rows; empty for a true reason | `ChampionSummary` |
| `power/` | power profiles | recalculate (worker and on demand) | recalculation against withdrawal, older facts written later | a changed fact reaches the profile | `PowerProfiles` |
| `auth/` | users, identities, refresh token hash | sign up, log in, refresh, log out | overlap with withdrawal, one person signing up twice | one user for an address; nothing returns after withdrawal | `Sessions` |
| `users/` | profile, image, withdrawal | update, upload, remove, withdraw; search, history, statistics | file and row written apart; withdrawal during other work | a shown image exists; withdrawn data stays erased; views agree | `Users`, `People`, `MatchViews` |
| `notifications/` | rows PENDING, SENT, READ | create, deliver, mark, read | crash between row and job; reading races delivery | the contract of `NoticeContract`; every row settles | `Notifications` |
| `recruiting/` | posts, applications | create, update, delete, apply, cancel; lists, flags | capacity checked before the insert | overbooked only by overlap; flags and lists tell the truth | `Recruiting` |
| `groups/` | groups, members, roles | create, update, archive, add member; lists, flags, leaderboard | flags and handlers check apart | flags are what handlers do | `Groups`, `People` |
| `blocks/`, `reports/`, `admin/` | blocks, reports, operator flags | block, unblock, report, set status | writes against withdrawal and deletion | blocks and applications do not outlive their owners | `Moderation` |
| `queue/` | four BullMQ queues | add, take, retry, redeliver, remove | lost, repeated and delayed jobs | in the module of each worker | |
| `files/` | image files | store, remove | see `users/` | only as far as images come and go | `Users` |
| `common/` throttle guard | counters in memory | `canActivate` | window boundary | not modelled | |
| `health/`, `reference/`, `app-config/`, `config/`, `prisma/`, filters, interceptors, audit log, fixtures | none of the domain | I/O, logging, configuration | - | not modelled | |

Interaction. `ResultsService` calls `MatchesService` for the match snapshot,
the policy for the verdict, and `QueueService` and `NotificationService` after
its transactions; `ResultsProcessor` calls back into `finalizeResultStatus`.
`MatchmakingService` reads matches and writes the candidate list. Results,
synchronisations and account deletions send jobs to the POWER queue, whose
worker reads what they have committed. A withdrawal (`UsersService.withdrawMe`)
erases rows of accounts, power profiles, Riot accounts, blocks and identities
in one transaction, while other handlers hold what they have read.

## Modules

Five groups of modules, each around the tables that its handlers share.

| composition | parts | what it composes |
|---|---|---|
| `InhouseMatch` | `MatchRecords` (rows, requests), `Matches`, `Results`, `ConfirmationPolicy` | one match, its players, candidates, result, stats and votes; the RESULT worker; faults |
| `MatchViews` (extends `InhouseMatch`) | | what history, statistics, leaderboard, lists and result screen show of these rows |
| `RiotSync` | `MatchHistory` (pages and cursor), `RiotCalls` (retries of one HTTP call) | Riot accounts, stored matches, requests, the RIOT_SYNC queue and worker |
| `Accounts` | `AccountRecords`, `Sessions`, `Users`, `PowerProfiles` | users, identities, images, profiles, the POWER queue and worker, withdrawal |
| `Community` | `CommunityRecords`, `Groups`, `People`, `Recruiting`, `Moderation`, `Notifications` | groups, posts, applications, blocks, reports, notifications, the NOTIFICATION queue and worker |
| `Decisions` | `ConfirmationLog`, `Lineups`, `ChampionSummary` | three computations that share no table, each over all its bounded inputs |

`NoticeContract` is an abstract specification: notifications are announced,
handed over until marked, and read. `Community` implements it
(`ContractKept`, `INSTANCE NoticeContract WITH ...`), which TLC checks and
TLAPS proves.

Proof modules: `InhouseMatchTypes`, `InhouseMatchProofs`, `LineupProofs`,
`RiotSyncProofs`, `HistoryProofs`, `AccountProofs`, `CommunityProofs`,
`DecisionProofs`. `MCInhouseMatch`, `MCRiotSync`, `MCAccounts`,
`MCCommunity` and `MCDecisions` hold values of the constants for TLC.

### State

Variables are tables and columns of `prisma/schema.prisma`, queues, and what
every request slot or worker has read and not yet used (`req[p]`, `request[r]`,
`worker`, `powerWorker`, `noticeWorker`). A few more are histories that only the
properties read:

- `outbox` (`MatchRecords`): messages handed to other queues.
- `lost`, `seen`, `excused` (`RiotSync`): rows left on their way with no job,
  by a crash, a dropped job or a rejected write, until another job is queued;
  how many matches the last committed synchronisation saw; matches it had no
  chance to store.
- `leftover`, `behind` (`Accounts`): what handlers past their checks may still
  write for a user who withdraws, and his power profile once the result of one of
  his matches changes later; users whose newest facts had no chance.
- `peak`, `late`, `dropped`, `deliveries` (`Community`): the largest capacity
  a post has had; rows of requests that were past their checks; notices
  without a job; deliveries of each notice.

In `MatchRecords`, `result` is one row because `match_id` is unique, id 0 is
"no row", and ids are never reused. `votes` keeps the newest vote of each user
on each version instead of all rows: `ConfirmationLog` computes the verdict
from a growing table in any order, and `newest` is what both depend on.

### Steps

JavaScript runs a handler undisturbed to its next `await`. A step of a request
is therefore one awaited query or transaction, with the checks that follow it:

| handlers | steps |
|---|---|
| addPlayers, updatePlayer, lockMatch, saveManualBalance, assignCandidate, reopenMatch | `...Read`, `...Commit` |
| autoBalance, reroll | `GenerateRead`, `GenerateCommit` (`Matches`); `AutoBalance` or `Reroll`, `Generate`, `Persist` (`Lineups`) |
| assignCandidate and the seats (`Lineups`) | `AssignRead`, `Assign`; `ManualBalance`; `Reopen` |
| submitQuickResult | `SubmitReadMatch`, `SubmitReadResult`, `SubmitCommit` (or `SubmitFails`), `Announce`* |
| confirmResult | `ConfirmReadMatch`, `ConfirmReadResult`, `ConfirmRecord`, `FinalizeRead`, `FinalizeCommit` (or `FinalizeFails`), `EnqueueFinalize`, `Announce`* |
| RESULT worker | `TakeJob`, `FinalizeRead`, `FinalizeCommit` (or `FinalizeFails`), `Announce`* |
| adminResolveDispute | `ResolveReadMatch`, `ResolveReadResult`, `ResolveCommit` (or `ResolveFails`), `Announce`* |
| Riot createForUser | `CreateRead`, `CreateBegin`, `CreateCommit`, then queueSync |
| Riot enqueueSync, queueSync | `SyncRequest`, `QueueRead`, `Recover`, `QueueMark`, `QueueAdd` or `QueueRefused` and `QueueFailed`; `RequestFails` at any of them |
| Riot reads with stale recovery | `StatusRead`, `Recover` |
| Riot deleteForUser | `DeleteRead`, `DeleteCancel` or `DeleteInterrupted`, `DeleteCommit` or `RequestFails`, `DeleteAnnounce` |
| RIOT_SYNC worker | `Take`, `Begin`, `Page`, `StoreDetails`, `Commit`, `Announce`; `Stumble`, `Catch`; `Take`, `Begin` and `Catch` each with a rejection |
| signup, login, social login, refresh | `SignupRead`, `SignupCommit`; `LoginRead`, `LoginIdentity`; `SocialLogin`; `Refresh`; all end in `IssueCommit` |
| profile and images | `UpdateProfile`; `ImageStore`, `ImageWrite`, `ImageRemove`; `ClearRead`, `ClearWrite`, `ImageRemove` |
| withdrawMe | `WithdrawRead`, `WithdrawWrite` (`Accounts`); `WithdrawRead`, `Withdraw` (`RiotSync`); `Withdraw` (`Moderation`) |
| power | `ReadProfile`, `RequestRecalculates`; `TakePower`, `WorkerRecalculates`, `WorkerFails` |
| groups, recruiting, blocks, reports | one check step and one write step each, one step where check and write are one |
| notifications | `Announce`, `Enqueue`; worker: take, deliver, look, mark, fail; `Read` and `ReadAll` |

Reads that decide nothing fall into the step before them. A guard that fails
after the first read ends the request; when it fails on the first read the
request changes nothing and is not begun.

`Lineups` has one step for the reading of the stored list, one for the reading of
the seats with the search, and one for the write; `ChampionSummary` has one for
each of the three queries of a summary.

### What is abstracted

- A `$transaction` is one step. PostgreSQL runs it at READ COMMITTED. Where two
  transactions meet, they begin with the same row or a unique key and wait for
  each other; where the order of statements shows (the demotion of primary Riot
  accounts before the insert), the transaction has two steps. Deadlock victims
  are failures of the request. A `findUnique` with `include` is one snapshot.
- Requesters pass the authority check in the match modules; who may call what
  is modelled where properties are about it (`Groups`, `Recruiting`,
  `Sessions`).
- Texts, names, regions, paging and filters of lists, MVP and
  ratings, audit rows and previews are left out.
- Times are reduced to what is compared with them: `stalled` stands for
  RIOT_SYNC_STALE_MS without progress, `synced` for a set `lastSyncedAt`.
  Reports count within one window of duplicates.
- Lanes and the size of a match come from the set `Lanes`: five in the code,
  any number in the theorems.
- Matchmaking in `Matches` returns any lineup that seats the players read and
  covers the lanes. `Lineups` has the search itself; which of the splits that
  remain a mode scores best is left open, since the score is floating-point
  arithmetic (`regenerateNonce` only breaks its ties). Requests may overlap
  there, and `excludeCandidateIds` and `excludePreviousCombinationKeys` are inputs
  of a request. That `updatePlayer` clears the list, the status of the match, and
  rosters that change are left to `Matches`.
- A synchronisation reads all pages of match ids in one step, and stores the
  details it got in one step; any subset of the details may fail. Rows of
  ignored queues are stored like the others.
- Power formulas are reduced to the version of the facts they have seen.
- The reason of an empty champion summary also depends on the jobs that are
  counted as queued; whether there are any is left open.

### Faults

`Die` (`InhouseMatch`) and `Abort` (`Accounts`, `Community`): a handler ends
at any step, by a database error or because the process restarts. `Crash`
(`RiotSync`): the process restarts, requests are gone, and BullMQ delivers the
job of the worker once more (`maxStalledCount` is 1 by default), then drops it.
The database or Redis may reject any call there (`RequestFails`,
`DeleteInterrupted`, `QueueRefused`, `Reject`, `Stumble`), the writes that report
a failure included. Rejected on its last attempt, before the `try` block or in the
`catch` block, a job leaves its row QUEUED, RUNNING or RETRY_SCHEDULED for good;
such a row is in `lost`.
`Stall` (`RiotSync`): a run makes no progress for the stale interval, though it
may go on later, overlapping its replacement. Jobs fail and are tried again as
often as `queue.service.ts` says: RESULT and NOTIFICATION once, POWER three
times, RIOT_SYNC up to `RIOT_SYNC_MAX_RETRIES`.

## Runs

The two runs at the end show a violation; the others pass.

| run | module | question | instance | distinct states |
|---|---|---|---|---|
| `result_races` | `MCInhouseMatch` | Do result, stats, match status and votes stay consistent when submit, confirm, resolve, reopen and the worker race and die, and does what other services show add up? | 2 players, 2 requests, worker, 2 versions, faults | 1.05 million |
| `stale_lineup` | `MCInhouseMatch` | Are the stats one complete lineup, though submissions write lineups read long before? Is the invariant of the proofs true? | 3 accounts, 2 requests, roster handlers, manual balance, submit, reopen; 2 results, 2 versions, 1 idempotency key | 663 thousand |
| `roster_races` | `MCInhouseMatch` | Does BALANCED mean a seated lineup, and can candidates always be assigned? | 3 accounts, 2 requests, all match handlers | 576 thousand |
| `recount` | `MCInhouseMatch` | Does the queue repair what overlapping votes leave wrong? | 2 players, 2 requests, worker, votes for and against, 2 versions | 1.48 million |
| `announcement` | `MCInhouseMatch` | Is every joined player of a confirmed result told? | 2 players, 2 requests, worker, weak fairness | 81 thousand |
| `riot_sync` | `MCRiotSync` | Has every pending account a job, every usable snapshot a synchronisation, a user one primary account? | 1 session, 2 accounts of 2 players, 2 attempts, a stall and its recovery | 1.38 million |
| `riot_history` | `MCRiotSync` | Does the cursor promise only stored matches and never move back, and does every synchronisation settle? | 1 account, 2 matches played at any time, a crash and a stall, weak fairness | 461 thousand |
| `accounts` | `MCAccounts` | Do identities, images, hashes and power profiles agree with withdrawals, and do changed facts reach the profile? | 3 scopes, 2 requests, 2 credentials of one address, worker, weak fairness | 75 thousand |
| `community` | `MCCommunity` | Do places, lists, flags, blocks and deletions agree, and do notifications keep their contract and settle? | 7 scopes, up to 4 users, 2 requests, worker, weak fairness | 117 thousand |
| `decisions` | `MCDecisions` | Do the policy, the lineup search with its rerolls and the champion summary answer what their rows say? | 3 voters and 4 votes; 4 players in 2 lanes, 2 requests at a time, 2 searches; 5 histories, 2 summaries | 572 thousand |
| `v_overwrite` | `MCInhouseMatch` | "already been finalized and cannot be overwritten" | 2 versions | violated |
| `v_conflict` | `MCDecisions` | A conflict of the locks is reported only when there is one. | as `decisions` | violated |

Deadlock is checked where the instance cannot stop (`result_races`,
`stale_lineup`, `roster_races`, `recount`, `announcement`): there a handler can
always begin again. The others end at their bounds on rows, jobs and answers.

### Bounds

- *Match.* Two players and one lane a side are the smallest match with a
  complete lineup; a third account is what makes rosters grow and lineups
  differ. Two requests and the worker overlap everything pairwise with a job.
  `MaxResults`, `MaxVersion`, `MaxJobs` and `MaxCandidates` bound rows;
  `Handlers`, `Ballots`, `Winners`, `Rsvps`, `Keys` and `Slots` say which inputs
  there are. A submission beyond `MaxResults` or `MaxVersion` fails like any
  other failed transaction; a vote begins only when the queue has room.
- *Riot.* `riot_sync` has two accounts of one user and two attempts of a job,
  so that a retry, a second job and a recovery can all overlap a request;
  `riot_history` has one account and pages of one match, the smallest in which a
  cursor can skip. Crashes are in `riot_history`, and two sessions at once in
  the proofs of `PendingHasJob` and `UsableMeansSynced`. `MaxAccountsAndStalls` keeps a stall out of behaviours
  that use all accounts; `MaxOpen` bounds requests under way at once.
- *Accounts, Community.* A behaviour is given one scope: the handlers and users
  it may use (`MCAccounts!SmallScopes`, `MCCommunity!SmallScopes`). A scope
  unites the handlers that write the same rows, so the interleavings left out
  are of handlers that share none; each scope has two overlapping requests.
  `Applying` has four users, enough for two requests to overbook a post that
  somebody has applied to already.
- *Decisions.* Three voters and four votes let a user vote twice; two lanes and
  four players with the preferences, locks, exclusions and orders in `MCDecisions`
  reach every failure reason, with a stored list and without one, and two searches
  may read the same list, or find list and seats changed by the other. The
  histories reach every reason of an empty summary; one account is summarised, so
  a change of the primary account between two answers is outside.

### What the violations show

- `v_overwrite`: submit reads a PARTIAL result; two votes confirm it; the
  submission's update, which names the row by id only, sets it back to PARTIAL,
  although a finalized result "cannot be overwritten".
- `v_conflict`: only splits with the first listed player in team A are tried. A
  player seated in team B by hand, locked, and listed first leaves none of
  them, and the answer is a conflict of the locks, although the present lineup
  keeps them all.

### What the properties leave open

The code does more than some properties would suggest; they are stated so that
they are true of it, and these are the cases they except:

- A rejected write can strand a Riot account (`lost`). A stranded RUNNING row is
  recovered as stalled; one that is QUEUED or RETRY_SCHEDULED refuses every later
  request (`riot.service.ts:795`), and only its deletion helps.
- Results send recalculations for every player of a match, and the worker upserts
  the profile without a look at the user's status: a withdrawn user's power profile
  comes back with the next result, dispute or correction (`leftover`).
- `updatePost` answers with a row that carries no applications, and `toDetail`
  (`recruiting.service.ts:1014`) then counts none: the answer may show free places
  in a full post, and tell an operator to apply who has applied or finds it full.
  `FlagsAreTrue` states for it only that it hides no place and never tells the
  author to apply. For all other answers flags and handlers agree in one and the
  same state; what changes before the click is left to the handlers' own checks.
- Two rerolls that read the same list may offer the same lineups; `RerollMoves`
  says that a repetition means that another request has replaced the list since it
  was read. Likewise `LocksKept` is about the seats as they were read.
- `markSent` may set a notification that was read meanwhile from READ to SENT;
  the contract is about `readAt` and `sentAt`, which stay.
- Two concurrent creations may leave a user two primary Riot accounts.

### Fairness

`announcement` assumes weak fairness of `Continue(p)`, `riot_history` of
`ContinueRequest(r)` and `WorkerStep`, `accounts` and `community` of
`Continue(r)` and of their worker's steps: a handler that has begun keeps being
scheduled by the event loop and its queries return or fail, and BullMQ hands
waiting jobs to an idle worker. Nothing is assumed of clients (no request need
ever begin), of Riot (a lookup may always fail) or of the choice between
success and failure. What a failure loses for good is excused by name: `lost`,
`behind` and `dropped` in the properties, and no faults in `announcement`,
where a crash between the transition and its messages loses them because a
later finalization no longer sees a change of status.

## Proofs

Each theorem is `Spec => []P` (or `Spec => ContractKept`) for arbitrary
constants that satisfy the assumptions stated beside them: finite sets of
users, requests and lanes, distinct null values, bounds that are numbers.

| theorem | of the property | along |
|---|---|---|
| `InhouseMatchTypes!TypeCorrect` | `TypeOK` | one lemma for each action |
| `InhouseMatchProofs!ResultInvariance`, `StatsFollowResult`, `ResultHasLineup`, `MatchFollowsResult`, `VotesFollowResult` | `ResultInv` and four of its conjuncts | the strengthening below |
| `InhouseMatchProofs!VotesWinInTheEnd` | `SettledMeansCounted`, of behaviours without faults, resolutions or changes of the players | `CountInv` |
| `LineupProofs!LineupInvariance`, `BalancedIsSeated`, `CandidatesStayAssignable` | `BalancedMeansSeated`, `CandidatesAssignable` | `LineupInv` |
| `LineupProofs!ViewsAgree` | `ViewsAddUp` | `ResultInv` and `WinnerInv` |
| `RiotSyncProofs!SnapshotsAreReal` | `UsableMeansSynced` | `Typed`, `SyncedInv` |
| `RiotSyncProofs!PendingIsNeverForgotten` | `PendingHasJob` | `Typed`, `SyncedInv`, `PendingInv` |
| `RiotSyncProofs!OnePrimaryEach` | `AtMostOnePrimary`, for users who send one request at a time | `SyncedInv`, `PrimaryInv` |
| `HistoryProofs!HistoryIsCovered`, `CursorOnlyAdvances`, `SyncTypes` | `HistoryCovered`, `CursorAdvances`, `TypeOK` | `Typed`, `SyncedInv`, `HistInv` |
| `AccountProofs!AccountsTypeCorrect`, `OneUserForAnAddress`, `ShownImagesExist`, `WithdrawalErases` | `TypeOK`, `OneUserPerEmail`, `ImageExists`, `WithdrawnErased` | `TypeInv`, `IdentityInv`, `ImageInv`, `ErasedInv` |
| `CommunityProofs!BlocksGoWithUsers`, `ApplicationsGoWithPosts`, `FlagsTellTheTruth`, `ListsShowWhatOpens`, `OverbookedByOverlap`, `ReportsStayBounded` | `WithdrawnUnblocked`, `DeletedStaysCleared`, `FlagsAreTrue`, `ListsMatchDetails`, `OverbookedOnlyByOverlap`, `ReportsBounded` | `BlockInv`, `PostInv`, `GroupInv`, `PlacesInv`, `ReportInv` |
| `CommunityProofs!NotificationsKeepContract` | `ContractKept` | `MailInv` |
| `CommunityProofs!CommunityTypes` | `TypeOK` | all of these, `UsersInv`, `DeliveryInv` |
| `DecisionProofs!ApprovalsNeverHurt`, `DisputesEndByTheirAuthors` | `ApprovalNeverHurts`, `DisputeEndsByItsAuthors` | `LogInv` |
| `DecisionProofs!KeysTellLineups`, `RerollsMove`, `LocksAreKept` | `KeysIdentify`, `RerollMoves`, `LocksKept` | `LineupInv`, `BestExists`, `CandidatesAreTaken` |
| `DecisionProofs!TheMostPlayedAreListed`, `EmptySummariesAreTrue`, `ShownGamesNeverShrink` | `MostPlayedListed`, `EmptyIsTrue`, `GamesNeverShrink` | `ChampionInv`, `InOrderSorts`, `AddedLists` |

None of the properties is inductive alone, because a transaction writes what
its request decided from an older snapshot. The inductive invariants say what
requests in progress may still write.

*Results.* `SnapshotChain`: the rosters read by submissions, and the players who
have stats, are comparable subsets of the present roster, because no handler
removes a player. `SubmissionsReady`: a submission at its transaction passed
`assertQuickResultInputReady` with the snapshot it is about to write.
`ResultsNamed`, `VotesInProgress`: requests and jobs about a result name one,
and a vote on its way is a player's, on a version its result had. A ready
snapshot seats exactly `MatchSize` players, one in each lane of each team, by
counting; two comparable sets of that size are equal; so a submission that
overwrites stats written by another one overwrites all of them, and rows of two
lineups never mix.

*Votes.* `CountInv`: until a result is submitted again, its status is the one
its votes call for, or a finalization that read them all is about to write it, or
somebody is going to count again: a job, or a request that has recorded its vote
and has not yet queued one. The theorem names what it needs. A request that dies
between its vote and its job is never counted (a hazard); an operator's
resolution overrules the votes on purpose; and `Undisturbed` keeps the
participants and captains as they are while there is a result, as in the `recount`
run, because nobody counts again when they change.

*Lineups.* `LineupInv`: either nothing has been decided, or there is one set T of
`MatchSize` players such that the match when BALANCED, every candidate and every
request about to write a lineup arranges exactly T. A roster that was full and
is full later is the same set, since it has only grown.

*Views.* A result that exists has a complete lineup of stats (`LineupComplete`)
whose rows carry its status, so the different conditions of the history, the
statistics and the leaderboard select the same rows; each side wins one row a
lane because every result names a team (`WinnerInv`).

*Riot.* `SyncedInv`: ids are given once (`IdsGiven`), so a request or job about a
deleted row is never about another one; and the flag that a request or the
worker carries from an earlier read was true of its row and stays true
(`CarriedFlags`), so an update from a stale read cannot promise too much.
`PendingInv`: a pending row has a job, a worker that has not yet settled one, a
request that is about to add one or to mark the failure, or a deletion in
progress, or it is in `lost`, where the step that took the last of these away has
put it. `PrimaryInv`: two primary rows of a user are the same row; a creation about to
insert a primary has demoted every other one, and a deletion that will promote
another account deletes the primary. Both speak of the user's only request,
which is the assumption of the theorem (`Owner` is injective, as in `riot_sync`):
two creations at once do leave two primary accounts.

*History.* `HistInv`: the matches behind a cursor are stored or excused; so are
those behind the cursor that a worker is about to write, once what it could not
fetch is excused with it, and nobody else moves the cursor of its row meanwhile
(`CursorKnown`). The loop of `advanceMatchHistoryCursor` passes the pages up to
the first that is unresolved or short. `MatchHistory` names that page as the
least of a set and not by recursion, so the well-ordering of the naturals
(`WFMin`) is all the induction the proof needs. The ids of consecutive pages are
consecutive matches, so passing a page adds exactly the matches it resolved.

*Accounts.* `IdentityInv`: an identity is of an active user with its address and
addresses are unique; `ImageInv`: an image about to be removed is in at most
the row about to change; `ErasedInv`: a request past its checks for a user who has
withdrawn can write back only what `leftover` names, and a job of the POWER queue
about him, which the worker takes without a look at his status, only the profile.

*Community.* `BlockInv`, `PostInv`: a block or application under way is about
active users or an undeleted post, or is recorded as late; `GroupInv`: owners
are members. `PlacesInv` counts applicants and the requests past their check of
the capacity together: a request that finds a free place adds at most one for
each of the overlapping requests, and taking the place moves one from the second
number to the first; `ReportInv` counts reports in the same way. `MailInv`: jobs and the worker are about rows that exist, only
unsent ones are delivered, only delivered ones are marked; every step is then a
step of `NoticeContract` or a stutter. `DeliveryInv`: a notice has one job or one
request about to add it (`OneJobEach`), so the attempts of that job bound its
deliveries, which `TypeOK` needs.

*Decisions.* `LogInv`: the rows that the policy takes as the newest of each user
are the votes kept in `newest`, so a vote changes one entry of a function, and
each verdict is compared by the cardinalities of sets that differ by one user.
Lineups: `LineupInv`: the seats, and the lists that are stored or about to be, are
lineups whose keys differ, and a request holds what it has read and excludes. To be
cheaper, or to cost the same and be tried first, is a strict
total order on the arrangements of a team (`BeatsOrders`), and teams are finitely
many, so there is one best arrangement (`BestExists`, `BestRolesMeans`). Hence
team A determines team B's players and the lanes of both (`KeyTells`), and a lineup
that fits makes the search find one (`FittingIsFound`). The three modes extend
the list one after the other; each candidate is what its mode takes, given those
before it (`Taken`), which is what `RerollMoves` says of it.
Champions: to outrank is a strict total order too (`OutranksOrders`), so the
number of those ahead of a champion is an injection into the places, hence a
bijection, and the sorted list has everybody once (`InOrderSorts`); adding those
over a threshold keeps a list of the most played (`AddedLists`). `ChampionInv`: a
request that has counted rows finds them, and the last answer's games are still
stored, unless a withdrawal erased everything.

Every invariant and action property of the passing runs is a theorem. Only
model-checked:

- liveness (`ConfirmationAnnounced`, `SyncSettles`, `ProfileCatchesUp`,
  `NoticeSettles`): fairness and `ENABLED` are out of the prover's reach.

## Plan

The plan was to model the match first, then the components around it by how
much their handlers overlap: `RiotSync`, `Accounts`, `Community`, and the
sequential computations last; every module states its parameters as constants
so that it can be proved about. All of it is done. What is left:

1. The throttle guard, and previews of results and balances, as sequential
   modules.
2. One composition of `Accounts` with `RiotSync` and the blocks of `Community`:
   their withdrawals are one transaction in the code and three here.

## Not modelled

- `common/guards/public-throttle.guard.ts`: a fixed window counter that runs
  without an `await`; unit tests reach it.
- Logging, error formats, validation of the environment, bootstrap, health,
  reference data, app configuration, fixtures: no state of the domain.
- Disk and URLs of files; verification of passwords and of Apple, Google and
  JWT tokens; the HTTP transport to Riot apart from its retries and outcomes.
- Scoring formulas of `power/calculators` and of the balance modes:
  floating-point arithmetic that TLC and TLAPS do not have.
- `members[].profileVisible` is a constant and confirmations needed, as shown,
  is one short of the quorum at some sizes: display values no handler reads.
