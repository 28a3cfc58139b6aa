------------------------------ MODULE RiotSync ------------------------------
(***************************************************************************)
(* Riot accounts and their synchronisation (src/src/riot/riot.service.ts,  *)
(* riot.processor.ts): requests of users that add, refresh, read and       *)
(* delete accounts, the single worker of the RIOT_SYNC queue, the retries  *)
(* of its jobs, recovery of stalled synchronisations, process crashes, and *)
(* withdrawal of a user as far as it touches these rows.                   *)
(* Ids are given in creation order, so the oldest row has the smallest id. *)
(***************************************************************************)
EXTENDS MatchHistory, RiotCalls

CONSTANTS User, Puuid, Request,
          Owner,        \* the user behind each request slot
          NoAccount,    \* an absent row
          MaxAttempts,  \* RIOT_SYNC_MAX_RETRIES
          MaxOpen,      \* requests under way at once
          MaxAccounts, MaxJobs, MaxPlayed, MaxCrashes, MaxStalls, \* bounds of the model
          MaxAccountsAndStalls   \* bound on both together

ASSUME SyncAssumption ==
    /\ Owner \in [Request -> User]
    /\ MaxAttempts \in Nat \ {0}
    /\ MaxOpen \in Nat /\ MaxAccounts \in Nat /\ MaxJobs \in Nat
    /\ MaxPlayed \in Nat /\ MaxCrashes \in Nat /\ MaxStalls \in Nat
    /\ MaxAccountsAndStalls \in Nat

VARIABLES
    account,    \* riot_accounts
    lastId,     \* the newest account id
    played,     \* matches played, per puuid (Riot's side)
    stored,     \* riot_match_participant_summaries, per puuid
    queue,      \* RIOT_SYNC jobs that wait or are delayed
    lastJob,    \* the newest job id
    worker,     \* the job in progress
    request,    \* the requests in progress
    stalled,    \* ids without progress for RIOT_SYNC_STALE_MS
    faults,     \* crashes and stalls so far
    lost,       \* history: ids whose last job was lost, until another is queued
    seen,       \* history: matches played when the last committed sync paged
    excused     \* history: ids a synchronisation had no chance to store

rows     == <<account, lastId, stored>>
ghosts   == <<lost, seen, excused>>
syncVars == <<rows, played, queue, lastJob, worker, request, stalled, faults, ghosts>>

Id      == 1..MaxAccounts
Match   == 1..MaxPlayed
Status  == {"IDLE", "QUEUED", "RUNNING", "SUCCEEDED", "PARTIAL", "FAILED",
            "RETRY_SCHEDULED"}
Pending == {"QUEUED", "RETRY_SCHEDULED"}
Unsettled == Pending \cup {"RUNNING"}

Account == [user : User, puuid : Puuid, isPrimary : BOOLEAN, syncStatus : Status,
            synced : BOOLEAN,             \* lastSyncedAt is set
            hasUsableSnapshot : BOOLEAN, cursor : Cursor]

Job == [no : 1..MaxJobs, id : Id, type : SyncType, attemptsMade : 0..(MaxAttempts - 1),
        redelivered : BOOLEAN]

Exists(a)      == account[a] # NoAccount
AccountsOf(u)  == {a \in Id : Exists(a) /\ account[a].user = u}
PrimariesOf(u) == {a \in AccountsOf(u) : account[a].isPrimary}
JobsOf(a)      == {j \in queue : j.id = a}

IdleWorker == [pc |-> "idle"]

\* The worker w has a job of the account, and the outcome is still to be written.
Settling(w, a) == w.pc \notin {"idle", "committed"} /\ w.job.id = a

\* The ids whose row is left on its way with nothing to settle it: neither one of
\* the jobs nor the worker w.
Stranded(ids, jobs, w) ==
    {a \in ids : /\ Exists(a) /\ account[a].syncStatus \in Unsettled
                 /\ \A j \in jobs : j.id # a
                 /\ ~ Settling(w, a)}

\* markSyncProgress: lastSyncProgressAt is now.
Progress(a) == stalled' = stalled \ {a}

\* An update that sets lastSyncProgressAt and hasUsableSnapshot along with the
\* status; the flag comes from the row the handler read earlier.
Write(a, status, synced) ==
    /\ account' = [account EXCEPT ![a].syncStatus = status,
                                  ![a].hasUsableSnapshot = synced]
    /\ Progress(a)

-----------------------------------------------------------------------------
(* Requests. An idle slot has no data; a request under way holds what it    *)
(* has read.                                                                *)
IdleRequest == [pc |-> "idle"]

Goto(r, record) == request' = [request EXCEPT ![r] = record]
Leave(r)        == Goto(r, IdleRequest)

\* findListVisibleDuplicateByRiotId, findListVisibleDuplicateByPuuid: the user's
\* own row of the player. A player's Riot id stands for the puuid.
Duplicates(u, p) == {a \in AccountsOf(u) : account[a].puuid = p}

\* Beyond the bounds of the model no row is created.
Full == lastId = MaxAccounts \/ lastId + faults.stalls >= MaxAccountsAndStalls

\* createForUser up to its transaction: the duplicate checks, the Riot lookup
\* and the primary flag the new row will carry.
CreateRead(r, p, wanted) ==
    /\ request[r] = IdleRequest
    /\ ~ Full
    /\ Duplicates(Owner[r], p) = {}
    /\ \E primary \in BOOLEAN :
         /\ primary = IF wanted = "unset" THEN PrimariesOf(Owner[r]) = {}
                      ELSE wanted = "yes"
         /\ Goto(r, [pc |-> "create", puuid |-> p, isPrimary |-> primary])
    /\ UNCHANGED <<rows, played, queue, lastJob, worker, stalled, faults, ghosts>>

\* A slip: the old primary is left as it is.
CreateBeginKeepingPrimary(r) ==
    /\ request[r].pc = "create"
    /\ Goto(r, [pc |-> "insert", puuid |-> request[r].puuid,
                isPrimary |-> request[r].isPrimary, demoted |-> {}])
    /\ UNCHANGED <<rows, played, queue, lastJob, worker, stalled, faults, ghosts>>

\* The transaction opens: its updateMany sees the primaries of this moment.
CreateBegin(r) ==
    /\ request[r].pc = "create"
    /\ Goto(r, [pc |-> "insert", puuid |-> request[r].puuid,
                isPrimary |-> request[r].isPrimary,
                demoted |-> IF request[r].isPrimary THEN PrimariesOf(Owner[r]) ELSE {}])
    /\ UNCHANGED <<rows, played, queue, lastJob, worker, stalled, faults, ghosts>>

\* The transaction commits, or fails on the unique pair of user and puuid.
CreateCommit(r) ==
    LET p == request[r].puuid
        u == Owner[r]
    IN  /\ request[r].pc = "insert"
        /\ IF Full \/ Duplicates(u, p) # {}
           THEN Leave(r) /\ UNCHANGED <<account, lastId>>
           ELSE /\ lastId' = lastId + 1
                /\ account' = [a \in Id |->
                     IF a = lastId + 1
                     THEN [user |-> u, puuid |-> p, isPrimary |-> request[r].isPrimary,
                           syncStatus |-> "IDLE", synced |-> FALSE,
                           hasUsableSnapshot |-> FALSE, cursor |-> StartCursor]
                     ELSE IF a \in request[r].demoted /\ Exists(a)
                     THEN [account[a] EXCEPT !.isPrimary = FALSE]
                     ELSE account[a]]
                /\ Goto(r, [pc |-> "queueRead", id |-> lastId + 1, type |-> "initial"])
        /\ UNCHANGED <<stored, played, queue, lastJob, worker, stalled, faults, ghosts>>

\* enqueueSync finds the row among the user's own.
SyncRequest(r, a) ==
    /\ request[r] = IdleRequest
    /\ a \in AccountsOf(Owner[r])
    /\ Goto(r, [pc |-> "queueRead", id |-> a, type |-> "refresh"])
    /\ UNCHANGED <<rows, played, queue, lastJob, worker, stalled, faults, ghosts>>

\* queueSync reads the row: gone, stalled, already on its way, or to be queued.
QueueRead(r) ==
    LET a == request[r].id
        Next(pc) == Goto(r, [pc |-> pc, id |-> a, type |-> request[r].type,
                             synced |-> account[a].synced])
    IN  /\ request[r].pc = "queueRead"
        /\ IF ~ Exists(a) THEN Leave(r)
           ELSE IF account[a].syncStatus = "RUNNING" /\ a \in stalled
           THEN Next("queueRecover")
           ELSE IF account[a].syncStatus \in Unsettled THEN Leave(r)
           ELSE Next("queueMark")
        /\ UNCHANGED <<rows, played, queue, lastJob, worker, stalled, faults, ghosts>>

\* listForUser, getSyncStatus and getAccountResponse read a stalled row.
StatusRead(r, a) ==
    /\ request[r] = IdleRequest
    /\ a \in AccountsOf(Owner[r])
    /\ account[a].syncStatus = "RUNNING" /\ a \in stalled
    /\ Goto(r, [pc |-> "recover", id |-> a, synced |-> account[a].synced])
    /\ UNCHANGED <<rows, played, queue, lastJob, worker, stalled, faults, ghosts>>

\* recoverStaleRunningSync writes FAILED by id, whatever the row holds by now.
Recover(r) ==
    LET a == request[r].id
    IN  /\ request[r].pc \in {"recover", "queueRecover"}
        /\ IF ~ Exists(a)
           THEN Leave(r) /\ UNCHANGED <<account, stalled>>
           ELSE /\ Write(a, "FAILED", request[r].synced)
                /\ IF request[r].pc = "recover" THEN Leave(r)
                   ELSE Goto(r, [request[r] EXCEPT !.pc = "queueMark",
                                                   !.synced = account[a].synced])
        /\ UNCHANGED <<lastId, stored, played, queue, lastJob, worker, faults, ghosts>>

QueueMark(r) ==
    LET a == request[r].id
    IN  /\ request[r].pc = "queueMark"
        /\ IF ~ Exists(a)
           THEN Leave(r) /\ UNCHANGED <<account, stalled>>
           ELSE /\ Write(a, "QUEUED", request[r].synced)
                /\ Goto(r, [request[r] EXCEPT !.pc = "queueAdd"])
        /\ UNCHANGED <<lastId, stored, played, queue, lastJob, worker, faults, ghosts>>

\* The job is added to the queue.
QueueAdd(r) ==
    /\ request[r].pc = "queueAdd"
    /\ lastJob < MaxJobs
    /\ lastJob' = lastJob + 1
    /\ queue' = queue \cup {[no |-> lastJob + 1, id |-> request[r].id,
                             type |-> request[r].type, attemptsMade |-> 0,
                             redelivered |-> FALSE]}
    /\ lost' = lost \ {request[r].id}
    /\ Leave(r)
    /\ UNCHANGED <<rows, played, worker, stalled, faults, seen, excused>>

\* The queue does not take the job, and the row is marked FAILED.
QueueRefused(r) ==
    /\ request[r].pc = "queueAdd"
    /\ Goto(r, [request[r] EXCEPT !.pc = "queueFailed"])
    /\ UNCHANGED <<rows, played, queue, lastJob, worker, stalled, faults, ghosts>>

QueueFailedSilently(r) ==   \* a slip: the row stays QUEUED
    /\ request[r].pc = "queueFailed"
    /\ Leave(r)
    /\ UNCHANGED <<rows, played, queue, lastJob, worker, stalled, faults, ghosts>>

QueueFailed(r) ==
    LET a == request[r].id
    IN  /\ request[r].pc = "queueFailed"
        /\ Leave(r)
        /\ IF Exists(a)
           THEN Write(a, "FAILED", account[a].hasUsableSnapshot)
           ELSE UNCHANGED <<account, stalled>>
        /\ UNCHANGED <<lastId, stored, played, queue, lastJob, worker, faults, ghosts>>

\* deleteForUser reads the row, and whether it is the primary one.
DeleteRead(r, a) ==
    /\ request[r] = IdleRequest
    /\ a \in AccountsOf(Owner[r])
    /\ Goto(r, [pc |-> "cancel", id |-> a, wasPrimary |-> account[a].isPrimary])
    /\ UNCHANGED <<rows, played, queue, lastJob, worker, stalled, faults, ghosts>>

\* cancelRiotSyncJobs takes the waiting and delayed jobs of the account away,
\* one after the other.
DeleteCancel(r) ==
    /\ request[r].pc = "cancel"
    /\ queue' = queue \ JobsOf(request[r].id)
    /\ Goto(r, [request[r] EXCEPT !.pc = "delete"])
    /\ UNCHANGED <<rows, played, lastJob, worker, stalled, faults, ghosts>>

\* The transaction deletes the row and promotes the oldest remaining one.
DeleteCommit(r) ==
    LET a    == request[r].id
        rest == AccountsOf(Owner[r]) \ {a}
        heir == {b \in rest : request[r].wasPrimary /\ \A c \in rest : b <= c}
    IN  /\ request[r].pc = "delete" /\ Exists(a)
        /\ account' = [b \in Id |->
             IF b = a THEN NoAccount
             ELSE IF b \in heir THEN [account[b] EXCEPT !.isPrimary = TRUE]
             ELSE account[b]]
        /\ stalled' = stalled \ {a}
        /\ Goto(r, [pc |-> "deleted"])
        /\ UNCHANGED <<lastId, stored, played, queue, lastJob, worker, faults, ghosts>>

\* A removal fails, as it does for a job that the worker has taken by now: the
\* request ends, and the jobs removed so far do not come back.
DeleteInterrupted(r) ==
    LET a == request[r].id
    IN  /\ request[r].pc = "cancel"
        /\ \E removed \in SUBSET JobsOf(a) : queue' = queue \ removed
        /\ lost' = lost \cup Stranded({a}, queue', worker)
        /\ Leave(r)
        /\ UNCHANGED <<rows, played, lastJob, worker, stalled, faults, seen, excused>>

\* Audit entry and the message to the POWER queue, which PowerProfiles takes up.
DeleteAnnounce(r) ==
    /\ request[r].pc = "deleted"
    /\ Leave(r)
    /\ UNCHANGED <<rows, played, queue, lastJob, worker, stalled, faults, ghosts>>

\* users.withdrawMe reads the puuids, then erases accounts and summaries.
WithdrawRead(r) ==
    /\ request[r] = IdleRequest
    /\ AccountsOf(Owner[r]) # {}
    /\ Goto(r, [pc |-> "withdraw",
                puuids |-> {account[a].puuid : a \in AccountsOf(Owner[r])}])
    /\ UNCHANGED <<rows, played, queue, lastJob, worker, stalled, faults, ghosts>>

Withdraw(r) ==
    /\ request[r].pc = "withdraw"
    /\ account' = [a \in Id |-> IF a \in AccountsOf(Owner[r]) THEN NoAccount ELSE account[a]]
    /\ stalled' = stalled \ AccountsOf(Owner[r])
    /\ stored' = [p \in Puuid |-> IF p \in request[r].puuids THEN {} ELSE stored[p]]
    /\ excused' = [p \in Puuid |->
         IF p \in request[r].puuids THEN 1..played[p] ELSE excused[p]]
    /\ Leave(r)
    /\ UNCHANGED <<lastId, played, queue, lastJob, worker, faults, lost, seen>>

\* A query, an update or a transaction is rejected: the request ends, and what it
\* was about to write is not written. After the jobs were cancelled, or the new
\* one refused, that leaves the row as it is, with nobody to settle it.
RequestFails(r) ==
    LET pc == request[r].pc
    IN  /\ pc \in {"create", "insert", "queueRead", "recover", "queueRecover", "queueMark",
                  "queueFailed", "delete", "withdraw"}
        /\ lost' = IF pc \in {"queueFailed", "delete"}
                   THEN lost \cup Stranded({request[r].id}, queue, worker) ELSE lost
        /\ Leave(r)
        /\ UNCHANGED <<rows, played, queue, lastJob, worker, stalled, faults, seen, excused>>

-----------------------------------------------------------------------------
(* The worker of the RIOT_SYNC queue: RiotProcessor.process, syncAccount.   *)
SnapshotUsable(row) ==   \* a slip: the snapshot is taken for usable
    [user |-> row.user, puuid |-> row.puuid, synced |-> TRUE, cursor |-> row.cursor]

\* What a job keeps of the row it read.
Snapshot(row) == [user |-> row.user, puuid |-> row.puuid, synced |-> row.synced,
                  cursor |-> row.cursor]

\* The first synchronisation of an account is an initial one.
TypeOf(job, row) == IF job.type = "initial" \/ ~ row.synced THEN "initial" ELSE "refresh"

ShouldRetryOnce(job, retryable) == retryable /\ job.attemptsMade < MaxAttempts  \* a slip

ShouldRetry(job, retryable) == retryable /\ job.attemptsMade + 1 < MaxAttempts

\* The handler throws: BullMQ runs the job again while it has attempts left.
RethrowForGood(job, waiting) == worker' = IdleWorker /\ queue' = waiting   \* a slip: no retry
Rethrow(job, waiting) ==
    /\ worker' = IdleWorker
    /\ queue' = IF ShouldRetry(job, TRUE)
                THEN waiting \cup {[job EXCEPT !.attemptsMade = @ + 1]}
                ELSE waiting

\* A read or a write outside the try block is rejected: the row stays as it is,
\* and the job is run again or was the last.
Reject(job, waiting) ==
    /\ Rethrow(job, waiting)
    /\ lost' = lost \cup Stranded({job.id}, queue', IdleWorker)
    /\ UNCHANGED <<account, stalled>>

\* The body of the try block throws; the catch block follows.
Throw(retryable) ==
    worker' = [pc |-> "failing", job |-> worker.job, row |-> worker.row,
               retryable |-> retryable]

\* The next job reads its account; without one there is nothing to do.
Take(job) ==
    LET a == job.id
    IN  /\ worker = IdleWorker
        /\ job \in queue
        /\ \/ /\ queue' = queue \ {job}
              /\ worker' = IF ~ Exists(a) THEN IdleWorker
                   ELSE [pc |-> "start", job |-> job, row |-> Snapshot(account[a])]
              /\ UNCHANGED <<account, stalled, lost>>
           \/ Reject(job, queue \ {job})
        /\ UNCHANGED <<lastId, stored, played, lastJob, request, faults, seen, excused>>

\* RUNNING is written outside the try block; a deleted row refuses it.
Begin ==
    LET a == worker.job.id
    IN  /\ worker.pc = "start"
        /\ \/ /\ Exists(a)
              /\ Write(a, "RUNNING", worker.row.synced)
              /\ worker' = [worker EXCEPT !.pc = "page"]
              /\ UNCHANGED <<queue, lost>>
           \/ Reject(worker.job, queue)
        /\ UNCHANGED <<lastId, stored, played, lastJob, request, faults, seen, excused>>

\* The summoner and the pages of match ids are read; the known ids looked up.
Page ==
    LET p     == worker.row.puuid
        paged == PagedIds(played[p], worker.row.cursor, TypeOf(worker.job, worker.row))
    IN  /\ worker.pc = "page" /\ Exists(worker.job.id)
        /\ Progress(worker.job.id)
        /\ worker' = [pc |-> "details", job |-> worker.job, row |-> worker.row,
                      n |-> played[p], known |-> stored[p] \cap paged]
        /\ UNCHANGED <<rows, played, queue, lastJob, request, faults, ghosts>>

\* What a synchronisation leaves behind its back: with a cursor beyond the
\* latest page, failed ids of that page and newer ids that no page reached.
Missed(failed) ==
    LET type  == TypeOf(worker.job, worker.row)
        newer == (seen[worker.job.id] + 1)..worker.n
    IN  IF worker.row.cursor = StartCursor THEN {}
        ELSE (failed \cap LatestPage(worker.n, type))
               \cup (newer \ PagedIds(worker.n, worker.row.cursor, type))

\* Details arrive except for the failed ids; what is new is stored.
Details(failed) ==
    LET p      == worker.row.puuid
        cursor == worker.row.cursor
        type   == TypeOf(worker.job, worker.row)
        paged  == PagedIds(worker.n, cursor, type)
        asked  == DetailIds(worker.n, cursor, type, worker.known)
    IN  /\ failed \subseteq asked
        /\ UsableDetails(worker.n, type, failed)
        /\ Progress(worker.job.id)
        /\ stored' = [stored EXCEPT ![p] = @ \cup ((paged \ worker.known) \ failed)]
        /\ worker' = [pc |-> "ranked", job |-> worker.job, row |-> worker.row,
                      n |-> worker.n, missed |-> Missed(failed), warned |-> failed # {},
                      cursor |-> AdvanceCursor(worker.n, cursor, type,
                                               worker.known \cup (asked \ failed))]
        /\ UNCHANGED <<account, lastId, played, queue, lastJob, request, faults, ghosts>>

StoreDetails ==
    /\ worker.pc = "details" /\ Exists(worker.job.id)
    /\ \E failed \in SUBSET Match : Details(failed)

\* lookupRankedEntries: whatever makes it fail becomes a warning.
RankedWarnings == {Fails(o) : o \in {x \in Outcome : x.lookup = "ranked"}}

\* The transaction writes the outcome, the cursor and the snapshots.
Commit ==
    LET a == worker.job.id
        p == worker.row.puuid
    IN  /\ worker.pc = "ranked" /\ Exists(a)
        /\ \E unranked \in RankedWarnings :
             account' = [account EXCEPT
                 ![a].syncStatus = IF worker.warned \/ unranked THEN "PARTIAL" ELSE "SUCCEEDED",
                 ![a].synced = TRUE, ![a].hasUsableSnapshot = TRUE,
                 ![a].cursor = worker.cursor]
        /\ stalled' = stalled \ {a}
        /\ seen' = [seen EXCEPT ![a] = worker.n]
        /\ excused' = [excused EXCEPT ![p] = @ \cup worker.missed]
        /\ worker' = [pc |-> "committed", job |-> worker.job, row |-> worker.row]
        /\ UNCHANGED <<lastId, stored, played, queue, lastJob, request, faults, lost>>

\* Audit entry and the message to the POWER queue, still inside the try block.
Announce ==
    /\ worker.pc = "committed"
    /\ worker' = IdleWorker
    /\ UNCHANGED <<rows, played, queue, lastJob, request, stalled, faults, ghosts>>

\* The row is gone, the database or the queue is not reachable, too few details
\* have come, or a lookup fails that the synchronisation needs.
Stumble ==
    /\ worker.pc \in {"page", "details", "ranked", "committed"}
    /\ \/ Throw(TRUE)
       \/ \E o \in Outcome :
            /\ worker.pc = "page" /\ Exists(worker.job.id)
            /\ o.lookup \in {"summoner", "matchIds"} /\ Fails(o)
            /\ Throw(Retryable(o))
    /\ UNCHANGED <<rows, played, queue, lastJob, request, stalled, faults, ghosts>>

\* The catch block writes the next status and ends the job or lets it be run
\* again; a failing audit entry rejects the job as well. When the update itself
\* is rejected, as a deleted row makes it, the row is still RUNNING.
Catch ==
    LET a     == worker.job.id
        retry == ShouldRetry(worker.job, worker.retryable)
    IN  /\ worker.pc = "failing"
        /\ \/ /\ Exists(a)
              /\ Write(a, IF retry THEN "RETRY_SCHEDULED" ELSE "FAILED", worker.row.synced)
              /\ \/ Rethrow(worker.job, queue)
                 \/ ~ retry /\ worker' = IdleWorker /\ UNCHANGED queue
              /\ UNCHANGED lost
           \/ Reject(worker.job, queue)
        /\ UNCHANGED <<lastId, stored, played, lastJob, request, faults, seen, excused>>

-----------------------------------------------------------------------------
(* The environment.                                                         *)

\* Another match is played.
Play(p) ==
    /\ played[p] < MaxPlayed
    /\ played' = [played EXCEPT ![p] = @ + 1]
    /\ UNCHANGED <<rows, queue, lastJob, worker, request, stalled, faults, ghosts>>

\* RIOT_SYNC_STALE_MS pass without progress: the worker died, or waits for
\* Riot's Retry-After.
Stall(a) ==
    /\ Exists(a) /\ account[a].syncStatus = "RUNNING" /\ a \notin stalled
    /\ faults.stalls < MaxStalls /\ lastId + faults.stalls < MaxAccountsAndStalls
    /\ faults' = [faults EXCEPT !.stalls = @ + 1]
    /\ stalled' = stalled \cup {a}
    /\ UNCHANGED <<rows, played, queue, lastJob, worker, request, ghosts>>

\* The process restarts: requests are gone, and BullMQ delivers the job of the
\* dead worker once more (maxStalledCount 1), then drops it.
Crash ==
    LET open(pcs) == {r \in Request : request[r].pc \in pcs}
        adding    == {request[r].id : r \in open({"queueAdd", "queueFailed"})}
        deleting  == {request[r].id : r \in open({"delete"})}
        dropped   == IF worker # IdleWorker /\ worker.job.redelivered THEN {worker.job.id} ELSE {}
    IN  /\ faults.crashes < MaxCrashes
        /\ faults' = [faults EXCEPT !.crashes = @ + 1]
        /\ request' = [r \in Request |-> IdleRequest]
        /\ worker' = IdleWorker
        /\ queue' = IF worker = IdleWorker \/ worker.job.redelivered THEN queue
                    ELSE queue \cup {[worker.job EXCEPT !.redelivered = TRUE]}
        /\ lost' = lost \cup Stranded(adding \cup deleting \cup dropped, queue', IdleWorker)
        /\ UNCHANGED <<rows, played, lastJob, stalled, seen, excused>>

-----------------------------------------------------------------------------
Init ==
    /\ account = [a \in Id |-> NoAccount]
    /\ lastId = 0
    /\ played \in [Puuid -> 0..MaxPlayed]
    /\ stored = [p \in Puuid |-> {}]
    /\ queue = {}
    /\ lastJob = 0
    /\ worker = IdleWorker
    /\ request = [r \in Request |-> IdleRequest]
    /\ stalled = {}
    /\ faults = [crashes |-> 0, stalls |-> 0]
    /\ lost = {}
    /\ seen = [a \in Id |-> 0]
    /\ excused = [p \in Puuid |-> {}]

BeginRequest(r) ==
    /\ Cardinality({q \in Request : request[q] # IdleRequest}) < MaxOpen
    /\ \/ \E p \in Puuid, wanted \in {"unset", "yes", "no"} : CreateRead(r, p, wanted)
       \/ \E a \in Id : SyncRequest(r, a) \/ StatusRead(r, a) \/ DeleteRead(r, a)
       \/ WithdrawRead(r)

ContinueRequest(r) ==
    \/ CreateBegin(r) \/ CreateCommit(r)
    \/ QueueRead(r) \/ Recover(r) \/ QueueMark(r)
    \/ QueueAdd(r) \/ QueueRefused(r) \/ QueueFailed(r)
    \/ DeleteCancel(r) \/ DeleteInterrupted(r) \/ DeleteCommit(r) \/ DeleteAnnounce(r)
    \/ Withdraw(r) \/ RequestFails(r)

WorkerStep ==
    \/ \E job \in queue : Take(job)
    \/ Begin \/ Page \/ StoreDetails \/ Commit \/ Announce \/ Stumble \/ Catch

Environment ==
    \/ \E p \in Puuid : Play(p)
    \/ \E a \in Id : Stall(a)
    \/ Crash

Next ==
    \/ \E r \in Request : BeginRequest(r) \/ ContinueRequest(r)
    \/ WorkerStep
    \/ Environment

Spec == Init /\ [][Next]_syncVars

FairSpec ==
    /\ Spec
    /\ \A r \in Request : WF_syncVars(ContinueRequest(r))
    /\ WF_syncVars(WorkerStep)

-----------------------------------------------------------------------------
(* Correctness.                                                             *)

\* Types of the rows and of the bookkeeping around them.
TypeOK ==
    /\ account \in [Id -> Account \cup {NoAccount}]
    /\ lastId \in 0..MaxAccounts
    /\ played \in [Puuid -> 0..MaxPlayed]
    /\ stored \in [Puuid -> SUBSET Match]
    /\ queue \subseteq Job
    /\ lastJob \in 0..MaxJobs
    /\ stalled \subseteq Id /\ lost \subseteq Id
    /\ faults \in [crashes : 0..MaxCrashes, stalls : 0..MaxStalls]
    /\ seen \in [Id -> 0..MaxPlayed]
    /\ excused \in [Puuid -> SUBSET Match]

Handling(a, pcs) == \E r \in Request : request[r].pc \in pcs /\ request[r].id = a

\* A row that is QUEUED or RETRY_SCHEDULED refuses every further request for a
\* synchronisation, so there must be something that will change it: a job, the
\* worker, or a request between its two writes. The exceptions are the rows in
\* lost: the process died in such a request, BullMQ dropped a job, a deletion
\* failed after it had cancelled the jobs, or the last attempt of a job, or the
\* request whose job was refused, could not write the row.
PendingHasJob ==
    \A a \in Id :
        Exists(a) /\ account[a].syncStatus \in Pending /\ a \notin lost =>
            \/ JobsOf(a) # {} \/ Settling(worker, a)
            \/ Handling(a, {"queueAdd", "queueFailed", "delete"})

\* hasUsableSnapshot is written from rows read earlier by recovery, requests and
\* the worker; it never promises a snapshot of an account that has none.
UsableMeansSynced ==
    \A a \in Id : Exists(a) /\ account[a].hasUsableSnapshot => account[a].synced

\* While a user sends one request at a time, at most one account is primary.
AtMostOnePrimary == \A u \in User : Cardinality(PrimariesOf(u)) <= 1

\* The cursor is a promise: every match above it, as of the last committed
\* synchronisation, is stored, whatever failed, was retried, ran twice, crashed
\* or was stored by another user's account of the same player. Excused are new
\* matches that failed or outran the latest page after the cursor had passed it,
\* and what a withdrawal erased.
HistoryCovered ==
    \A a \in Id : Exists(a) =>
        LET p      == account[a].puuid
            cursor == account[a].cursor
        IN  \A m \in 1..seen[a] :
                cursor.complete \/ seen[a] - m < cursor.next =>
                    m \in stored[p] \cup excused[p]

\* The cursor of a row never moves back, and a complete history stays complete.
CursorAdvances ==
    [][\A a \in Id : Exists(a) /\ account'[a] # NoAccount =>
          LET old == account[a].cursor
              new == account'[a].cursor
          IN  new.next >= old.next /\ (old.complete => new.complete)]_syncVars

\* A requested synchronisation settles: the row leaves QUEUED, RUNNING and
\* RETRY_SCHEDULED, is deleted, or is one of the lost ones.
SyncSettles ==
    \A a \in Id :
        (Exists(a) /\ account[a].syncStatus \in Unsettled) ~>
            (~ Exists(a) \/ a \in lost \/ account[a].syncStatus \notin Unsettled)
=============================================================================
