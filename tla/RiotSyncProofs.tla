--------------------------- MODULE RiotSyncProofs ---------------------------
(***************************************************************************)
(* Proofs about RiotSync: a usable snapshot is of an account that was      *)
(* synchronised, an account that waits for a synchronisation has a job or  *)
(* somebody who is about to add one, and one account of a user is primary. *)
(***************************************************************************)
EXTENDS RiotSync, FiniteSetTheorems, TLAPS

(* The types of rows, jobs, the worker and the requests; cursors are left open. *)
Row(cursor) ==
  [user : User, puuid : Puuid, isPrimary : BOOLEAN, syncStatus : Status, synced : BOOLEAN,
   hasUsableSnapshot : BOOLEAN, cursor : {cursor}]

RowsTyped ==
  /\ account = [a \in Id |-> account[a]]
  /\ \A a \in Id : Exists(a) => account[a] \in Row(account[a].cursor)
  /\ lastId \in 0 .. MaxAccounts

JobsTyped == queue \subseteq Job /\ lastJob \in 0 .. MaxJobs

WorkerPc == {"start", "page", "details", "ranked", "committed", "failing"}
WorkerTyped ==
  \/ worker = IdleWorker
  \/ /\ worker.pc \in WorkerPc
     /\ worker.job \in Job
     /\ worker.row.synced \in BOOLEAN
     /\ worker.pc = "start" => worker = [pc |-> "start", job |-> worker.job, row |-> worker.row]

Creating == [pc : {"create"}, puuid : Puuid, isPrimary : BOOLEAN]
Inserting == [pc : {"insert"}, puuid : Puuid, isPrimary : BOOLEAN, demoted : SUBSET Id]
Reading == [pc : {"queueRead"}, id : Id, type : SyncType]
Queueing == [pc : {"queueRecover", "queueMark", "queueAdd", "queueFailed"}, id : Id,
             type : SyncType, synced : BOOLEAN]
Recovering == [pc : {"recover"}, id : Id, synced : BOOLEAN]
Deleting == [pc : {"cancel", "delete"}, id : Id, wasPrimary : BOOLEAN]
Leaving == [pc : {"deleted"}] \cup [pc : {"withdraw"}, puuids : SUBSET Puuid]

RequestsTyped ==
  request \in [Request -> {IdleRequest} \cup Creating \cup Inserting \cup Reading \cup Queueing
                            \cup Recovering \cup Deleting \cup Leaving]

Typed == RowsTyped /\ JobsTyped /\ WorkerTyped /\ RequestsTyped

(* The account a request is about. *)
AboutPc == {"queueRead", "queueRecover", "queueMark", "queueAdd", "queueFailed", "recover",
            "cancel", "delete"}

(* Ids are given once: nothing is about a row that is still to come. *)
IdsGiven ==
  /\ \A a \in Id : Exists(a) => a <= lastId
  /\ \A job \in queue : job.id <= lastId
  /\ worker # IdleWorker => worker.job.id <= lastId
  /\ \A r \in Request : request[r].pc \in AboutPc => request[r].id <= lastId

(* The flags that handlers carry were true of the row, and stay true of it. *)
CarriedFlags ==
  /\ worker # IdleWorker /\ worker.row.synced = TRUE /\ Exists(worker.job.id) =>
       account[worker.job.id].synced = TRUE
  /\ \A r \in Request :
       request[r].pc \in {"recover", "queueRecover", "queueMark", "queueAdd"}
         /\ request[r].synced = TRUE /\ Exists(request[r].id) =>
           account[request[r].id].synced = TRUE

Usable == \A a \in Id : Exists(a) /\ account[a].hasUsableSnapshot = TRUE => account[a].synced = TRUE

SyncedInv == IdsGiven /\ CarriedFlags /\ Usable

(* What will change a pending row: a job, the worker while it has an outcome to write, or a *)
(* request between its two writes. Rows in lost have been given up.                        *)
PendingPc == {"queueAdd", "queueFailed", "delete"}

Covered(a) ==
  \/ a \in lost
  \/ JobsOf(a) # {}
  \/ Settling(worker, a)
  \/ Handling(a, PendingPc)

PendingInv == \A a \in Id : Exists(a) /\ account[a].syncStatus \in Pending => Covered(a)
-----------------------------------------------------------------------------
(* Types. *)

(* What an update by id does to its row, and to no other. *)
LEMMA WriteRow ==
  ASSUME RowsTyped, NEW a \in Id, Exists(a), NEW status \in Status, NEW synced \in BOOLEAN,
         Write(a, status, synced)
  PROVE  /\ account' = [b \in Id |-> account'[b]]
         /\ \A b \in Id \ {a} : account'[b] = account[b]
         /\ account'[a] \in Row(account[a].cursor)
         /\ account'[a].cursor = account[a].cursor
         /\ account'[a].syncStatus = status
         /\ account'[a].hasUsableSnapshot = synced
         /\ account'[a].synced = account[a].synced
         /\ account'[a].user = account[a].user
         /\ account'[a].isPrimary = account[a].isPrimary
<1>1. account[a] \in Row(account[a].cursor) /\ account = [b \in Id |-> account[b]]
  BY DEF RowsTyped
<1>2. account' = [account EXCEPT ![a].syncStatus = status, ![a].hasUsableSnapshot = synced]
  BY DEF Write
<1>3. account' = [account EXCEPT ![a] = [account[a] EXCEPT !.syncStatus = status,
                                                           !.hasUsableSnapshot = synced]]
  BY <1>1, <1>2
<1> QED
  BY <1>1, <1>3 DEF Row

(* The rows stay typed when one is updated by id. *)
LEMMA WriteTyped ==
  ASSUME RowsTyped, NEW a \in Id, Exists(a), NEW status \in Status, NEW synced \in BOOLEAN,
         Write(a, status, synced), UNCHANGED lastId
  PROVE  RowsTyped'
BY WriteRow DEF RowsTyped, Exists

(* A request that goes on keeps the others, and its record is typed. *)
LEMMA GotoTyped ==
  ASSUME RequestsTyped, NEW r \in Request, NEW record,
         record \in {IdleRequest} \cup Creating \cup Inserting \cup Reading \cup Queueing
                     \cup Recovering \cup Deleting \cup Leaving,
         Goto(r, record)
  PROVE  /\ RequestsTyped'
         /\ request'[r] = record
         /\ \A q \in Request \ {r} : request'[q] = request[q]
BY DEF RequestsTyped, Goto

(* A request that is over keeps nothing. *)
LEMMA LeaveTyped ==
  ASSUME RequestsTyped, NEW r \in Request, Leave(r)
  PROVE  /\ RequestsTyped'
         /\ request'[r] = IdleRequest
         /\ \A q \in Request \ {r} : request'[q] = request[q]
BY GotoTyped DEF Leave

(* The kind of record a request is, by the point it has reached. *)
LEMMA RequestKinds ==
  ASSUME RequestsTyped, NEW r \in Request
  PROVE  /\ request[r].pc = "create" => request[r] \in Creating
         /\ request[r].pc = "insert" => request[r] \in Inserting
         /\ request[r].pc = "queueRead" => request[r] \in Reading
         /\ request[r].pc \in {"queueRecover", "queueMark", "queueAdd", "queueFailed"}
              => request[r] \in Queueing
         /\ request[r].pc = "recover" => request[r] \in Recovering
         /\ request[r].pc \in {"cancel", "delete"} => request[r] \in Deleting
         /\ request[r].pc \in AboutPc => request[r].id \in Id
BY DEF RequestsTyped, IdleRequest, Creating, Inserting, Reading, Queueing, Recovering, Deleting,
   Leaving, AboutPc

(* Rows keep their flags, and a new row has the next id and none. *)
RowsEvolve ==
  /\ lastId <= lastId'
  /\ \A a \in Id : Exists(a)' =>
       \/ /\ Exists(a)
          /\ account[a].synced = TRUE => account'[a].synced = TRUE
          /\ account'[a].hasUsableSnapshot = TRUE =>
               account[a].hasUsableSnapshot = TRUE \/ account'[a].synced = TRUE
       \/ a > lastId /\ a <= lastId' /\ account'[a].hasUsableSnapshot = FALSE

FlagPc == {"recover", "queueRecover", "queueMark", "queueAdd"}

(* What request r holds after its step is about a given row, and true of it. *)
HoldsTruth(r) ==
  /\ request'[r].pc \in AboutPc => request'[r].id <= lastId'
  /\ request'[r].pc \in FlagPc /\ request'[r].synced = TRUE /\ account'[request'[r].id] # NoAccount
       => account'[request'[r].id].synced = TRUE

OnlyRequest(r) == \A q \in Request \ {r} : request'[q] = request[q]

(* A request that begins. *)
LEMMA BeginTyped ==
  ASSUME Typed, NEW r \in Request, BeginRequest(r)
  PROVE  /\ Typed' /\ request[r] = IdleRequest
         /\ UNCHANGED <<rows, queue, lastJob, worker, lost>>
         /\ \A q \in Request \ {r} : request'[q] = request[q]
         /\ \/ request'[r].pc \in {"create", "withdraw"}
            \/ /\ request'[r].pc \in {"queueRead", "recover", "cancel"}
               /\ request'[r].id \in AccountsOf(Owner[r])
               /\ request'[r].pc = "recover" =>
                    request'[r].synced = account[request'[r].id].synced
<1>0. RequestsTyped /\ UNCHANGED <<rows, queue, lastJob, worker, lost>> /\ request[r] = IdleRequest
  BY DEF BeginRequest, CreateRead, SyncRequest, StatusRead, DeleteRead, WithdrawRead, Typed, ghosts
<1> DEFINE Goal == /\ RequestsTyped'
                   /\ \A q \in Request \ {r} : request'[q] = request[q]
                   /\ \/ request'[r].pc \in {"create", "withdraw"}
                      \/ /\ request'[r].pc \in {"queueRead", "recover", "cancel"}
                         /\ request'[r].id \in AccountsOf(Owner[r])
                         /\ request'[r].pc = "recover" =>
                              request'[r].synced = account[request'[r].id].synced
<1>1. ASSUME NEW p \in Puuid, NEW wanted, CreateRead(r, p, wanted)
      PROVE  Goal
  <2>1. PICK primary \in BOOLEAN : Goto(r, [pc |-> "create", puuid |-> p, isPrimary |-> primary])
    BY <1>1 DEF CreateRead
  <2>2. [pc |-> "create", puuid |-> p, isPrimary |-> primary] \in Creating
    BY DEF Creating
  <2> QED
    BY <1>0, <2>1, <2>2, GotoTyped
<1>2. ASSUME NEW a \in Id, SyncRequest(r, a)
      PROVE  Goal
  <2>1. [pc |-> "queueRead", id |-> a, type |-> "refresh"] \in Reading
    BY DEF Reading, SyncType
  <2> QED
    BY <1>0, <1>2, <2>1, GotoTyped DEF SyncRequest
<1>3. ASSUME NEW a \in Id, StatusRead(r, a)
      PROVE  Goal
  <2>1. account[a].synced \in BOOLEAN
    BY <1>3 DEF StatusRead, AccountsOf, Typed, RowsTyped, Row
  <2>2. [pc |-> "recover", id |-> a, synced |-> account[a].synced] \in Recovering
    BY <2>1 DEF Recovering
  <2> QED
    BY <1>0, <1>3, <2>2, GotoTyped DEF StatusRead
<1>4. ASSUME NEW a \in Id, DeleteRead(r, a)
      PROVE  Goal
  <2>1. account[a].isPrimary \in BOOLEAN
    BY <1>4 DEF DeleteRead, AccountsOf, Typed, RowsTyped, Row
  <2>2. [pc |-> "cancel", id |-> a, wasPrimary |-> account[a].isPrimary] \in Deleting
    BY <2>1 DEF Deleting
  <2> QED
    BY <1>0, <1>4, <2>2, GotoTyped DEF DeleteRead
<1>5. ASSUME WithdrawRead(r)
      PROVE  Goal
  <2> DEFINE ps == {account[a].puuid : a \in AccountsOf(Owner[r])}
  <2>1. ps \in SUBSET Puuid
    BY DEF AccountsOf, Typed, RowsTyped, Row
  <2>2. [pc |-> "withdraw", puuids |-> ps] \in Leaving
    BY <2>1 DEF Leaving
  <2> QED
    BY <1>0, <1>5, <2>2, GotoTyped DEF WithdrawRead
<1>6. Goal
  BY <1>1, <1>2, <1>3, <1>4, <1>5 DEF BeginRequest
<1>7. RowsTyped' /\ JobsTyped' /\ WorkerTyped'
  BY <1>0 DEF Typed, rows, RowsTyped, Exists, JobsTyped, WorkerTyped
<1> QED
  BY <1>0, <1>6, <1>7 DEF Typed

(* Requests that touch no row. *)
LEMMA QuietRequest ==
  ASSUME Typed, SyncedInv, NEW r \in Request,
         CreateBegin(r) \/ QueueRead(r) \/ QueueRefused(r) \/ DeleteCancel(r)
           \/ DeleteInterrupted(r) \/ DeleteAnnounce(r) \/ RequestFails(r)
  PROVE  /\ RequestsTyped' /\ OnlyRequest(r) /\ HoldsTruth(r)
         /\ UNCHANGED <<account, lastId, lastJob, worker>> /\ queue' \subseteq queue
<1> USE DEF OnlyRequest, HoldsTruth
<1>0. /\ RequestsTyped /\ UNCHANGED <<account, lastId, lastJob, worker>> /\ queue' \subseteq queue
      /\ \A a \in Id : Exists(a)' <=> Exists(a)
  <2>1. CASE RequestFails(r)
    BY <2>1 DEF RequestFails, Typed, rows, Exists
  <2>2. CASE ~ RequestFails(r)
    BY <2>2 DEF CreateBegin, QueueRead, QueueRefused, DeleteCancel, DeleteInterrupted,
       DeleteAnnounce, Typed, ghosts, rows, Exists
  <2> QED
    BY <2>1, <2>2
<1>1. ASSUME Leave(r)
      PROVE  RequestsTyped' /\ OnlyRequest(r) /\ HoldsTruth(r)
  BY <1>0, <1>1, LeaveTyped DEF IdleRequest, AboutPc, FlagPc
<1>2. ASSUME CreateBegin(r)
      PROVE  RequestsTyped' /\ OnlyRequest(r) /\ HoldsTruth(r)
  <2>1. PICK demoted \in SUBSET Id :
          Goto(r, [pc |-> "insert", puuid |-> request[r].puuid,
                   isPrimary |-> request[r].isPrimary, demoted |-> demoted])
    BY <1>2 DEF CreateBegin, PrimariesOf, AccountsOf
  <2>2. [pc |-> "insert", puuid |-> request[r].puuid,
         isPrimary |-> request[r].isPrimary, demoted |-> demoted] \in Inserting
    BY <1>0, <1>2, RequestKinds DEF CreateBegin, Creating, Inserting
  <2> QED
    BY <1>0, <2>1, <2>2, GotoTyped DEF AboutPc, FlagPc
<1>3. ASSUME QueueRead(r)
      PROVE  RequestsTyped' /\ OnlyRequest(r) /\ HoldsTruth(r)
  <2>0. request[r] \in Reading /\ request[r].id <= lastId
    BY <1>0, <1>3, RequestKinds DEF QueueRead, SyncedInv, IdsGiven, AboutPc
  <2>1. ASSUME NEW pc \in {"queueRecover", "queueMark"}, Exists(request[r].id),
               Goto(r, [pc |-> pc, id |-> request[r].id, type |-> request[r].type,
                        synced |-> account[request[r].id].synced])
        PROVE  RequestsTyped' /\ OnlyRequest(r) /\ HoldsTruth(r)
    <3>1. account[request[r].id].synced \in BOOLEAN
      BY <2>0, <2>1 DEF Reading, Typed, RowsTyped, Row
    <3>2. [pc |-> pc, id |-> request[r].id, type |-> request[r].type,
           synced |-> account[request[r].id].synced] \in Queueing
      BY <2>0, <3>1 DEF Reading, Queueing
    <3> QED
      BY <1>0, <2>0, <2>1, <3>2, GotoTyped
  <2> QED
    BY <1>1, <1>3, <2>1 DEF QueueRead
<1>4. ASSUME QueueRefused(r)
      PROVE  RequestsTyped' /\ OnlyRequest(r) /\ HoldsTruth(r)
  <2>1. request[r] \in Queueing /\ request[r].id <= lastId
    BY <1>0, <1>4, RequestKinds DEF QueueRefused, SyncedInv, IdsGiven, AboutPc
  <2>2. /\ [request[r] EXCEPT !.pc = "queueFailed"] \in Queueing
        /\ [request[r] EXCEPT !.pc = "queueFailed"].pc = "queueFailed"
        /\ [request[r] EXCEPT !.pc = "queueFailed"].id = request[r].id
    BY <2>1 DEF Queueing
  <2> QED
    BY <1>0, <1>4, <2>1, <2>2, GotoTyped DEF QueueRefused, FlagPc
<1>5. ASSUME DeleteCancel(r)
      PROVE  RequestsTyped' /\ OnlyRequest(r) /\ HoldsTruth(r)
  <2>1. request[r] \in Deleting /\ request[r].id <= lastId
    BY <1>0, <1>5, RequestKinds DEF DeleteCancel, SyncedInv, IdsGiven, AboutPc
  <2>2. /\ [request[r] EXCEPT !.pc = "delete"] \in Deleting
        /\ [request[r] EXCEPT !.pc = "delete"].pc = "delete"
        /\ [request[r] EXCEPT !.pc = "delete"].id = request[r].id
    BY <2>1 DEF Deleting
  <2> QED
    BY <1>0, <1>5, <2>1, <2>2, GotoTyped DEF DeleteCancel, FlagPc
<1> QED
  BY <1>0, <1>1, <1>2, <1>3, <1>4, <1>5 DEF DeleteInterrupted, DeleteAnnounce, RequestFails

(* Requests that update a row by its id. *)
LEMMA WritingRequest ==
  ASSUME Typed, SyncedInv, NEW r \in Request, Recover(r) \/ QueueMark(r) \/ QueueFailed(r)
  PROVE  /\ RowsTyped' /\ RequestsTyped' /\ OnlyRequest(r) /\ HoldsTruth(r) /\ RowsEvolve
         /\ UNCHANGED <<lastId, lastJob, worker, queue, lost>>
<1> USE DEF OnlyRequest, HoldsTruth
<1>0. /\ RowsTyped /\ RequestsTyped /\ UNCHANGED <<lastId, lastJob, worker, queue, lost>>
      /\ lastId \in Nat /\ Id \subseteq Nat
  BY DEF Recover, QueueMark, QueueFailed, Typed, RowsTyped, ghosts, Id
<1> DEFINE a == request[r].id
<1>1. a \in Id /\ a <= lastId
  BY <1>0, RequestKinds DEF Recover, QueueMark, QueueFailed, AboutPc, SyncedInv, IdsGiven
<1>2. ASSUME UNCHANGED account
      PROVE  RowsTyped' /\ RowsEvolve
  BY <1>0, <1>2 DEF RowsTyped, Exists, RowsEvolve
<1>3. ASSUME NEW status \in Status, NEW synced \in BOOLEAN, Exists(a), Write(a, status, synced),
             synced = TRUE => account[a].hasUsableSnapshot = TRUE \/ account[a].synced = TRUE
      PROVE  RowsTyped' /\ RowsEvolve /\ account'[a].synced = account[a].synced
  BY <1>0, <1>1, <1>3, WriteRow, WriteTyped DEF RowsEvolve, Exists
<1>4. ASSUME Leave(r)
      PROVE  RequestsTyped' /\ OnlyRequest(r) /\ HoldsTruth(r)
  BY <1>0, <1>4, LeaveTyped DEF IdleRequest, AboutPc, FlagPc
<1>5. ASSUME ~ Exists(a)
      PROVE  RowsTyped' /\ RequestsTyped' /\ OnlyRequest(r) /\ HoldsTruth(r) /\ RowsEvolve
  <2>1. Leave(r) /\ UNCHANGED account
    BY <1>5 DEF Recover, QueueMark, QueueFailed
  <2> QED
    BY <1>2, <1>4, <2>1
<1>6. ASSUME Recover(r), Exists(a)
      PROVE  RowsTyped' /\ RequestsTyped' /\ OnlyRequest(r) /\ HoldsTruth(r) /\ RowsEvolve
  <2>1. /\ request[r].synced \in BOOLEAN
        /\ request[r].synced = TRUE => account[a].synced = TRUE
        /\ account[a].synced \in BOOLEAN
    BY <1>0, <1>1, <1>6, RequestKinds
       DEF Recover, Recovering, Queueing, SyncedInv, CarriedFlags, RowsTyped, Row
  <2>2. Write(a, "FAILED", request[r].synced)
    BY <1>6 DEF Recover
  <2>3. RowsTyped' /\ RowsEvolve /\ account'[a].synced = account[a].synced
    BY <1>3, <1>6, <2>1, <2>2 DEF Status
  <2>4. CASE request[r].pc = "recover"
    BY <1>4, <1>6, <2>3, <2>4 DEF Recover
  <2>5. CASE request[r].pc = "queueRecover"
    <3> DEFINE record == [request[r] EXCEPT !.pc = "queueMark", !.synced = account[a].synced]
    <3>1. Goto(r, record)
      BY <1>6, <2>5 DEF Recover
    <3>2. record \in Queueing /\ record.pc = "queueMark" /\ record.id = a
          /\ record.synced = account[a].synced
      BY <1>0, <2>1, <2>5, RequestKinds DEF Queueing
    <3> HIDE DEF record
    <3>3. RequestsTyped' /\ request'[r] = record /\ OnlyRequest(r)
      BY <1>0, <3>1, <3>2, GotoTyped
    <3>4. HoldsTruth(r)
      BY <1>0, <1>1, <2>3, <3>2, <3>3
    <3> QED
      BY <2>3, <3>3, <3>4
  <2> QED
    BY <1>6, <2>4, <2>5 DEF Recover
<1>7. ASSUME QueueMark(r), Exists(a)
      PROVE  RowsTyped' /\ RequestsTyped' /\ OnlyRequest(r) /\ HoldsTruth(r) /\ RowsEvolve
  <2>1. /\ request[r] \in Queueing
        /\ request[r].synced = TRUE => account[a].synced = TRUE
    BY <1>0, <1>1, <1>7, RequestKinds DEF QueueMark, SyncedInv, CarriedFlags
  <2>2. Write(a, "QUEUED", request[r].synced) /\ request[r].synced \in BOOLEAN
    BY <1>7, <2>1 DEF QueueMark, Queueing
  <2>3. RowsTyped' /\ RowsEvolve /\ account'[a].synced = account[a].synced
    BY <1>3, <1>7, <2>1, <2>2 DEF Status
  <2> DEFINE record == [request[r] EXCEPT !.pc = "queueAdd"]
  <2>4. Goto(r, record)
    BY <1>7 DEF QueueMark
  <2>5. record \in Queueing /\ record.pc = "queueAdd" /\ record.id = a
        /\ record.synced = request[r].synced
    BY <2>1 DEF Queueing
  <2> HIDE DEF record
  <2>6. RequestsTyped' /\ request'[r] = record /\ OnlyRequest(r)
    BY <1>0, <2>4, <2>5, GotoTyped
  <2>7. HoldsTruth(r)
    BY <1>0, <1>1, <2>1, <2>3, <2>5, <2>6
  <2> QED
    BY <2>3, <2>6, <2>7
<1>8. ASSUME QueueFailed(r), Exists(a)
      PROVE  RowsTyped' /\ RequestsTyped' /\ OnlyRequest(r) /\ HoldsTruth(r) /\ RowsEvolve
  <2>1. Leave(r) /\ Write(a, "FAILED", account[a].hasUsableSnapshot)
    BY <1>8 DEF QueueFailed
  <2>2. account[a].hasUsableSnapshot \in BOOLEAN
    BY <1>0, <1>1, <1>8 DEF RowsTyped, Row
  <2> QED
    BY <1>3, <1>4, <1>8, <2>1, <2>2 DEF Status
<1> QED
  BY <1>0, <1>5, <1>6, <1>7, <1>8

(* The job a request adds is about its own row. *)
LEMMA AddingRequest ==
  ASSUME Typed, SyncedInv, NEW r \in Request, QueueAdd(r)
  PROVE  /\ RequestsTyped' /\ JobsTyped' /\ OnlyRequest(r) /\ HoldsTruth(r)
         /\ request'[r] = IdleRequest
         /\ \E job \in Job : job.id = request[r].id /\ queue' = queue \cup {job}
         /\ request[r].id \in Id /\ request[r].id <= lastId
         /\ lost' = lost \ {request[r].id} /\ UNCHANGED <<account, lastId, worker>>
<1>1. request[r] \in Queueing /\ request[r].id <= lastId
  BY RequestKinds DEF QueueAdd, Typed, SyncedInv, IdsGiven, AboutPc
<1>2. Leave(r) /\ lastJob < MaxJobs /\ lastJob' = lastJob + 1
  BY DEF QueueAdd
<1> DEFINE job == [no |-> lastJob + 1, id |-> request[r].id, type |-> request[r].type,
                   attemptsMade |-> 0, redelivered |-> FALSE]
<1>3. queue' = queue \cup {job} /\ job.id = request[r].id
  BY DEF QueueAdd
<1>4. lastJob \in Nat /\ MaxJobs \in Nat /\ MaxAttempts \in Nat \ {0}
  BY SyncAssumption DEF Typed, JobsTyped
<1>5. job \in Job
  BY <1>1, <1>2, <1>4 DEF Job, Queueing
<1> HIDE DEF job
<1>6. JobsTyped'
  BY <1>2, <1>3, <1>4, <1>5 DEF Typed, JobsTyped
<1> QED
  BY <1>1, <1>2, <1>3, <1>5, <1>6, LeaveTyped
     DEF Typed, QueueAdd, OnlyRequest, HoldsTruth, IdleRequest, AboutPc, FlagPc, Queueing, rows, ghosts

(* A row is created under the next id, without a snapshot. *)
LEMMA CreatingRequest ==
  ASSUME Typed, SyncedInv, NEW r \in Request, CreateCommit(r)
  PROVE  /\ RowsTyped' /\ RequestsTyped' /\ OnlyRequest(r) /\ HoldsTruth(r) /\ RowsEvolve
         /\ UNCHANGED <<lastJob, worker, queue, lost>>
         /\ \A a \in Id :
              Exists(a)' =>
                \/ account'[a].syncStatus = "IDLE"
                \/ Exists(a) /\ account'[a].syncStatus = account[a].syncStatus
<1>0. /\ RowsTyped /\ RequestsTyped /\ UNCHANGED <<lastJob, worker, queue, lost>>
      /\ lastId \in Nat /\ Id \subseteq Nat /\ MaxAccounts \in Nat
      /\ request[r] \in Inserting
  BY RequestKinds, SyncAssumption DEF CreateCommit, Typed, RowsTyped, ghosts, Id
<1>1. CASE Full \/ Duplicates(Owner[r], request[r].puuid) # {}
  <2>1. Leave(r) /\ UNCHANGED <<account, lastId>>
    BY <1>1 DEF CreateCommit
  <2> QED
    BY <1>0, <2>1, LeaveTyped
       DEF RowsTyped, Exists, RowsEvolve, OnlyRequest, HoldsTruth, IdleRequest, AboutPc, FlagPc
<1>2. CASE ~ (Full \/ Duplicates(Owner[r], request[r].puuid) # {})
  <2> DEFINE row == [user |-> Owner[r], puuid |-> request[r].puuid,
                     isPrimary |-> request[r].isPrimary, syncStatus |-> "IDLE", synced |-> FALSE,
                     hasUsableSnapshot |-> FALSE, cursor |-> StartCursor]
             record == [pc |-> "queueRead", id |-> lastId + 1, type |-> "initial"]
  <2>1. /\ lastId' = lastId + 1 /\ Goto(r, record)
        /\ account' = [a \in Id |->
             IF a = lastId + 1 THEN row
             ELSE IF a \in request[r].demoted /\ Exists(a)
             THEN [account[a] EXCEPT !.isPrimary = FALSE]
             ELSE account[a]]
    BY <1>2 DEF CreateCommit
  <2>2. lastId # MaxAccounts /\ lastId + 1 \in Id
    BY <1>0, <1>2 DEF Full, Typed, RowsTyped, Id
  <2>3. row \in Row(row.cursor) /\ row.syncStatus = "IDLE" /\ row.hasUsableSnapshot = FALSE
    BY <1>0, SyncAssumption DEF Row, Inserting, Status
  <2>4. record \in Reading /\ record.pc = "queueRead" /\ record.id = lastId + 1
    BY <2>2 DEF Reading, SyncType
  <2> HIDE DEF row, record
  <2>5. ASSUME NEW a \in Id, a # lastId + 1
        PROVE  /\ Exists(a)' => Exists(a)
               /\ Exists(a) => /\ account'[a] \in Row(account[a].cursor)
                               /\ account'[a].cursor = account[a].cursor
                               /\ account'[a].syncStatus = account[a].syncStatus
                               /\ account'[a].synced = account[a].synced
                               /\ account'[a].hasUsableSnapshot = account[a].hasUsableSnapshot
    <3>1. CASE a \in request[r].demoted /\ Exists(a)
      <4>1. account'[a] = [account[a] EXCEPT !.isPrimary = FALSE]
            /\ account[a] \in Row(account[a].cursor)
        BY <1>0, <2>1, <2>5, <3>1 DEF RowsTyped
      <4> QED
        BY <3>1, <4>1 DEF Row
    <3>2. CASE ~ (a \in request[r].demoted /\ Exists(a))
      <4>1. account'[a] = account[a]
        BY <2>1, <2>5, <3>2
      <4> QED
        BY <1>0, <4>1 DEF RowsTyped, Exists
    <3> QED
      BY <3>1, <3>2
  <2>6. account'[lastId + 1] = row
    BY <2>1, <2>2
  <2>7. RowsTyped'
    <3>1. account' = [a \in Id |-> account'[a]]
      BY <2>1
    <3>2. lastId' \in 0 .. MaxAccounts
      BY <1>0, <2>1, <2>2 DEF Id
    <3>3. ASSUME NEW a \in Id, Exists(a)'
          PROVE  account'[a] \in Row(account'[a].cursor)
      BY <2>3, <2>5, <2>6, <3>3
    <3> QED
      BY <3>1, <3>2, <3>3 DEF RowsTyped
  <2>8. RowsEvolve
    BY <1>0, <2>1, <2>3, <2>5, <2>6 DEF RowsEvolve, Exists
  <2>9. RequestsTyped' /\ OnlyRequest(r) /\ HoldsTruth(r)
    <3>1. RequestsTyped' /\ OnlyRequest(r) /\ request'[r] = record
      BY <1>0, <2>1, <2>4, GotoTyped DEF OnlyRequest
    <3> QED
      BY <1>0, <2>1, <2>4, <3>1 DEF HoldsTruth, FlagPc
  <2>10. \A a \in Id :
           Exists(a)' =>
             \/ account'[a].syncStatus = "IDLE"
             \/ Exists(a) /\ account'[a].syncStatus = account[a].syncStatus
    <3> TAKE a \in Id
    <3>1. CASE a = lastId + 1
      <4>1. account'[a] = row
        BY <2>6, <3>1
      <4> QED
        BY <2>3, <4>1
    <3>2. CASE a # lastId + 1
      BY <2>5, <3>2
    <3> QED
      BY <3>1, <3>2
  <2> QED
    BY <1>0, <2>7, <2>8, <2>9, <2>10
<1> QED
  BY <1>1, <1>2

(* Rows that are deleted, or erased by a withdrawal; a remaining one may become primary. *)
LEMMA ErasingRequest ==
  ASSUME Typed, SyncedInv, NEW r \in Request, DeleteCommit(r) \/ Withdraw(r)
  PROVE  /\ RowsTyped' /\ RequestsTyped' /\ OnlyRequest(r) /\ HoldsTruth(r) /\ RowsEvolve
         /\ UNCHANGED <<lastId, lastJob, worker, queue, lost>>
         /\ \A a \in Id :
              Exists(a)' => /\ Exists(a)
                            /\ account'[a].syncStatus = account[a].syncStatus
                            /\ DeleteCommit(r) => a # request[r].id
<1>0. /\ RowsTyped /\ RequestsTyped /\ UNCHANGED <<lastId, lastJob, worker, queue, lost>>
      /\ lastId \in Nat /\ Id \subseteq Nat
  BY DEF DeleteCommit, Withdraw, Typed, RowsTyped, ghosts, Id
<1>1. RequestsTyped' /\ OnlyRequest(r) /\ HoldsTruth(r)
  <2>1. CASE Withdraw(r)
    BY <1>0, <2>1, LeaveTyped DEF Withdraw, OnlyRequest, HoldsTruth, IdleRequest, AboutPc, FlagPc
  <2>2. CASE DeleteCommit(r)
    <3>1. Goto(r, [pc |-> "deleted"]) /\ [pc |-> "deleted"] \in Leaving
      BY <2>2 DEF DeleteCommit, Leaving
    <3> QED
      BY <1>0, <3>1, GotoTyped DEF OnlyRequest, HoldsTruth, AboutPc, FlagPc
  <2> QED
    BY <2>1, <2>2
<1>2. /\ account' = [a \in Id |-> account'[a]]
      /\ \A a \in Id :
           \/ account'[a] = NoAccount
           \/ account'[a] = account[a] /\ (DeleteCommit(r) => a # request[r].id)
           \/ /\ Exists(a) /\ account'[a] = [account[a] EXCEPT !.isPrimary = TRUE]
              /\ DeleteCommit(r) => a # request[r].id
  <2>1. CASE Withdraw(r)
    <3>1. ~ DeleteCommit(r)
      BY <2>1 DEF Withdraw, DeleteCommit
    <3> QED
      BY <2>1, <3>1 DEF Withdraw
  <2>2. CASE DeleteCommit(r)
    BY <2>2 DEF DeleteCommit, AccountsOf
  <2> QED
    BY <2>1, <2>2
<1>3. ASSUME NEW a \in Id, Exists(a)'
      PROVE  /\ Exists(a)
             /\ account'[a] \in Row(account'[a].cursor)
             /\ account'[a].syncStatus = account[a].syncStatus
             /\ account'[a].synced = account[a].synced
             /\ account'[a].hasUsableSnapshot = account[a].hasUsableSnapshot
             /\ DeleteCommit(r) => a # request[r].id
  <2>1. CASE account'[a] = account[a] /\ (DeleteCommit(r) => a # request[r].id)
    BY <1>0, <1>3, <2>1 DEF RowsTyped, Exists
  <2>2. CASE /\ Exists(a) /\ account'[a] = [account[a] EXCEPT !.isPrimary = TRUE]
             /\ DeleteCommit(r) => a # request[r].id
    <3>1. account[a] \in Row(account[a].cursor)
      BY <1>0, <2>2 DEF RowsTyped
    <3> QED
      BY <2>2, <3>1 DEF Row
  <2> QED
    BY <1>2, <1>3, <2>1, <2>2 DEF Exists
<1>4. RowsTyped' /\ RowsEvolve
  BY <1>0, <1>2, <1>3 DEF RowsTyped, RowsEvolve
<1> QED
  BY <1>0, <1>1, <1>3, <1>4
(* What the worker keeps after its step: its job is about a given row, its flag is true of it. *)
WorkerHoldsTruth ==
  /\ \A job \in queue' : job.id <= lastId
  /\ worker' # IdleWorker =>
       /\ worker'.job.id <= lastId
       /\ worker'.row.synced = TRUE /\ account'[worker'.job.id] # NoAccount
            => account'[worker'.job.id].synced = TRUE

(* A job that goes back to the queue is the one the worker has, once more. *)
LEMMA RethrowTyped ==
  ASSUME JobsTyped, NEW job \in Job, NEW waiting \in SUBSET queue, Rethrow(job, waiting),
         UNCHANGED lastJob
  PROVE  /\ JobsTyped' /\ worker' = IdleWorker /\ waiting \subseteq queue'
         /\ \A other \in queue' : other \in waiting \/ other.id = job.id
         /\ ShouldRetry(job, TRUE) => \E other \in queue' : other.id = job.id
<1>1. worker' = IdleWorker
  BY DEF Rethrow
<1>2. CASE ~ ShouldRetry(job, TRUE)
  BY <1>1, <1>2 DEF Rethrow, JobsTyped
<1>3. CASE ShouldRetry(job, TRUE)
  <2> DEFINE again == [job EXCEPT !.attemptsMade = @ + 1]
  <2>1. queue' = waiting \cup {again}
    BY <1>3 DEF Rethrow
  <2>2. again \in Job /\ again.id = job.id
    BY <1>3, SyncAssumption DEF ShouldRetry, Job
  <2> HIDE DEF again
  <2> QED
    BY <1>1, <2>1, <2>2 DEF JobsTyped
<1> QED
  BY <1>2, <1>3

(* The job in progress, its row, and what is known of them. *)
LEMMA WorkingTyped ==
  ASSUME Typed, SyncedInv, worker # IdleWorker
  PROVE  /\ worker.pc \in WorkerPc /\ worker.job \in Job /\ worker.job.id \in Id
         /\ worker.row.synced \in BOOLEAN /\ worker.job.id <= lastId
         /\ worker.row.synced = TRUE /\ Exists(worker.job.id) =>
              account[worker.job.id].synced = TRUE
BY DEF Typed, WorkerTyped, Job, SyncedInv, IdsGiven, CarriedFlags

(* A worker that goes on with its job and row. *)
LEMMA WorkerGoesOn ==
  ASSUME Typed, SyncedInv, worker # IdleWorker, worker' # IdleWorker,
         worker'.pc \in WorkerPc \ {"start"}, worker'.job = worker.job, worker'.row = worker.row,
         UNCHANGED <<queue, lastId>>,
         account'[worker.job.id] # NoAccount =>
           /\ Exists(worker.job.id)
           /\ account[worker.job.id].synced = TRUE => account'[worker.job.id].synced = TRUE
  PROVE  WorkerTyped' /\ WorkerHoldsTruth
<1>1. WorkerTyped'
  BY WorkingTyped DEF WorkerTyped
<1>2. WorkerHoldsTruth
  BY WorkingTyped DEF WorkerHoldsTruth, SyncedInv, IdsGiven
<1> QED
  BY <1>1, <1>2

(* A worker that has ended its job, giving it back or not. *)
LEMMA WorkerEnds ==
  ASSUME Typed, SyncedInv, worker' = IdleWorker, UNCHANGED lastId,
         \A job \in queue' : job \in queue \/ (worker # IdleWorker /\ job.id = worker.job.id)
  PROVE  WorkerTyped' /\ WorkerHoldsTruth
<1>1. WorkerTyped'
  BY DEF WorkerTyped
<1>2. WorkerHoldsTruth
  BY WorkingTyped DEF WorkerHoldsTruth, SyncedInv, IdsGiven
<1> QED
  BY <1>1, <1>2

(* Steps of the worker. *)
LEMMA WorkerMoves ==
  ASSUME Typed, SyncedInv, WorkerStep
  PROVE  /\ RowsTyped' /\ JobsTyped' /\ WorkerTyped' /\ RowsEvolve /\ WorkerHoldsTruth
         /\ UNCHANGED <<request, lastId>> /\ lost \subseteq lost'
<1> DEFINE a == worker.job.id
           Goal == RowsTyped' /\ JobsTyped' /\ WorkerTyped' /\ RowsEvolve /\ WorkerHoldsTruth
<1>0. /\ RowsTyped /\ JobsTyped /\ UNCHANGED <<request, lastId, lastJob>> /\ lost \subseteq lost'
      /\ lastId \in Nat /\ Id \subseteq Nat
  <2>1. RowsTyped /\ JobsTyped /\ lastId \in Nat /\ Id \subseteq Nat
    BY DEF Typed, RowsTyped, Id
  <2>2. ASSUME Page \/ Announce \/ Stumble
        PROVE  UNCHANGED <<request, lastId, lost, lastJob>>
    BY <2>2 DEF Page, Announce, Stumble, rows, ghosts
  <2>3. ASSUME StoreDetails \/ Commit
        PROVE  UNCHANGED <<request, lastId, lost, lastJob>>
    BY <2>3 DEF StoreDetails, Details, Commit, ghosts
  <2>4. ASSUME (\E job \in queue : Take(job)) \/ Begin \/ Catch
        PROVE  UNCHANGED <<request, lastId, lastJob>> /\ lost \subseteq lost'
    BY <2>4 DEF Take, Begin, Catch, Reject
  <2> QED
    BY <2>1, <2>2, <2>3, <2>4 DEF WorkerStep
<1>1. ASSUME UNCHANGED account
      PROVE  RowsTyped' /\ RowsEvolve
  BY <1>0, <1>1 DEF RowsTyped, Exists, RowsEvolve
<1>2. ASSUME NEW status \in Status, worker # IdleWorker, Exists(a),
             Write(a, status, worker.row.synced)
      PROVE  /\ RowsTyped' /\ RowsEvolve
             /\ account'[a].synced = account[a].synced
  <2>1. a \in Id /\ worker.row.synced \in BOOLEAN
        /\ (worker.row.synced = TRUE => account[a].synced = TRUE)
    BY <1>2, WorkingTyped
  <2> HIDE DEF a
  <2>2. RowsTyped'
    BY <1>0, <1>2, <2>1, WriteTyped
  <2>3. /\ \A b \in Id \ {a} : account'[b] = account[b]
        /\ account'[a].hasUsableSnapshot = worker.row.synced
        /\ account'[a].synced = account[a].synced
    BY <1>0, <1>2, <2>1, WriteRow
  <2>4. UNCHANGED lastId /\ lastId \in Nat
    BY <1>0
  <2>5. RowsEvolve
    BY <1>2, <2>1, <2>3, <2>4 DEF RowsEvolve, Exists
  <2> QED
    BY <2>2, <2>3, <2>5
<1>3. ASSUME UNCHANGED queue
      PROVE  JobsTyped'
  BY <1>0, <1>3 DEF JobsTyped
<1>4. ASSUME worker # IdleWorker, Reject(worker.job, queue)
      PROVE  Goal
  <2>1. Rethrow(worker.job, queue) /\ UNCHANGED account /\ queue \in SUBSET queue
    BY <1>4 DEF Reject
  <2>2. worker.job \in Job
    BY <1>4, WorkingTyped
  <2>3. /\ JobsTyped' /\ worker' = IdleWorker
        /\ \A other \in queue' : other \in queue \/ other.id = worker.job.id
    BY <1>0, <2>1, <2>2, RethrowTyped
  <2>4. WorkerTyped' /\ WorkerHoldsTruth
    BY <1>0, <1>4, <2>3, WorkerEnds
  <2> QED
    BY <1>1, <2>1, <2>3, <2>4
<1>5. ASSUME NEW job \in queue, Take(job)
      PROVE  Goal
  <2>1. job \in Job /\ job.id \in Id /\ job.id <= lastId /\ UNCHANGED account
    BY <1>0, <1>5 DEF JobsTyped, Job, SyncedInv, IdsGiven, Take, Reject
  <2>2. CASE Reject(job, queue \ {job})
    <3>1. /\ JobsTyped' /\ worker' = IdleWorker
          /\ \A other \in queue' : other \in queue \ {job} \/ other.id = job.id
      BY <1>0, <2>1, <2>2, RethrowTyped DEF Reject
    <3>2. WorkerTyped' /\ WorkerHoldsTruth
      BY <2>1, <3>1 DEF WorkerTyped, WorkerHoldsTruth, SyncedInv, IdsGiven
    <3> QED
      BY <1>1, <2>1, <3>1, <3>2
  <2>3. CASE ~ Reject(job, queue \ {job})
    <3>1. JobsTyped' /\ queue' \subseteq queue
      BY <1>0, <1>5, <2>3 DEF Take, JobsTyped
    <3>2. CASE worker' = IdleWorker
      BY <1>0, <1>1, <2>1, <3>1, <3>2, WorkerEnds
    <3>3. CASE worker' # IdleWorker
      <4> DEFINE taken == [pc |-> "start", job |-> job, row |-> Snapshot(account[job.id])]
      <4>1. worker' = taken /\ Exists(job.id)
        BY <1>5, <2>3, <3>3 DEF Take
      <4>2. taken.row.synced = account[job.id].synced /\ account[job.id].synced \in BOOLEAN
        BY <1>0, <2>1, <4>1 DEF Snapshot, RowsTyped, Row
      <4>3. WorkerTyped'
        BY <2>1, <4>1, <4>2 DEF WorkerTyped, WorkerPc
      <4>4. WorkerHoldsTruth
        BY <2>1, <3>1, <4>1, <4>2 DEF WorkerHoldsTruth, SyncedInv, IdsGiven
      <4> QED
        BY <1>1, <2>1, <3>1, <4>3, <4>4
    <3> QED
      BY <3>2, <3>3
  <2> QED
    BY <2>2, <2>3
<1>6. ASSUME Begin
      PROVE  Goal
  <2>0. worker # IdleWorker /\ worker.pc = "start"
    BY <1>6 DEF Begin, IdleWorker
  <2>1. CASE ~ Reject(worker.job, queue)
    <3>1. /\ Write(a, "RUNNING", worker.row.synced) /\ worker' = [worker EXCEPT !.pc = "page"]
          /\ Exists(a) /\ UNCHANGED queue
      BY <1>6, <2>1 DEF Begin
    <3>2. worker = [pc |-> "start", job |-> worker.job, row |-> worker.row]
      BY <2>0 DEF Typed, WorkerTyped
    <3>3. worker'.pc = "page" /\ worker'.job = worker.job /\ worker'.row = worker.row
      BY <3>1, <3>2
    <3>4. RowsTyped' /\ RowsEvolve /\ account'[a].synced = account[a].synced
      BY <1>2, <2>0, <3>1 DEF Status
    <3>5. WorkerTyped' /\ WorkerHoldsTruth
      BY <1>0, <2>0, <3>1, <3>3, <3>4, WorkerGoesOn DEF WorkerPc, IdleWorker
    <3> QED
      BY <1>3, <3>1, <3>4, <3>5
  <2> QED
    BY <1>4, <2>0, <2>1
<1>7. ASSUME Page \/ StoreDetails
      PROVE  Goal
  <2>1. /\ worker # IdleWorker /\ worker'.pc \in {"details", "ranked"}
        /\ worker'.job = worker.job /\ worker'.row = worker.row
        /\ UNCHANGED <<queue, account>>
    <3>1. CASE Page
      BY <3>1 DEF Page, rows, IdleWorker
    <3>2. CASE StoreDetails
      <4>1. worker # IdleWorker
        BY <3>2 DEF StoreDetails, IdleWorker
      <4> QED
        BY <3>2, <4>1 DEF StoreDetails, Details
    <3> QED
      BY <1>7, <3>1, <3>2
  <2>2. worker' # IdleWorker /\ worker'.pc \in WorkerPc \ {"start"}
    BY <2>1 DEF IdleWorker, WorkerPc
  <2>3. WorkerTyped' /\ WorkerHoldsTruth
    BY <1>0, <2>1, <2>2, WorkerGoesOn DEF Exists
  <2> QED
    BY <1>1, <1>3, <2>1, <2>3
<1>8. ASSUME Commit
      PROVE  Goal
  <2>0. worker # IdleWorker /\ Exists(a) /\ UNCHANGED queue
    BY <1>8 DEF Commit, IdleWorker
  <2>1. PICK unranked \in RankedWarnings :
          account' = [account EXCEPT
              ![a].syncStatus = IF worker.warned \/ unranked THEN "PARTIAL" ELSE "SUCCEEDED",
              ![a].synced = TRUE, ![a].hasUsableSnapshot = TRUE, ![a].cursor = worker.cursor]
    BY <1>8 DEF Commit
  <2>2. PICK status \in {"PARTIAL", "SUCCEEDED"} :
          account' = [account EXCEPT ![a].syncStatus = status, ![a].synced = TRUE,
                                     ![a].hasUsableSnapshot = TRUE, ![a].cursor = worker.cursor]
    BY <2>1
  <2>3. a \in Id /\ account[a] \in Row(account[a].cursor) /\ account = [b \in Id |-> account[b]]
    BY <1>0, <2>0, WorkingTyped DEF RowsTyped
  <2> DEFINE new == [account[a] EXCEPT !.syncStatus = status, !.synced = TRUE,
                                       !.hasUsableSnapshot = TRUE, !.cursor = worker.cursor]
  <2>4. account' = [account EXCEPT ![a] = new]
    BY <2>2, <2>3
  <2>5. new \in Row(worker.cursor) /\ new.cursor = worker.cursor /\ new.synced = TRUE
    BY <2>3 DEF Row, Status
  <2> HIDE DEF new
  <2>6. /\ account' = [b \in Id |-> account'[b]] /\ account'[a] = new
        /\ \A b \in Id \ {a} : account'[b] = account[b]
    BY <2>3, <2>4
  <2>7. RowsTyped'
    <3>1. ASSUME NEW b \in Id, Exists(b)'
          PROVE  account'[b] \in Row(account'[b].cursor)
      <4>1. CASE b = a
        BY <2>5, <2>6, <4>1
      <4>2. CASE b # a
        BY <1>0, <2>6, <3>1, <4>2 DEF RowsTyped, Exists
      <4> QED
        BY <4>1, <4>2
    <3> QED
      BY <1>0, <2>6, <3>1 DEF RowsTyped
  <2>8. RowsEvolve
    BY <1>0, <2>0, <2>5, <2>6 DEF RowsEvolve, Exists
  <2>9. worker'.pc = "committed" /\ worker'.job = worker.job /\ worker'.row = worker.row
    BY <1>8 DEF Commit
  <2>10. worker' # IdleWorker /\ worker'.pc \in WorkerPc \ {"start"}
    BY <2>9 DEF IdleWorker, WorkerPc
  <2>11. WorkerTyped' /\ WorkerHoldsTruth
    BY <1>0, <2>0, <2>5, <2>6, <2>9, <2>10, WorkerGoesOn
  <2> QED
    BY <1>3, <2>0, <2>7, <2>8, <2>11
<1>9. ASSUME Announce
      PROVE  Goal
  BY <1>0, <1>1, <1>3, <1>9, WorkerEnds DEF Announce, rows
<1>10. ASSUME Stumble
      PROVE  Goal
  <2>1. /\ worker # IdleWorker /\ worker'.pc = "failing"
        /\ worker'.job = worker.job /\ worker'.row = worker.row
        /\ UNCHANGED <<queue, account>>
    BY <1>10 DEF Stumble, Throw, rows, IdleWorker
  <2>2. worker' # IdleWorker /\ worker'.pc \in WorkerPc \ {"start"}
    BY <2>1 DEF IdleWorker, WorkerPc
  <2>3. WorkerTyped' /\ WorkerHoldsTruth
    BY <1>0, <2>1, <2>2, WorkerGoesOn DEF Exists
  <2> QED
    BY <1>1, <1>3, <2>1, <2>3
<1>11. ASSUME Catch
       PROVE  Goal
  <2>0. worker # IdleWorker
    BY <1>11 DEF Catch, IdleWorker
  <2>1. CASE ~ Reject(worker.job, queue)
    <3>1. JobsTyped' /\ WorkerTyped' /\ WorkerHoldsTruth
      <4>1. CASE Rethrow(worker.job, queue)
        <5>1. worker.job \in Job /\ queue \in SUBSET queue
          BY <2>0, WorkingTyped
        <5>2. /\ JobsTyped' /\ worker' = IdleWorker
              /\ \A other \in queue' : other \in queue \/ other.id = worker.job.id
          BY <1>0, <4>1, <5>1, RethrowTyped
        <5> QED
          BY <1>0, <2>0, <5>2, WorkerEnds
      <4>2. CASE worker' = IdleWorker /\ UNCHANGED queue
        BY <1>0, <1>3, <4>2, WorkerEnds
      <4> QED
        BY <1>11, <2>1, <4>1, <4>2 DEF Catch
    <3>2. PICK status \in {"RETRY_SCHEDULED", "FAILED"} :
            Exists(a) /\ Write(a, status, worker.row.synced)
      BY <1>11, <2>1 DEF Catch
    <3> QED
      BY <1>2, <2>0, <3>1, <3>2 DEF Status
  <2> QED
    BY <1>4, <2>0, <2>1
<1> QED
  BY <1>0, <1>5, <1>6, <1>7, <1>8, <1>9, <1>10, <1>11 DEF WorkerStep

(* Time passes, and the process restarts. *)
LEMMA EnvironmentMoves ==
  ASSUME Typed, SyncedInv, Environment
  PROVE  /\ Typed' /\ RowsEvolve /\ UNCHANGED <<account, lastId>>
         /\ UNCHANGED request \/ \A r \in Request : request'[r] = IdleRequest
         /\ WorkerHoldsTruth
<1>0. /\ RowsTyped /\ JobsTyped /\ WorkerTyped /\ RequestsTyped
      /\ UNCHANGED <<account, lastId, lastJob>> /\ lastId \in Nat
  BY DEF Environment, Play, Stall, Crash, rows, Typed, RowsTyped
<1>1. RowsTyped' /\ RowsEvolve
  BY <1>0 DEF RowsTyped, Exists, RowsEvolve
<1>2. ASSUME UNCHANGED <<queue, worker, request>>
      PROVE  JobsTyped' /\ WorkerTyped' /\ RequestsTyped' /\ WorkerHoldsTruth
  BY <1>0, <1>2 DEF JobsTyped, WorkerTyped, RequestsTyped, WorkerHoldsTruth, SyncedInv, IdsGiven,
     CarriedFlags, Exists
<1>3. ASSUME Crash
      PROVE  /\ JobsTyped' /\ WorkerTyped' /\ RequestsTyped' /\ WorkerHoldsTruth
             /\ \A r \in Request : request'[r] = IdleRequest
  <2>1. worker' = IdleWorker /\ request' = [r \in Request |-> IdleRequest]
    BY <1>3 DEF Crash
  <2>2. RequestsTyped'
    BY <2>1 DEF RequestsTyped
  <2>3. ASSUME worker # IdleWorker,
               queue' = queue \cup {[worker.job EXCEPT !.redelivered = TRUE]}
        PROVE  /\ JobsTyped'
               /\ \A job \in queue' : job \in queue \/ (worker # IdleWorker /\ job.id = worker.job.id)
    <3>1. worker.job \in Job
      BY <2>3, WorkingTyped
    <3>2. /\ [worker.job EXCEPT !.redelivered = TRUE] \in Job
          /\ [worker.job EXCEPT !.redelivered = TRUE].id = worker.job.id
      BY <3>1 DEF Job
    <3> QED
      BY <1>0, <2>3, <3>2 DEF JobsTyped
  <2>4. /\ JobsTyped'
        /\ \A job \in queue' : job \in queue \/ (worker # IdleWorker /\ job.id = worker.job.id)
    BY <1>0, <1>3, <2>3 DEF Crash, JobsTyped
  <2> QED
    BY <1>0, <2>1, <2>2, <2>4, WorkerEnds
<1>4. ASSUME (\E p \in Puuid : Play(p)) \/ \E a \in Id : Stall(a)
      PROVE  UNCHANGED <<queue, worker, request>>
  BY <1>4 DEF Play, Stall
<1> QED
  BY <1>0, <1>1, <1>2, <1>3, <1>4 DEF Environment, Typed

-----------------------------------------------------------------------------
(* Usable means synced. *)

(* An id that was given stays given. *)
LEMMA GivenStaysGiven ==
  ASSUME lastId \in Nat, lastId' \in Nat, lastId <= lastId', NEW a \in Nat, a <= lastId
  PROVE  a <= lastId'
OBVIOUS

(* Rows, requests and worker that have moved as above keep the invariant. *)
LEMMA SyncedKept ==
  ASSUME Typed, SyncedInv, RowsEvolve, RowsTyped', RequestsTyped',
         \A r \in Request : request'[r] = request[r] \/ request'[r] = IdleRequest \/ HoldsTruth(r),
         UNCHANGED worker \/ (WorkerHoldsTruth /\ UNCHANGED lastId),
         \A job \in queue' : job.id <= lastId'
  PROVE  SyncedInv'
<1>0. lastId \in Nat /\ lastId' \in Nat /\ lastId <= lastId' /\ Id \subseteq Nat
  BY SyncAssumption DEF Typed, RowsTyped, RowsEvolve, Id
<1>1. ASSUME NEW a \in Id, Exists(a)'
      PROVE  /\ a <= lastId'
             /\ a <= lastId => Exists(a) /\ (account[a].synced = TRUE => account'[a].synced = TRUE)
             /\ account'[a].hasUsableSnapshot = TRUE => account'[a].synced = TRUE
  BY <1>0, <1>1 DEF RowsEvolve, SyncedInv, IdsGiven, Usable
<1>2. ASSUME NEW r \in Request
      PROVE  /\ request'[r].pc \in AboutPc => request'[r].id <= lastId'
             /\ request'[r].pc \in FlagPc /\ request'[r].synced = TRUE
                  /\ account'[request'[r].id] # NoAccount => account'[request'[r].id].synced = TRUE
  <2>1. CASE HoldsTruth(r)
    BY <2>1 DEF HoldsTruth
  <2>2. CASE request'[r] = IdleRequest
    BY <2>2 DEF IdleRequest, AboutPc, FlagPc
  <2>3. CASE request'[r] = request[r]
    <3>1. request[r].pc \in AboutPc => request[r].id \in Id /\ request[r].id <= lastId
      BY RequestKinds DEF Typed, SyncedInv, IdsGiven
    <3>2. FlagPc \subseteq AboutPc
      BY DEF FlagPc, AboutPc
    <3>3. request[r].pc \in FlagPc /\ request[r].synced = TRUE /\ Exists(request[r].id)
            => account[request[r].id].synced = TRUE
      BY DEF SyncedInv, CarriedFlags, FlagPc
    <3>4. request[r].pc \in AboutPc => request[r].id <= lastId'
      <4> SUFFICES ASSUME request[r].pc \in AboutPc PROVE request[r].id <= lastId'
        OBVIOUS
      <4>1. PICK a \in Nat : a = request[r].id
        BY <1>0, <3>1
      <4>2. a <= lastId
        BY <3>1, <4>1
      <4>3. a <= lastId'
        BY <1>0, <4>2, GivenStaysGiven
      <4> QED
        BY <4>1, <4>3
    <3>5. ASSUME request[r].pc \in FlagPc, request[r].synced = TRUE,
                 account'[request[r].id] # NoAccount
          PROVE  account'[request[r].id].synced = TRUE
      BY <1>1, <3>1, <3>2, <3>3, <3>5 DEF Exists
    <3> QED
      BY <2>3, <3>4, <3>5
  <2> QED
    BY <2>1, <2>2, <2>3
<1>3. worker' # IdleWorker =>
        /\ worker'.job.id <= lastId'
        /\ worker'.row.synced = TRUE /\ account'[worker'.job.id] # NoAccount
             => account'[worker'.job.id].synced = TRUE
  <2>1. CASE UNCHANGED worker
    <3> SUFFICES ASSUME worker # IdleWorker
                 PROVE  /\ worker.job.id <= lastId'
                        /\ worker.row.synced = TRUE /\ account'[worker.job.id] # NoAccount
                             => account'[worker.job.id].synced = TRUE
      BY <2>1 DEF IdleWorker
    <3>1. PICK a \in Id : a = worker.job.id
      BY WorkingTyped
    <3>2. a <= lastId /\ (worker.row.synced = TRUE /\ Exists(a) => account[a].synced = TRUE)
      BY <3>1, WorkingTyped
    <3>3. a <= lastId'
      BY <1>0, <3>2, GivenStaysGiven
    <3>4. ASSUME worker.row.synced = TRUE, account'[a] # NoAccount
          PROVE  account'[a].synced = TRUE
      BY <1>1, <3>2, <3>4 DEF Exists
    <3> QED
      BY <3>1, <3>3, <3>4
  <2>2. CASE WorkerHoldsTruth /\ UNCHANGED lastId
    BY <2>2 DEF WorkerHoldsTruth
  <2> QED
    BY <2>1, <2>2
<1>4. IdsGiven'
  BY <1>1, <1>2, <1>3 DEF IdsGiven
<1>5. CarriedFlags'
  BY <1>2, <1>3 DEF CarriedFlags, Exists, FlagPc
<1>6. Usable'
  BY <1>1 DEF Usable
<1> QED
  BY <1>4, <1>5, <1>6 DEF SyncedInv

(* A new request holds a row of its own user. *)
LEMMA BeginHoldsTruth ==
  ASSUME Typed, SyncedInv, NEW r \in Request, BeginRequest(r)
  PROVE  HoldsTruth(r) /\ OnlyRequest(r) /\ RowsEvolve
<1>1. lastId \in Nat /\ UNCHANGED <<account, lastId>>
  BY BeginTyped DEF Typed, RowsTyped, rows
<1>2. RowsEvolve
  BY <1>1 DEF RowsEvolve, Exists
<1>3. CASE request'[r].pc \in {"create", "withdraw"}
  BY <1>2, <1>3, BeginTyped DEF HoldsTruth, OnlyRequest, AboutPc, FlagPc
<1>4. CASE /\ request'[r].pc \in {"queueRead", "recover", "cancel"}
           /\ request'[r].id \in AccountsOf(Owner[r])
           /\ request'[r].pc = "recover" => request'[r].synced = account[request'[r].id].synced
  <2>1. request'[r].id \in Id /\ Exists(request'[r].id) /\ request'[r].id <= lastId
    BY <1>4 DEF AccountsOf, SyncedInv, IdsGiven
  <2> QED
    BY <1>1, <1>2, <1>4, <2>1, BeginTyped DEF HoldsTruth, OnlyRequest, FlagPc
<1> QED
  BY <1>3, <1>4, BeginTyped

(* The steps of a request keep types and flags. *)
LEMMA RequestKeeps ==
  ASSUME Typed, SyncedInv, NEW r \in Request, BeginRequest(r) \/ ContinueRequest(r)
  PROVE  Typed' /\ SyncedInv'
<1>0. \A job \in queue : job.id \in Id /\ job.id <= lastId
  BY DEF Typed, JobsTyped, Job, SyncedInv, IdsGiven
<1>1. ASSUME RowsEvolve, RowsTyped', RequestsTyped', JobsTyped', OnlyRequest(r), HoldsTruth(r),
             UNCHANGED worker, \A job \in queue' : job.id <= lastId'
      PROVE  Typed' /\ SyncedInv'
  <2>1. SyncedInv'
    BY <1>1, SyncedKept DEF OnlyRequest
  <2> QED
    BY <1>1, <2>1 DEF Typed, WorkerTyped
<1>2. ASSUME UNCHANGED <<account, lastId>>
      PROVE  RowsTyped' /\ RowsEvolve
  BY <1>2 DEF Typed, RowsTyped, Exists, RowsEvolve
<1>3. ASSUME queue' \subseteq queue, UNCHANGED lastJob
      PROVE  JobsTyped'
  BY <1>3 DEF Typed, JobsTyped
<1>4. CASE BeginRequest(r)
  <2>1. UNCHANGED <<account, lastId, queue, lastJob, worker>> /\ RequestsTyped'
    BY <1>4, BeginTyped DEF rows, Typed
  <2> QED
    BY <1>0, <1>1, <1>2, <1>3, <1>4, <2>1, BeginHoldsTruth
<1>5. CASE CreateBegin(r) \/ QueueRead(r) \/ QueueRefused(r) \/ DeleteCancel(r)
           \/ DeleteInterrupted(r) \/ DeleteAnnounce(r) \/ RequestFails(r)
  BY <1>0, <1>1, <1>2, <1>3, <1>5, QuietRequest
<1>6. CASE Recover(r) \/ QueueMark(r) \/ QueueFailed(r)
  BY <1>0, <1>1, <1>3, <1>6, WritingRequest
<1>7. CASE QueueAdd(r)
  BY <1>0, <1>1, <1>2, <1>7, AddingRequest
<1>8. CASE CreateCommit(r)
  <2>1. \A job \in queue' : job.id <= lastId'
    <3>1. /\ queue' = queue /\ lastId <= lastId' /\ lastId \in Nat /\ lastId' \in Nat
          /\ Id \subseteq Nat
      <4>1. queue' = queue /\ RowsTyped' /\ RowsEvolve
        BY <1>8, CreatingRequest
      <4>2. lastId \in Nat /\ lastId' \in Nat /\ Id \subseteq Nat
        BY <4>1, SyncAssumption DEF RowsTyped, Typed, Id
      <4> QED
        BY <4>1, <4>2 DEF RowsEvolve
    <3> QED
      BY <1>0, <3>1, GivenStaysGiven
  <2> QED
    BY <1>1, <1>3, <1>8, <2>1, CreatingRequest
<1>9. CASE DeleteCommit(r) \/ Withdraw(r)
  BY <1>0, <1>1, <1>3, <1>9, ErasingRequest
<1> QED
  BY <1>4, <1>5, <1>6, <1>7, <1>8, <1>9 DEF ContinueRequest

(* Types and flags are inductive. *)
LEMMA SyncedPreserved == Typed /\ SyncedInv /\ [Next]_syncVars => Typed' /\ SyncedInv'
<1> SUFFICES ASSUME Typed, SyncedInv, [Next]_syncVars PROVE Typed' /\ SyncedInv'
  OBVIOUS
<1>1. CASE \E r \in Request : BeginRequest(r) \/ ContinueRequest(r)
  BY <1>1, RequestKeeps
<1>2. CASE WorkerStep
  <2>1. RequestsTyped' /\ \A job \in queue' : job.id <= lastId'
    BY <1>2, WorkerMoves DEF Typed, RequestsTyped, WorkerHoldsTruth
  <2> QED
    BY <1>2, <2>1, WorkerMoves, SyncedKept DEF Typed
<1>3. CASE Environment
  <2>1. \A job \in queue' : job.id <= lastId'
    BY <1>3, EnvironmentMoves DEF WorkerHoldsTruth
  <2> QED
    BY <1>3, <2>1, EnvironmentMoves, SyncedKept DEF Typed
<1>4. CASE UNCHANGED syncVars
  BY <1>4 DEF syncVars, rows, Typed, RowsTyped, Exists, JobsTyped, WorkerTyped, RequestsTyped,
     SyncedInv, IdsGiven, CarriedFlags, Usable
<1> QED
  BY <1>1, <1>2, <1>3, <1>4 DEF Next

(* There are no rows, jobs or requests at first. *)
LEMMA InitSynced == Init => Typed /\ SyncedInv
<1> SUFFICES ASSUME Init PROVE Typed /\ SyncedInv
  OBVIOUS
<1>1. /\ account = [a \in Id |-> NoAccount] /\ lastId = 0 /\ queue = {} /\ lastJob = 0
      /\ worker = IdleWorker /\ request = [r \in Request |-> IdleRequest]
  BY DEF Init
<1>2. Typed
  BY <1>1, SyncAssumption DEF Typed, RowsTyped, Exists, JobsTyped, WorkerTyped, RequestsTyped
<1>3. SyncedInv
  BY <1>1 DEF SyncedInv, IdsGiven, CarriedFlags, Usable, Exists, IdleRequest, AboutPc
<1> QED
  BY <1>2, <1>3

(***************************************************************************)
(* No interleaving of recoveries, requests and the worker, retries and     *)
(* crashes included, promises a snapshot of an account that has none.      *)
(***************************************************************************)
THEOREM SnapshotsAreReal == Spec => []UsableMeansSynced
<1>1. Typed /\ SyncedInv => UsableMeansSynced
  <2> SUFFICES ASSUME Typed, SyncedInv, NEW a \in Id, Exists(a), account[a].hasUsableSnapshot
               PROVE  account[a].synced
    BY DEF UsableMeansSynced
  <2>1. account[a].hasUsableSnapshot = TRUE /\ account[a].synced \in BOOLEAN
    BY DEF Typed, RowsTyped, Row
  <2> QED
    BY <2>1 DEF SyncedInv, Usable
<1> QED
  BY <1>1, InitSynced, SyncedPreserved, PTL DEF Spec
-----------------------------------------------------------------------------
(* Pending rows. *)

(* A pending row that is looked after when it is left is covered: by a job, by the worker, or *)
(* by being given up.                                                                         *)
LEMMA StrandedIsCovered ==
  ASSUME NEW a \in Id, NEW ids, a \in ids, Exists(a), account[a].syncStatus \in Pending,
         Stranded(ids, queue', worker') \subseteq lost'
  PROVE  Covered(a)'
<1>1. CASE a \in Stranded(ids, queue', worker')
  BY <1>1 DEF Covered
<1>2. CASE a \notin Stranded(ids, queue', worker')
  <2>1. (\E j \in queue' : j.id = a) \/ Settling(worker', a)
    BY <1>2 DEF Stranded, Unsettled
  <2> QED
    BY <2>1 DEF Covered, JobsOf, Settling
<1> QED
  BY <1>1, <1>2

(* Steps of a request keep every pending row covered. *)
LEMMA RequestKeepsPending ==
  ASSUME Typed, SyncedInv, PendingInv, NEW r \in Request, BeginRequest(r) \/ ContinueRequest(r)
  PROVE  PendingInv'
<1> SUFFICES ASSUME NEW a \in Id, Exists(a)', account'[a].syncStatus \in Pending
             PROVE  Covered(a)'
  BY DEF PendingInv
<1> DEFINE Held == request[r].pc \in PendingPc /\ request[r].id = a
           Holds == request'[r].pc \in PendingPc /\ request'[r].id = a
<1>0. ASSUME Holds
      PROVE  Covered(a)'
  BY <1>0 DEF Covered, Handling
<1>1. ASSUME a \in lost => a \in lost', UNCHANGED worker, OnlyRequest(r),
             Exists(a), account[a].syncStatus \in Pending, JobsOf(a) \subseteq queue', ~ Held
      PROVE  Covered(a)'
  <2>1. Covered(a)
    BY <1>1 DEF PendingInv
  <2>2. CASE Handling(a, PendingPc)
    <3>1. PICK q \in Request : request[q].pc \in PendingPc /\ request[q].id = a
      BY <2>2 DEF Handling
    <3> QED
      BY <1>1, <3>1 DEF Covered, Handling, OnlyRequest
  <2>3. CASE JobsOf(a) # {}
    BY <1>1, <2>3 DEF Covered, JobsOf
  <2> QED
    BY <1>1, <2>1, <2>2, <2>3 DEF Covered, Settling
<1>2. CASE BeginRequest(r)
  <2>1. /\ UNCHANGED <<account, queue, worker, lost>> /\ OnlyRequest(r) /\ request[r].pc = "idle"
    BY <1>2, BeginTyped DEF rows, OnlyRequest, IdleRequest
  <2> QED
    BY <1>1, <2>1 DEF Exists, JobsOf, PendingPc
<1>3. CASE CreateBegin(r) \/ QueueRead(r) \/ DeleteAnnounce(r)
  <2>1. /\ UNCHANGED <<account, queue, worker, lost>> /\ OnlyRequest(r)
        /\ request[r].pc \in {"create", "queueRead", "deleted"}
    BY <1>3, QuietRequest DEF CreateBegin, QueueRead, DeleteAnnounce, rows, ghosts
  <2> QED
    BY <1>1, <2>1 DEF Exists, JobsOf, PendingPc
<1>4. CASE QueueRefused(r) \/ DeleteCancel(r)
  <2>1. /\ UNCHANGED <<account, worker>> /\ OnlyRequest(r) /\ lost \subseteq lost'
        /\ RequestsTyped
    BY <1>4, QuietRequest DEF QueueRefused, DeleteCancel, ghosts, Typed
  <2>2. CASE QueueRefused(r)
    <3>1. request[r] \in Queueing /\ UNCHANGED queue
      BY <2>1, <2>2, RequestKinds DEF QueueRefused
    <3>2. /\ [request[r] EXCEPT !.pc = "queueFailed"].pc = "queueFailed"
          /\ [request[r] EXCEPT !.pc = "queueFailed"].id = request[r].id
      BY <3>1 DEF Queueing
    <3>3. request'[r] = [request[r] EXCEPT !.pc = "queueFailed"]
      BY <2>1, <2>2 DEF QueueRefused, Goto, RequestsTyped
    <3> QED
      BY <1>0, <1>1, <2>1, <3>1, <3>2, <3>3 DEF Exists, JobsOf, PendingPc
  <2>3. CASE DeleteCancel(r)
    <3>1. request[r] \in Deleting /\ request[r].pc = "cancel" /\ queue' = queue \ JobsOf(request[r].id)
      BY <2>1, <2>3, RequestKinds DEF DeleteCancel
    <3>2. /\ [request[r] EXCEPT !.pc = "delete"].pc = "delete"
          /\ [request[r] EXCEPT !.pc = "delete"].id = request[r].id
      BY <3>1 DEF Deleting
    <3>3. request'[r] = [request[r] EXCEPT !.pc = "delete"]
      BY <2>1, <2>3 DEF DeleteCancel, Goto, RequestsTyped
    <3>4. request[r].id # a => JobsOf(a) \subseteq queue'
      BY <3>1 DEF JobsOf
    <3> QED
      BY <1>0, <1>1, <2>1, <3>1, <3>2, <3>3, <3>4 DEF Exists, PendingPc
  <2> QED
    BY <1>4, <2>2, <2>3
<1>9. CASE DeleteInterrupted(r) \/ RequestFails(r)
  <2>1. /\ UNCHANGED <<account, worker>> /\ OnlyRequest(r) /\ lost \subseteq lost'
        /\ Exists(a) /\ account[a].syncStatus \in Pending
    <3>1. lost \subseteq lost'
      BY <1>9 DEF DeleteInterrupted, RequestFails
    <3> QED
      BY <1>9, <3>1, QuietRequest DEF Exists
  <2>2. CASE DeleteInterrupted(r)
    <3>1. request[r].pc = "cancel" /\ Stranded({request[r].id}, queue', worker') \subseteq lost'
      BY <2>1, <2>2 DEF DeleteInterrupted
    <3>2. CASE request[r].id = a
      BY <2>1, <3>1, <3>2, StrandedIsCovered
    <3>3. CASE request[r].id # a
      <4>1. JobsOf(a) \subseteq queue'
        BY <2>2, <3>3 DEF DeleteInterrupted, JobsOf
      <4> QED
        BY <1>1, <2>1, <3>3, <4>1
    <3> QED
      BY <3>2, <3>3
  <2>3. CASE RequestFails(r)
    <3>1. UNCHANGED queue /\ (request[r].pc \in {"queueFailed", "delete"} =>
            Stranded({request[r].id}, queue', worker') \subseteq lost')
      BY <2>1, <2>3 DEF RequestFails
    <3>2. CASE Held
      <4>1. request[r].pc \in {"queueFailed", "delete"} /\ request[r].id = a
        BY <2>3, <3>2 DEF RequestFails, PendingPc
      <4> QED
        BY <2>1, <3>1, <4>1, StrandedIsCovered
    <3>3. CASE ~ Held
      BY <1>1, <2>1, <3>1, <3>3 DEF JobsOf
    <3> QED
      BY <3>2, <3>3
  <2> QED
    BY <1>9, <2>2, <2>3
<1>5. CASE Recover(r) \/ QueueMark(r) \/ QueueFailed(r)
  <2>1. /\ UNCHANGED <<worker, queue, lost>> /\ OnlyRequest(r) /\ RequestsTyped /\ RowsTyped
        /\ request[r].id \in Id
    BY <1>5, WritingRequest, RequestKinds DEF Typed, Recover, QueueMark, QueueFailed, AboutPc
  <2>2. CASE request[r].id # a \/ ~ Exists(request[r].id)
    <3>1. account'[a] = account[a] /\ request[r].id # a
      <4>1. CASE ~ Exists(request[r].id)
        BY <1>5, <4>1 DEF Recover, QueueMark, QueueFailed, Exists
      <4>2. CASE Exists(request[r].id)
        <5>1. \E status \in Status : \E synced : Write(request[r].id, status, synced)
          BY <1>5, <4>2 DEF Recover, QueueMark, QueueFailed, Status
        <5>2. request[r].id # a
          BY <2>2, <4>2
        <5> QED
          BY <2>1, <5>1, <5>2 DEF Write, RowsTyped
      <4> QED
        BY <4>1, <4>2
    <3> QED
      BY <1>1, <2>1, <3>1 DEF Exists, JobsOf
  <2>3. CASE request[r].id = a /\ Exists(a)
    <3>1. QueueMark(r)
      <4>1. ASSUME NEW synced \in BOOLEAN, Write(a, "FAILED", synced)
            PROVE  FALSE
        BY <2>1, <2>3, <4>1, WriteRow DEF Pending, Status
      <4>2. ASSUME Recover(r)
            PROVE  FALSE
        <5>1. Write(a, "FAILED", request[r].synced)
          BY <2>3, <4>2 DEF Recover
        <5>2. request[r].synced \in BOOLEAN
          BY <2>1, <4>2, RequestKinds DEF Recover, Recovering, Queueing
        <5> QED
          BY <4>1, <5>1, <5>2
      <4>3. ASSUME QueueFailed(r)
            PROVE  FALSE
        <5>1. Write(a, "FAILED", account[a].hasUsableSnapshot)
          BY <2>3, <4>3 DEF QueueFailed
        <5>2. account[a].hasUsableSnapshot \in BOOLEAN
          BY <2>1, <2>3 DEF RowsTyped, Row
        <5> QED
          BY <4>1, <5>1, <5>2
      <4> QED
        BY <1>5, <4>2, <4>3
    <3>2. request[r] \in Queueing
      BY <2>1, <3>1, RequestKinds DEF QueueMark
    <3>3. /\ [request[r] EXCEPT !.pc = "queueAdd"].pc = "queueAdd"
          /\ [request[r] EXCEPT !.pc = "queueAdd"].id = request[r].id
      BY <3>2 DEF Queueing
    <3>4. request'[r] = [request[r] EXCEPT !.pc = "queueAdd"]
      BY <2>1, <2>3, <3>1 DEF QueueMark, Goto, RequestsTyped
    <3> QED
      BY <1>0, <2>3, <3>3, <3>4 DEF PendingPc
  <2> QED
    BY <2>2, <2>3
<1>6. CASE QueueAdd(r)
  <2>1. PICK job \in Job : job.id = request[r].id /\ queue' = queue \cup {job}
    BY <1>6, AddingRequest
  <2>2. /\ UNCHANGED <<account, worker>> /\ lost' = lost \ {request[r].id}
        /\ OnlyRequest(r) /\ JobsOf(a) \subseteq queue'
    BY <1>6, <2>1, AddingRequest DEF JobsOf
  <2>3. CASE request[r].id = a
    BY <2>1, <2>3 DEF Covered, JobsOf
  <2>4. CASE request[r].id # a
    BY <1>1, <2>2, <2>4 DEF Exists
  <2> QED
    BY <2>3, <2>4
<1>7. CASE CreateCommit(r)
  <2>1. /\ UNCHANGED <<worker, queue, lost>> /\ OnlyRequest(r) /\ request[r].pc = "insert"
        /\ Exists(a) /\ account'[a].syncStatus = account[a].syncStatus
    BY <1>7, CreatingRequest DEF CreateCommit, Pending
  <2> QED
    BY <1>1, <2>1 DEF JobsOf, PendingPc
<1>8. CASE DeleteCommit(r) \/ Withdraw(r)
  <2>1. /\ UNCHANGED <<worker, queue, lost>> /\ OnlyRequest(r)
        /\ Exists(a) /\ account'[a].syncStatus = account[a].syncStatus
        /\ DeleteCommit(r) => a # request[r].id
    BY <1>8, ErasingRequest
  <2>2. Withdraw(r) => request[r].pc = "withdraw"
    BY DEF Withdraw
  <2> QED
    BY <1>1, <1>8, <2>1, <2>2 DEF JobsOf, PendingPc
<1> QED
  BY <1>2, <1>3, <1>4, <1>5, <1>6, <1>7, <1>8, <1>9 DEF ContinueRequest

(* Steps of the worker keep every pending row covered. *)
LEMMA WorkerKeepsPending ==
  ASSUME Typed, SyncedInv, PendingInv, WorkerStep
  PROVE  PendingInv'
<1> SUFFICES ASSUME NEW a \in Id, Exists(a)', account'[a].syncStatus \in Pending
             PROVE  Covered(a)'
  BY DEF PendingInv
<1>0. RowsTyped /\ JobsTyped /\ UNCHANGED request /\ lost \subseteq lost'
  BY WorkerMoves DEF Typed
<1>1. ASSUME Exists(a), account[a].syncStatus \in Pending, JobsOf(a) \subseteq queue',
             Settling(worker, a) => Settling(worker', a)
      PROVE  Covered(a)'
  <2>1. Covered(a)
    BY <1>1 DEF PendingInv
  <2> QED
    BY <1>0, <1>1, <2>1 DEF Covered, JobsOf, Handling, Settling
<1>2. ASSUME NEW job \in Job, NEW waiting \in SUBSET queue, Rethrow(job, waiting)
      PROVE  /\ waiting \subseteq queue' /\ worker' = IdleWorker
             /\ ShouldRetry(job, TRUE) /\ job.id = a => Covered(a)'
  <2>1. UNCHANGED lastJob
    BY DEF WorkerStep, Take, Begin, Page, StoreDetails, Details, Commit, Announce, Stumble, Catch
  <2>2. /\ waiting \subseteq queue' /\ worker' = IdleWorker
        /\ ShouldRetry(job, TRUE) => \E other \in queue' : other.id = job.id
    BY <1>0, <1>2, <2>1, RethrowTyped
  <2> QED
    BY <2>2 DEF Covered, JobsOf
<1>3. ASSUME NEW job \in Job, NEW waiting \in SUBSET queue, Reject(job, waiting),
             \A j \in queue \ waiting : j.id = job.id,
             Settling(worker, a) => job.id = a
      PROVE  Covered(a)'
  <2>1. Rethrow(job, waiting) /\ UNCHANGED account /\ Stranded({job.id}, queue', IdleWorker) \subseteq lost'
    BY <1>3 DEF Reject
  <2>2. waiting \subseteq queue' /\ worker' = IdleWorker
    BY <1>2, <2>1
  <2>3. Exists(a) /\ account[a].syncStatus \in Pending
    BY <2>1 DEF Exists
  <2>4. CASE job.id = a
    BY <2>1, <2>2, <2>3, <2>4, StrandedIsCovered
  <2>5. CASE job.id # a
    <3>1. JobsOf(a) \subseteq queue'
      BY <1>3, <2>2, <2>5 DEF JobsOf
    <3> QED
      BY <1>1, <1>3, <2>3, <2>5, <3>1
  <2> QED
    BY <2>4, <2>5
<1>8. ASSUME NEW job \in queue, Take(job)
      PROVE  Covered(a)'
  <2>1. worker = IdleWorker /\ job \in Job /\ ~ Settling(worker, a)
    BY <1>0, <1>8 DEF Take, IdleWorker, JobsTyped, Settling
  <2>2. CASE Reject(job, queue \ {job})
    BY <1>3, <2>1, <2>2
  <2>3. CASE ~ Reject(job, queue \ {job})
    <3>1. UNCHANGED account /\ queue' = queue \ {job}
      BY <1>8, <2>3 DEF Take
    <3>2. CASE job.id = a
      <4>1. worker' = [pc |-> "start", job |-> job, row |-> Snapshot(account[a])]
        BY <1>8, <2>3, <3>1, <3>2 DEF Take, Exists
      <4> QED
        BY <3>2, <4>1 DEF Covered, Settling
    <3>3. CASE job.id # a
      BY <1>1, <2>1, <3>1, <3>3 DEF Exists, JobsOf
    <3> QED
      BY <3>2, <3>3
  <2> QED
    BY <2>2, <2>3
<1>4. ASSUME Begin
      PROVE  Covered(a)'
  <2>0. /\ worker # IdleWorker /\ worker.job \in Job /\ worker.job.id \in Id
        /\ worker.row.synced \in BOOLEAN /\ worker.pc = "start"
    <3>1. worker # IdleWorker /\ worker.pc = "start"
      BY <1>4 DEF Begin, IdleWorker
    <3> QED
      BY <3>1, WorkingTyped
  <2>1. CASE Reject(worker.job, queue)
    BY <1>3, <2>0, <2>1 DEF Settling
  <2>2. CASE ~ Reject(worker.job, queue)
    <3>1. /\ Exists(worker.job.id) /\ Write(worker.job.id, "RUNNING", worker.row.synced)
          /\ UNCHANGED queue
      BY <1>4, <2>2 DEF Begin
    <3>2. worker.job.id # a
      <4>1. PICK b \in Id : b = worker.job.id
        BY <2>0
      <4>2. account'[b].syncStatus = "RUNNING"
        BY <1>0, <2>0, <3>1, <4>1, WriteRow DEF Status
      <4> QED
        BY <4>1, <4>2 DEF Pending
    <3>3. account'[a] = account[a]
      BY <1>0, <3>1, <3>2 DEF Write, RowsTyped
    <3> QED
      BY <1>1, <3>1, <3>2, <3>3 DEF Exists, JobsOf, Settling
  <2> QED
    BY <2>1, <2>2
<1>5. ASSUME Page \/ StoreDetails \/ Announce \/ Stumble
      PROVE  Covered(a)'
  <2>1. UNCHANGED <<account, queue>>
    BY <1>5 DEF Page, StoreDetails, Details, Announce, Stumble, rows
  <2>2. Settling(worker, a) => Settling(worker', a)
    <3>1. CASE Announce
      BY <3>1 DEF Announce, Settling
    <3>2. CASE Page \/ StoreDetails \/ Stumble
      <4>1. CASE Page \/ Stumble
        BY <4>1 DEF Page, Stumble, Throw, Settling
      <4>2. CASE StoreDetails
        <5>1. worker'.job = worker.job /\ worker'.pc = "ranked"
          BY <4>2 DEF StoreDetails, Details
        <5> QED
          BY <5>1 DEF Settling
      <4> QED
        BY <3>2, <4>1, <4>2
    <3> QED
      BY <1>5, <3>1, <3>2
  <2> QED
    BY <1>1, <2>1, <2>2 DEF Exists, JobsOf
<1>6. ASSUME Commit
      PROVE  Covered(a)'
  <2>0. worker # IdleWorker /\ worker.pc = "ranked" /\ UNCHANGED queue
    <3>1. worker.pc = "ranked" /\ UNCHANGED queue
      BY <1>6 DEF Commit
    <3>2. worker # IdleWorker
      BY <3>1 DEF IdleWorker
    <3> QED
      BY <3>1, <3>2
  <2>1. PICK b \in Id : b = worker.job.id
    BY <2>0, WorkingTyped
  <2>2. PICK status \in {"PARTIAL", "SUCCEEDED"} :
          account' = [account EXCEPT ![b].syncStatus = status, ![b].synced = TRUE,
                                     ![b].hasUsableSnapshot = TRUE, ![b].cursor = worker.cursor]
    <3>1. PICK unranked \in RankedWarnings :
            account' = [account EXCEPT
                ![b].syncStatus = IF worker.warned \/ unranked THEN "PARTIAL" ELSE "SUCCEEDED",
                ![b].synced = TRUE, ![b].hasUsableSnapshot = TRUE, ![b].cursor = worker.cursor]
      BY <1>6, <2>1 DEF Commit
    <3> QED
      BY <3>1
  <2>3. account[b] \in Row(account[b].cursor) /\ account = [c \in Id |-> account[c]]
    BY <1>0, <1>6, <2>1 DEF RowsTyped, Commit
  <2>4. b # a
    <3>1. account'[b].syncStatus = status
      BY <2>2, <2>3 DEF Row
    <3> QED
      BY <3>1 DEF Pending
  <2>5. account'[a] = account[a]
    BY <2>2, <2>3, <2>4
  <2> QED
    BY <1>1, <2>0, <2>1, <2>4, <2>5 DEF Exists, JobsOf, Settling
<1>7. ASSUME Catch
      PROVE  Covered(a)'
  <2>0. worker # IdleWorker /\ worker.job \in Job /\ worker.row.synced \in BOOLEAN
    <3>1. worker # IdleWorker
      BY <1>7 DEF Catch, IdleWorker
    <3> QED
      BY <3>1, WorkingTyped
  <2>1. PICK b \in Id : b = worker.job.id
    BY <2>0 DEF Job
  <2>2. CASE Reject(worker.job, queue)
    BY <1>3, <2>0, <2>2 DEF Settling
  <2>3. ASSUME ~ Reject(worker.job, queue)
        PROVE  Covered(a)'
    <3>1. /\ Exists(b)
          /\ Write(b, IF ShouldRetry(worker.job, worker.retryable) THEN "RETRY_SCHEDULED"
                     ELSE "FAILED", worker.row.synced)
          /\ \/ Rethrow(worker.job, queue)
             \/ ~ ShouldRetry(worker.job, worker.retryable) /\ UNCHANGED queue
      BY <1>7, <2>1, <2>3 DEF Catch
    <3>2. queue \subseteq queue'
      BY <1>2, <2>0, <3>1
    <3>3. CASE b # a
      <4>1. account'[a] = account[a]
        BY <1>0, <3>1, <3>3 DEF Write, RowsTyped
      <4> QED
        BY <1>1, <2>1, <3>2, <3>3, <4>1 DEF Exists, JobsOf, Settling
    <3>4. CASE b = a /\ ShouldRetry(worker.job, worker.retryable)
      <4>1. Rethrow(worker.job, queue) /\ ShouldRetry(worker.job, TRUE)
        BY <3>1, <3>4 DEF ShouldRetry
      <4> QED
        BY <1>2, <2>0, <2>1, <3>4, <4>1
    <3>5. CASE b = a /\ ~ ShouldRetry(worker.job, worker.retryable)
      <4>1. Write(b, "FAILED", worker.row.synced)
        BY <3>1, <3>5
      <4>2. account'[b].syncStatus = "FAILED"
        BY <1>0, <2>0, <3>1, <4>1, WriteRow DEF Status
      <4> QED
        BY <3>5, <4>2 DEF Pending
    <3> QED
      BY <3>3, <3>4, <3>5
  <2> QED
    BY <2>2, <2>3
<1> QED
  BY <1>4, <1>5, <1>6, <1>7, <1>8 DEF WorkerStep

(* A crash puts back the job of the worker, or gives its row up with those of the requests. *)
LEMMA EnvironmentKeepsPending ==
  ASSUME Typed, SyncedInv, PendingInv, Environment
  PROVE  PendingInv'
<1> SUFFICES ASSUME NEW a \in Id, Exists(a)', account'[a].syncStatus \in Pending
             PROVE  Covered(a)'
  BY DEF PendingInv
<1>1. Covered(a)
  BY EnvironmentMoves DEF PendingInv, Exists
<1>2. ASSUME (\E p \in Puuid : Play(p)) \/ \E b \in Id : Stall(b)
      PROVE  Covered(a)'
  <2>1. UNCHANGED <<queue, worker, request, lost>>
    BY <1>2 DEF Play, Stall, ghosts
  <2> QED
    BY <1>1, <2>1 DEF Covered, JobsOf, Handling
<1>3. ASSUME Crash
      PROVE  Covered(a)'
  <2> DEFINE open(pcs) == {r \in Request : request[r].pc \in pcs}
             adding    == {request[r].id : r \in open({"queueAdd", "queueFailed"})}
             deleting  == {request[r].id : r \in open({"delete"})}
             dropped   == IF worker # IdleWorker /\ worker.job.redelivered
                          THEN {worker.job.id} ELSE {}
             left      == adding \cup deleting \cup dropped
  <2>1. /\ worker' = IdleWorker /\ lost' = lost \cup Stranded(left, queue', worker')
        /\ queue \subseteq queue'
    BY <1>3 DEF Crash
  <2>2. Exists(a) /\ account[a].syncStatus \in Pending
    BY EnvironmentMoves DEF Exists
  <2>3. CASE a \in left
    <3> HIDE DEF left
    <3> QED
      BY <2>1, <2>2, <2>3, StrandedIsCovered
  <2>4. CASE a \in lost
    BY <2>1, <2>4 DEF Covered
  <2>5. CASE JobsOf(a) # {}
    BY <2>1, <2>5 DEF Covered, JobsOf
  <2>6. CASE Settling(worker, a) /\ a \notin left
    <3>1. worker # IdleWorker /\ worker.job \in Job /\ worker.job.id = a
      <4>1. worker # IdleWorker /\ worker.job.id = a
        BY <2>6 DEF IdleWorker, Settling
      <4> QED
        BY <4>1, WorkingTyped
    <3>2. ~ worker.job.redelivered
      BY <2>6, <3>1
    <3> DEFINE again == [worker.job EXCEPT !.redelivered = TRUE]
    <3>3. again \in queue'
      BY <1>3, <3>1, <3>2 DEF Crash
    <3>4. again.id = a
      BY <3>1 DEF Job
    <3> HIDE DEF again
    <3> QED
      BY <3>3, <3>4 DEF Covered, JobsOf
  <2>7. Handling(a, PendingPc) => a \in left
    BY DEF Handling, PendingPc
  <2> QED
    BY <1>1, <2>3, <2>4, <2>5, <2>6, <2>7 DEF Covered
<1> QED
  BY <1>2, <1>3 DEF Environment

(* Every pending row stays covered. *)
LEMMA PendingPreserved == Typed /\ SyncedInv /\ PendingInv /\ [Next]_syncVars => PendingInv'
<1> SUFFICES ASSUME Typed, SyncedInv, PendingInv, [Next]_syncVars PROVE PendingInv'
  OBVIOUS
<1>1. CASE UNCHANGED syncVars
  BY <1>1 DEF syncVars, rows, ghosts, PendingInv, Covered, Exists, JobsOf, Handling, Settling
<1> QED
  BY <1>1, RequestKeepsPending, WorkerKeepsPending, EnvironmentKeepsPending DEF Next

(***************************************************************************)
(* An account that waits for a synchronisation is never forgotten, however *)
(* requests, deletions, retries, redeliveries and crashes interleave: its  *)
(* row would refuse every further request. The exceptions are the rows in  *)
(* lost.                                                                   *)
(***************************************************************************)
THEOREM PendingIsNeverForgotten == Spec => []PendingHasJob
<1>1. Init => PendingInv
  BY DEF Init, PendingInv, Exists
<1>2. PendingInv => PendingHasJob
  BY DEF PendingInv, Covered, PendingHasJob, PendingPc
<1> QED
  BY <1>1, <1>2, InitSynced, SyncedPreserved, PendingPreserved, PTL DEF Spec
-----------------------------------------------------------------------------
(* The primary account. *)

(* No two accounts of a user are primary; a request that is about to make one *)
(* primary takes care of every other.                                         *)
PrimaryInv ==
  /\ \A u \in User : \A a, b \in PrimariesOf(u) : a = b
  /\ \A r \in Request :
       /\ request[r].pc = "insert" /\ request[r].isPrimary = TRUE =>
            PrimariesOf(Owner[r]) \subseteq request[r].demoted
       /\ request[r].pc \in {"cancel", "delete"} /\ request[r].wasPrimary = TRUE =>
            PrimariesOf(Owner[r]) \subseteq {request[r].id}

(* A user acts through one request slot, one request after the other. *)
OneSessionEach == \A r, q \in Request : Owner[r] = Owner[q] => r = q

NoNewPrimary(u) == PrimariesOf(u)' \subseteq PrimariesOf(u)

(* Rows that keep their user, and become primary no more than they were. *)
LEMMA SameOwners ==
  ASSUME NEW u,
         \A a \in Id : Exists(a)' =>
           \/ account'[a].user # u
           \/ account'[a].isPrimary = FALSE
           \/ /\ Exists(a) /\ account'[a].user = account[a].user
              /\ account'[a].isPrimary = account[a].isPrimary
  PROVE  NoNewPrimary(u)
BY DEF NoNewPrimary, PrimariesOf, AccountsOf

(* An update by id makes nothing primary. *)
LEMMA WriteMakesNoPrimary ==
  ASSUME RowsTyped, NEW a \in Id, Exists(a), NEW status, NEW synced, Write(a, status, synced),
         NEW u
  PROVE  NoNewPrimary(u)
<1>1. account[a] \in Row(account[a].cursor) /\ account = [b \in Id |-> account[b]]
  BY DEF RowsTyped
<1>2. account' = [account EXCEPT ![a] = [account[a] EXCEPT !.syncStatus = status,
                                                           !.hasUsableSnapshot = synced]]
  BY <1>1 DEF Write
<1>3. account'[a].user = account[a].user /\ account'[a].isPrimary = account[a].isPrimary
  BY <1>1, <1>2 DEF Row
<1>4. \A b \in Id \ {a} : account'[b] = account[b]
  BY <1>1, <1>2
<1> QED
  BY <1>3, <1>4, SameOwners DEF Exists

(* Nor does the worker, or the environment. *)
LEMMA WorkerMakesNoPrimary ==
  ASSUME Typed, SyncedInv, WorkerStep \/ Environment, NEW u
  PROVE  NoNewPrimary(u)
<1>0. RowsTyped
  BY DEF Typed
<1>1. ASSUME UNCHANGED account
      PROVE  NoNewPrimary(u)
  BY <1>1 DEF NoNewPrimary, PrimariesOf, AccountsOf, Exists
<1>2. ASSUME (\E job \in queue : Take(job)) \/ Page \/ StoreDetails \/ Announce \/ Stumble
               \/ Environment
      PROVE  UNCHANGED account
  BY <1>2, EnvironmentMoves
     DEF Take, Reject, Page, StoreDetails, Details, Announce, Stumble, rows
<1>3. ASSUME Begin \/ Catch
      PROVE  NoNewPrimary(u)
  <2>1. worker # IdleWorker
    BY <1>3 DEF Begin, Catch, IdleWorker
  <2>2. PICK a \in Id : a = worker.job.id
    BY <2>1, WorkingTyped
  <2>3. UNCHANGED account \/ (Exists(a) /\ \E status, synced : Write(a, status, synced))
    BY <1>3, <2>2 DEF Begin, Catch, Reject
  <2> QED
    BY <1>0, <1>1, <2>3, WriteMakesNoPrimary
<1>4. ASSUME Commit
      PROVE  NoNewPrimary(u)
  <2>1. worker # IdleWorker
    BY <1>4 DEF Commit, IdleWorker
  <2>2. PICK a \in Id : a = worker.job.id
    BY <2>1, WorkingTyped
  <2>3. \E unranked \in RankedWarnings :
          account' = [account EXCEPT
              ![a].syncStatus = IF worker.warned \/ unranked THEN "PARTIAL" ELSE "SUCCEEDED",
              ![a].synced = TRUE, ![a].hasUsableSnapshot = TRUE, ![a].cursor = worker.cursor]
    BY <1>4, <2>2 DEF Commit
  <2>4. PICK status : account' = [account EXCEPT
          ![a].syncStatus = status, ![a].synced = TRUE, ![a].hasUsableSnapshot = TRUE,
          ![a].cursor = worker.cursor]
    BY <2>3
  <2>5. account[a] \in Row(account[a].cursor) /\ account = [b \in Id |-> account[b]] /\ Exists(a)
    BY <1>0, <1>4, <2>2 DEF RowsTyped, Commit
  <2>6. account'[a].user = account[a].user /\ account'[a].isPrimary = account[a].isPrimary
    BY <2>4, <2>5 DEF Row
  <2>7. \A b \in Id \ {a} : account'[b] = account[b]
    BY <2>4, <2>5
  <2> QED
    BY <2>5, <2>6, <2>7, SameOwners DEF Exists
<1> QED
  BY <1>1, <1>2, <1>3, <1>4 DEF WorkerStep

(* The rows behind a creation: the new one, and those of the others it demotes. *)
LEMMA CreatedRows ==
  ASSUME NEW r \in Request, CreateCommit(r), account' # account
  PROVE  \A a \in Id :
           /\ a = lastId + 1 => /\ account'[a].user = Owner[r]
                               /\ account'[a].isPrimary = request[r].isPrimary
           /\ a # lastId + 1 =>
                account'[a] = IF a \in request[r].demoted /\ Exists(a)
                              THEN [account[a] EXCEPT !.isPrimary = FALSE]
                              ELSE account[a]
<1> DEFINE row == [user |-> Owner[r], puuid |-> request[r].puuid,
                   isPrimary |-> request[r].isPrimary, syncStatus |-> "IDLE", synced |-> FALSE,
                   hasUsableSnapshot |-> FALSE, cursor |-> StartCursor]
<1>1. account' = [a \in Id |->
           IF a = lastId + 1 THEN row
           ELSE IF a \in request[r].demoted /\ Exists(a)
           THEN [account[a] EXCEPT !.isPrimary = FALSE]
           ELSE account[a]]
  BY DEF CreateCommit
<1>2. row.user = Owner[r] /\ row.isPrimary = request[r].isPrimary
  OBVIOUS
<1> HIDE DEF row
<1> QED
  BY <1>1, <1>2

(* A request makes no account of another user primary; among its own user's, only a creation *)
(* and a deletion do.                                                                        *)
LEMMA RequestMakesNoPrimary ==
  ASSUME Typed, SyncedInv, NEW r \in Request, BeginRequest(r) \/ ContinueRequest(r), NEW u,
         u # Owner[r] \/ ~ (CreateCommit(r) \/ DeleteCommit(r))
  PROVE  NoNewPrimary(u)
<1>0. RowsTyped /\ RequestsTyped
  BY DEF Typed
<1>1. ASSUME UNCHANGED account
      PROVE  NoNewPrimary(u)
  BY <1>1 DEF NoNewPrimary, PrimariesOf, AccountsOf, Exists
<1>2. ASSUME BeginRequest(r) \/ CreateBegin(r) \/ QueueRead(r) \/ QueueRefused(r)
               \/ DeleteCancel(r) \/ DeleteInterrupted(r) \/ DeleteAnnounce(r) \/ QueueAdd(r)
               \/ RequestFails(r)
      PROVE  UNCHANGED account
  BY <1>2, BeginTyped, QuietRequest, AddingRequest DEF rows
<1>3. ASSUME Recover(r) \/ QueueMark(r) \/ QueueFailed(r)
      PROVE  NoNewPrimary(u)
  <2>1. PICK a \in Id : a = request[r].id
    BY <1>0, <1>3, RequestKinds DEF Recover, QueueMark, QueueFailed, AboutPc
  <2>2. UNCHANGED account \/ (Exists(a) /\ \E status, synced : Write(a, status, synced))
    BY <1>3, <2>1 DEF Recover, QueueMark, QueueFailed
  <2> QED
    BY <1>0, <1>1, <2>2, WriteMakesNoPrimary
<1>4. ASSUME Withdraw(r)
      PROVE  NoNewPrimary(u)
  BY <1>4, SameOwners DEF Withdraw, Exists
<1>5. ASSUME DeleteCommit(r), u # Owner[r]
      PROVE  NoNewPrimary(u)
  <2>1. ASSUME NEW a \in Id, Exists(a)'
        PROVE  \/ account'[a].user # u
               \/ /\ Exists(a) /\ account'[a].user = account[a].user
                  /\ account'[a].isPrimary = account[a].isPrimary
    <3>1. \/ account'[a] = account[a]
          \/ a \in AccountsOf(Owner[r]) /\ account'[a] = [account[a] EXCEPT !.isPrimary = TRUE]
      BY <1>5, <2>1 DEF DeleteCommit, Exists
    <3>2. CASE a \in AccountsOf(Owner[r]) /\ account'[a] = [account[a] EXCEPT !.isPrimary = TRUE]
      <4>1. account[a] \in Row(account[a].cursor) /\ account[a].user = Owner[r]
        BY <1>0, <3>2 DEF RowsTyped, AccountsOf
      <4>2. account'[a].user = Owner[r]
        BY <3>2, <4>1 DEF Row
      <4> QED
        BY <1>5, <4>2
    <3> QED
      BY <2>1, <3>1, <3>2 DEF Exists
  <2> QED
    BY <2>1, SameOwners
<1>6. ASSUME CreateCommit(r), u # Owner[r]
      PROVE  NoNewPrimary(u)
  <2>1. CASE UNCHANGED account
    BY <1>1, <2>1
  <2>2. CASE ~ UNCHANGED account
    <3>1. ASSUME NEW a \in Id, Exists(a)'
          PROVE  \/ account'[a].user # u
                 \/ account'[a].isPrimary = FALSE
                 \/ Exists(a) /\ account'[a] = account[a]
      <4>1. \/ account'[a].user = Owner[r]
            \/ Exists(a) /\ account'[a] = [account[a] EXCEPT !.isPrimary = FALSE]
            \/ account'[a] = account[a]
        BY <1>6, <2>2, <3>1, CreatedRows DEF Exists
      <4>2. Exists(a) => account[a] \in Row(account[a].cursor)
        BY <1>0 DEF RowsTyped
      <4> QED
        BY <1>6, <3>1, <4>1, <4>2 DEF Row, Exists
    <3> QED
      BY <3>1, SameOwners
  <2> QED
    BY <2>1, <2>2
<1> QED
  BY <1>1, <1>2, <1>3, <1>4, <1>5, <1>6 DEF ContinueRequest

(* A creation that sets the flag demotes every other account, and a deletion promotes an heir *)
(* of the account that had it alone.                                                          *)
LEMMA OwnerKeepsOnePrimary ==
  ASSUME Typed, SyncedInv, PrimaryInv, NEW r \in Request, CreateCommit(r) \/ DeleteCommit(r)
  PROVE  \A a, b \in PrimariesOf(Owner[r])' : a = b
<1>0. RowsTyped /\ RequestsTyped /\ Owner[r] \in User /\ lastId \in Nat /\ Id \subseteq Nat
  BY SyncAssumption DEF Typed, RowsTyped, Id
<1> DEFINE u == Owner[r]
<1>1. ASSUME NoNewPrimary(u)
      PROVE  \A a, b \in PrimariesOf(u)' : a = b
  BY <1>0, <1>1 DEF NoNewPrimary, PrimaryInv
<1>2. CASE CreateCommit(r)
  <2>1. CASE UNCHANGED account
    BY <1>1, <2>1 DEF NoNewPrimary, PrimariesOf, AccountsOf, Exists
  <2>2. CASE ~ UNCHANGED account
    <3>1. request[r] \in Inserting /\ request[r].pc = "insert"
      BY <1>0, <1>2, RequestKinds DEF CreateCommit
    <3>2. /\ \A a \in Id : a = lastId + 1 =>
               account'[a].isPrimary = request[r].isPrimary
          /\ \A a \in Id : a # lastId + 1 =>
               account'[a] = IF a \in request[r].demoted /\ Exists(a)
                             THEN [account[a] EXCEPT !.isPrimary = FALSE]
                             ELSE account[a]
      BY <1>2, <2>2, CreatedRows
    <3>3. ASSUME NEW a \in PrimariesOf(u)', a # lastId + 1
          PROVE  a \in PrimariesOf(u) /\ a \notin request[r].demoted
      <4>1. a \in Id /\ Exists(a)' /\ account'[a].user = u /\ account'[a].isPrimary
        BY <3>3 DEF PrimariesOf, AccountsOf
      <4>2. Exists(a) => account[a] \in Row(account[a].cursor)
        BY <1>0, <4>1 DEF RowsTyped
      <4>3. ~ (a \in request[r].demoted /\ Exists(a))
        BY <3>2, <3>3, <4>1, <4>2 DEF Row
      <4>4. account'[a] = account[a] /\ Exists(a)
        BY <3>2, <3>3, <4>1, <4>3 DEF Exists
      <4> QED
        BY <4>1, <4>3, <4>4 DEF PrimariesOf, AccountsOf
    <3>4. CASE request[r].isPrimary = TRUE
      <4>1. PrimariesOf(u) \subseteq request[r].demoted
        BY <3>1, <3>4 DEF PrimaryInv
      <4> QED
        BY <3>3, <4>1
    <3>5. CASE request[r].isPrimary = FALSE
      <4>1. PrimariesOf(u)' \subseteq PrimariesOf(u)
        BY <3>2, <3>3, <3>5 DEF PrimariesOf, AccountsOf
      <4> QED
        BY <1>1, <4>1 DEF NoNewPrimary
    <3> QED
      BY <3>1, <3>4, <3>5 DEF Inserting
  <2> QED
    BY <2>1, <2>2
<1>3. CASE DeleteCommit(r)
  <2> DEFINE gone == request[r].id
             rest == AccountsOf(u) \ {gone}
             heir == {b \in rest : request[r].wasPrimary /\ \A c \in rest : b <= c}
  <2>1. request[r] \in Deleting /\ request[r].pc = "delete"
    BY <1>0, <1>3, RequestKinds DEF DeleteCommit
  <2>2. account' = [b \in Id |-> IF b = gone THEN NoAccount
                                 ELSE IF b \in heir THEN [account[b] EXCEPT !.isPrimary = TRUE]
                                 ELSE account[b]]
    BY <1>3 DEF DeleteCommit
  <2>3. \A b, c \in heir : b = c
    BY <1>0 DEF AccountsOf
  <2> HIDE DEF heir
  <2>4. ASSUME NEW b \in PrimariesOf(u)', b \notin heir
        PROVE  b \in PrimariesOf(u) /\ b # gone
    <3>1. b \in Id /\ Exists(b)' /\ account'[b].user = u /\ account'[b].isPrimary
      BY <2>4 DEF PrimariesOf, AccountsOf
    <3>2. b # gone /\ account'[b] = account[b]
      BY <2>2, <2>4, <3>1 DEF Exists
    <3> QED
      BY <3>1, <3>2 DEF PrimariesOf, AccountsOf, Exists
  <2>5. CASE request[r].wasPrimary = TRUE
    <3>1. PrimariesOf(u) \subseteq {gone}
      BY <2>1, <2>5 DEF PrimaryInv
    <3> QED
      BY <2>3, <2>4, <3>1
  <2>6. CASE request[r].wasPrimary = FALSE
    <3>1. heir = {}
      BY <2>6 DEF heir
    <3> QED
      BY <1>1, <2>4, <3>1 DEF NoNewPrimary
  <2> QED
    BY <2>1, <2>5, <2>6 DEF Deleting
<1> QED
  BY <1>2, <1>3

(* What a request holds of the primary accounts after its own step. *)
HoldsPrimary(r) ==
  /\ request'[r].pc = "insert" /\ request'[r].isPrimary = TRUE =>
       PrimariesOf(Owner[r])' \subseteq request'[r].demoted
  /\ request'[r].pc \in {"cancel", "delete"} /\ request'[r].wasPrimary = TRUE =>
       PrimariesOf(Owner[r])' \subseteq {request'[r].id}

(* A request holds the truth about the primary accounts of its user. *)
LEMMA RequestHoldsPrimary ==
  ASSUME Typed, SyncedInv, PrimaryInv, NEW r \in Request, BeginRequest(r) \/ ContinueRequest(r)
  PROVE  HoldsPrimary(r)
<1>0. RowsTyped /\ RequestsTyped /\ Owner[r] \in User
  BY SyncAssumption DEF Typed
<1>1. ASSUME request'[r].pc \notin {"insert", "cancel", "delete"}
      PROVE  HoldsPrimary(r)
  BY <1>1 DEF HoldsPrimary
<1>2. ASSUME Leave(r)
      PROVE  HoldsPrimary(r)
  BY <1>0, <1>1, <1>2, LeaveTyped DEF IdleRequest
<1>3. ASSUME BeginRequest(r)
      PROVE  HoldsPrimary(r)
  <2>1. CASE request'[r].pc # "cancel"
    BY <1>1, <1>3, <2>1, BeginTyped
  <2>2. CASE request'[r].pc = "cancel"
    <3>1. PICK a \in Id : DeleteRead(r, a)
      <4>1. ASSUME NEW p \in Puuid, NEW wanted, CreateRead(r, p, wanted)
            PROVE  FALSE
        <5>1. PICK primary \in BOOLEAN :
                Goto(r, [pc |-> "create", puuid |-> p, isPrimary |-> primary])
          BY <4>1 DEF CreateRead
        <5> QED
          BY <1>0, <2>2, <5>1 DEF Goto, RequestsTyped
      <4>2. ASSUME NEW a \in Id, SyncRequest(r, a) \/ StatusRead(r, a)
            PROVE  FALSE
        BY <1>0, <2>2, <4>2 DEF SyncRequest, StatusRead, Goto, RequestsTyped
      <4>3. ASSUME WithdrawRead(r)
            PROVE  FALSE
        BY <1>0, <2>2, <4>3 DEF WithdrawRead, Goto, RequestsTyped
      <4> QED
        BY <1>3, <4>1, <4>2, <4>3 DEF BeginRequest
    <3>2. /\ request'[r] = [pc |-> "cancel", id |-> a, wasPrimary |-> account[a].isPrimary]
          /\ a \in AccountsOf(Owner[r]) /\ UNCHANGED account
      BY <1>0, <3>1 DEF DeleteRead, Goto, RequestsTyped, rows
    <3>3. account[a].isPrimary = TRUE => PrimariesOf(Owner[r]) \subseteq {a}
      BY <1>0, <3>2 DEF PrimariesOf, PrimaryInv
    <3>4. PrimariesOf(Owner[r])' = PrimariesOf(Owner[r])
      BY <3>2 DEF PrimariesOf, AccountsOf, Exists
    <3> QED
      BY <3>2, <3>3, <3>4 DEF HoldsPrimary
  <2> QED
    BY <2>1, <2>2
<1>4. ASSUME CreateBegin(r)
      PROVE  HoldsPrimary(r)
  <2>1. /\ UNCHANGED account
        /\ request'[r] = [pc |-> "insert", puuid |-> request[r].puuid,
                          isPrimary |-> request[r].isPrimary,
                          demoted |-> IF request[r].isPrimary THEN PrimariesOf(Owner[r]) ELSE {}]
    BY <1>0, <1>4 DEF CreateBegin, Goto, RequestsTyped, rows
  <2>2. PrimariesOf(Owner[r])' = PrimariesOf(Owner[r])
    BY <2>1 DEF PrimariesOf, AccountsOf, Exists
  <2> QED
    BY <2>1, <2>2 DEF HoldsPrimary
<1>5. ASSUME DeleteCancel(r)
      PROVE  HoldsPrimary(r)
  <2>1. request[r] \in Deleting /\ request[r].pc = "cancel" /\ UNCHANGED account
    BY <1>0, <1>5, RequestKinds DEF DeleteCancel, rows
  <2>2. request'[r] = [request[r] EXCEPT !.pc = "delete"]
    BY <1>0, <1>5 DEF DeleteCancel, Goto, RequestsTyped
  <2>3. /\ request'[r].pc = "delete" /\ request'[r].wasPrimary = request[r].wasPrimary
        /\ request'[r].id = request[r].id
    BY <2>1, <2>2 DEF Deleting
  <2>4. PrimariesOf(Owner[r])' = PrimariesOf(Owner[r])
    BY <2>1 DEF PrimariesOf, AccountsOf, Exists
  <2> QED
    BY <2>1, <2>3, <2>4 DEF HoldsPrimary, PrimaryInv
<1>6. ASSUME CreateCommit(r) \/ QueueRead(r) \/ Recover(r) \/ QueueMark(r) \/ QueueRefused(r)
      PROVE  HoldsPrimary(r)
  <2>1. CASE Leave(r)
    BY <1>2, <2>1
  <2>2. CASE CreateCommit(r) /\ ~ Leave(r)
    <3>1. request'[r] = [pc |-> "queueRead", id |-> lastId + 1, type |-> "initial"]
      BY <1>0, <2>2 DEF CreateCommit, Goto, RequestsTyped
    <3> QED
      BY <1>1, <3>1
  <2>3. CASE QueueRead(r) /\ ~ Leave(r)
    <3>1. request'[r].pc \in {"queueRecover", "queueMark"}
      BY <1>0, <2>3 DEF QueueRead, Goto, RequestsTyped
    <3> QED
      BY <1>1, <3>1
  <2>4. CASE (Recover(r) \/ QueueMark(r) \/ QueueRefused(r)) /\ ~ Leave(r)
    <3>1. request[r].pc \in {"recover", "queueRecover", "queueMark", "queueAdd"}
      BY <2>4 DEF Recover, QueueMark, QueueRefused
    <3>2. request[r].pc = "recover" => ~ Recover(r)
      BY <2>4 DEF Recover
    <3>3. request[r] \in Queueing
      BY <1>0, <2>4, <3>1, <3>2, RequestKinds DEF Recover, QueueMark, QueueRefused
    <3>4. PICK pc \in {"queueMark", "queueAdd", "queueFailed"} :
            \/ request'[r] = [request[r] EXCEPT !.pc = pc]
            \/ \E synced : request'[r] = [request[r] EXCEPT !.pc = pc, !.synced = synced]
      BY <1>0, <2>4, <3>2 DEF Recover, QueueMark, QueueRefused, Goto, RequestsTyped
    <3>5. request'[r].pc = pc
      BY <3>3, <3>4 DEF Queueing
    <3> QED
      BY <1>1, <3>5
  <2> QED
    BY <1>6, <2>1, <2>2, <2>3, <2>4
<1>7. ASSUME DeleteCommit(r)
      PROVE  HoldsPrimary(r)
  <2>1. request'[r] = [pc |-> "deleted"]
    BY <1>0, <1>7 DEF DeleteCommit, Goto, RequestsTyped
  <2> QED
    BY <1>1, <2>1
<1>8. ASSUME QueueAdd(r) \/ QueueFailed(r) \/ DeleteInterrupted(r) \/ DeleteAnnounce(r)
               \/ Withdraw(r) \/ RequestFails(r)
      PROVE  HoldsPrimary(r)
  BY <1>2, <1>8 DEF QueueAdd, QueueFailed, DeleteInterrupted, DeleteAnnounce, Withdraw,
     RequestFails
<1> QED
  BY <1>3, <1>4, <1>5, <1>6, <1>7, <1>8 DEF ContinueRequest

(* One step of one request at a time changes who is primary, and the others hold nothing *)
(* about that user.                                                                      *)
LEMMA PrimaryPreserved ==
  OneSessionEach /\ Typed /\ SyncedInv /\ PrimaryInv /\ [Next]_syncVars => PrimaryInv'
<1> SUFFICES ASSUME OneSessionEach, Typed, SyncedInv, PrimaryInv, [Next]_syncVars PROVE PrimaryInv'
  OBVIOUS
<1>0. \A r \in Request : Owner[r] \in User
  BY SyncAssumption
<1>1. ASSUME NEW u, NoNewPrimary(u), u \in User
      PROVE  \A a, b \in PrimariesOf(u)' : a = b
  BY <1>1 DEF NoNewPrimary, PrimaryInv
<1>2. ASSUME NEW q \in Request, NoNewPrimary(Owner[q]),
             request'[q] = request[q] \/ request'[q] = IdleRequest
      PROVE  HoldsPrimary(q)
  BY <1>2 DEF NoNewPrimary, PrimaryInv, HoldsPrimary, IdleRequest
<1>3. ASSUME \A u \in User : \A a, b \in PrimariesOf(u)' : a = b,
             \A q \in Request : HoldsPrimary(q)
      PROVE  PrimaryInv'
  BY <1>3 DEF PrimaryInv, HoldsPrimary
<1>4. CASE UNCHANGED syncVars \/ WorkerStep \/ Environment
  <2>1. \A u : NoNewPrimary(u)
    <3>1. CASE UNCHANGED syncVars
      BY <3>1 DEF syncVars, rows, NoNewPrimary, PrimariesOf, AccountsOf, Exists
    <3> QED
      BY <1>4, <3>1, WorkerMakesNoPrimary
  <2>2. UNCHANGED request \/ \A r \in Request : request'[r] = IdleRequest
    BY <1>4, WorkerMoves, EnvironmentMoves DEF syncVars
  <2> QED
    BY <1>1, <1>2, <1>3, <2>1, <2>2
<1>5. ASSUME NEW r \in Request, BeginRequest(r) \/ ContinueRequest(r)
      PROVE  PrimaryInv'
  <2>1. \A q \in Request \ {r} : request'[q] = request[q]
    BY <1>5, BeginTyped, QuietRequest, WritingRequest, AddingRequest, CreatingRequest,
       ErasingRequest DEF ContinueRequest, OnlyRequest
  <2>2. \A u : u # Owner[r] => NoNewPrimary(u)
    BY <1>5, RequestMakesNoPrimary
  <2>3. \A a, b \in PrimariesOf(Owner[r])' : a = b
    <3>1. CASE CreateCommit(r) \/ DeleteCommit(r)
      BY <3>1, OwnerKeepsOnePrimary
    <3>2. CASE ~ (CreateCommit(r) \/ DeleteCommit(r))
      BY <1>0, <1>1, <1>5, <3>2, RequestMakesNoPrimary
    <3> QED
      BY <3>1, <3>2
  <2>4. \A q \in Request \ {r} : Owner[q] # Owner[r]
    BY DEF OneSessionEach
  <2>5. \A q \in Request : HoldsPrimary(q)
    BY <1>2, <1>5, <2>1, <2>2, <2>4, RequestHoldsPrimary
  <2> QED
    BY <1>1, <1>3, <2>2, <2>3, <2>5
<1> QED
  BY <1>4, <1>5 DEF Next

(***************************************************************************)
(* While every user sends one request at a time, no interleaving of        *)
(* creations, deletions, withdrawals and synchronisations, of crashes and  *)
(* recoveries, leaves a user with two primary accounts.                    *)
(***************************************************************************)
THEOREM OnePrimaryEach ==
  ASSUME \A r, q \in Request : Owner[r] = Owner[q] => r = q
  PROVE  Spec => []AtMostOnePrimary
<1>1. OneSessionEach
  BY DEF OneSessionEach
<1>2. Init => PrimaryInv
  BY DEF Init, PrimaryInv, PrimariesOf, AccountsOf, Exists, IdleRequest
<1>3. PrimaryInv => AtMostOnePrimary
  <2> SUFFICES ASSUME PrimaryInv, NEW u \in User
               PROVE  Cardinality(PrimariesOf(u)) <= 1
    BY DEF AtMostOnePrimary
  <2>1. \A a, b \in PrimariesOf(u) : a = b
    BY DEF PrimaryInv
  <2>2. CASE PrimariesOf(u) = {}
    BY <2>2, FS_EmptySet
  <2>3. CASE PrimariesOf(u) # {}
    <3>1. PICK a : PrimariesOf(u) = {a}
      BY <2>1, <2>3
    <3>2. Cardinality({a}) = 1
      BY FS_Singleton
    <3> QED
      BY <3>1, <3>2
  <2> QED
    BY <2>2, <2>3
<1> QED
  BY <1>1, <1>2, <1>3, InitSynced, SyncedPreserved, PrimaryPreserved, PTL DEF Spec
=============================================================================
