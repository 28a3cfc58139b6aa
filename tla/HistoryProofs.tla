---------------------------- MODULE HistoryProofs ----------------------------
(***************************************************************************)
(* Proofs about the match history of RiotSync: the cursor of an account    *)
(* moves forward alone, and every match above it is stored.                *)
(***************************************************************************)
EXTENDS RiotSyncProofs, WellFoundedInduction

(* The least number of a set. *)
LEMMA LeastNumber ==
  ASSUME NEW S, S \subseteq Nat, S # {}
  PROVE  \E k \in S : \A j \in S : k <= j
<1>1. PICK k \in S : \A j \in S : ~ (<<j, k>> \in OpToRel(<, Nat))
  BY NatLessThanWellFounded, WFMin
<1>2. ASSUME NEW j \in S
      PROVE  k <= j
  <2>1. ~ (j < k)
    BY <1>1 DEF OpToRel
  <2> QED
    BY <2>1
<1> QED
  BY <1>2

(***************************************************************************)
(* Pages.                                                                  *)
(***************************************************************************)
LEMMA PageSizes ==
  ASSUME NEW type \in SyncType
  PROVE  /\ LatestPageSize(type) \in Nat \ {0} /\ PageSize \in Nat \ {0}
         /\ ExtraPagesOf(type) \in Nat
BY PageAssumption DEF LatestPageSize, ExtraPagesOf

(* A page that is shorter than requested ends at the first match. *)
LEMMA ShortPage ==
  ASSUME NEW n \in Nat, NEW start \in Nat, NEW count \in Nat
  PROVE  LET page == MatchIds(n, start, count)
         IN  /\ page \subseteq 1..n /\ IsFiniteSet(page) /\ Cardinality(page) \in Nat
             /\ Cardinality(page) <= count
             /\ Cardinality(page) < count => n < start + count
<1> DEFINE page == MatchIds(n, start, count)
<1>1. page \subseteq 1..n
  BY DEF MatchIds
<1>2. IsFiniteSet(1..n)
  BY FS_Interval
<1>3. IsFiniteSet(page) /\ Cardinality(page) \in Nat
  BY <1>1, <1>2, FS_Subset, FS_CardinalityType
<1>4. ASSUME start + count <= n
      PROVE  Cardinality(page) = count
  <2> DEFINE low == n - start - count + 1
             high == n - start
  <2>1. page = low..high
    BY <1>4 DEF MatchIds
  <2>2. low \in Int /\ high \in Int /\ high - low + 1 = count
    OBVIOUS
  <2> HIDE DEF low, high
  <2>3. Cardinality(low..high) = IF low > high THEN 0 ELSE high - low + 1
    BY <2>2, FS_Interval
  <2> QED
    BY <2>1, <2>2, <2>3
<1>5. Cardinality(page) < count => n < start + count
  BY <1>4
<1>6. ASSUME n < start + count
      PROVE  Cardinality(page) <= count
  <2> DEFINE width == IF start <= n THEN n - start ELSE 0
  <2>1. page = 1..width
    BY <1>6 DEF MatchIds
  <2>2. width \in Nat /\ width <= count
    BY <1>6
  <2> HIDE DEF width, page
  <2>3. Cardinality(1..width) = IF 1 > width THEN 0 ELSE width - 1 + 1
    BY <2>2, FS_Interval
  <2> QED
    BY <2>1, <2>2, <2>3
<1>7. Cardinality(page) <= count
  BY <1>4, <1>6
<1> QED
  BY <1>1, <1>3, <1>5, <1>7

(* A position behind the start of the backfill lies on one of its pages. *)
LEMMA PageOfPosition ==
  ASSUME NEW start \in Nat, NEW k \in Nat, NEW x \in Nat, start <= x, x < start + k * PageSize
  PROVE  \E i \in 1..k : x \in (start + (i - 1) * PageSize)..(start + (i - 1) * PageSize + PageSize - 1)
<1> DEFINE S == {i \in Nat : x < start + i * PageSize}
<1>0. PageSize \in Nat \ {0}
  BY PageAssumption
<1>1. S \subseteq Nat /\ k \in S
  OBVIOUS
<1>2. PICK i \in S : \A j \in S : i <= j
  <2> HIDE DEF S
  <2> QED
    BY <1>1, LeastNumber
<1>3. i \in Nat /\ i <= k /\ x < start + i * PageSize
  BY <1>1, <1>2
<1>4. i # 0
  BY <1>0, <1>3
<1>5. i - 1 \in Nat /\ i - 1 \notin S
  BY <1>1, <1>2, <1>4
<1>6. start + (i - 1) * PageSize <= x
  BY <1>0, <1>5
<1>7. i * PageSize = (i - 1) * PageSize + PageSize
  BY <1>0, <1>3
<1> HIDE DEF S
<1> QED
  BY <1>0, <1>3, <1>4, <1>5, <1>6, <1>7

(* A set that goes on no further than some element has a last one to choose. *)
LEMMA ChosenEdge ==
  ASSUME NEW S, \E k \in S : k + 1 \notin S
  PROVE  LET k == CHOOSE j \in S : j + 1 \notin S
         IN  k \in S /\ k + 1 \notin S
OBVIOUS

(* There is a last page up to which the cursor passes. *)
LEMMA LastPagePassed ==
  ASSUME NEW n \in Nat, NEW cursor \in Cursor, NEW type \in SyncType, NEW resolved
  PROVE  LET passed == PagesPassed(n, cursor, type, resolved)
             pages  == CHOOSE k \in passed : k + 1 \notin passed
         IN  pages \in passed /\ pages + 1 \notin passed
<1> DEFINE passed == PagesPassed(n, cursor, type, resolved)
           beyond == Nat \ passed
<1>1. passed \subseteq 0..ExtraPagesOf(type) /\ 0 \in passed
  BY PageSizes DEF PagesPassed
<1>2. ExtraPagesOf(type) + 1 \in beyond /\ beyond \subseteq Nat
  BY <1>1, PageSizes
<1>3. PICK j \in beyond : \A i \in beyond : j <= i
  <2> HIDE DEF beyond
  <2> QED
    BY <1>2, LeastNumber
<1>4. j \in Nat /\ j # 0 /\ j \notin passed
  BY <1>1, <1>3
<1>5. j - 1 \in Nat /\ j - 1 \in passed /\ (j - 1) + 1 \notin passed
  BY <1>3, <1>4
<1> HIDE DEF passed
<1>6. \E k \in passed : k + 1 \notin passed
  BY <1>5
<1> QED
  BY <1>6, ChosenEdge DEF passed

(* The start of the backfill lies behind what the cursor or the latest page covers. *)
LEMMA StartOfBackfill ==
  ASSUME NEW cursor \in Cursor, NEW type \in SyncType
  PROVE  /\ BackfillStart(cursor, type) \in Nat
         /\ cursor.next <= BackfillStart(cursor, type)
         /\ cursor.next = 0 => BackfillStart(cursor, type) = LatestPageSize(type)
         /\ cursor.next # 0 => BackfillStart(cursor, type) = cursor.next
BY PageSizes DEF BackfillStart, Cursor

(* What the pages of the backfill vouch for. *)
LEMMA BackfillVouches ==
  ASSUME NEW n \in Nat, NEW cursor \in Cursor, NEW type \in SyncType, NEW resolved
  PROVE  LET start == BackfillStart(cursor, type)
             new   == AdvanceThroughBackfill(n, cursor, type, resolved)
         IN  /\ new \in Cursor /\ new.next >= start
             /\ \A m \in 1..n : new.complete \/ n - m < new.next =>
                  m \in resolved \/ n - m < start
<1> DEFINE start  == BackfillStart(cursor, type)
           passed == PagesPassed(n, cursor, type, resolved)
           pages  == CHOOSE k \in passed : k + 1 \notin passed
           last   == BackfillPage(n, cursor, type, pages + 1)
           next   == start + pages * PageSize
           new    == AdvanceThroughBackfill(n, cursor, type, resolved)
<1>1. start \in Nat /\ PageSize \in Nat \ {0} /\ ExtraPagesOf(type) \in Nat
  BY StartOfBackfill, PageSizes
<1>2. pages \in passed /\ pages + 1 \notin passed
  BY LastPagePassed
<1>3. /\ pages \in Nat /\ pages <= ExtraPagesOf(type)
      /\ \A i \in 1..pages : /\ AllResolved(BackfillPage(n, cursor, type, i), resolved)
                             /\ Cardinality(BackfillPage(n, cursor, type, i)) = PageSize
  BY <1>1, <1>2 DEF PagesPassed
<1>4. pages * PageSize \in Nat
  BY <1>1, <1>3
<1>5. new = IF pages < ExtraPagesOf(type) /\ AllResolved(last, resolved)
            THEN [next |-> next + Cardinality(last), complete |-> TRUE]
            ELSE [next |-> next, complete |-> FALSE]
  BY DEF AdvanceThroughBackfill
<1>6. last = MatchIds(n, next, PageSize)
  BY <1>3 DEF BackfillPage
<1>7. ASSUME NEW m \in 1..n, n - m < next
      PROVE  m \in resolved \/ n - m < start
  <2> SUFFICES ASSUME start <= n - m PROVE m \in resolved
    BY <1>1
  <2>1. PICK i \in 1..pages :
          n - m \in (start + (i - 1) * PageSize)..(start + (i - 1) * PageSize + PageSize - 1)
    <3>1. n - m \in Nat
      OBVIOUS
    <3> HIDE DEF pages, start
    <3> QED
      BY <1>1, <1>3, <1>7, <3>1, PageOfPosition
  <2>2. m \in BackfillPage(n, cursor, type, i)
    BY <2>1 DEF BackfillPage, MatchIds
  <2> HIDE DEF pages
  <2> QED
    BY <1>3, <2>2 DEF AllResolved
<1>8. CASE pages < ExtraPagesOf(type) /\ AllResolved(last, resolved)
  <2>1. last \subseteq 1..n /\ Cardinality(last) \in Nat
        /\ (Cardinality(last) < PageSize => n < next + PageSize)
    <3> HIDE DEF pages, start
    <3>1. next \in Nat
      BY <1>1, <1>4
    <3> HIDE DEF next, last
    <3> QED
      BY <1>1, <1>6, <3>1, ShortPage
  <2>2. Cardinality(last) # PageSize
    <3> SUFFICES ASSUME Cardinality(last) = PageSize PROVE FALSE
      OBVIOUS
    <3>1. \A i \in 1..(pages + 1) : /\ AllResolved(BackfillPage(n, cursor, type, i), resolved)
                                    /\ Cardinality(BackfillPage(n, cursor, type, i)) = PageSize
      <4> HIDE DEF pages
      <4> QED
        BY <1>3, <1>8
    <3>2. pages + 1 \in 0..ExtraPagesOf(type)
      <4> HIDE DEF pages
      <4> QED
        BY <1>1, <1>3, <1>8
    <3>3. pages + 1 \in passed
      BY <3>1, <3>2 DEF PagesPassed
    <3> QED
      BY <1>2, <3>3
  <2>3. Cardinality(last) <= PageSize
    <3> HIDE DEF pages, start
    <3>1. next \in Nat
      BY <1>1, <1>4
    <3> QED
      BY <1>1, <1>6, <3>1, ShortPage
  <2>4. n < next + PageSize
    BY <1>1, <2>1, <2>2, <2>3
  <2>5. ASSUME NEW m \in 1..n, ~ (n - m < next)
        PROVE  m \in resolved
    <3> HIDE DEF pages, start
    <3>1. m \in last
      BY <1>1, <1>4, <1>6, <2>4, <2>5 DEF MatchIds
    <3> QED
      BY <1>8, <3>1 DEF AllResolved
  <2>6. new = [next |-> next + Cardinality(last), complete |-> TRUE]
    BY <1>5, <1>8
  <2> HIDE DEF pages, start, last, new
  <2> QED
    BY <1>1, <1>4, <1>7, <2>1, <2>5, <2>6 DEF Cursor, start, new
<1>9. CASE ~ (pages < ExtraPagesOf(type) /\ AllResolved(last, resolved))
  <2>1. new = [next |-> next, complete |-> FALSE]
    BY <1>5, <1>9
  <2> HIDE DEF pages, start, last, new
  <2> QED
    BY <1>1, <1>4, <1>7, <2>1 DEF Cursor, start, new
<1> QED
  BY <1>8, <1>9

(* The cursor moves forward, and vouches for what was resolved or what it covered already. *)
LEMMA CursorVouches ==
  ASSUME NEW n \in Nat, NEW cursor \in Cursor, NEW type \in SyncType, NEW resolved
  PROVE  LET new == AdvanceCursor(n, cursor, type, resolved)
         IN  /\ new \in Cursor /\ new.next >= cursor.next
             /\ cursor.complete => new = cursor
             /\ ~ cursor.complete =>
                  \A m \in 1..n : new.complete \/ n - m < new.next =>
                    m \in resolved \/ (cursor.next # 0 /\ n - m < cursor.next)
<1> DEFINE new    == AdvanceCursor(n, cursor, type, resolved)
           latest == LatestPage(n, type)
<1>0. cursor.next \in Nat /\ cursor.complete \in BOOLEAN /\ LatestPageSize(type) \in Nat
  BY PageSizes DEF Cursor
<1>1. CASE cursor.complete
  BY <1>0, <1>1 DEF AdvanceCursor
<1>2. CASE ~ cursor.complete /\ cursor.next = 0 /\ ~ AllResolved(latest, resolved)
  BY <1>0, <1>2 DEF AdvanceCursor, StartCursor, Cursor
<1>3. ASSUME cursor.next = 0, AllResolved(latest, resolved),
             NEW m \in 1..n, n - m < LatestPageSize(type)
      PROVE  m \in resolved
  BY <1>0, <1>3 DEF AllResolved, LatestPage, MatchIds
<1>4. CASE /\ ~ cursor.complete /\ cursor.next = 0 /\ AllResolved(latest, resolved)
           /\ Cardinality(latest) < LatestPageSize(type)
  <2>1. n < LatestPageSize(type)
    BY <1>0, <1>4, ShortPage DEF LatestPage
  <2>2. new = [next |-> 0, complete |-> TRUE]
    BY <1>4 DEF AdvanceCursor
  <2>3. \A m \in 1..n : m \in resolved
    BY <1>0, <1>3, <1>4, <2>1
  <2> QED
    BY <1>0, <1>4, <2>2, <2>3 DEF Cursor
<1>5. CASE /\ ~ cursor.complete
           /\ cursor.next = 0 => /\ AllResolved(latest, resolved)
                                 /\ ~ (Cardinality(latest) < LatestPageSize(type))
  <2> DEFINE start == BackfillStart(cursor, type)
  <2>1. new = AdvanceThroughBackfill(n, cursor, type, resolved)
    BY <1>5 DEF AdvanceCursor
  <2>2. /\ new \in Cursor /\ new.next >= start
        /\ \A m \in 1..n : new.complete \/ n - m < new.next => m \in resolved \/ n - m < start
    BY <2>1, BackfillVouches
  <2>3. /\ start \in Nat /\ cursor.next <= start
        /\ cursor.next = 0 => start = LatestPageSize(type)
        /\ cursor.next # 0 => start = cursor.next
    BY StartOfBackfill
  <2> HIDE DEF start, new
  <2>4. new.next \in Nat
    BY <2>2 DEF Cursor
  <2>5. new \in Cursor /\ new.next >= cursor.next
    BY <1>0, <2>2, <2>3, <2>4
  <2>6. \A m \in 1..n : new.complete \/ n - m < new.next =>
          m \in resolved \/ (cursor.next # 0 /\ n - m < cursor.next)
    BY <1>3, <1>5, <2>2, <2>3
  <2> QED
    BY <1>5, <2>5, <2>6 DEF new
<1> QED
  BY <1>1, <1>2, <1>4, <1>5

-----------------------------------------------------------------------------
(* The inductive invariant. *)

(* Every match that a cursor passes is among the given ones. *)
Vouches(cursor, n, kept) == \A m \in 1..n : cursor.complete \/ n - m < cursor.next => m \in kept

(* Matches are stored, excused and seen after they were played. *)
PlayedTyped ==
  /\ played \in [Puuid -> 0..MaxPlayed]
  /\ stored \in [Puuid -> SUBSET Match] /\ excused \in [Puuid -> SUBSET Match]
  /\ \A p \in Puuid : stored[p] \cup excused[p] \subseteq 1..played[p]
  /\ seen \in [Id -> 0..MaxPlayed]

(* Rows whose cursors keep their promise; an id still to be given has seen nothing. *)
RowsCovered ==
  \A a \in Id :
    /\ a > lastId => seen[a] = 0
    /\ Exists(a) =>
         LET p == account[a].puuid
         IN  /\ account[a].cursor \in Cursor /\ seen[a] <= played[p]
             /\ Vouches(account[a].cursor, seen[a], stored[p] \cup excused[p])

(* What the worker knows of its row: no one else moves the cursor. *)
RowKnown ==
  worker # IdleWorker =>
    /\ worker.row.puuid \in Puuid /\ worker.row.cursor \in Cursor
    /\ Exists(worker.job.id) => account[worker.job.id].puuid = worker.row.puuid

CursorKnown ==
  worker.pc \in {"start", "page", "details", "ranked"} /\ Exists(worker.job.id) =>
    account[worker.job.id].cursor = worker.row.cursor

(* What the worker has paged, and what will be stored or excused when it commits. *)
PagedKnown ==
  worker.pc \in {"details", "ranked"} =>
    /\ worker.n \in Nat /\ worker.n <= played[worker.row.puuid]
    /\ Exists(worker.job.id) => seen[worker.job.id] <= worker.n

DetailsKnown ==
  worker.pc = "details" =>
    worker.known \subseteq stored[worker.row.puuid] \cup excused[worker.row.puuid]

CursorReady ==
  worker.pc = "ranked" =>
    /\ worker.cursor \in Cursor /\ worker.cursor.next >= worker.row.cursor.next
    /\ worker.row.cursor.complete => worker.cursor.complete
    /\ worker.missed \subseteq 1..worker.n
    /\ Vouches(worker.cursor, worker.n,
               stored[worker.row.puuid] \cup excused[worker.row.puuid] \cup worker.missed)

HistInv ==
  PlayedTyped /\ RowsCovered /\ RowKnown /\ CursorKnown /\ PagedKnown /\ DetailsKnown /\ CursorReady

-----------------------------------------------------------------------------
(* What steps do to rows and matches. *)

(* Rows keep player and cursor, and a new row has seen nothing. *)
RowsKept ==
  /\ lastId <= lastId'
  /\ \A a \in Id : Exists(a)' =>
       \/ /\ Exists(a) /\ account'[a].puuid = account[a].puuid
          /\ account'[a].cursor = account[a].cursor
       \/ /\ a > lastId
          /\ account'[a].puuid \in Puuid /\ account'[a].cursor = StartCursor

(* What is stored or excused remains so. *)
MatchesKept ==
  \A p \in Puuid : /\ played[p] <= played'[p]
                   /\ stored[p] \cup excused[p] \subseteq stored'[p] \cup excused'[p]

(* An update by id keeps player and cursor. *)
LEMMA WriteKeepsRows ==
  ASSUME RowsTyped, NEW a \in Id, Exists(a), NEW status, NEW synced,
         Write(a, status, synced), UNCHANGED lastId
  PROVE  RowsKept
<1>1. account[a] \in Row(account[a].cursor) /\ account = [b \in Id |-> account[b]]
      /\ lastId \in Nat
  BY DEF RowsTyped
<1>2. account' = [account EXCEPT ![a] = [account[a] EXCEPT !.syncStatus = status,
                                                           !.hasUsableSnapshot = synced]]
  BY <1>1 DEF Write
<1>3. account'[a].puuid = account[a].puuid /\ account'[a].cursor = account[a].cursor
  BY <1>1, <1>2 DEF Row
<1>4. \A b \in Id \ {a} : account'[b] = account[b]
  BY <1>1, <1>2
<1> QED
  BY <1>1, <1>3, <1>4 DEF RowsKept, Exists

(* Unchanged rows are kept. *)
LEMMA SameRowsKept ==
  ASSUME RowsTyped, UNCHANGED <<account, lastId>>
  PROVE  RowsKept
BY DEF RowsTyped, RowsKept, Exists

(* Requests keep the rows they do not erase. *)
LEMMA RequestKeepsRows ==
  ASSUME Typed, SyncedInv, NEW r \in Request, BeginRequest(r) \/ ContinueRequest(r)
  PROVE  RowsKept
<1>0. RowsTyped /\ lastId \in Nat /\ Id \subseteq Nat /\ RequestsTyped
  BY DEF Typed, RowsTyped, Id
<1>1. ASSUME BeginRequest(r)
      PROVE  RowsKept
  <2>1. UNCHANGED <<account, lastId>>
    BY <1>1, BeginTyped DEF rows
  <2> QED
    BY <1>0, <2>1, SameRowsKept
<1>2. ASSUME CreateBegin(r) \/ QueueRead(r) \/ QueueRefused(r) \/ DeleteCancel(r)
               \/ DeleteInterrupted(r) \/ DeleteAnnounce(r) \/ QueueAdd(r) \/ RequestFails(r)
      PROVE  RowsKept
  <2>1. UNCHANGED <<account, lastId>>
    BY <1>2, QuietRequest, AddingRequest
  <2> QED
    BY <1>0, <2>1, SameRowsKept
<1>3. ASSUME Recover(r) \/ QueueMark(r) \/ QueueFailed(r)
      PROVE  RowsKept
  <2>1. request[r].id \in Id /\ UNCHANGED lastId
    BY <1>0, <1>3, RequestKinds DEF Recover, QueueMark, QueueFailed, AboutPc
  <2>2. UNCHANGED account
        \/ (Exists(request[r].id) /\ \E status, synced : Write(request[r].id, status, synced))
    BY <1>3 DEF Recover, QueueMark, QueueFailed
  <2> QED
    BY <1>0, <2>1, <2>2, SameRowsKept, WriteKeepsRows
<1>4. ASSUME CreateCommit(r)
      PROVE  RowsKept
  <2>1. request[r] \in Inserting
    BY <1>0, <1>4, RequestKinds DEF CreateCommit
  <2>2. CASE UNCHANGED <<account, lastId>>
    BY <1>0, <2>2, SameRowsKept
  <2> DEFINE row == [user |-> Owner[r], puuid |-> request[r].puuid,
                     isPrimary |-> request[r].isPrimary, syncStatus |-> "IDLE", synced |-> FALSE,
                     hasUsableSnapshot |-> FALSE, cursor |-> StartCursor]
  <2>3. CASE /\ lastId' = lastId + 1
             /\ account' = [a \in Id |->
                  IF a = lastId + 1 THEN row
                  ELSE IF a \in request[r].demoted /\ Exists(a)
                  THEN [account[a] EXCEPT !.isPrimary = FALSE]
                  ELSE account[a]]
    <3>1. row.puuid \in Puuid /\ row.cursor = StartCursor
      BY <2>1 DEF Inserting
    <3> HIDE DEF row
    <3>2. ASSUME NEW a \in Id, a # lastId + 1, Exists(a)'
          PROVE  /\ Exists(a) /\ account'[a].puuid = account[a].puuid
                 /\ account'[a].cursor = account[a].cursor
      <4>1. CASE a \in request[r].demoted /\ Exists(a)
        <5>1. account'[a] = [account[a] EXCEPT !.isPrimary = FALSE]
              /\ account[a] \in Row(account[a].cursor)
          BY <1>0, <2>3, <3>2, <4>1 DEF RowsTyped
        <5> QED
          BY <4>1, <5>1 DEF Row
      <4>2. CASE ~ (a \in request[r].demoted /\ Exists(a))
        BY <2>3, <3>2, <4>2 DEF Exists
      <4> QED
        BY <4>1, <4>2
    <3>3. ASSUME NEW a \in Id, a = lastId + 1
          PROVE  a > lastId /\ account'[a] = row
      BY <1>0, <2>3, <3>3
    <3> QED
      BY <1>0, <2>3, <3>1, <3>2, <3>3 DEF RowsKept
  <2> QED
    BY <1>4, <2>2, <2>3 DEF CreateCommit
<1>5. ASSUME DeleteCommit(r) \/ Withdraw(r)
      PROVE  RowsKept
  <2>1. UNCHANGED lastId
    BY <1>5 DEF DeleteCommit, Withdraw
  <2>2. ASSUME NEW a \in Id, Exists(a)'
        PROVE  /\ Exists(a) /\ account'[a].puuid = account[a].puuid
               /\ account'[a].cursor = account[a].cursor
    <3>1. \/ account'[a] = account[a]
          \/ Exists(a) /\ account'[a] = [account[a] EXCEPT !.isPrimary = TRUE]
      BY <1>5, <2>2 DEF DeleteCommit, Withdraw, AccountsOf, Exists
    <3>2. Exists(a) => account[a] \in Row(account[a].cursor)
      BY <1>0 DEF RowsTyped
    <3> QED
      BY <2>2, <3>1, <3>2 DEF Row, Exists
  <2> QED
    BY <1>0, <2>1, <2>2 DEF RowsKept
<1> QED
  BY <1>1, <1>2, <1>3, <1>4, <1>5 DEF ContinueRequest

(* So do the steps of the worker, save its commit. *)
LEMMA WorkerKeepsRows ==
  ASSUME Typed, SyncedInv, WorkerStep, ~ Commit
  PROVE  RowsKept
<1>0. RowsTyped /\ UNCHANGED lastId
  BY WorkerMoves DEF Typed
<1>1. ASSUME (\E job \in queue : Take(job)) \/ Page \/ StoreDetails \/ Announce \/ Stumble
      PROVE  UNCHANGED account
  BY <1>1 DEF Take, Reject, Page, StoreDetails, Details, Announce, Stumble, rows
<1>2. ASSUME Begin \/ Catch
      PROVE  UNCHANGED account
             \/ (Exists(worker.job.id) /\ \E status, synced : Write(worker.job.id, status, synced))
  BY <1>2 DEF Begin, Catch, Reject
<1>3. worker # IdleWorker => worker.job.id \in Id
  BY WorkingTyped
<1>4. Begin \/ Catch => worker # IdleWorker
  BY DEF Begin, Catch, IdleWorker
<1> QED
  BY <1>0, <1>1, <1>2, <1>3, <1>4, SameRowsKept, WriteKeepsRows DEF WorkerStep

(* What a step does to matches: nothing, unless one is played, stored, erased or excused. *)
LEMMA MatchesMove ==
  ASSUME Typed, SyncedInv, HistInv, Next
  PROVE  PlayedTyped' /\ MatchesKept
<1>0. /\ PlayedTyped /\ RowKnown /\ PagedKnown /\ CursorReady
      /\ \A p \in Puuid : played[p] \in Nat
  BY DEF HistInv, PlayedTyped
<1>1. ASSUME UNCHANGED <<played, stored, excused, seen>>
      PROVE  PlayedTyped' /\ MatchesKept
  BY <1>0, <1>1 DEF PlayedTyped, MatchesKept
<1>2. ASSUME NEW r \in Request, Withdraw(r)
      PROVE  PlayedTyped' /\ MatchesKept
  <2>1. /\ stored' = [p \in Puuid |-> IF p \in request[r].puuids THEN {} ELSE stored[p]]
        /\ excused' = [p \in Puuid |->
             IF p \in request[r].puuids THEN 1..played[p] ELSE excused[p]]
        /\ UNCHANGED <<played, seen>>
    BY <1>2 DEF Withdraw
  <2>2. \A p \in Puuid : 1..played[p] \subseteq Match
    BY <1>0, SyncAssumption DEF PlayedTyped, Match
  <2>3. \A p \in Puuid : stored[p] \cup excused[p] \subseteq stored'[p] \cup excused'[p]
    BY <1>0, <2>1 DEF PlayedTyped
  <2>4. \A p \in Puuid : stored'[p] \cup excused'[p] \subseteq 1..played'[p]
    BY <1>0, <2>1 DEF PlayedTyped
  <2>5. stored' \in [Puuid -> SUBSET Match] /\ excused' \in [Puuid -> SUBSET Match]
    BY <1>0, <2>1, <2>2 DEF PlayedTyped
  <2> QED
    BY <1>0, <2>1, <2>3, <2>4, <2>5 DEF PlayedTyped, MatchesKept
<1>3. ASSUME NEW p \in Puuid, Play(p)
      PROVE  PlayedTyped' /\ MatchesKept
  <2>1. /\ played[p] < MaxPlayed /\ played' = [played EXCEPT ![p] = @ + 1]
        /\ UNCHANGED <<stored, excused, seen>>
    BY <1>3 DEF Play, rows, ghosts
  <2>2. \A q \in Puuid : played'[q] \in Nat /\ played[q] <= played'[q]
    BY <1>0, <2>1 DEF PlayedTyped
  <2>3. played' \in [Puuid -> 0..MaxPlayed]
    BY <1>0, <2>1, SyncAssumption DEF PlayedTyped
  <2>4. \A q \in Puuid : 1..played[q] \subseteq 1..played'[q]
    BY <1>0, <2>2
  <2> QED
    BY <1>0, <2>1, <2>2, <2>3, <2>4 DEF PlayedTyped, MatchesKept
<1>4. ASSUME StoreDetails
      PROVE  PlayedTyped' /\ MatchesKept
  <2>0. worker.pc = "details" /\ worker # IdleWorker
    BY <1>4 DEF StoreDetails, IdleWorker
  <2> DEFINE p     == worker.row.puuid
             type  == TypeOf(worker.job, worker.row)
             paged == PagedIds(worker.n, worker.row.cursor, type)
  <2>1. PICK failed : stored' = [stored EXCEPT ![p] = @ \cup ((paged \ worker.known) \ failed)]
                      /\ UNCHANGED <<played, excused, seen>>
    BY <1>4 DEF StoreDetails, Details, ghosts
  <2>2. p \in Puuid /\ worker.n \in Nat /\ worker.n <= played[p]
    BY <1>0, <2>0 DEF RowKnown, PagedKnown
  <2>3. paged \subseteq 1..worker.n
    BY DEF PagedIds, LatestPage, BackfillPage, MatchIds
  <2> HIDE DEF p, paged
  <2>4. paged \subseteq 1..played[p]
    BY <1>0, <2>2, <2>3
  <2>5. 1..played[p] \subseteq Match
    BY <1>0, <2>2, SyncAssumption DEF PlayedTyped, Match
  <2>6. stored' \in [Puuid -> SUBSET Match]
    BY <1>0, <2>1, <2>2, <2>4, <2>5 DEF PlayedTyped
  <2>7. \A q \in Puuid : stored[q] \subseteq stored'[q] /\ stored'[q] \cup excused[q] \subseteq 1..played[q]
    BY <1>0, <2>1, <2>2, <2>4 DEF PlayedTyped
  <2> QED
    BY <1>0, <2>1, <2>6, <2>7 DEF PlayedTyped, MatchesKept
<1>5. ASSUME Commit
      PROVE  PlayedTyped' /\ MatchesKept
  <2>0. worker.pc = "ranked" /\ worker # IdleWorker
    BY <1>5 DEF Commit, IdleWorker
  <2> DEFINE p == worker.row.puuid
             a == worker.job.id
  <2>1. /\ excused' = [excused EXCEPT ![p] = @ \cup worker.missed]
        /\ seen' = [seen EXCEPT ![a] = worker.n] /\ UNCHANGED <<played, stored>>
    BY <1>5 DEF Commit
  <2>2. /\ p \in Puuid /\ worker.n \in Nat /\ worker.n <= played[p]
        /\ worker.missed \subseteq 1..worker.n /\ a \in Id
    BY <1>0, <2>0, WorkingTyped DEF RowKnown, PagedKnown, CursorReady
  <2> HIDE DEF p, a
  <2>3. worker.missed \subseteq 1..played[p] /\ worker.n \in 0..MaxPlayed
    BY <1>0, <2>2, SyncAssumption DEF PlayedTyped
  <2>4. 1..played[p] \subseteq Match
    BY <1>0, <2>2, SyncAssumption DEF PlayedTyped, Match
  <2>5. excused' \in [Puuid -> SUBSET Match] /\ seen' \in [Id -> 0..MaxPlayed]
    BY <1>0, <2>1, <2>2, <2>3, <2>4 DEF PlayedTyped
  <2>6. \A q \in Puuid : /\ excused[q] \subseteq excused'[q]
                         /\ stored[q] \cup excused'[q] \subseteq 1..played[q]
    BY <1>0, <2>1, <2>2, <2>3 DEF PlayedTyped
  <2> QED
    BY <1>0, <2>1, <2>5, <2>6 DEF PlayedTyped, MatchesKept
<1>6. ASSUME NEW r \in Request, BeginRequest(r) \/ ContinueRequest(r), ~ Withdraw(r)
      PROVE  UNCHANGED <<played, stored, excused, seen>>
  <2>1. ASSUME BeginRequest(r)
        PROVE  UNCHANGED <<played, stored, excused, seen>>
    BY <2>1 DEF BeginRequest, CreateRead, SyncRequest, StatusRead, DeleteRead, WithdrawRead, rows,
       ghosts
  <2>2. ASSUME CreateBegin(r) \/ QueueRead(r) \/ QueueRefused(r) \/ DeleteCancel(r)
                 \/ DeleteInterrupted(r) \/ DeleteAnnounce(r) \/ QueueAdd(r) \/ RequestFails(r)
        PROVE  UNCHANGED <<played, stored, excused, seen>>
    BY <2>2 DEF CreateBegin, QueueRead, QueueRefused, DeleteCancel, DeleteInterrupted,
       DeleteAnnounce, QueueAdd, RequestFails, rows, ghosts
  <2>3. ASSUME CreateCommit(r) \/ Recover(r) \/ QueueMark(r) \/ QueueFailed(r) \/ DeleteCommit(r)
        PROVE  UNCHANGED <<played, stored, excused, seen>>
    BY <2>3 DEF CreateCommit, Recover, QueueMark, QueueFailed, DeleteCommit, ghosts
  <2> QED
    BY <1>6, <2>1, <2>2, <2>3 DEF ContinueRequest
<1>7. ASSUME (\E job \in queue : Take(job)) \/ Begin \/ Page \/ Announce \/ Stumble \/ Catch
               \/ (\E a \in Id : Stall(a)) \/ Crash
      PROVE  UNCHANGED <<played, stored, excused, seen>>
  <2>1. ASSUME (\E job \in queue : Take(job)) \/ Begin \/ Page \/ Announce
        PROVE  UNCHANGED <<played, stored, excused, seen>>
    BY <2>1 DEF Take, Begin, Page, Announce, rows, ghosts
  <2>2. ASSUME Stumble \/ Catch \/ (\E a \in Id : Stall(a)) \/ Crash
        PROVE  UNCHANGED <<played, stored, excused, seen>>
    BY <2>2 DEF Stumble, Catch, Stall, Crash, rows, ghosts
  <2> QED
    BY <1>7, <2>1, <2>2
<1> QED
  BY <1>1, <1>2, <1>3, <1>4, <1>5, <1>6, <1>7 DEF Next, WorkerStep, Environment

(* Rows that are kept stay covered. *)
LEMMA CoverKept ==
  ASSUME Typed, SyncedInv, HistInv, PlayedTyped', RowsTyped', RowsKept, MatchesKept, UNCHANGED seen
  PROVE  RowsCovered'
<1>0. /\ lastId \in Nat /\ lastId' \in Nat /\ lastId <= lastId' /\ Id \subseteq Nat
      /\ PlayedTyped /\ RowsCovered /\ RowsTyped
  BY SyncAssumption DEF Typed, RowsTyped, RowsKept, HistInv, Id
<1>1. ASSUME NEW a \in Id, a > lastId'
      PROVE  seen'[a] = 0
  <2>1. a \in Nat
    BY <1>0
  <2>2. a > lastId
    BY <1>0, <1>1, <2>1
  <2> QED
    BY <1>0, <2>2 DEF RowsCovered
<1>2. ASSUME NEW a \in Id, Exists(a)'
      PROVE  /\ account'[a].cursor \in Cursor /\ seen'[a] <= played'[account'[a].puuid]
             /\ Vouches(account'[a].cursor, seen'[a],
                        stored'[account'[a].puuid] \cup excused'[account'[a].puuid])
  <2>1. CASE /\ Exists(a) /\ account'[a].puuid = account[a].puuid
             /\ account'[a].cursor = account[a].cursor
    <3>1. PICK p \in Puuid : p = account[a].puuid
      BY <1>0, <2>1 DEF RowsTyped, Row
    <3>2. played[p] \in Nat /\ played'[p] \in Nat /\ seen[a] \in Nat
      BY <1>0 DEF PlayedTyped
    <3> QED
      BY <1>0, <2>1, <3>1, <3>2 DEF RowsCovered, MatchesKept, Vouches
  <2>2. CASE /\ a > lastId
             /\ account'[a].puuid \in Puuid /\ account'[a].cursor = StartCursor
    <3>1. seen'[a] = 0
      BY <1>0, <2>2 DEF RowsCovered
    <3>2. played'[account'[a].puuid] \in Nat
      BY <2>2 DEF PlayedTyped
    <3> QED
      BY <2>2, <3>1, <3>2 DEF Vouches, StartCursor, Cursor
  <2> QED
    BY <1>2, <2>1, <2>2 DEF RowsKept
<1> QED
  BY <1>1, <1>2 DEF RowsCovered

(* An idle worker knows nothing. *)
LEMMA IdleKnows ==
  ASSUME worker' = IdleWorker
  PROVE  RowKnown' /\ CursorKnown' /\ PagedKnown' /\ DetailsKnown' /\ CursorReady'
BY DEF IdleWorker, RowKnown, CursorKnown, PagedKnown, DetailsKnown, CursorReady

(* The row of the worker, should it still be there, is the one it was. *)
LEMMA KeptRow ==
  ASSUME Typed, SyncedInv, RowsKept, worker # IdleWorker
  PROVE  account'[worker.job.id] # NoAccount =>
           /\ Exists(worker.job.id)
           /\ account'[worker.job.id].puuid = account[worker.job.id].puuid
           /\ account'[worker.job.id].cursor = account[worker.job.id].cursor
<1>1. PICK a \in Id : a = worker.job.id
  BY WorkingTyped
<1>2. worker.job.id <= lastId
  BY WorkingTyped
<1>3. a \in Nat /\ lastId \in Nat /\ a <= lastId
  BY <1>1, <1>2 DEF Id, Typed, RowsTyped
<1>4. ~ (a > lastId)
  BY <1>3
<1> QED
  BY <1>1, <1>4 DEF RowsKept, Exists

(* What the worker knows stays true while it rests. *)
LEMMA WorkerKnows ==
  ASSUME Typed, SyncedInv, HistInv, PlayedTyped', RowsKept, MatchesKept, UNCHANGED <<worker, seen>>
  PROVE  RowKnown' /\ CursorKnown' /\ PagedKnown' /\ DetailsKnown' /\ CursorReady'
<1> SUFFICES ASSUME worker # IdleWorker
             PROVE  RowKnown' /\ CursorKnown' /\ PagedKnown' /\ DetailsKnown' /\ CursorReady'
  BY IdleKnows
<1>0. PlayedTyped /\ RowKnown /\ CursorKnown /\ PagedKnown /\ DetailsKnown /\ CursorReady
  BY DEF HistInv
<1>1. PICK a \in Id : a = worker.job.id
  BY WorkingTyped
<1>2. PICK p \in Puuid : p = worker.row.puuid
  BY <1>0 DEF RowKnown
<1>3. Exists(a)' => /\ Exists(a) /\ account'[a].puuid = account[a].puuid
                    /\ account'[a].cursor = account[a].cursor
  BY <1>1, KeptRow DEF Exists
<1>4. /\ played[p] \in Nat /\ played'[p] \in Nat /\ played[p] <= played'[p]
      /\ stored[p] \cup excused[p] \subseteq stored'[p] \cup excused'[p]
  BY <1>0 DEF PlayedTyped, MatchesKept
<1>5. RowKnown' /\ CursorKnown'
  BY <1>0, <1>1, <1>3 DEF RowKnown, CursorKnown, Exists
<1>6. PagedKnown'
  BY <1>0, <1>1, <1>2, <1>3, <1>4 DEF PagedKnown, Exists
<1>7. DetailsKnown'
  BY <1>0, <1>2, <1>4 DEF DetailsKnown
<1>8. CursorReady'
  BY <1>0, <1>2, <1>4 DEF CursorReady, Vouches
<1> QED
  BY <1>5, <1>6, <1>7, <1>8

Known == RowKnown /\ CursorKnown /\ PagedKnown /\ DetailsKnown /\ CursorReady

(* The job of the worker has a type, and so has its synchronisation. *)
LEMMA SyncIsTyped ==
  ASSUME Typed, SyncedInv, worker # IdleWorker
  PROVE  TypeOf(worker.job, worker.row) \in SyncType
BY WorkingTyped DEF TypeOf, SyncType, Job

(* The row a job finds. *)
LEMMA TakeKnows ==
  ASSUME Typed, SyncedInv, HistInv, NEW job \in queue, Take(job)
  PROVE  Known'
<1>1. CASE worker' = IdleWorker
  BY <1>1, IdleKnows DEF Known
<1>2. CASE worker' # IdleWorker
  <2>1. job.id \in Id /\ UNCHANGED account
    BY <1>2 DEF Typed, JobsTyped, Job, Take, Reject, Rethrow
  <2>2. worker' = [pc |-> "start", job |-> job, row |-> Snapshot(account[job.id])] /\ Exists(job.id)
    BY <1>2 DEF Take, Reject, Rethrow
  <2>3. account[job.id].puuid \in Puuid /\ account[job.id].cursor \in Cursor
    BY <2>1, <2>2 DEF Typed, RowsTyped, Row, HistInv, RowsCovered
  <2> QED
    BY <2>1, <2>2, <2>3
       DEF Snapshot, Known, RowKnown, CursorKnown, PagedKnown, DetailsKnown, CursorReady
<1> QED
  BY <1>1, <1>2

(* RUNNING is written; nothing else changes. *)
LEMMA BeginKnows ==
  ASSUME Typed, SyncedInv, HistInv, RowsKept, Begin
  PROVE  Known'
<1>0. worker # IdleWorker /\ worker.pc = "start"
  BY DEF Begin, IdleWorker
<1>1. CASE worker' = IdleWorker
  BY <1>1, IdleKnows DEF Known
<1>2. CASE worker' # IdleWorker
  <2>1. worker' = [worker EXCEPT !.pc = "page"]
    BY <1>2 DEF Begin, Reject, Rethrow
  <2>2. worker = [pc |-> "start", job |-> worker.job, row |-> worker.row]
    BY <1>0 DEF Typed, WorkerTyped
  <2>3. worker'.pc = "page" /\ worker'.job = worker.job /\ worker'.row = worker.row
    BY <2>1, <2>2
  <2>4. account'[worker.job.id] # NoAccount =>
          /\ Exists(worker.job.id)
          /\ account'[worker.job.id].puuid = account[worker.job.id].puuid
          /\ account'[worker.job.id].cursor = account[worker.job.id].cursor
    BY <1>0, KeptRow
  <2> QED
    BY <1>0, <2>3, <2>4
       DEF HistInv, Exists, Known, RowKnown, CursorKnown, PagedKnown, DetailsKnown, CursorReady
<1> QED
  BY <1>1, <1>2

(* The pages name matches that were played, and the known ones are stored. *)
LEMMA PageKnows ==
  ASSUME Typed, SyncedInv, HistInv, Page
  PROVE  Known'
<1>0. worker # IdleWorker /\ worker.pc = "page" /\ Exists(worker.job.id)
  BY DEF Page, IdleWorker
<1>1. PICK a \in Id : a = worker.job.id
  BY <1>0, WorkingTyped
<1>2. PICK p \in Puuid : p = worker.row.puuid /\ account[a].puuid = p
  BY <1>0, <1>1 DEF HistInv, RowKnown
<1>3. /\ worker'.pc = "details" /\ worker'.job = worker.job /\ worker'.row = worker.row
      /\ worker'.n = played[p] /\ worker'.known \subseteq stored[p]
      /\ UNCHANGED <<account, played, stored, excused, seen>>
  BY <1>2 DEF Page, rows, ghosts
<1>4. played[p] \in Nat
  BY DEF HistInv, PlayedTyped
<1>5. seen[a] <= played[p]
  BY <1>0, <1>1, <1>2 DEF HistInv, RowsCovered
<1> QED
  BY <1>0, <1>1, <1>2, <1>3, <1>4, <1>5
     DEF HistInv, Exists, Known, RowKnown, CursorKnown, PagedKnown, DetailsKnown, CursorReady

(* A commit, an error: what follows needs the row alone. *)
LEMMA LaterKnows ==
  ASSUME Typed, SyncedInv, HistInv, worker # IdleWorker, worker'.pc \in {"committed", "failing"},
         worker'.job = worker.job, worker'.row = worker.row,
         account'[worker.job.id] # NoAccount =>
           /\ Exists(worker.job.id)
           /\ account'[worker.job.id].puuid = account[worker.job.id].puuid
  PROVE  Known'
BY DEF HistInv, Exists, Known, RowKnown, CursorKnown, PagedKnown, DetailsKnown, CursorReady

(* What failed or outran the pages is missed, what was resolved is stored: the new cursor *)
(* vouches for both, whatever the old one covered.                                        *)
LEMMA DetailsVouch ==
  ASSUME NEW n \in Nat, NEW cursor \in Cursor, NEW type \in SyncType, NEW known, NEW failed,
         NEW before \in Nat, NEW kept, NEW missed, before <= n, known \subseteq kept,
         Vouches(cursor, before, kept),
         missed = IF cursor = StartCursor THEN {}
                  ELSE (failed \cap LatestPage(n, type))
                         \cup (((before + 1)..n) \ PagedIds(n, cursor, type))
  PROVE  Vouches(AdvanceCursor(n, cursor, type,
                               known \cup (DetailIds(n, cursor, type, known) \ failed)), n,
                 kept \cup ((PagedIds(n, cursor, type) \ known) \ failed) \cup missed)
<1> DEFINE paged    == PagedIds(n, cursor, type)
           asked    == DetailIds(n, cursor, type, known)
           resolved == known \cup (asked \ failed)
           new      == AdvanceCursor(n, cursor, type, resolved)
           after    == kept \cup ((paged \ known) \ failed) \cup missed
<1> SUFFICES ASSUME NEW m \in 1..n, new.complete \/ n - m < new.next
             PROVE  m \in after
  BY DEF Vouches
<1>0. cursor.next \in Nat /\ cursor.complete \in BOOLEAN
  BY DEF Cursor
<1>1. LatestPage(n, type) \subseteq paged
  BY DEF PagedIds
<1>2. asked \subseteq paged
  BY <1>1 DEF DetailIds, PriorityIds
<1>3. resolved \subseteq after
  BY <1>2
<1>4. ASSUME cursor.complete \/ (cursor.next # 0 /\ n - m < cursor.next)
      PROVE  m \in after
  <2>1. cursor # StartCursor
    BY <1>4 DEF StartCursor
  <2>2. missed = (failed \cap LatestPage(n, type)) \cup (((before + 1)..n) \ paged)
    BY <2>1
  <2>3. CASE m <= before
    <3>1. m \in 1..before
      BY <2>3
    <3>2. cursor.complete \/ before - m < cursor.next
      BY <1>0, <1>4
    <3> QED
      BY <3>1, <3>2 DEF Vouches
  <2>4. CASE m > before /\ m \notin paged
    <3>1. m \in (before + 1)..n
      BY <2>4
    <3> QED
      BY <2>2, <2>4, <3>1
  <2>5. CASE m > before /\ m \in paged
    <3>1. m \in LatestPage(n, type)
      <4>1. CASE cursor.complete
        BY <2>5, <4>1 DEF PagedIds
      <4>2. CASE ~ cursor.complete
        <5> SUFFICES ASSUME m \notin LatestPage(n, type) PROVE FALSE
          OBVIOUS
        <5>1. PICK i \in 1..ExtraPagesOf(type) : m \in BackfillPage(n, cursor, type, i)
          BY <2>5, <4>2 DEF PagedIds
        <5>2. i - 1 \in Nat /\ PageSize \in Nat \ {0}
          BY <5>1, PageSizes
        <5>3. (i - 1) * PageSize \in Nat
          BY <5>2
        <5>4. n - m >= cursor.next + (i - 1) * PageSize
          BY <1>4, <4>2, <5>1 DEF BackfillPage, BackfillStart, MatchIds
        <5> QED
          BY <1>0, <1>4, <4>2, <5>3, <5>4
      <4> QED
        BY <4>1, <4>2
    <3> QED
      BY <2>2, <2>5, <3>1
  <2> QED
    BY <2>3, <2>4, <2>5, <1>0
<1>5. CASE cursor.complete
  BY <1>4, <1>5
<1>6. CASE ~ cursor.complete
  <2>1. m \in resolved \/ (cursor.next # 0 /\ n - m < cursor.next)
    <3> HIDE DEF resolved
    <3> QED
      BY <1>6, CursorVouches
  <2> QED
    BY <1>3, <1>4, <2>1
<1> QED
  BY <1>5, <1>6

(* Storing the details readies the cursor. *)
LEMMA DetailsKnow ==
  ASSUME Typed, SyncedInv, HistInv, StoreDetails
  PROVE  Known'
<1>0. worker # IdleWorker /\ worker.pc = "details" /\ Exists(worker.job.id)
  BY DEF StoreDetails, IdleWorker
<1> DEFINE type   == TypeOf(worker.job, worker.row)
           cursor == worker.row.cursor
           n      == worker.n
           p      == worker.row.puuid
           paged  == PagedIds(n, cursor, type)
           asked  == DetailIds(n, cursor, type, worker.known)
           kept   == stored[p] \cup excused[p]
<1>1. PICK failed :
        /\ stored' = [stored EXCEPT ![p] = @ \cup ((paged \ worker.known) \ failed)]
        /\ worker' = [pc |-> "ranked", job |-> worker.job, row |-> worker.row,
                      n |-> n, missed |-> Missed(failed), warned |-> failed # {},
                      cursor |-> AdvanceCursor(n, cursor, type,
                                               worker.known \cup (asked \ failed))]
        /\ UNCHANGED <<account, played, seen, excused>>
  BY DEF StoreDetails, Details, ghosts
<1>2. PICK a \in Id : a = worker.job.id
  BY <1>0, WorkingTyped
<1>3. /\ p \in Puuid /\ cursor \in Cursor /\ type \in SyncType
      /\ account[a].puuid = p /\ account[a].cursor = cursor
      /\ n \in Nat /\ n <= played[p] /\ seen[a] <= n /\ worker.known \subseteq kept
  BY <1>0, <1>2, SyncIsTyped DEF HistInv, RowKnown, CursorKnown, PagedKnown, DetailsKnown
<1>4. seen[a] \in Nat /\ Vouches(cursor, seen[a], kept)
  <2>1. seen[a] \in Nat
    BY DEF HistInv, PlayedTyped
  <2>2. Vouches(account[a].cursor, seen[a], stored[account[a].puuid] \cup excused[account[a].puuid])
    BY <1>0, <1>2 DEF HistInv, RowsCovered
  <2> QED
    BY <1>3, <2>1, <2>2
<1>5. Missed(failed) = IF cursor = StartCursor THEN {}
                       ELSE (failed \cap LatestPage(n, type))
                              \cup (((seen[a] + 1)..n) \ paged)
  BY <1>2 DEF Missed
<1>6. /\ worker'.pc = "ranked" /\ worker'.job = worker.job /\ worker'.row = worker.row
      /\ worker'.n = n /\ worker'.missed = Missed(failed)
      /\ worker'.cursor = AdvanceCursor(n, cursor, type, worker.known \cup (asked \ failed))
  BY <1>1
<1>7. stored'[p] = stored[p] \cup ((paged \ worker.known) \ failed)
  BY <1>1, <1>3 DEF HistInv, PlayedTyped
<1>8. RowKnown' /\ CursorKnown' /\ PagedKnown' /\ DetailsKnown'
  BY <1>0, <1>1, <1>2, <1>3, <1>6
     DEF HistInv, Exists, RowKnown, CursorKnown, PagedKnown, DetailsKnown
<1>9. CursorReady'
  <2> HIDE DEF n, cursor, type, p
  <2> DEFINE resolved == worker.known \cup (asked \ failed)
             new      == AdvanceCursor(n, cursor, type, resolved)
  <2>0. worker'.cursor = new
    BY <1>6
  <2>1. Vouches(worker'.cursor, n,
                kept \cup ((paged \ worker.known) \ failed) \cup Missed(failed))
    <3>1. Vouches(new, n, kept \cup ((paged \ worker.known) \ failed) \cup Missed(failed))
      <4> HIDE DEF kept
      <4> QED
        BY <1>3, <1>4, <1>5, DetailsVouch
    <3> QED
      BY <2>0, <3>1
  <2>2. kept \cup ((paged \ worker.known) \ failed) = stored'[p] \cup excused'[p]
    BY <1>1, <1>7
  <2>3. Missed(failed) \subseteq 1..n
    <3>1. LatestPage(n, type) \subseteq 1..n
      BY DEF LatestPage, MatchIds
    <3>2. (seen[a] + 1)..n \subseteq 1..n
      BY <1>3, <1>4
    <3> QED
      BY <1>5, <3>1, <3>2
  <2>4. /\ worker'.cursor \in Cursor /\ worker'.cursor.next >= cursor.next
        /\ cursor.complete => worker'.cursor.complete
    <3>1. /\ new \in Cursor /\ new.next >= cursor.next
          /\ cursor.complete => new = cursor
      <4> HIDE DEF resolved
      <4> QED
        BY <1>3, CursorVouches
    <3> HIDE DEF new
    <3> QED
      BY <2>0, <3>1
  <2> QED
    BY <1>6, <2>1, <2>2, <2>3, <2>4 DEF CursorReady, n, cursor, p
<1> QED
  BY <1>8, <1>9 DEF Known

(* What a commit writes: the cursor of the worker, and what it vouches for. *)
LEMMA CommitCovers ==
  ASSUME Typed, SyncedInv, HistInv, Commit
  PROVE  /\ RowsCovered' /\ Known'
         /\ \A a \in Id : Exists(a)' =>
              /\ Exists(a) /\ account'[a].puuid = account[a].puuid
              /\ account'[a].cursor.next >= account[a].cursor.next
              /\ account[a].cursor.complete => account'[a].cursor.complete
<1>0. worker # IdleWorker /\ worker.pc = "ranked" /\ Exists(worker.job.id) /\ UNCHANGED lastId
  BY DEF Commit, IdleWorker
<1> DEFINE p == worker.row.puuid
<1>1. PICK a \in Id : a = worker.job.id
  BY <1>0, WorkingTyped
<1>2. PICK unranked \in RankedWarnings :
        account' = [account EXCEPT
            ![a].syncStatus = IF worker.warned \/ unranked THEN "PARTIAL" ELSE "SUCCEEDED",
            ![a].synced = TRUE, ![a].hasUsableSnapshot = TRUE, ![a].cursor = worker.cursor]
  BY <1>1 DEF Commit
<1>3. account[a] \in Row(account[a].cursor) /\ account = [b \in Id |-> account[b]]
      /\ lastId \in Nat /\ a \in Nat
  BY <1>0, <1>1 DEF Typed, RowsTyped, Id
<1>4. /\ account'[a].puuid = account[a].puuid /\ account'[a].cursor = worker.cursor
      /\ \A b \in Id \ {a} : account'[b] = account[b]
  BY <1>2, <1>3 DEF Row
<1>5. /\ p \in Puuid /\ account[a].puuid = p /\ account[a].cursor = worker.row.cursor
      /\ worker.n \in Nat /\ worker.n <= played[p]
  BY <1>0, <1>1 DEF HistInv, RowKnown, CursorKnown, PagedKnown
<1>6. /\ worker.cursor \in Cursor /\ worker.cursor.next >= worker.row.cursor.next
      /\ worker.row.cursor.complete => worker.cursor.complete
      /\ Vouches(worker.cursor, worker.n, stored[p] \cup excused[p] \cup worker.missed)
  BY <1>0 DEF HistInv, CursorReady
<1>7. /\ seen' = [seen EXCEPT ![a] = worker.n]
      /\ excused' = [excused EXCEPT ![p] = @ \cup worker.missed]
      /\ worker' = [pc |-> "committed", job |-> worker.job, row |-> worker.row]
      /\ UNCHANGED <<played, stored>>
  BY <1>1 DEF Commit
<1>8. PlayedTyped
  BY DEF HistInv
<1>9. /\ seen'[a] = worker.n /\ \A b \in Id \ {a} : seen'[b] = seen[b]
      /\ excused'[p] = excused[p] \cup worker.missed
      /\ \A q \in Puuid : excused[q] \subseteq excused'[q]
  BY <1>5, <1>7, <1>8 DEF PlayedTyped
<1>10. RowsCovered'
  <2>1. ASSUME NEW b \in Id, b > lastId
        PROVE  seen'[b] = 0
    <3>1. a <= lastId
      BY <1>0, <1>1, WorkingTyped
    <3>2. b # a
      BY <1>3, <2>1, <3>1
    <3> QED
      BY <1>9, <2>1, <3>2 DEF HistInv, RowsCovered
  <2>2. ASSUME NEW b \in Id, Exists(b)'
        PROVE  /\ account'[b].cursor \in Cursor /\ seen'[b] <= played'[account'[b].puuid]
               /\ Vouches(account'[b].cursor, seen'[b],
                          stored'[account'[b].puuid] \cup excused'[account'[b].puuid])
    <3>1. CASE b = a
      BY <1>4, <1>5, <1>6, <1>7, <1>9, <3>1 DEF Vouches
    <3>2. CASE b # a
      <4>1. Exists(b) /\ account'[b] = account[b] /\ seen'[b] = seen[b]
        BY <1>4, <1>9, <2>2, <3>2 DEF Exists
      <4>2. account[b].puuid \in Puuid
        BY <4>1 DEF Typed, RowsTyped, Row
      <4> QED
        BY <1>7, <1>9, <4>1, <4>2 DEF HistInv, RowsCovered, Vouches
    <3> QED
      BY <3>1, <3>2
  <2> QED
    BY <1>0, <2>1, <2>2 DEF RowsCovered
<1>11. ASSUME NEW b \in Id, Exists(b)'
       PROVE  /\ Exists(b) /\ account'[b].puuid = account[b].puuid
              /\ account'[b].cursor.next >= account[b].cursor.next
              /\ account[b].cursor.complete => account'[b].cursor.complete
  <2>1. CASE b = a
    BY <1>0, <1>1, <1>4, <1>5, <1>6, <2>1
  <2>2. CASE b # a
    <3>1. Exists(b) /\ account'[b] = account[b]
      BY <1>4, <1>11, <2>2 DEF Exists
    <3>2. account[b].cursor.next \in Nat
      BY <3>1 DEF HistInv, RowsCovered, Cursor
    <3> QED
      BY <3>1, <3>2
  <2> QED
    BY <2>1, <2>2
<1>12. Known'
  BY <1>0, <1>1, <1>7, <1>11, LaterKnows DEF Exists
<1> QED
  BY <1>10, <1>11, <1>12

-----------------------------------------------------------------------------
(* The invariant is inductive. *)

(* Steps other than a commit keep what matches were seen, and the rows. *)
LEMMA QuietSteps ==
  ASSUME Typed, SyncedInv, Next, ~ Commit
  PROVE  RowsKept /\ UNCHANGED seen
<1>1. ASSUME NEW r \in Request, BeginRequest(r) \/ ContinueRequest(r)
      PROVE  UNCHANGED seen
  <2>1. ASSUME BeginRequest(r)
        PROVE  UNCHANGED seen
    BY <2>1 DEF BeginRequest, CreateRead, SyncRequest, StatusRead, DeleteRead, WithdrawRead, ghosts
  <2>2. ASSUME CreateBegin(r) \/ CreateCommit(r) \/ QueueRead(r) \/ Recover(r) \/ QueueMark(r)
                 \/ QueueAdd(r) \/ QueueRefused(r) \/ QueueFailed(r)
        PROVE  UNCHANGED seen
    BY <2>2 DEF CreateBegin, CreateCommit, QueueRead, Recover, QueueMark, QueueAdd, QueueRefused,
       QueueFailed, ghosts
  <2>3. ASSUME DeleteCancel(r) \/ DeleteCommit(r) \/ DeleteInterrupted(r) \/ DeleteAnnounce(r)
                 \/ Withdraw(r) \/ RequestFails(r)
        PROVE  UNCHANGED seen
    BY <2>3 DEF DeleteCancel, DeleteCommit, DeleteInterrupted, DeleteAnnounce, Withdraw,
       RequestFails, ghosts
  <2> QED
    BY <1>1, <2>1, <2>2, <2>3 DEF ContinueRequest
<1>2. ASSUME WorkerStep
      PROVE  UNCHANGED seen
  <2>1. ASSUME (\E job \in queue : Take(job)) \/ Begin \/ Page \/ Announce \/ Stumble \/ Catch
        PROVE  UNCHANGED seen
    BY <2>1 DEF Take, Begin, Page, Announce, Stumble, Catch, ghosts
  <2>2. ASSUME StoreDetails
        PROVE  UNCHANGED seen
    BY <2>2 DEF StoreDetails, Details, ghosts
  <2> QED
    BY <1>2, <2>1, <2>2 DEF WorkerStep
<1>3. ASSUME Environment
      PROVE  RowsKept /\ UNCHANGED seen
  <2>1. UNCHANGED <<account, lastId>>
    BY <1>3, EnvironmentMoves
  <2>2. UNCHANGED seen
    BY <1>3 DEF Environment, Play, Stall, Crash, ghosts
  <2> QED
    BY <2>1, <2>2, SameRowsKept DEF Typed
<1> QED
  BY <1>1, <1>2, <1>3, RequestKeepsRows, WorkerKeepsRows DEF Next

(* What the worker knows after each of its steps. *)
LEMMA WorkerStepKnows ==
  ASSUME Typed, SyncedInv, HistInv, WorkerStep, ~ Commit, RowsKept
  PROVE  Known'
<1>1. ASSUME Announce \/ Catch
      PROVE  Known'
  <2>1. worker' = IdleWorker
    BY <1>1 DEF Announce, Catch, Reject, Rethrow
  <2> QED
    BY <2>1, IdleKnows DEF Known
<1>2. ASSUME Stumble
      PROVE  Known'
  <2>1. /\ worker # IdleWorker /\ worker'.pc = "failing"
        /\ worker'.job = worker.job /\ worker'.row = worker.row
    BY <1>2 DEF Stumble, Throw, IdleWorker
  <2> QED
    BY <2>1, KeptRow, LaterKnows
<1> QED
  BY <1>1, <1>2, TakeKnows, BeginKnows, PageKnows, DetailsKnow DEF WorkerStep

LEMMA HistPreserved == Typed /\ SyncedInv /\ HistInv /\ [Next]_syncVars => HistInv'
<1> SUFFICES ASSUME Typed, SyncedInv, HistInv, [Next]_syncVars PROVE HistInv'
  OBVIOUS
<1>0. Typed'
  BY SyncedPreserved
<1>1. CASE UNCHANGED syncVars
  <2>1. UNCHANGED <<account, lastId, played, stored, seen, excused, worker>>
    BY <1>1 DEF syncVars, rows, ghosts
  <2>2. UNCHANGED <<PlayedTyped, RowsCovered>>
    BY <2>1 DEF PlayedTyped, RowsCovered, Exists
  <2>3. UNCHANGED <<RowKnown, CursorKnown, PagedKnown, DetailsKnown, CursorReady>>
    BY <2>1 DEF RowKnown, CursorKnown, PagedKnown, DetailsKnown, CursorReady, Exists
  <2> QED
    BY <2>2, <2>3 DEF HistInv
<1>2. CASE Next /\ Commit
  BY <1>2, MatchesMove, CommitCovers DEF HistInv, Known
<1>3. CASE Next /\ ~ Commit
  <2>1. PlayedTyped' /\ MatchesKept /\ RowsKept /\ UNCHANGED seen
    BY <1>3, MatchesMove, QuietSteps
  <2>2. RowsCovered'
    BY <1>0, <2>1, CoverKept DEF Typed
  <2>3. Known'
    <3>1. CASE UNCHANGED worker
      BY <2>1, <3>1, WorkerKnows DEF Known
    <3>2. CASE worker' = IdleWorker
      BY <3>2, IdleKnows DEF Known
    <3>3. CASE WorkerStep
      BY <1>3, <2>1, <3>3, WorkerStepKnows
    <3>4. ASSUME NEW r \in Request, BeginRequest(r) \/ ContinueRequest(r)
          PROVE  UNCHANGED worker
      BY <3>4, BeginTyped, QuietRequest, WritingRequest, AddingRequest, CreatingRequest,
         ErasingRequest DEF ContinueRequest
    <3>5. Environment => UNCHANGED worker \/ worker' = IdleWorker
      BY DEF Environment, Play, Stall, Crash
    <3> QED
      BY <1>3, <3>1, <3>2, <3>3, <3>4, <3>5 DEF Next
  <2> QED
    BY <2>1, <2>2, <2>3 DEF HistInv, Known
<1> QED
  BY <1>1, <1>2, <1>3

(* No match is stored and no row exists at first. *)
LEMMA InitHist == Init => HistInv
<1> SUFFICES ASSUME Init PROVE HistInv
  OBVIOUS
<1>1. /\ account = [a \in Id |-> NoAccount] /\ played \in [Puuid -> 0..MaxPlayed]
      /\ stored = [p \in Puuid |-> {}] /\ excused = [p \in Puuid |-> {}]
      /\ seen = [a \in Id |-> 0] /\ worker = IdleWorker
  BY DEF Init
<1>2. PlayedTyped
  BY <1>1, SyncAssumption DEF PlayedTyped
<1>3. RowsCovered
  BY <1>1 DEF RowsCovered, Exists
<1>4. RowKnown /\ CursorKnown /\ PagedKnown /\ DetailsKnown /\ CursorReady
  BY <1>1 DEF IdleWorker, RowKnown, CursorKnown, PagedKnown, DetailsKnown, CursorReady
<1> QED
  BY <1>2, <1>3, <1>4 DEF HistInv

(***************************************************************************)
(* The cursor of an account keeps its promise for every size of pages and  *)
(* however many of them a synchronisation requests: what it passed is      *)
(* stored, whatever failed, was retried, ran twice or crashed.             *)
(***************************************************************************)
THEOREM HistoryIsCovered == Spec => []HistoryCovered
<1>1. HistInv => HistoryCovered
  BY DEF HistInv, RowsCovered, Vouches, HistoryCovered
<1> QED
  BY <1>1, InitSynced, SyncedPreserved, InitHist, HistPreserved, PTL DEF Spec

(***************************************************************************)
(* The cursor never moves back: no handler that writes the row from what   *)
(* it read before undoes the progress of the worker.                       *)
(***************************************************************************)
THEOREM CursorOnlyAdvances == Spec => CursorAdvances
<1> DEFINE Advances ==
      \A a \in Id : Exists(a) /\ account'[a] # NoAccount =>
        LET old == account[a].cursor
            new == account'[a].cursor
        IN  new.next >= old.next /\ (old.complete => new.complete)
<1>1. ASSUME Typed, SyncedInv, HistInv, [Next]_syncVars
      PROVE  [Advances]_syncVars
  <2> SUFFICES ASSUME Next, NEW a \in Id, Exists(a), account'[a] # NoAccount
               PROVE  /\ account'[a].cursor.next >= account[a].cursor.next
                      /\ account[a].cursor.complete => account'[a].cursor.complete
    BY <1>1
  <2>1. CASE Commit
    BY <1>1, <2>1, CommitCovers DEF Exists
  <2>2. CASE ~ Commit
    <3>1. RowsKept
      BY <1>1, <2>2, QuietSteps
    <3>2. ~ (a > lastId)
      <4>1. a <= lastId /\ lastId \in Nat /\ a \in Nat
        BY <1>1 DEF SyncedInv, IdsGiven, Typed, RowsTyped, Id
      <4> QED
        BY <4>1
    <3>3. account'[a].cursor = account[a].cursor
      BY <3>1, <3>2 DEF RowsKept, Exists
    <3>4. account[a].cursor.next \in Nat
      BY <1>1 DEF HistInv, RowsCovered, Cursor
    <3> QED
      BY <3>3, <3>4
  <2> QED
    BY <2>1, <2>2
<1> QED
  BY <1>1, InitSynced, SyncedPreserved, InitHist, HistPreserved, PTL DEF Spec, CursorAdvances
-----------------------------------------------------------------------------
(* Types. *)

(* The bookkeeping around rows and jobs. *)
MarksTyped ==
  /\ stalled \subseteq Id /\ lost \subseteq Id
  /\ faults \in [crashes : 0..MaxCrashes, stalls : 0..MaxStalls]

LEMMA MarksPreserved == Typed /\ SyncedInv /\ MarksTyped /\ [Next]_syncVars => MarksTyped'
<1> SUFFICES ASSUME Typed, SyncedInv, MarksTyped, [Next]_syncVars PROVE MarksTyped'
  OBVIOUS
<1>0. RequestsTyped
  BY DEF Typed
<1>1. ASSUME stalled' \subseteq stalled, UNCHANGED <<lost, faults>>
      PROVE  MarksTyped'
  BY <1>1 DEF MarksTyped
<1>2. ASSUME NEW r \in Request, BeginRequest(r)
      PROVE  MarksTyped'
  BY <1>1, <1>2 DEF BeginRequest, CreateRead, SyncRequest, StatusRead, DeleteRead, WithdrawRead,
     ghosts
<1>3. ASSUME NEW r \in Request, DeleteInterrupted(r) \/ RequestFails(r) \/ QueueAdd(r)
      PROVE  MarksTyped'
  <2>1. CASE DeleteInterrupted(r)
    <3>1. request[r].id \in Id
      BY <1>0, <2>1, RequestKinds DEF DeleteInterrupted, AboutPc
    <3> QED
      BY <2>1, <3>1 DEF DeleteInterrupted, Stranded, MarksTyped
  <2>2. CASE RequestFails(r)
    <3>1. request[r].pc \in {"queueFailed", "delete"} => request[r].id \in Id
      BY <1>0, RequestKinds DEF AboutPc
    <3> QED
      BY <2>2, <3>1 DEF RequestFails, Stranded, MarksTyped
  <2>3. CASE QueueAdd(r)
    BY <2>3 DEF QueueAdd, MarksTyped
  <2> QED
    BY <1>3, <2>1, <2>2, <2>3
<1>4. ASSUME NEW r \in Request, ContinueRequest(r),
             ~ (DeleteInterrupted(r) \/ RequestFails(r) \/ QueueAdd(r))
      PROVE  MarksTyped'
  <2>1. ASSUME CreateBegin(r) \/ CreateCommit(r) \/ QueueRead(r) \/ QueueRefused(r)
                 \/ DeleteCancel(r) \/ DeleteAnnounce(r)
        PROVE  MarksTyped'
    BY <1>1, <2>1 DEF CreateBegin, CreateCommit, QueueRead, QueueRefused, DeleteCancel,
       DeleteAnnounce, ghosts
  <2>2. ASSUME Recover(r) \/ QueueMark(r) \/ QueueFailed(r) \/ DeleteCommit(r) \/ Withdraw(r)
        PROVE  MarksTyped'
    BY <1>1, <2>2 DEF Recover, QueueMark, QueueFailed, DeleteCommit, Withdraw, Write, Progress,
       ghosts
  <2> QED
    BY <1>4, <2>1, <2>2 DEF ContinueRequest
<1>5. ASSUME WorkerStep
      PROVE  MarksTyped'
  <2>0. ASSUME NEW job \in Job, NEW waiting, Reject(job, waiting), UNCHANGED faults
        PROVE  MarksTyped'
    BY <2>0 DEF Reject, Stranded, MarksTyped, Job
  <2>1. ASSUME Page \/ Announce \/ Stumble
        PROVE  MarksTyped'
    BY <1>1, <2>1 DEF Page, Announce, Stumble, Progress, ghosts
  <2>3. ASSUME NEW job \in queue, Take(job)
        PROVE  MarksTyped'
    <3>1. job \in Job /\ UNCHANGED faults
      BY <2>3 DEF Typed, JobsTyped, Take
    <3>2. CASE Reject(job, queue \ {job})
      BY <2>0, <3>1, <3>2
    <3>3. CASE ~ Reject(job, queue \ {job})
      BY <1>1, <2>3, <3>3 DEF Take
    <3> QED
      BY <3>2, <3>3
  <2>4. ASSUME Begin \/ Catch
        PROVE  MarksTyped'
    <3>1. worker # IdleWorker /\ UNCHANGED faults
      BY <2>4 DEF Begin, Catch, IdleWorker
    <3>2. worker.job \in Job
      BY <3>1, WorkingTyped
    <3>3. CASE Reject(worker.job, queue)
      BY <2>0, <3>1, <3>2, <3>3
    <3>4. CASE ~ Reject(worker.job, queue)
      BY <1>1, <2>4, <3>4 DEF Begin, Catch, Write, Progress
    <3> QED
      BY <3>3, <3>4
  <2>2. ASSUME StoreDetails \/ Commit
        PROVE  MarksTyped'
    BY <1>1, <2>2 DEF StoreDetails, Details, Commit, Progress, ghosts
  <2> QED
    BY <1>5, <2>1, <2>2, <2>3, <2>4 DEF WorkerStep
<1>6. ASSUME NEW p \in Puuid, Play(p)
      PROVE  MarksTyped'
  BY <1>1, <1>6 DEF Play, ghosts
<1>7. ASSUME NEW a \in Id, Stall(a)
      PROVE  MarksTyped'
  BY <1>7, SyncAssumption DEF Stall, MarksTyped, ghosts
<1>8. ASSUME Crash
      PROVE  MarksTyped'
  <2>1. \A r \in Request : request[r].pc \in {"queueAdd", "queueFailed", "delete"} =>
          request[r].id \in Id
    BY <1>0, RequestKinds DEF AboutPc
  <2>2. worker # IdleWorker => worker.job.id \in Id
    BY WorkingTyped
  <2>3. lost' \subseteq Id
    BY <1>8, <2>1, <2>2 DEF Crash, Stranded, MarksTyped
  <2>4. faults' \in [crashes : 0..MaxCrashes, stalls : 0..MaxStalls] /\ UNCHANGED stalled
    BY <1>8, SyncAssumption DEF Crash, MarksTyped
  <2> QED
    BY <2>3, <2>4 DEF MarksTyped
<1>9. CASE UNCHANGED syncVars
  BY <1>1, <1>9 DEF syncVars, ghosts
<1> QED
  BY <1>2, <1>3, <1>4, <1>5, <1>6, <1>7, <1>8, <1>9 DEF Next, Environment

(***************************************************************************)
(* Rows, jobs and bookkeeping keep their types, cursors included.          *)
(***************************************************************************)
THEOREM SyncTypes == Spec => []TypeOK
<1>1. Init => MarksTyped
  BY SyncAssumption DEF Init, MarksTyped
<1>2. ASSUME Typed, HistInv, MarksTyped
      PROVE  TypeOK
  <2>1. ASSUME NEW a \in Id, Exists(a)
        PROVE  account[a] \in Account
    <3>1. account[a] \in Row(account[a].cursor) /\ account[a].cursor \in Cursor
      BY <1>2, <2>1 DEF Typed, RowsTyped, HistInv, RowsCovered
    <3> QED
      BY <3>1 DEF Row, Account
  <2>2. account \in [Id -> Account \cup {NoAccount}]
    BY <1>2, <2>1 DEF Typed, RowsTyped, Exists
  <2> QED
    BY <1>2, <2>2 DEF Typed, RowsTyped, JobsTyped, HistInv, PlayedTyped, MarksTyped, TypeOK
<1> QED
  BY <1>1, <1>2, InitSynced, SyncedPreserved, InitHist, HistPreserved, MarksPreserved, PTL DEF Spec
=============================================================================
