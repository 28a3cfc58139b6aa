------------------------------ MODULE Results ------------------------------
(***************************************************************************)
(* ResultsService and ResultsProcessor: submitting a result, voting on it, *)
(* finalizing its status (inside the vote's request and again by a queued  *)
(* job), and resolving a dispute.                                          *)
(***************************************************************************)
EXTENDS MatchRecords

(* Every transaction that sets the status of a result sets it three times. *)
\* Mutants: the match keeps RESULT_PENDING in a dispute; the result's own name is used.
MatchStatusOfNoDispute(status) == IF status = "CONFIRMED" THEN status ELSE "RESULT_PENDING"
MatchStatusOfSame(status) == status
MatchStatusOf(status) == IF status = "PARTIAL" THEN "RESULT_PENDING" ELSE status

\* Mutant: the updateMany on the stats is forgotten.
MarkStatsNever(status) == stats
MarkStats(status) ==
  [u \in Users |-> IF stats[u] = NoStat THEN NoStat ELSE [stats[u] EXCEPT !.status = status]]

To(kind, accounts) == {kind} \X accounts

-----------------------------------------------------------------------------
(* submitQuickResult: the match is read first, the result later. *)

SubmitReadMatch(p) ==
  /\ Starts(p, "submit")
  /\ \E winner \in Winners, key \in Keys \cup {NoKey} :
       Carry(p, [Idle EXCEPT !.op = "submit", !.pc = "readResult", !.players = Roster,
                             !.seats = [u \in Users |-> player[u].seat],
                             !.winner = winner, !.key = key])
  /\ UNCHANGED <<rows, jobs, outbox>>

(* The stored key is the request's: the answer is the stored result. *)
IsReplay(key) == result.id # 0 /\ result.key # NoKey /\ result.key = key

SubmitRefused(r) ==
  \/ IsReplay(r.key)
  \/ result.id # 0 /\ result.status = "CONFIRMED"
  \/ ~ResultInputReady(r.players, r.seats)

SubmitReadResult(p) ==
  LET r == req[p] IN
  /\ At(p, "submit", "readResult")
  /\ \/ SubmitRefused(r) /\ Leave(p)
     \/ /\ ~SubmitRefused(r)
        /\ Carry(p, [r EXCEPT !.pc = "commit", !.rid = result.id])
  /\ UNCHANGED <<rows, jobs, outbox>>

(* No result was read: create it.  MaxResults bounds the instance. *)
CreateResult(r) ==
  /\ r.rid = 0 /\ result.id = 0 /\ lastId < MaxResults
  /\ lastId' = lastId + 1
  /\ result' = [id |-> lastId + 1, status |-> "PARTIAL", version |-> 1,
                winner |-> r.winner, key |-> r.key, resolved |-> FALSE]

(* Update the result that was read.  An absent key leaves the stored one. *)
OverwriteResult(r) ==
  /\ r.rid # 0 /\ result.id = r.rid /\ result.version < MaxVersion
  /\ result' = [result EXCEPT !.status = "PARTIAL", !.version = @ + 1, !.winner = r.winner,
                              !.key = IF r.key = NoKey THEN @ ELSE r.key]
  /\ UNCHANGED lastId

WriteStats(r) ==
  stats' = [u \in Users |->
    IF u \in r.players THEN [seat |-> r.seats[u], status |-> "PARTIAL"] ELSE stats[u]]

SubmitCommit(p) ==
  LET r == req[p] IN
  /\ At(p, "submit", "commit")
  /\ CreateResult(r) \/ OverwriteResult(r)
  /\ WriteStats(r)
  /\ matchStatus' = "RESULT_PENDING"
  /\ \E requester \in Accounts :
       ThenSend(p, To("RESULT_CONFIRMATION_REQUEST", r.players \ {requester})
                     \cup To("POWER_RECALCULATION", r.players))
  /\ UNCHANGED <<player, candidates, selected, votes, jobs, outbox>>

(***************************************************************************)
(* The transaction fails: another submission created the result first, or  *)
(* the row read was deleted, or the instance is at its bound.              *)
(***************************************************************************)
SubmitFails(p) ==
  LET r == req[p] IN
  /\ At(p, "submit", "commit")
  /\ \/ result.id # r.rid
     \/ r.rid = 0 /\ lastId = MaxResults
     \/ r.rid # 0 /\ result.version = MaxVersion
  /\ Leave(p)
  /\ UNCHANGED <<rows, jobs, outbox>>

-----------------------------------------------------------------------------
(***************************************************************************)
(* confirmResult: any player of the match, joined or not, votes on the     *)
(* version read; the status of the result is not looked at.                *)
(* MaxJobs bounds the instance: no vote begins that could overfill the     *)
(* queue, so that no vote in progress waits for room the code never lacks. *)
(***************************************************************************)
ConfirmReadMatch(p) ==
  /\ Starts(p, "confirm")
  /\ Len(jobs) + Cardinality({q \in Slots : req[q].op = "confirm"}) < MaxJobs
  /\ \E u \in Roster, vote \in Ballots :
       Carry(p, [Idle EXCEPT !.op = "confirm", !.pc = "readResult", !.who = u,
                             !.vote = vote])
  /\ UNCHANGED <<rows, jobs, outbox>>

ConfirmReadResult(p) ==
  /\ At(p, "confirm", "readResult")
  /\ \/ result.id = 0 /\ Leave(p)
     \/ /\ result.id # 0
        /\ Carry(p, [req[p] EXCEPT !.pc = "record", !.rid = result.id,
                                   !.version = result.version])
  /\ UNCHANGED <<rows, jobs, outbox>>

(* The confirmation refers to the result by a foreign key. *)
ConfirmRecord(p) ==
  LET r == req[p] IN
  /\ At(p, "confirm", "record")
  /\ \/ /\ result.id = r.rid
        /\ votes' = [votes EXCEPT ![r.who][r.version] = r.vote]
        /\ Carry(p, [Idle EXCEPT !.op = "confirm", !.pc = "finalizeRead", !.rid = r.rid])
     \/ result.id # r.rid /\ Leave(p) /\ UNCHANGED votes
  /\ UNCHANGED <<matchVars, result, lastId, stats, jobs, outbox>>

-----------------------------------------------------------------------------
(* The RESULT worker takes jobs in order, one at a time. *)
TakeJob(p) ==
  /\ p = Worker /\ req[p] = Idle /\ jobs # <<>>
  /\ jobs' = Tail(jobs)
  /\ Carry(p, [Idle EXCEPT !.op = "finalizeJob", !.pc = "finalizeRead", !.rid = Head(jobs)])
  /\ UNCHANGED <<rows, outbox>>

(* finalizeResultStatus: read the result with its votes, and evaluate. *)
FinalizeRead(p) ==
  LET r == req[p] IN
  /\ r.pc = "finalizeRead"
  /\ \/ result.id # r.rid /\ Leave(p)
     \/ /\ result.id = r.rid
        /\ Carry(p, [r EXCEPT !.pc = "finalizeCommit", !.status = CountedStatus,
                              !.prev = result.status, !.players = JoinedPlayers])
  /\ UNCHANGED <<rows, jobs, outbox>>

\* Mutant: the transition is announced by the worker's finalization only.
TransitionByWorker(r) ==
  IF r.op = "finalizeJob" /\ r.status = "CONFIRMED" /\ r.prev # "CONFIRMED"
    THEN To("RESULT_CONFIRMED", r.players) ELSE {}

(* Who is told of the transition the read saw. *)
Transition(r) ==
  CASE r.status = "CONFIRMED" /\ r.prev # "CONFIRMED" ->
         To("POWER_RECALCULATION", r.players) \cup To("RESULT_CONFIRMED", r.players)
    [] r.status = "DISPUTED" /\ r.prev # "DISPUTED" ->
         To("POWER_RECALCULATION", r.players) \cup To("RESULT_DISPUTED", Admins)
    [] OTHER -> {}

(* The status decided from the read is written, whatever happened since. *)
FinalizeCommit(p) ==
  LET r == req[p] IN
  /\ r.pc = "finalizeCommit" /\ result.id = r.rid
  /\ result' = [result EXCEPT !.status = r.status]
  /\ stats' = MarkStats(r.status)
  /\ matchStatus' = MatchStatusOf(r.status)
  /\ IF r.op = "confirm" THEN Carry(p, [r EXCEPT !.pc = "enqueue"])
                         ELSE ThenSend(p, Transition(r))
  /\ UNCHANGED <<player, candidates, selected, lastId, votes, jobs, outbox>>

FinalizeFails(p) ==
  /\ req[p].pc = "finalizeCommit" /\ result.id # req[p].rid
  /\ Leave(p)
  /\ UNCHANGED <<rows, jobs, outbox>>

\* Mutant: the vote does not queue a second finalization.
EnqueueFinalizeNever(p) ==
  /\ req[p].pc = "enqueue"
  /\ ThenSend(p, Transition(req[p]))
  /\ UNCHANGED <<rows, jobs, outbox>>

(* Only the request of the vote queues another finalization. *)
EnqueueFinalize(p) ==
  LET r == req[p] IN
  /\ r.pc = "enqueue"
  /\ jobs' = Append(jobs, r.rid)
  /\ ThenSend(p, Transition(r))
  /\ UNCHANGED <<rows, outbox>>

-----------------------------------------------------------------------------
(* adminResolveDispute *)

ResolveReadMatch(p) ==
  /\ Starts(p, "resolve")
  /\ \E winner \in Winners :
       Carry(p, [Idle EXCEPT !.op = "resolve", !.pc = "readResult", !.winner = winner,
                             !.players = JoinedPlayers])
  /\ UNCHANGED <<rows, jobs, outbox>>

(* factual: the winner changes, or the MVP or rating (not in the model). *)
ResolveReadResult(p) ==
  /\ At(p, "resolve", "readResult")
  /\ \/ ~(result.id # 0 /\ result.status = "DISPUTED") /\ Leave(p)
     \/ /\ result.id # 0 /\ result.status = "DISPUTED"
        /\ \E factual \in BOOLEAN :
             /\ req[p].winner # result.winner => factual
             /\ Carry(p, [req[p] EXCEPT !.pc = "commit", !.rid = result.id,
                                        !.factual = factual])
  /\ UNCHANGED <<rows, jobs, outbox>>

ResolveCommit(p) ==
  LET r == req[p] IN
  /\ At(p, "resolve", "commit") /\ result.id = r.rid
  /\ r.factual => result.version < MaxVersion
  /\ result' = [result EXCEPT !.status = "CONFIRMED", !.winner = r.winner, !.resolved = TRUE,
                              !.version = IF r.factual THEN @ + 1 ELSE @]
  /\ stats' = MarkStats("CONFIRMED")
  /\ matchStatus' = "CONFIRMED"
  /\ \E requester \in Accounts :
       ThenSend(p, To("POWER_RECALCULATION", r.players)
                     \cup To("RESULT_ADMIN_RESOLVED", r.players \ {requester}))
  /\ UNCHANGED <<player, candidates, selected, lastId, votes, jobs, outbox>>

ResolveFails(p) ==
  LET r == req[p] IN
  /\ At(p, "resolve", "commit")
  /\ result.id # r.rid \/ (r.factual /\ result.version = MaxVersion)
  /\ Leave(p)
  /\ UNCHANGED <<rows, jobs, outbox>>

-----------------------------------------------------------------------------
BeginResultRequest(p) == SubmitReadMatch(p) \/ ConfirmReadMatch(p) \/ ResolveReadMatch(p)

ContinueResultRequest(p) ==
  \/ SubmitReadResult(p) \/ SubmitCommit(p) \/ SubmitFails(p)
  \/ ConfirmReadResult(p) \/ ConfirmRecord(p)
  \/ FinalizeRead(p) \/ FinalizeCommit(p) \/ FinalizeFails(p) \/ EnqueueFinalize(p)
  \/ ResolveReadResult(p) \/ ResolveCommit(p) \/ ResolveFails(p)
  \/ Announce(p)
=============================================================================
