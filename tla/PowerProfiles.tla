---------------------------- MODULE PowerProfiles ---------------------------
(***************************************************************************)
(* Power profiles (src/src/power/power.service.ts, power.processor.ts):    *)
(* recalculation by the worker of the POWER queue and, when a profile is   *)
(* read that looks stale, by the request that reads it. The formulas are   *)
(* reduced to which version of the facts they have seen.                   *)
(***************************************************************************)
EXTENDS AccountRecords

PowerRest == <<scope, user, identity, lastUser, file, lastFile, leftover>>

\* Snapshots of a synchronisation or stats of a result commit (other modules);
\* the handler then tells the POWER queue. A synchronisation needs an account,
\* which a withdrawal deletes; a result is recorded, disputed or corrected for
\* every player of its match, and for one who has withdrawn the recalculation
\* that follows writes a profile again.
FactsChange(r, u, bySync) ==
    /\ Arrives(r, "facts")
    /\ Known(u) /\ (bySync => Active(u))
    /\ facts[u].version < scope.changes
    /\ LET version == facts[u].version + 1
       IN  facts' = [facts EXCEPT ![u] =
             [version |-> version, synced |-> IF bySync THEN version ELSE @.synced]]
    /\ leftover' = IF Active(u) THEN leftover
                   ELSE [leftover EXCEPT ![u] = @ \cup {"profile"}]
    /\ Goto(r, [pc |-> "tell", user |-> u])
    /\ UNCHANGED <<profile, powerQueue, powerWorker, behind, scope, user, identity, lastUser,
                   file, lastFile>>

Tell(r) ==
    /\ request[r].pc = "tell"
    /\ powerQueue' = Append(powerQueue, [user |-> request[r].user, attemptsMade |-> 0])
    /\ Leave(r)
    /\ UNCHANGED <<facts, profile, powerWorker, behind, PowerRest>>

\* shouldRefreshProfile.
ShouldRefresh(u) ==
    \/ ~ profile[u].current
    \/ profile[u].calculatedAt < facts[u].synced

\* getProfile or getPowerMapForUsers finds a stale profile.
ReadProfile(r, u) ==
    /\ Arrives(r, "power")
    /\ Known(u) /\ profile[u] # None /\ ShouldRefresh(u)
    /\ Goto(r, [pc |-> "recalculate", user |-> u, from |-> 0, calculatedAt |-> 0])
    /\ UNCHANGED <<facts, profile, powerQueue, powerWorker, behind, PowerRest>>

\* PowerProcessor.process takes the next job.
TakePower ==
    /\ powerWorker = Idle
    /\ powerQueue # <<>>
    /\ powerWorker' = [pc |-> "recalculate", user |-> Head(powerQueue).user,
                       from |-> 0, calculatedAt |-> 0,
                       attemptsMade |-> Head(powerQueue).attemptsMade]
    /\ powerQueue' = Tail(powerQueue)
    /\ UNCHANGED <<facts, profile, request, behind, PowerRest>>

\* recalculateProfile: one step reads user and snapshots, the next the stats and
\* the clock, the last upserts the row, of a withdrawn user as well.
Seen(c)       == [c EXCEPT !.pc = "calculate", !.from = facts[c.user].version]
Calculated(c) == [c EXCEPT !.pc = "upsert", !.calculatedAt = facts[c.user].version]
Outcome(c)    == [from |-> c.from, calculatedAt |-> c.calculatedAt, current |-> TRUE]

Older(c) == profile[c.user] # None /\ c.from < profile[c.user].from

Upsert(c) ==
    /\ profile' = [profile EXCEPT ![c.user] = Outcome(c)]
    /\ behind' = IF Older(c) THEN behind \cup {c.user} ELSE behind

RequestRecalculates(r) ==
    /\ \/ /\ request[r].pc = "recalculate"
          /\ Goto(r, Seen(request[r])) /\ UNCHANGED <<profile, behind>>
       \/ /\ request[r].pc = "calculate"
          /\ Goto(r, Calculated(request[r])) /\ UNCHANGED <<profile, behind>>
       \/ request[r].pc = "upsert" /\ Upsert(request[r]) /\ Leave(r)
    /\ UNCHANGED <<facts, powerQueue, powerWorker, PowerRest>>

WorkerRecalculates ==
    /\ \/ /\ powerWorker.pc = "recalculate"
          /\ powerWorker' = Seen(powerWorker) /\ UNCHANGED <<profile, behind>>
       \/ /\ powerWorker.pc = "calculate"
          /\ powerWorker' = Calculated(powerWorker) /\ UNCHANGED <<profile, behind>>
       \/ powerWorker.pc = "upsert" /\ Upsert(powerWorker) /\ powerWorker' = Idle
    /\ UNCHANGED <<facts, powerQueue, request, PowerRest>>

MayRetryOnceMore(made) == made <= 3   \* a slip
RetryNever(made)       == FALSE       \* a slip: the job has no attempts

MayRetry(made) == made < 3

\* A query fails: BullMQ runs the job again, three times in all.
WorkerFails ==
    LET u    == powerWorker.user
        made == powerWorker.attemptsMade + 1
    IN  /\ powerWorker # Idle
        /\ powerWorker' = Idle
        /\ IF MayRetry(made)
           THEN /\ powerQueue' = Append(powerQueue, [user |-> u, attemptsMade |-> made])
                /\ UNCHANGED behind
           ELSE /\ behind' = IF made >= 3 THEN behind \cup {u} ELSE behind
                /\ UNCHANGED powerQueue
        /\ UNCHANGED <<facts, profile, request, PowerRest>>
=============================================================================
