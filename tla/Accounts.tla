------------------------------ MODULE Accounts ------------------------------
(***************************************************************************)
(* People and their accounts: Sessions, Users and PowerProfiles share the  *)
(* users table, and a withdrawal meets whatever is under way for the user. *)
(***************************************************************************)
EXTENDS Sessions, Users, PowerProfiles

\* A request ends early: a query fails, or the process restarts.
Abort(r) ==
    /\ request[r] # Idle
    /\ behind' = IF request[r].pc = "tell" THEN behind \cup {request[r].user} ELSE behind
    /\ Leave(r)
    /\ UNCHANGED <<scope, user, identity, lastUser, file, lastFile, facts, profile,
                   powerQueue, powerWorker, leftover>>

Init ==
    /\ scope \in Scopes
    /\ user = [u \in User |-> None]
    /\ identity = [c \in Credential |-> None]
    /\ lastUser = 0
    /\ file = {} /\ lastFile = 0
    /\ facts = [u \in User |-> [version |-> 0, synced |-> 0]]
    /\ profile = [u \in User |-> None]
    /\ powerQueue = <<>> /\ powerWorker = Idle
    /\ request = [r \in Request |-> Idle]
    /\ leftover = [u \in User |-> {}]
    /\ behind = {}

Begin(r) ==
    \/ \E c \in Credential : SignupRead(r, c) \/ LoginRead(r, c) \/ SocialLogin(r, c)
    \/ \E u \in User :
         \/ Refresh(r, u) \/ LogoutBegin(r, u) \/ Admitted(r, u)
         \/ ReadProfile(r, u) \/ \E bySync \in BOOLEAN : FactsChange(r, u, bySync)

Continue(r) ==
    \/ SignupCommit(r) \/ LoginIdentity(r) \/ IssueCommit(r) \/ Logout(r)
    \/ UpdateProfile(r) \/ ImageStore(r) \/ ImageWrite(r) \/ ImageRemove(r)
    \/ ClearRead(r) \/ ClearWrite(r) \/ WithdrawRead(r) \/ WithdrawWrite(r)
    \/ Tell(r) \/ RequestRecalculates(r)

PowerStep == TakePower \/ WorkerRecalculates \/ WorkerFails

Next == (\E r \in Request : Begin(r) \/ Continue(r) \/ Abort(r)) \/ PowerStep

Spec == Init /\ [][Next]_accountVars

\* The worker runs on, and so do handlers that have begun.
FairSpec ==
    /\ Spec
    /\ WF_accountVars(PowerStep)
    /\ \A r \in Request : WF_accountVars(Continue(r))

-----------------------------------------------------------------------------
\* Types of the rows, the queue and the bookkeeping.
TypeOK ==
    /\ user \in [User -> Row \cup {None}]
    /\ identity \in [Credential -> User \cup {None}]
    /\ lastUser \in 0..MaxUsers
    /\ file \subseteq File /\ lastFile \in 0..MaxFiles
    /\ facts \in [User -> Facts]
    /\ profile \in [User -> Profile \cup {None}]
    /\ powerQueue \in Seq(Job)
    /\ leftover \in [User -> SUBSET {"hash", "personal", "image", "profile"}]
    /\ behind \subseteq User

\* All credentials of an address sign in to one active user of that address,
\* though signups check it before their transactions, and a person may come back
\* after a withdrawal.
OneUserPerEmail ==
    \A c, d \in Credential :
        identity[c] # None /\ identity[d] # None /\ EmailOf[c] = EmailOf[d] =>
            /\ identity[c] = identity[d]
            /\ Active(identity[c]) /\ user[identity[c]].email = EmailOf[c]

\* The image a row shows is in the storage: however uploads, removals and
\* withdrawals overlap or fail, only images no row can come back to are removed.
ImageExists == \A u \in User : Known(u) /\ user[u].image # None => user[u].image \in file

\* After a withdrawal nothing of the user is left, and nothing comes back except
\* from handlers that were past their checks at that moment, and a power profile
\* when a result of one of his matches changes later (leftover). A login that had
\* found the identity is not among them: its transaction fails.
WithdrawnErased ==
    \A u \in User : Known(u) /\ ~ Active(u) =>
        /\ \A c \in Credential : identity[c] # u
        /\ user[u].refreshTokenHash => "hash" \in leftover[u]
        /\ user[u].personal         => "personal" \in leftover[u]
        /\ user[u].image # None     => "image" \in leftover[u]
        /\ profile[u] # None        => "profile" \in leftover[u]

\* A changed fact reaches the power profile: the message follows the commit, so
\* the worker that takes it reads the new facts. Excused are users in behind: the
\* message was lost, the job failed three times, or a request that had read older
\* facts wrote after the worker.
ProfileCatchesUp ==
    \A u \in User :
        (Active(u) /\ facts[u].version > 0) ~>
            (~ Active(u) \/ u \in behind
               \/ (profile[u] # None /\ profile[u].from = facts[u].version))
=============================================================================
