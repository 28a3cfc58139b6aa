------------------------------- MODULE Users --------------------------------
(***************************************************************************)
(* The handlers of src/src/users/users.service.ts that write: profile,     *)
(* profile image and withdrawal. What a withdrawal does to Riot accounts   *)
(* is in RiotSync, what it does to blocks in Community.                    *)
(***************************************************************************)
EXTENDS AccountRecords

UserRest == <<scope, lastUser, facts, powerQueue, powerWorker, behind>>

\* A request of a user gets past the guard and runs the handler from here.
Admit(r, u, handler) ==
    /\ Arrives(r, handler)
    /\ Authenticated(u)
    /\ Goto(r, [pc |-> handler, user |-> u])
    /\ UNCHANGED <<user, identity, file, lastFile, profile, leftover, UserRest>>

Admitted(r, u) == \E handler \in {"profile", "image", "clear", "withdraw"} : Admit(r, u, handler)

\* updateMyProfile.
UpdateProfile(r) ==
    /\ request[r].pc = "profile"
    /\ user' = [user EXCEPT ![request[r].user].personal = TRUE]
    /\ Leave(r)
    /\ UNCHANGED <<identity, file, lastFile, profile, leftover, UserRest>>

\* updateProfileImage reads the old image and stores the new file.
ImageStore(r) ==
    LET u == request[r].user
    IN  /\ request[r].pc = "image"
        /\ lastFile < scope.files
        /\ lastFile' = lastFile + 1
        /\ file' = file \cup {lastFile + 1}
        /\ Goto(r, [pc |-> "imageWrite", user |-> u, old |-> user[u].image,
                    new |-> lastFile + 1])
        /\ UNCHANGED <<user, identity, profile, leftover, UserRest>>

\* The row takes the new image; the old one is then to be removed. When the
\* update fails, it is the new one.
ImageWrite(r) ==
    LET u == request[r].user
    IN  /\ request[r].pc = "imageWrite"
        /\ \/ /\ user' = [user EXCEPT ![u].image = request[r].new]
              /\ Goto(r, [pc |-> "imageRemove", image |-> request[r].old])
           \/ user' = user /\ Goto(r, [pc |-> "imageRemove", image |-> request[r].new])
        /\ UNCHANGED <<identity, file, lastFile, profile, leftover, UserRest>>

\* safeDeleteProfileImage.
ImageRemove(r) ==
    /\ request[r].pc = "imageRemove"
    /\ file' = file \ {request[r].image}
    /\ Leave(r)
    /\ UNCHANGED <<user, identity, lastFile, profile, leftover, UserRest>>

ClearReadRemoving(r) ==   \* a slip: the file goes before the row
    LET u == request[r].user
    IN  /\ request[r].pc = "clear"
        /\ file' = file \ {user[u].image}
        /\ Goto(r, [pc |-> "clearWrite", user |-> u, image |-> user[u].image])
        /\ UNCHANGED <<user, identity, lastFile, profile, leftover, UserRest>>

\* deleteProfileImage reads the image, if there is one.
ClearRead(r) ==
    LET u == request[r].user
    IN  /\ request[r].pc = "clear"
        /\ IF user[u].image = None THEN Leave(r)
           ELSE Goto(r, [pc |-> "clearWrite", user |-> u, image |-> user[u].image])
        /\ UNCHANGED <<user, identity, file, lastFile, profile, leftover, UserRest>>

ClearWrite(r) ==
    /\ request[r].pc = "clearWrite"
    /\ user' = [user EXCEPT ![request[r].user].image = None]
    /\ Goto(r, [pc |-> "imageRemove", image |-> request[r].image])
    /\ UNCHANGED <<identity, file, lastFile, profile, leftover, UserRest>>

\* withdrawMe reads the user, who may have withdrawn by now.
WithdrawRead(r) ==
    LET u == request[r].user
    IN  /\ request[r].pc = "withdraw"
        /\ IF ~ Active(u) THEN Leave(r)
           ELSE Goto(r, [pc |-> "withdrawWrite", user |-> u, image |-> user[u].image])
        /\ UNCHANGED <<user, identity, file, lastFile, profile, leftover, UserRest>>

\* A login that goes on with an identity of the user it has found: not so when
\* the address belongs to another user by then.
OfItsUser(record) == record.identity # None /\ record.identity.owner = record.user

\* What a handler under way still writes for its user, whatever the status, and
\* what a power job that waits or is about to be queued does.
WritesBack(record) ==
    CASE record.pc = "issue" /\ ~ OfItsUser(record) -> {"hash"}
      [] record.pc = "login"                   -> {"hash"}
      [] record.pc = "profile"                 -> {"personal"}
      [] record.pc \in {"image", "imageWrite"} -> {"image"}
      [] record.pc \in {"tell", "recalculate", "calculate", "upsert"} -> {"profile"}
      [] OTHER                                 -> {}

Erased == [status |-> "WITHDRAWN", email |-> None, refreshTokenHash |-> FALSE,
           image |-> None, personal |-> FALSE]

\* The transaction removes identities and power profile and erases the row; the
\* image read before is removed afterwards.
WithdrawWrite(r) ==
    LET u      == request[r].user
        record == {request[q] : q \in Request \ {r}} \cup {powerWorker}
        his    == {x \in record : x.pc \notin {"idle", "signup", "imageRemove"} /\ x.user = u}
        jobs   == {i \in DOMAIN powerQueue : powerQueue[i].user = u}
    IN  /\ request[r].pc = "withdrawWrite"
        /\ user' = [user EXCEPT ![u] = Erased]
        /\ identity' = [c \in Credential |-> IF identity[c] = u THEN None ELSE identity[c]]
        /\ profile' = [profile EXCEPT ![u] = None]
        /\ leftover' = [leftover EXCEPT ![u] = (UNION {WritesBack(x) : x \in his})
                                \cup {"profile" : i \in jobs}]
        /\ Goto(r, [pc |-> "imageRemove", image |-> request[r].image])
        /\ UNCHANGED <<file, lastFile, UserRest>>
=============================================================================
