--------------------------- MODULE AccountRecords ---------------------------
(***************************************************************************)
(* Users, sign-in identities, profile images and power profiles            *)
(* (src/prisma/schema.prisma), and the requests that work on them. Ids are *)
(* given in creation order. A request slot runs one handler at a time and  *)
(* keeps between its steps what the handler has read.                      *)
(***************************************************************************)
EXTENDS Naturals, Sequences

CONSTANTS Credential,   \* (provider, providerUserId) pairs people sign in with
          ByPassword,   \* the EMAIL credentials
          Email, EmailOf,   \* the address a credential vouches for
          Request,      \* request slots
          None,         \* an absent row, image, owner or profile
          MaxUsers, MaxFiles, MaxChanges,  \* bounds of the model
          Scopes        \* bounds of a behaviour, one of which it is given

ASSUME AccountAssumption ==
    /\ ByPassword \subseteq Credential
    /\ EmailOf \in [Credential -> Email]
    /\ MaxUsers \in Nat /\ MaxFiles \in Nat /\ MaxChanges \in Nat
    /\ \A s \in Scopes : /\ s.users \in 0..MaxUsers /\ s.files \in 0..MaxFiles
                         /\ s.changes \in 0..MaxChanges

VARIABLES
    scope,       \* the handlers that may run, and how many users, images and changes
    user,        \* users
    identity,    \* auth_identities: the owner of a credential
    lastUser,    \* the newest user id
    file,        \* profile images in the file storage
    lastFile,    \* the newest image
    facts,       \* how often snapshots or stats of a user have changed, and when synced
    profile,     \* player_power_profiles
    powerQueue,  \* POWER jobs
    powerWorker, \* the POWER job in progress
    request,     \* the requests in progress
    leftover,    \* history: what may be written for a withdrawn user after all
    behind       \* history: users whose latest facts no power job carries any more

accountVars == <<scope, user, identity, lastUser, file, lastFile, facts, profile,
                 powerQueue, powerWorker, request, leftover, behind>>

User    == 1..MaxUsers
File    == 1..MaxFiles
Version == 0..MaxChanges

Row     == [status : {"ACTIVE", "WITHDRAWN"}, email : Email \cup {None},
            refreshTokenHash : BOOLEAN,     \* set or null
            image : File \cup {None},
            personal : BOOLEAN]             \* nickname and positions are the user's own
ASSUME NoneAssumption == None \notin Row /\ None \notin Nat

Facts   == [version : Version, synced : Version]
\* What the calculation has seen: the version of the facts when it began, and
\* when calculatedAt was taken. A profile of signup has version 'v1'.
Profile == [from : Version, calculatedAt : Version, current : BOOLEAN]
Job     == [user : User, attemptsMade : 0..2]

Known(u)  == user[u] # None
Active(u) == Known(u) /\ user[u].status = "ACTIVE"

Idle == [pc |-> "idle"]
Goto(r, record) == request' = [request EXCEPT ![r] = record]
Leave(r)        == Goto(r, Idle)

\* A request arrives at a free slot.
Arrives(r, handler) ==
    /\ handler \in scope.handlers
    /\ request[r] = Idle

\* jwt.strategy.validate: only an active user gets past the guard.
Authenticated(u) == Active(u)
=============================================================================
