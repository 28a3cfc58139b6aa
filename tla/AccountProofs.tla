---------------------------- MODULE AccountProofs ----------------------------
(***************************************************************************)
(* What stays true of users, identities, images and power profiles for any *)
(* number of people, credentials, images and overlapping requests.         *)
(***************************************************************************)
EXTENDS Accounts, SequenceTheorems, TLAPS

-----------------------------------------------------------------------------
(* What the requests and the worker in progress hold.                       *)

ImagePcs   == {"imageRemove", "clearWrite", "withdrawWrite"}
PowerPcs   == {"recalculate", "calculate", "upsert"}
UserPcs    == {"login", "issue", "logout", "profile", "image", "imageWrite", "clear", "clearWrite",
               "withdraw", "withdrawWrite", "tell"} \cup PowerPcs
Calculation == [pc : PowerPcs, user : User, from : Version, calculatedAt : Version]
WorkerRecord == [pc : PowerPcs, user : User, from : Version, calculatedAt : Version,
                 attemptsMade : 0..2]

RequestOK(x) ==
    /\ x.pc \in {"signup", "login"} => x.credential \in Credential
    /\ x.pc = "issue" /\ x.identity # None => x.identity.credential \in Credential
    /\ x.pc \in UserPcs => x.user \in User /\ x.user <= lastUser
    /\ x.pc = "imageWrite" => x.old \in File \cup {None} /\ x.new \in File
    /\ x.pc \in ImagePcs => x.image \in File \cup {None}
    /\ x.pc \in PowerPcs => x \in Calculation

RequestsOK ==
    /\ request = [r \in Request |-> request[r]]
    /\ \A r \in Request : RequestOK(request[r])

(* The users that there are, are those up to lastUser: no row goes away. *)
UsersInOrder == \A u \in User : Known(u) <=> u <= lastUser

WorkerOK == powerWorker = Idle \/ powerWorker \in WorkerRecord

TypeInv ==
    /\ TypeOK
    /\ scope \in Scopes
    /\ UsersInOrder
    /\ WorkerOK
    /\ RequestsOK

LEMMA MovesOK ==
    ASSUME TypeInv, NEW r \in Request, NEW x, Goto(r, x), RequestOK(x)',
           lastUser' \in Nat, lastUser <= lastUser'
    PROVE  RequestsOK'
BY DEF TypeInv, TypeOK, RequestsOK, RequestOK, Goto, User

LEMMA LeavesOK ==
    ASSUME TypeInv, NEW r \in Request, Leave(r), UNCHANGED lastUser
    PROVE  RequestsOK'
BY DEF TypeInv, TypeOK, RequestsOK, RequestOK, Goto, Leave, Idle, UserPcs, ImagePcs, PowerPcs

(* A row that takes another value, of a user there is. *)
LEMMA RowWritten ==
    ASSUME TypeInv, NEW u \in User, u <= lastUser, NEW row \in Row,
           user' = [user EXCEPT ![u] = row], UNCHANGED lastUser
    PROVE  /\ user' \in [User -> Row \cup {None}]
           /\ UsersInOrder'
BY NoneAssumption DEF TypeInv, TypeOK, UsersInOrder, Known

LEMMA KnownRow ==
    ASSUME TypeInv, NEW u \in User, u <= lastUser
    PROVE  user[u] \in Row
BY DEF TypeInv, TypeOK, UsersInOrder, Known

LEMMA SignupTypes ==
    ASSUME TypeInv, NEW r \in Request, SignupCommit(r)
    PROVE  TypeInv'
<1> DEFINE c == request[r].credential
           u == lastUser + 1
           row == [status |-> "ACTIVE", email |-> EmailOf[c], refreshTokenHash |-> FALSE,
                   image |-> None, personal |-> TRUE]
           new == [from |-> 0, calculatedAt |-> 0, current |-> FALSE]
<1>1. c \in Credential /\ lastUser \in Nat /\ request[r].pc = "signup"
    BY DEF SignupCommit, TypeInv, TypeOK, RequestsOK, RequestOK
<1>2. CASE u > scope.users \/ Taken(c)
    <2>1. Leave(r) /\ UNCHANGED <<user, identity, lastUser, profile, SessionRest>>
        BY <1>2 DEF SignupCommit
    <2> QED
        BY <2>1, LeavesOK DEF TypeInv, TypeOK, UsersInOrder, Known, WorkerOK, SessionRest
<1>3. CASE ~ (u > scope.users \/ Taken(c))
    <2>1. PICK n \in User, d \in Credential : n = u /\ d = c
        <3>1. u \in User /\ scope.users \in Nat
            BY <1>1, <1>3, AccountAssumption DEF TypeInv, User
        <3> QED
            BY <1>1, <3>1
    <2> DEFINE x == [pc |-> "issue", user |-> n, identity |-> [credential |-> d, owner |-> n]]
    <2>2. /\ lastUser' = n /\ user' = [user EXCEPT ![n] = row]
          /\ profile' = [profile EXCEPT ![n] = new]
          /\ identity' = [identity EXCEPT ![d] = n]
          /\ Goto(r, x)
          /\ UNCHANGED SessionRest
        BY <1>3, <2>1 DEF SignupCommit, Issue
    <2>3. row \in Row /\ new \in Profile
        BY <1>1, AccountAssumption DEF Row, Profile, Version
    <2> HIDE DEF row, new
    <2>4. RequestsOK'
        <3>1. RequestOK(x)'
            BY <1>1, <2>1, <2>2 DEF RequestOK, UserPcs, ImagePcs, PowerPcs, User
        <3> HIDE DEF x
        <3> QED
            BY <1>1, <2>1, <2>2, <3>1, MovesOK DEF User
    <2>5. UsersInOrder'
        BY <1>1, <2>1, <2>2, <2>3, NoneAssumption DEF TypeInv, TypeOK, UsersInOrder, Known, User
    <2>6. TypeOK'
        BY <1>1, <2>1, <2>2, <2>3, AccountAssumption DEF TypeInv, TypeOK, SessionRest, User
    <2> QED
        BY <2>2, <2>4, <2>5, <2>6 DEF TypeInv, WorkerOK, SessionRest
<1> QED
    BY <1>2, <1>3

(* A step of the handler that has read something, and written nothing yet. *)
LEMMA ReadTypes ==
    ASSUME TypeInv, NEW r \in Request, NEW x, Goto(r, x), RequestOK(x)',
           UNCHANGED <<scope, user, identity, lastUser, file, lastFile, facts, profile,
                       powerQueue, powerWorker, leftover, behind>>
    PROVE  TypeInv'
<1>1. lastUser' \in Nat /\ lastUser <= lastUser'
    BY DEF TypeInv, TypeOK
<1>2. RequestsOK'
    BY <1>1, MovesOK
<1> QED
    BY <1>2 DEF TypeInv, TypeOK, UsersInOrder, Known, WorkerOK

LEMMA ActiveKnown ==
    ASSUME TypeInv, NEW u \in User, Known(u)
    PROVE  u <= lastUser /\ user[u] \in Row
BY DEF TypeInv, TypeOK, UsersInOrder, Known

LEMMA SessionTypes ==
    ASSUME TypeInv, NEW r \in Request,
           \/ \E c \in Credential : SignupRead(r, c) \/ LoginRead(r, c) \/ SocialLogin(r, c)
           \/ \E u \in User : Refresh(r, u) \/ LogoutBegin(r, u)
           \/ LoginIdentity(r) \/ IssueCommit(r) \/ Logout(r)
    PROVE  TypeInv'
<1>1. ASSUME NEW c \in Credential, SignupRead(r, c)
      PROVE  TypeInv'
    BY <1>1, ReadTypes DEF SignupRead, SessionRest, RequestOK, UserPcs, ImagePcs, PowerPcs
<1>2. ASSUME NEW c \in Credential, LoginRead(r, c)
      PROVE  TypeInv'
    <2>1. PICK u \in User : /\ Active(u)
                            /\ Goto(r, [pc |-> "login", user |-> u, credential |-> c])
        BY <1>2 DEF LoginRead
    <2> QED
        BY <1>2, <2>1, ActiveKnown, ReadTypes
           DEF LoginRead, Active, SessionRest, RequestOK, UserPcs, ImagePcs, PowerPcs
<1>3. ASSUME NEW c \in Credential, SocialLogin(r, c)
      PROVE  TypeInv'
    <2>1. identity[c] \in User
        BY <1>3 DEF SocialLogin, TypeInv, TypeOK
    <2> QED
        BY <1>3, <2>1, ActiveKnown, ReadTypes
           DEF SocialLogin, Issue, IdentityRow, Active, SessionRest, RequestOK, UserPcs, ImagePcs, PowerPcs
<1>4. ASSUME NEW u \in User, Refresh(r, u) \/ LogoutBegin(r, u)
      PROVE  TypeInv'
    BY <1>4, ActiveKnown, ReadTypes
       DEF Refresh, LogoutBegin, Authenticated, Issue, Active, SessionRest, RequestOK, UserPcs,
           ImagePcs, PowerPcs
<1>5. CASE LoginIdentity(r)
    <2>1. /\ request[r].user \in User /\ request[r].user <= lastUser
          /\ request[r].credential \in Credential
        BY <1>5 DEF LoginIdentity, TypeInv, RequestsOK, RequestOK, UserPcs
    <2> QED
        BY <1>5, <2>1, ReadTypes
           DEF LoginIdentity, Issue, IdentityRow, Leave, Idle, SessionRest, RequestOK, UserPcs, ImagePcs, PowerPcs
<1>6. CASE IssueCommit(r) \/ Logout(r)
    <2>1. PICK u \in User : u = request[r].user /\ u <= lastUser /\ user[u] \in Row
        BY <1>6, KnownRow DEF IssueCommit, Logout, TypeInv, RequestsOK, RequestOK, UserPcs
    <2>2. PICK row \in Row : user' = [user EXCEPT ![u] = row]
        <3>1. [user[u] EXCEPT !.refreshTokenHash = TRUE] \in Row
              /\ [user[u] EXCEPT !.refreshTokenHash = FALSE] \in Row
            BY <2>1 DEF Row
        <3>2. user = [user EXCEPT ![u] = user[u]]
            BY <2>1 DEF TypeInv, TypeOK
        <3> QED
            BY <1>6, <2>1, <3>1, <3>2 DEF IssueCommit, Logout, TypeInv, TypeOK
    <2>3. UNCHANGED <<identity, lastUser, profile, SessionRest>> /\ Leave(r)
        BY <1>6 DEF IssueCommit, Logout
    <2>4. user' \in [User -> Row \cup {None}] /\ UsersInOrder'
        BY <2>1, <2>2, <2>3, RowWritten
    <2> QED
        BY <2>3, <2>4, LeavesOK DEF TypeInv, TypeOK, WorkerOK, SessionRest
<1> QED
    BY <1>1, <1>2, <1>3, <1>4, <1>5, <1>6

(* A handler writes a user row and goes on. *)
LEMMA WriteTypes ==
    ASSUME TypeInv, NEW r \in Request, NEW x, Goto(r, x), RequestOK(x)',
           NEW u \in User, u <= lastUser, NEW row \in Row, user' = [user EXCEPT ![u] = row],
           UNCHANGED <<scope, identity, lastUser, file, lastFile, facts, profile,
                       powerQueue, powerWorker, leftover, behind>>
    PROVE  TypeInv'
<1>1. lastUser' \in Nat /\ lastUser <= lastUser'
    BY DEF TypeInv, TypeOK
<1>2. RequestsOK'
    BY <1>1, MovesOK
<1>3. user' \in [User -> Row \cup {None}] /\ UsersInOrder'
    BY RowWritten
<1> QED
    BY <1>2, <1>3 DEF TypeInv, TypeOK, WorkerOK

LEMMA WritesBackType ==
    ASSUME NEW x
    PROVE  WritesBack(x) \in SUBSET {"hash", "personal", "image", "profile"}
BY DEF WritesBack

LEMMA IdleOK == RequestOK(Idle)'
BY DEF RequestOK, Idle, UserPcs, ImagePcs, PowerPcs

LEMMA UserTypes ==
    ASSUME TypeInv, NEW r \in Request,
           \/ \E u \in User : Admitted(r, u)
           \/ UpdateProfile(r) \/ ImageStore(r) \/ ImageWrite(r) \/ ImageRemove(r)
           \/ ClearRead(r) \/ ClearWrite(r) \/ WithdrawRead(r) \/ WithdrawWrite(r)
    PROVE  TypeInv'
<1>1. ASSUME NEW u \in User, Admitted(r, u)
      PROVE  TypeInv'
    <2>1. PICK handler \in {"profile", "image", "clear", "withdraw"} : Admit(r, u, handler)
        BY <1>1 DEF Admitted
    <2>2. u <= lastUser
        BY <2>1, ActiveKnown DEF Admit, Authenticated, Active
    <2> QED
        BY <2>1, <2>2, ReadTypes DEF Admit, UserRest, RequestOK, UserPcs, ImagePcs, PowerPcs
<1> DEFINE UserKnown(u) == u \in User /\ u <= lastUser /\ user[u] \in Row
<1>2. request[r].pc \in UserPcs => UserKnown(request[r].user)
    BY KnownRow DEF TypeInv, RequestsOK, RequestOK
<1>3. CASE UpdateProfile(r)
    <2>1. PICK u \in User : u = request[r].user /\ UserKnown(u)
        BY <1>2, <1>3 DEF UpdateProfile, UserPcs
    <2>2. [user[u] EXCEPT !.personal = TRUE] \in Row
        BY <2>1 DEF Row
    <2>3. user' = [user EXCEPT ![u] = [user[u] EXCEPT !.personal = TRUE]]
        BY <1>3, <2>1 DEF UpdateProfile, TypeInv, TypeOK
    <2> QED
        BY <1>3, <2>1, <2>2, <2>3, IdleOK, WriteTypes DEF UpdateProfile, Leave, UserRest
<1>4. CASE ImageStore(r)
    <2>1. PICK u \in User : u = request[r].user /\ UserKnown(u)
        BY <1>2, <1>4 DEF ImageStore, UserPcs
    <2>2. PICK n \in File, old \in File \cup {None} : n = lastFile + 1 /\ old = user[u].image
        <3>1. lastFile + 1 \in File
            BY <1>4, AccountAssumption DEF ImageStore, TypeInv, TypeOK, File
        <3>2. user[u].image \in File \cup {None}
            BY <2>1 DEF Row
        <3> QED
            BY <3>1, <3>2
    <2> DEFINE x == [pc |-> "imageWrite", user |-> u, old |-> old, new |-> n]
    <2>3. /\ lastFile' = n /\ file' = file \cup {n} /\ Goto(r, x)
          /\ UNCHANGED <<user, identity, profile, leftover, UserRest>>
        BY <1>4, <2>1, <2>2 DEF ImageStore
    <2>4. RequestOK(x)'
        BY <2>1, <2>3 DEF RequestOK, Row, UserPcs, ImagePcs, PowerPcs, UserRest
    <2> HIDE DEF x
    <2>5. RequestsOK'
        BY <2>3, <2>4, MovesOK DEF UserRest, TypeInv, TypeOK
    <2>6. TypeOK'
        BY <2>2, <2>3 DEF UserRest, TypeInv, TypeOK, File
    <2> QED
        BY <2>3, <2>5, <2>6 DEF TypeInv, UsersInOrder, Known, WorkerOK, UserRest
<1>5. CASE ImageWrite(r)
    <2>1. PICK u \in User : /\ u = request[r].user /\ UserKnown(u)
                            /\ request[r].new \in File /\ request[r].old \in File \cup {None}
        BY <1>2, <1>5 DEF ImageWrite, UserPcs, TypeInv, RequestsOK, RequestOK
    <2>2. [user[u] EXCEPT !.image = request[r].new] \in Row
        BY <2>1 DEF Row
    <2>3. PICK image \in File \cup {None} : Goto(r, [pc |-> "imageRemove", image |-> image])
        BY <1>5, <2>1 DEF ImageWrite
    <2>4. RequestOK([pc |-> "imageRemove", image |-> image])'
        BY DEF RequestOK, UserPcs, ImagePcs, PowerPcs
    <2>5. UNCHANGED <<identity, file, lastFile, profile, leftover, UserRest>>
        BY <1>5 DEF ImageWrite
    <2>6. CASE user' = user
        BY <2>3, <2>4, <2>5, <2>6, ReadTypes DEF UserRest
    <2>7. CASE user' = [user EXCEPT ![u] = [user[u] EXCEPT !.image = request[r].new]]
        BY <2>1, <2>2, <2>3, <2>4, <2>5, <2>7, WriteTypes DEF UserRest
    <2> QED
        BY <1>5, <2>1, <2>6, <2>7 DEF ImageWrite, TypeInv, TypeOK
<1>6. CASE ImageRemove(r)
    <2>1. RequestsOK'
        BY <1>6, LeavesOK DEF ImageRemove, UserRest
    <2> QED
        BY <1>6, <2>1 DEF ImageRemove, UserRest, TypeInv, TypeOK, UsersInOrder, Known, WorkerOK
<1>7. CASE ClearRead(r) \/ WithdrawRead(r)
    <2>1. PICK u \in User : u = request[r].user /\ UserKnown(u)
        BY <1>2, <1>7 DEF ClearRead, WithdrawRead, UserPcs
    <2>2. user[u].image \in File \cup {None}
        BY <2>1 DEF Row
    <2>3. UNCHANGED <<user, identity, file, lastFile, profile, leftover, UserRest>>
        BY <1>7 DEF ClearRead, WithdrawRead
    <2>4. PICK x : Goto(r, x) /\ \/ x = Idle
                                 \/ x = [pc |-> "clearWrite", user |-> u, image |-> user[u].image]
                                 \/ x = [pc |-> "withdrawWrite", user |-> u, image |-> user[u].image]
        BY <1>7, <2>1 DEF ClearRead, WithdrawRead, Leave
    <2>5. RequestOK(x)'
        BY <2>1, <2>2, <2>3, <2>4, IdleOK DEF RequestOK, UserPcs, ImagePcs, PowerPcs, UserRest
    <2> QED
        BY <2>3, <2>4, <2>5, ReadTypes DEF UserRest
<1>8. CASE ClearWrite(r)
    <2>1. PICK u \in User : /\ u = request[r].user /\ UserKnown(u)
                            /\ request[r].image \in File \cup {None}
        BY <1>2, <1>8 DEF ClearWrite, UserPcs, ImagePcs, TypeInv, RequestsOK, RequestOK
    <2>2. [user[u] EXCEPT !.image = None] \in Row
        BY <2>1 DEF Row
    <2>3. user' = [user EXCEPT ![u] = [user[u] EXCEPT !.image = None]]
        BY <1>8, <2>1 DEF ClearWrite, TypeInv, TypeOK
    <2>4. PICK image \in File \cup {None} : Goto(r, [pc |-> "imageRemove", image |-> image])
        BY <1>8, <2>1 DEF ClearWrite
    <2>5. RequestOK([pc |-> "imageRemove", image |-> image])'
        BY DEF RequestOK, UserPcs, ImagePcs, PowerPcs
    <2> QED
        BY <1>8, <2>1, <2>2, <2>3, <2>4, <2>5, WriteTypes DEF ClearWrite, UserRest
<1>9. CASE WithdrawWrite(r)
    <2>1. PICK u \in User : /\ u = request[r].user /\ UserKnown(u)
                            /\ request[r].image \in File \cup {None}
        BY <1>2, <1>9 DEF WithdrawWrite, UserPcs, ImagePcs, TypeInv, RequestsOK, RequestOK
    <2>2. Erased \in Row
        BY DEF Erased, Row
    <2>3. PICK image \in File \cup {None} : Goto(r, [pc |-> "imageRemove", image |-> image])
        BY <1>9, <2>1 DEF WithdrawWrite
    <2>4. RequestOK([pc |-> "imageRemove", image |-> image])'
        BY DEF RequestOK, UserPcs, ImagePcs, PowerPcs
    <2>5. /\ user' = [user EXCEPT ![u] = Erased]
          /\ UNCHANGED <<file, lastFile, UserRest>>
          /\ profile' = [profile EXCEPT ![u] = None]
          /\ identity' = [c \in Credential |-> IF identity[c] = u THEN None ELSE identity[c]]
        BY <1>9, <2>1 DEF WithdrawWrite
    <2>6. RequestsOK'
        BY <2>3, <2>4, <2>5, MovesOK DEF UserRest, TypeInv, TypeOK
    <2>7. user' \in [User -> Row \cup {None}] /\ UsersInOrder'
        BY <2>1, <2>2, <2>5, RowWritten DEF UserRest
    <2> DEFINE record == {request[q] : q \in Request \ {r}} \cup {powerWorker}
               his    == {x \in record : x.pc \notin {"idle", "signup", "imageRemove"} /\ x.user = u}
               jobs   == {i \in DOMAIN powerQueue : powerQueue[i].user = u}
               writes == (UNION {WritesBack(x) : x \in his}) \cup {"profile" : i \in jobs}
    <2>8. leftover' = [leftover EXCEPT ![u] = writes]
        BY <1>9, <2>1 DEF WithdrawWrite
    <2>9. writes \in SUBSET {"hash", "personal", "image", "profile"}
        <3>1. \A x : WritesBack(x) \subseteq {"hash", "personal", "image", "profile"}
            BY WritesBackType
        <3>2. UNION {WritesBack(x) : x \in his} \subseteq {"hash", "personal", "image", "profile"}
            BY <3>1
        <3>3. {"profile" : i \in jobs} \subseteq {"profile"}
            OBVIOUS
        <3> QED
            BY <3>2, <3>3
    <2> HIDE DEF writes
    <2>10. leftover' \in [User -> SUBSET {"hash", "personal", "image", "profile"}]
        BY <2>8, <2>9 DEF TypeInv, TypeOK
    <2> QED
        BY <2>5, <2>6, <2>7, <2>10 DEF TypeInv, TypeOK, WorkerOK, UserRest
<1> QED
    BY <1>1, <1>3, <1>4, <1>5, <1>6, <1>7, <1>8, <1>9

LEMMA RecalculationTypes ==
    ASSUME NEW c, c \in Calculation \/ c \in WorkerRecord, facts \in [User -> Facts]
    PROVE  /\ c \in Calculation => Seen(c) \in Calculation /\ Calculated(c) \in Calculation
           /\ c \in WorkerRecord => Seen(c) \in WorkerRecord /\ Calculated(c) \in WorkerRecord
           /\ Outcome(c) \in Profile
           /\ Seen(c).user = c.user /\ Calculated(c).user = c.user
           /\ Seen(c).pc = "calculate" /\ Calculated(c).pc = "upsert"
BY DEF Calculation, WorkerRecord, PowerPcs, Seen, Calculated, Outcome, Facts, Profile

(* An outcome is written. *)
LEMMA UpsertTypes ==
    ASSUME TypeInv, NEW c, c.user \in User, Outcome(c) \in Profile, Upsert(c)
    PROVE  profile' \in [User -> Profile \cup {None}] /\ behind' \subseteq User
BY DEF TypeInv, TypeOK, Upsert

LEMMA PowerTypes ==
    ASSUME TypeInv,
           \/ \E r \in Request, u \in User :
                ReadProfile(r, u) \/ \E bySync \in BOOLEAN : FactsChange(r, u, bySync)
           \/ \E r \in Request : Tell(r) \/ RequestRecalculates(r)
           \/ PowerStep
    PROVE  TypeInv'
<1>1. ASSUME NEW r \in Request, NEW u \in User, ReadProfile(r, u)
      PROVE  TypeInv'
    <2> DEFINE x == [pc |-> "recalculate", user |-> u, from |-> 0, calculatedAt |-> 0]
    <2>1. x \in Calculation /\ x.pc = "recalculate" /\ x.user = u
        BY AccountAssumption DEF Calculation, PowerPcs, Version
    <2>2. u <= lastUser /\ Goto(r, x)
        BY <1>1, ActiveKnown DEF ReadProfile
    <2>3. UNCHANGED <<facts, profile, powerQueue, powerWorker, behind, PowerRest>>
        BY <1>1 DEF ReadProfile
    <2> HIDE DEF x
    <2>4. RequestOK(x)'
        BY <2>1, <2>2, <2>3 DEF RequestOK, UserPcs, ImagePcs, PowerPcs, PowerRest
    <2> QED
        BY <2>2, <2>3, <2>4, ReadTypes DEF PowerRest
<1>2. ASSUME NEW r \in Request, NEW u \in User, NEW bySync \in BOOLEAN, FactsChange(r, u, bySync)
      PROVE  TypeInv'
    <2>1. PICK version \in Version : version = facts[u].version + 1
        BY <1>2, AccountAssumption DEF FactsChange, TypeInv, TypeOK, Facts, Version
    <2>2. facts' \in [User -> Facts]
        BY <1>2, <2>1 DEF FactsChange, TypeInv, TypeOK, Facts
    <2>3. u <= lastUser /\ Goto(r, [pc |-> "tell", user |-> u])
          /\ UNCHANGED <<profile, powerQueue, powerWorker, behind, scope, user, identity, lastUser,
                         file, lastFile>>
        BY <1>2, ActiveKnown DEF FactsChange
    <2>4. RequestOK([pc |-> "tell", user |-> u])'
        BY <2>3 DEF RequestOK, UserPcs, ImagePcs, PowerPcs
    <2>5. RequestsOK'
        BY <2>3, <2>4, MovesOK DEF TypeInv, TypeOK
    <2>6. leftover' \in [User -> SUBSET {"hash", "personal", "image", "profile"}]
        BY <1>2 DEF FactsChange, TypeInv, TypeOK
    <2> QED
        BY <2>2, <2>3, <2>5, <2>6 DEF TypeInv, TypeOK, UsersInOrder, Known, WorkerOK
<1>3. ASSUME NEW r \in Request, Tell(r)
      PROVE  TypeInv'
    <2>1. request[r].user \in User
        BY <1>3 DEF Tell, TypeInv, RequestsOK, RequestOK, UserPcs
    <2>2. powerQueue' \in Seq(Job)
        BY <1>3, <2>1, AppendProperties DEF Tell, TypeInv, TypeOK, Job
    <2>3. RequestsOK'
        BY <1>3, LeavesOK DEF Tell, PowerRest
    <2> QED
        BY <1>3, <2>2, <2>3 DEF Tell, TypeInv, TypeOK, UsersInOrder, Known, WorkerOK, PowerRest
<1>4. ASSUME NEW r \in Request, RequestRecalculates(r)
      PROVE  TypeInv'
    <2>1. PICK c \in Calculation : c = request[r] /\ c.user \in User /\ c.user <= lastUser
        BY <1>4 DEF RequestRecalculates, TypeInv, RequestsOK, RequestOK, UserPcs, PowerPcs
    <2>2. PICK x : /\ Goto(r, x)
                   /\ \/ x = Idle
                      \/ x \in Calculation /\ x.pc \in PowerPcs /\ x.user = c.user
        BY <1>4, <2>1, RecalculationTypes
           DEF RequestRecalculates, Leave, PowerPcs, TypeInv, TypeOK
    <2>3. UNCHANGED <<facts, powerQueue, powerWorker, PowerRest>>
        BY <1>4 DEF RequestRecalculates
    <2>4. RequestOK(x)'
        BY <2>1, <2>2, <2>3, IdleOK DEF RequestOK, UserPcs, ImagePcs, PowerPcs, PowerRest
    <2>5. RequestsOK'
        BY <2>2, <2>3, <2>4, MovesOK DEF PowerRest, TypeInv, TypeOK
    <2>6. profile' \in [User -> Profile \cup {None}] /\ behind' \subseteq User
        <3>1. Outcome(c) \in Profile
            BY <2>1, RecalculationTypes DEF TypeInv, TypeOK
        <3>2. CASE UNCHANGED <<profile, behind>>
            BY <3>2 DEF TypeInv, TypeOK
        <3> QED
            BY <1>4, <2>1, <3>1, <3>2, UpsertTypes DEF RequestRecalculates
    <2> QED
        BY <2>3, <2>5, <2>6 DEF TypeInv, TypeOK, UsersInOrder, Known, WorkerOK, PowerRest
<1>5. CASE TakePower
    <2>1. powerQueue # <<>> /\ powerQueue \in Seq(Job)
        BY <1>5 DEF TakePower, TypeInv, TypeOK
    <2>2. Head(powerQueue) \in Job /\ Tail(powerQueue) \in Seq(Job)
        BY <2>1, HeadTailProperties
    <2>3. powerWorker' \in WorkerRecord
        BY <1>5, <2>2, AccountAssumption DEF TakePower, Job, WorkerRecord, PowerPcs, Version
    <2> QED
        BY <1>5, <2>2, <2>3
           DEF TakePower, TypeInv, TypeOK, UsersInOrder, Known, WorkerOK, RequestsOK, RequestOK, PowerRest
<1>6. CASE WorkerRecalculates
    <2>1. PICK c \in WorkerRecord : c = powerWorker /\ c.user \in User
        BY <1>6 DEF WorkerRecalculates, TypeInv, WorkerOK, Idle, WorkerRecord
    <2>2. WorkerOK'
        BY <1>6, <2>1, RecalculationTypes DEF WorkerRecalculates, WorkerOK, TypeInv, TypeOK
    <2>3. profile' \in [User -> Profile \cup {None}] /\ behind' \subseteq User
        <3>1. Outcome(c) \in Profile
            BY <2>1, RecalculationTypes DEF TypeInv, TypeOK
        <3>2. CASE UNCHANGED <<profile, behind>>
            BY <3>2 DEF TypeInv, TypeOK
        <3> QED
            BY <1>6, <2>1, <3>1, <3>2, UpsertTypes DEF WorkerRecalculates
    <2> QED
        BY <1>6, <2>2, <2>3
           DEF WorkerRecalculates, TypeInv, TypeOK, UsersInOrder, Known, RequestsOK, RequestOK, PowerRest
<1>7. CASE WorkerFails
    <2>1. powerWorker \in WorkerRecord
        BY <1>7 DEF WorkerFails, TypeInv, WorkerOK
    <2>2. PICK u \in User, made \in 1..3 : u = powerWorker.user /\ made = powerWorker.attemptsMade + 1
        BY <2>1 DEF WorkerRecord
    <2>3. made < 3 => [user |-> u, attemptsMade |-> made] \in Job
        BY DEF Job
    <2> DEFINE job == [user |-> u, attemptsMade |-> made]
    <2>4. powerQueue' \in Seq(Job) /\ behind' \subseteq User
        <3>1. powerQueue \in Seq(Job) /\ behind \subseteq User
            BY DEF TypeInv, TypeOK
        <3>2. \/ made < 3 /\ powerQueue' = Append(powerQueue, job) /\ behind' = behind
              \/ powerQueue' = powerQueue /\ behind' \in {behind, behind \cup {u}}
            BY <1>7, <2>2 DEF WorkerFails, MayRetry
        <3> HIDE DEF job
        <3>3. made < 3 => Append(powerQueue, job) \in Seq(Job)
            BY <2>3, <3>1, AppendProperties DEF job
        <3> QED
            BY <3>1, <3>2, <3>3
    <2> QED
        BY <1>7, <2>4
           DEF WorkerFails, TypeInv, TypeOK, UsersInOrder, Known, WorkerOK, RequestsOK, RequestOK, PowerRest
<1> QED
    BY <1>1, <1>2, <1>3, <1>4, <1>5, <1>6, <1>7 DEF PowerStep

LEMMA AbortTypes ==
    ASSUME TypeInv, NEW r \in Request, Abort(r)
    PROVE  TypeInv'
<1>1. behind' \subseteq User
    BY DEF Abort, TypeInv, TypeOK, RequestsOK, RequestOK, UserPcs
<1>2. RequestsOK'
    BY LeavesOK DEF Abort
<1> QED
    BY <1>1, <1>2 DEF Abort, TypeInv, TypeOK, UsersInOrder, Known, WorkerOK

(* Every step is of one of these kinds. *)
LEMMA StepKinds ==
    ASSUME Next
    PROVE  \/ \E r \in Request :
                \/ SignupCommit(r)
                \/ \E c \in Credential : SignupRead(r, c) \/ LoginRead(r, c) \/ SocialLogin(r, c)
                \/ \E u \in User : Refresh(r, u) \/ LogoutBegin(r, u)
                \/ LoginIdentity(r) \/ IssueCommit(r) \/ Logout(r)
           \/ \E r \in Request :
                \/ \E u \in User : Admitted(r, u)
                \/ UpdateProfile(r) \/ ImageStore(r) \/ ImageWrite(r) \/ ImageRemove(r)
                \/ ClearRead(r) \/ ClearWrite(r) \/ WithdrawRead(r) \/ WithdrawWrite(r)
           \/ \E r \in Request :
                \/ \E u \in User :
                     ReadProfile(r, u) \/ \E bySync \in BOOLEAN : FactsChange(r, u, bySync)
                \/ Tell(r) \/ RequestRecalculates(r)
           \/ PowerStep
           \/ \E r \in Request : Abort(r)
BY DEF Next, Begin, Continue

LEMMA TypeInit == Init => TypeInv
BY AccountAssumption, EmptySeq
   DEF Init, TypeInv, TypeOK, UsersInOrder, Known, WorkerOK, RequestsOK, RequestOK, Idle, UserPcs,
       ImagePcs, PowerPcs, User, Facts, Version

LEMMA TypeStep ==
    ASSUME TypeInv, [Next]_accountVars
    PROVE  TypeInv'
<1>1. CASE UNCHANGED accountVars
    BY <1>1 DEF accountVars, TypeInv, TypeOK, UsersInOrder, Known, WorkerOK, RequestsOK, RequestOK
<1> QED
    BY <1>1, StepKinds, SignupTypes, SessionTypes, UserTypes, PowerTypes, AbortTypes

LEMMA TypeAlways == Spec => []TypeInv
BY TypeInit, TypeStep, PTL DEF Spec

(* The rows, files, jobs and history of the accounts have their types, and a *)
(* handler holds what the columns it writes can take.                       *)
THEOREM AccountsTypeCorrect == Spec => []TypeOK
<1>1. TypeInv => TypeOK
    BY DEF TypeInv
<1> QED
    BY <1>1, TypeAlways, PTL

-----------------------------------------------------------------------------
(* Identities.                                                              *)

IdentitiesOfActive ==
    \A c \in Credential : identity[c] # None =>
        Active(identity[c]) /\ user[identity[c]].email = EmailOf[c]

EmailsUnique ==
    \A u, v \in User : Active(u) /\ Active(v) /\ user[u].email = user[v].email => u = v

(* users.email is unique, and an identity is of an active user with its address. *)
IdentityInv == IdentitiesOfActive /\ EmailsUnique

(* A step that changes neither who is active nor an address. *)
KeepsPeople ==
    /\ UNCHANGED <<identity, lastUser>>
    /\ \A u \in User : /\ Active(u)' <=> Active(u)
                       /\ Active(u) => user'[u].email = user[u].email

LEMMA RowKeepsPeople ==
    ASSUME TypeInv, NEW u \in User, u <= lastUser, NEW row \in Row,
           row.status = user[u].status, row.email = user[u].email,
           user' = [user EXCEPT ![u] = row], UNCHANGED <<identity, lastUser>>
    PROVE  KeepsPeople
BY NoneAssumption DEF TypeInv, TypeOK, UsersInOrder, KeepsPeople, Active, Known

(* Row writes of the handlers: one user's hash, image or nickname. *)
LEMMA HandlersKeepPeople ==
    ASSUME TypeInv, NEW r \in Request,
           \/ IssueCommit(r) \/ Logout(r)
           \/ UpdateProfile(r) \/ ImageWrite(r) \/ ClearWrite(r)
    PROVE  KeepsPeople
<1>1. PICK u \in User : u = request[r].user /\ u <= lastUser /\ user[u] \in Row
    BY KnownRow DEF IssueCommit, Logout, UpdateProfile, ImageWrite, ClearWrite, TypeInv, RequestsOK,
       RequestOK, UserPcs
<1>2. CASE user' = user
    BY <1>2 DEF IssueCommit, Logout, UpdateProfile, ImageWrite, ClearWrite, UserRest, KeepsPeople,
       Active, Known
<1>3. CASE user' # user
    <2> DEFINE Same(row) == row \in Row /\ row.status = user[u].status /\ row.email = user[u].email
    <2>1. \A v \in BOOLEAN : /\ Same([user[u] EXCEPT !.refreshTokenHash = v])
                             /\ Same([user[u] EXCEPT !.personal = v])
        BY <1>1 DEF Row
    <2>2. \A v \in File \cup {None} : Same([user[u] EXCEPT !.image = v])
        BY <1>1 DEF Row
    <2>3. PICK row : Same(row) /\ user' = [user EXCEPT ![u] = row]
        <3> HIDE DEF Same
        <3>1. CASE IssueCommit(r) \/ Logout(r)
            BY <1>1, <1>3, <2>1, <3>1 DEF IssueCommit, Logout, TypeInv, TypeOK
        <3>2. CASE UpdateProfile(r)
            BY <1>1, <2>1, <3>2 DEF UpdateProfile, TypeInv, TypeOK
        <3>3. CASE ImageWrite(r)
            <4>1. request[r].new \in File
                BY <3>3 DEF ImageWrite, TypeInv, RequestsOK, RequestOK
            <4> QED
                BY <1>1, <1>3, <2>2, <3>3, <4>1 DEF ImageWrite, TypeInv, TypeOK
        <3>4. CASE ClearWrite(r)
            BY <1>1, <2>2, <3>4 DEF ClearWrite, TypeInv, TypeOK
        <3> QED
            BY <3>1, <3>2, <3>3, <3>4
    <2>4. UNCHANGED <<identity, lastUser>>
        BY DEF IssueCommit, Logout, UpdateProfile, ImageWrite, ClearWrite, UserRest
    <2> QED
        BY <1>1, <2>3, <2>4, RowKeepsPeople
<1> QED
    BY <1>2, <1>3

LEMMA OthersKeepPeople ==
    ASSUME TypeInv, [Next]_accountVars,
           \A r \in Request : ~ SignupCommit(r) /\ ~ WithdrawWrite(r)
    PROVE  KeepsPeople
<1>1. CASE UNCHANGED <<user, identity, lastUser>>
    BY <1>1 DEF KeepsPeople, Active, Known
<1>2. CASE \E r \in Request : \/ IssueCommit(r) \/ Logout(r)
                              \/ UpdateProfile(r) \/ ImageWrite(r) \/ ClearWrite(r)
    BY <1>2, HandlersKeepPeople
<1>3. ASSUME NEW r \in Request,
             \/ \E c \in Credential : SignupRead(r, c) \/ LoginRead(r, c) \/ SocialLogin(r, c)
             \/ \E u \in User : Refresh(r, u) \/ LogoutBegin(r, u)
             \/ LoginIdentity(r)
      PROVE  UNCHANGED <<user, identity, lastUser>>
    BY <1>3 DEF SignupRead, LoginRead, SocialLogin, Refresh, LogoutBegin, LoginIdentity
<1>4. ASSUME NEW r \in Request,
             \/ \E u \in User : Admitted(r, u)
             \/ ImageStore(r) \/ ImageRemove(r) \/ ClearRead(r) \/ WithdrawRead(r)
      PROVE  UNCHANGED <<user, identity, lastUser>>
    BY <1>4 DEF Admitted, Admit, ImageStore, ImageRemove, ClearRead, WithdrawRead, UserRest
<1>5. ASSUME \/ \E r \in Request :
                  \/ \E u \in User :
                       ReadProfile(r, u) \/ \E bySync \in BOOLEAN : FactsChange(r, u, bySync)
                  \/ Tell(r) \/ RequestRecalculates(r)
             \/ PowerStep
      PROVE  UNCHANGED <<user, identity, lastUser>>
    BY <1>5 DEF ReadProfile, FactsChange, Tell, RequestRecalculates, PowerStep, TakePower,
       WorkerRecalculates, WorkerFails, PowerRest
<1>6. ASSUME NEW r \in Request, Abort(r)
      PROVE  UNCHANGED <<user, identity, lastUser>>
    BY <1>6 DEF Abort
<1>7. CASE UNCHANGED accountVars
    BY <1>1, <1>7 DEF accountVars
<1> QED
    BY <1>1, <1>2, <1>3, <1>4, <1>5, <1>6, <1>7, StepKinds

LEMMA SignupPeople ==
    ASSUME TypeInv, NEW r \in Request, SignupCommit(r)
    PROVE  \/ KeepsPeople
           \/ \E c \in Credential, u \in User :
                /\ u = lastUser + 1 /\ ~ Known(u) /\ ~ Taken(c)
                /\ Active(u)' /\ user'[u].email = EmailOf[c]
                /\ \A v \in User \ {u} : user'[v] = user[v]
                /\ identity' = [identity EXCEPT ![c] = u]
<1>1. request[r].credential \in Credential /\ lastUser \in Nat
    BY DEF SignupCommit, TypeInv, TypeOK, RequestsOK, RequestOK
<1>2. CASE lastUser + 1 > scope.users \/ Taken(request[r].credential)
    BY <1>2 DEF SignupCommit, KeepsPeople, Active, Known
<1>3. CASE ~ (lastUser + 1 > scope.users \/ Taken(request[r].credential))
    <2>1. PICK u \in User, c \in Credential : u = lastUser + 1 /\ c = request[r].credential
        <3>1. lastUser + 1 \in User
            BY <1>1, <1>3, AccountAssumption DEF TypeInv, User
        <3> QED
            BY <1>1, <3>1
    <2> DEFINE row == [status |-> "ACTIVE", email |-> EmailOf[c], refreshTokenHash |-> FALSE,
                       image |-> None, personal |-> TRUE]
    <2>2. user' = [user EXCEPT ![u] = row] /\ identity' = [identity EXCEPT ![c] = u]
        BY <1>3, <2>1 DEF SignupCommit
    <2>3. row \in Row /\ row.status = "ACTIVE" /\ row.email = EmailOf[c]
        BY AccountAssumption DEF Row
    <2> HIDE DEF row
    <2>4. ~ Known(u)
        BY <1>1, <2>1 DEF TypeInv, UsersInOrder
    <2> QED
        BY <1>3, <2>1, <2>2, <2>3, <2>4, NoneAssumption DEF TypeInv, TypeOK, Active, Known
<1> QED
    BY <1>2, <1>3

LEMMA WithdrawPeople ==
    ASSUME TypeInv, NEW r \in Request, WithdrawWrite(r)
    PROVE  \E u \in User :
              /\ ~ Active(u)'
              /\ \A v \in User \ {u} : user'[v] = user[v]
              /\ identity' = [c \in Credential |-> IF identity[c] = u THEN None ELSE identity[c]]
<1>1. PICK u \in User : u = request[r].user
    BY DEF WithdrawWrite, TypeInv, RequestsOK, RequestOK, UserPcs
<1>2. /\ user' = [user EXCEPT ![u] = Erased]
      /\ identity' = [c \in Credential |-> IF identity[c] = u THEN None ELSE identity[c]]
    BY <1>1 DEF WithdrawWrite
<1> QED
    BY <1>1, <1>2 DEF TypeInv, TypeOK, Active, Erased

LEMMA IdentityStep ==
    ASSUME TypeInv, TypeInv', IdentityInv, [Next]_accountVars
    PROVE  IdentityInv'
<1>1. CASE KeepsPeople
    <2>1. \A c \in Credential : identity[c] # None => identity[c] \in User
        BY DEF TypeInv, TypeOK
    <2> QED
        BY <1>1, <2>1 DEF KeepsPeople, IdentityInv, IdentitiesOfActive, EmailsUnique, Active
<1>2. ASSUME NEW r \in Request, SignupCommit(r)
      PROVE  IdentityInv'
    <2>1. CASE KeepsPeople
        BY <1>1, <2>1
    <2>2. ASSUME NEW c \in Credential, NEW u \in User, ~ Known(u), ~ Taken(c),
                 Active(u)', user'[u].email = EmailOf[c],
                 \A v \in User \ {u} : user'[v] = user[v],
                 identity' = [identity EXCEPT ![c] = u]
          PROVE  IdentityInv'
        <3>1. \A d \in Credential : identity[d] # None => identity[d] \in User \ {u}
            BY <2>2 DEF TypeInv, TypeOK, IdentityInv, IdentitiesOfActive, Active
        <3>2. IdentitiesOfActive'
            BY <2>2, <3>1 DEF TypeInv, TypeOK, IdentityInv, IdentitiesOfActive, Active, Known
        <3>3. \A v \in User \ {u} : Active(v)' <=> Active(v)
            BY <2>2 DEF Active, Known
        <3>4. \A v \in User \ {u} : Active(v) => user'[v].email # EmailOf[c]
            BY <2>2 DEF Taken, Active
        <3>5. EmailsUnique'
            BY <2>2, <3>3, <3>4 DEF IdentityInv, EmailsUnique
        <3> QED
            BY <3>2, <3>5 DEF IdentityInv
    <2> QED
        BY <1>2, <2>1, <2>2, SignupPeople
<1>3. ASSUME NEW r \in Request, WithdrawWrite(r)
      PROVE  IdentityInv'
    <2>1. PICK u \in User :
              /\ ~ Active(u)'
              /\ \A v \in User \ {u} : user'[v] = user[v]
              /\ identity' = [c \in Credential |-> IF identity[c] = u THEN None ELSE identity[c]]
        BY <1>3, WithdrawPeople
    <2>2. \A c \in Credential : identity'[c] # None =>
            identity'[c] = identity[c] /\ identity[c] \in User \ {u}
        BY <2>1 DEF TypeInv, TypeOK
    <2>3. \A v \in User \ {u} : Active(v)' <=> Active(v)
        BY <2>1 DEF Active, Known
    <2> QED
        BY <2>1, <2>2, <2>3 DEF IdentityInv, IdentitiesOfActive, EmailsUnique
<1> QED
    BY <1>1, <1>2, <1>3, OthersKeepPeople

LEMMA IdentityInit == Init => IdentityInv
BY DEF Init, IdentityInv, IdentitiesOfActive, EmailsUnique, Active, Known

LEMMA IdentityAlways == Spec => []IdentityInv
BY TypeAlways, IdentityInit, IdentityStep, PTL DEF Spec

(* All credentials of an address sign in to one active user of that address:  *)
(* the transactions of signup meet the unique columns, and that of withdrawMe *)
(* gives the address free together with the identities, though every check    *)
(* before them is of an earlier moment.                                     *)
THEOREM OneUserForAnAddress == Spec => []OneUserPerEmail
<1>1. TypeInv /\ IdentityInv => OneUserPerEmail
    BY DEF TypeInv, TypeOK, IdentityInv, IdentitiesOfActive, EmailsUnique, OneUserPerEmail, Active
<1> QED
    BY <1>1, TypeAlways, IdentityAlways, PTL

-----------------------------------------------------------------------------
(* Images.                                                                  *)

(* The image that a handler has read, and that it or a later step removes. *)
Replacing == {"imageWrite", "clearWrite", "withdrawWrite"}
OldOf(x) == IF x.pc = "imageWrite" THEN x.old ELSE IF x.pc \in ImagePcs THEN x.image ELSE None

Shows(u, image) == Known(u) /\ user[u].image = image

RowsShowFiles ==
    \A u \in User : \A image \in File : Shows(u, image) =>
        /\ image \in file /\ image <= lastFile
        /\ \A v \in User : Shows(v, image) => u = v

(* A stored image that no row has got yet. *)
NewIsUnseen(r) ==
    request[r].pc = "imageWrite" =>
        /\ request[r].new \in file /\ request[r].new <= lastFile
        /\ \A u \in User : ~ Shows(u, request[r].new)
        /\ \A q \in Request \ {r} :
              request[q].pc = "imageWrite" => request[q].new # request[r].new

(* An image that is to be removed is at most in the row about to change. *)
OldStaysAway(r) ==
    \A image \in File : OldOf(request[r]) = image =>
        /\ image <= lastFile
        /\ \A u \in User : Shows(u, image) =>
              request[r].pc \in Replacing /\ request[r].user = u
        /\ \A q \in Request : request[q].pc = "imageWrite" => request[q].new # image

(* Images are removed when no row shows them and no handler can bring them back. *)
ImageInv ==
    /\ RowsShowFiles
    /\ \A r \in Request : NewIsUnseen(r) /\ OldStaysAway(r)

(* A step that gives no row an image and no handler one to hold. *)
LEMMA ImagesKept ==
    ASSUME ImageInv, TypeInv, UNCHANGED <<file, lastFile>>,
           \A u \in User, image \in File : Shows(u, image)' => Shows(u, image),
           \A q \in Request : \/ request'[q] = request[q]
                              \/ request'[q].pc \notin Replacing \cup ImagePcs
    PROVE  ImageInv'
<1>1. RowsShowFiles'
    BY DEF ImageInv, RowsShowFiles
<1>2. ASSUME NEW q \in Request, request'[q] # request[q]
      PROVE  request'[q].pc # "imageWrite" /\ OldOf(request'[q]) = None
    BY <1>2 DEF OldOf, Replacing, ImagePcs
<1>3. ASSUME NEW r \in Request, request'[r] = request[r], request[r].pc = "imageWrite" => request[r].new \in File
      PROVE  NewIsUnseen(r)'
    BY <1>2, <1>3 DEF ImageInv, NewIsUnseen
<1>4. ASSUME NEW r \in Request, request'[r] = request[r]
      PROVE  OldStaysAway(r)'
    BY <1>2, <1>4 DEF ImageInv, OldStaysAway
<1>5. ASSUME NEW r \in Request, request'[r] # request[r]
      PROVE  NewIsUnseen(r)' /\ OldStaysAway(r)'
    BY <1>2, <1>5, NoneAssumption DEF NewIsUnseen, OldStaysAway, File
<1>6. \A r \in Request : request[r].pc = "imageWrite" => request[r].new \in File
    BY DEF TypeInv, RequestsOK, RequestOK
<1> QED
    BY <1>1, <1>3, <1>4, <1>5, <1>6 DEF ImageInv

(* A handler takes the image of a row down, and removes it then. *)
LEMMA TakenDown ==
    ASSUME ImageInv, TypeInv, NEW r \in Request, request[r].pc \in {"clearWrite", "withdrawWrite"},
           NEW owner, owner = request[r].user,
           UNCHANGED <<file, lastFile>>,
           Goto(r, [pc |-> "imageRemove", image |-> request[r].image]),
           \A image \in File : ~ Shows(owner, image)',
           \A u \in User, image \in File : Shows(u, image)' => Shows(u, image)
    PROVE  ImageInv'
<1>1. /\ \A q \in Request \ {r} : request'[q] = request[q]
      /\ request'[r] = [pc |-> "imageRemove", image |-> request[r].image]
    BY DEF Goto, TypeInv, RequestsOK
<1>2. RowsShowFiles'
    BY DEF ImageInv, RowsShowFiles
<1>3. \A q \in Request : NewIsUnseen(q)'
    BY <1>1 DEF ImageInv, NewIsUnseen, TypeInv, RequestsOK, RequestOK
<1>4. \A q \in Request \ {r} : OldStaysAway(q)'
    BY <1>1 DEF ImageInv, OldStaysAway
<1>5. OldStaysAway(r)'
    <2>1. OldOf(request[r]) = request[r].image /\ OldOf(request'[r]) = request[r].image
        BY <1>1 DEF OldOf, ImagePcs
    <2> QED
        BY <1>1, <2>1 DEF ImageInv, OldStaysAway
<1> QED
    BY <1>2, <1>3, <1>4, <1>5 DEF ImageInv

LEMMA RowImage ==
    ASSUME TypeInv, NEW u \in User, u <= lastUser, NEW row \in Row,
           user' = [user EXCEPT ![u] = row]
    PROVE  /\ \A v \in User \ {u}, image \in File : Shows(v, image)' <=> Shows(v, image)
           /\ \A image \in File : Shows(u, image)' <=> row.image = image
           /\ \A image \in File : Shows(u, image) <=> user[u].image = image
BY NoneAssumption DEF TypeInv, TypeOK, UsersInOrder, Known, Shows

LEMMA ImageSteps ==
    ASSUME ImageInv, TypeInv, NEW r \in Request,
           \/ ImageStore(r) \/ ImageWrite(r) \/ ImageRemove(r)
           \/ ClearRead(r) \/ ClearWrite(r) \/ WithdrawRead(r) \/ WithdrawWrite(r)
    PROVE  ImageInv'
<1>1. request[r].pc \in UserPcs => /\ request[r].user \in User /\ request[r].user <= lastUser
                                   /\ user[request[r].user] \in Row
    BY KnownRow DEF TypeInv, RequestsOK, RequestOK
<1>2. CASE ImageStore(r)
    <2>1. PICK u \in User : u = request[r].user /\ u <= lastUser /\ user[u] \in Row
        BY <1>1, <1>2 DEF ImageStore, UserPcs
    <2>2. PICK n \in File : n = lastFile + 1
        BY <1>2, AccountAssumption DEF ImageStore, TypeInv, TypeOK, File
    <2>3. /\ lastFile' = n /\ file' = file \cup {n} /\ user' = user
          /\ \A q \in Request \ {r} : request'[q] = request[q]
          /\ request'[r] = [pc |-> "imageWrite", user |-> u, old |-> user[u].image, new |-> n]
        BY <1>2, <2>1, <2>2 DEF ImageStore, Goto, TypeInv, RequestsOK
    <2>4. lastFile \in Nat /\ \A v \in User : \A image : Shows(v, image)' <=> Shows(v, image)
        BY <2>3 DEF TypeInv, TypeOK, Shows, Known
    <2>5. RowsShowFiles'
        BY <2>2, <2>3, <2>4 DEF ImageInv, RowsShowFiles, File
    <2>6. \A q \in Request : NewIsUnseen(q)'
        <3>1. NewIsUnseen(r)'
            BY <2>2, <2>3, <2>4 DEF ImageInv, RowsShowFiles, NewIsUnseen, File
        <3>2. ASSUME NEW q \in Request \ {r} PROVE NewIsUnseen(q)'
            BY <2>2, <2>3, <2>4 DEF ImageInv, NewIsUnseen, TypeInv, RequestsOK, RequestOK, File
        <3> QED
            BY <3>1, <3>2
    <2>7. \A q \in Request : OldStaysAway(q)'
        <3>1. OldStaysAway(r)'
            <4>1. OldOf(request'[r]) = user[u].image /\ request'[r].pc = "imageWrite"
                  /\ request'[r].user = u /\ request'[r].new = n
                BY <2>3 DEF OldOf
            <4>2. ASSUME NEW image \in File, user[u].image = image PROVE Shows(u, image)
                BY <2>1, <4>2, NoneAssumption DEF Shows, Known
            <4> QED
                BY <2>2, <2>3, <2>4, <4>1, <4>2
                   DEF ImageInv, RowsShowFiles, NewIsUnseen, OldStaysAway, Replacing, File
        <3>2. ASSUME NEW q \in Request \ {r} PROVE OldStaysAway(q)'
            BY <2>2, <2>3, <2>4 DEF ImageInv, OldStaysAway, File
        <3> QED
            BY <3>1, <3>2
    <2> QED
        BY <2>5, <2>6, <2>7 DEF ImageInv
<1>3. CASE ImageWrite(r)
    <2>1. PICK u \in User, new \in File, old \in File \cup {None} :
            /\ u = request[r].user /\ u <= lastUser /\ user[u] \in Row
            /\ new = request[r].new /\ old = request[r].old /\ OldOf(request[r]) = old
        BY <1>1, <1>3 DEF ImageWrite, UserPcs, OldOf, TypeInv, RequestsOK, RequestOK
    <2>2. request[r].pc = "imageWrite" /\ UNCHANGED <<file, lastFile>>
        BY <1>3 DEF ImageWrite
    <2>3. \A q \in Request \ {r} : request'[q] = request[q]
        BY <1>3 DEF ImageWrite, Goto, TypeInv, RequestsOK
    <2>4. CASE user' = user /\ request'[r] = [pc |-> "imageRemove", image |-> new]
        <3>1. /\ \A v \in User : \A image : Shows(v, image)' <=> Shows(v, image)
              /\ OldOf(request'[r]) = new
            BY <2>4 DEF Shows, Known, OldOf, ImagePcs
        <3>2. RowsShowFiles'
            BY <2>2, <3>1 DEF ImageInv, RowsShowFiles
        <3>3. \A q \in Request : NewIsUnseen(q)'
            BY <2>2, <2>3, <2>4, <3>1 DEF ImageInv, NewIsUnseen
        <3>4. ASSUME NEW q \in Request PROVE OldStaysAway(q)'
            BY <2>1, <2>2, <2>3, <2>4, <3>1 DEF ImageInv, NewIsUnseen, OldStaysAway
        <3> QED
            BY <3>2, <3>3, <3>4 DEF ImageInv
    <2>5. CASE /\ user' = [user EXCEPT ![u] = [user[u] EXCEPT !.image = new]]
               /\ request'[r] = [pc |-> "imageRemove", image |-> old]
        <3>1. PICK row \in Row : row = [user[u] EXCEPT !.image = new] /\ row.image = new
            <4>1. [user[u] EXCEPT !.image = new] \in Row /\ [user[u] EXCEPT !.image = new].image = new
                BY <2>1 DEF Row
            <4> QED
                BY <4>1
        <3>2. /\ \A v \in User \ {u}, image \in File : Shows(v, image)' <=> Shows(v, image)
              /\ \A image \in File : Shows(u, image)' <=> image = new
            <4>1. user' = [user EXCEPT ![u] = row] /\ u <= lastUser
                BY <2>1, <2>5, <3>1
            <4>2. /\ \A v \in User \ {u}, image \in File : Shows(v, image)' <=> Shows(v, image)
                  /\ \A image \in File : Shows(u, image)' <=> row.image = image
                BY <4>1, RowImage
            <4> QED
                BY <3>1, <4>2
        <3>3. OldOf(request'[r]) = old
            BY <2>5 DEF OldOf, ImagePcs
        <3>4. RowsShowFiles'
            BY <2>1, <2>2, <3>2 DEF ImageInv, RowsShowFiles, NewIsUnseen
        <3>5. ASSUME NEW q \in Request PROVE NewIsUnseen(q)'
            BY <2>1, <2>2, <2>3, <2>5, <3>2
               DEF ImageInv, NewIsUnseen, TypeInv, RequestsOK, RequestOK
        <3>6. ASSUME NEW q \in Request \ {r} PROVE OldStaysAway(q)'
            BY <2>1, <2>2, <2>3, <2>5, <3>2 DEF ImageInv, OldStaysAway
        <3>7. OldStaysAway(r)'
            BY <2>1, <2>2, <2>3, <2>5, <3>2, <3>3 DEF ImageInv, OldStaysAway
        <3> QED
            BY <3>4, <3>5, <3>6, <3>7 DEF ImageInv
    <2> QED
        BY <1>3, <2>1, <2>4, <2>5 DEF ImageWrite, Goto, TypeInv, TypeOK, RequestsOK
<1>4. CASE ImageRemove(r)
    <2>1. /\ request[r].image \in File \cup {None} /\ OldOf(request[r]) = request[r].image
          /\ request[r].pc = "imageRemove" /\ file' = file \ {request[r].image}
          /\ UNCHANGED <<user, lastFile>>
          /\ \A q \in Request \ {r} : request'[q] = request[q]
          /\ request'[r] = [pc |-> "idle"]
        BY <1>4 DEF ImageRemove, Leave, Goto, Idle, OldOf, ImagePcs, UserRest, TypeInv, RequestsOK, RequestOK
    <2>2. \A v \in User : \A image : Shows(v, image)' <=> Shows(v, image)
        BY <2>1 DEF Shows, Known
    <2>3. RowsShowFiles'
        BY <2>1, <2>2, NoneAssumption DEF ImageInv, RowsShowFiles, OldStaysAway, Replacing, File
    <2>4. ASSUME NEW q \in Request PROVE NewIsUnseen(q)'
        <3>1. request'[q].pc = "imageWrite" => q # r /\ request[q].new \in File
            BY <2>1 DEF TypeInv, RequestsOK, RequestOK
        <3>2. request'[q].pc = "imageWrite" => request[q].new # request[r].image
            BY <2>1, <3>1, NoneAssumption DEF ImageInv, OldStaysAway, File
        <3> QED
            BY <2>1, <2>2, <3>1, <3>2 DEF ImageInv, NewIsUnseen
    <2>5. ASSUME NEW q \in Request PROVE OldStaysAway(q)'
        BY <2>1, <2>2, NoneAssumption DEF ImageInv, OldStaysAway, OldOf, ImagePcs, File
    <2> QED
        BY <2>3, <2>4, <2>5 DEF ImageInv
<1>5. CASE ClearRead(r) \/ WithdrawRead(r)
    <2>1. PICK u \in User : u = request[r].user /\ u <= lastUser /\ user[u] \in Row
        BY <1>1, <1>5 DEF ClearRead, WithdrawRead, UserPcs
    <2>2. /\ UNCHANGED <<user, file, lastFile>>
          /\ \A q \in Request \ {r} : request'[q] = request[q]
          /\ request'[r] \in {[pc |-> "idle"],
                              [pc |-> "clearWrite", user |-> u, image |-> user[u].image],
                              [pc |-> "withdrawWrite", user |-> u, image |-> user[u].image]}
        BY <1>5, <2>1 DEF ClearRead, WithdrawRead, Leave, Goto, Idle, TypeInv, RequestsOK
    <2>3. \A v \in User : \A image : Shows(v, image)' <=> Shows(v, image)
        BY <2>2 DEF Shows, Known
    <2>4. RowsShowFiles'
        BY <2>2, <2>3 DEF ImageInv, RowsShowFiles
    <2>5. ASSUME NEW q \in Request PROVE NewIsUnseen(q)'
        BY <2>2, <2>3 DEF ImageInv, NewIsUnseen
    <2>6. ASSUME NEW q \in Request \ {r} PROVE OldStaysAway(q)'
        BY <2>2, <2>3 DEF ImageInv, OldStaysAway
    <2>7. OldStaysAway(r)'
        <3>1. ASSUME NEW image \in File, OldOf(request'[r]) = image
              PROVE  Shows(u, image) /\ request'[r].pc \in Replacing /\ request'[r].user = u
            BY <2>1, <2>2, <3>1, NoneAssumption DEF Shows, Known, OldOf, ImagePcs, Replacing, File
        <3> QED
            BY <2>2, <2>3, <3>1 DEF ImageInv, RowsShowFiles, NewIsUnseen, OldStaysAway
    <2> QED
        BY <2>4, <2>5, <2>6, <2>7 DEF ImageInv
<1>6. CASE ClearWrite(r) \/ WithdrawWrite(r)
    <2>1. PICK u \in User : u = request[r].user /\ u <= lastUser /\ user[u] \in Row
        BY <1>1, <1>6 DEF ClearWrite, WithdrawWrite, UserPcs
    <2>2. PICK row \in Row : row.image = None /\ user' = [user EXCEPT ![u] = row]
        <3>1. Erased \in Row /\ Erased.image = None
            BY DEF Erased, Row
        <3>2. [user[u] EXCEPT !.image = None] \in Row /\ [user[u] EXCEPT !.image = None].image = None
            BY <2>1 DEF Row
        <3> QED
            BY <1>6, <2>1, <3>1, <3>2 DEF ClearWrite, WithdrawWrite, TypeInv, TypeOK
    <2>3. /\ \A v \in User \ {u}, image \in File : Shows(v, image)' <=> Shows(v, image)
          /\ \A image \in File : ~ Shows(u, image)'
        <3>1. /\ \A v \in User \ {u}, image \in File : Shows(v, image)' <=> Shows(v, image)
              /\ \A image \in File : Shows(u, image)' <=> row.image = image
            BY <2>1, <2>2, RowImage
        <3> QED
            BY <2>2, <3>1, NoneAssumption DEF File
    <2> QED
        BY <1>6, <2>1, <2>3, TakenDown DEF ClearWrite, WithdrawWrite, UserRest
<1> QED
    BY <1>2, <1>3, <1>4, <1>5, <1>6

(* Handlers that concern no image. *)
NoImagePcs == {"idle", "signup", "login", "issue", "logout", "profile", "image", "clear", "withdraw",
               "tell", "recalculate", "calculate", "upsert"}

LEMMA OtherRequests ==
    ASSUME TypeInv, NEW r \in Request,
           \/ SignupCommit(r)
           \/ \E c \in Credential : SignupRead(r, c) \/ LoginRead(r, c) \/ SocialLogin(r, c)
           \/ \E u \in User : Refresh(r, u) \/ LogoutBegin(r, u)
           \/ LoginIdentity(r) \/ IssueCommit(r) \/ Logout(r)
           \/ \E u \in User : Admitted(r, u)
           \/ UpdateProfile(r)
           \/ \E u \in User :
                ReadProfile(r, u) \/ \E bySync \in BOOLEAN : FactsChange(r, u, bySync)
           \/ Tell(r) \/ RequestRecalculates(r)
           \/ Abort(r)
    PROVE  /\ UNCHANGED <<file, lastFile>>
           /\ \A q \in Request : request'[q] = request[q] \/ request'[q].pc \in NoImagePcs
<1>0. request = [q \in Request |-> request[q]]
    BY DEF TypeInv, RequestsOK
<1>1. /\ UNCHANGED <<file, lastFile>>
      /\ \A q \in Request \ {r} : request'[q] = request[q]
      /\ request'[r].pc \in NoImagePcs
    <2>1. CASE SignupCommit(r)
        BY <1>0, <2>1 DEF Goto, SignupCommit, Issue, Leave, Idle, NoImagePcs, SessionRest
    <2>2. CASE \E c \in Credential : SignupRead(r, c) \/ LoginRead(r, c) \/ SocialLogin(r, c)
        BY <1>0, <2>2 DEF Goto, SignupRead, LoginRead, SocialLogin, Issue, NoImagePcs, SessionRest
    <2>3. CASE \/ \E u \in User : Refresh(r, u) \/ LogoutBegin(r, u)
               \/ LoginIdentity(r) \/ IssueCommit(r) \/ Logout(r)
        BY <1>0, <2>3 DEF Goto, Refresh, LogoutBegin, LoginIdentity, IssueCommit, Logout, Issue, Leave, Idle,
           NoImagePcs, SessionRest
    <2>4. CASE (\E u \in User : Admitted(r, u)) \/ UpdateProfile(r)
        BY <1>0, <2>4 DEF Goto, Admitted, Admit, UpdateProfile, Leave, Idle, NoImagePcs, UserRest
    <2>5. CASE \/ \E u \in User :
                    ReadProfile(r, u) \/ \E bySync \in BOOLEAN : FactsChange(r, u, bySync)
               \/ Tell(r) \/ Abort(r)
        BY <1>0, <2>5 DEF Goto, ReadProfile, FactsChange, Tell, Abort, Leave, Idle, NoImagePcs, PowerRest
    <2>6. CASE RequestRecalculates(r)
        <3>1. request[r] \in Calculation
            BY <2>6 DEF RequestRecalculates, TypeInv, RequestsOK, RequestOK, PowerPcs
        <3>2. Seen(request[r]).pc = "calculate" /\ Calculated(request[r]).pc = "upsert"
            BY <3>1, RecalculationTypes DEF TypeInv, TypeOK
        <3> QED
            BY <1>0, <2>6, <3>2 DEF Goto, RequestRecalculates, Leave, Idle, NoImagePcs, PowerRest
    <2> QED
        BY <2>1, <2>2, <2>3, <2>4, <2>5, <2>6
<1> QED
    BY <1>1

LEMMA OtherRows ==
    ASSUME TypeInv, NEW r \in Request,
           SignupCommit(r) \/ IssueCommit(r) \/ Logout(r) \/ UpdateProfile(r)
    PROVE  \A u \in User, image \in File : Shows(u, image)' => Shows(u, image)
<1>1. CASE user' = user
    BY <1>1 DEF Shows, Known
<1>2. CASE SignupCommit(r) /\ user' # user
    <2>1. lastUser + 1 <= scope.users /\ scope.users \in Nat /\ lastUser \in Nat
        BY <1>2, AccountAssumption DEF SignupCommit, TypeInv, TypeOK
    <2>2. PICK n \in User : n = lastUser + 1
        BY <1>2, <2>1, AccountAssumption DEF TypeInv, User
    <2>3. \A u \in User \ {n} : user'[u] = user[u]
        BY <1>2, <2>2 DEF SignupCommit, TypeInv, TypeOK
    <2>4. user'[n].image = None
        BY <1>2, <2>2 DEF SignupCommit, TypeInv, TypeOK
    <2> QED
        BY <2>3, <2>4, NoneAssumption DEF Shows, Known, File
<1>3. CASE (IssueCommit(r) \/ Logout(r) \/ UpdateProfile(r)) /\ user' # user
    <2>1. PICK n \in User : n = request[r].user /\ n <= lastUser /\ user[n] \in Row
        BY <1>3, KnownRow DEF IssueCommit, Logout, UpdateProfile, TypeInv, RequestsOK, RequestOK, UserPcs
    <2>2. \A u \in User : user'[u] = user[u] \/ u = n
        BY <1>3, <2>1 DEF IssueCommit, Logout, UpdateProfile, TypeInv, TypeOK
    <2>3. user'[n].image = user[n].image
        BY <1>3, <2>1 DEF IssueCommit, Logout, UpdateProfile, TypeInv, TypeOK, Row
    <2>4. Known(n)
        BY <2>1, NoneAssumption DEF Known
    <2> QED
        BY <2>2, <2>3, <2>4 DEF Shows, Known
<1> QED
    BY <1>1, <1>2, <1>3

LEMMA ImageStep ==
    ASSUME TypeInv, ImageInv, [Next]_accountVars
    PROVE  ImageInv'
<1>1. ASSUME UNCHANGED user
      PROVE  \A u \in User, image \in File : Shows(u, image)' => Shows(u, image)
    BY <1>1 DEF Shows, Known
<1>2. ASSUME NEW r \in Request,
             \/ SignupCommit(r)
             \/ \E c \in Credential : SignupRead(r, c) \/ LoginRead(r, c) \/ SocialLogin(r, c)
             \/ \E u \in User : Refresh(r, u) \/ LogoutBegin(r, u)
             \/ LoginIdentity(r) \/ IssueCommit(r) \/ Logout(r)
             \/ \E u \in User : Admitted(r, u)
             \/ UpdateProfile(r)
             \/ \E u \in User :
                  ReadProfile(r, u) \/ \E bySync \in BOOLEAN : FactsChange(r, u, bySync)
             \/ Tell(r) \/ RequestRecalculates(r)
             \/ Abort(r)
      PROVE  ImageInv'
    <2>1. /\ UNCHANGED <<file, lastFile>>
          /\ \A q \in Request : request'[q] = request[q] \/ request'[q].pc \in NoImagePcs
        BY <1>2, OtherRequests
    <2>2. \/ UNCHANGED user
          \/ SignupCommit(r) \/ IssueCommit(r) \/ Logout(r) \/ UpdateProfile(r)
        BY <1>2 DEF SignupRead, LoginRead, SocialLogin, Refresh, LogoutBegin, LoginIdentity,
           Admitted, Admit, ReadProfile, FactsChange, Tell, RequestRecalculates, Abort, PowerRest
    <2>3. \A u \in User, image \in File : Shows(u, image)' => Shows(u, image)
        BY <1>1, <2>2, OtherRows
    <2>4. \A q \in Request : request'[q] = request[q] \/ request'[q].pc \notin Replacing \cup ImagePcs
        BY <2>1 DEF NoImagePcs, Replacing, ImagePcs
    <2> QED
        BY <2>1, <2>3, <2>4, ImagesKept
<1>3. CASE PowerStep \/ UNCHANGED accountVars
    <2>1. UNCHANGED <<user, file, lastFile, request>>
        BY <1>3 DEF PowerStep, TakePower, WorkerRecalculates, WorkerFails, PowerRest, accountVars
    <2> QED
        BY <1>1, <2>1, ImagesKept
<1> QED
    BY <1>2, <1>3, ImageSteps, StepKinds

LEMMA ImageInit == Init => ImageInv
BY NoneAssumption
   DEF Init, ImageInv, RowsShowFiles, NewIsUnseen, OldStaysAway, OldOf, Shows, Known, Idle, ImagePcs, File

(* The image a row shows is in the storage: updateProfileImage,               *)
(* deleteProfileImage and withdrawMe remove only images that no row shows and *)
(* no handler can put back into a row, however they overlap or end early.     *)
THEOREM ShownImagesExist == Spec => []ImageExists
<1>1. TypeInv /\ ImageInv => ImageExists
    BY DEF TypeInv, TypeOK, Row, ImageInv, RowsShowFiles, Shows, ImageExists, Known
<1> QED
    BY <1>1, TypeAlways, ImageInit, ImageStep, PTL DEF Spec

-----------------------------------------------------------------------------
(* Withdrawals.                                                             *)

RowErased(u) ==
    Known(u) /\ ~ Active(u) =>
        /\ user[u].refreshTokenHash => "hash" \in leftover[u]
        /\ user[u].personal         => "personal" \in leftover[u]
        /\ user[u].image # None     => "image" \in leftover[u]
        /\ profile[u] # None        => "profile" \in leftover[u]

(* What a handler under way may still write for a withdrawn user was noted when *)
(* the user withdrew.                                                       *)
Marked(x) == x.pc \in UserPcs /\ ~ Active(x.user) => WritesBack(x) \subseteq leftover[x.user]

JobMarked(i) ==
    ~ Active(powerQueue[i].user) => "profile" \in leftover[powerQueue[i].user]

ErasedInv ==
    /\ \A u \in User : RowErased(u)
    /\ \A r \in Request : Marked(request[r])
    /\ Marked(powerWorker)
    /\ \A i \in DOMAIN powerQueue : JobMarked(i)

LEMMA WritesBackIs ==
    ASSUME NEW x
    PROVE  /\ x.pc = "issue" => WritesBack(x) = IF OfItsUser(x) THEN {} ELSE {"hash"}
           /\ x.pc = "login" => WritesBack(x) = {"hash"}
           /\ x.pc = "profile" => WritesBack(x) = {"personal"}
           /\ x.pc \in {"image", "imageWrite"} => WritesBack(x) = {"image"}
           /\ x.pc \in PowerPcs \cup {"tell"} => WritesBack(x) = {"profile"}
           /\ x.pc \in {"logout", "clear", "clearWrite", "withdraw", "withdrawWrite"} =>
                WritesBack(x) = {}
BY DEF WritesBack, PowerPcs

(* A step of one request that changes neither who is active nor what is noted. *)
LEMMA ErasedMoves ==
    ASSUME TypeInv, TypeInv', ErasedInv, KeepsPeople, NEW r \in Request,
           UNCHANGED <<leftover, powerWorker>>,
           \A q \in Request \ {r} : request'[q] = request[q],
           Marked(request'[r]),
           \A u \in User : RowErased(u)',
           \A i \in DOMAIN powerQueue' : JobMarked(i)'
    PROVE  ErasedInv'
<1>1. \A q \in Request : request[q].pc \in UserPcs => request[q].user \in User
    BY DEF TypeInv, RequestsOK, RequestOK
<1>2. request'[r].pc \in UserPcs => request'[r].user \in User
    BY DEF TypeInv, RequestsOK, RequestOK
<1>3. powerWorker.pc \in UserPcs => powerWorker.user \in User
    BY DEF TypeInv, WorkerOK, WorkerRecord, Idle, UserPcs, PowerPcs
<1>4. \A u \in User : Active(u)' <=> Active(u)
    BY DEF KeepsPeople
<1>5. \A q \in Request \ {r} : Marked(request[q])'
    BY <1>1, <1>4 DEF ErasedInv, Marked
<1>6. Marked(request[r])'
    BY <1>2, <1>4 DEF Marked
<1>7. Marked(powerWorker)'
    BY <1>3, <1>4 DEF ErasedInv, Marked
<1> QED
    BY <1>5, <1>6, <1>7 DEF ErasedInv

LEMMA JobsNamed ==
    ASSUME TypeInv
    PROVE  \A i \in DOMAIN powerQueue : powerQueue[i].user \in User
<1>1. powerQueue \in Seq(Job)
    BY DEF TypeInv, TypeOK
<1>2. \A i \in DOMAIN powerQueue : powerQueue[i] \in Job
    BY <1>1, LenProperties
<1> QED
    BY <1>2 DEF Job

LEMMA JobsKept ==
    ASSUME TypeInv, ErasedInv, KeepsPeople, UNCHANGED <<leftover, powerQueue>>
    PROVE  \A i \in DOMAIN powerQueue' : JobMarked(i)'
<1>1. \A i \in DOMAIN powerQueue : powerQueue[i].user \in User
    BY JobsNamed
<1> QED
    BY <1>1 DEF ErasedInv, JobMarked, KeepsPeople

LEMMA RowsKept ==
    ASSUME ErasedInv, UNCHANGED <<user, profile, leftover>>
    PROVE  \A u \in User : RowErased(u)'
BY DEF ErasedInv, RowErased, Known, Active

(* A handler that has read something, and written nothing yet. *)
LEMMA ErasedReads ==
    ASSUME TypeInv, TypeInv', ErasedInv, NEW r \in Request, NEW x, Goto(r, x), Marked(x),
           UNCHANGED <<user, identity, lastUser, profile, leftover, powerWorker, powerQueue>>
    PROVE  ErasedInv'
<1>1. KeepsPeople
    BY DEF KeepsPeople, Known, Active
<1>2. request'[r] = x /\ \A q \in Request \ {r} : request'[q] = request[q]
    BY DEF Goto, TypeInv, RequestsOK
<1> QED
    BY <1>1, <1>2, ErasedMoves, JobsKept, RowsKept

LEMMA IdleMarked == Marked(Idle)
BY DEF Marked, Idle, UserPcs, PowerPcs

LEMMA ErasedBegins ==
    ASSUME TypeInv, TypeInv', ErasedInv, NEW r \in Request,
           \/ \E c \in Credential : SignupRead(r, c) \/ LoginRead(r, c) \/ SocialLogin(r, c)
           \/ \E u \in User : Refresh(r, u) \/ LogoutBegin(r, u)
           \/ \E u \in User : Admitted(r, u)
           \/ \E u \in User :
                ReadProfile(r, u) \/ \E bySync \in BOOLEAN : FactsChange(r, u, bySync)
           \/ Abort(r)
    PROVE  ErasedInv'
<1>1. ASSUME NEW c \in Credential, SignupRead(r, c)
      PROVE  ErasedInv'
    <2>1. Marked([pc |-> "signup", credential |-> c])
        BY DEF Marked, UserPcs, PowerPcs
    <2> QED
        BY <1>1, <2>1, ErasedReads DEF SignupRead, SessionRest
<1>2. ASSUME NEW c \in Credential, LoginRead(r, c)
      PROVE  ErasedInv'
    <2>1. PICK u \in User : /\ Active(u)
                            /\ Goto(r, [pc |-> "login", user |-> u, credential |-> c])
        BY <1>2 DEF LoginRead
    <2>2. Marked([pc |-> "login", user |-> u, credential |-> c])
        BY <2>1 DEF Marked
    <2> QED
        BY <1>2, <2>1, <2>2, ErasedReads DEF LoginRead, SessionRest
<1>3. ASSUME NEW c \in Credential, SocialLogin(r, c)
      PROVE  ErasedInv'
    <2>1. Marked([pc |-> "issue", user |-> identity[c], identity |-> IdentityRow(c)])
        BY <1>3 DEF SocialLogin, Marked
    <2> QED
        BY <1>3, <2>1, ErasedReads DEF SocialLogin, Issue, SessionRest
<1>4. ASSUME NEW u \in User, Refresh(r, u) \/ LogoutBegin(r, u)
      PROVE  ErasedInv'
    <2>1. Active(u)
        BY <1>4 DEF Refresh, LogoutBegin, Authenticated
    <2>2. /\ Marked([pc |-> "issue", user |-> u, identity |-> None])
          /\ Marked([pc |-> "logout", user |-> u])
        BY <2>1 DEF Marked
    <2> QED
        BY <1>4, <2>2, ErasedReads DEF Refresh, LogoutBegin, Issue, SessionRest
<1>5. ASSUME NEW u \in User, Admitted(r, u)
      PROVE  ErasedInv'
    <2>1. PICK handler : Admit(r, u, handler)
        BY <1>5 DEF Admitted
    <2>2. Marked([pc |-> handler, user |-> u])
        BY <2>1 DEF Admit, Authenticated, Marked
    <2> QED
        BY <2>1, <2>2, ErasedReads DEF Admit, UserRest
<1>6. ASSUME NEW u \in User, ReadProfile(r, u)
      PROVE  ErasedInv'
    <2> DEFINE x == [pc |-> "recalculate", user |-> u, from |-> 0, calculatedAt |-> 0]
    <2>1. ~ Active(u) => "profile" \in leftover[u]
        BY <1>6 DEF ReadProfile, ErasedInv, RowErased
    <2>2. WritesBack(x) = {"profile"}
        BY WritesBackIs DEF PowerPcs
    <2>3. Marked(x)
        BY <2>1, <2>2 DEF Marked
    <2> HIDE DEF x
    <2>4. Goto(r, x)
        BY <1>6 DEF ReadProfile, x
    <2> QED
        BY <1>6, <2>3, <2>4, ErasedReads DEF ReadProfile, PowerRest
<1>7. ASSUME NEW u \in User, NEW bySync \in BOOLEAN, FactsChange(r, u, bySync)
      PROVE  ErasedInv'
    <2> DEFINE x == [pc |-> "tell", user |-> u]
    <2>1. /\ Goto(r, x)
          /\ UNCHANGED <<user, identity, lastUser, profile, powerWorker, powerQueue>>
        BY <1>7 DEF FactsChange
    <2>2. /\ \A v \in User : leftover[v] \subseteq leftover'[v]
          /\ ~ Active(u) => "profile" \in leftover'[u]
        BY <1>7 DEF FactsChange, TypeInv, TypeOK
    <2>3. request'[r] = x /\ \A q \in Request \ {r} : request'[q] = request[q]
        BY <2>1 DEF Goto, TypeInv, RequestsOK
    <2>4. \A v : Active(v)' <=> Active(v)
        BY <2>1 DEF Active, Known
    <2>5. \A v \in User : RowErased(v)'
        BY <2>1, <2>2, <2>4 DEF ErasedInv, RowErased, Known
    <2>6. ASSUME NEW q \in Request, q # r
          PROVE  Marked(request[q])'
        <3>1. Marked(request[q]) /\ (request[q].pc \in UserPcs => request[q].user \in User)
            BY DEF ErasedInv, TypeInv, RequestsOK, RequestOK
        <3> QED
            BY <2>2, <2>3, <2>4, <2>6, <3>1 DEF Marked
    <2>7. Marked(request[r])'
        <3>1. WritesBack(x) = {"profile"} /\ x.user = u
            BY WritesBackIs
        <3> HIDE DEF x
        <3> QED
            BY <2>2, <2>3, <2>4, <3>1 DEF Marked
    <2>8. Marked(powerWorker)'
        <3>1. powerWorker.pc \in UserPcs => powerWorker.user \in User
            BY DEF TypeInv, WorkerOK, WorkerRecord, Idle, UserPcs, PowerPcs
        <3> QED
            BY <2>1, <2>2, <2>4, <3>1 DEF ErasedInv, Marked
    <2>9. \A i \in DOMAIN powerQueue' : JobMarked(i)'
        BY <2>1, <2>2, <2>4, JobsNamed DEF ErasedInv, JobMarked
    <2> QED
        BY <2>5, <2>6, <2>7, <2>8, <2>9 DEF ErasedInv
<1>8. CASE Abort(r)
    BY <1>8, IdleMarked, ErasedReads DEF Abort, Leave
<1> QED
    BY <1>1, <1>2, <1>3, <1>4, <1>5, <1>6, <1>7, <1>8

(* Handlers that go on without writing a user row. *)
LEMMA ErasedGoesOn ==
    ASSUME TypeInv, TypeInv', ErasedInv, NEW r \in Request,
           \/ LoginIdentity(r) \/ ImageStore(r) \/ ImageRemove(r)
           \/ ClearRead(r) \/ WithdrawRead(r)
    PROVE  ErasedInv'
<1>1. Marked(request[r])
    BY DEF ErasedInv
<1>2. CASE LoginIdentity(r)
    <2> DEFINE c == request[r].credential
               x == [pc |-> "issue", user |-> request[r].user, identity |-> IdentityRow(c)]
    <2>1. ~ Active(request[r].user) => "hash" \in leftover[request[r].user]
        BY <1>1, <1>2, WritesBackIs DEF LoginIdentity, Marked, UserPcs
    <2>2. WritesBack(x) \subseteq {"hash"}
        BY WritesBackIs
    <2>3. Marked(x)
        BY <2>1, <2>2 DEF Marked
    <2> QED
        BY <1>2, <2>3, IdleMarked, ErasedReads DEF LoginIdentity, Issue, Leave, SessionRest
<1>3. CASE ImageStore(r)
    <2> DEFINE u == request[r].user
               x == [pc |-> "imageWrite", user |-> u, old |-> user[u].image, new |-> lastFile + 1]
    <2>1. ~ Active(u) => "image" \in leftover[u]
        BY <1>1, <1>3, WritesBackIs DEF ImageStore, Marked, UserPcs
    <2>2. WritesBack(x) = {"image"}
        BY WritesBackIs
    <2>3. Marked(x)
        BY <2>1, <2>2 DEF Marked
    <2> QED
        BY <1>3, <2>3, ErasedReads DEF ImageStore, UserRest
<1>4. CASE ImageRemove(r)
    BY <1>4, IdleMarked, ErasedReads DEF ImageRemove, Leave, UserRest
<1>5. CASE ClearRead(r) \/ WithdrawRead(r)
    <2> DEFINE u == request[r].user
               x(pc) == [pc |-> pc, user |-> u, image |-> user[u].image]
    <2>1. WritesBack(x("clearWrite")) = {} /\ WritesBack(x("withdrawWrite")) = {}
        BY WritesBackIs
    <2>2. Marked(x("clearWrite")) /\ Marked(x("withdrawWrite"))
        BY <2>1 DEF Marked
    <2> QED
        BY <1>5, <2>2, IdleMarked, ErasedReads DEF ClearRead, WithdrawRead, Leave, UserRest
<1> QED
    BY <1>2, <1>3, <1>4, <1>5

(* A handler that writes the row of its user and is done with what it may write. *)
LEMMA ErasedWrites ==
    ASSUME TypeInv, TypeInv', ErasedInv, KeepsPeople, NEW r \in Request, NEW x, Goto(r, x),
           NEW u \in User, Marked(x), RowErased(u)',
           \A v \in User \ {u} : user'[v] = user[v],
           UNCHANGED <<profile, leftover, powerWorker, powerQueue>>
    PROVE  ErasedInv'
<1>1. request'[r] = x /\ \A q \in Request \ {r} : request'[q] = request[q]
    BY DEF Goto, TypeInv, RequestsOK
<1>2. \A v \in User : RowErased(v)'
    BY DEF ErasedInv, RowErased, Known, Active
<1> QED
    BY <1>1, <1>2, ErasedMoves, JobsKept

LEMMA ErasedRowWrites ==
    ASSUME TypeInv, TypeInv', IdentityInv, ErasedInv, NEW r \in Request,
           \/ IssueCommit(r) \/ Logout(r)
           \/ UpdateProfile(r) \/ ImageWrite(r) \/ ClearWrite(r)
    PROVE  ErasedInv'
<1>1. PICK u \in User : u = request[r].user /\ u <= lastUser /\ user[u] \in Row
    BY KnownRow DEF IssueCommit, Logout, UpdateProfile, ImageWrite, ClearWrite, TypeInv, RequestsOK,
       RequestOK, UserPcs
<1>2. KeepsPeople /\ Known(u)
    BY <1>1, HandlersKeepPeople, NoneAssumption DEF Known
<1>3. Active(u)' <=> Active(u)
    BY <1>2 DEF KeepsPeople
<1>4. /\ \A v \in User \ {u} : user'[v] = user[v]
      /\ UNCHANGED <<profile, leftover, powerWorker, powerQueue>>
    BY <1>1 DEF IssueCommit, Logout, UpdateProfile, ImageWrite, ClearWrite, SessionRest, UserRest,
       TypeInv, TypeOK
<1>5. Marked(request[r]) /\ RowErased(u)
    BY DEF ErasedInv
<1>6. CASE Active(u)
    <2>1. RowErased(u)'
        BY <1>3, <1>6 DEF RowErased
    <2>2. \A x : x.pc = "imageRemove" => Marked(x)
        BY DEF Marked, UserPcs, PowerPcs
    <2>3. CASE IssueCommit(r) \/ Logout(r) \/ UpdateProfile(r)
        BY <1>2, <1>4, <2>1, <2>3, IdleMarked, ErasedWrites DEF IssueCommit, Logout, UpdateProfile, Leave
    <2>4. CASE ImageWrite(r) \/ ClearWrite(r)
        <3>1. PICK image : Goto(r, [pc |-> "imageRemove", image |-> image])
            BY <2>4 DEF ImageWrite, ClearWrite
        <3>2. Marked([pc |-> "imageRemove", image |-> image])
            BY <2>2
        <3> QED
            BY <1>2, <1>4, <2>1, <3>1, <3>2, ErasedWrites
    <2> QED
        BY <2>3, <2>4
<1>7. CASE ~ Active(u)
    <2>1. CASE IssueCommit(r)
        <3>1. Present(request[r].identity) => "hash" \in leftover[u]
            <4>1. CASE OfItsUser(request[r])
                <5>1. request[r].identity.credential \in Credential
                    BY <2>1, <4>1 DEF OfItsUser, IssueCommit, TypeInv, RequestsOK, RequestOK
                <5>2. u # None
                    BY NoneAssumption DEF User
                <5> QED
                    BY <1>1, <1>7, <4>1, <5>1, <5>2
                       DEF OfItsUser, Present, IdentityInv, IdentitiesOfActive
            <4>2. CASE ~ OfItsUser(request[r])
                BY <1>1, <1>5, <1>7, <2>1, <4>2, WritesBackIs DEF IssueCommit, Marked, UserPcs
            <4> QED
                BY <4>1, <4>2
        <3>2. RowErased(u)'
            BY <1>1, <1>2, <1>4, <1>5, <1>7, <2>1, <3>1
               DEF IssueCommit, RowErased, TypeInv, TypeOK, Row
        <3> QED
            BY <1>2, <1>4, <2>1, <3>2, IdleMarked, ErasedWrites DEF IssueCommit, Leave
    <2>2. CASE Logout(r)
        <3>1. RowErased(u)'
            BY <1>1, <1>2, <1>4, <1>5, <1>7, <2>2 DEF Logout, RowErased, TypeInv, TypeOK, Row
        <3> QED
            BY <1>2, <1>4, <2>2, <3>1, IdleMarked, ErasedWrites DEF Logout, Leave
    <2>3. CASE UpdateProfile(r)
        <3>1. "personal" \in leftover[u]
            BY <1>1, <1>5, <1>7, <2>3, WritesBackIs DEF UpdateProfile, Marked, UserPcs
        <3>2. RowErased(u)'
            BY <1>1, <1>2, <1>4, <1>5, <1>7, <2>3, <3>1
               DEF UpdateProfile, RowErased, TypeInv, TypeOK, Row
        <3> QED
            BY <1>2, <1>4, <2>3, <3>2, IdleMarked, ErasedWrites DEF UpdateProfile, Leave
    <2>4. CASE ImageWrite(r) \/ ClearWrite(r)
        <3>1. ImageWrite(r) => "image" \in leftover[u]
            BY <1>1, <1>5, <1>7, WritesBackIs DEF ImageWrite, Marked, UserPcs
        <3>2. RowErased(u)'
            <4>1. /\ user'[u].refreshTokenHash = user[u].refreshTokenHash
                  /\ user'[u].personal = user[u].personal
                  /\ ImageWrite(r) \/ user'[u].image = None
                BY <1>1, <2>4 DEF ImageWrite, ClearWrite, TypeInv, TypeOK, Row
            <4> QED
                BY <1>2, <1>4, <1>5, <1>7, <3>1, <4>1 DEF RowErased
        <3>3. PICK image : Goto(r, [pc |-> "imageRemove", image |-> image])
            BY <2>4 DEF ImageWrite, ClearWrite
        <3>4. Marked([pc |-> "imageRemove", image |-> image])
            BY DEF Marked, UserPcs, PowerPcs
        <3> QED
            BY <1>2, <1>4, <3>2, <3>3, <3>4, ErasedWrites
    <2> QED
        BY <2>1, <2>2, <2>3, <2>4
<1> QED
    BY <1>6, <1>7

(* A job is appended that a handler or the worker had noted. *)
LEMMA JobAppended ==
    ASSUME TypeInv, ErasedInv, NEW job \in Job,
           ~ Active(job.user) => "profile" \in leftover[job.user],
           powerQueue' = Append(powerQueue, job), UNCHANGED <<user, leftover>>
    PROVE  \A i \in DOMAIN powerQueue' : JobMarked(i)'
<1>1. powerQueue \in Seq(Job)
    BY DEF TypeInv, TypeOK
<1>2. /\ Len(powerQueue) \in Nat /\ DOMAIN powerQueue = 1..Len(powerQueue)
      /\ DOMAIN powerQueue' = 1..(Len(powerQueue) + 1)
      /\ \A i \in 1..Len(powerQueue) : powerQueue'[i] = powerQueue[i]
      /\ powerQueue'[Len(powerQueue) + 1] = job
    BY <1>1, AppendProperties, LenProperties
<1>3. ASSUME NEW i \in DOMAIN powerQueue'
      PROVE  \/ i \in DOMAIN powerQueue /\ powerQueue'[i] = powerQueue[i]
             \/ powerQueue'[i] = job
    BY <1>2, <1>3
<1>4. ASSUME NEW i \in DOMAIN powerQueue'
      PROVE  ~ Active(powerQueue'[i].user) => "profile" \in leftover[powerQueue'[i].user]
    BY <1>3 DEF ErasedInv, JobMarked
<1> QED
    BY <1>4 DEF JobMarked, Active, Known

(* The outcome of a calculation that had been noted. *)
LEMMA ErasedUpsert ==
    ASSUME TypeInv, ErasedInv, NEW u \in User, ~ Active(u) => "profile" \in leftover[u],
           \A v \in User \ {u} : profile'[v] = profile[v], UNCHANGED <<user, leftover>>
    PROVE  \A v \in User : RowErased(v)'
BY DEF ErasedInv, RowErased, Known, Active

LEMMA ErasedRequestPower ==
    ASSUME TypeInv, TypeInv', ErasedInv, NEW r \in Request, Tell(r) \/ RequestRecalculates(r)
    PROVE  ErasedInv'
<1>1. UNCHANGED <<user, identity, lastUser, leftover, powerWorker>> /\ KeepsPeople
    BY DEF Tell, RequestRecalculates, PowerRest, KeepsPeople, Known, Active
<1>2. \A q \in Request \ {r} : request'[q] = request[q]
    BY DEF Tell, RequestRecalculates, Leave, Goto, TypeInv, RequestsOK
<1>3. PICK u \in User : u = request[r].user
    BY DEF Tell, RequestRecalculates, TypeInv, RequestsOK, RequestOK, UserPcs, PowerPcs
<1>4. ~ Active(u) => "profile" \in leftover[u]
    <2>1. request[r].pc \in PowerPcs \cup {"tell"}
        BY DEF Tell, RequestRecalculates, PowerPcs
    <2> QED
        BY <1>3, <2>1, WritesBackIs DEF ErasedInv, Marked, UserPcs
<1>5. CASE Tell(r)
    <2>1. [user |-> u, attemptsMade |-> 0] \in Job
        BY DEF Job
    <2>2. \A i \in DOMAIN powerQueue' : JobMarked(i)'
        <3> DEFINE job == [user |-> u, attemptsMade |-> 0]
        <3>1. job \in Job /\ job.user = u /\ powerQueue' = Append(powerQueue, job)
            BY <1>3, <1>5, <2>1 DEF Tell
        <3> HIDE DEF job
        <3> QED
            BY <1>1, <1>4, <3>1, JobAppended
    <2>3. request'[r] = Idle /\ UNCHANGED profile
        BY <1>5 DEF Tell, Leave, Goto, TypeInv, RequestsOK
    <2> QED
        BY <1>1, <1>2, <2>2, <2>3, IdleMarked, RowsKept, ErasedMoves
<1>6. CASE RequestRecalculates(r)
    <2>1. PICK c \in Calculation : c = request[r] /\ c.user = u
        BY <1>3, <1>6 DEF RequestRecalculates, TypeInv, RequestsOK, RequestOK, PowerPcs
    <2>2. Marked(Seen(c)) /\ Marked(Calculated(c))
        BY <1>4, <2>1, RecalculationTypes, WritesBackIs DEF Marked, PowerPcs, TypeInv, TypeOK
    <2>3. request'[r] \in {Seen(c), Calculated(c), Idle}
        BY <1>6, <2>1 DEF RequestRecalculates, Leave, Goto, TypeInv, RequestsOK
    <2>4. Marked(request'[r])
        BY <2>2, <2>3, IdleMarked
    <2>5. \A v \in User \ {u} : profile'[v] = profile[v]
        BY <1>6, <2>1 DEF RequestRecalculates, Upsert, TypeInv, TypeOK
    <2>6. UNCHANGED powerQueue
        BY <1>6 DEF RequestRecalculates
    <2> QED
        BY <1>1, <1>2, <1>4, <2>4, <2>5, <2>6, ErasedUpsert, JobsKept, ErasedMoves
<1> QED
    BY <1>5, <1>6

(* A step of the worker. *)
LEMMA ErasedWorks ==
    ASSUME TypeInv, ErasedInv, UNCHANGED <<user, request, leftover>>,
           Marked(powerWorker'), \A v \in User : RowErased(v)',
           \A i \in DOMAIN powerQueue' : JobMarked(i)'
    PROVE  ErasedInv'
BY DEF ErasedInv, Marked, Active, Known

LEMMA ErasedWorker ==
    ASSUME TypeInv, TypeInv', ErasedInv, PowerStep
    PROVE  ErasedInv'
<1>1. UNCHANGED <<user, identity, lastUser, request, leftover>> /\ KeepsPeople
    BY DEF PowerStep, TakePower, WorkerRecalculates, WorkerFails, PowerRest, KeepsPeople, Known, Active
<1>2. CASE TakePower
    <2>1. powerQueue \in Seq(Job) /\ powerQueue # <<>>
        BY <1>2 DEF TakePower, TypeInv, TypeOK
    <2>2. /\ Len(powerQueue) \in Nat /\ DOMAIN powerQueue = 1..Len(powerQueue)
          /\ 1 \in DOMAIN powerQueue /\ Head(powerQueue) = powerQueue[1]
        BY <2>1, HeadTailProperties, LenProperties, EmptySeq
    <2>3. /\ DOMAIN Tail(powerQueue) = 1..(Len(powerQueue) - 1)
          /\ \A i \in 1..(Len(powerQueue) - 1) : Tail(powerQueue)[i] = powerQueue[i + 1]
        BY <2>1, HeadTailProperties, LenProperties
    <2>4. Marked(powerWorker')
        <3>1. powerWorker'.pc = "recalculate" /\ powerWorker'.user = powerQueue[1].user
            BY <1>2, <2>2 DEF TakePower
        <3>2. WritesBack(powerWorker') = {"profile"}
            BY <3>1, WritesBackIs DEF PowerPcs
        <3> QED
            BY <2>2, <3>1, <3>2 DEF ErasedInv, JobMarked, Marked
    <2>5. ASSUME NEW i \in DOMAIN powerQueue'
          PROVE  JobMarked(i)'
        <3>1. i + 1 \in DOMAIN powerQueue /\ powerQueue'[i] = powerQueue[i + 1]
            BY <1>2, <2>2, <2>3, <2>5 DEF TakePower
        <3> QED
            BY <1>1, <3>1 DEF ErasedInv, JobMarked, Active, Known
    <2>6. UNCHANGED profile
        BY <1>2 DEF TakePower
    <2> QED
        BY <1>1, <2>4, <2>5, <2>6, RowsKept, ErasedWorks
<1>3. powerWorker # Idle => /\ powerWorker \in WorkerRecord
                            /\ ~ Active(powerWorker.user) => "profile" \in leftover[powerWorker.user]
    <2>1. powerWorker \in WorkerRecord => WritesBack(powerWorker) = {"profile"}
        BY WritesBackIs DEF WorkerRecord
    <2> QED
        BY <2>1 DEF TypeInv, WorkerOK, ErasedInv, Marked, WorkerRecord, UserPcs
<1>4. CASE WorkerRecalculates
    <2>1. powerWorker # Idle
        BY <1>4 DEF WorkerRecalculates, Idle
    <2>2. PICK c \in WorkerRecord : c = powerWorker /\ c.user \in User
        <3>1. powerWorker \in WorkerRecord
            BY <1>3, <2>1
        <3> QED
            BY <3>1 DEF WorkerRecord
    <2>3. PICK u \in User : u = c.user /\ (~ Active(u) => "profile" \in leftover[u])
        BY <1>3, <2>1, <2>2
    <2>4. Marked(Seen(c)) /\ Marked(Calculated(c))
        BY <2>3, RecalculationTypes, WritesBackIs DEF Marked, PowerPcs, TypeInv, TypeOK
    <2>5. powerWorker' \in {Seen(c), Calculated(c), Idle} /\ UNCHANGED powerQueue
        BY <1>4, <2>2 DEF WorkerRecalculates
    <2>6. Marked(powerWorker')
        BY <2>4, <2>5, IdleMarked
    <2>7. \A v \in User \ {u} : profile'[v] = profile[v]
        BY <1>4, <2>2, <2>3 DEF WorkerRecalculates, Upsert, TypeInv, TypeOK
    <2> QED
        BY <1>1, <2>3, <2>5, <2>6, <2>7, ErasedUpsert, JobsKept, ErasedWorks
<1>5. CASE WorkerFails
    <2>1. powerWorker' = Idle /\ UNCHANGED profile /\ powerWorker # Idle
        BY <1>5 DEF WorkerFails
    <2>2. PICK u \in User, made \in 1..3 :
            /\ u = powerWorker.user /\ made = powerWorker.attemptsMade + 1
            /\ ~ Active(u) => "profile" \in leftover[u]
        <3>1. powerWorker \in WorkerRecord
            BY <1>3, <2>1
        <3> DEFINE n == powerWorker.attemptsMade + 1
        <3>2. powerWorker.user \in User /\ n \in 1..3
            BY <3>1 DEF WorkerRecord
        <3> HIDE DEF n
        <3>3. ~ Active(powerWorker.user) => "profile" \in leftover[powerWorker.user]
            BY <1>3, <2>1
        <3> QED
            BY <3>2, <3>3 DEF n
    <2> DEFINE job == [user |-> u, attemptsMade |-> made]
    <2>3. \A i \in DOMAIN powerQueue' : JobMarked(i)'
        <3>1. CASE UNCHANGED powerQueue
            BY <1>1, <3>1, JobsKept
        <3>2. CASE made < 3 /\ powerQueue' = Append(powerQueue, job)
            <4>1. job \in Job /\ job.user = u
                BY <3>2 DEF Job
            <4> HIDE DEF job
            <4> QED
                BY <1>1, <2>2, <3>2, <4>1, JobAppended
        <3> QED
            BY <1>5, <2>2, <3>1, <3>2 DEF WorkerFails, MayRetry
    <2> QED
        BY <1>1, <2>1, <2>3, IdleMarked, RowsKept, ErasedWorks
<1> QED
    BY <1>2, <1>4, <1>5 DEF PowerStep

LEMMA ErasedSignup ==
    ASSUME TypeInv, TypeInv', ErasedInv, NEW r \in Request, SignupCommit(r)
    PROVE  ErasedInv'
<1>1. lastUser \in Nat
    BY DEF TypeInv, TypeOK
<1>2. CASE lastUser + 1 > scope.users \/ Taken(request[r].credential)
    BY <1>2, IdleMarked, ErasedReads DEF SignupCommit, Leave, SessionRest
<1>3. CASE ~ (lastUser + 1 > scope.users \/ Taken(request[r].credential))
    <2>1. PICK n \in User : n = lastUser + 1
        <3>1. lastUser + 1 \in User
            BY <1>1, <1>3, AccountAssumption DEF TypeInv, User
        <3> QED
            BY <3>1
    <2>2. /\ Active(n)'
          /\ \A v \in User \ {n} : user'[v] = user[v] /\ profile'[v] = profile[v]
          /\ UNCHANGED <<leftover, powerWorker, powerQueue>>
          /\ request'[r].pc = "issue" /\ request'[r].user = n
          /\ \A q \in Request \ {r} : request'[q] = request[q]
        <3> DEFINE row == [status |-> "ACTIVE", email |-> EmailOf[request[r].credential],
                           refreshTokenHash |-> FALSE, image |-> None, personal |-> TRUE]
        <3>1. user' = [user EXCEPT ![n] = row] /\ row \in Row /\ row.status = "ACTIVE"
            BY <1>3, <2>1, AccountAssumption DEF SignupCommit, Row, TypeInv, RequestsOK, RequestOK
        <3> HIDE DEF row
        <3> QED
            BY <1>3, <2>1, <3>1, NoneAssumption
               DEF SignupCommit, Issue, Goto, SessionRest, Active, Known, TypeInv, TypeOK, RequestsOK
    <2>3. ~ Known(n)
        BY <1>1, <2>1 DEF TypeInv, UsersInOrder
    <2>4. \A v \in User \ {n} : (Known(v)' <=> Known(v)) /\ (Active(v)' <=> Active(v))
        BY <2>2 DEF Active, Known
    <2>5. ASSUME NEW v \in User PROVE RowErased(v)'
        BY <2>2, <2>4 DEF ErasedInv, RowErased
    <2>6. ASSUME NEW q \in Request PROVE Marked(request[q])'
        <3>1. CASE q = r
            BY <2>2, <3>1 DEF Marked
        <3>2. CASE q # r
            <4>1. request[q].pc \in UserPcs => request[q].user \in User \ {n}
                BY <1>1, <2>1 DEF TypeInv, RequestsOK, RequestOK
            <4> QED
                BY <2>2, <2>4, <3>2, <4>1 DEF ErasedInv, Marked
        <3> QED
            BY <3>1, <3>2
    <2>7. Marked(powerWorker)'
        <3>1. powerWorker.pc \in UserPcs => powerWorker.user \in User
            BY DEF TypeInv, WorkerOK, WorkerRecord, Idle, UserPcs, PowerPcs
        <3> QED
            BY <2>2, <2>4, <3>1 DEF ErasedInv, Marked
    <2>8. ASSUME NEW i \in DOMAIN powerQueue' PROVE JobMarked(i)'
        BY <2>2, <2>4, JobsNamed DEF ErasedInv, JobMarked
    <2> QED
        BY <2>5, <2>6, <2>7, <2>8 DEF ErasedInv
<1> QED
    BY <1>2, <1>3

LEMMA ErasedWithdraw ==
    ASSUME TypeInv, TypeInv', ErasedInv, NEW r \in Request, WithdrawWrite(r)
    PROVE  ErasedInv'
<1>1. PICK u \in User : u = request[r].user
    BY DEF WithdrawWrite, TypeInv, RequestsOK, RequestOK, UserPcs
<1> DEFINE record == {request[q] : q \in Request \ {r}} \cup {powerWorker}
           his    == {x \in record : x.pc \notin {"idle", "signup", "imageRemove"} /\ x.user = u}
           jobs   == {i \in DOMAIN powerQueue : powerQueue[i].user = u}
           writes == (UNION {WritesBack(x) : x \in his}) \cup {"profile" : i \in jobs}
<1>2. /\ user' = [user EXCEPT ![u] = Erased] /\ profile' = [profile EXCEPT ![u] = None]
      /\ leftover' = [leftover EXCEPT ![u] = writes]
      /\ UNCHANGED <<powerWorker, powerQueue>>
    BY <1>1 DEF WithdrawWrite, UserRest
<1>3. /\ \A q \in Request \ {r} : request'[q] = request[q]
      /\ request'[r] = [pc |-> "imageRemove", image |-> request[r].image]
    BY DEF WithdrawWrite, Goto, TypeInv, RequestsOK
<1>4. \A x \in record : x.pc \in UserPcs /\ x.user = u => WritesBack(x) \subseteq writes
    BY DEF UserPcs, PowerPcs
<1>5. jobs # {} => "profile" \in writes
    OBVIOUS
<1> HIDE DEF writes
<1>6. /\ user'[u] = Erased /\ profile'[u] = None /\ leftover'[u] = writes
      /\ \A v \in User \ {u} :
            user'[v] = user[v] /\ profile'[v] = profile[v] /\ leftover'[v] = leftover[v]
    BY <1>2 DEF TypeInv, TypeOK
<1>7. \A v \in User \ {u} : (Known(v)' <=> Known(v)) /\ (Active(v)' <=> Active(v))
    BY <1>6 DEF Active, Known
<1>8. ASSUME NEW v \in User PROVE RowErased(v)'
    <2>1. CASE v = u
        BY <1>6, <2>1 DEF RowErased, Erased
    <2>2. CASE v # u
        BY <1>6, <1>7, <2>2 DEF ErasedInv, RowErased
    <2> QED
        BY <2>1, <2>2
<1>9. ASSUME NEW x \in record, Marked(x), x.pc \in UserPcs => x.user \in User
      PROVE  x.pc \in UserPcs /\ ~ Active(x.user)' => WritesBack(x) \subseteq leftover'[x.user]
    BY <1>4, <1>6, <1>7, <1>9 DEF Marked
<1>10. ASSUME NEW q \in Request PROVE Marked(request[q])'
    <2>1. CASE q = r
        BY <1>3, <2>1 DEF Marked, UserPcs, PowerPcs
    <2>2. CASE q # r
        <3>1. request[q].pc \in UserPcs => request[q].user \in User
            BY DEF TypeInv, RequestsOK, RequestOK
        <3>2. Marked(request[q]) /\ request[q] \in record
            BY <2>2 DEF ErasedInv
        <3> QED
            BY <1>3, <1>9, <2>2, <3>1, <3>2 DEF Marked
    <2> QED
        BY <2>1, <2>2
<1>11. Marked(powerWorker)'
    <2>1. powerWorker.pc \in UserPcs => powerWorker.user \in User
        BY DEF TypeInv, WorkerOK, WorkerRecord, Idle, UserPcs, PowerPcs
    <2> QED
        BY <1>2, <1>9, <2>1 DEF ErasedInv, Marked
<1>12. ASSUME NEW i \in DOMAIN powerQueue' PROVE JobMarked(i)'
    BY <1>2, <1>5, <1>6, <1>7, JobsNamed DEF ErasedInv, JobMarked
<1> QED
    BY <1>8, <1>10, <1>11, <1>12 DEF ErasedInv

LEMMA ErasedStep ==
    ASSUME TypeInv, TypeInv', IdentityInv, ErasedInv, [Next]_accountVars
    PROVE  ErasedInv'
<1>1. CASE UNCHANGED accountVars
    BY <1>1 DEF accountVars, ErasedInv, RowErased, Marked, JobMarked, Active, Known
<1> QED
    BY <1>1, StepKinds, ErasedSignup, ErasedBegins, ErasedGoesOn, ErasedRowWrites, ErasedWithdraw,
       ErasedRequestPower, ErasedWorker

LEMMA ErasedInit == Init => ErasedInv
BY DEF Init, ErasedInv, RowErased, Marked, JobMarked, Known, Idle, UserPcs, PowerPcs

(* After a withdrawal nothing of the user is left, and nothing comes back except *)
(* from handlers that were past their checks at that moment: a login whose       *)
(* identity went with the user fails as a whole.                              *)
THEOREM WithdrawalErases == Spec => []WithdrawnErased
<1>1. TypeInv /\ IdentityInv /\ ErasedInv => WithdrawnErased
    BY NoneAssumption DEF TypeInv, TypeOK, IdentityInv, IdentitiesOfActive, ErasedInv, RowErased,
       WithdrawnErased, User
<1> QED
    BY <1>1, TypeAlways, IdentityAlways, ErasedInit, ErasedStep, PTL DEF Spec
=============================================================================
