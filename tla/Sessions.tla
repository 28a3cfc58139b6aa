------------------------------ MODULE Sessions ------------------------------
(***************************************************************************)
(* Signup, login, refresh and logout (src/src/auth/auth.service.ts). A     *)
(* user has one refresh token hash; the model keeps whether it is set.     *)
(***************************************************************************)
EXTENDS AccountRecords

SessionRest == <<scope, lastFile, file, facts, powerQueue, powerWorker, leftover, behind>>

\* The handler goes on to issueTokens with the user, and the identity row if
\* there is one, that it has read.
Issue(r, u, row) == Goto(r, [pc |-> "issue", user |-> u, identity |-> row])

IdentityRow(c) == [credential |-> c, owner |-> identity[c]]
Present(row)   == row = None \/ identity[row.credential] = row.owner

\* signupWithEmail, or loginWithSocialIdentity of a person not known yet:
\* nobody signs in with this address.
SignupRead(r, c) ==
    /\ Arrives(r, "signup")
    /\ \A d \in Credential : EmailOf[d] = EmailOf[c] => identity[d] = None
    /\ Goto(r, [pc |-> "signup", credential |-> c])
    /\ UNCHANGED <<user, identity, lastUser, profile, SessionRest>>

CredentialTaken(c) == identity[c] # None   \* a slip: the address need not be unique

\* The unique columns: users.email and auth_identities (provider, providerUserId).
Taken(c) ==
    \/ identity[c] # None
    \/ \E u \in User : Known(u) /\ user[u].email = EmailOf[c]

\* The transaction creates user, power profile and identity, or violates a
\* unique column.
SignupCommit(r) ==
    LET c == request[r].credential
        u == lastUser + 1
    IN  /\ request[r].pc = "signup"
        /\ IF u > scope.users \/ Taken(c)
           THEN Leave(r) /\ UNCHANGED <<user, identity, lastUser, profile>>
           ELSE /\ lastUser' = u
                /\ user' = [user EXCEPT ![u] =
                     [status |-> "ACTIVE", email |-> EmailOf[c], refreshTokenHash |-> FALSE,
                      image |-> None, personal |-> TRUE]]
                /\ profile' = [profile EXCEPT ![u] =
                     [from |-> 0, calculatedAt |-> 0, current |-> FALSE]]
                /\ identity' = [identity EXCEPT ![c] = u]
                /\ Issue(r, u, [credential |-> c, owner |-> u])
        /\ UNCHANGED SessionRest

\* loginWithEmail finds an active user by the address, and the identity later.
LoginRead(r, c) ==
    /\ Arrives(r, "login")
    /\ c \in ByPassword
    /\ \E u \in User :
         /\ Active(u) /\ user[u].email = EmailOf[c]
         /\ Goto(r, [pc |-> "login", user |-> u, credential |-> c])
    /\ UNCHANGED <<user, identity, lastUser, profile, SessionRest>>

LoginIdentity(r) ==
    LET c == request[r].credential
    IN  /\ request[r].pc = "login"
        /\ IF identity[c] = None THEN Leave(r) ELSE Issue(r, request[r].user, IdentityRow(c))
        /\ UNCHANGED <<user, identity, lastUser, profile, SessionRest>>

\* loginWithSocialIdentity finds the identity with its active user.
SocialLogin(r, c) ==
    /\ Arrives(r, "login")
    /\ c \notin ByPassword /\ identity[c] # None
    /\ Active(identity[c])
    /\ Issue(r, identity[c], IdentityRow(c))
    /\ UNCHANGED <<user, identity, lastUser, profile, SessionRest>>

\* refresh reads an active user whose hash matches; it names no identity.
Refresh(r, u) ==
    /\ Arrives(r, "refresh")
    /\ Active(u) /\ user[u].refreshTokenHash
    /\ Issue(r, u, None)
    /\ UNCHANGED <<user, identity, lastUser, profile, SessionRest>>

IssueCommitUserOnly(r) ==   \* a slip: the identity is not part of the transaction
    /\ request[r].pc = "issue"
    /\ user' = [user EXCEPT ![request[r].user].refreshTokenHash = TRUE]
    /\ Leave(r)
    /\ UNCHANGED <<identity, lastUser, profile, SessionRest>>

\* The transaction of issueTokens sets the hash whatever the user has become,
\* and fails as a whole when the identity is gone.
IssueCommit(r) ==
    /\ request[r].pc = "issue"
    /\ user' = IF Present(request[r].identity)
               THEN [user EXCEPT ![request[r].user].refreshTokenHash = TRUE]
               ELSE user
    /\ Leave(r)
    /\ UNCHANGED <<identity, lastUser, profile, SessionRest>>

LogoutBegin(r, u) ==
    /\ Arrives(r, "logout")
    /\ Authenticated(u)
    /\ Goto(r, [pc |-> "logout", user |-> u])
    /\ UNCHANGED <<user, identity, lastUser, profile, SessionRest>>

Logout(r) ==
    /\ request[r].pc = "logout"
    /\ user' = [user EXCEPT ![request[r].user].refreshTokenHash = FALSE]
    /\ Leave(r)
    /\ UNCHANGED <<identity, lastUser, profile, SessionRest>>
=============================================================================
