----------------------------- MODULE Recruiting -----------------------------
(***************************************************************************)
(* src/src/recruiting/recruiting.service.ts: posts, applications, lists,   *)
(* and the flag that tells a user whether he may apply.                    *)
(***************************************************************************)
EXTENDS Groups

PostRest == <<scope, active, admin, group, member, block, report, mail>>

\* createPost by a member.
CreatePostRead(r, u, g, capacity) ==
    /\ Arrives(r, "createPost", u)
    /\ AssertMember(g, u)
    /\ Goto(r, [pc |-> "createPost", user |-> u, group |-> g, capacity |-> capacity])
    /\ UNCHANGED <<post, application, peak, late, PostRest>>

CreatePost(r, p) ==
    /\ request[r].pc = "createPost"
    /\ p \in Post /\ ~ Exists(p) /\ \A q \in 1..(p - 1) : Exists(q)
    /\ post' = [post EXCEPT ![p] =
         [group |-> request[r].group, author |-> request[r].user, status |-> "OPEN",
          deleted |-> FALSE, capacity |-> request[r].capacity]]
    /\ peak' = [peak EXCEPT ![p] = request[r].capacity]
    /\ Goto(r, [pc |-> "members", user |-> request[r].user, group |-> request[r].group])
    /\ UNCHANGED <<application, late, PostRest>>

\* The other members of this moment are told.
TellMembers(r) ==
    /\ request[r].pc = "members"
    /\ Announce(r, {u \in User \ {request[r].user} : member[request[r].group][u] # None})
    /\ UNCHANGED <<post, application, peak, late, PostRest>>

\* updatePost and deletePost admit the author or an operator who can see him.
EditPost(r, u, p, handler) ==
    /\ Arrives(r, handler, u)
    /\ Findable(p) /\ Visible(u, post[p].author)
    /\ post[p].author = u \/ u \in admin
    /\ Goto(r, [pc |-> handler, post |-> p])
    /\ UNCHANGED <<post, application, peak, late, PostRest>>

Larger(m, n) == IF None \in {m, n} THEN None ELSE IF m > n THEN m ELSE n

UpdatePost(r, status, capacity) ==
    LET p == request[r].post
    IN  /\ request[r].pc = "updatePost"
        /\ post' = [post EXCEPT ![p].status = status, ![p].capacity = capacity]
        /\ peak' = [peak EXCEPT ![p] = Larger(@, capacity)]
        /\ Leave(r)
        /\ UNCHANGED <<application, late, PostRest>>

DeletePostKeepingApplications(r) ==   \* a slip: only the row is marked
    LET p == request[r].post
    IN  /\ request[r].pc = "deletePost"
        /\ post' = [post EXCEPT ![p].deleted = TRUE, ![p].status = "CANCELLED"]
        /\ Leave(r)
        /\ UNCHANGED <<application, late, peak, PostRest>>

\* The transaction of deletePost. Applications under way are late from now on.
DeletePost(r) ==
    LET p == request[r].post
    IN  /\ request[r].pc = "deletePost"
        /\ application' = {a \in application : a[1] # p}
        /\ post' = [post EXCEPT ![p].deleted = TRUE, ![p].status = "CANCELLED"]
        /\ late' = [late EXCEPT !.application = @ \cup {<<p, request[q].user>> :
                q \in {s \in Request : request[s].pc = "apply" /\ request[s].post = p}}]
        /\ Leave(r)
        /\ UNCHANGED <<peak, PostRest>>

FullOneLater(p, counted) ==   \* a slip
    post[p].capacity # None /\ Cardinality(counted) > post[p].capacity

Full(p, counted) == post[p].capacity # None /\ Cardinality(counted) >= post[p].capacity

\* applyToPost: its checks see one state, the row is created in another.
MayApply(p, u) ==
    /\ Findable(p) /\ Visible(u, post[p].author)
    /\ post[p].author # u
    /\ post[p].status = "OPEN"
    /\ group[post[p].group].private => AssertMember(post[p].group, u)
    /\ <<p, u>> \notin application
    /\ ~ Full(p, Applicants(p))

ApplyRead(r, u, p) ==
    /\ Arrives(r, "apply", u)
    /\ MayApply(p, u)
    /\ Goto(r, [pc |-> "apply", user |-> u, post |-> p])
    /\ UNCHANGED <<post, application, peak, late, PostRest>>

\* The row is created and the author told, unless the pair exists by now.
Apply(r) ==
    LET p == request[r].post
        u == request[r].user
    IN  /\ request[r].pc = "apply"
        /\ IF <<p, u>> \in application THEN Leave(r) ELSE Announce(r, {post[p].author})
        /\ application' = application \cup {<<p, u>>}
        /\ UNCHANGED <<post, peak, late, PostRest>>

CancelRead(r, u, p) ==
    /\ Arrives(r, "cancel", u)
    /\ Findable(p) /\ <<p, u>> \in application
    /\ Goto(r, [pc |-> "cancel", user |-> u, post |-> p])
    /\ UNCHANGED <<post, application, peak, late, PostRest>>

\* The row is deleted and the author told, unless it is gone.
Cancel(r) ==
    LET p == request[r].post
        u == request[r].user
    IN  /\ request[r].pc = "cancel"
        /\ IF <<p, u>> \in application THEN Announce(r, {post[p].author}) ELSE Leave(r)
        /\ application' = application \ {<<p, u>>}
        /\ UNCHANGED <<post, peak, late, PostRest>>

-----------------------------------------------------------------------------
\* resolveApplyCapability, the flag canApply of a post, from the applicants whom
\* the row at hand carries.
CanApply(p, u, counted) ==
    /\ post[p].author # u
    /\ u \notin counted
    /\ post[p].status = "OPEN"
    /\ ~ Full(p, counted)

\* getPost shows a post to a user: findPostDetail and the group's visibility.
PostShown(p, u) ==
    /\ Findable(p) /\ Visible(u, post[p].author)
    /\ group[post[p].group].private => member[post[p].group][u] # None

\* toDetail, with the capabilities of the post's group.
PostFlags(p, u, counted) ==
    [apply  |-> CanApply(p, u, counted), applied |-> u \in counted,
     places |-> IF post[p].capacity = None THEN None
                ELSE IF Cardinality(counted) >= post[p].capacity THEN 0
                ELSE post[p].capacity - Cardinality(counted),
     group  |-> GroupFlags(post[p].group, u)]

\* The answers of getPost, createPost, applyToPost and cancelApplication carry
\* the row of findPostDetail; that of updatePost carries the row it wrote, without
\* its applications, and toDetail then counts none.
DetailFlags(p, u) == PostFlags(p, u, Applicants(p))
UpdateFlags(p, u) == PostFlags(p, u, {})

\* listApplicants, for the author and operators.
ShownApplicants(p, u) ==
    {a \in Applicants(p) : Findable(p) /\ (post[p].author = u \/ u \in admin)}

\* listPublicPosts asks for no user.
PublicPosts == {p \in Post : /\ Findable(p) /\ ~ group[post[p].group].private
                             /\ post[p].status = "OPEN"}

ListedEverywhere(u) == {p \in Post : Findable(p)}   \* a slip

\* listPosts without a group: buildPostWhere and buildPostVisibilityWhere.
Listed(u) ==
    {p \in Post :
       /\ Findable(p) /\ Visible(u, post[p].author)
       /\ ~ group[post[p].group].private \/ member[post[p].group][u] # None}

\* listPosts of one group, for its members when it is private.
ListedIn(g, u) ==
    {p \in Post :
       /\ Live(g) /\ group[g].private => AssertMember(g, u)
       /\ Findable(p) /\ post[p].group = g /\ Visible(u, post[p].author)}
=============================================================================
