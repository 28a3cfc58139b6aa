------------------------------ MODULE Community -----------------------------
(***************************************************************************)
(* Groups, recruiting, moderation and notifications on the same rows.      *)
(***************************************************************************)
EXTENDS People, Recruiting, Moderation, Notifications

\* A request ends early: a query fails, or the process restarts. A notification
\* without its job is dropped.
Abort(r) ==
    /\ request[r] # Idle
    /\ dropped' = IF request[r].pc = "enqueue" THEN dropped \cup {request[r].notice} ELSE dropped
    /\ Leave(r)
    /\ UNCHANGED <<scope, social, notice, noticeQueue, noticeWorker, deliveries, peak, late>>

Init ==
    /\ scope \in Scopes
    /\ active = User
    /\ \E u \in scope.users : admin = {u}
    /\ group = [g \in Group |-> IF scope.founder = None THEN None
         ELSE [owner |-> scope.founder, archived |-> FALSE, private |-> FALSE]]
    /\ member = [g \in Group |-> [u \in User |-> IF u = scope.founder THEN "OWNER" ELSE None]]
    /\ post = [p \in Post |-> None]
    /\ application = {} /\ block = {}
    /\ report = [u \in User |-> [t \in User |-> 0]]
    /\ notice = <<>> /\ noticeQueue = <<>> /\ noticeWorker = Idle
    /\ deliveries = [n \in Notice |-> 0]
    /\ request = [r \in Request |-> Idle]
    /\ peak = [p \in Post |-> None]
    /\ late = [application |-> {}, block |-> {}]
    /\ dropped = {}

GroupBegins(r, u) == \E g \in Group :
    \/ \E private \in BOOLEAN : CreateGroup(r, u, g, private)
    \/ \E handler \in {"updateGroup", "archiveGroup"} : EditGroup(r, u, g, handler)
    \/ \E target \in scope.users, role \in Role : AddMemberRead(r, u, g, target, role)
    \/ \E capacity \in Capacities : CreatePostRead(r, u, g, capacity)

PostBegins(r, u) == \E p \in Post :
    \/ \E handler \in {"updatePost", "deletePost"} : EditPost(r, u, p, handler)
    \/ ApplyRead(r, u, p) \/ CancelRead(r, u, p)

UserBegins(r, u) ==
    \/ \E target \in scope.users :
         BlockRead(r, u, target) \/ Unblock(r, u, target) \/ ReportRead(r, u, target)
    \/ Withdraw(r, u)
    \/ \E handler \in {"adminFlag", "postStatus"} : OperatorRead(r, u, handler)
    \/ \E n \in Notice : MarkRead(r, u, n)
    \/ MarkAllRead(r, u)

Begin(r) == \E u \in scope.users : GroupBegins(r, u) \/ PostBegins(r, u) \/ UserBegins(r, u)

Continue(r) ==
    \/ \E private \in BOOLEAN : UpdateGroup(r, private)
    \/ ArchiveGroup(r) \/ AddMember(r)
    \/ \E p \in Post : CreatePost(r, p)
    \/ TellMembers(r)
    \/ \E status \in PostStatus, capacity \in Capacities : UpdatePost(r, status, capacity)
    \/ DeletePost(r) \/ Apply(r) \/ Cancel(r)
    \/ Block(r) \/ Report(r)
    \/ \E target \in scope.users, isAdmin \in BOOLEAN : SetAdminFlag(r, target, isAdmin)
    \/ \E p \in Post, status \in PostStatus : SetPostStatus(r, p, status)
    \/ \E u \in User : AnnounceCreate(r, u)
    \/ AnnounceQueue(r) \/ NobodyTold(r)

Next ==
    \/ \E r \in Request : Begin(r) \/ Continue(r) \/ Abort(r)
    \/ \E u, target \in scope.users : WindowPasses(u, target)
    \/ NoticeStep

Spec == Init /\ [][Next]_communityVars

\* The worker of the NOTIFICATION queue runs on.
FairSpec ==
    /\ Spec
    /\ WF_communityVars(NoticeStep)
    /\ \A r \in Request : WF_communityVars(Continue(r))

-----------------------------------------------------------------------------
\* Types of the rows, the queue and the bookkeeping.
TypeOK ==
    /\ active \subseteq User /\ admin \subseteq User
    /\ group \in [Group -> GroupRow \cup {None}]
    /\ member \in [Group -> [User -> Role \cup {None}]]
    /\ post \in [Post -> PostRow \cup {None}]
    /\ application \subseteq Post \X User /\ block \subseteq User \X User
    /\ report \in [User -> [User -> 0..MaxReports]]
    /\ notice \in Seq(NoticeRow)
    /\ noticeQueue \in Seq([notice : Notice, redelivered : BOOLEAN])
    /\ deliveries \in [Notice -> 0..2]
    /\ dropped \subseteq Notice

\* The capacity is checked before the application is created and again by nobody;
\* so a post takes at most as many applicants too many as requests can overlap.
OverbookedOnlyByOverlap ==
    \A p \in Post : Exists(p) /\ peak[p] # None =>
        Cardinality(Applicants(p)) < peak[p] + Cardinality(Request)

\* Applications go with their post: one of a deleted post is of a request that
\* had passed its checks when the post was deleted.
DeletedStaysCleared ==
    \A a \in application : post[a[1]].deleted => a \in late.application

\* Blocks go with either user: one that names a withdrawn user is of a request
\* that had found the user active.
WithdrawnUnblocked ==
    \A b \in block : {b[1], b[2]} \subseteq active \/ b \in late.block

\* One report of a user per ten minutes, or as many as requests overlap.
ReportsBounded ==
    \A u, t \in User : report[u][t] <= Cardinality(Request)

\* What the service tells a user he may do is what the handlers let him do, in
\* every state that can be reached: edit, invite whom the search offers, create a
\* match, and apply to a post he is shown. Editing relies on the owner having
\* remained a member, and a place shown as free on applications being counted.
\* The answer to an update counts none: it never hides a place that is open, and
\* promises one that is not to operators alone, never to the author.
FlagsAreTrue ==
    /\ \A g \in Group, u \in User : GroupShown(g, u) =>
         /\ GroupFlags(g, u) = [edit   |-> AssertEditor(g, u), invite |-> AssertAdmin(g, u),
                               create |-> AssertMember(g, u)]
         /\ \A c \in Candidates(u, g) : MayAdd(g, u, c)
    /\ \A p \in Post, u \in User : Exists(p) /\ PostShown(p, u) =>
         LET flags == DetailFlags(p, u)
         IN  /\ flags.apply = MayApply(p, u)
             /\ flags.apply => flags.places # 0
             /\ flags.applied => u \in ShownApplicants(p, post[p].author)
    /\ \A p \in Post, u \in User : Exists(p) /\ (post[p].author = u \/ u \in admin) =>
         LET flags == UpdateFlags(p, u)
         IN  /\ MayApply(p, u) => flags.apply /\ flags.places # 0
             /\ flags.apply => u # post[p].author

\* A list shows what opens: posts that neither a block, nor a private group, nor
\* a deletion hides, and nothing else; public posts to whoever is not separated
\* from the author; and the members of a group whom a user finds have a profile
\* that opens.
ListsMatchDetails ==
    \A u \in User :
        /\ Listed(u) = {p \in Post : Exists(p) /\ PostShown(p, u)}
        /\ \A p \in PublicPosts : Visible(u, post[p].author) => p \in Listed(u)
        /\ \A g \in Group :
             /\ ListedIn(g, u) \subseteq Listed(u)
             /\ \A m \in Members(u, g) \cap Found(u) : ProfileOpens(u, m)

\* However jobs fail, are lost or handed out again, and whenever a user reads,
\* notifications keep the contract.
Contract == INSTANCE NoticeContract WITH
    announced <- DOMAIN notice,
    handed    <- deliveries,
    marked    <- {n \in DOMAIN notice : notice[n].sentAt},
    read      <- {n \in DOMAIN notice : notice[n].readAt}

\* The notifications implement NoticeContract.
ContractKept == Contract!Spec

\* A notification is sent or read in the end, unless its job was never queued or
\* failed.
NoticeSettles ==
    \A n \in Notice :
        n \in DOMAIN notice ~>
            (n \in dropped \/ (n \in DOMAIN notice /\ notice[n].status # "PENDING"))
=============================================================================
