--------------------------- MODULE CommunityProofs ---------------------------
(***************************************************************************)
(* What a withdrawal or a deletion clears stays cleared, and what the      *)
(* service tells users is what the handlers do, for any number of users,   *)
(* groups, posts and overlapping requests.                                 *)
(***************************************************************************)
EXTENDS Community, FiniteSetTheorems, SequenceTheorems, TLAPS

-----------------------------------------------------------------------------
(* Blocks.                                                                  *)

BlockUnderWay(r) ==
    LET u == request[r].user
        t == request[r].target
    IN  request[r].pc = "block" => {u, t} \subseteq active \/ <<u, t>> \in late.block

(* A block under way is about active users as well, or late.                *)
BlockInv ==
    /\ request = [r \in Request |-> request[r]]
    /\ late = [application |-> late.application, block |-> late.block]
    /\ WithdrawnUnblocked
    /\ \A r \in Request : BlockUnderWay(r)

(* A step of a request that concerns no block. *)
NoBlock(r) ==
    /\ UNCHANGED <<active, block>> /\ late'.block = late.block
    /\ late' = [application |-> late'.application, block |-> late'.block]
    /\ request' = [q \in Request |-> request'[q]]
    /\ \A q \in Request \ {r} : request'[q] = request[q]
    /\ request'[r].pc # "block" \/ request'[r] = request[r]

LEMMA GotoNoBlock ==
    ASSUME NEW r \in Request, NEW x, BlockInv, Goto(r, x), x.pc # "block",
           UNCHANGED <<active, block>>, late'.block = late.block,
           late' = [application |-> late'.application, block |-> late'.block]
    PROVE  NoBlock(r)
BY DEF Goto, NoBlock, BlockInv

LEMMA LeaveNoBlock ==
    ASSUME NEW r \in Request, BlockInv, Leave(r), UNCHANGED <<active, block>>,
           late'.block = late.block,
           late' = [application |-> late'.application, block |-> late'.block]
    PROVE  NoBlock(r)
BY DEF Goto, Leave, Idle, NoBlock, BlockInv

LEMMA AnnounceNoBlock ==
    ASSUME NEW r \in Request, NEW users, BlockInv, Announce(r, users),
           UNCHANGED <<active, block, late>>
    PROVE  NoBlock(r)
BY LeaveNoBlock DEF Goto, Announce, NoBlock, BlockInv

LEMMA BeginNoBlock ==
    ASSUME NEW r \in Request, NEW u, BlockInv,
           GroupBegins(r, u) \/ PostBegins(r, u) \/ UserBegins(r, u)
    PROVE  \/ NoBlock(r)
           \/ \E target \in scope.users : BlockRead(r, u, target) \/ Unblock(r, u, target)
           \/ Withdraw(r, u)
<1>1. CASE GroupBegins(r, u)
    <2>1. CASE \E g \in Group, private \in BOOLEAN : CreateGroup(r, u, g, private)
        BY <2>1 DEF CreateGroup, GroupRest, NoBlock, BlockInv
    <2>2. CASE \/ \E g \in Group, handler \in {"updateGroup", "archiveGroup"} :
                    EditGroup(r, u, g, handler)
               \/ \E g \in Group, target \in scope.users, role \in Role :
                    AddMemberRead(r, u, g, target, role)
        BY <2>2, GotoNoBlock DEF EditGroup, AddMemberRead, GroupRest, BlockInv
    <2>3. CASE \E g \in Group, capacity \in Capacities : CreatePostRead(r, u, g, capacity)
        BY <2>3, GotoNoBlock DEF CreatePostRead, PostRest, BlockInv
    <2> QED
        BY <1>1, <2>1, <2>2, <2>3 DEF GroupBegins
<1>2. CASE PostBegins(r, u)
    BY <1>2, GotoNoBlock DEF PostBegins, EditPost, ApplyRead, CancelRead, PostRest, BlockInv
<1>3. CASE UserBegins(r, u)
    <2>1. CASE \/ \E target \in scope.users : ReportRead(r, u, target)
               \/ \E handler \in {"adminFlag", "postStatus"} : OperatorRead(r, u, handler)
        BY <2>1, GotoNoBlock DEF ReportRead, OperatorRead, ModerationRest, BlockInv
    <2>2. CASE (\E n \in Notice : MarkRead(r, u, n)) \/ MarkAllRead(r, u)
        BY <2>2 DEF MarkRead, MarkAllRead, NoticeRest, social, NoBlock, BlockInv
    <2> QED
        BY <1>3, <2>1, <2>2 DEF UserBegins
<1> QED
    BY <1>1, <1>2, <1>3

LEMMA ContinueNoBlock ==
    ASSUME NEW r \in Request, BlockInv, Continue(r)
    PROVE  NoBlock(r) \/ Block(r)
<1>1. CASE \/ \E private \in BOOLEAN : UpdateGroup(r, private)
           \/ ArchiveGroup(r) \/ AddMember(r)
    BY <1>1, LeaveNoBlock DEF UpdateGroup, ArchiveGroup, AddMember, GroupRest, BlockInv
<1>2. CASE \E p \in Post : CreatePost(r, p)
    BY <1>2, GotoNoBlock DEF CreatePost, PostRest, BlockInv
<1>3. CASE TellMembers(r)
    BY <1>3, AnnounceNoBlock DEF TellMembers, PostRest
<1>4. CASE \E status \in PostStatus, capacity \in Capacities : UpdatePost(r, status, capacity)
    BY <1>4, LeaveNoBlock DEF UpdatePost, PostRest, BlockInv
<1>5. CASE DeletePost(r)
    BY <1>5, LeaveNoBlock DEF DeletePost, PostRest, BlockInv
<1>6. CASE Apply(r) \/ Cancel(r)
    BY <1>6, LeaveNoBlock, AnnounceNoBlock DEF Apply, Cancel, PostRest, BlockInv
<1>7. CASE \/ Report(r)
           \/ \E target \in scope.users, isAdmin \in BOOLEAN : SetAdminFlag(r, target, isAdmin)
           \/ \E p \in Post, status \in PostStatus : SetPostStatus(r, p, status)
    BY <1>7, LeaveNoBlock DEF Report, SetAdminFlag, SetPostStatus, ModerationRest, BlockInv
<1>8. CASE \E u \in User : AnnounceCreate(r, u)
    BY <1>8, GotoNoBlock DEF AnnounceCreate, NoticeRest, social, BlockInv
<1>9. CASE AnnounceQueue(r)
    BY <1>9, AnnounceNoBlock DEF AnnounceQueue, NoticeRest, social
<1>10. CASE NobodyTold(r)
    BY <1>10, LeaveNoBlock DEF NobodyTold, NoticeRest, social, BlockInv
<1> QED
    BY <1>1, <1>2, <1>3, <1>4, <1>5, <1>6, <1>7, <1>8, <1>9, <1>10 DEF Continue

LEMMA BlockInit == Init => BlockInv
BY DEF Init, BlockInv, WithdrawnUnblocked, BlockUnderWay, Idle

LEMMA NoBlockKeeps ==
    ASSUME NEW r \in Request, BlockInv, NoBlock(r)
    PROVE  BlockInv'
BY DEF NoBlock, BlockInv, WithdrawnUnblocked, BlockUnderWay

LEMMA BlockKeeps ==
    ASSUME NEW r \in Request, NEW u, BlockInv,
           \/ \E target \in scope.users : BlockRead(r, u, target) \/ Unblock(r, u, target)
           \/ Block(r)
    PROVE  BlockInv'
<1>1. ASSUME NEW target \in scope.users, BlockRead(r, u, target)
      PROVE  BlockInv'
    BY <1>1 DEF BlockRead, Arrives, Goto, ModerationRest, BlockInv, WithdrawnUnblocked, BlockUnderWay
<1>2. ASSUME NEW target \in scope.users, Unblock(r, u, target)
      PROVE  BlockInv'
    BY <1>2 DEF Unblock, ModerationRest, BlockInv, WithdrawnUnblocked, BlockUnderWay
<1>3. CASE Block(r)
    BY <1>3 DEF Block, Goto, Leave, Idle, ModerationRest, BlockInv, WithdrawnUnblocked, BlockUnderWay
<1> QED
    BY <1>1, <1>2, <1>3

LEMMA WithdrawKeeps ==
    ASSUME NEW r \in Request, NEW u, BlockInv, Withdraw(r, u)
    PROVE  BlockInv'
<1>1. /\ active' = active \ {u} /\ request' = request
      /\ block' = block \ BlocksInvolving(u)
      /\ late.block \subseteq late'.block
      /\ late' = [application |-> late'.application, block |-> late'.block]
      /\ \A q \in Request :
            request[q].pc = "block" /\ u \in {request[q].user, request[q].target} =>
                <<request[q].user, request[q].target>> \in late'.block
    BY DEF Withdraw, BlockInv
<1>2. WithdrawnUnblocked'
    BY <1>1 DEF BlockInv, WithdrawnUnblocked, BlocksInvolving
<1>3. ASSUME NEW q \in Request PROVE BlockUnderWay(q)'
    BY <1>1 DEF BlockInv, BlockUnderWay
<1> QED
    BY <1>1, <1>2, <1>3 DEF BlockInv

LEMMA BlockStep ==
    ASSUME BlockInv, [Next]_communityVars
    PROVE  BlockInv'
<1>1. ASSUME NEW r \in Request, Begin(r) PROVE BlockInv'
    BY <1>1, BeginNoBlock, NoBlockKeeps, BlockKeeps, WithdrawKeeps DEF Begin
<1>2. ASSUME NEW r \in Request, Continue(r) PROVE BlockInv'
    BY <1>2, ContinueNoBlock, NoBlockKeeps, BlockKeeps
<1>3. ASSUME NEW r \in Request, Abort(r) PROVE BlockInv'
    BY <1>3, LeaveNoBlock, NoBlockKeeps DEF Abort, social, BlockInv
<1>4. CASE \/ \E u, target \in scope.users : WindowPasses(u, target)
           \/ NoticeStep \/ UNCHANGED communityVars
    <2>1. UNCHANGED <<active, block, late, request>>
        BY <1>4 DEF WindowPasses, ModerationRest, NoticeStep, TakeNotice, Deliver, MarkSentRead,
           MarkSent, JobDone, NoticeFails, NoticeCrash, NoticeRest, communityVars, social
    <2> QED
        BY <2>1 DEF BlockInv, WithdrawnUnblocked, BlockUnderWay
<1> QED
    BY <1>1, <1>2, <1>3, <1>4 DEF Next

(* Blocks go with either user: one that names a withdrawn user is of a request  *)
(* that had found the user active before the withdrawal (withdrawMe deletes     *)
(* blocks on both sides, blockUser looks the target up before it writes).       *)
THEOREM BlocksGoWithUsers == Spec => []WithdrawnUnblocked
<1>1. BlockInv => WithdrawnUnblocked
    BY DEF BlockInv
<1> QED
    BY <1>1, BlockInit, BlockStep, PTL DEF Spec

-----------------------------------------------------------------------------
(* Posts and applications.                                                  *)

PostHandlers == {"updatePost", "deletePost", "apply", "cancel"}

PostRequestOK(r) ==
    /\ request[r].pc = "createPost" =>
          /\ request[r].user \in User /\ request[r].group \in Group
          /\ request[r].capacity \in Capacities
    /\ request[r].pc \in PostHandlers =>
          request[r].post \in Post /\ post[request[r].post] \in PostRow
    /\ request[r].pc \in {"apply", "cancel"} => request[r].user \in User
    /\ request[r].pc = "apply" =>
          \/ post[request[r].post].deleted = FALSE
          \/ <<request[r].post, request[r].user>> \in late.application

(* Requests and applications name posts that exist; an application under way    *)
(* is about a post that is not deleted, or it is late.                       *)
PostInv ==
    /\ scope \in Scopes
    /\ request = [r \in Request |-> request[r]]
    /\ late = [application |-> late.application, block |-> late.block]
    /\ post \in [Post -> PostRow \cup {None}]
    /\ application \subseteq Post \X User
    /\ \A a \in application : /\ post[a[1]] \in PostRow
                              /\ post[a[1]].deleted = FALSE \/ a \in late.application
    /\ \A r \in Request : PostRequestOK(r)

(* A step of a request that concerns neither a post nor an application. *)
NoPost(r) ==
    /\ UNCHANGED <<scope, post, application, peak>> /\ late'.application = late.application
    /\ late' = [application |-> late'.application, block |-> late'.block]
    /\ request' = [q \in Request |-> request'[q]]
    /\ \A q \in Request \ {r} : request'[q] = request[q]
    /\ request'[r].pc \notin PostHandlers \cup {"createPost"} \/ request'[r] = request[r]

LEMMA NoPostKeeps ==
    ASSUME NEW r \in Request, PostInv, NoPost(r)
    PROVE  PostInv'
BY DEF NoPost, PostInv, PostRequestOK, PostHandlers

LEMMA GotoNoPost ==
    ASSUME NEW r \in Request, NEW x, PostInv, Goto(r, x), x.pc \notin PostHandlers \cup {"createPost"},
           UNCHANGED <<scope, post, application, peak, late>>
    PROVE  NoPost(r)
BY DEF Goto, NoPost, PostInv

LEMMA LeaveNoPost ==
    ASSUME NEW r \in Request, PostInv, Leave(r), UNCHANGED <<scope, post, application, peak, late>>
    PROVE  NoPost(r)
BY DEF Goto, Leave, Idle, NoPost, PostInv, PostHandlers

LEMMA AnnounceNoPost ==
    ASSUME NEW r \in Request, NEW users, PostInv, Announce(r, users),
           UNCHANGED <<scope, post, application, peak, late>>
    PROVE  NoPost(r)
<1>1. CASE users = {}
    BY <1>1, LeaveNoPost DEF Announce
<1>2. CASE users # {}
    BY <1>2, GotoNoPost DEF Announce, PostHandlers
<1> QED
    BY <1>1, <1>2

(* The steps of requests that concern posts. *)
PostSteps(r) ==
    \/ \E u \in User, g \in Group, capacity \in Capacities : CreatePostRead(r, u, g, capacity)
    \/ \E u \in User, p \in Post :
         \/ \E handler \in {"updatePost", "deletePost"} : EditPost(r, u, p, handler)
         \/ ApplyRead(r, u, p) \/ CancelRead(r, u, p)
    \/ \E p \in Post : CreatePost(r, p)
    \/ \E status \in PostStatus, capacity \in Capacities : UpdatePost(r, status, capacity)
    \/ DeletePost(r) \/ Apply(r) \/ Cancel(r)
    \/ \E p \in Post, status \in PostStatus : SetPostStatus(r, p, status)

LEMMA BeginPosts ==
    ASSUME NEW r \in Request, NEW u \in User, PostInv,
           GroupBegins(r, u) \/ PostBegins(r, u) \/ UserBegins(r, u)
    PROVE  NoPost(r) \/ PostSteps(r)
<1>1. CASE GroupBegins(r, u)
    <2>1. CASE \E g \in Group, private \in BOOLEAN : CreateGroup(r, u, g, private)
        BY <2>1 DEF CreateGroup, GroupRest, NoPost, PostInv
    <2>2. CASE \/ \E g \in Group, handler \in {"updateGroup", "archiveGroup"} :
                    EditGroup(r, u, g, handler)
               \/ \E g \in Group, target \in scope.users, role \in Role :
                    AddMemberRead(r, u, g, target, role)
        BY <2>2, GotoNoPost DEF EditGroup, AddMemberRead, GroupRest, PostHandlers
    <2> QED
        BY <1>1, <2>1, <2>2 DEF GroupBegins, PostSteps
<1>2. CASE PostBegins(r, u)
    BY <1>2 DEF PostBegins, PostSteps
<1>3. CASE UserBegins(r, u)
    <2>1. CASE \/ \E target \in scope.users : BlockRead(r, u, target) \/ ReportRead(r, u, target)
               \/ \E handler \in {"adminFlag", "postStatus"} : OperatorRead(r, u, handler)
        BY <2>1, GotoNoPost DEF BlockRead, ReportRead, OperatorRead, ModerationRest, PostHandlers
    <2>2. CASE \E target \in scope.users : Unblock(r, u, target)
        BY <2>2 DEF Unblock, ModerationRest, NoPost, PostInv
    <2>3. CASE Withdraw(r, u)
        BY <2>3 DEF Withdraw, ModerationRest, NoPost, PostInv
    <2>4. CASE (\E n \in Notice : MarkRead(r, u, n)) \/ MarkAllRead(r, u)
        BY <2>4 DEF MarkRead, MarkAllRead, NoticeRest, social, NoPost, PostInv
    <2> QED
        BY <1>3, <2>1, <2>2, <2>3, <2>4 DEF UserBegins
<1> QED
    BY <1>1, <1>2, <1>3

LEMMA ContinuePosts ==
    ASSUME NEW r \in Request, PostInv, Continue(r)
    PROVE  NoPost(r) \/ PostSteps(r)
<1>1. CASE \/ \E private \in BOOLEAN : UpdateGroup(r, private)
           \/ ArchiveGroup(r) \/ AddMember(r)
    BY <1>1, LeaveNoPost DEF UpdateGroup, ArchiveGroup, AddMember, GroupRest
<1>2. CASE TellMembers(r)
    BY <1>2, AnnounceNoPost DEF TellMembers, PostRest
<1>3. CASE \/ Block(r) \/ Report(r)
           \/ \E target \in scope.users, isAdmin \in BOOLEAN : SetAdminFlag(r, target, isAdmin)
    BY <1>3, LeaveNoPost DEF Block, Report, SetAdminFlag, ModerationRest
<1>4. CASE \E u \in User : AnnounceCreate(r, u)
    BY <1>4, GotoNoPost DEF AnnounceCreate, NoticeRest, social, PostHandlers
<1>5. CASE AnnounceQueue(r)
    BY <1>5, AnnounceNoPost DEF AnnounceQueue, NoticeRest, social
<1>6. CASE NobodyTold(r)
    BY <1>6, LeaveNoPost DEF NobodyTold, NoticeRest, social
<1> QED
    BY <1>1, <1>2, <1>3, <1>4, <1>5, <1>6 DEF Continue, PostSteps

LEMMA PostStepKeeps ==
    ASSUME NEW r \in Request, PostInv, PostSteps(r)
    PROVE  PostInv'
<1>1. ASSUME NEW u \in User, NEW g \in Group, NEW capacity \in Capacities,
             CreatePostRead(r, u, g, capacity)
      PROVE  PostInv'
    BY <1>1 DEF CreatePostRead, Goto, PostRest, PostInv, PostRequestOK, PostHandlers
<1>2. ASSUME NEW u \in User, NEW p \in Post, NEW handler \in {"updatePost", "deletePost"},
             EditPost(r, u, p, handler)
      PROVE  PostInv'
    <2>1. post[p] \in PostRow
        BY <1>2 DEF EditPost, Findable, Exists, PostInv
    <2> QED
        BY <1>2, <2>1 DEF EditPost, Goto, PostRest, PostInv, PostRequestOK, PostHandlers
<1>3. ASSUME NEW u \in User, NEW p \in Post, ApplyRead(r, u, p) \/ CancelRead(r, u, p)
      PROVE  PostInv'
    <2>1. post[p] \in PostRow /\ post[p].deleted = FALSE
        <3>1. Findable(p)
            BY <1>3 DEF ApplyRead, MayApply, CancelRead
        <3>2. post[p] \in PostRow /\ ~ post[p].deleted
            BY <3>1 DEF Findable, Exists, PostInv
        <3> QED
            BY <3>2 DEF PostRow
    <2> QED
        BY <1>3, <2>1 DEF ApplyRead, CancelRead, Goto, PostRest, PostInv, PostRequestOK, PostHandlers
<1>4. ASSUME NEW p \in Post, CreatePost(r, p)
      PROVE  PostInv'
    <2> DEFINE row == [group |-> request[r].group, author |-> request[r].user, status |-> "OPEN",
                       deleted |-> FALSE, capacity |-> request[r].capacity]
    <2>1. row \in PostRow /\ row.deleted = FALSE
        BY <1>4 DEF CreatePost, PostInv, PostRequestOK, PostRow, PostStatus
    <2>2. /\ post' = [post EXCEPT ![p] = row] /\ UNCHANGED <<scope, application, late>>
          /\ request' = [q \in Request |-> request'[q]]
          /\ \A q \in Request \ {r} : request'[q] = request[q]
          /\ request'[r].pc = "members"
        BY <1>4 DEF CreatePost, Goto, PostRest, PostInv
    <2> HIDE DEF row
    <2>3. \A q \in Request \ {r} : PostRequestOK(q)'
        BY <2>1, <2>2 DEF PostInv, PostRequestOK
    <2> QED
        BY <2>1, <2>2, <2>3 DEF PostInv, PostRequestOK, PostHandlers
<1>5. ASSUME NEW p \in Post, NEW row \in PostRow, post[p] \in PostRow,
             post' = [post EXCEPT ![p] = row], row.deleted = post[p].deleted,
             Leave(r), UNCHANGED <<scope, application, late>>
      PROVE  PostInv'
    <2>1. /\ request' = [q \in Request |-> request'[q]]
          /\ \A q \in Request \ {r} : request'[q] = request[q]
          /\ request'[r].pc = "idle"
        BY <1>5 DEF Leave, Goto, Idle, PostInv
    <2>2. \A q \in Request \ {r} : PostRequestOK(q)'
        BY <1>5, <2>1 DEF PostInv, PostRequestOK
    <2> QED
        BY <1>5, <2>1, <2>2 DEF PostInv, PostRequestOK, PostHandlers
<1>6. ASSUME NEW status \in PostStatus, NEW capacity \in Capacities, UpdatePost(r, status, capacity)
      PROVE  PostInv'
    <2>1. PICK p \in Post : p = request[r].post /\ post[p] \in PostRow
        BY <1>6 DEF UpdatePost, PostInv, PostRequestOK, PostHandlers
    <2> DEFINE row == [post[p] EXCEPT !.status = status, !.capacity = capacity]
    <2>2. row \in PostRow /\ row.deleted = post[p].deleted
        BY <2>1 DEF PostRow
    <2>3. /\ post' = [post EXCEPT ![p] = row]
          /\ Leave(r) /\ UNCHANGED <<scope, application, late>>
        BY <1>6, <2>1 DEF UpdatePost, PostRest, PostInv
    <2> QED
        BY <1>5, <2>1, <2>2, <2>3
<1>7. ASSUME NEW p \in Post, NEW status \in PostStatus, SetPostStatus(r, p, status)
      PROVE  PostInv'
    <2>1. post[p] \in PostRow
        BY <1>7 DEF SetPostStatus, Exists, PostInv
    <2> DEFINE row == [post[p] EXCEPT !.status = status]
    <2>2. row \in PostRow /\ row.deleted = post[p].deleted
        BY <2>1 DEF PostRow
    <2>3. /\ post' = [post EXCEPT ![p] = row]
          /\ Leave(r) /\ UNCHANGED <<scope, application, late>>
        BY <1>7, <2>1 DEF SetPostStatus, ModerationRest, PostInv
    <2> QED
        BY <1>5, <2>1, <2>2, <2>3
<1>8. CASE DeletePost(r)
    <2>1. PICK p \in Post : p = request[r].post /\ post[p] \in PostRow
        BY <1>8 DEF DeletePost, PostInv, PostRequestOK, PostHandlers
    <2> DEFINE row == [post[p] EXCEPT !.deleted = TRUE, !.status = "CANCELLED"]
    <2>2. row \in PostRow
        BY <2>1 DEF PostRow, PostStatus
    <2>3. /\ post' = [post EXCEPT ![p] = row] /\ UNCHANGED scope
          /\ application' = {a \in application : a[1] # p}
          /\ late.application \subseteq late'.application
          /\ late' = [application |-> late'.application, block |-> late'.block]
          /\ \A q \in Request : request[q].pc = "apply" /\ request[q].post = p =>
                <<p, request[q].user>> \in late'.application
        BY <1>8, <2>1 DEF DeletePost, PostRest, PostInv
    <2>4. /\ request' = [q \in Request |-> request'[q]]
          /\ \A q \in Request \ {r} : request'[q] = request[q]
          /\ request'[r].pc = "idle"
        BY <1>8 DEF DeletePost, Leave, Goto, Idle, PostInv
    <2> HIDE DEF row
    <2>5. ASSUME NEW q \in Request \ {r}
          PROVE  PostRequestOK(q)'
        BY <2>1, <2>2, <2>3, <2>4 DEF PostInv, PostRequestOK, PostHandlers
    <2>6. \A a \in application' : /\ post'[a[1]] \in PostRow
                                  /\ post'[a[1]].deleted = FALSE \/ a \in late'.application
        BY <2>1, <2>2, <2>3 DEF PostInv
    <2> QED
        BY <2>1, <2>2, <2>3, <2>4, <2>5, <2>6 DEF PostInv, PostRequestOK, PostHandlers
<1>9. CASE Apply(r) \/ Cancel(r)
    <2>1. /\ request[r].pc \in {"apply", "cancel"}
          /\ UNCHANGED <<scope, post, late>>
          /\ request' = [q \in Request |-> request'[q]]
          /\ \A q \in Request \ {r} : request'[q] = request[q]
          /\ request'[r].pc \in {"idle", "announce"}
        <3>1. /\ request[r].pc \in {"apply", "cancel"}
              /\ UNCHANGED <<scope, post, late>>
            BY <1>9 DEF Apply, Cancel, PostRest
        <3>2. \/ Leave(r)
              \/ Goto(r, [pc |-> "announce", to |-> {post[request[r].post].author}])
            BY <1>9 DEF Apply, Cancel, Announce
        <3>3. PICK x : Goto(r, x) /\ x.pc \in {"idle", "announce"}
            BY <3>2 DEF Leave, Idle
        <3> QED
            BY <3>1, <3>3 DEF Goto, PostInv
    <2>2. \/ application' \subseteq application
          \/ /\ request[r].pc = "apply"
             /\ application' = application \cup {<<request[r].post, request[r].user>>}
        BY <1>9 DEF Apply, Cancel
    <2>3. /\ application' \subseteq Post \X User
          /\ \A a \in application' : /\ post[a[1]] \in PostRow
                                     /\ post[a[1]].deleted = FALSE \/ a \in late.application
        BY <2>1, <2>2 DEF PostInv, PostRequestOK, PostHandlers
    <2>4. \A q \in Request : PostRequestOK(q)'
        BY <2>1 DEF PostInv, PostRequestOK, PostHandlers
    <2> QED
        BY <2>1, <2>3, <2>4 DEF PostInv
<1> QED
    BY <1>1, <1>2, <1>3, <1>4, <1>6, <1>7, <1>8, <1>9 DEF PostSteps

LEMMA PostInit == Init => PostInv
BY DEF Init, PostInv, PostRequestOK, PostHandlers, Idle

LEMMA PostStep ==
    ASSUME PostInv, [Next]_communityVars
    PROVE  PostInv'
<1>0. scope.users \subseteq User
    BY CommunityAssumption DEF PostInv
<1>1. ASSUME NEW r \in Request, Begin(r) PROVE PostInv'
    BY <1>0, <1>1, BeginPosts, NoPostKeeps, PostStepKeeps DEF Begin
<1>2. ASSUME NEW r \in Request, Continue(r) PROVE PostInv'
    BY <1>2, ContinuePosts, NoPostKeeps, PostStepKeeps
<1>3. ASSUME NEW r \in Request, Abort(r) PROVE PostInv'
    BY <1>3, LeaveNoPost, NoPostKeeps DEF Abort, social
<1>4. CASE \/ \E u, target \in scope.users : WindowPasses(u, target)
           \/ NoticeStep \/ UNCHANGED communityVars
    <2>1. UNCHANGED <<scope, post, application, late, request>>
        BY <1>4 DEF WindowPasses, ModerationRest, NoticeStep, TakeNotice, Deliver, MarkSentRead,
           MarkSent, JobDone, NoticeFails, NoticeCrash, NoticeRest, communityVars, social
    <2> QED
        BY <2>1 DEF PostInv, PostRequestOK
<1> QED
    BY <1>1, <1>2, <1>3, <1>4 DEF Next

LEMMA PostAlways == Spec => []PostInv
BY PostInit, PostStep, PTL DEF Spec

(* Applications go with their post: one of a deleted post is of a request that  *)
(* had passed its checks before the deletion (applyToPost checks the post in    *)
(* one query and creates the row in another), also when an operator sets the   *)
(* status of the deleted post.                                              *)
THEOREM ApplicationsGoWithPosts == Spec => []DeletedStaysCleared
<1>1. PostInv => DeletedStaysCleared
    BY DEF PostInv, DeletedStaysCleared
<1> QED
    BY <1>1, PostAlways, PTL

-----------------------------------------------------------------------------
(* Groups, and what a user is told of groups and posts.                     *)

GroupHandlers == {"updateGroup", "archiveGroup", "addMember"}

OwnerSeated(g) == group[g] \in GroupRow /\ member[g][group[g].owner] # None

GroupRequestOK(r) ==
    /\ request[r].pc \in {"updateGroup", "archiveGroup"} =>
          request[r].group \in Group /\ OwnerSeated(request[r].group)
    /\ request[r].pc = "addMember" =>
          request[r].group \in Group /\ request[r].target \in User /\ request[r].role \in Role

OwnersAreMembers == \A g \in Group : group[g] # None => OwnerSeated(g)

(* The owner of a group is one of its members: nobody removes a member, and no  *)
(* handler changes the owner.                                               *)
GroupInv ==
    /\ scope \in Scopes
    /\ request = [r \in Request |-> request[r]]
    /\ group \in [Group -> GroupRow \cup {None}]
    /\ member \in [Group -> [User -> Role \cup {None}]]
    /\ OwnersAreMembers
    /\ \A r \in Request : GroupRequestOK(r)

(* A step of a request that changes neither a group nor its members. *)
NoGroup(r) ==
    /\ UNCHANGED <<scope, group, member>>
    /\ request' = [q \in Request |-> request'[q]]
    /\ \A q \in Request \ {r} : request'[q] = request[q]
    /\ request'[r].pc \notin GroupHandlers \/ request'[r] = request[r]

LEMMA NoGroupKeeps ==
    ASSUME NEW r \in Request, GroupInv, NoGroup(r)
    PROVE  GroupInv'
BY DEF NoGroup, GroupInv, GroupRequestOK, GroupHandlers, OwnersAreMembers, OwnerSeated

LEMMA GotoNoGroup ==
    ASSUME NEW r \in Request, NEW x, GroupInv, Goto(r, x), x.pc \notin GroupHandlers,
           UNCHANGED <<scope, group, member>>
    PROVE  NoGroup(r)
BY DEF Goto, NoGroup, GroupInv

LEMMA LeaveNoGroup ==
    ASSUME NEW r \in Request, GroupInv, Leave(r), UNCHANGED <<scope, group, member>>
    PROVE  NoGroup(r)
BY DEF Goto, Leave, Idle, NoGroup, GroupInv, GroupHandlers

LEMMA AnnounceNoGroup ==
    ASSUME NEW r \in Request, NEW users, GroupInv, Announce(r, users),
           UNCHANGED <<scope, group, member>>
    PROVE  NoGroup(r)
<1>1. CASE users = {}
    BY <1>1, LeaveNoGroup DEF Announce
<1>2. CASE users # {}
    BY <1>2, GotoNoGroup DEF Announce, GroupHandlers
<1> QED
    BY <1>1, <1>2

(* The steps of requests that concern groups. *)
GroupSteps(r) ==
    \/ \E u \in User, g \in Group :
         \/ \E private \in BOOLEAN : CreateGroup(r, u, g, private)
         \/ \E handler \in {"updateGroup", "archiveGroup"} : EditGroup(r, u, g, handler)
         \/ \E target \in User, role \in Role : AddMemberRead(r, u, g, target, role)
    \/ \E private \in BOOLEAN : UpdateGroup(r, private)
    \/ ArchiveGroup(r) \/ AddMember(r)

LEMMA BeginGroups ==
    ASSUME NEW r \in Request, NEW u \in User, GroupInv,
           GroupBegins(r, u) \/ PostBegins(r, u) \/ UserBegins(r, u)
    PROVE  NoGroup(r) \/ GroupSteps(r)
<1>0. scope.users \subseteq User
    BY CommunityAssumption DEF GroupInv
<1>1. CASE GroupBegins(r, u)
    <2>1. CASE \E g \in Group, capacity \in Capacities : CreatePostRead(r, u, g, capacity)
        BY <2>1, GotoNoGroup DEF CreatePostRead, PostRest, GroupHandlers
    <2> QED
        BY <1>0, <1>1, <2>1 DEF GroupBegins, GroupSteps
<1>2. CASE PostBegins(r, u)
    BY <1>2, GotoNoGroup DEF PostBegins, EditPost, ApplyRead, CancelRead, PostRest, GroupHandlers
<1>3. CASE UserBegins(r, u)
    <2>1. CASE \/ \E target \in scope.users : BlockRead(r, u, target) \/ ReportRead(r, u, target)
               \/ \E handler \in {"adminFlag", "postStatus"} : OperatorRead(r, u, handler)
        BY <2>1, GotoNoGroup DEF BlockRead, ReportRead, OperatorRead, ModerationRest, GroupHandlers
    <2>2. CASE \E target \in scope.users : Unblock(r, u, target)
        BY <2>2 DEF Unblock, ModerationRest, NoGroup, GroupInv
    <2>3. CASE Withdraw(r, u)
        BY <2>3 DEF Withdraw, ModerationRest, NoGroup, GroupInv
    <2>4. CASE (\E n \in Notice : MarkRead(r, u, n)) \/ MarkAllRead(r, u)
        BY <2>4 DEF MarkRead, MarkAllRead, NoticeRest, social, NoGroup, GroupInv
    <2> QED
        BY <1>3, <2>1, <2>2, <2>3, <2>4 DEF UserBegins
<1> QED
    BY <1>1, <1>2, <1>3

LEMMA ContinueGroups ==
    ASSUME NEW r \in Request, GroupInv, Continue(r)
    PROVE  NoGroup(r) \/ GroupSteps(r)
<1>1. CASE \E p \in Post : CreatePost(r, p)
    BY <1>1, GotoNoGroup DEF CreatePost, PostRest, GroupHandlers
<1>2. CASE TellMembers(r)
    BY <1>2, AnnounceNoGroup DEF TellMembers, PostRest
<1>3. CASE \/ \E status \in PostStatus, capacity \in Capacities : UpdatePost(r, status, capacity)
           \/ DeletePost(r)
    BY <1>3, LeaveNoGroup DEF UpdatePost, DeletePost, PostRest
<1>4. CASE Apply(r) \/ Cancel(r)
    BY <1>4, LeaveNoGroup, AnnounceNoGroup DEF Apply, Cancel, PostRest
<1>5. CASE \/ Block(r) \/ Report(r)
           \/ \E target \in scope.users, isAdmin \in BOOLEAN : SetAdminFlag(r, target, isAdmin)
           \/ \E p \in Post, status \in PostStatus : SetPostStatus(r, p, status)
    BY <1>5, LeaveNoGroup DEF Block, Report, SetAdminFlag, SetPostStatus, ModerationRest
<1>6. CASE \E u \in User : AnnounceCreate(r, u)
    BY <1>6, GotoNoGroup DEF AnnounceCreate, NoticeRest, social, GroupHandlers
<1>7. CASE AnnounceQueue(r)
    BY <1>7, AnnounceNoGroup DEF AnnounceQueue, NoticeRest, social
<1>8. CASE NobodyTold(r)
    BY <1>8, LeaveNoGroup DEF NobodyTold, NoticeRest, social
<1> QED
    BY <1>1, <1>2, <1>3, <1>4, <1>5, <1>6, <1>7, <1>8 DEF Continue, GroupSteps

(* A group changes its flags and keeps its owner. *)
LEMMA GroupRowKeeps ==
    ASSUME NEW r \in Request, GroupInv, NEW g \in Group, OwnerSeated(g),
           NEW row \in GroupRow, group' = [group EXCEPT ![g] = row],
           row.owner = group[g].owner,
           Leave(r), UNCHANGED <<scope, member>>
    PROVE  GroupInv'
<1>1. /\ request' = [q \in Request |-> request'[q]]
      /\ \A q \in Request \ {r} : request'[q] = request[q]
      /\ request'[r].pc = "idle"
    BY DEF Leave, Goto, Idle, GroupInv
<1>2. \A q \in Request : GroupRequestOK(q)'
    BY <1>1 DEF GroupInv, GroupRequestOK, OwnerSeated
<1>3. OwnersAreMembers'
    BY DEF GroupInv, OwnersAreMembers, OwnerSeated
<1> QED
    BY <1>1, <1>2, <1>3 DEF GroupInv

LEMMA GroupStepKeeps ==
    ASSUME NEW r \in Request, GroupInv, GroupSteps(r)
    PROVE  GroupInv'
<1>1. ASSUME NEW u \in User, NEW g \in Group, NEW private \in BOOLEAN,
             CreateGroup(r, u, g, private)
      PROVE  GroupInv'
    <2> DEFINE row == [owner |-> u, archived |-> FALSE, private |-> private]
    <2>1. row \in GroupRow /\ row.owner = u
        BY DEF GroupRow
    <2>2. /\ group' = [group EXCEPT ![g] = row] /\ UNCHANGED <<scope, request>>
          /\ member' = [member EXCEPT ![g][u] = "OWNER"]
        BY <1>1 DEF CreateGroup, GroupRest
    <2> HIDE DEF row
    <2>3. OwnersAreMembers'
        BY <2>1, <2>2, CommunityAssumption DEF GroupInv, OwnersAreMembers, OwnerSeated
    <2>4. \A h \in Group, v \in User : member[h][v] # None => member'[h][v] # None
        BY <2>2, CommunityAssumption DEF GroupInv
    <2>5. \A q \in Request : GroupRequestOK(q)'
        BY <2>1, <2>2, <2>4, CommunityAssumption DEF GroupInv, GroupRequestOK, OwnerSeated, GroupRow
    <2> QED
        BY <2>1, <2>2, <2>3, <2>5 DEF GroupInv, Role
<1>2. ASSUME NEW u \in User, NEW g \in Group, NEW handler \in {"updateGroup", "archiveGroup"},
             EditGroup(r, u, g, handler)
      PROVE  GroupInv'
    <2>1. OwnerSeated(g)
        BY <1>2 DEF EditGroup, AssertEditor, Live, GroupInv, OwnersAreMembers
    <2> QED
        BY <1>2, <2>1 DEF EditGroup, Goto, GroupRest, GroupInv, GroupRequestOK, OwnersAreMembers, OwnerSeated
<1>3. ASSUME NEW u \in User, NEW g \in Group, NEW target \in User, NEW role \in Role,
             AddMemberRead(r, u, g, target, role)
      PROVE  GroupInv'
    BY <1>3 DEF AddMemberRead, Goto, GroupRest, GroupInv, GroupRequestOK, OwnersAreMembers, OwnerSeated
<1>4. ASSUME NEW private \in BOOLEAN, UpdateGroup(r, private)
      PROVE  GroupInv'
    <2>1. PICK g \in Group : g = request[r].group /\ OwnerSeated(g)
        BY <1>4 DEF UpdateGroup, GroupInv, GroupRequestOK
    <2> DEFINE row == [group[g] EXCEPT !.private = private]
    <2>2. row \in GroupRow /\ row.owner = group[g].owner
        BY <2>1 DEF GroupRow, OwnerSeated
    <2>3. group' = [group EXCEPT ![g] = row] /\ Leave(r) /\ UNCHANGED <<scope, member>>
        BY <1>4, <2>1 DEF UpdateGroup, GroupRest, GroupInv, OwnerSeated
    <2> QED
        BY <2>1, <2>2, <2>3, GroupRowKeeps
<1>5. CASE ArchiveGroup(r)
    <2>1. PICK g \in Group : g = request[r].group /\ OwnerSeated(g)
        BY <1>5 DEF ArchiveGroup, GroupInv, GroupRequestOK
    <2> DEFINE row == [group[g] EXCEPT !.archived = TRUE]
    <2>2. row \in GroupRow /\ row.owner = group[g].owner
        BY <2>1 DEF GroupRow, OwnerSeated
    <2>3. group' = [group EXCEPT ![g] = row] /\ Leave(r) /\ UNCHANGED <<scope, member>>
        BY <1>5, <2>1 DEF ArchiveGroup, GroupRest, GroupInv, OwnerSeated
    <2> QED
        BY <2>1, <2>2, <2>3, GroupRowKeeps
<1>6. CASE AddMember(r)
    <2>1. /\ request[r].group \in Group /\ request[r].target \in User /\ request[r].role \in Role
          /\ UNCHANGED <<scope, group>>
          /\ request' = [q \in Request |-> request'[q]]
          /\ \A q \in Request \ {r} : request'[q] = request[q]
          /\ request'[r].pc = "idle"
        BY <1>6 DEF AddMember, Leave, Goto, Idle, GroupRest, GroupInv, GroupRequestOK
    <2>2. PICK g \in Group, t \in User, role \in Role :
            member' = [member EXCEPT ![g][t] = IF @ = None THEN role ELSE @]
        BY <1>6, <2>1 DEF AddMember
    <2>3. /\ member' \in [Group -> [User -> Role \cup {None}]]
          /\ \A h \in Group, u \in User : member[h][u] # None => member'[h][u] = member[h][u]
        BY <2>2 DEF GroupInv
    <2>4. OwnersAreMembers'
        BY <2>1, <2>3 DEF GroupInv, OwnersAreMembers, OwnerSeated, GroupRow
    <2>5. \A q \in Request : GroupRequestOK(q)'
        BY <2>1, <2>3, SMTT(30) DEF GroupInv, GroupRequestOK, OwnerSeated, GroupRow
    <2> QED
        BY <2>1, <2>3, <2>4, <2>5 DEF GroupInv
<1> QED
    BY <1>1, <1>2, <1>3, <1>4, <1>5, <1>6 DEF GroupSteps

LEMMA GroupInit == Init => GroupInv
BY CommunityAssumption
   DEF Init, GroupInv, GroupRequestOK, OwnersAreMembers, OwnerSeated, GroupRow, Role, Idle

LEMMA GroupStep ==
    ASSUME GroupInv, [Next]_communityVars
    PROVE  GroupInv'
<1>0. scope.users \subseteq User
    BY CommunityAssumption DEF GroupInv
<1>1. ASSUME NEW r \in Request, Begin(r) PROVE GroupInv'
    BY <1>0, <1>1, BeginGroups, NoGroupKeeps, GroupStepKeeps DEF Begin
<1>2. ASSUME NEW r \in Request, Continue(r) PROVE GroupInv'
    BY <1>2, ContinueGroups, NoGroupKeeps, GroupStepKeeps
<1>3. ASSUME NEW r \in Request, Abort(r) PROVE GroupInv'
    BY <1>3, LeaveNoGroup, NoGroupKeeps DEF Abort, social
<1>4. CASE \/ \E u, target \in scope.users : WindowPasses(u, target)
           \/ NoticeStep \/ UNCHANGED communityVars
    <2>1. UNCHANGED <<scope, group, member, request>>
        BY <1>4 DEF WindowPasses, ModerationRest, NoticeStep, TakeNotice, Deliver, MarkSentRead,
           MarkSent, JobDone, NoticeFails, NoticeCrash, NoticeRest, communityVars, social
    <2> QED
        BY <2>1 DEF GroupInv, GroupRequestOK, OwnersAreMembers, OwnerSeated
<1> QED
    BY <1>1, <1>2, <1>3, <1>4 DEF Next

(* The places left are a number, since only users apply. *)
LEMMA ApplicantsCounted ==
    ASSUME NEW p \in Post
    PROVE  Cardinality(Applicants(p)) \in Nat
<1>1. IsFiniteSet(Applicants(p))
    BY CommunityAssumption, FS_Subset DEF Applicants
<1> QED
    BY <1>1, FS_CardinalityType

LEMMA GroupFlagsTrue ==
    ASSUME GroupInv, NEW g \in Group, NEW u \in User, GroupShown(g, u)
    PROVE  /\ GroupFlags(g, u) = [edit   |-> AssertEditor(g, u), invite |-> AssertAdmin(g, u),
                                  create |-> AssertMember(g, u)]
           /\ \A c \in Candidates(u, g) : MayAdd(g, u, c)
<1>1. Live(g) /\ member[g][group[g].owner] # None
    BY DEF GroupShown, Live, GroupInv, OwnersAreMembers, OwnerSeated
<1>2. CanEdit(g, u) = AssertEditor(g, u)
    BY <1>1 DEF CanEdit, MemberOf, AssertEditor
<1>3. CanInvite(g, u) = AssertAdmin(g, u)
    BY <1>1, CommunityAssumption DEF CanInvite, MemberOf, AssertAdmin
<1>4. CanCreateMatch(g, u) = AssertMember(g, u)
    BY DEF CanCreateMatch, MemberOf, AssertMember
<1>5. \A c \in Candidates(u, g) : MayAdd(g, u, c)
    BY DEF Candidates, Eligible, MayAdd
<1> QED
    BY <1>2, <1>3, <1>4, <1>5 DEF GroupFlags

LEMMA PostFlagsTrue ==
    ASSUME PostInv, NEW p \in Post, NEW u \in User, Exists(p), PostShown(p, u)
    PROVE  LET flags == DetailFlags(p, u)
           IN  /\ flags.apply = MayApply(p, u)
               /\ flags.apply => flags.places # 0
               /\ flags.applied => u \in ShownApplicants(p, post[p].author)
<1> DEFINE flags == DetailFlags(p, u)
<1>0. /\ flags.apply = CanApply(p, u, Applicants(p))
      /\ flags.applied = (u \in Applicants(p))
      /\ flags.places = IF post[p].capacity = None THEN None
                        ELSE IF Cardinality(Applicants(p)) >= post[p].capacity THEN 0
                        ELSE post[p].capacity - Cardinality(Applicants(p))
    BY DEF DetailFlags, PostFlags
<1>1. CanApply(p, u, Applicants(p)) = MayApply(p, u)
    BY DEF CanApply, MayApply, Applicants, PostShown, AssertMember, Findable
<1>2. CanApply(p, u, Applicants(p)) => flags.places # 0
    <2>1. post[p].capacity \in (Nat \ {0}) \cup {None}
        BY CommunityAssumption DEF PostInv, PostRow, Exists
    <2>2. CASE post[p].capacity = None
        BY <1>0, <2>2, CommunityAssumption
    <2>3. CASE post[p].capacity # None
        <3> HIDE DEF flags
        <3> QED
            BY <1>0, <2>1, <2>3, ApplicantsCounted DEF CanApply, Full
    <2> QED
        BY <2>2, <2>3
<1>3. u \in Applicants(p) => u \in ShownApplicants(p, post[p].author)
    BY DEF ShownApplicants, PostShown
<1> QED
    BY <1>0, <1>1, <1>2, <1>3

LEMMA UpdateFlagsTrue ==
    ASSUME PostInv, NEW p \in Post, NEW u \in User, Exists(p)
    PROVE  LET flags == UpdateFlags(p, u)
           IN  /\ MayApply(p, u) => flags.apply /\ flags.places # 0
               /\ flags.apply => u # post[p].author
<1> DEFINE flags == UpdateFlags(p, u)
<1>0. Cardinality({}) = 0
    BY FS_EmptySet
<1>1. /\ flags.apply = CanApply(p, u, {})
      /\ flags.places = IF post[p].capacity = None THEN None
                        ELSE IF 0 >= post[p].capacity THEN 0 ELSE post[p].capacity - 0
    BY <1>0 DEF UpdateFlags, PostFlags
<1>2. post[p].capacity \in (Nat \ {0}) \cup {None}
    BY CommunityAssumption DEF PostInv, PostRow, Exists
<1>3. ~ Full(p, {}) /\ flags.places # 0
    <2> HIDE DEF flags
    <2>1. CASE post[p].capacity = None
        BY <1>1, <2>1, CommunityAssumption DEF Full
    <2>2. CASE post[p].capacity # None
        BY <1>0, <1>1, <1>2, <2>2 DEF Full
    <2> QED
        BY <2>1, <2>2
<1> QED
    BY <1>1, <1>3 DEF CanApply, MayApply

(* What the service tells a user he may do is what the handlers let him do, in *)
(* every reachable state (resolveGroupCapabilities against the checks of       *)
(* updateGroup, addMember and createMatch; resolveApplyCapability against those *)
(* of applyToPost); the answer of updatePost, which counts no applicants, never *)
(* hides an open place, and offers a taken one to operators alone.            *)
THEOREM FlagsTellTheTruth == Spec => []FlagsAreTrue
<1>1. GroupInv /\ PostInv => FlagsAreTrue
    BY GroupFlagsTrue, PostFlagsTrue, UpdateFlagsTrue DEF FlagsAreTrue
<1> QED
    BY <1>1, GroupInit, GroupStep, PostAlways, PTL DEF Spec

(* A list shows what opens, whatever the rows: buildPostVisibilityWhere against *)
(* getPost, listPublicPosts against listPosts, and the members that a user      *)
(* finds against the profiles that open to him.                             *)
THEOREM ListsShowWhatOpens == Spec => []ListsMatchDetails
<1>1. ListsMatchDetails
    <2>1. ASSUME NEW u \in User
          PROVE  /\ Listed(u) = {p \in Post : Exists(p) /\ PostShown(p, u)}
                 /\ \A p \in PublicPosts : Visible(u, post[p].author) => p \in Listed(u)
        BY DEF Listed, PostShown, PublicPosts, Findable
    <2>2. ASSUME NEW u \in User, NEW g \in Group
          PROVE  /\ ListedIn(g, u) \subseteq Listed(u)
                 /\ \A m \in Members(u, g) \cap Found(u) : ProfileOpens(u, m)
        <3>1. ListedIn(g, u) \subseteq Listed(u)
            BY DEF Listed, ListedIn, Findable, AssertMember
        <3>2. \A m \in Members(u, g) \cap Found(u) : ProfileOpens(u, m)
            BY DEF Members, Found, ProfileOpens, Reaches, AssertMember
        <3> QED
            BY <3>1, <3>2
    <2> QED
        BY <2>1, <2>2 DEF ListsMatchDetails
<1> QED
    BY <1>1, PTL

-----------------------------------------------------------------------------
(* Places.                                                                  *)

Applying(p) == {q \in Request : request[q].pc = "apply" /\ request[q].post = p}

(* A capacity is at most the largest so far.                                *)
WithinPeak(p) ==
    /\ peak[p] \in Capacities
    /\ peak[p] # None => post[p].capacity # None /\ post[p].capacity <= peak[p]

(* Requests that have found a free place, and have not taken it, count as    *)
(* well; as many as overlap are past their check at a time.                 *)
HasPlaces(p) ==
    peak[p] # None => Cardinality(Applicants(p)) + Cardinality(Applying(p))
                        < peak[p] + Cardinality(Request)

PlacesInv ==
    /\ peak = [p \in Post |-> peak[p]]
    /\ \A p \in Post : post[p] \in PostRow => WithinPeak(p) /\ HasPlaces(p)

LEMMA PlacesInit == Init => PlacesInv
BY NoneAssumption DEF Init, PlacesInv

LEMMA CapacityIsNat ==
    ASSUME NEW c \in Capacities, c # None
    PROVE  c \in Nat /\ c > 0
BY CommunityAssumption

(* The sets that are counted are finite, before and after a step. *)
LEMMA Counted ==
    ASSUME PostInv, NEW p \in Post
    PROVE  /\ IsFiniteSet(Applicants(p)) /\ IsFiniteSet(Applying(p))
           /\ Cardinality(Applicants(p)) \in Nat /\ Cardinality(Applying(p)) \in Nat
           /\ Cardinality(Request) \in Nat /\ Cardinality(Applying(p)) <= Cardinality(Request)
<1>1. Applicants(p) \in SUBSET User /\ Applying(p) \in SUBSET Request
    BY DEF Applicants, Applying
<1>2. IsFiniteSet(User) /\ IsFiniteSet(Request)
    BY CommunityAssumption
<1>3. /\ IsFiniteSet(Applicants(p)) /\ IsFiniteSet(Applying(p))
      /\ Cardinality(Applying(p)) <= Cardinality(Request)
    BY <1>1, <1>2, FS_Subset
<1> QED
    BY <1>2, <1>3, FS_CardinalityType

LEMMA CountedAfter ==
    ASSUME PostInv', NEW p \in Post
    PROVE  /\ Cardinality(Applicants(p)') \in Nat /\ Cardinality(Applying(p)') \in Nat
           /\ Cardinality(Applying(p)') <= Cardinality(Request)
<1>1. Applicants(p)' \in SUBSET User /\ Applying(p)' \in SUBSET Request
    BY DEF Applicants, Applying
<1>2. IsFiniteSet(User) /\ IsFiniteSet(Request)
    BY CommunityAssumption
<1>3. /\ IsFiniteSet(Applicants(p)') /\ IsFiniteSet(Applying(p)')
      /\ Cardinality(Applying(p)') <= Cardinality(Request)
    BY <1>1, <1>2, FS_Subset
<1> QED
    BY <1>3, FS_CardinalityType

(* Fewer applicants and fewer requests for a place keep the bound. *)
LEMMA FewerKeep ==
    ASSUME PostInv, PostInv', NEW p \in Post, WithinPeak(p), HasPlaces(p), WithinPeak(p)',
           peak'[p] # None => peak[p] # None /\ peak[p] <= peak'[p],
           Applicants(p)' \subseteq Applicants(p), Applying(p)' \subseteq Applying(p)
    PROVE  HasPlaces(p)'
<1>1. /\ Cardinality(Applicants(p)') <= Cardinality(Applicants(p))
      /\ Cardinality(Applying(p)') <= Cardinality(Applying(p))
      /\ Cardinality(Applicants(p)') \in Nat /\ Cardinality(Applying(p)') \in Nat
    BY Counted, FS_Subset, FS_CardinalityType
<1>2. /\ peak[p] # None => peak[p] \in Nat
      /\ peak'[p] # None => peak'[p] \in Nat
    BY CommunityAssumption DEF WithinPeak
<1> QED
    BY <1>1, <1>2, Counted DEF HasPlaces

(* A post that keeps its row, and that nobody applies to in this step. *)
LEMMA SameRowKeeps ==
    ASSUME PostInv, PostInv', PlacesInv, NEW p \in Post, post'[p] \in PostRow,
           UNCHANGED <<post[p], peak[p]>>,
           Applicants(p)' \subseteq Applicants(p), Applying(p)' \subseteq Applying(p)
    PROVE  (WithinPeak(p) /\ HasPlaces(p))'
<1>1. WithinPeak(p) /\ HasPlaces(p)
    BY DEF PlacesInv
<1>2. WithinPeak(p)'
    BY <1>1 DEF WithinPeak
<1>3. peak'[p] # None => peak[p] # None /\ peak[p] <= peak'[p]
    <2>1. peak[p] # None => peak[p] \in Nat
        BY <1>1, CapacityIsNat DEF WithinPeak
    <2> QED
        BY <2>1
<1> QED
    BY <1>1, <1>2, <1>3, FewerKeep

(* A post whose row is replaced, with a capacity that peak keeps up with. *)
LEMMA NewRowKeeps ==
    ASSUME PostInv, PostInv', PlacesInv, NEW p \in Post, post[p] \in PostRow,
           NEW row \in PostRow, post' = [post EXCEPT ![p] = row],
           peak' = [peak EXCEPT ![p] = Larger(@, row.capacity)],
           \A q \in Post : Applicants(q)' \subseteq Applicants(q) /\ Applying(q)' \subseteq Applying(q)
    PROVE  PlacesInv'
<1>1. WithinPeak(p) /\ HasPlaces(p)
    BY DEF PlacesInv
<1>2. /\ peak[p] \in Capacities /\ row.capacity \in Capacities
      /\ peak'[p] = Larger(peak[p], row.capacity) /\ post'[p] = row
    BY <1>1 DEF PlacesInv, WithinPeak, PostRow, PostInv
<1>3. WithinPeak(p)' /\ (peak'[p] # None => peak[p] # None /\ peak[p] <= peak'[p])
    <2>1. CASE None \in {peak[p], row.capacity}
        <3>1. peak'[p] = None
            BY <1>2, <2>1 DEF Larger
        <3> QED
            BY <1>2, <2>1, <3>1 DEF WithinPeak
    <2>2. CASE None \notin {peak[p], row.capacity}
        <3>1. peak[p] \in Nat /\ row.capacity \in Nat
            BY <1>2, <2>2, CapacityIsNat
        <3>2. peak'[p] = IF peak[p] > row.capacity THEN peak[p] ELSE row.capacity
            BY <1>2, <2>2 DEF Larger
        <3> QED
            BY <1>2, <2>2, <3>1, <3>2 DEF WithinPeak
    <2> QED
        BY <2>1, <2>2
<1>4. HasPlaces(p)'
    BY <1>1, <1>3, FewerKeep
<1>5. ASSUME NEW q \in Post \ {p}, post'[q] \in PostRow
      PROVE  (WithinPeak(q) /\ HasPlaces(q))'
    <2>1. UNCHANGED <<post[q], peak[q]>>
        BY DEF PostInv, PlacesInv
    <2> QED
        BY <1>5, <2>1, SameRowKeeps
<1>6. peak' = [q \in Post |-> peak'[q]]
    BY DEF PlacesInv
<1> QED
    BY <1>3, <1>4, <1>5, <1>6 DEF PlacesInv

(* A post of the same capacity. *)
LEMMA SameCapacityKeeps ==
    ASSUME PostInv, PostInv', PlacesInv, NEW p \in Post, post[p] \in PostRow,
           NEW row \in PostRow, post' = [post EXCEPT ![p] = row],
           row.capacity = post[p].capacity, UNCHANGED peak,
           \A q \in Post : Applicants(q)' \subseteq Applicants(q) /\ Applying(q)' \subseteq Applying(q)
    PROVE  PlacesInv'
<1>1. WithinPeak(p)
    BY DEF PlacesInv
<1>2. Larger(peak[p], row.capacity) = peak[p]
    <2>1. CASE peak[p] = None
        BY <2>1 DEF Larger
    <2>2. CASE peak[p] # None
        <3>1. peak[p] \in Nat /\ row.capacity \in Nat /\ row.capacity # None /\ row.capacity <= peak[p]
            BY <1>1, <2>2, CapacityIsNat DEF WithinPeak, PostRow
        <3> QED
            BY <2>2, <3>1 DEF Larger
    <2> QED
        BY <2>1, <2>2
<1>3. peak' = [peak EXCEPT ![p] = Larger(@, row.capacity)]
    BY <1>2 DEF PlacesInv
<1> QED
    BY <1>3, NewRowKeeps

(* Rows and applications as they were, and nobody new past the checks. *)
LEMMA NobodyAppliesKeeps ==
    ASSUME PostInv, PostInv', PlacesInv, UNCHANGED <<post, application, peak>>,
           \A q \in Request : request'[q].pc = "apply" => request'[q] = request[q]
    PROVE  PlacesInv'
<1>1. ASSUME NEW p \in Post, post'[p] \in PostRow
      PROVE  (WithinPeak(p) /\ HasPlaces(p))'
    <2>1. Applicants(p)' \subseteq Applicants(p) /\ Applying(p)' \subseteq Applying(p)
        BY DEF Applicants, Applying
    <2> QED
        BY <1>1, <2>1, SameRowKeeps
<1> QED
    BY <1>1 DEF PlacesInv

LEMMA PlacesStepKeeps ==
    ASSUME NEW r \in Request, PostInv, PostInv', PlacesInv, PostSteps(r)
    PROVE  PlacesInv'
<1>1. ASSUME NEW u \in User, NEW g \in Group, NEW capacity \in Capacities,
             CreatePostRead(r, u, g, capacity)
      PROVE  PlacesInv'
    BY <1>1, NobodyAppliesKeeps DEF CreatePostRead, Goto, PostInv
<1>2. ASSUME NEW u \in User, NEW p \in Post,
             \/ \E handler \in {"updatePost", "deletePost"} : EditPost(r, u, p, handler)
             \/ CancelRead(r, u, p)
      PROVE  PlacesInv'
    <2>1. PICK x : Goto(r, x) /\ x.pc # "apply" /\ UNCHANGED <<post, application, peak>>
        BY <1>2 DEF EditPost, CancelRead
    <2>2. \A q \in Request : request'[q].pc = "apply" => request'[q] = request[q]
        BY <2>1 DEF Goto, PostInv
    <2> QED
        BY <2>1, <2>2, NobodyAppliesKeeps
<1>3. ASSUME NEW u \in User, NEW p \in Post, ApplyRead(r, u, p)
      PROVE  PlacesInv'
    <2>1. /\ UNCHANGED <<post, application, peak>> /\ ~ Full(p, Applicants(p))
          /\ \A q \in Post : /\ Applicants(q)' = Applicants(q)
                             /\ q # p => Applying(q)' \subseteq Applying(q)
        BY <1>3 DEF ApplyRead, MayApply, Goto, PostInv, Applicants, Applying
    <2>2. ASSUME NEW q \in Post \ {p}, post'[q] \in PostRow
          PROVE  (WithinPeak(q) /\ HasPlaces(q))'
        BY <2>1, <2>2, SameRowKeeps
    <2>3. ASSUME post'[p] \in PostRow
          PROVE  (WithinPeak(p) /\ HasPlaces(p))'
        <3>1. WithinPeak(p) /\ WithinPeak(p)'
            BY <2>1, <2>3 DEF PlacesInv, WithinPeak
        <3>2. peak[p] # None => peak[p] \in Nat /\ post[p].capacity \in Nat
            BY <2>1, <2>3, <3>1, CapacityIsNat DEF WithinPeak, PostRow
        <3>3. peak[p] # None => Cardinality(Applicants(p)) < peak[p]
            <4>1. ASSUME peak[p] # None
                  PROVE  Cardinality(Applicants(p)) < post[p].capacity
                <5>1. ~ (Cardinality(Applicants(p)) >= post[p].capacity)
                    BY <2>1, <3>1, <4>1 DEF Full, WithinPeak
                <5> QED
                    BY <3>2, <4>1, <5>1, Counted
            <4> QED
                BY <3>1, <3>2, <4>1, Counted DEF WithinPeak
        <3>4. HasPlaces(p)'
            <4>1. /\ Cardinality(Applicants(p)') = Cardinality(Applicants(p))
                  /\ Cardinality(Applying(p)') \in Nat /\ Cardinality(Request) \in Nat
                  /\ Cardinality(Applying(p)') <= Cardinality(Request)
                BY <2>1, Counted, CountedAfter
            <4> QED
                BY <2>1, <3>2, <3>3, <4>1, Counted DEF HasPlaces
        <3> QED
            BY <3>1, <3>4
    <2> QED
        BY <2>1, <2>2, <2>3 DEF PlacesInv
<1>4. ASSUME NEW p \in Post, CreatePost(r, p)
      PROVE  PlacesInv'
    <2>1. /\ post[p] = None /\ request[r].capacity \in Capacities
          /\ peak' = [peak EXCEPT ![p] = request[r].capacity]
          /\ \A q \in Post : q # p => post'[q] = post[q]
          /\ post'[p].capacity = request[r].capacity
          /\ UNCHANGED application
          /\ \A q \in Request : request'[q].pc = "apply" => request'[q] = request[q]
        BY <1>4 DEF CreatePost, Exists, Goto, PostInv, PostRequestOK
    <2>2. Applicants(p)' = {} /\ Applying(p)' = {}
        <3>1. post[p] \notin PostRow
            BY <2>1, NoneAssumption
        <3>2. \A a \in application' : a[1] # p
            BY <2>1, <3>1 DEF PostInv
        <3>3. \A q \in Request : request[q].pc = "apply" => request[q].post # p
            BY <3>1 DEF PostInv, PostRequestOK, PostHandlers
        <3>4. Applicants(p)' = {}
            BY <3>2 DEF Applicants
        <3>5. Applying(p)' = {}
            BY <2>1, <3>3 DEF Applying
        <3> QED
            BY <3>4, <3>5
    <2>3. peak'[p] = request[r].capacity /\ WithinPeak(p)'
        BY <2>1, CommunityAssumption DEF PlacesInv, WithinPeak
    <2>4. HasPlaces(p)'
        <3>1. Cardinality(Applicants(p)') = 0 /\ Cardinality(Applying(p)') = 0
            BY <2>2, FS_EmptySet
        <3>2. peak'[p] # None => peak'[p] \in Nat /\ peak'[p] > 0
            BY <2>1, <2>3, CapacityIsNat
        <3> QED
            BY <3>1, <3>2, Counted DEF HasPlaces
    <2>5. ASSUME NEW q \in Post \ {p}, post'[q] \in PostRow
          PROVE  (WithinPeak(q) /\ HasPlaces(q))'
        <3>1. Applicants(q)' \subseteq Applicants(q) /\ Applying(q)' \subseteq Applying(q)
            BY <2>1 DEF Applicants, Applying
        <3>2. UNCHANGED <<post[q], peak[q]>>
            BY <2>1 DEF PlacesInv
        <3> QED
            BY <2>5, <3>1, <3>2, SameRowKeeps
    <2>6. peak' = [q \in Post |-> peak'[q]]
        BY <2>1 DEF PlacesInv
    <2> QED
        BY <2>3, <2>4, <2>5, <2>6 DEF PlacesInv
<1>5. ASSUME UNCHANGED application \/ application' \subseteq application,
             \A q \in Request : request'[q].pc = "apply" => request'[q] = request[q]
      PROVE  \A q \in Post : Applicants(q)' \subseteq Applicants(q) /\ Applying(q)' \subseteq Applying(q)
    BY <1>5 DEF Applicants, Applying
<1>6. ASSUME NEW status \in PostStatus, NEW capacity \in Capacities, UpdatePost(r, status, capacity)
      PROVE  PlacesInv'
    <2>1. PICK p \in Post : p = request[r].post /\ post[p] \in PostRow
        BY <1>6 DEF UpdatePost, PostInv, PostRequestOK, PostHandlers
    <2> DEFINE row == [post[p] EXCEPT !.status = status, !.capacity = capacity]
    <2>2. row \in PostRow /\ row.capacity = capacity
        BY <2>1 DEF PostRow
    <2>3. /\ post' = [post EXCEPT ![p] = row]
          /\ peak' = [peak EXCEPT ![p] = Larger(@, capacity)]
          /\ UNCHANGED application
          /\ \A q \in Request : request'[q].pc = "apply" => request'[q] = request[q]
        BY <1>6, <2>1 DEF UpdatePost, Leave, Goto, Idle, PostInv
    <2> QED
        BY <1>5, <2>1, <2>2, <2>3, NewRowKeeps
<1>7. ASSUME NEW p \in Post, NEW status \in PostStatus, SetPostStatus(r, p, status)
      PROVE  PlacesInv'
    <2>1. post[p] \in PostRow
        BY <1>7 DEF SetPostStatus, Exists, PostInv
    <2> DEFINE row == [post[p] EXCEPT !.status = status]
    <2>2. row \in PostRow /\ row.capacity = post[p].capacity
        BY <2>1 DEF PostRow
    <2>3. /\ post' = [post EXCEPT ![p] = row] /\ UNCHANGED <<application, peak>>
          /\ \A q \in Request : request'[q].pc = "apply" => request'[q] = request[q]
        BY <1>7, <2>1 DEF SetPostStatus, Leave, Goto, Idle, ModerationRest, PostInv
    <2> QED
        BY <1>5, <2>1, <2>2, <2>3, SameCapacityKeeps
<1>8. CASE DeletePost(r)
    <2>1. PICK p \in Post : p = request[r].post /\ post[p] \in PostRow
        BY <1>8 DEF DeletePost, PostInv, PostRequestOK, PostHandlers
    <2> DEFINE row == [post[p] EXCEPT !.deleted = TRUE, !.status = "CANCELLED"]
    <2>2. row \in PostRow /\ row.capacity = post[p].capacity
        BY <2>1 DEF PostRow, PostStatus
    <2>3. /\ post' = [post EXCEPT ![p] = row] /\ UNCHANGED peak
          /\ application' \subseteq application
          /\ \A q \in Request : request'[q].pc = "apply" => request'[q] = request[q]
        BY <1>8, <2>1 DEF DeletePost, Leave, Goto, Idle, PostInv
    <2> QED
        BY <1>5, <2>1, <2>2, <2>3, SameCapacityKeeps
<1>9. CASE Apply(r)
    <2>1. PICK p \in Post, u \in User :
             /\ request[r].pc = "apply" /\ request[r].post = p
             /\ UNCHANGED <<post, peak>>
             /\ application' = application \cup {<<p, u>>}
             /\ request' = [q \in Request |-> request'[q]]
             /\ \A q \in Request \ {r} : request'[q] = request[q]
             /\ request'[r].pc \in {"idle", "announce"}
        <3> DEFINE p == request[r].post
                   u == request[r].user
        <3>1. /\ p \in Post /\ u \in User /\ request[r].pc = "apply"
              /\ UNCHANGED <<post, peak>>
              /\ application' = application \cup {<<p, u>>}
            BY <1>9 DEF Apply, PostInv, PostRequestOK, PostHandlers
        <3>2. Leave(r) \/ Goto(r, [pc |-> "announce", to |-> {post[p].author}])
            BY <1>9 DEF Apply, Announce
        <3>3. PICK x : Goto(r, x) /\ x.pc \in {"idle", "announce"}
            BY <3>2 DEF Leave, Idle
        <3> QED
            BY <3>1, <3>3 DEF Goto, PostInv
    <2>2. ASSUME NEW q \in Post \ {p}, post'[q] \in PostRow
          PROVE  (WithinPeak(q) /\ HasPlaces(q))'
        <3>1. Applicants(q)' \subseteq Applicants(q) /\ Applying(q)' \subseteq Applying(q)
            BY <2>1 DEF Applicants, Applying
        <3> QED
            BY <2>1, <2>2, <3>1, SameRowKeeps
    <2>3. ASSUME post'[p] \in PostRow
          PROVE  (WithinPeak(p) /\ HasPlaces(p))'
        <3>1. WithinPeak(p) /\ WithinPeak(p)' /\ HasPlaces(p)
            <4>1. post[p] \in PostRow
                BY <2>1, <2>3
            <4> QED
                BY <2>1, <4>1 DEF PlacesInv, WithinPeak
        <3>2. Applicants(p)' = Applicants(p) \cup {u}
            BY <2>1 DEF Applicants
        <3>3. r \in Applying(p) /\ Applying(p)' = Applying(p) \ {r}
            BY <2>1 DEF Applying
        <3>4. Cardinality(Applicants(p)') <= Cardinality(Applicants(p)) + 1
            <4>1. Cardinality(Applicants(p) \cup {u}) =
                    IF u \in Applicants(p) THEN Cardinality(Applicants(p))
                    ELSE Cardinality(Applicants(p)) + 1
                BY <2>1, Counted, FS_AddElement
            <4> QED
                BY <2>1, <3>2, <4>1, Counted
        <3>5. Cardinality(Applying(p)') = Cardinality(Applying(p)) - 1
            BY <2>1, <3>3, Counted, FS_RemoveElement, ZenonT(30)
        <3>6. /\ Cardinality(Applicants(p)') \in Nat /\ Cardinality(Applying(p)') \in Nat
              /\ Cardinality(Applicants(p)) \in Nat /\ Cardinality(Applying(p)) \in Nat
              /\ Cardinality(Request) \in Nat
            BY <2>1, Counted, CountedAfter
        <3>7. peak[p] # None => peak[p] \in Nat
            BY <3>1, CommunityAssumption DEF WithinPeak
        <3>8. HasPlaces(p)'
            BY <2>1, <3>1, <3>4, <3>5, <3>6, <3>7 DEF HasPlaces
        <3> QED
            BY <3>1, <3>8
    <2> QED
        <3>1. peak' = [q \in Post |-> peak'[q]]
            BY <2>1 DEF PlacesInv
        <3> QED
            BY <2>2, <2>3, <3>1 DEF PlacesInv
<1>10. CASE Cancel(r)
    <2>1. /\ UNCHANGED <<post, peak>> /\ application' \subseteq application
          /\ \A q \in Request : request'[q].pc = "apply" => request'[q] = request[q]
        BY <1>10 DEF Cancel, Announce, Leave, Goto, Idle, PostInv
    <2>2. ASSUME NEW q \in Post, post'[q] \in PostRow
          PROVE  (WithinPeak(q) /\ HasPlaces(q))'
        BY <1>5, <2>1, <2>2, SameRowKeeps
    <2> QED
        BY <2>1, <2>2 DEF PlacesInv
<1> QED
    BY <1>1, <1>2, <1>3, <1>4, <1>6, <1>7, <1>8, <1>9, <1>10 DEF PostSteps

LEMMA PlacesStep ==
    ASSUME PostInv, PostInv', PlacesInv, [Next]_communityVars
    PROVE  PlacesInv'
<1>0. scope.users \subseteq User
    BY CommunityAssumption DEF PostInv
<1>1. ASSUME NEW r \in Request, NoPost(r) PROVE PlacesInv'
    <2>1. UNCHANGED <<post, application, peak>>
        BY <1>1 DEF NoPost
    <2>2. \A q \in Request : request'[q].pc = "apply" => request'[q] = request[q]
        BY <1>1 DEF NoPost, PostHandlers
    <2> QED
        BY <2>1, <2>2, NobodyAppliesKeeps
<1>2. ASSUME NEW r \in Request, Begin(r) PROVE PlacesInv'
    BY <1>0, <1>1, <1>2, BeginPosts, PlacesStepKeeps DEF Begin
<1>3. ASSUME NEW r \in Request, Continue(r) PROVE PlacesInv'
    BY <1>1, <1>3, ContinuePosts, PlacesStepKeeps
<1>4. ASSUME NEW r \in Request, Abort(r) PROVE PlacesInv'
    BY <1>1, <1>4, LeaveNoPost DEF Abort, social
<1>5. CASE \/ \E u, target \in scope.users : WindowPasses(u, target)
           \/ NoticeStep \/ UNCHANGED communityVars
    <2>1. UNCHANGED <<post, application, peak, request>>
        BY <1>5 DEF WindowPasses, ModerationRest, NoticeStep, TakeNotice, Deliver, MarkSentRead,
           MarkSent, JobDone, NoticeFails, NoticeCrash, NoticeRest, communityVars, social
    <2> QED
        BY <2>1, NobodyAppliesKeeps
<1> QED
    BY <1>2, <1>3, <1>4, <1>5 DEF Next

(* A post takes at most as many applicants beyond its largest capacity as requests *)
(* overlap: applyToPost counts the applications, and creates one later.            *)
THEOREM OverbookedByOverlap == Spec => []OverbookedOnlyByOverlap
<1>1. PostInv /\ PlacesInv => OverbookedOnlyByOverlap
    <2> SUFFICES ASSUME PostInv, PlacesInv, NEW p \in Post, Exists(p), peak[p] # None
                 PROVE  Cardinality(Applicants(p)) < peak[p] + Cardinality(Request)
        BY DEF OverbookedOnlyByOverlap
    <2>1. WithinPeak(p) /\ HasPlaces(p)
        BY DEF PostInv, PlacesInv, Exists
    <2>2. peak[p] \in Nat
        BY <2>1, CommunityAssumption DEF WithinPeak
    <2> QED
        BY <2>1, <2>2, Counted DEF HasPlaces
<1> QED
    BY <1>1, PlacesInit, PlacesStep, PostAlways, PTL DEF Spec

-----------------------------------------------------------------------------
(* Reports.                                                                 *)

Reporting(u, t) ==
    {q \in Request : request[q].pc = "report" /\ request[q].user = u /\ request[q].target = t}

(* A report that a request is about to write counts as well; there are none to *)
(* count with it when the request has found no recent one.                  *)
ReportsCounted(u, t) == report[u][t] + Cardinality(Reporting(u, t)) <= Cardinality(Request)

ReportInv ==
    /\ scope \in Scopes
    /\ request = [r \in Request |-> request[r]]
    /\ report \in [User -> [User -> Nat]]
    /\ \A r \in Request : request[r].pc = "report" => request[r].user \in User /\ request[r].target \in User
    /\ \A u, t \in User : ReportsCounted(u, t)

(* A step of a request that concerns no report. *)
NoReport(r) ==
    /\ UNCHANGED <<scope, report>>
    /\ request' = [q \in Request |-> request'[q]]
    /\ \A q \in Request \ {r} : request'[q] = request[q]
    /\ request'[r].pc # "report" \/ request'[r] = request[r]

LEMMA GotoNoReport ==
    ASSUME NEW r \in Request, ReportInv, NEW x, Goto(r, x), x.pc # "report",
           UNCHANGED <<scope, report>>
    PROVE  NoReport(r)
BY DEF Goto, NoReport, ReportInv

LEMMA LeaveNoReport ==
    ASSUME NEW r \in Request, ReportInv, Leave(r), UNCHANGED <<scope, report>>
    PROVE  NoReport(r)
BY GotoNoReport DEF Leave, Idle

LEMMA AnnounceNoReport ==
    ASSUME NEW r \in Request, NEW users, ReportInv, Announce(r, users), UNCHANGED <<scope, report>>
    PROVE  NoReport(r)
<1>1. CASE users = {}
    BY <1>1, LeaveNoReport DEF Announce
<1>2. CASE users # {}
    BY <1>2, GotoNoReport DEF Announce
<1> QED
    BY <1>1, <1>2

(* The sets of requests that are counted, before and after a step. *)
LEMMA ReportingCounted ==
    ASSUME NEW u \in User, NEW t \in User
    PROVE  /\ IsFiniteSet(Reporting(u, t)) /\ IsFiniteSet(Reporting(u, t)')
           /\ Cardinality(Reporting(u, t)) \in Nat /\ Cardinality(Reporting(u, t)') \in Nat
           /\ Cardinality(Reporting(u, t)) <= Cardinality(Request)
           /\ Cardinality(Reporting(u, t)') <= Cardinality(Request)
           /\ Cardinality(Request) \in Nat
<1>1. Reporting(u, t) \in SUBSET Request /\ Reporting(u, t)' \in SUBSET Request
    BY DEF Reporting
<1>2. IsFiniteSet(Request)
    BY CommunityAssumption
<1>3. /\ IsFiniteSet(Reporting(u, t)) /\ IsFiniteSet(Reporting(u, t)')
      /\ Cardinality(Reporting(u, t)) <= Cardinality(Request)
      /\ Cardinality(Reporting(u, t)') <= Cardinality(Request)
    BY <1>1, <1>2, FS_Subset
<1> QED
    BY <1>2, <1>3, FS_CardinalityType

(* Fewer reports and fewer requests that report keep the bound. *)
LEMMA FewerReportsKeep ==
    ASSUME ReportInv, NEW u \in User, NEW t \in User,
           report'[u][t] \in Nat, report'[u][t] <= report[u][t],
           Reporting(u, t)' \subseteq Reporting(u, t)
    PROVE  ReportsCounted(u, t)'
<1>1. Cardinality(Reporting(u, t)') <= Cardinality(Reporting(u, t))
    BY ReportingCounted, FS_Subset
<1>2. report[u][t] \in Nat /\ ReportsCounted(u, t)
    BY DEF ReportInv
<1> QED
    BY <1>1, <1>2, ReportingCounted DEF ReportsCounted

LEMMA NoReportKeeps ==
    ASSUME NEW r \in Request, ReportInv, NoReport(r)
    PROVE  ReportInv'
<1>1. ASSUME NEW u \in User, NEW t \in User
      PROVE  ReportsCounted(u, t)'
    <2>1. report'[u][t] = report[u][t] /\ report[u][t] \in Nat
        BY DEF NoReport, ReportInv
    <2>2. Reporting(u, t)' \subseteq Reporting(u, t)
        BY DEF NoReport, Reporting
    <2> QED
        BY <2>1, <2>2, FewerReportsKeep
<1> QED
    BY <1>1 DEF NoReport, ReportInv

LEMMA BeginNoReport ==
    ASSUME NEW r \in Request, NEW u \in User, ReportInv,
           GroupBegins(r, u) \/ PostBegins(r, u) \/ UserBegins(r, u)
    PROVE  NoReport(r) \/ \E t \in User : ReportRead(r, u, t)
<1>0. scope.users \subseteq User
    BY CommunityAssumption DEF ReportInv
<1>1. CASE GroupBegins(r, u)
    <2>1. CASE \E g \in Group, private \in BOOLEAN : CreateGroup(r, u, g, private)
        BY <2>1 DEF CreateGroup, GroupRest, NoReport, ReportInv
    <2>2. CASE \/ \E g \in Group, handler \in {"updateGroup", "archiveGroup"} :
                    EditGroup(r, u, g, handler)
               \/ \E g \in Group, target \in scope.users, role \in Role :
                    AddMemberRead(r, u, g, target, role)
        BY <2>2, GotoNoReport DEF EditGroup, AddMemberRead, GroupRest
    <2>3. CASE \E g \in Group, capacity \in Capacities : CreatePostRead(r, u, g, capacity)
        BY <2>3, GotoNoReport DEF CreatePostRead, PostRest
    <2> QED
        BY <1>1, <2>1, <2>2, <2>3 DEF GroupBegins
<1>2. CASE PostBegins(r, u)
    BY <1>2, GotoNoReport DEF PostBegins, EditPost, ApplyRead, CancelRead, PostRest
<1>3. CASE UserBegins(r, u)
    <2>1. CASE \/ \E target \in scope.users : BlockRead(r, u, target)
               \/ \E handler \in {"adminFlag", "postStatus"} : OperatorRead(r, u, handler)
        BY <2>1, GotoNoReport DEF BlockRead, OperatorRead, ModerationRest
    <2>2. CASE (\E target \in scope.users : Unblock(r, u, target)) \/ Withdraw(r, u)
        BY <2>2 DEF Unblock, Withdraw, ModerationRest, NoReport, ReportInv
    <2>3. CASE (\E n \in Notice : MarkRead(r, u, n)) \/ MarkAllRead(r, u)
        BY <2>3 DEF MarkRead, MarkAllRead, NoticeRest, social, NoReport, ReportInv
    <2> QED
        BY <1>0, <1>3, <2>1, <2>2, <2>3 DEF UserBegins
<1> QED
    BY <1>1, <1>2, <1>3

LEMMA ContinueNoReport ==
    ASSUME NEW r \in Request, ReportInv, Continue(r)
    PROVE  NoReport(r) \/ Report(r)
<1>1. CASE \/ \E private \in BOOLEAN : UpdateGroup(r, private)
           \/ ArchiveGroup(r) \/ AddMember(r)
    BY <1>1, LeaveNoReport DEF UpdateGroup, ArchiveGroup, AddMember, GroupRest
<1>2. CASE \E p \in Post : CreatePost(r, p)
    BY <1>2, GotoNoReport DEF CreatePost, PostRest
<1>3. CASE TellMembers(r) \/ Apply(r) \/ Cancel(r)
    BY <1>3, LeaveNoReport, AnnounceNoReport DEF TellMembers, Apply, Cancel, PostRest
<1>4. CASE \/ \E status \in PostStatus, capacity \in Capacities : UpdatePost(r, status, capacity)
           \/ DeletePost(r)
    BY <1>4, LeaveNoReport DEF UpdatePost, DeletePost, PostRest
<1>5. CASE \/ Block(r)
           \/ \E target \in scope.users, isAdmin \in BOOLEAN : SetAdminFlag(r, target, isAdmin)
           \/ \E p \in Post, status \in PostStatus : SetPostStatus(r, p, status)
    BY <1>5, LeaveNoReport DEF Block, SetAdminFlag, SetPostStatus, ModerationRest
<1>6. CASE \E u \in User : AnnounceCreate(r, u)
    BY <1>6, GotoNoReport DEF AnnounceCreate, NoticeRest, social
<1>7. CASE AnnounceQueue(r)
    BY <1>7, AnnounceNoReport DEF AnnounceQueue, NoticeRest, social
<1>8. CASE NobodyTold(r)
    BY <1>8, LeaveNoReport DEF NobodyTold, NoticeRest, social
<1> QED
    BY <1>1, <1>2, <1>3, <1>4, <1>5, <1>6, <1>7, <1>8 DEF Continue

LEMMA ReportReadKeeps ==
    ASSUME NEW r \in Request, NEW u \in User, NEW t \in User, ReportInv, ReportRead(r, u, t)
    PROVE  ReportInv'
<1>1. /\ UNCHANGED <<scope, report>> /\ report[u][t] = 0
      /\ request' = [request EXCEPT ![r] = [pc |-> "report", user |-> u, target |-> t]]
    BY DEF ReportRead, RecentlyReported, Goto, ModerationRest, ReportInv
<1>2. ASSUME NEW v \in User, NEW w \in User
      PROVE  ReportsCounted(v, w)'
    <2>1. CASE v = u /\ w = t
        BY <1>1, <2>1, ReportingCounted DEF ReportsCounted
    <2>2. CASE v # u \/ w # t
        <3>1. report'[v][w] = report[v][w] /\ report[v][w] \in Nat
            BY <1>1 DEF ReportInv
        <3>2. Reporting(v, w)' \subseteq Reporting(v, w)
            BY <1>1, <2>2 DEF Reporting, ReportInv
        <3> QED
            BY <3>1, <3>2, FewerReportsKeep
    <2> QED
        BY <2>1, <2>2
<1> QED
    BY <1>1, <1>2 DEF ReportInv

LEMMA ReportKeeps ==
    ASSUME NEW r \in Request, ReportInv, Report(r)
    PROVE  ReportInv'
<1>1. PICK u \in User, t \in User :
         /\ request[r].pc = "report" /\ request[r].user = u /\ request[r].target = t
         /\ report' = [report EXCEPT ![u][t] = @ + 1]
         /\ UNCHANGED scope /\ request' = [request EXCEPT ![r] = Idle]
    BY DEF Report, Leave, Goto, ModerationRest, ReportInv
<1>2. ReportsCounted(u, t)'
    <2>1. r \in Reporting(u, t) /\ Reporting(u, t)' = Reporting(u, t) \ {r}
        BY <1>1 DEF Reporting, Idle, ReportInv
    <2>2. Cardinality(Reporting(u, t)') = Cardinality(Reporting(u, t)) - 1
        BY <2>1, ReportingCounted, FS_RemoveElement, ZenonT(30)
    <2>3. /\ report[u][t] \in Nat /\ report'[u][t] = report[u][t] + 1
          /\ ReportsCounted(u, t)
        BY <1>1 DEF ReportInv
    <2> QED
        BY <2>2, <2>3, ReportingCounted DEF ReportsCounted
<1>3. ASSUME NEW v \in User, NEW w \in User, v # u \/ w # t
      PROVE  ReportsCounted(v, w)'
    <2>1. report'[v][w] = report[v][w] /\ report[v][w] \in Nat
        BY <1>1, <1>3 DEF ReportInv
    <2>2. Reporting(v, w)' \subseteq Reporting(v, w)
        BY <1>1 DEF Reporting, Idle, ReportInv
    <2> QED
        BY <2>1, <2>2, FewerReportsKeep
<1>4. report' \in [User -> [User -> Nat]]
    BY <1>1 DEF ReportInv
<1>5. \A q \in Request : request'[q].pc = "report" => request'[q] = request[q]
    BY <1>1 DEF Idle, ReportInv
<1>6. scope' \in Scopes /\ request' = [q \in Request |-> request'[q]]
    BY <1>1 DEF ReportInv
<1> QED
    BY <1>2, <1>3, <1>4, <1>5, <1>6 DEF ReportInv

LEMMA ReportInit == Init => ReportInv
<1> SUFFICES ASSUME Init PROVE ReportInv
    OBVIOUS
<1>1. /\ scope \in Scopes /\ request = [r \in Request |-> Idle]
      /\ report = [u \in User |-> [t \in User |-> 0]]
    BY DEF Init
<1>2. ASSUME NEW u \in User, NEW t \in User
      PROVE  ReportsCounted(u, t)
    BY <1>1, ReportingCounted DEF ReportsCounted
<1> QED
    BY <1>1, <1>2 DEF ReportInv, Idle

LEMMA ReportStep ==
    ASSUME ReportInv, [Next]_communityVars
    PROVE  ReportInv'
<1>0. scope.users \subseteq User
    BY CommunityAssumption DEF ReportInv
<1>1. ASSUME NEW r \in Request, Begin(r) PROVE ReportInv'
    BY <1>0, <1>1, BeginNoReport, NoReportKeeps, ReportReadKeeps DEF Begin
<1>2. ASSUME NEW r \in Request, Continue(r) PROVE ReportInv'
    BY <1>2, ContinueNoReport, NoReportKeeps, ReportKeeps
<1>3. ASSUME NEW r \in Request, Abort(r) PROVE ReportInv'
    BY <1>3, LeaveNoReport, NoReportKeeps DEF Abort, social
<1>4. ASSUME NEW u \in User, NEW t \in User, WindowPasses(u, t) PROVE ReportInv'
    <2>1. UNCHANGED <<scope, request>> /\ report' = [report EXCEPT ![u][t] = 0]
        BY <1>4 DEF WindowPasses, ModerationRest
    <2>2. ASSUME NEW v \in User, NEW w \in User
          PROVE  ReportsCounted(v, w)'
        <3>1. report'[v][w] \in Nat /\ report[v][w] \in Nat /\ report'[v][w] <= report[v][w]
            BY <2>1 DEF ReportInv
        <3>2. Reporting(v, w)' \subseteq Reporting(v, w)
            BY <2>1 DEF Reporting
        <3> QED
            BY <3>1, <3>2, FewerReportsKeep
    <2>3. report' \in [User -> [User -> Nat]]
        BY <2>1 DEF ReportInv
    <2> QED
        BY <2>1, <2>2, <2>3 DEF ReportInv
<1>5. CASE NoticeStep \/ UNCHANGED communityVars
    <2>1. UNCHANGED <<scope, report, request>>
        BY <1>5 DEF NoticeStep, TakeNotice, Deliver, MarkSentRead, MarkSent, JobDone, NoticeFails,
           NoticeCrash, NoticeRest, communityVars, social
    <2> QED
        BY <2>1 DEF ReportInv, ReportsCounted, Reporting
<1> QED
    BY <1>0, <1>1, <1>2, <1>3, <1>4, <1>5 DEF Next

(* A user is reported by the same user once per ten minutes, or as often as      *)
(* requests overlap: createReport looks for a recent report, and writes later.   *)
THEOREM ReportsStayBounded == Spec => []ReportsBounded
<1>1. ReportInv => ReportsBounded
    <2> SUFFICES ASSUME ReportInv, NEW u \in User, NEW t \in User
                 PROVE  report[u][t] <= Cardinality(Request)
        BY DEF ReportsBounded
    <2>1. report[u][t] \in Nat /\ ReportsCounted(u, t)
        BY DEF ReportInv
    <2> QED
        BY <2>1, ReportingCounted DEF ReportsCounted
<1> QED
    BY <1>1, ReportInit, ReportStep, PTL DEF Spec

-----------------------------------------------------------------------------
(* Requests and notifications.                                              *)

Job == [notice : Notice, redelivered : BOOLEAN]

WorkerOK ==
    noticeWorker # Idle =>
        /\ noticeWorker \in [pc : {"deliver", "markRead", "markWrite", "done"}, job : Job,
                            readAt : BOOLEAN]
        /\ noticeWorker.job.notice \in DOMAIN notice
        /\ noticeWorker.pc = "deliver" => notice[noticeWorker.job.notice].sentAt = FALSE
        /\ noticeWorker.pc \in {"markRead", "markWrite"} =>
              deliveries[noticeWorker.job.notice] > 0

(* Jobs, whether requests are about to queue them, they wait or they are in   *)
(* progress, are about rows that exist; a row that was sent is not pending;   *)
(* and the worker delivers only what was not sent, marks only what it has     *)
(* delivered.                                                               *)
MailInv ==
    /\ scope \in Scopes
    /\ request = [r \in Request |-> request[r]]
    /\ notice \in Seq(NoticeRow) /\ Len(notice) <= MaxNotices
    /\ noticeQueue \in Seq(Job)
    /\ \A i \in DOMAIN noticeQueue : noticeQueue[i].notice \in DOMAIN notice
    /\ \A r \in Request : request[r].pc = "enqueue" => request[r].notice \in DOMAIN notice
    /\ deliveries \in [Notice -> Nat]
    /\ \A n \in DOMAIN notice : notice[n].status = "PENDING" => notice[n].sentAt = FALSE
    /\ WorkerOK

(* A step of a request that leaves the mail alone and queues nothing. *)
Quiet(r) ==
    /\ UNCHANGED <<scope, notice, noticeQueue, noticeWorker, deliveries>>
    /\ request' = [q \in Request |-> request'[q]]
    /\ \A q \in Request \ {r} : request'[q] = request[q]
    /\ request'[r].pc # "enqueue" \/ request'[r] = request[r]

LEMMA GotoQuiet ==
    ASSUME NEW r \in Request, NEW x, request = [q \in Request |-> request[q]],
           Goto(r, x), x.pc # "enqueue",
           UNCHANGED <<scope, notice, noticeQueue, noticeWorker, deliveries>>
    PROVE  Quiet(r)
BY DEF Goto, Quiet

LEMMA LeaveQuiet ==
    ASSUME NEW r \in Request, request = [q \in Request |-> request[q]], Leave(r),
           UNCHANGED <<scope, notice, noticeQueue, noticeWorker, deliveries>>
    PROVE  Quiet(r)
BY DEF Goto, Leave, Idle, Quiet

LEMMA AnnounceQuiet ==
    ASSUME NEW r \in Request, NEW users, request = [q \in Request |-> request[q]],
           Announce(r, users),
           UNCHANGED <<scope, notice, noticeQueue, noticeWorker, deliveries>>
    PROVE  Quiet(r)
BY LeaveQuiet DEF Goto, Announce, Quiet

LEMMA GroupBeginsQuiet ==
    ASSUME NEW r \in Request, NEW u, request = [q \in Request |-> request[q]], GroupBegins(r, u)
    PROVE  Quiet(r)
<1>1. CASE \E g \in Group, private \in BOOLEAN : CreateGroup(r, u, g, private)
    BY <1>1 DEF CreateGroup, GroupRest, mail, Quiet
<1>2. CASE \E g \in Group, handler \in {"updateGroup", "archiveGroup"} : EditGroup(r, u, g, handler)
    BY <1>2, GotoQuiet DEF EditGroup, GroupRest, mail
<1>3. CASE \E g \in Group, target \in scope.users, role \in Role : AddMemberRead(r, u, g, target, role)
    BY <1>3, GotoQuiet DEF AddMemberRead, GroupRest, mail
<1>4. CASE \E g \in Group, capacity \in Capacities : CreatePostRead(r, u, g, capacity)
    BY <1>4, GotoQuiet DEF CreatePostRead, PostRest, mail
<1> QED
    BY <1>1, <1>2, <1>3, <1>4 DEF GroupBegins

LEMMA PostBeginsQuiet ==
    ASSUME NEW r \in Request, NEW u, request = [q \in Request |-> request[q]], PostBegins(r, u)
    PROVE  Quiet(r)
<1>1. CASE \E p \in Post, handler \in {"updatePost", "deletePost"} : EditPost(r, u, p, handler)
    BY <1>1, GotoQuiet DEF EditPost, PostRest, mail
<1>2. CASE \E p \in Post : ApplyRead(r, u, p)
    BY <1>2, GotoQuiet DEF ApplyRead, PostRest, mail
<1>3. CASE \E p \in Post : CancelRead(r, u, p)
    BY <1>3, GotoQuiet DEF CancelRead, PostRest, mail
<1> QED
    BY <1>1, <1>2, <1>3 DEF PostBegins

LEMMA UserBeginsQuiet ==
    ASSUME NEW r \in Request, NEW u, request = [q \in Request |-> request[q]], UserBegins(r, u)
    PROVE  \/ Quiet(r)
           \/ MarkAllRead(r, u)
           \/ \E n \in Notice : MarkRead(r, u, n)
<1>1. CASE \E target \in scope.users : BlockRead(r, u, target)
    BY <1>1, GotoQuiet DEF BlockRead, ModerationRest, mail
<1>2. CASE \E target \in scope.users : Unblock(r, u, target)
    BY <1>2 DEF Unblock, ModerationRest, mail, Quiet
<1>3. CASE \E target \in scope.users : ReportRead(r, u, target)
    BY <1>3, GotoQuiet DEF ReportRead, ModerationRest, mail
<1>4. CASE Withdraw(r, u)
    BY <1>4 DEF Withdraw, ModerationRest, mail, Quiet
<1>5. CASE \E handler \in {"adminFlag", "postStatus"} : OperatorRead(r, u, handler)
    BY <1>5, GotoQuiet DEF OperatorRead, ModerationRest, mail
<1> QED
    BY <1>1, <1>2, <1>3, <1>4, <1>5 DEF UserBegins

LEMMA ContinueQuiet ==
    ASSUME NEW r \in Request, request = [q \in Request |-> request[q]], Continue(r)
    PROVE  \/ Quiet(r)
           \/ \E u \in User : AnnounceCreate(r, u)
           \/ AnnounceQueue(r)
<1>1. CASE \/ \E private \in BOOLEAN : UpdateGroup(r, private)
           \/ ArchiveGroup(r) \/ AddMember(r)
    BY <1>1, LeaveQuiet DEF UpdateGroup, ArchiveGroup, AddMember, GroupRest, mail
<1>2. CASE \E p \in Post : CreatePost(r, p)
    BY <1>2, GotoQuiet DEF CreatePost, PostRest, mail
<1>3. CASE TellMembers(r)
    BY <1>3, AnnounceQuiet DEF TellMembers, PostRest, mail
<1>4. CASE \/ \E status \in PostStatus, capacity \in Capacities : UpdatePost(r, status, capacity)
           \/ DeletePost(r)
    BY <1>4, LeaveQuiet DEF UpdatePost, DeletePost, PostRest, mail
<1>5. CASE Apply(r) \/ Cancel(r)
    BY <1>5, LeaveQuiet, AnnounceQuiet DEF Apply, Cancel, PostRest, mail
<1>6. CASE Block(r) \/ Report(r)
    BY <1>6, LeaveQuiet DEF Block, Report, ModerationRest, mail
<1>7. CASE \/ \E target \in scope.users, isAdmin \in BOOLEAN : SetAdminFlag(r, target, isAdmin)
           \/ \E p \in Post, status \in PostStatus : SetPostStatus(r, p, status)
    BY <1>7, LeaveQuiet DEF SetAdminFlag, SetPostStatus, ModerationRest, mail
<1>8. CASE NobodyTold(r)
    BY <1>8, LeaveQuiet DEF NobodyTold, NoticeRest, mail
<1> QED
    BY <1>1, <1>2, <1>3, <1>4, <1>5, <1>6, <1>7, <1>8 DEF Continue

(* The steps that matter to notifications. *)
MailSteps ==
    \/ \E r \in Request : Quiet(r)
    \/ \E r \in Request, u \in User : MarkAllRead(r, u)
    \/ \E r \in Request, u \in User, n \in Notice : MarkRead(r, u, n)
    \/ \E r \in Request, u \in User : AnnounceCreate(r, u)
    \/ \E r \in Request : AnnounceQueue(r)
    \/ UNCHANGED <<scope, request, notice, noticeQueue, noticeWorker, deliveries>>
    \/ NoticeStep

LEMMA EveryStep ==
    ASSUME MailInv, Next
    PROVE  MailSteps
<1>1. scope.users \subseteq User /\ request = [q \in Request |-> request[q]]
    BY CommunityAssumption DEF MailInv
<1>2. ASSUME NEW r \in Request, Begin(r) PROVE MailSteps
    <2>1. PICK u \in scope.users : GroupBegins(r, u) \/ PostBegins(r, u) \/ UserBegins(r, u)
        BY <1>2 DEF Begin
    <2> QED
        BY <1>1, <2>1, GroupBeginsQuiet, PostBeginsQuiet, UserBeginsQuiet DEF MailSteps
<1>3. ASSUME NEW r \in Request, Continue(r) PROVE MailSteps
    BY <1>1, <1>3, ContinueQuiet DEF MailSteps
<1>4. ASSUME NEW r \in Request, Abort(r) PROVE MailSteps
    BY <1>1, <1>4, LeaveQuiet DEF Abort, MailSteps
<1>5. CASE \E u, target \in scope.users : WindowPasses(u, target)
    BY <1>5 DEF WindowPasses, ModerationRest, mail, MailSteps
<1> QED
    BY <1>2, <1>3, <1>4, <1>5 DEF Next, MailSteps

LEMMA MailInit == Init => MailInv
BY CommunityAssumption DEF Init, MailInv, WorkerOK, Idle, Notice, NoticeRow, Job

LEMMA FunctionIsSeq ==
    ASSUME NEW S, NEW n \in Nat, NEW f \in [1..n -> S]
    PROVE  f \in Seq(S) /\ Len(f) = n
<1>1. f \in Seq(S)
    BY SeqDef
<1>2. Len(f) \in Nat /\ 1..Len(f) = 1..n
    BY <1>1, LenProperties
<1> QED
    BY <1>1, <1>2

LEMMA JobsAppended ==
    ASSUME NEW queue \in Seq(Job), NEW j \in Job, NEW Ids, j.notice \in Ids,
           \A i \in DOMAIN queue : queue[i].notice \in Ids
    PROVE  /\ Append(queue, j) \in Seq(Job)
           /\ \A i \in DOMAIN Append(queue, j) : Append(queue, j)[i].notice \in Ids
<1>1. /\ Append(queue, j) \in Seq(Job)
      /\ DOMAIN queue = 1..Len(queue) /\ Len(queue) \in Nat
      /\ DOMAIN Append(queue, j) = 1..(Len(queue) + 1)
      /\ \A i \in 1..Len(queue) : Append(queue, j)[i] = queue[i]
      /\ Append(queue, j)[Len(queue) + 1] = j
    BY AppendProperties, LenProperties
<1> QED
    BY <1>1

LEMMA NoticeStepKeeps ==
    ASSUME MailInv, NoticeStep
    PROVE  MailInv'
<1>1. /\ UNCHANGED <<scope, request>>
      /\ request = [r \in Request |-> request[r]]
      /\ notice \in Seq(NoticeRow) /\ Len(notice) <= MaxNotices
      /\ deliveries \in [Notice -> Nat] /\ noticeQueue \in Seq(Job)
      /\ DOMAIN notice = 1..Len(notice) /\ DOMAIN notice \subseteq Notice
      /\ \A n \in DOMAIN notice : notice[n] \in NoticeRow
    <2>1. UNCHANGED <<scope, request>>
        BY DEF NoticeStep, TakeNotice, Deliver, MarkSentRead, MarkSent, JobDone, NoticeFails,
           NoticeCrash, NoticeRest
    <2> QED
        BY <2>1, CommunityAssumption DEF MailInv, Notice
<1>2. CASE TakeNotice
    <2>0. noticeQueue # <<>>
        BY <1>2 DEF TakeNotice
    <2>1. /\ Head(noticeQueue) \in Job /\ Head(noticeQueue).notice \in DOMAIN notice
          /\ Tail(noticeQueue) \in Seq(Job)
          /\ \A i \in DOMAIN Tail(noticeQueue) : Tail(noticeQueue)[i].notice \in DOMAIN notice
        BY <1>1, <1>2 DEF TakeNotice, MailInv
    <2>2. ~ Settled(Head(noticeQueue).notice) =>
              notice[Head(noticeQueue).notice].sentAt = FALSE
        <3>1. notice[Head(noticeQueue).notice].status \in {"PENDING", "SENT", "READ"}
            BY <1>1, <2>1 DEF NoticeRow
        <3> QED
            BY <2>1, <3>1 DEF MailInv, Settled
    <2> QED
        BY <1>1, <1>2, <2>1, <2>2 DEF TakeNotice, MailInv, WorkerOK
<1>3. CASE Deliver
    <2> DEFINE n == noticeWorker.job.notice
    <2>1. /\ noticeWorker \in [pc : {"deliver"}, job : Job, readAt : BOOLEAN]
          /\ noticeWorker' = [noticeWorker EXCEPT !.pc = "markRead"]
          /\ n \in DOMAIN notice
          /\ deliveries' = [deliveries EXCEPT ![n] = @ + 1]
          /\ UNCHANGED <<scope, request, notice, noticeQueue>>
        BY <1>1, <1>3 DEF Deliver, Advance, MailInv, WorkerOK, Idle
    <2>2. n \in Notice /\ deliveries' \in [Notice -> Nat] /\ deliveries'[n] > 0
        BY <1>1, <2>1
    <2>3. WorkerOK'
        BY <1>1, <2>1, <2>2 DEF WorkerOK
    <2> QED
        BY <1>1, <2>1, <2>2, <2>3 DEF MailInv
<1>4. CASE MarkSentRead
    <2> DEFINE n == noticeWorker.job.notice
    <2>1. /\ noticeWorker \in [pc : {"markRead"}, job : Job, readAt : BOOLEAN]
          /\ noticeWorker' = [noticeWorker EXCEPT !.pc = "markWrite", !.readAt = notice[n].readAt]
          /\ n \in DOMAIN notice /\ deliveries[n] > 0
          /\ UNCHANGED <<scope, request, notice, noticeQueue, deliveries>>
        BY <1>1, <1>4 DEF MarkSentRead, MailInv, WorkerOK, Idle
    <2>2. notice[n].readAt \in BOOLEAN
        BY <1>1, <2>1 DEF NoticeRow
    <2>3. WorkerOK'
        BY <1>1, <2>1, <2>2 DEF WorkerOK
    <2> QED
        BY <1>1, <2>1, <2>3 DEF MailInv
<1>5. CASE MarkSent
    <2> DEFINE n == noticeWorker.job.notice
    <2> DEFINE row == [notice[n] EXCEPT !.sentAt = TRUE,
                                        !.status = IF noticeWorker.readAt THEN "READ" ELSE "SENT"]
    <2>0. /\ noticeWorker \in [pc : {"markWrite"}, job : Job, readAt : BOOLEAN]
          /\ noticeWorker' = [noticeWorker EXCEPT !.pc = "done"]
          /\ n \in DOMAIN notice
          /\ UNCHANGED <<scope, request, noticeQueue, deliveries>>
        <3>1. noticeWorker \in [pc : {"markWrite"}, job : Job, readAt : BOOLEAN] /\ n \in DOMAIN notice
            BY <1>1, <1>5 DEF MarkSent, MailInv, WorkerOK, Idle
        <3>2. noticeWorker' = [noticeWorker EXCEPT !.pc = "done"]
            BY <1>5 DEF MarkSent, Advance
        <3>3. UNCHANGED <<scope, request, noticeQueue, deliveries>>
            BY <1>5 DEF MarkSent, NoticeRest
        <3> QED
            BY <3>1, <3>2, <3>3
    <2>1. /\ row \in NoticeRow /\ row.status # "PENDING"
          /\ notice' = [notice EXCEPT ![n] = row]
        <3>1. row \in NoticeRow /\ row.status # "PENDING"
            <4>1. noticeWorker.readAt \in BOOLEAN /\ notice[n] \in NoticeRow
                BY <1>1, <2>0, ElementOfSeq, LenProperties
            <4> QED
                BY <4>1 DEF NoticeRow
        <3>2. notice' = [notice EXCEPT ![n] = row]
            BY <1>1, <1>5, <2>0 DEF MarkSent
        <3> QED
            BY <3>1, <3>2
    <2> HIDE DEF row
    <2>2. /\ notice' \in Seq(NoticeRow) /\ Len(notice') = Len(notice)
          /\ DOMAIN notice' = DOMAIN notice
          /\ \A k \in DOMAIN notice : notice'[k] = IF k = n THEN row ELSE notice[k]
        BY <1>1, <2>0, <2>1, ExceptSeq
    <2>3. WorkerOK'
        BY <1>1, <2>0, <2>1, <2>2 DEF WorkerOK
    <2> QED
        BY <1>1, <2>0, <2>1, <2>2, <2>3 DEF MailInv
<1>6. CASE JobDone
    BY <1>1, <1>6 DEF JobDone, MailInv, WorkerOK
<1>7. CASE NoticeFails
    BY <1>1, <1>7 DEF NoticeFails, Drop, MailInv, WorkerOK
<1>8. CASE NoticeCrash
    <2>1. CASE Drop
        BY <1>1, <1>8, <2>1 DEF NoticeCrash, Drop, MailInv, WorkerOK
    <2>2. CASE HandOutAgain(TRUE)
        <3> DEFINE j == [noticeWorker.job EXCEPT !.redelivered = TRUE]
        <3>1. j \in Job /\ j.notice \in DOMAIN notice
            BY <1>8 DEF NoticeCrash, MailInv, WorkerOK, Job
        <3>2. noticeQueue' = Append(noticeQueue, j)
            BY <2>2 DEF HandOutAgain
        <3> HIDE DEF j
        <3>3. /\ noticeQueue' \in Seq(Job)
              /\ \A i \in DOMAIN noticeQueue' : noticeQueue'[i].notice \in DOMAIN notice
            BY <1>1, <3>1, <3>2, JobsAppended DEF MailInv
        <3> QED
            BY <1>1, <1>8, <2>2, <3>3 DEF NoticeCrash, HandOutAgain, MailInv, WorkerOK
    <2> QED
        BY <1>8, <2>1, <2>2 DEF NoticeCrash, Redeliver
<1> QED
    BY <1>2, <1>3, <1>4, <1>5, <1>6, <1>7, <1>8 DEF NoticeStep

LEMMA MailKept ==
    ASSUME MailInv, MailSteps
    PROVE  MailInv'
<1>1. /\ request = [r \in Request |-> request[r]]
      /\ notice \in Seq(NoticeRow) /\ Len(notice) <= MaxNotices
      /\ deliveries \in [Notice -> Nat] /\ noticeQueue \in Seq(Job)
      /\ DOMAIN notice = 1..Len(notice) /\ DOMAIN notice \subseteq Notice
      /\ \A n \in DOMAIN notice : notice[n] \in NoticeRow
    BY CommunityAssumption DEF MailInv, Notice
<1>2. CASE \E r \in Request : Quiet(r)
    BY <1>1, <1>2 DEF Quiet, MailInv, WorkerOK
<1>3. ASSUME NEW r \in Request, NEW u \in User,
             MarkAllRead(r, u) \/ \E n \in Notice : MarkRead(r, u, n)
      PROVE  MailInv'
    <2> DEFINE OnlyRead ==
          /\ UNCHANGED <<scope, request, noticeQueue, noticeWorker, deliveries>>
          /\ notice' \in Seq(NoticeRow) /\ Len(notice') = Len(notice)
          /\ \A n \in DOMAIN notice : /\ notice'[n].sentAt = notice[n].sentAt
                                      /\ \/ notice'[n].status = notice[n].status
                                         \/ notice'[n].status = "READ"
    <2>1. OnlyRead
        <3>1. CASE MarkAllRead(r, u)
            <4>1. /\ \A n \in 1..Len(notice) : /\ notice'[n] \in NoticeRow
                                               /\ notice'[n].sentAt = notice[n].sentAt
                                               /\ \/ notice'[n].status = notice[n].status
                                                  \/ notice'[n].status = "READ"
                BY <1>1, <3>1 DEF MarkAllRead, NoticeRow
            <4>2. notice' = [n \in 1..Len(notice) |-> notice'[n]]
                BY <1>1, <3>1 DEF MarkAllRead
            <4>3. notice' \in [1..Len(notice) -> NoticeRow] /\ Len(notice) \in Nat
                BY <1>1, <4>1, <4>2
            <4>4. notice' \in Seq(NoticeRow) /\ Len(notice') = Len(notice)
                BY <4>3, FunctionIsSeq
            <4> QED
                BY <1>1, <3>1, <4>1, <4>4 DEF MarkAllRead, NoticeRest
        <3>2. ASSUME NEW n \in Notice, MarkRead(r, u, n)
              PROVE  OnlyRead
            <4> DEFINE row == [notice[n] EXCEPT !.readAt = TRUE, !.status = "READ"]
            <4>1. /\ n \in DOMAIN notice /\ row \in NoticeRow /\ row.status = "READ"
                  /\ row.sentAt = notice[n].sentAt
                  /\ notice' = [notice EXCEPT ![n] = row]
                BY <1>1, <3>2 DEF MarkRead, NoticeRow
            <4> HIDE DEF row
            <4>2. /\ notice' \in Seq(NoticeRow) /\ Len(notice') = Len(notice)
                  /\ \A k \in DOMAIN notice : notice'[k] = IF k = n THEN row ELSE notice[k]
                BY <1>1, <4>1, ExceptSeq
            <4> QED
                BY <1>1, <3>2, <4>1, <4>2 DEF MarkRead, NoticeRest
        <3> QED
            BY <1>3, <3>1, <3>2
    <2>2. DOMAIN notice' = DOMAIN notice
        BY <1>1, <2>1, LenProperties
    <2>3. WorkerOK'
        BY <1>1, <2>1, <2>2 DEF MailInv, WorkerOK
    <2>4. \A n \in DOMAIN notice : notice'[n].status = "PENDING" => notice'[n].sentAt = FALSE
        BY <2>1 DEF MailInv
    <2> HIDE DEF OnlyRead
    <2>5. /\ UNCHANGED <<scope, request, noticeQueue, deliveries>>
          /\ notice' \in Seq(NoticeRow) /\ Len(notice') = Len(notice)
        BY <2>1 DEF OnlyRead
    <2> QED
        BY <1>1, <2>2, <2>3, <2>4, <2>5 DEF MailInv
<1>4. ASSUME NEW r \in Request, NEW u \in User, AnnounceCreate(r, u)
      PROVE  MailInv'
    <2> DEFINE row == [to |-> u, status |-> "PENDING", sentAt |-> FALSE, readAt |-> FALSE]
    <2>1. row \in NoticeRow /\ notice' = Append(notice, row) /\ Len(notice) < MaxNotices
        BY <1>1, <1>4, CommunityAssumption DEF AnnounceCreate, NoticeRow, MailInv
    <2> HIDE DEF row
    <2>2. /\ notice' \in Seq(NoticeRow) /\ Len(notice') = Len(notice) + 1
          /\ Len(notice') <= MaxNotices
          /\ DOMAIN notice \subseteq DOMAIN notice' /\ Len(notice) + 1 \in DOMAIN notice'
          /\ \A n \in DOMAIN notice : notice'[n] = notice[n]
          /\ \A n \in DOMAIN notice' : n \in DOMAIN notice \/ notice'[n] = row
        <3>1. /\ notice' \in Seq(NoticeRow) /\ Len(notice') = Len(notice) + 1
              /\ Len(notice) \in Nat /\ DOMAIN notice' = 1..(Len(notice) + 1)
              /\ \A n \in 1..Len(notice) : notice'[n] = notice[n]
              /\ notice'[Len(notice) + 1] = row
            BY <1>1, <2>1, AppendProperties, LenProperties
        <3> QED
            BY <1>1, <2>1, <3>1, CommunityAssumption
    <2>3. /\ UNCHANGED <<scope, noticeQueue, noticeWorker, deliveries>>
          /\ request' = [q \in Request |-> request'[q]]
          /\ \A q \in Request \ {r} : request'[q] = request[q]
          /\ request'[r].notice = Len(notice) + 1
        BY <1>1, <1>4 DEF AnnounceCreate, Goto, NoticeRest
    <2>4. WorkerOK'
        BY <1>1, <2>2, <2>3 DEF MailInv, WorkerOK
    <2>5. row.sentAt = FALSE
        BY DEF row
    <2> QED
        BY <1>1, <2>2, <2>3, <2>4, <2>5 DEF MailInv
<1>5. ASSUME NEW r \in Request, AnnounceQueue(r)
      PROVE  MailInv'
    <2> DEFINE j == [notice |-> request[r].notice, redelivered |-> FALSE]
    <2>1. j \in Job /\ j.notice \in DOMAIN notice /\ noticeQueue' = Append(noticeQueue, j)
        BY <1>1, <1>5 DEF AnnounceQueue, MailInv, Job
    <2> HIDE DEF j
    <2>2. /\ noticeQueue' \in Seq(Job)
          /\ \A i \in DOMAIN noticeQueue' : noticeQueue'[i].notice \in DOMAIN notice
        BY <1>1, <2>1, JobsAppended DEF MailInv
    <2>3. /\ UNCHANGED <<scope, notice, noticeWorker, deliveries>>
          /\ request' = [q \in Request |-> request'[q]]
          /\ \A q \in Request \ {r} : request'[q] = request[q]
          /\ request'[r].pc # "enqueue"
        BY <1>1, <1>5 DEF AnnounceQueue, Announce, Leave, Idle, Goto, NoticeRest
    <2> QED
        BY <1>1, <2>2, <2>3 DEF MailInv, WorkerOK
<1>6. CASE UNCHANGED <<scope, request, notice, noticeQueue, noticeWorker, deliveries>>
    BY <1>6 DEF MailInv, WorkerOK
<1> QED
    BY <1>2, <1>3, <1>4, <1>5, <1>6, NoticeStepKeeps DEF MailSteps

LEMMA MailAlways == Spec => []MailInv
<1>1. MailInv /\ [Next]_communityVars => MailInv'
    <2>1. ASSUME MailInv, UNCHANGED communityVars
          PROVE  MailSteps
        BY <2>1 DEF communityVars, mail, MailSteps
    <2> QED
        BY <2>1, EveryStep, MailKept
<1> QED
    BY <1>1, MailInit, PTL DEF Spec

Marked == {n \in DOMAIN notice : notice[n].sentAt}
Opened == {n \in DOMAIN notice : notice[n].readAt}

(* Reading only opens. *)
LEMMA ReadingReads ==
    ASSUME MailInv, NEW r \in Request, NEW u \in User,
           MarkAllRead(r, u) \/ \E n \in Notice : MarkRead(r, u, n)
    PROVE  /\ DOMAIN notice' = DOMAIN notice /\ UNCHANGED deliveries
           /\ Marked' = Marked /\ Opened \subseteq Opened' /\ Opened' \subseteq DOMAIN notice
<1>1. \A n \in DOMAIN notice : notice[n] \in NoticeRow
    BY DEF MailInv
<1>2. CASE MarkAllRead(r, u)
    <2>1. /\ DOMAIN notice' = DOMAIN notice /\ UNCHANGED deliveries
          /\ \A n \in DOMAIN notice : /\ notice'[n].sentAt = notice[n].sentAt
                                      /\ notice[n].readAt => notice'[n].readAt
        BY <1>1, <1>2 DEF MarkAllRead, NoticeRow
    <2> QED
        BY <2>1 DEF Marked, Opened
<1>3. ASSUME NEW n \in Notice, MarkRead(r, u, n)
      PROVE  /\ DOMAIN notice' = DOMAIN notice /\ UNCHANGED deliveries
             /\ Marked' = Marked /\ Opened \subseteq Opened' /\ Opened' \subseteq DOMAIN notice
    <2>1. /\ DOMAIN notice' = DOMAIN notice /\ UNCHANGED deliveries
          /\ \A k \in DOMAIN notice : /\ notice'[k].sentAt = notice[k].sentAt
                                      /\ notice[k].readAt => notice'[k].readAt
        BY <1>1, <1>3 DEF MarkRead, NoticeRow
    <2> QED
        BY <2>1 DEF Marked, Opened
<1> QED
    BY <1>2, <1>3

LEMMA ContractStep ==
    ASSUME MailInv, MailInv', MailSteps
    PROVE  [Contract!Next]_(Contract!contractVars)
<1>1. /\ DOMAIN notice \subseteq Notice /\ DOMAIN notice' \subseteq Notice
      /\ \A n \in DOMAIN notice : notice[n] \in NoticeRow
      /\ deliveries \in [Notice -> Nat]
    BY CommunityAssumption, LenProperties DEF MailInv, Notice
<1>2. CASE UNCHANGED <<notice, deliveries>>
    BY <1>2 DEF Contract!contractVars
<1>3. ASSUME NEW r \in Request, NEW u \in User,
             MarkAllRead(r, u) \/ \E n \in Notice : MarkRead(r, u, n)
      PROVE  Contract!Next
    <2>1. /\ DOMAIN notice' = DOMAIN notice /\ UNCHANGED deliveries
          /\ Marked' = Marked /\ Opened \subseteq Opened' /\ Opened' \subseteq DOMAIN notice
        BY <1>3, ReadingReads
    <2>2. PICK some \in SUBSET Notice : some = Opened'
        BY <1>1, <2>1
    <2>3. Contract!Read(some)
        BY <2>1, <2>2 DEF Contract!Read, Marked, Opened
    <2> QED
        BY <2>3 DEF Contract!Next
<1>4. ASSUME NEW r \in Request, NEW u \in User, AnnounceCreate(r, u)
      PROVE  Contract!Next
    <2> DEFINE k == Len(notice) + 1
    <2> DEFINE row == [to |-> u, status |-> "PENDING", sentAt |-> FALSE, readAt |-> FALSE]
    <2>1. /\ UNCHANGED deliveries /\ notice' = Append(notice, row)
          /\ notice \in Seq(NoticeRow) /\ row \in NoticeRow
          /\ row.sentAt = FALSE /\ row.readAt = FALSE
        BY <1>4 DEF AnnounceCreate, MailInv, NoticeRow
    <2> HIDE DEF row
    <2>2. /\ DOMAIN notice' = DOMAIN notice \cup {k} /\ k \notin DOMAIN notice
          /\ notice'[k] = row
          /\ \A n \in DOMAIN notice : notice'[n] = notice[n]
        BY <2>1, AppendProperties, LenProperties
    <2>3. Contract!Announce(k)
        BY <2>1, <2>2 DEF Contract!Announce
    <2>4. k \in Notice
        BY <1>1, <2>2
    <2> QED
        BY <2>3, <2>4 DEF Contract!Next
<1>5. CASE Deliver
    <2> DEFINE n == noticeWorker.job.notice
    <2>1. /\ n \in DOMAIN notice /\ notice[n].sentAt = FALSE
          /\ deliveries' = [deliveries EXCEPT ![n] = @ + 1] /\ UNCHANGED notice
        BY <1>5 DEF Deliver, MailInv, WorkerOK, Idle
    <2>2. Contract!HandOver(n)
        BY <2>1 DEF Contract!HandOver
    <2> QED
        BY <1>1, <2>1, <2>2 DEF Contract!Next
<1>6. CASE MarkSent
    <2>1. PICK n \in DOMAIN notice : /\ n = noticeWorker.job.notice
                                     /\ deliveries[n] > 0 /\ UNCHANGED deliveries
        BY <1>6 DEF MarkSent, NoticeRest, MailInv, WorkerOK, Idle
    <2>2. /\ DOMAIN notice' = DOMAIN notice
          /\ \A k \in DOMAIN notice :
               /\ notice'[k].readAt = notice[k].readAt
               /\ notice'[k].sentAt = IF k = n THEN TRUE ELSE notice[k].sentAt
        BY <1>1, <1>6, <2>1 DEF MarkSent, NoticeRow
    <2>3. Contract!Mark(n)
        BY <2>1, <2>2 DEF Contract!Mark
    <2> QED
        BY <1>1, <2>1, <2>3 DEF Contract!Next
<1> QED
    BY <1>2, <1>3, <1>4, <1>5, <1>6 DEF MailSteps, Quiet, AnnounceQueue, NoticeStep, TakeNotice,
       MarkSentRead, JobDone, NoticeFails, NoticeCrash

(* However jobs fail, are lost or handed out again, and whatever users read     *)
(* meanwhile, the notifications of any number of users implement              *)
(* NoticeContract: none is delivered after it was marked as sent, or marked     *)
(* without a delivery.                                                       *)
THEOREM NotificationsKeepContract == Spec => ContractKept
<1>1. Init => Contract!Init
    BY DEF Init, Contract!Init
<1>2. MailInv /\ MailInv' /\ [Next]_communityVars => [Contract!Next]_(Contract!contractVars)
    <2>1. ASSUME MailInv, UNCHANGED communityVars
          PROVE  MailSteps
        BY <2>1 DEF communityVars, mail, MailSteps
    <2> QED
        BY <2>1, EveryStep, ContractStep
<1> QED
    BY <1>1, <1>2, MailAlways, PTL DEF Spec, ContractKept, Contract!Spec

-----------------------------------------------------------------------------
(* Types. *)

(* Only users sign in, operate, block and are blocked, and reports stay within their bound. *)
UsersInv ==
    /\ active \subseteq User /\ admin \subseteq User
    /\ block \subseteq User \X User
    /\ \A r \in Request : request[r].pc = "block" =>
         request[r].user \in User /\ request[r].target \in User
    /\ \A u, t \in User : report[u][t] <= MaxReports

LEMMA AdminStep ==
    ASSUME admin \subseteq User, scope.users \subseteq User, [Next]_communityVars
    PROVE  admin' \subseteq User
<1>1. ASSUME NEW r \in Request, NEW u, GroupBegins(r, u) \/ PostBegins(r, u) \/ UserBegins(r, u)
      PROVE  UNCHANGED admin
    <2>1. GroupBegins(r, u) => UNCHANGED admin
        BY DEF GroupBegins, CreateGroup, EditGroup, AddMemberRead, CreatePostRead, GroupRest, PostRest
    <2>2. PostBegins(r, u) => UNCHANGED admin
        BY DEF PostBegins, EditPost, ApplyRead, CancelRead, PostRest
    <2>3. UserBegins(r, u) => UNCHANGED admin
        BY DEF UserBegins, BlockRead, Unblock, ReportRead, Withdraw, OperatorRead, MarkRead,
           MarkAllRead, ModerationRest, NoticeRest, social
    <2> QED
        BY <1>1, <2>1, <2>2, <2>3
<1>2. ASSUME NEW r \in Request, Continue(r)
      PROVE  admin' \subseteq User
    <2>1. ASSUME NEW target \in scope.users, NEW isAdmin \in BOOLEAN, SetAdminFlag(r, target, isAdmin)
          PROVE  admin' \subseteq User
        BY <2>1 DEF SetAdminFlag
    <2>2. CASE \/ \E private \in BOOLEAN : UpdateGroup(r, private)
               \/ ArchiveGroup(r) \/ AddMember(r)
        BY <2>2 DEF UpdateGroup, ArchiveGroup, AddMember, GroupRest
    <2>3. CASE \/ \E p \in Post : CreatePost(r, p)
               \/ TellMembers(r) \/ DeletePost(r) \/ Apply(r) \/ Cancel(r)
               \/ \E status \in PostStatus, capacity \in Capacities : UpdatePost(r, status, capacity)
        BY <2>3 DEF CreatePost, TellMembers, DeletePost, Apply, Cancel, UpdatePost, PostRest
    <2>4. CASE \/ Block(r) \/ Report(r)
               \/ \E p \in Post, status \in PostStatus : SetPostStatus(r, p, status)
        BY <2>4 DEF Block, Report, SetPostStatus
    <2>5. CASE \/ \E u \in User : AnnounceCreate(r, u)
               \/ AnnounceQueue(r) \/ NobodyTold(r)
        BY <2>5 DEF AnnounceCreate, AnnounceQueue, NobodyTold, NoticeRest, social
    <2> QED
        BY <1>2, <2>1, <2>2, <2>3, <2>4, <2>5 DEF Continue
<1>3. CASE \/ \E r \in Request : Abort(r)
           \/ \E u, target \in scope.users : WindowPasses(u, target)
           \/ UNCHANGED communityVars
    BY <1>3 DEF Abort, WindowPasses, communityVars, social
<1>4. CASE NoticeStep
    BY <1>4 DEF NoticeStep, TakeNotice, Deliver, MarkSentRead, MarkSent, JobDone, NoticeFails,
       NoticeCrash, NoticeRest, social
<1> QED
    BY <1>1, <1>2, <1>3, <1>4 DEF Next, Begin

LEMMA BlockTyped ==
    ASSUME UsersInv, BlockInv, scope.users \subseteq User, [Next]_communityVars
    PROVE  /\ active' \subseteq User /\ block' \subseteq User \X User
           /\ \A r \in Request : request'[r].pc = "block" =>
                request'[r].user \in User /\ request'[r].target \in User
<1> DEFINE Goal == /\ active' \subseteq User /\ block' \subseteq User \X User
                   /\ \A r \in Request : request'[r].pc = "block" =>
                        request'[r].user \in User /\ request'[r].target \in User
<1>0. /\ active \subseteq User /\ block \subseteq User \X User
      /\ \A r \in Request : request[r].pc = "block" =>
           request[r].user \in User /\ request[r].target \in User
      /\ request = [r \in Request |-> request[r]]
    BY DEF UsersInv, BlockInv
<1>1. ASSUME NEW r \in Request, NoBlock(r) PROVE Goal
    BY <1>0, <1>1 DEF NoBlock
<1>2. ASSUME NEW r \in Request, NEW u \in User, NEW t \in User, BlockRead(r, u, t) PROVE Goal
    BY <1>0, <1>2 DEF BlockRead, Goto
<1>3. ASSUME NEW r \in Request, NEW u \in User, NEW t \in User, Unblock(r, u, t) PROVE Goal
    BY <1>0, <1>3 DEF Unblock, ModerationRest
<1>4. ASSUME NEW r \in Request, NEW u \in User, Withdraw(r, u) PROVE Goal
    BY <1>0, <1>4 DEF Withdraw, BlocksInvolving
<1>5. ASSUME NEW r \in Request, Block(r) PROVE Goal
    BY <1>0, <1>5 DEF Block, Goto, Leave, Idle, ModerationRest
<1>6. ASSUME UNCHANGED <<active, block, request>> PROVE Goal
    BY <1>0, <1>6
<1>7. ASSUME NEW r \in Request, Begin(r) PROVE Goal
    BY <1>1, <1>2, <1>3, <1>4, <1>7, BeginNoBlock DEF Begin
<1>8. ASSUME NEW r \in Request, Continue(r) PROVE Goal
    BY <1>1, <1>5, <1>8, ContinueNoBlock
<1>9. ASSUME NEW r \in Request, Abort(r) PROVE Goal
    BY <1>1, <1>9, LeaveNoBlock DEF Abort, social, BlockInv
<1>10. CASE \/ \E u, target \in scope.users : WindowPasses(u, target)
            \/ NoticeStep \/ UNCHANGED communityVars
    BY <1>6, <1>10 DEF WindowPasses, ModerationRest, NoticeStep, TakeNotice, Deliver, MarkSentRead,
       MarkSent, JobDone, NoticeFails, NoticeCrash, NoticeRest, communityVars, social
<1> QED
    BY <1>7, <1>8, <1>9, <1>10 DEF Next

LEMMA ReportsTyped ==
    ASSUME UsersInv, ReportInv, scope.users \subseteq User, [Next]_communityVars
    PROVE  \A u, t \in User : report'[u][t] <= MaxReports
<1>0. /\ report \in [User -> [User -> Nat]] /\ MaxReports \in Nat
      /\ \A u, t \in User : report[u][t] <= MaxReports
    BY CommunityAssumption DEF ReportInv, UsersInv
<1>1. CASE UNCHANGED report
    BY <1>0, <1>1
<1>2. ASSUME NEW r \in Request, Report(r)
      PROVE  \A u, t \in User : report'[u][t] <= MaxReports
    BY <1>0, <1>2 DEF Report
<1>3. ASSUME NEW v \in User, NEW w \in User, WindowPasses(v, w)
      PROVE  \A u, t \in User : report'[u][t] <= MaxReports
    BY <1>0, <1>3 DEF WindowPasses
<1>4. ASSUME NEW r \in Request, Begin(r) PROVE UNCHANGED report
    BY <1>4, BeginNoReport DEF Begin, NoReport, ReportRead
<1>5. ASSUME NEW r \in Request, Continue(r) PROVE UNCHANGED report \/ Report(r)
    BY <1>5, ContinueNoReport DEF NoReport
<1>6. CASE (\E r \in Request : Abort(r)) \/ NoticeStep \/ UNCHANGED communityVars
    BY <1>1, <1>6 DEF Abort, NoticeStep, TakeNotice, Deliver, MarkSentRead, MarkSent, JobDone,
       NoticeFails, NoticeCrash, NoticeRest, communityVars, social
<1> QED
    BY <1>1, <1>2, <1>3, <1>4, <1>5, <1>6 DEF Next

(* How often a job may have been handed out before. *)
Before(job) == IF job.redelivered THEN 1 ELSE 0

Enqueues(r, n) == request[r].pc = "enqueue" /\ request[r].notice = n
InProgress(n)  == noticeWorker # Idle /\ noticeWorker.job.notice = n

(* A notification has one job: a request is about to queue it, or it waits, or  *)
(* it is in progress.                                                         *)
OneJobEach ==
    /\ \A n \in Notice, r, q \in Request : Enqueues(r, n) /\ Enqueues(q, n) => r = q
    /\ \A i, j \in DOMAIN noticeQueue : noticeQueue[i].notice = noticeQueue[j].notice => i = j
    /\ \A i \in DOMAIN noticeQueue, r \in Request : ~ Enqueues(r, noticeQueue[i].notice)
    /\ \A i \in DOMAIN noticeQueue : ~ InProgress(noticeQueue[i].notice)
    /\ \A n \in Notice, r \in Request : ~ (InProgress(n) /\ Enqueues(r, n))

(* What was delivered had a job, and a job delivers once each time it is handed out. *)
DeliveriesCounted ==
    /\ \A n \in Notice : deliveries[n] <= 2 /\ (n \notin DOMAIN notice => deliveries[n] = 0)
    /\ \A n \in Notice, r \in Request : Enqueues(r, n) => deliveries[n] = 0
    /\ \A i \in DOMAIN noticeQueue : deliveries[noticeQueue[i].notice] <= Before(noticeQueue[i])
    /\ noticeWorker # Idle =>
         deliveries[noticeWorker.job.notice] <=
             Before(noticeWorker.job) + IF noticeWorker.pc = "deliver" THEN 0 ELSE 1

DeliveryInv == OneJobEach /\ DeliveriesCounted /\ dropped \subseteq Notice

LEMMA DroppedStep ==
    ASSUME MailInv, dropped \subseteq Notice, [Next]_communityVars
    PROVE  dropped' \subseteq Notice
<1>0. /\ DOMAIN notice \subseteq Notice
      /\ \A r \in Request : request[r].pc = "enqueue" => request[r].notice \in Notice
      /\ noticeWorker # Idle => noticeWorker.job.notice \in Notice
    BY CommunityAssumption, LenProperties DEF MailInv, Notice, WorkerOK
<1>1. ASSUME NEW r \in Request, NEW u, GroupBegins(r, u) \/ PostBegins(r, u) \/ UserBegins(r, u)
      PROVE  UNCHANGED dropped
    <2>1. GroupBegins(r, u) => UNCHANGED dropped
        BY DEF GroupBegins, CreateGroup, EditGroup, AddMemberRead, CreatePostRead, GroupRest,
           PostRest, mail
    <2>2. PostBegins(r, u) => UNCHANGED dropped
        BY DEF PostBegins, EditPost, ApplyRead, CancelRead, PostRest, mail
    <2>3. UserBegins(r, u) => UNCHANGED dropped
        BY DEF UserBegins, BlockRead, Unblock, ReportRead, Withdraw, OperatorRead, MarkRead,
           MarkAllRead, ModerationRest, mail
    <2> QED
        BY <1>1, <2>1, <2>2, <2>3
<1>2. ASSUME NEW r \in Request, Continue(r)
      PROVE  UNCHANGED dropped
    <2>1. CASE \/ \E private \in BOOLEAN : UpdateGroup(r, private)
               \/ ArchiveGroup(r) \/ AddMember(r)
        BY <2>1 DEF UpdateGroup, ArchiveGroup, AddMember, GroupRest, mail
    <2>2. CASE \/ \E p \in Post : CreatePost(r, p)
               \/ TellMembers(r) \/ DeletePost(r) \/ Apply(r) \/ Cancel(r)
               \/ \E status \in PostStatus, capacity \in Capacities : UpdatePost(r, status, capacity)
        BY <2>2 DEF CreatePost, TellMembers, DeletePost, Apply, Cancel, UpdatePost, PostRest, mail
    <2>3. CASE \/ Block(r) \/ Report(r)
               \/ \E target \in scope.users, isAdmin \in BOOLEAN : SetAdminFlag(r, target, isAdmin)
               \/ \E p \in Post, status \in PostStatus : SetPostStatus(r, p, status)
        BY <2>3 DEF Block, Report, SetAdminFlag, SetPostStatus, ModerationRest, mail
    <2>4. CASE \/ \E u \in User : AnnounceCreate(r, u)
               \/ AnnounceQueue(r) \/ NobodyTold(r)
        BY <2>4 DEF AnnounceCreate, AnnounceQueue, NobodyTold, mail
    <2> QED
        BY <1>2, <2>1, <2>2, <2>3, <2>4 DEF Continue
<1>3. ASSUME NEW r \in Request, Abort(r)
      PROVE  dropped' \subseteq Notice
    BY <1>0, <1>3 DEF Abort
<1>4. CASE \/ \E u, target \in scope.users : WindowPasses(u, target)
           \/ UNCHANGED communityVars
    BY <1>4 DEF WindowPasses, ModerationRest, communityVars, mail
<1>5. CASE NoticeStep
    <2>1. CASE TakeNotice \/ Deliver \/ MarkSentRead \/ MarkSent \/ JobDone
        BY <2>1 DEF TakeNotice, Deliver, MarkSentRead, MarkSent, JobDone
    <2>2. CASE NoticeFails \/ NoticeCrash
        BY <1>0, <2>2 DEF NoticeFails, NoticeCrash, Redeliver, HandOutAgain, Drop, Idle
    <2> QED
        BY <1>5, <2>1, <2>2 DEF NoticeStep
<1> QED
    BY <1>1, <1>2, <1>3, <1>4, <1>5 DEF Next, Begin

(* What the steps of requests find. *)
LEMMA JobsTyped ==
    ASSUME MailInv
    PROVE  /\ Len(notice) \in Nat /\ DOMAIN notice = 1..Len(notice) /\ DOMAIN notice \subseteq Notice
           /\ deliveries \in [Notice -> Nat]
           /\ Len(noticeQueue) \in Nat /\ DOMAIN noticeQueue = 1..Len(noticeQueue)
           /\ \A i \in DOMAIN noticeQueue : noticeQueue[i] \in Job /\ noticeQueue[i].notice \in DOMAIN notice
           /\ request = [r \in Request |-> request[r]]
           /\ \A r \in Request, n \in Notice : Enqueues(r, n) => n \in DOMAIN notice
           /\ noticeWorker # Idle =>
                noticeWorker.job \in Job /\ noticeWorker.job.notice \in DOMAIN notice
BY CommunityAssumption, LenProperties DEF MailInv, Notice, WorkerOK, Enqueues

(* Requests that read, write other tables, or announce. *)
LEMMA RequestDelivers ==
    ASSUME MailInv, MailInv', OneJobEach, DeliveriesCounted, NEW r \in Request,
           \/ Quiet(r)
           \/ \E u \in User : MarkAllRead(r, u)
           \/ \E u \in User, n \in Notice : MarkRead(r, u, n)
    PROVE  OneJobEach' /\ DeliveriesCounted'
<1>1. /\ UNCHANGED <<noticeQueue, noticeWorker, deliveries>>
      /\ DOMAIN notice' = DOMAIN notice
    BY DEF Quiet, MarkAllRead, MarkRead, NoticeRest
<1>2. \A q \in Request, n \in Notice : Enqueues(q, n)' => Enqueues(q, n)
    BY DEF Quiet, MarkAllRead, MarkRead, Enqueues
<1>3. \A n \in Notice : InProgress(n)' <=> InProgress(n)
    BY <1>1 DEF InProgress
<1>4. \A i \in DOMAIN noticeQueue : noticeQueue[i].notice \in Notice
    BY JobsTyped
<1>5. OneJobEach'
    BY <1>1, <1>2, <1>3, <1>4 DEF OneJobEach
<1>6. DeliveriesCounted'
    BY <1>1, <1>2 DEF DeliveriesCounted
<1> QED
    BY <1>5, <1>6

(* The row is created before its job: nothing has been delivered. *)
LEMMA CreateDelivers ==
    ASSUME MailInv, MailInv', OneJobEach, DeliveriesCounted, NEW r \in Request, NEW u \in User,
           AnnounceCreate(r, u)
    PROVE  OneJobEach' /\ DeliveriesCounted'
<1> DEFINE new == Len(notice) + 1
<1>1. /\ UNCHANGED <<noticeQueue, noticeWorker, deliveries>>
      /\ request[r].pc = "announce"
      /\ request'[r].pc = "enqueue" /\ request'[r].notice = new
      /\ \A q \in Request \ {r} : request'[q] = request[q]
    BY JobsTyped DEF AnnounceCreate, Goto, NoticeRest
<1>2. DOMAIN notice' = DOMAIN notice \cup {new} /\ new \notin DOMAIN notice
    <2>1. \E row : notice' = Append(notice, row)
        BY DEF AnnounceCreate
    <2> QED
        BY <2>1, JobsTyped, AppendProperties DEF MailInv
<1>3. new \in Notice /\ deliveries[new] = 0
    <2>1. DOMAIN notice' \subseteq Notice
        BY CommunityAssumption, LenProperties DEF MailInv, Notice
    <2> QED
        BY <1>2, <2>1 DEF DeliveriesCounted
<1> HIDE DEF new
<1>4. \A q \in Request, n \in Notice :
        Enqueues(q, n)' <=> (IF q = r THEN n = new ELSE Enqueues(q, n))
    BY <1>1 DEF Enqueues
<1>5. \A n \in Notice : InProgress(n)' <=> InProgress(n)
    BY <1>1 DEF InProgress
<1>6. /\ \A i \in DOMAIN noticeQueue : noticeQueue[i].notice \in DOMAIN notice
      /\ \A n \in Notice : InProgress(n) => n \in DOMAIN notice
      /\ \A n \in Notice, q \in Request : Enqueues(q, n) => n \in DOMAIN notice
      /\ DOMAIN notice \subseteq Notice
    BY JobsTyped DEF InProgress
<1>7. OneJobEach'
    BY <1>1, <1>2, <1>3, <1>4, <1>5, <1>6 DEF OneJobEach
<1>8. DeliveriesCounted'
    BY <1>1, <1>2, <1>3, <1>4 DEF DeliveriesCounted
<1> QED
    BY <1>7, <1>8

(* A job enters the queue. *)
LEMMA QueueDelivers ==
    ASSUME MailInv, MailInv', OneJobEach, DeliveriesCounted, NEW r \in Request, AnnounceQueue(r)
    PROVE  OneJobEach' /\ DeliveriesCounted'
<1> DEFINE job == [notice |-> request[r].notice, redelivered |-> FALSE]
<1>1. /\ UNCHANGED <<notice, noticeWorker, deliveries>>
      /\ noticeQueue' = Append(noticeQueue, job)
      /\ Enqueues(r, job.notice) /\ job.redelivered = FALSE
      /\ request'[r].pc # "enqueue"
      /\ \A q \in Request \ {r} : request'[q] = request[q]
    BY JobsTyped DEF AnnounceQueue, Announce, Leave, Idle, Goto, NoticeRest, Enqueues
<1>2. job.notice \in Notice
    BY <1>1, JobsTyped DEF Enqueues, MailInv
<1> HIDE DEF job
<1>3. /\ DOMAIN noticeQueue = 1..Len(noticeQueue) /\ Len(noticeQueue) \in Nat
      /\ DOMAIN noticeQueue' = 1..(Len(noticeQueue) + 1)
      /\ \A i \in DOMAIN noticeQueue : noticeQueue'[i] = noticeQueue[i]
      /\ noticeQueue'[Len(noticeQueue) + 1] = job
    BY <1>1, JobsTyped, AppendProperties DEF MailInv
<1>4. \A q \in Request, n \in Notice : Enqueues(q, n)' <=> q # r /\ Enqueues(q, n)
    BY <1>1 DEF Enqueues
<1>5. \A n \in Notice : InProgress(n)' <=> InProgress(n)
    BY <1>1 DEF InProgress
<1>6. /\ \A i \in DOMAIN noticeQueue : noticeQueue[i].notice \in Notice
      /\ \A i \in DOMAIN noticeQueue : noticeQueue[i].notice # job.notice
      /\ \A q \in Request \ {r} : ~ Enqueues(q, job.notice)
      /\ ~ InProgress(job.notice)
    BY <1>1, <1>2, JobsTyped DEF OneJobEach
<1>7. OneJobEach'
    <2>1. \A i \in DOMAIN noticeQueue' : \/ i \in DOMAIN noticeQueue
                                         \/ i = Len(noticeQueue) + 1 /\ i \notin DOMAIN noticeQueue
        BY <1>3
    <2> QED
        BY <1>2, <1>3, <1>4, <1>5, <1>6, <2>1 DEF OneJobEach
<1>8. DeliveriesCounted'
    <2>1. deliveries[job.notice] <= Before(job)
        BY <1>1, <1>2 DEF DeliveriesCounted, Before
    <2>2. \A i \in DOMAIN noticeQueue' : i \in DOMAIN noticeQueue \/ noticeQueue'[i] = job
        BY <1>3
    <2> QED
        BY <1>1, <1>3, <1>4, <2>1, <2>2 DEF DeliveriesCounted
<1> QED
    BY <1>7, <1>8

(* The worker delivers a notification only for its job, which it takes once or twice. *)
LEMMA WorkerDelivers ==
    ASSUME MailInv, MailInv', OneJobEach, DeliveriesCounted, NoticeStep
    PROVE  OneJobEach' /\ DeliveriesCounted'
<1>0. /\ UNCHANGED request /\ DOMAIN notice' = DOMAIN notice
      /\ noticeWorker # Idle => noticeWorker.job \in Job /\ noticeWorker.job.notice \in Notice
      /\ \A i \in DOMAIN noticeQueue : noticeQueue[i] \in Job /\ noticeQueue[i].notice \in Notice
      /\ deliveries \in [Notice -> Nat]
      /\ \A n \in Notice, r \in Request : Enqueues(r, n)' <=> Enqueues(r, n)
    <2>1. UNCHANGED request /\ DOMAIN notice' = DOMAIN notice
        BY DEF NoticeStep, TakeNotice, Deliver, MarkSentRead, MarkSent, JobDone, NoticeFails,
           NoticeCrash
    <2> QED
        BY <2>1, JobsTyped DEF Enqueues
<1>1. CASE TakeNotice
    <2>1. /\ noticeWorker = Idle /\ UNCHANGED deliveries
          /\ noticeQueue \in Seq(Job) /\ noticeQueue # <<>> /\ noticeQueue' = Tail(noticeQueue)
          /\ noticeWorker'.job = Head(noticeQueue) /\ noticeWorker' # Idle
        BY <1>1 DEF TakeNotice, MailInv, Idle
    <2>2. /\ 1 \in DOMAIN noticeQueue /\ Head(noticeQueue) = noticeQueue[1]
          /\ \A i \in DOMAIN noticeQueue' :
               i + 1 \in DOMAIN noticeQueue /\ i + 1 # 1 /\ noticeQueue'[i] = noticeQueue[i + 1]
          /\ \A i \in DOMAIN noticeQueue' : i \in Nat
        BY <2>1, EmptySeq, HeadTailProperties, LenProperties
    <2>3. \A n \in Notice : InProgress(n)' <=> n = noticeQueue[1].notice
        BY <2>1, <2>2 DEF InProgress
    <2>4. OneJobEach'
        <3>1. \A i, j \in DOMAIN noticeQueue' : noticeQueue'[i].notice = noticeQueue'[j].notice => i = j
            <4> TAKE i, j \in DOMAIN noticeQueue'
            <4>1. noticeQueue'[i].notice = noticeQueue'[j].notice => i + 1 = j + 1
                BY <2>2 DEF OneJobEach
            <4> QED
                BY <2>2, <4>1
        <3>2. \A i \in DOMAIN noticeQueue' : noticeQueue'[i].notice # noticeQueue[1].notice
            BY <2>2 DEF OneJobEach
        <3> QED
            BY <1>0, <2>2, <2>3, <3>1, <3>2 DEF OneJobEach
    <2>5. DeliveriesCounted'
        <3>1. /\ deliveries'[noticeWorker'.job.notice] <= Before(noticeWorker'.job)
              /\ deliveries'[noticeWorker'.job.notice] \in Nat /\ Before(noticeWorker'.job) \in Nat
            BY <1>0, <2>1, <2>2 DEF DeliveriesCounted, Before
        <3>2. \A i \in DOMAIN noticeQueue' :
                 deliveries'[noticeQueue'[i].notice] <= Before(noticeQueue'[i])
            BY <2>1, <2>2 DEF DeliveriesCounted
        <3>3. deliveries'[noticeWorker'.job.notice] <=
                 Before(noticeWorker'.job) + IF noticeWorker'.pc = "deliver" THEN 0 ELSE 1
            BY <3>1
        <3> QED
            BY <1>0, <2>1, <3>2, <3>3 DEF DeliveriesCounted
    <2> QED
        BY <2>4, <2>5
<1>2. ASSUME UNCHANGED noticeQueue,
             \/ noticeWorker' = Idle
             \/ noticeWorker # Idle /\ noticeWorker' # Idle /\ noticeWorker'.job = noticeWorker.job
      PROVE  OneJobEach'
    <2>1. \A n \in Notice : InProgress(n)' => InProgress(n)
        BY <1>2 DEF InProgress
    <2> QED
        BY <1>0, <1>2, <2>1 DEF OneJobEach
<1>3. CASE Deliver
    <2> DEFINE n == noticeWorker.job.notice
    <2>1. /\ noticeWorker # Idle /\ noticeWorker.pc = "deliver" /\ UNCHANGED noticeQueue
          /\ noticeWorker'.pc = "markRead" /\ noticeWorker'.job = noticeWorker.job
          /\ deliveries' = [deliveries EXCEPT ![n] = @ + 1]
        <3>1. noticeWorker # Idle /\ noticeWorker.pc = "deliver"
            BY <1>3 DEF Deliver, Idle
        <3>2. noticeWorker \in [pc : {"deliver", "markRead", "markWrite", "done"}, job : Job,
                                readAt : BOOLEAN]
            BY <3>1 DEF MailInv, WorkerOK
        <3> QED
            BY <1>3, <3>1, <3>2 DEF Deliver, Advance
    <2>2. noticeWorker' # Idle
        BY <2>1 DEF Idle
    <2>3. OneJobEach'
        BY <1>2, <2>1, <2>2
    <2>4. /\ n \in Notice /\ deliveries[n] \in Nat /\ deliveries'[n] = deliveries[n] + 1
          /\ \A m \in Notice : m # n => deliveries'[m] = deliveries[m]
          /\ deliveries[n] <= Before(noticeWorker.job) /\ Before(noticeWorker.job) \in 0..1
        BY <1>0, <2>1 DEF DeliveriesCounted, Before
    <2>5. n \in DOMAIN notice /\ InProgress(n)
        BY <2>1, JobsTyped DEF InProgress
    <2>6. \A m \in Notice : deliveries'[m] <= 2 /\ (m \notin DOMAIN notice => deliveries'[m] = 0)
        <3> TAKE m \in Notice
        <3>1. CASE m = n
            BY <2>4, <2>5, <3>1
        <3>2. CASE m # n
            BY <2>4, <3>2 DEF DeliveriesCounted
        <3> QED
            BY <3>1, <3>2
    <2>7. \A m \in Notice, r \in Request : Enqueues(r, m) => deliveries'[m] = 0
        BY <2>4, <2>5 DEF OneJobEach, DeliveriesCounted
    <2>8. \A i \in DOMAIN noticeQueue : deliveries'[noticeQueue[i].notice] <= Before(noticeQueue[i])
        BY <1>0, <2>4, <2>5 DEF OneJobEach, DeliveriesCounted
    <2>9. deliveries'[n] <= Before(noticeWorker.job) + 1
        BY <2>4
    <2> QED
        BY <1>0, <2>1, <2>3, <2>6, <2>7, <2>8, <2>9 DEF DeliveriesCounted
<1>4. ASSUME UNCHANGED <<noticeQueue, deliveries>>,
             \/ noticeWorker' = Idle
             \/ /\ noticeWorker # Idle /\ noticeWorker.pc # "deliver"
                /\ noticeWorker' # Idle /\ noticeWorker'.pc # "deliver"
                /\ noticeWorker'.job = noticeWorker.job
      PROVE  OneJobEach' /\ DeliveriesCounted'
    BY <1>0, <1>2, <1>4 DEF DeliveriesCounted
<1>5. CASE MarkSentRead \/ MarkSent
    <2>1. noticeWorker # Idle /\ noticeWorker.pc # "deliver"
        BY <1>5 DEF MarkSentRead, MarkSent, Idle
    <2>2. noticeWorker \in [pc : {"deliver", "markRead", "markWrite", "done"}, job : Job,
                            readAt : BOOLEAN]
        BY <2>1 DEF MailInv, WorkerOK
    <2>3. noticeWorker'.pc \in {"markWrite", "done"} /\ noticeWorker'.job = noticeWorker.job
        BY <1>5, <2>2 DEF MarkSentRead, MarkSent, Advance
    <2>4. UNCHANGED <<noticeQueue, deliveries>>
        BY <1>5 DEF MarkSentRead, MarkSent
    <2>5. noticeWorker' # Idle /\ noticeWorker'.pc # "deliver"
        BY <2>3 DEF Idle
    <2> QED
        BY <1>4, <2>1, <2>3, <2>4, <2>5
<1>6. CASE JobDone \/ NoticeFails
    BY <1>4, <1>6 DEF JobDone, NoticeFails, Drop
<1>7. CASE NoticeCrash
    <2>1. CASE Drop
        BY <1>4, <1>7, <2>1 DEF NoticeCrash, Drop
    <2>2. CASE ~ noticeWorker.job.redelivered /\ HandOutAgain(TRUE)
        <3> DEFINE job == [noticeWorker.job EXCEPT !.redelivered = TRUE]
        <3>1. /\ noticeWorker # Idle /\ noticeWorker' = Idle /\ UNCHANGED deliveries
              /\ noticeQueue' = Append(noticeQueue, job)
            BY <1>7, <2>2 DEF NoticeCrash, HandOutAgain
        <3>2. /\ job \in Job /\ job.notice \in Notice
              /\ job.notice = noticeWorker.job.notice /\ job.redelivered = TRUE
            BY <1>0, <3>1 DEF Job
        <3>3. deliveries[job.notice] <= Before(job)
            BY <1>0, <2>2, <3>1, <3>2 DEF DeliveriesCounted, Before
        <3>4. InProgress(job.notice)
            BY <3>1, <3>2 DEF InProgress
        <3> HIDE DEF job
        <3>5. /\ DOMAIN noticeQueue = 1..Len(noticeQueue) /\ Len(noticeQueue) \in Nat
              /\ DOMAIN noticeQueue' = 1..(Len(noticeQueue) + 1)
              /\ \A i \in DOMAIN noticeQueue : noticeQueue'[i] = noticeQueue[i]
              /\ noticeQueue'[Len(noticeQueue) + 1] = job
            BY <3>1, JobsTyped, AppendProperties DEF MailInv
        <3>6. \A i \in DOMAIN noticeQueue' : \/ i \in DOMAIN noticeQueue
                                             \/ i = Len(noticeQueue) + 1 /\ i \notin DOMAIN noticeQueue
            BY <3>5
        <3>7. \A n \in Notice : ~ InProgress(n)'
            BY <3>1 DEF InProgress
        <3>8. /\ \A i \in DOMAIN noticeQueue : noticeQueue[i].notice # job.notice
              /\ \A r \in Request : ~ Enqueues(r, job.notice)
            BY <3>2, <3>4 DEF OneJobEach
        <3>9. OneJobEach'
            BY <1>0, <3>2, <3>5, <3>6, <3>7, <3>8, SMTT(30) DEF OneJobEach
        <3>10. DeliveriesCounted'
            BY <1>0, <3>1, <3>3, <3>5, <3>6, SMTT(30) DEF DeliveriesCounted
        <3> QED
            BY <3>9, <3>10
    <2> QED
        BY <1>7, <2>1, <2>2 DEF NoticeCrash, Redeliver
<1> QED
    BY <1>1, <1>3, <1>5, <1>6, <1>7 DEF NoticeStep

LEMMA DeliveryStep ==
    ASSUME MailInv, MailInv', DeliveryInv, [Next]_communityVars
    PROVE  DeliveryInv'
<1>1. ASSUME UNCHANGED <<request, notice, noticeQueue, noticeWorker, deliveries>>
      PROVE  OneJobEach' /\ DeliveriesCounted'
    BY <1>1 DEF DeliveryInv, OneJobEach, DeliveriesCounted, Enqueues, InProgress
<1>2. MailSteps => OneJobEach' /\ DeliveriesCounted'
    BY <1>1, RequestDelivers, CreateDelivers, QueueDelivers, WorkerDelivers DEF MailSteps, DeliveryInv
<1>3. UNCHANGED communityVars => OneJobEach' /\ DeliveriesCounted'
    BY <1>1 DEF communityVars, mail
<1> QED
    BY <1>2, <1>3, EveryStep, DroppedStep DEF DeliveryInv

(* Rows, jobs and bookkeeping keep their types, however requests overlap; a     *)
(* notification is handed to the provider at most twice, once again after a     *)
(* restart.                                                                   *)
THEOREM CommunityTypes == Spec => []TypeOK
<1>1. Init => UsersInv /\ DeliveryInv
    <2> SUFFICES ASSUME Init
                 PROVE  UsersInv /\ DeliveryInv
        OBVIOUS
    <2>1. scope.users \subseteq User /\ MaxReports \in Nat
        BY CommunityAssumption DEF Init
    <2>2. UsersInv
        BY <2>1 DEF Init, UsersInv, Idle
    <2>3. DeliveryInv
        BY DEF Init, DeliveryInv, OneJobEach, DeliveriesCounted, Enqueues, InProgress, Idle
    <2> QED
        BY <2>2, <2>3
<1>2. UsersInv /\ BlockInv /\ ReportInv /\ [Next]_communityVars => UsersInv'
    <2> SUFFICES ASSUME UsersInv, BlockInv, ReportInv, [Next]_communityVars
                 PROVE  UsersInv'
        OBVIOUS
    <2>1. scope.users \subseteq User
        BY CommunityAssumption DEF ReportInv
    <2> QED
        BY <2>1, AdminStep, BlockTyped, ReportsTyped DEF UsersInv
<1>3. UsersInv /\ DeliveryInv /\ PostInv /\ GroupInv /\ ReportInv /\ MailInv => TypeOK
    <2> SUFFICES ASSUME UsersInv, DeliveryInv, PostInv, GroupInv, ReportInv, MailInv
                 PROVE  TypeOK
        OBVIOUS
    <2>1. report \in [User -> [User -> 0..MaxReports]]
        BY CommunityAssumption DEF UsersInv, ReportInv
    <2>2. deliveries \in [Notice -> 0..2]
        BY DEF DeliveryInv, DeliveriesCounted, MailInv
    <2>3. noticeQueue \in Seq([notice : Notice, redelivered : BOOLEAN])
        BY DEF MailInv, Job
    <2> QED
        BY <2>1, <2>2, <2>3 DEF TypeOK, UsersInv, DeliveryInv, PostInv, GroupInv, MailInv
<1>4. DeliveryInv /\ MailInv /\ MailInv' /\ [Next]_communityVars => DeliveryInv'
    BY DeliveryStep
<1> QED
    BY <1>1, <1>2, <1>3, <1>4, BlockInit, BlockStep, ReportInit, ReportStep, PostAlways, GroupInit,
       GroupStep, MailAlways, PTL DEF Spec
=============================================================================
