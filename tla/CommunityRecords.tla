-------------------------- MODULE CommunityRecords --------------------------
(***************************************************************************)
(* Groups, recruiting posts, applications, blocks, reports and             *)
(* notifications (src/prisma/schema.prisma), and the requests that work on *)
(* them. A request slot runs one handler at a time and keeps between its   *)
(* steps what the handler has read.                                        *)
(***************************************************************************)
EXTENDS Naturals, FiniteSets, Sequences

CONSTANTS User, Group, Request,
          None,             \* an absent row, role or capacity
          Capacities,       \* lengths of requiredPositions that posts are given
          MaxPosts, MaxNotices, MaxReports,  \* bounds of the model
          Scopes            \* bounds of a behaviour, one of which it is given

ASSUME CommunityAssumption ==
    /\ Capacities \subseteq (Nat \ {0}) \cup {None}
    /\ MaxPosts \in Nat /\ MaxNotices \in Nat /\ MaxReports \in Nat
    /\ IsFiniteSet(User) /\ IsFiniteSet(Request)
    /\ \A s \in Scopes : /\ s.users \subseteq User /\ s.founder \in User \cup {None}
                         /\ s.notices \in 0..MaxNotices
    /\ None \notin {"OWNER", "ADMIN", "MEMBER"} \cup Nat

VARIABLES
    scope,        \* the handlers that may run, the users they are about, how many
                  \* notifications, and who founded the groups there are already
    active,       \* users that have not withdrawn
    admin,        \* users with isAdmin
    group,        \* inhouse_groups
    member,       \* group_members: the role of each user
    post,         \* recruiting_posts
    application,  \* recruiting_post_applications
    block,        \* user_blocks: pairs of user and target
    report,       \* reports of the last ten minutes: how many by whom about whom
    notice,       \* notifications, oldest first
    noticeQueue,  \* NOTIFICATION jobs
    noticeWorker, \* the NOTIFICATION job in progress
    deliveries,   \* how often a notification was handed to the delivery provider
    request,      \* the requests in progress
    peak,         \* history: the largest capacity a post has had
    late,         \* history: applications and blocks under way when their check expired
    dropped       \* history: notifications without a job or whose job failed

social   == <<active, admin, group, member, post, application, block, report>>
mail     == <<notice, noticeQueue, noticeWorker, deliveries, dropped>>
communityVars == <<scope, social, mail, request, peak, late>>

Post   == 1..MaxPosts
Notice == 1..MaxNotices
Role   == {"OWNER", "ADMIN", "MEMBER"}
PostStatus == {"OPEN", "CLOSED", "CANCELLED"}

GroupRow  == [owner : User, archived : BOOLEAN, private : BOOLEAN]
PostRow   == [group : Group, author : User, status : PostStatus, deleted : BOOLEAN,
              capacity : Capacities]
NoticeRow == [to : User, status : {"PENDING", "SENT", "READ"},
              sentAt : BOOLEAN, readAt : BOOLEAN]

ASSUME NoneAssumption == None \notin PostRow

Live(g)    == group[g] # None /\ ~ group[g].archived
Exists(p)  == post[p] # None
Findable(p) == Exists(p) /\ ~ post[p].deleted /\ Live(post[p].group)
Applicants(p) == {u \in User : <<p, u>> \in application}

\* blockVisibilityPolicy: neither has blocked the other.
Visible(viewer, author) == {<<viewer, author>>, <<author, viewer>>} \cap block = {}

\* groupsService.assertGroupMember and assertGroupAdmin.
AssertMember(g, u) == Live(g) /\ member[g][u] # None
AssertAdmin(g, u)  == Live(g) /\ member[g][u] \in {"OWNER", "ADMIN"}

Idle == [pc |-> "idle"]
Goto(r, record) == request' = [request EXCEPT ![r] = record]
Leave(r)        == Goto(r, Idle)

\* jwt.strategy.validate: an active user's request arrives at a free slot.
Arrives(r, handler, u) ==
    /\ handler \in scope.handlers
    /\ request[r] = Idle
    /\ u \in active

\* The handler goes on to createMany for these users.
Announce(r, users) ==
    IF users = {} THEN Leave(r) ELSE Goto(r, [pc |-> "announce", to |-> users])
=============================================================================
