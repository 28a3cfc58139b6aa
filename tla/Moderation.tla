----------------------------- MODULE Moderation -----------------------------
(***************************************************************************)
(* Blocks and reports of users (src/src/blocks/, src/src/reports/), what   *)
(* operators change (src/src/admin/admin.service.ts), and the part of a    *)
(* withdrawal that concerns blocks.                                        *)
(***************************************************************************)
EXTENDS CommunityRecords

ModerationRest == <<scope, group, member, application, mail, peak>>

\* blockUser: the target is active when it is looked up.
BlockRead(r, u, target) ==
    /\ Arrives(r, "block", u)
    /\ u # target /\ target \in active
    /\ Goto(r, [pc |-> "block", user |-> u, target |-> target])
    /\ UNCHANGED <<active, admin, post, block, report, late, ModerationRest>>

Block(r) ==
    /\ request[r].pc = "block"
    /\ block' = block \cup {<<request[r].user, request[r].target>>}
    /\ Leave(r)
    /\ UNCHANGED <<active, admin, post, report, late, ModerationRest>>

Unblock(r, u, target) ==
    /\ Arrives(r, "unblock", u)
    /\ block' = block \ {<<u, target>>}
    /\ UNCHANGED <<active, admin, post, report, request, late, ModerationRest>>

BlocksBy(u)       == {b \in block : b[1] = u}   \* a slip
BlocksInvolving(u) == {b \in block : u \in {b[1], b[2]}}

\* users.withdrawMe, its transaction, as far as blocks and sign-in go. Blocks
\* under way are late from now on.
Withdraw(r, u) ==
    /\ Arrives(r, "withdraw", u)
    /\ active' = active \ {u}
    /\ block' = block \ BlocksInvolving(u)
    /\ late' = [late EXCEPT !.block = @ \cup {<<request[q].user, request[q].target>> :
            q \in {s \in Request : request[s].pc = "block"
                                     /\ u \in {request[s].user, request[s].target}}}]
    /\ UNCHANGED <<admin, post, report, request, ModerationRest>>

\* createReport about a user: an active one, not reported lately.
RecentlyReportedNever(u, target) == FALSE   \* a slip
RecentlyReported(u, target)      == report[u][target] > 0

ReportRead(r, u, target) ==
    /\ Arrives(r, "report", u)
    /\ u # target /\ target \in active
    /\ ~ RecentlyReported(u, target)
    /\ Goto(r, [pc |-> "report", user |-> u, target |-> target])
    /\ UNCHANGED <<active, admin, post, block, report, late, ModerationRest>>

Report(r) ==
    LET u == request[r].user
        t == request[r].target
    IN  /\ request[r].pc = "report"
        /\ report[u][t] < MaxReports
        /\ report' = [report EXCEPT ![u][t] = @ + 1]
        /\ Leave(r)
        /\ UNCHANGED <<active, admin, post, block, late, ModerationRest>>

\* RECENT_DUPLICATE_WINDOW_MS pass.
WindowPasses(u, target) ==
    /\ report[u][target] > 0
    /\ report' = [report EXCEPT ![u][target] = 0]
    /\ UNCHANGED <<active, admin, post, block, request, late, ModerationRest>>

\* updateAdminFlag and updateRecruitingPostStatus, after assertAdmin.
OperatorRead(r, u, handler) ==
    /\ Arrives(r, handler, u)
    /\ u \in admin
    /\ Goto(r, [pc |-> handler])
    /\ UNCHANGED <<active, admin, post, block, report, late, ModerationRest>>

SetAdminFlag(r, target, isAdmin) ==
    /\ request[r].pc = "adminFlag"
    /\ admin' = IF isAdmin THEN admin \cup {target} ELSE admin \ {target}
    /\ Leave(r)
    /\ UNCHANGED <<active, post, block, report, late, ModerationRest>>

\* Any post, a deleted one as well.
SetPostStatus(r, p, status) ==
    /\ request[r].pc = "postStatus"
    /\ Exists(p)
    /\ post' = [post EXCEPT ![p].status = status]
    /\ Leave(r)
    /\ UNCHANGED <<active, admin, block, report, late, ModerationRest>>
=============================================================================
