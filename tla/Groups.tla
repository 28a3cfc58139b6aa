------------------------------- MODULE Groups -------------------------------
(***************************************************************************)
(* src/src/groups/groups.service.ts: groups, their members, and what the   *)
(* service tells a user he may do in a group.                              *)
(***************************************************************************)
EXTENDS CommunityRecords

GroupRest == <<scope, active, admin, post, application, block, report, mail, peak>>

\* createGroup: the creator becomes the first member, as OWNER.
CreateGroup(r, u, g, private) ==
    /\ Arrives(r, "createGroup", u)
    /\ group[g] = None
    /\ group' = [group EXCEPT ![g] = [owner |-> u, archived |-> FALSE, private |-> private]]
    /\ member' = [member EXCEPT ![g][u] = "OWNER"]
    /\ UNCHANGED <<request, late, GroupRest>>

\* updateGroup and deleteGroup admit the owner or an operator.
AssertEditor(g, u) == Live(g) /\ (group[g].owner = u \/ u \in admin)

EditGroup(r, u, g, handler) ==
    /\ Arrives(r, handler, u)
    /\ AssertEditor(g, u)
    /\ Goto(r, [pc |-> handler, group |-> g])
    /\ UNCHANGED <<group, member, late, GroupRest>>

UpdateGroup(r, private) ==
    /\ request[r].pc = "updateGroup"
    /\ group' = [group EXCEPT ![request[r].group].private = private]
    /\ Leave(r)
    /\ UNCHANGED <<member, late, GroupRest>>

ArchiveGroup(r) ==
    /\ request[r].pc = "archiveGroup"
    /\ group' = [group EXCEPT ![request[r].group].archived = TRUE]
    /\ Leave(r)
    /\ UNCHANGED <<member, late, GroupRest>>

\* addMember: the checks, then the row unless the unique pair exists by now.
MayAdd(g, u, target) == AssertAdmin(g, u) /\ target # u /\ member[g][target] = None

AddMemberRead(r, u, g, target, role) ==
    /\ Arrives(r, "addMember", u)
    /\ MayAdd(g, u, target)
    /\ role # "OWNER"
    /\ Goto(r, [pc |-> "addMember", group |-> g, target |-> target, role |-> role])
    /\ UNCHANGED <<group, member, late, GroupRest>>

AddMember(r) ==
    LET g == request[r].group
        t == request[r].target
    IN  /\ request[r].pc = "addMember"
        /\ member' = [member EXCEPT ![g][t] = IF @ = None THEN request[r].role ELSE @]
        /\ Leave(r)
        /\ UNCHANGED <<group, late, GroupRest>>

-----------------------------------------------------------------------------
(* resolveGroupCapabilities. *)
MemberOf(g, u) == Live(g) /\ member[g][u] # None

CanInvite(g, u)      == MemberOf(g, u) /\ member[g][u] \in {"OWNER", "ADMIN"}
CanCreateMatch(g, u) == MemberOf(g, u)
CanEditAsLeader(g, u) == (Live(g) /\ u \in admin) \/ CanInvite(g, u)   \* a slip
CanEdit(g, u)         == \/ Live(g) /\ u \in admin
                         \/ MemberOf(g, u) /\ group[g].owner = u

\* toGroupDetail, for a group that getGroupAccessContext has found.
GroupFlags(g, u) == [edit   |-> CanEdit(g, u), invite |-> CanInvite(g, u),
                     create |-> CanCreateMatch(g, u)]

\* getGroup shows a group and these flags to its members, a public one to all.
GroupShown(g, u) == Live(g) /\ (group[g].private => member[g][u] # None)
=============================================================================
