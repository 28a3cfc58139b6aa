------------------------------- MODULE People -------------------------------
(***************************************************************************)
(* Which users a user is shown (src/src/users/users.service.ts, and the    *)
(* lists of groups.service.ts): candidates to invite, members of a group,  *)
(* profiles.                                                               *)
(***************************************************************************)
EXTENDS Groups

\* findInviteUsers in a group: active users, the viewer among them, that no block
\* separates from the viewer.
Found(viewer) == {u \in active : Visible(viewer, u)}

\* resolveInviteEligibility.
Eligible(viewer, g, u) == u # viewer /\ member[g][u] = None

\* searchMemberCandidates: found and selectable, for those who may invite.
Candidates(viewer, g) ==
    {u \in Found(viewer) : AssertAdmin(g, viewer) /\ Eligible(viewer, g, u)}

\* listMembers.
Members(viewer, g) == {u \in User : AssertMember(g, viewer) /\ member[g][u] # None}

\* assertCanAccessUserScopedResource: oneself, or somebody in a common group,
\* archived or not.
Reaches(viewer, u) ==
    viewer = u \/ \E g \in Group : member[g][viewer] # None /\ member[g][u] # None

\* getUserProfile: reachable users have one, and it is open unless one of the two
\* has blocked the other.
ProfileOpens(viewer, u) == Reaches(viewer, u) /\ (viewer = u \/ Visible(viewer, u))
=============================================================================
