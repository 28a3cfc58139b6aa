---------------------------- MODULE MCCommunity -----------------------------
(* An instance of Community for TLC. *)
EXTENDS Community, TLC

CONSTANTS u1, u2, u3, u4, g1, r1, r2

Applying    == [handlers |-> {"createPost", "apply", "updatePost"},
                users |-> {u1, u2, u3, u4}, founder |-> u1, notices |-> 0]
Deleting    == [handlers |-> {"createPost", "apply", "cancel", "updatePost", "deletePost",
                              "archiveGroup"},
                users |-> {u1, u2}, founder |-> u1, notices |-> 0]
Organising  == [handlers |-> {"createGroup", "addMember", "updateGroup", "archiveGroup",
                              "adminFlag"},
                users |-> {u1, u2}, founder |-> None, notices |-> 0]
Blocking    == [handlers |-> {"block", "unblock", "withdraw"},
                users |-> {u1, u2, u3}, founder |-> None, notices |-> 0]
Reporting   == [handlers |-> {"report", "withdraw"},
                users |-> {u1, u2}, founder |-> None, notices |-> 0]
Looking     == [handlers |-> {"addMember", "createPost", "updateGroup", "block", "postStatus"},
                users |-> {u1, u2}, founder |-> u1, notices |-> 0]
Telling     == [handlers |-> {"createPost", "apply", "read", "readAll"},
                users |-> {u1, u2}, founder |-> u1, notices |-> 2]
SmallScopes == {Applying, Deleting, Organising, Blocking, Reporting, Looking, Telling}
=============================================================================
