---------------------------- MODULE MCRoleGossip -----------------------------
(* RoleGossip with the default roles that matter to it, and one more that a *)
(* user may define.                                                         *)
EXTENDS RoleGossip

CONSTANTS p1, p2, admin, viewer, helper

MCPerm == {Manage, Define}
MCDefaults == [r \in {admin, viewer, helper} |->
                 IF r = admin THEN MCPerm ELSE IF r = viewer THEN {} ELSE Undefined]
MCFirstRoles == [c \in {p1, p2} |-> {admin}]
MCRoleLists == {{}, {viewer}, {admin, viewer}, {viewer, helper}}
MCMasks == {{Manage}}
=============================================================================
