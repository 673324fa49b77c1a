--------------------------- MODULE MCMemberships ----------------------------
(* Two users, one invitation, the owner and admin roles.                   *)
EXTENDS Memberships, TLC

CONSTANTS u1, u2, r1, r2, i1

MCUsers == {u1, u2}
MCInvites == {i1}
MCRequests == {r1, r2}
MCRoles == {"owner", "admin"}
MCManagerRoles == {"owner", "admin"}
MCAssignable == {"owner", "admin"}
MCRoleLists == {{"owner", "admin"}}

Payload(roles, status) == [roles |-> roles, status |-> status]

(* The admin role is granted or taken away; a member is suspended.         *)
MCUpdates ==
  {Payload({"owner", "admin"}, "keep"), Payload({"owner"}, "keep"), Payload({}, "suspended")}

=============================================================================
