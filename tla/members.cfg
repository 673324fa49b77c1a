CONSTANTS
    u1 = u1
    u2 = u2
    r1 = r1
    r2 = r2
    i1 = i1
    Users <- MCUsers
    Roles <- MCRoles
    Owner = "owner"
    ManagerRoles <- MCManagerRoles
    Assignable <- MCAssignable
    Invites <- MCInvites
    RoleLists <- MCRoleLists
    Updates <- MCUpdates
    Requests <- MCRequests
SPECIFICATION Spec
INVARIANTS
    HasActiveOwner
PROPERTIES
    AcceptanceComplete
    UsedOnce
    UpdateByManager
    EveryRequestAnswered
