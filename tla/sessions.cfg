CONSTANTS
    t1 = t1
    t2 = t2
    s1 = s1
    s2 = s2
    i1 = i1
    u1 = u1
    u2 = u2
    org1 = org1
    r1 = r1
    r2 = r2
    States <- MCStates
    Sids <- MCSids
    Identities <- MCIdentities
    Users <- MCUsers
    Tenants <- MCTenants
    Requests <- MCRequests
    StateTTL = 1
    SessionTTL = 3
SPECIFICATION FairSpec
INVARIANTS
    LoginsAgree
    TenantWasMember
PROPERTIES
    NoRevival
    SessionEnds
