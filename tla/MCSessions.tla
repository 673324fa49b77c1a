----------------------------- MODULE MCSessions -----------------------------
(* Two login states, sessions and user rows, two concurrent requests.      *)
EXTENDS Sessions, TLC

CONSTANTS t1, t2, s1, s2, i1, u1, u2, org1, r1, r2

MCStates == {t1, t2}
MCSids == {s1, s2}
MCIdentities == {i1}
MCUsers == {u1, u2}
MCTenants == {org1}
MCRequests == {r1, r2}

=============================================================================
