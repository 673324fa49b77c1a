---------------------------- MODULE MCProviders -----------------------------
(* One connection, a model and three keys, two concurrent requests.        *)
EXTENDS Providers, TLC

CONSTANTS c1, s1, s2, s3, n1, m1, r1, r2

MCConns == {c1}
MCRefs == {s1, s2, s3}
MCNames == {n1}
MCModels == {m1}
MCUpstreams == {"u"}
MCRequests == {r1, r2}

MCSymmetry == Permutations(MCRefs) \cup Permutations(MCRequests)

(* Bound: once a model is involved, two keys (one rotation) and no secret  *)
(* given up or left without an answer.                                     *)
KeysUsed == Cardinality({s \in Refs : store[s] # "unused"})
ModelInvolved ==
    \/ \E m \in Models : model[m].status # "absent"
    \/ \E r \in Requests : req[r].model # NoModel
MCBound == ModelInvolved => KeysUsed <= 2 /\ excused = {} /\ unacked = {}

=============================================================================
