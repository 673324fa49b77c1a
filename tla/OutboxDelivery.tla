--------------------------- MODULE OutboxDelivery ----------------------------
(***************************************************************************)
(* What the transactional outbox promises, whatever its publishers do:     *)
(* an event that commits with the business transaction stays pending until *)
(* the broker holds at least one copy of it, and only then is published.   *)
(* An event that cannot be serialised is failed and never sent.  Copies    *)
(* may be repeated and may overtake each other.                            *)
(***************************************************************************)
CONSTANTS
    Events,    \* outbox_events rows
    Malformed  \* rows that serialize_outbox_row rejects

VARIABLES
    status,    \* outbox_events.status, "none" before the row exists
    delivered  \* events of which the broker holds a copy

vars == <<status, delivered>>

Init ==
    /\ status = [e \in Events |-> "none"]
    /\ delivered = {}

Stage(e) ==
    /\ status[e] = "none"
    /\ status' = [status EXCEPT ![e] = "pending"]
    /\ UNCHANGED delivered

Deliver(e) ==
    /\ e \notin Malformed
    /\ status[e] = "pending"
    /\ delivered' = delivered \cup {e}
    /\ UNCHANGED status

(* The rows of one publisher transaction are settled together.             *)
Settle(S) ==
    /\ \A e \in S : status[e] = "pending" /\ (e \in delivered \/ e \in Malformed)
    /\ status' = [e \in Events |->
                    IF e \notin S THEN status[e]
                    ELSE IF e \in Malformed THEN "failed" ELSE "published"]
    /\ UNCHANGED delivered

Next ==
    \/ \E e \in Events : Stage(e) \/ Deliver(e)
    \/ \E S \in SUBSET Events : Settle(S)

Spec == Init /\ [][Next]_vars

(* A row is published only after the broker acknowledged a copy of it, and *)
(* no copy of a rejected row ever reaches the broker.                      *)
AtLeastOnce ==
    \A e \in Events :
        /\ status[e] = "published" => e \in delivered
        /\ status[e] = "failed" => e \notin delivered

=============================================================================
