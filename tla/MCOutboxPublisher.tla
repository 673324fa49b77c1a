------------------------- MODULE MCOutboxPublisher --------------------------
(* Two workers, two good rows and a malformed one, batches of two.         *)
EXTENDS OutboxPublisher, TLC

CONSTANTS e1, e2, bad, p1, p2

MCEvents == {e1, e2, bad}
MCMalformed == {bad}
MCPublishers == {p1, p2}

=============================================================================
