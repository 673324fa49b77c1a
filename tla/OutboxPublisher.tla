--------------------------- MODULE OutboxPublisher ---------------------------
(***************************************************************************)
(* The outbox publisher loop of the worker.  Each worker process claims a  *)
(* batch of due rows with FOR UPDATE SKIP LOCKED, publishes them one after *)
(* the other inside the open transaction, and commits the new row states   *)
(* together.  A crash, or any database error, rolls the batch back and     *)
(* releases its locks.                                                     *)
(*                                                                         *)
(* A publish that raises BrokerUnavailableError proves nothing: its record *)
(* may reach the broker later (late).  Back-off deadlines are untimed.     *)
(***************************************************************************)
EXTENDS Naturals, FiniteSets, FiniteSetsExt

CONSTANTS
    Events,      \* outbox_events rows
    Malformed,   \* rows that serialize_outbox_row rejects
    Publishers,  \* worker processes
    BatchSize,   \* DEFAULT_BATCH_SIZE
    MaxCrashes   \* bound on worker crashes

ASSUME PublisherAssumption ==
    /\ Malformed \subseteq Events
    /\ BatchSize \in Nat \ {0}
    /\ MaxCrashes \in Nat

VARIABLES
    status,  \* outbox_events.status, "none" before the row exists
    due,     \* rows with next_attempt_at <= now()
    batch,   \* rows locked by the open transaction of each publisher
    mark,    \* its uncommitted updates of those rows
    topic,   \* events of which the broker holds a copy
    late,    \* events with an unacknowledged copy that may still arrive
    crashes  \* worker crashes so far

vars == <<status, due, batch, mark, topic, late, crashes>>

Marks == {"none", "published", "retry", "failed"}

TypeOK ==
    /\ status \in [Events -> {"none", "pending", "published", "failed"}]
    /\ due \subseteq Events
    /\ batch \in [Publishers -> SUBSET Events]
    /\ mark \in [Publishers -> [Events -> Marks]]
    /\ topic \subseteq Events
    /\ late \subseteq Events
    /\ crashes \in 0..MaxCrashes

NoMarks == [e \in Events |-> "none"]

Init ==
    /\ status = [e \in Events |-> "none"]
    /\ due = {}
    /\ batch = [p \in Publishers |-> {}]
    /\ mark = [p \in Publishers |-> NoMarks]
    /\ topic = {}
    /\ late = {}
    /\ crashes = 0

-----------------------------------------------------------------------------

(* The row commits with the business transaction that stages it.           *)
add_outbox_event(e) ==
    /\ status[e] = "none"
    /\ status' = [status EXCEPT ![e] = "pending"]
    /\ due' = due \cup {e}
    /\ UNCHANGED <<batch, mark, topic, late, crashes>>

Locked == UNION {batch[p] : p \in Publishers}

(* Mutant: plain reads instead of FOR UPDATE SKIP LOCKED.                  *)
ClaimableUnlocked == {e \in due : status[e] = "pending"}

Claimable == {e \in due \ Locked : status[e] = "pending"}

(* The rows with the earliest deadlines; as deadlines are untimed, any     *)
(* batch of the right size.  An empty batch changes nothing.               *)
claim_due_events(p) ==
    /\ batch[p] = {}
    /\ Claimable # {}
    /\ \E S \in kSubset(Min({BatchSize, Cardinality(Claimable)}), Claimable) :
          batch' = [batch EXCEPT ![p] = S]
    /\ UNCHANGED <<status, due, mark, topic, late, crashes>>

Todo(p) == {e \in batch[p] : mark[p][e] = "none"}

SetMark(p, e, m) == mark' = [mark EXCEPT ![p][e] = m]

(* Mutant: a row that cannot be serialised is retried like any other.      *)
SerializeRetried(p, e) ==
    /\ e \in Todo(p) \cap Malformed
    /\ SetMark(p, e, "retry")
    /\ UNCHANGED <<status, due, batch, topic, late, crashes>>

serialize_failed(p, e) ==
    /\ e \in Todo(p) \cap Malformed
    /\ SetMark(p, e, "failed")
    /\ UNCHANGED <<status, due, batch, topic, late, crashes>>

publish_acknowledged(p, e) ==
    /\ e \in Todo(p) \ Malformed
    /\ topic' = topic \cup {e}
    /\ SetMark(p, e, "published")
    /\ UNCHANGED <<status, due, batch, late, crashes>>

(* Mutant: the row is marked published although delivery failed.           *)
FailureTakenForSuccess(p, e) ==
    /\ e \in Todo(p) \ Malformed
    /\ late' \in {late, late \cup {e}}
    /\ SetMark(p, e, "published")
    /\ UNCHANGED <<status, due, batch, topic, crashes>>

(* BrokerUnavailableError: time-out, delivery error, or a flush that still *)
(* has another thread's record to deliver.                                 *)
publish_failed(p, e) ==
    /\ e \in Todo(p) \ Malformed
    /\ late' \in {late, late \cup {e}}
    /\ SetMark(p, e, "retry")
    /\ UNCHANGED <<status, due, batch, topic, crashes>>

Marked(p, m) == {e \in batch[p] : mark[p][e] = m}

(* Mutant: a failed delivery ends the row's life.                          *)
CommitFailures(p) ==
    /\ batch[p] # {} /\ Todo(p) = {}
    /\ status' = [e \in Events |->
                    IF e \in Marked(p, "published") THEN "published"
                    ELSE IF e \in Marked(p, "failed") \cup Marked(p, "retry") THEN "failed"
                    ELSE status[e]]
    /\ due' = due \ Marked(p, "retry")
    /\ batch' = [batch EXCEPT ![p] = {}]
    /\ mark' = [mark EXCEPT ![p] = NoMarks]
    /\ UNCHANGED <<topic, late, crashes>>

(* The end of the transaction: every row of the batch changes state.       *)
publish_due_batch(p) ==
    /\ batch[p] # {} /\ Todo(p) = {}
    /\ status' = [e \in Events |->
                    IF e \in Marked(p, "published") THEN "published"
                    ELSE IF e \in Marked(p, "failed") THEN "failed"
                    ELSE status[e]]
    /\ due' = due \ Marked(p, "retry")
    /\ batch' = [batch EXCEPT ![p] = {}]
    /\ mark' = [mark EXCEPT ![p] = NoMarks]
    /\ UNCHANGED <<topic, late, crashes>>

(* The worker stops in the middle of a batch; a record handed to the       *)
(* producer may already be on its way.                                     *)
Crash(p) ==
    /\ crashes < MaxCrashes
    /\ batch[p] # {}
    /\ \E inFlight \in SUBSET (Todo(p) \ Malformed) :
          Cardinality(inFlight) <= 1 /\ late' = late \cup inFlight
    /\ crashes' = crashes + 1
    /\ batch' = [batch EXCEPT ![p] = {}]
    /\ mark' = [mark EXCEPT ![p] = NoMarks]
    /\ UNCHANGED <<status, due, topic>>

(* An unacknowledged record arrives after all, or is given up.             *)
LateRecord(e) ==
    /\ e \in late
    /\ late' = late \ {e}
    /\ topic' \in {topic, topic \cup {e}}
    /\ UNCHANGED <<status, due, batch, mark, crashes>>

BackoffPasses(e) ==
    /\ status[e] = "pending"
    /\ due' = due \cup {e}
    /\ UNCHANGED <<status, batch, mark, topic, late, crashes>>

Settled == {e \in Events : status[e] \in {"published", "failed"}}

(* Nothing is pending: every poll is empty.                                *)
Idle == Settled = Events /\ late = {} /\ UNCHANGED vars

Next ==
    \/ Idle
    \/ \E e \in Events : add_outbox_event(e) \/ LateRecord(e) \/ BackoffPasses(e)
    \/ \E p \in Publishers :
          \/ claim_due_events(p)
          \/ publish_due_batch(p)
          \/ Crash(p)
          \/ \E e \in Events :
                \/ serialize_failed(p, e)
                \/ publish_acknowledged(p, e)
                \/ publish_failed(p, e)

(* The worker keeps polling and restarts after a crash.  The broker may be *)
(* unavailable any number of times, but not for ever.                      *)
Fairness ==
    /\ \A e \in Events : WF_vars(BackoffPasses(e))
    /\ \A p \in Publishers :
          /\ WF_vars(claim_due_events(p))
          /\ WF_vars(publish_due_batch(p))
          /\ \A e \in Events :
                /\ WF_vars(serialize_failed(p, e))
                /\ SF_vars(publish_acknowledged(p, e))

Spec == Init /\ [][Next]_vars /\ Fairness

-----------------------------------------------------------------------------
(* Properties.                                                             *)

(* The refinement mapping: the copies the broker holds are what is delivered; *)
(* batches, marks, late records and back-off are internal to the publishers.  *)
Delivery == INSTANCE OutboxDelivery WITH
    Events <- Events, Malformed <- Malformed, status <- status, delivered <- topic

(* Through claims, time-outs, late records, rolled back batches and        *)
(* crashes, the publishers implement at-least-once delivery: a row leaves  *)
(* pending only after the broker holds a copy of it.                       *)
ImplementsDelivery == Delivery!Spec

(* A row locked by an open publisher transaction is pending until that     *)
(* transaction ends, so its status updates (WHERE status = 'pending')      *)
(* always find their row.  Two publishers never hold the same row.         *)
LockedRowsPending ==
    \A p \in Publishers : \A e \in batch[p] :
        /\ status[e] = "pending"
        /\ \A q \in Publishers \ {p} : e \notin batch[q]

(* An uncommitted update belongs to a locked row, a published mark follows *)
(* the broker's acknowledgement, and only unserialisable rows are failed.  *)
MarkInv ==
    \A p \in Publishers : \A e \in Events :
        /\ mark[p][e] # "none" => e \in batch[p]
        /\ mark[p][e] = "published" => e \in topic
        /\ mark[p][e] = "failed" => e \in Malformed

(* Only serialisable rows that exist are handed to the broker, and a late  *)
(* copy of a published row is a duplicate.                                 *)
RecordInv ==
    /\ \A e \in topic \cup late : e \notin Malformed /\ status[e] # "none"
    /\ \A e \in Events \ Malformed : status[e] \in {"published", "failed"} => e \in topic

(* The inductive invariant of at-least-once delivery: exclusive locks keep *)
(* a row pending while its publisher works on it, so that the marks it     *)
(* commits are still justified by the broker's acknowledgements.           *)
PublisherInv == LockedRowsPending /\ MarkInv /\ RecordInv

(* A committed event is eventually published, or failed when it cannot be  *)
(* serialised, however often delivery fails.                               *)
EventuallySettled == \A e \in Events : status[e] = "pending" ~> e \in Settled

=============================================================================
