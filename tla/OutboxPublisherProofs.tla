------------------------ MODULE OutboxPublisherProofs ------------------------
(***************************************************************************)
(* The outbox publishers are well typed, keep their row locks exclusive    *)
(* and implement at-least-once delivery, for every set of rows, every      *)
(* number of workers, every batch size and any number of crashes.          *)
(***************************************************************************)
EXTENDS OutboxPublisher, TLAPS

(* A claimed batch consists of claimable rows.                             *)
LEMMA ClaimFree ==
    ASSUME NEW p \in Publishers, claim_due_events(p)
    PROVE  \E S \in SUBSET Claimable : batch' = [batch EXCEPT ![p] = S]
  BY Zenon DEF claim_due_events, kSubset

(* Every step keeps the types: row states, marks and locks of publishers.  *)
LEMMA TypeStep == TypeOK /\ [Next]_vars => TypeOK'
  <1> SUFFICES ASSUME TypeOK, [Next]_vars PROVE TypeOK'
    OBVIOUS
  <1>1. NoMarks \in [Events -> Marks]
    BY DEF NoMarks, Marks
  <1>2. ASSUME NEW e \in Events, add_outbox_event(e) PROVE TypeOK'
    BY <1>2 DEF TypeOK, add_outbox_event
  <1>3. ASSUME NEW e \in Events, LateRecord(e) PROVE TypeOK'
    BY <1>3 DEF TypeOK, LateRecord
  <1>4. ASSUME NEW e \in Events, BackoffPasses(e) PROVE TypeOK'
    BY <1>4 DEF TypeOK, BackoffPasses
  <1>5. ASSUME NEW p \in Publishers, claim_due_events(p) PROVE TypeOK'
    <2>1. PICK S \in SUBSET Claimable : batch' = [batch EXCEPT ![p] = S]
      BY <1>5, ClaimFree
    <2>2. S \in SUBSET Events
      BY DEF Claimable, TypeOK
    <2> QED  BY <1>5, <2>1, <2>2 DEF TypeOK, claim_due_events
  <1>6. ASSUME NEW p \in Publishers, publish_due_batch(p) PROVE TypeOK'
    BY <1>1, <1>6 DEF TypeOK, publish_due_batch
  <1>7. ASSUME NEW p \in Publishers, Crash(p) PROVE TypeOK'
    <2>1. late' \subseteq Events
      BY <1>7 DEF TypeOK, Crash, Todo
    <2>2. crashes' \in 0..MaxCrashes
      BY <1>7, PublisherAssumption DEF TypeOK, Crash
    <2> QED  BY <1>1, <1>7, <2>1, <2>2 DEF TypeOK, Crash
  <1>8. ASSUME NEW p \in Publishers, NEW e \in Events, NEW m \in Marks, SetMark(p, e, m)
        PROVE  mark' \in [Publishers -> [Events -> Marks]]
    BY <1>8 DEF TypeOK, SetMark
  <1>9. ASSUME NEW p \in Publishers, NEW e \in Events, serialize_failed(p, e) PROVE TypeOK'
    <2>1. mark' \in [Publishers -> [Events -> Marks]]
      BY <1>8, <1>9 DEF serialize_failed, Marks
    <2> QED  BY <1>9, <2>1 DEF TypeOK, serialize_failed
  <1>10. ASSUME NEW p \in Publishers, NEW e \in Events, publish_acknowledged(p, e) PROVE TypeOK'
    <2>1. mark' \in [Publishers -> [Events -> Marks]]
      BY <1>8, <1>10 DEF publish_acknowledged, Marks
    <2> QED  BY <1>10, <2>1 DEF TypeOK, publish_acknowledged
  <1>11. ASSUME NEW p \in Publishers, NEW e \in Events, publish_failed(p, e) PROVE TypeOK'
    <2>1. mark' \in [Publishers -> [Events -> Marks]]
      BY <1>8, <1>11 DEF publish_failed, Marks
    <2> QED  BY <1>11, <2>1 DEF TypeOK, publish_failed
  <1>12. CASE UNCHANGED vars
    BY <1>12 DEF TypeOK, vars
  <1> QED
    BY <1>2, <1>3, <1>4, <1>5, <1>6, <1>7, <1>9, <1>10, <1>11, <1>12 DEF Next, Idle

(* Every state of the outbox and of its publishers is well typed: the row  *)
(* states stay within the schema and every update is one of the three the  *)
(* publisher issues.                                                       *)
THEOREM TypeCorrect == Spec => []TypeOK
  <1>1. Init => TypeOK
    BY PublisherAssumption DEF Init, TypeOK, NoMarks, Marks
  <1> QED  BY <1>1, TypeStep, PTL DEF Spec

(* Every step keeps the locks exclusive and the marks justified.           *)
LEMMA InvStep == TypeOK /\ PublisherInv /\ [Next]_vars => PublisherInv'
  <1> SUFFICES ASSUME TypeOK, PublisherInv, [Next]_vars PROVE PublisherInv'
    OBVIOUS
  <1> USE DEF PublisherInv
  <1>1. ASSUME NEW e \in Events, add_outbox_event(e) PROVE PublisherInv'
    BY <1>1 DEF TypeOK, add_outbox_event, LockedRowsPending, MarkInv, RecordInv
  <1>2. ASSUME NEW e \in Events, LateRecord(e) PROVE PublisherInv'
    BY <1>2 DEF TypeOK, LateRecord, LockedRowsPending, MarkInv, RecordInv
  <1>3. ASSUME NEW e \in Events, BackoffPasses(e) PROVE PublisherInv'
    BY <1>3 DEF BackoffPasses, LockedRowsPending, MarkInv, RecordInv
  <1>4. ASSUME NEW p \in Publishers, claim_due_events(p) PROVE PublisherInv'
    <2>1. PICK S \in SUBSET Claimable : batch' = [batch EXCEPT ![p] = S]
      BY <1>4, ClaimFree
    <2>2. \A e \in S : status[e] = "pending" /\ \A q \in Publishers : e \notin batch[q]
      BY DEF Claimable, Locked
    <2>3. LockedRowsPending'
      BY <1>4, <2>1, <2>2 DEF TypeOK, claim_due_events, LockedRowsPending
    <2>4. MarkInv'
      BY <1>4, <2>1 DEF TypeOK, claim_due_events, MarkInv
    <2>5. RecordInv'
      BY <1>4 DEF claim_due_events, RecordInv
    <2> QED  BY <2>3, <2>4, <2>5
  <1>5. ASSUME NEW p \in Publishers, publish_due_batch(p) PROVE PublisherInv'
    <2>1. LockedRowsPending'
      BY <1>5 DEF TypeOK, publish_due_batch, LockedRowsPending, Marked
    <2>2. MarkInv'
      BY <1>5 DEF TypeOK, publish_due_batch, MarkInv, NoMarks
    <2>3. RecordInv'
      BY <1>5 DEF TypeOK, publish_due_batch, MarkInv, RecordInv, Marked
    <2> QED  BY <2>1, <2>2, <2>3
  <1>6. ASSUME NEW p \in Publishers, Crash(p) PROVE PublisherInv'
    <2>1. LockedRowsPending'
      BY <1>6 DEF TypeOK, Crash, LockedRowsPending
    <2>2. MarkInv'
      BY <1>6 DEF TypeOK, Crash, MarkInv, NoMarks
    <2>3. RecordInv'
      BY <1>6 DEF TypeOK, Crash, RecordInv, LockedRowsPending, Todo
    <2> QED  BY <2>1, <2>2, <2>3
  <1>7. ASSUME NEW p \in Publishers, NEW e \in Events, serialize_failed(p, e) PROVE PublisherInv'
    <2>1. LockedRowsPending' /\ RecordInv'
      BY <1>7 DEF serialize_failed, LockedRowsPending, RecordInv
    <2>2. MarkInv'
      BY <1>7 DEF TypeOK, serialize_failed, SetMark, MarkInv, Todo
    <2> QED  BY <2>1, <2>2
  <1>8. ASSUME NEW p \in Publishers, NEW e \in Events, publish_acknowledged(p, e) PROVE PublisherInv'
    <2>1. LockedRowsPending'
      BY <1>8 DEF publish_acknowledged, LockedRowsPending
    <2>2. MarkInv'
      BY <1>8 DEF TypeOK, publish_acknowledged, SetMark, MarkInv, Todo
    <2>3. RecordInv'
      BY <1>8 DEF publish_acknowledged, RecordInv, LockedRowsPending, Todo
    <2> QED  BY <2>1, <2>2, <2>3
  <1>9. ASSUME NEW p \in Publishers, NEW e \in Events, publish_failed(p, e) PROVE PublisherInv'
    <2>1. LockedRowsPending'
      BY <1>9 DEF publish_failed, LockedRowsPending
    <2>2. MarkInv'
      BY <1>9 DEF TypeOK, publish_failed, SetMark, MarkInv, Todo
    <2>3. RecordInv'
      BY <1>9 DEF publish_failed, RecordInv, LockedRowsPending, Todo
    <2> QED  BY <2>1, <2>2, <2>3
  <1>10. CASE UNCHANGED vars
    BY <1>10 DEF vars, LockedRowsPending, MarkInv, RecordInv
  <1> QED
    BY <1>1, <1>2, <1>3, <1>4, <1>5, <1>6, <1>7, <1>8, <1>9, <1>10 DEF Next, Idle

(* Row locks are exclusive and marks are justified in every reachable      *)
(* state of publish_due_batch, with any number of workers.                 *)
THEOREM InvariantHolds == Spec => []PublisherInv
  <1>1. Init => PublisherInv
    BY DEF Init, PublisherInv, LockedRowsPending, MarkInv, RecordInv, NoMarks
  <1> QED  BY <1>1, TypeCorrect, InvStep, PTL DEF Spec

(* The publishers implement at-least-once delivery: claims, failed sends,  *)
(* marks, back-off and crashes are stuttering steps of OutboxDelivery, an  *)
(* acknowledgement or a late record delivers a pending row, and the commit *)
(* of publish_due_batch settles exactly the rows it may.                   *)
THEOREM Refinement == Spec => ImplementsDelivery
  <1>1. Init => Delivery!Init
    BY DEF Init, Delivery!Init
  <1>2. TypeOK /\ PublisherInv /\ [Next]_vars => [Delivery!Next]_Delivery!vars
    <2> SUFFICES ASSUME TypeOK, PublisherInv, [Next]_vars
                 PROVE  Delivery!Next \/ UNCHANGED <<status, topic>>
      BY DEF Delivery!vars
    <2> USE DEF PublisherInv
    <2>1. ASSUME NEW e \in Events, add_outbox_event(e) PROVE Delivery!Next
      BY <2>1, Zenon DEF add_outbox_event, Delivery!Next, Delivery!Stage
    <2>2. ASSUME NEW e \in Events, LateRecord(e)
          PROVE  Delivery!Next \/ UNCHANGED <<status, topic>>
      <3>1. CASE e \in topic
        BY <2>2, <3>1 DEF LateRecord
      <3>2. CASE e \notin topic
        <4>1. e \notin Malformed /\ status[e] = "pending"
          BY <2>2, <3>2 DEF LateRecord, RecordInv, TypeOK
        <4> QED  BY <2>2, <4>1 DEF LateRecord, Delivery!Next, Delivery!Deliver
      <3> QED  BY <3>1, <3>2
    <2>3. ASSUME NEW p \in Publishers, NEW e \in Events, publish_acknowledged(p, e)
          PROVE  Delivery!Next
      <3>1. e \notin Malformed /\ status[e] = "pending"
        BY <2>3 DEF publish_acknowledged, Todo, LockedRowsPending
      <3> QED  BY <2>3, <3>1 DEF publish_acknowledged, Delivery!Next, Delivery!Deliver
    <2>4. ASSUME NEW p \in Publishers, publish_due_batch(p) PROVE Delivery!Next
      <3> DEFINE S == Marked(p, "published") \cup Marked(p, "failed")
      <3>1. S \in SUBSET Events
        BY DEF TypeOK, Marked
      <3>2. \A e \in S : status[e] = "pending" /\ (e \in topic \/ e \in Malformed)
        BY <3>1 DEF LockedRowsPending, MarkInv, Marked
      <3>3. \A e \in S : e \in Malformed <=> e \in Marked(p, "failed")
        BY <3>1 DEF MarkInv, RecordInv, Marked
      <3>4. status' = [e \in Events |->
                         IF e \notin S THEN status[e]
                         ELSE IF e \in Malformed THEN "failed" ELSE "published"]
        BY <2>4, <3>3 DEF publish_due_batch, Marked
      <3>5. Delivery!Settle(S)
        BY <2>4, <3>2, <3>4 DEF publish_due_batch, Delivery!Settle
      <3> QED  BY <3>1, <3>5 DEF Delivery!Next
    <2>5. ASSUME NEW e \in Events, BackoffPasses(e) PROVE UNCHANGED <<status, topic>>
      BY <2>5 DEF BackoffPasses
    <2>6. ASSUME NEW p \in Publishers, claim_due_events(p) \/ Crash(p)
          PROVE  UNCHANGED <<status, topic>>
      BY <2>6 DEF claim_due_events, Crash
    <2>7. ASSUME NEW p \in Publishers, NEW e \in Events,
                 serialize_failed(p, e) \/ publish_failed(p, e)
          PROVE  UNCHANGED <<status, topic>>
      BY <2>7 DEF serialize_failed, publish_failed
    <2>8. CASE UNCHANGED vars
      BY <2>8 DEF vars
    <2> QED
      BY <2>1, <2>2, <2>3, <2>4, <2>5, <2>6, <2>7, <2>8 DEF Next, Idle
  <1> QED
    BY <1>1, <1>2, TypeCorrect, InvariantHolds, PTL DEF Spec, ImplementsDelivery, Delivery!Spec

=============================================================================
