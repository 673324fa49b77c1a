------------------------ MODULE KnowledgeUploadProofs ------------------------
(* Safety of the upload path for every number of uploads, every size, every*)
(* limit and every retry budget.                                           *)
EXTENDS KnowledgeUpload, TLAPS, FiniteSetTheorems

-----------------------------------------------------------------------------
(* Sets of files and their bytes.                                          *)

Pile(S) == UNION {{u} \X (1..Size[u]) : u \in S}

(* A finite set of files, with finitely many bytes.                        *)
Small(S) == S \subseteq Uploads /\ IsFiniteSet(S) /\ IsFiniteSet(Pile(S))

(* The bytes of a union, of fewer files, of one file and of none.          *)
LEMMA PileOf ==
    /\ \A S, T : Pile(S \cup T) = Pile(S) \cup Pile(T)
    /\ \A S, T : S \subseteq T => Pile(S) \subseteq Pile(T)
    /\ \A x : Pile({x}) = {x} \X (1..Size[x])
    /\ \A S, x : x \notin S => Pile(S) \cap Pile({x}) = {}
    /\ Pile({}) = {}
  BY DEF Pile

(* The size of a set of files is the number of its bytes.                  *)
LEMMA BytesPile == \A S : Bytes(S) = Cardinality(Pile(S))
  BY DEF Bytes, Pile

(* A finite set of files has a number and a size.                          *)
LEMMA SmallCounts ==
    ASSUME NEW S, Small(S) PROVE Cardinality(S) \in Nat /\ Bytes(S) \in Nat
  BY BytesPile, FS_CardinalityType DEF Small

(* No files have no bytes.                                                 *)
LEMMA SmallEmpty == Small({}) /\ Cardinality({}) = 0 /\ Bytes({}) = 0
  BY PileOf, BytesPile, FS_EmptySet DEF Small

(* One file has its own bytes.                                             *)
LEMMA SmallOne == ASSUME NEW x \in Uploads PROVE Small({x}) /\ Cardinality({x}) = 1 /\ Bytes({x}) = Size[x]
  <1>1. PICK n \in Nat : n = Size[x]
    BY ConstantsAssumption
  <1>2. IsFiniteSet(1..n) /\ Cardinality(1..n) = n
    BY FS_Interval
  <1>3. IsFiniteSet({x}) /\ Cardinality({x}) = 1
    BY FS_Singleton, Zenon
  <1>4. IsFiniteSet({x} \X (1..n)) /\ Cardinality({x} \X (1..n)) = n
    BY <1>2, <1>3, FS_Product
  <1>5. Pile({x}) = {x} \X (1..n)
    BY <1>1, PileOf
  <1> QED
    BY <1>1, <1>3, <1>4, <1>5, BytesPile DEF Small

(* Fewer files have fewer bytes.                                           *)
LEMMA SmallSubset ==
    ASSUME NEW T, Small(T), NEW S, S \subseteq T
    PROVE  Small(S) /\ Cardinality(S) <= Cardinality(T) /\ Bytes(S) <= Bytes(T)
  <1>1. IsFiniteSet(S) /\ Cardinality(S) <= Cardinality(T)
    BY FS_Subset DEF Small
  <1>2. Pile(S) \subseteq Pile(T)
    BY PileOf
  <1>3. IsFiniteSet(Pile(S)) /\ Cardinality(Pile(S)) <= Cardinality(Pile(T))
    BY <1>2, FS_Subset DEF Small
  <1> QED
    BY <1>1, <1>3, BytesPile DEF Small

(* Two sets of files have at most the sum of their numbers and sizes.      *)
LEMMA SmallUnion ==
    ASSUME NEW S, NEW T, Small(S), Small(T)
    PROVE  /\ Small(S \cup T) /\ Cardinality(S \cup T) <= Cardinality(S) + Cardinality(T)
           /\ Bytes(S \cup T) <= Bytes(S) + Bytes(T)
  <1>1. ASSUME NEW A, NEW B, IsFiniteSet(A), IsFiniteSet(B)
        PROVE  IsFiniteSet(A \cup B) /\ Cardinality(A \cup B) <= Cardinality(A) + Cardinality(B)
    <2>1. /\ IsFiniteSet(A \cup B)
          /\ Cardinality(A \cup B) = Cardinality(A) + Cardinality(B) - Cardinality(A \cap B)
      BY <1>1, FS_Union
    <2>2. IsFiniteSet(A \cap B)
      BY <1>1, FS_Intersection
    <2>3. Cardinality(A \cap B) \in Nat /\ Cardinality(A) \in Nat /\ Cardinality(B) \in Nat
      BY <1>1, <2>2, FS_CardinalityType
    <2> QED
      BY <2>1, <2>3
  <1>2. IsFiniteSet(S \cup T) /\ Cardinality(S \cup T) <= Cardinality(S) + Cardinality(T)
    BY <1>1 DEF Small
  <1>3. IsFiniteSet(Pile(S \cup T)) /\ Cardinality(Pile(S \cup T)) <= Cardinality(Pile(S)) + Cardinality(Pile(T))
    BY <1>1, PileOf DEF Small
  <1> QED
    BY <1>2, <1>3, BytesPile DEF Small

(* A file taken out takes its bytes along.                                 *)
LEMMA SmallRemove ==
    ASSUME NEW S, Small(S), NEW x \in S
    PROVE  /\ Small(S \ {x}) /\ Cardinality(S \ {x}) = Cardinality(S) - 1
           /\ Bytes(S \ {x}) = Bytes(S) - Size[x]
  <1>1. PICK R : R = S \ {x}
    BY Zenon
  <1>2. Small(R) /\ Small({x}) /\ Bytes({x}) = Size[x]
    BY <1>1, SmallSubset, SmallOne DEF Small
  <1>3. Cardinality(R) = Cardinality(S) - 1
    BY <1>1, FS_RemoveElement, Zenon DEF Small
  <1>4. Pile(S) = Pile(R) \cup Pile({x}) /\ Pile(R) \cap Pile({x}) = {}
    <2>1. S = R \cup {x} /\ x \notin R
      BY <1>1
    <2> QED
      BY <2>1, PileOf
  <1>5. Cardinality(Pile(S)) = Cardinality(Pile(R)) + Cardinality(Pile({x}))
    <2>1. IsFiniteSet(Pile(R)) /\ IsFiniteSet(Pile({x}))
      BY <1>2 DEF Small
    <2>2. Cardinality(Pile(R) \cup Pile({x})) =
             Cardinality(Pile(R)) + Cardinality(Pile({x})) - Cardinality(Pile(R) \cap Pile({x}))
      BY <2>1, FS_Union, Zenon
    <2>3. Cardinality(Pile(R) \cap Pile({x})) = 0
      BY <1>4, FS_EmptySet
    <2>4. Cardinality(Pile(R)) \in Nat /\ Cardinality(Pile({x})) \in Nat
      BY <2>1, FS_CardinalityType
    <2> QED
      BY <1>4, <2>2, <2>3, <2>4
  <1>6. Bytes(S) = Bytes(R) + Size[x] /\ Bytes(R) \in Nat /\ Size[x] \in Nat
    <2>1. Bytes(R) \in Nat /\ Bytes({x}) \in Nat
      BY <1>2, SmallCounts
    <2> QED
      BY <1>2, <1>5, <2>1, BytesPile
  <1>7. Bytes(R) = Bytes(S) - Size[x]
    BY <1>6
  <1> QED
    BY <1>1, <1>2, <1>3, <1>7

-----------------------------------------------------------------------------
USE DEF Finished, PCs, Terminal, Errors, ClaimStates

-----------------------------------------------------------------------------
(* Rows keep their types.                                                  *)

(* A cleanup row built from typed parts is a typed row.                    *)
LEMMA CleanupType ==
    ASSUME NEW st \in Terminal \cup {"none", "prepared", "pending"},
           NEW n \in 0..MaxAttempts, NEW r \in {"waiting", "due", "never"}, NEW e \in Errors
    PROVE  Cleanup(st, n, r, e) \in Cleanups
  BY DEF Cleanup, Cleanups

(* Changing or releasing one reservation, or changing the retry time or    *)
(* the error of one cleanup row, leaves the table typed.                   *)
LEMMA RowUpdates ==
    ASSUME NEW f \in [Uploads -> Reservations], NEW g \in [Uploads -> Cleanups], NEW u \in Uploads
    PROVE  /\ [f EXCEPT ![u].lease = "expired"] \in [Uploads -> Reservations]
           /\ \A k \in {"finalized", "linked"} :
                 [f EXCEPT ![u].kind = k] \in [Uploads -> Reservations]
           /\ [f EXCEPT ![u] = NoReservation] \in [Uploads -> Reservations]
           /\ [f EXCEPT ![u] = IF @.kind = "linked" THEN NoReservation ELSE @]
                 \in [Uploads -> Reservations]
           /\ [g EXCEPT ![u].retry = "due"] \in [Uploads -> Cleanups]
           /\ \A e \in Errors : [g EXCEPT ![u].error = e] \in [Uploads -> Cleanups]
  <1>1. [f[u] EXCEPT !.lease = "expired"] \in Reservations
    BY DEF Reservations
  <1>2. \A k \in {"finalized", "linked"} : [f[u] EXCEPT !.kind = k] \in Reservations
    BY DEF Reservations
  <1>3. [g[u] EXCEPT !.retry = "due"] \in Cleanups
    BY DEF Cleanups
  <1>4. \A e \in Errors : [g[u] EXCEPT !.error = e] \in Cleanups
    BY DEF Cleanups
  <1>5. f[u] \in Reservations /\ NoReservation \in Reservations
    BY DEF Reservations, NoReservation
  <1>6. /\ [f EXCEPT ![u].lease = "expired"] \in [Uploads -> Reservations]
        /\ \A k \in {"finalized", "linked"} :
              [f EXCEPT ![u].kind = k] \in [Uploads -> Reservations]
    BY <1>1, <1>2
  <1>7. /\ [f EXCEPT ![u] = NoReservation] \in [Uploads -> Reservations]
        /\ [f EXCEPT ![u] = IF @.kind = "linked" THEN NoReservation ELSE @]
              \in [Uploads -> Reservations]
    BY <1>5
  <1>8. /\ [g EXCEPT ![u].retry = "due"] \in [Uploads -> Cleanups]
        /\ \A e \in Errors : [g EXCEPT ![u].error = e] \in [Uploads -> Cleanups]
    BY <1>3, <1>4
  <1> QED
    BY <1>6, <1>7, <1>8

(* The quota transactions' reclaim keeps reservations typed and touches    *)
(* only reservations that are not linked.                                  *)
LEMMA ReclaimedType ==
    ASSUME TypeOK
    PROVE  /\ Reclaimed \in [Uploads -> Reservations]
           /\ \A u \in Uploads : (Reclaimed[u].kind = "linked") <=> (resv[u].kind = "linked")
  BY DEF TypeOK, Reclaimed, Reservations, NoReservation, Unlinked

(* A changed attempt is a typed attempt.                                   *)
LEMMA ClaimType ==
    ASSUME TypeOK, NEW u \in Uploads, NEW n \in 1..MaxAttempts, NEW st \in ClaimStates
    PROVE  [claim EXCEPT ![u][n] = st] \in [Uploads -> [1..MaxAttempts -> ClaimStates]]
  BY DEF TypeOK

(* A confirmed delete resolves one upload and leaves the others alone.     *)
LEMMA SucceedFacts ==
    ASSUME TypeOK, NEW u \in Uploads, SucceedRows(u)
    PROVE  /\ cleanup'[u].status = "succeeded" /\ resv'[u].kind # "linked"
           /\ cleanup'[u].attempts = cleanup[u].attempts
           /\ \A v \in Uploads \ {u} : cleanup'[v] = cleanup[v] /\ resv'[v] = resv[v]
  BY DEF TypeOK, SucceedRows, Cleanup, NoReservation

(* Every step of the request, of a reconciliation attempt and of time      *)
(* keeps the type invariant.                                               *)
LEMMA TypeStep == TypeOK /\ [Next]_vars => TypeOK'
  <1> SUFFICES ASSUME TypeOK, [Next]_vars PROVE TypeOK'
    OBVIOUS
  <1> USE DEF TypeOK, Goto, rows, store
  <1> DEFINE ResvOK == resv' \in [Uploads -> Reservations]
             CleanupOK == cleanup' \in [Uploads -> Cleanups]
             ClaimOK == claim' \in [Uploads -> [1..MaxAttempts -> ClaimStates]]
  <1>0. Reclaimed \in [Uploads -> Reservations]
    BY ReclaimedType
  <1>a. \A u \in Uploads, st \in Terminal \cup {"pending"},
            r \in {"waiting", "never"}, e \in Errors :
           Cleanup(st, cleanup[u].attempts, r, e) \in Cleanups
    <2> SUFFICES ASSUME NEW u \in Uploads PROVE cleanup[u].attempts \in 0..MaxAttempts
      BY CleanupType
    <2> QED
      BY DEF Cleanups
  <1>b. \A u \in Uploads : cleanup[u].attempts \in 0..MaxAttempts /\ cleanup[u].error \in Errors
    BY DEF Cleanups
  <1>1. CASE create_source
    BY <1>0, <1>1 DEF create_source
  <1>2. ASSUME NEW u \in Uploads, RequestStep(u) PROVE TypeOK'
    <2>1. CASE reserve_file_upload(u)
      <3>1. ResvOK
        <4>1. [Reclaimed EXCEPT ![u] = [kind |-> "admitted", lease |-> "live"]]
                \in [Uploads -> Reservations]
          <5>1. [kind |-> "admitted", lease |-> "live"] \in Reservations
            BY DEF Reservations
          <5> QED
            BY <1>0, <5>1
        <4> QED
          BY <2>1, <4>1, Zenon DEF reserve_file_upload, ReserveRows
      <3> QED
        BY <2>1, <3>1 DEF reserve_file_upload, ReserveRows
    <2>2. CASE finalize_file_upload_reservation(u)
      <3>1. ResvOK
        <4>1. [Reclaimed EXCEPT ![u].kind = "finalized"] \in [Uploads -> Reservations]
          BY <1>0, RowUpdates, Zenon
        <4> QED
          BY <2>2, <4>1, Zenon DEF finalize_file_upload_reservation, FinalizeRows
      <3> QED
        BY <2>2, <3>1 DEF finalize_file_upload_reservation, FinalizeRows
    <2>3. CASE release_unlinked_reservation(u)
      <3>1. ResvOK
        <4>1. [resv EXCEPT ![u] = NoReservation] \in [Uploads -> Reservations]
              /\ [resv EXCEPT ![u] = IF @.kind = "linked" THEN NoReservation ELSE @]
                    \in [Uploads -> Reservations]
          BY RowUpdates, Zenon
        <4> QED
          BY <2>3, <4>1 DEF release_unlinked_reservation
      <3> QED
        BY <2>3, <3>1, Zenon DEF release_unlinked_reservation
    <2>4. CASE bind_upload_reservation_to_cleanup(u)
      <3>1. ResvOK
        <4>1. [resv EXCEPT ![u].kind = "linked"] \in [Uploads -> Reservations]
          BY RowUpdates, Zenon
        <4> QED
          BY <2>4, <4>1, Zenon DEF bind_upload_reservation_to_cleanup, BindRows
      <3>2. CleanupOK
        <4>1. Cleanup("prepared", 0, "waiting", "none") \in Cleanups
          BY CleanupType, ConstantsAssumption
        <4> QED
          BY <2>4, <4>1 DEF bind_upload_reservation_to_cleanup, BindRows
      <3> QED
        BY <2>4, <3>1, <3>2 DEF bind_upload_reservation_to_cleanup, BindRows
    <2>5. CASE put_object(u) \/ PutReturns(u) \/ PutRaises(u)
      BY <2>5 DEF put_object, PutReturns, PutRaises
    <2>6. CASE create_file_source(u)
      <3>1. ResvOK
        <4>1. [resv EXCEPT ![u] = NoReservation] \in [Uploads -> Reservations]
              /\ [resv EXCEPT ![u] = IF @.kind = "linked" THEN NoReservation ELSE @]
                    \in [Uploads -> Reservations]
          BY RowUpdates, Zenon
        <4> QED
          BY <2>6, <4>1 DEF create_file_source, CommitRows
      <3>2. CleanupOK
        <4>1. [cleanup EXCEPT ![u] = Cleanup("referenced", cleanup[u].attempts, "never", "none")]
                \in [Uploads -> Cleanups]
          BY <1>a
        <4> QED
          BY <2>6, <4>1 DEF create_file_source, CommitRows
      <3> QED
        BY <2>6, <3>1, <3>2 DEF create_file_source, CommitRows
    <2>7. CASE expire_upload_concurrency_lease(u)
      <3>1. ResvOK
        <4>1. [resv EXCEPT ![u].lease = "expired"] \in [Uploads -> Reservations]
          BY RowUpdates, Zenon
        <4> QED
          BY <2>7, <4>1, Zenon DEF expire_upload_concurrency_lease
      <3> QED
        BY <2>7, <3>1, Zenon DEF expire_upload_concurrency_lease
    <2>8. CASE arm_upload_cleanup(u)
      <3>1. CleanupOK
        BY <2>8, <1>a DEF arm_upload_cleanup
      <3> QED
        BY <2>8, <3>1, Zenon DEF arm_upload_cleanup
    <2>9. CASE InlineDelete(u)
      BY <2>9 DEF InlineDelete
    <2>10. CASE mark_inline_cleanup_succeeded(u)
      <3>1. ResvOK
        <4>1. [resv EXCEPT ![u] = NoReservation] \in [Uploads -> Reservations]
              /\ [resv EXCEPT ![u] = IF @.kind = "linked" THEN NoReservation ELSE @]
                    \in [Uploads -> Reservations]
          BY RowUpdates, Zenon
        <4> QED
          BY <2>10, <4>1 DEF mark_inline_cleanup_succeeded, SucceedRows
      <3>2. CleanupOK
        BY <2>10, <1>a DEF mark_inline_cleanup_succeeded, SucceedRows
      <3> QED
        BY <2>10, <3>1, <3>2, Zenon DEF mark_inline_cleanup_succeeded
    <2> QED
      BY <1>2, <2>1, <2>2, <2>3, <2>4, <2>5, <2>6, <2>7, <2>8, <2>9, <2>10 DEF RequestStep
  <1>3. ASSUME NEW u \in Uploads, RequestCrash(u) \/ PutSettles(u) PROVE TypeOK'
    BY <1>3 DEF RequestCrash, PutSettles
  <1>4. ASSUME NEW u \in Uploads, claim_due_batch(u) PROVE TypeOK'
    <2>1. CASE cleanup[u].attempts < MaxAttempts
      <3> DEFINE n == cleanup[u].attempts + 1
      <3>1. n \in 1..MaxAttempts /\ n \in 0..MaxAttempts
        BY <1>b, <2>1, ConstantsAssumption
      <3>2. \A e \in Errors : Cleanup("pending", n, "waiting", e) \in Cleanups
        BY <3>1, CleanupType
      <3>3. ClaimRow(u)
        BY <1>b, <1>4, <2>1, ConstantsAssumption DEF claim_due_batch
      <3>4. CleanupOK
        BY <1>b, <3>2, <3>3 DEF ClaimRow
      <3>5. PICK st \in ClaimStates : claim' = [claim EXCEPT ![u][n] = st]
        BY <1>b, <1>4, <2>1, ConstantsAssumption DEF claim_due_batch
      <3>6. ClaimOK
        BY <3>1, <3>5, ClaimType
      <3> QED
        BY <1>4, <3>4, <3>6 DEF claim_due_batch
    <2>2. CASE ~(cleanup[u].attempts < MaxAttempts)
      <3>1. CleanupOK
        BY <1>a, <1>b, <1>4, <2>2 DEF claim_due_batch, ExhaustRow
      <3> QED
        BY <1>4, <2>2, <3>1 DEF claim_due_batch
    <2> QED
      BY <2>1, <2>2
  <1>5. ASSUME NEW u \in Uploads, LeaseExpires(u) PROVE TypeOK'
    <2>1. [resv EXCEPT ![u].lease = "expired"] \in [Uploads -> Reservations]
      BY RowUpdates, Zenon
    <2> QED
      BY <1>5, <2>1 DEF LeaseExpires
  <1>6. ASSUME NEW u \in Uploads, DeadlinePasses(u) PROVE TypeOK'
    <2>1. [cleanup EXCEPT ![u].retry = "due"] \in [Uploads -> Cleanups]
      BY RowUpdates, Zenon
    <2> QED
      BY <1>6, <2>1 DEF DeadlinePasses
  <1>7. ASSUME NEW u \in Uploads, NEW n \in 1..MaxAttempts, ClaimStep(u, n) PROVE TypeOK'
    <2>1. ClaimOK
      <3>1. PICK st \in ClaimStates : claim' = [claim EXCEPT ![u][n] = st]
        BY <1>7 DEF ClaimStep, ClaimHead, ClaimDelete, ClaimDropped,
                    record_failed_attempt, record_success
      <3> QED
        BY <3>1, ClaimType
    <2>2. CASE ClaimHead(u, n) \/ ClaimDelete(u, n) \/ ClaimDropped(u, n)
      BY <2>1, <2>2 DEF ClaimHead, ClaimDelete, ClaimDropped
    <2>3. CASE record_failed_attempt(u, n)
      <3>1. ResvOK
        <4>1. [resv EXCEPT ![u] = IF @.kind = "linked" THEN NoReservation ELSE @]
                \in [Uploads -> Reservations]
          BY RowUpdates, Zenon
        <4> QED
          BY <2>3, <4>1 DEF record_failed_attempt
      <3>2. CleanupOK
        <4>1. \A e \in Errors : [cleanup EXCEPT ![u].error = e] \in [Uploads -> Cleanups]
          BY RowUpdates, Zenon
        <4>2. \A e \in Errors : 
                 [cleanup EXCEPT ![u] = Cleanup("exhausted", cleanup[u].attempts, "never", e)]
                   \in [Uploads -> Cleanups]
          BY <1>a
        <4> QED
          BY <2>3, <4>1, <4>2, Zenon DEF record_failed_attempt, ExhaustRow
      <3> QED
        BY <2>1, <2>3, <3>1, <3>2, Zenon DEF record_failed_attempt
    <2>4. CASE record_success(u, n)
      <3>1. ResvOK
        <4>1. [resv EXCEPT ![u] = NoReservation] \in [Uploads -> Reservations]
              /\ [resv EXCEPT ![u] = IF @.kind = "linked" THEN NoReservation ELSE @]
                    \in [Uploads -> Reservations]
          BY RowUpdates, Zenon
        <4> QED
          BY <2>4, <4>1 DEF record_success, SucceedRows
      <3>2. CleanupOK
        BY <2>4, <1>a DEF record_success, SucceedRows
      <3> QED
        BY <2>1, <2>4, <3>1, <3>2, Zenon DEF record_success
    <2> QED
      BY <1>7, <2>2, <2>3, <2>4 DEF ClaimStep
  <1>8. CASE UNCHANGED vars \/ Quiescent
    BY <1>8 DEF vars, Quiescent
  <1> QED
    BY <1>1, <1>2, <1>3, <1>4, <1>5, <1>6, <1>7, <1>8 DEF Next

(* The type invariant of the upload path.                                  *)
THEOREM TypeCorrect == Spec => []TypeOK
  <1>1. Init => TypeOK
    BY ConstantsAssumption
       DEF Init, TypeOK, Reservations, NoReservation, Cleanups, Cleanup
  <1> QED
    BY <1>1, TypeStep, PTL DEF Spec

-----------------------------------------------------------------------------
(* The inductive invariant.                                                *)

(* The invariant of an upload does not depend on the other uploads: it is  *)
(* kept by a step that leaves the upload alone, even if that step reclaims *)
(* an expired reservation of it that is not linked.                        *)
LEMMA Frame ==
    ASSUME NEW v \in Uploads, RequestInv(v), RowInv(v), ClaimInv(v),
           pc'[v] = pc[v], cleanup'[v] = cleanup[v], put'[v] = put[v], claim'[v] = claim[v],
           (resv'[v].kind = "linked") <=> (resv[v].kind = "linked"),
           (v \in confirmed') <=> (v \in confirmed),
           (v \in sources') <=> (v \in sources),
           (v \in objects') <=> (v \in objects)
    PROVE  RequestInv(v)' /\ RowInv(v)' /\ ClaimInv(v)'
  BY DEF RequestInv, RowInv, ClaimInv

(* Every step keeps the inductive invariant.                               *)
LEMMA InvStep == TypeOK /\ UploadInv /\ [Next]_vars => UploadInv'
  <1> SUFFICES ASSUME TypeOK, UploadInv, [Next]_vars PROVE UploadInv'
    OBVIOUS
  <1> DEFINE Same(v) ==
        /\ pc'[v] = pc[v] /\ cleanup'[v] = cleanup[v]
        /\ put'[v] = put[v] /\ claim'[v] = claim[v]
        /\ (resv'[v].kind = "linked") <=> (resv[v].kind = "linked")
        /\ (v \in confirmed') <=> (v \in confirmed)
        /\ (v \in sources') <=> (v \in sources)
        /\ (v \in objects') <=> (v \in objects)
  <1>f. ASSUME NEW u \in Uploads, \A v \in Uploads \ {u} : Same(v),
               RequestInv(u)', RowInv(u)', ClaimInv(u)'
        PROVE  UploadInv'
    BY <1>f, Frame DEF UploadInv
  <1> /\ DOMAIN pc = Uploads /\ DOMAIN cleanup = Uploads /\ DOMAIN resv = Uploads
      /\ DOMAIN put = Uploads /\ DOMAIN claim = Uploads
      /\ \A u \in Uploads : DOMAIN claim[u] = 1..MaxAttempts
    BY DEF TypeOK
  <1> USE DEF Goto, rows, store
  <1>0. /\ Reclaimed \in [Uploads -> Reservations]
        /\ \A v \in Uploads : (Reclaimed[v].kind = "linked") <=> (resv[v].kind = "linked")
    BY ReclaimedType
  <1>2. ASSUME NEW u \in Uploads, RequestStep(u) PROVE UploadInv'
    <2> RequestInv(u) /\ RowInv(u) /\ ClaimInv(u)
      BY DEF UploadInv
    <2>1. CASE reserve_file_upload(u)
      <3>1. \A v \in Uploads \ {u} : Same(v)
        BY <1>0, <2>1 DEF reserve_file_upload, ReserveRows
      <3>2. RequestInv(u)'
        BY <1>0, <2>1, Zenon DEF reserve_file_upload, ReserveRows, RequestInv, RowInv
      <3>3. RowInv(u)'
        BY <1>0, <2>1 DEF reserve_file_upload, ReserveRows, RequestInv, RowInv
      <3>4. ClaimInv(u)'
        BY <1>0, <2>1 DEF reserve_file_upload, ReserveRows, RequestInv, RowInv, ClaimInv
      <3> QED
        BY <3>1, <3>2, <3>3, <3>4, <1>f
    <2>2. CASE finalize_file_upload_reservation(u)
      <3>1. \A v \in Uploads \ {u} : Same(v)
        BY <1>0, <2>2 DEF finalize_file_upload_reservation, FinalizeRows
      <3>2. RequestInv(u)'
        BY <1>0, <2>2 DEF finalize_file_upload_reservation, FinalizeRows, RequestInv, RowInv
      <3>3. RowInv(u)'
        BY <1>0, <2>2 DEF finalize_file_upload_reservation, FinalizeRows, RequestInv, RowInv
      <3>4. ClaimInv(u)'
        BY <1>0, <2>2 DEF finalize_file_upload_reservation, FinalizeRows, RequestInv, RowInv, ClaimInv
      <3> QED
        BY <3>1, <3>2, <3>3, <3>4, <1>f
    <2>3. CASE release_unlinked_reservation(u)
      <3>1. \A v \in Uploads \ {u} : Same(v)
        BY <2>3 DEF release_unlinked_reservation, NoReservation
      <3>2. RequestInv(u)'
        BY <2>3 DEF release_unlinked_reservation, NoReservation, RequestInv, RowInv
      <3>3. RowInv(u)'
        BY <2>3 DEF release_unlinked_reservation, NoReservation, RequestInv, RowInv
      <3>4. ClaimInv(u)'
        BY <2>3 DEF release_unlinked_reservation, NoReservation, RequestInv, RowInv, ClaimInv
      <3> QED
        BY <3>1, <3>2, <3>3, <3>4, <1>f
    <2>4. CASE bind_upload_reservation_to_cleanup(u)
      <3>1. \A v \in Uploads \ {u} : Same(v)
        BY <2>4 DEF bind_upload_reservation_to_cleanup, BindRows, Cleanup, TypeOK, Reservations
      <3>2. RequestInv(u)'
        BY <2>4 DEF bind_upload_reservation_to_cleanup, BindRows, Cleanup, TypeOK, Reservations, RequestInv, RowInv
      <3>3. RowInv(u)'
        BY <2>4 DEF bind_upload_reservation_to_cleanup, BindRows, Cleanup, TypeOK, Reservations, RequestInv, RowInv
      <3>4. ClaimInv(u)'
        BY <2>4 DEF bind_upload_reservation_to_cleanup, BindRows, Cleanup, TypeOK, Reservations, RequestInv, RowInv, ClaimInv
      <3> QED
        BY <3>1, <3>2, <3>3, <3>4, <1>f
    <2>5. CASE put_object(u)
      <3>1. \A v \in Uploads \ {u} : Same(v)
        BY <2>5 DEF put_object
      <3>2. RequestInv(u)'
        BY <2>5 DEF put_object, RequestInv, RowInv
      <3>3. RowInv(u)'
        BY <2>5 DEF put_object, RequestInv, RowInv
      <3>4. ClaimInv(u)'
        BY <2>5 DEF put_object, RequestInv, RowInv, ClaimInv
      <3> QED
        BY <3>1, <3>2, <3>3, <3>4, <1>f
    <2>6. CASE PutReturns(u)
      <3>1. \A v \in Uploads \ {u} : Same(v)
        BY <2>6 DEF PutReturns
      <3>2. RequestInv(u)'
        BY <2>6 DEF PutReturns, RequestInv, RowInv
      <3>3. RowInv(u)'
        BY <2>6 DEF PutReturns, RequestInv, RowInv
      <3>4. ClaimInv(u)'
        BY <2>6, Zenon DEF PutReturns, RequestInv, RowInv, ClaimInv
      <3> QED
        BY <3>1, <3>2, <3>3, <3>4, <1>f
    <2>7. CASE PutRaises(u)
      <3>1. \A v \in Uploads \ {u} : Same(v)
        BY <2>7 DEF PutRaises
      <3>2. RequestInv(u)'
        BY <2>7 DEF PutRaises, RequestInv, RowInv
      <3>3. RowInv(u)'
        BY <2>7 DEF PutRaises, RequestInv, RowInv
      <3>4. ClaimInv(u)'
        BY <2>7 DEF PutRaises, RequestInv, RowInv, ClaimInv
      <3> QED
        BY <3>1, <3>2, <3>3, <3>4, <1>f
    <2>8. CASE create_file_source(u)
      <3>a. /\ pc[u] = "put_ok" /\ pc'[u] \in {"done", "expire"}
            /\ UNCHANGED <<confirmed, put, objects, claim>>
            /\ \/ UNCHANGED <<cleanup, resv, sources>>
               \/ /\ cleanup[u].status = "prepared" /\ cleanup'[u].status = "referenced"
                  /\ resv'[u].kind = "none" /\ u \in sources'
        BY <2>8 DEF create_file_source, CommitRows, Cleanup, NoReservation
      <3>1. \A v \in Uploads \ {u} : Same(v)
        BY <2>8 DEF create_file_source, CommitRows, Cleanup, NoReservation
      <3>2. RequestInv(u)'
        BY <3>a DEF RequestInv
      <3>3. RowInv(u)'
        BY <3>a DEF RequestInv, RowInv
      <3>4. ClaimInv(u)'
        BY <3>a DEF ClaimInv
      <3> QED
        BY <3>1, <3>2, <3>3, <3>4, <1>f
    <2>9. CASE expire_upload_concurrency_lease(u)
      <3>1. \A v \in Uploads \ {u} : Same(v)
        BY <2>9 DEF expire_upload_concurrency_lease, TypeOK, Reservations
      <3>2. RequestInv(u)'
        BY <2>9 DEF expire_upload_concurrency_lease, TypeOK, Reservations, RequestInv, RowInv
      <3>3. RowInv(u)'
        BY <2>9 DEF expire_upload_concurrency_lease, TypeOK, Reservations, RequestInv, RowInv
      <3>4. ClaimInv(u)'
        BY <2>9 DEF expire_upload_concurrency_lease, TypeOK, Reservations, RequestInv, RowInv, ClaimInv
      <3> QED
        BY <3>1, <3>2, <3>3, <3>4, <1>f
    <2>10. CASE arm_upload_cleanup(u)
      <3>1. \A v \in Uploads \ {u} : Same(v)
        BY <2>10 DEF arm_upload_cleanup, Cleanup, Unresolved
      <3>2. RequestInv(u)'
        BY <2>10 DEF arm_upload_cleanup, Cleanup, Unresolved, RequestInv, RowInv
      <3>3. RowInv(u)'
        BY <2>10 DEF arm_upload_cleanup, Cleanup, Unresolved, RequestInv, RowInv
      <3>4. ClaimInv(u)'
        BY <2>10 DEF arm_upload_cleanup, Cleanup, Unresolved, RequestInv, RowInv, ClaimInv
      <3> QED
        BY <3>1, <3>2, <3>3, <3>4, <1>f
    <2>11. CASE InlineDelete(u)
      <3>1. \A v \in Uploads \ {u} : Same(v)
        BY <2>11 DEF InlineDelete
      <3>2. RequestInv(u)'
        BY <2>11, Zenon DEF InlineDelete, RequestInv, RowInv
      <3>3. RowInv(u)'
        BY <2>11, Zenon DEF InlineDelete, RequestInv, RowInv
      <3>4. ClaimInv(u)'
        BY <2>11 DEF InlineDelete, RequestInv, RowInv, ClaimInv
      <3> QED
        BY <3>1, <3>2, <3>3, <3>4, <1>f
    <2>12. CASE mark_inline_cleanup_succeeded(u)
      <3>a. /\ pc[u] = "mark" /\ pc'[u] = "failed"
            /\ UNCHANGED <<confirmed, put, objects, sources, claim>>
        BY <2>12 DEF mark_inline_cleanup_succeeded
      <3>b. /\ \/ UNCHANGED <<cleanup, resv>>
               \/ /\ cleanup[u].status \notin {"referenced", "exhausted"}
                  /\ cleanup'[u].status = "succeeded" /\ resv'[u].kind # "linked"
            /\ \A v \in Uploads \ {u} : cleanup'[v] = cleanup[v] /\ resv'[v] = resv[v]
        BY <2>12, SucceedFacts DEF mark_inline_cleanup_succeeded
      <3>1. \A v \in Uploads \ {u} : Same(v)
        BY <2>12, <3>a, <3>b DEF mark_inline_cleanup_succeeded
      <3>2. RequestInv(u)'
        BY <3>a, <3>b DEF RequestInv
      <3>3. RowInv(u)'
        BY <3>a, <3>b DEF RequestInv, RowInv
      <3>4. ClaimInv(u)'
        BY <3>a, <3>b, Zenon DEF ClaimInv
      <3> QED
        BY <3>1, <3>2, <3>3, <3>4, <1>f
    <2> QED
      BY <1>2, <2>1, <2>2, <2>3, <2>4, <2>5, <2>6, <2>7, <2>8, <2>9, <2>10, <2>11, <2>12 DEF RequestStep
  <1>3. ASSUME NEW u \in Uploads,
               \/ RequestCrash(u) \/ PutSettles(u) \/ claim_due_batch(u)
               \/ LeaseExpires(u) \/ DeadlinePasses(u)
        PROVE  UploadInv'
    <2> RequestInv(u) /\ RowInv(u) /\ ClaimInv(u)
      BY DEF UploadInv
    <2>1. CASE RequestCrash(u)
      <3>1. \A v \in Uploads \ {u} : Same(v)
        BY <2>1 DEF RequestCrash
      <3>2. RequestInv(u)'
        BY <2>1, Zenon DEF RequestCrash, RequestInv, RowInv
      <3>3. RowInv(u)'
        BY <2>1, Zenon DEF RequestCrash, RequestInv, RowInv
      <3>4. ClaimInv(u)'
        BY <2>1 DEF RequestCrash, RequestInv, RowInv, ClaimInv
      <3> QED
        BY <3>1, <3>2, <3>3, <3>4, <1>f
    <2>2. CASE PutSettles(u)
      <3>1. \A v \in Uploads \ {u} : Same(v)
        BY <2>2, Zenon DEF PutSettles
      <3>2. RequestInv(u)'
        BY <2>2, Zenon DEF PutSettles, RequestInv, RowInv
      <3>3. RowInv(u)'
        BY <2>2, Zenon DEF PutSettles, RequestInv, RowInv
      <3>4. ClaimInv(u)'
        BY <2>2 DEF PutSettles, RequestInv, RowInv, ClaimInv
      <3> QED
        BY <3>1, <3>2, <3>3, <3>4, <1>f
    <2>3. CASE claim_due_batch(u)
      <3>1. \A v \in Uploads \ {u} : Same(v)
        BY <2>3 DEF claim_due_batch, ExhaustRow, ClaimRow, Cleanup, Unresolved, RequiresPresence
      <3>a. /\ UNCHANGED <<pc, confirmed, put, objects, resv, sources>>
            /\ cleanup[u].status \in {"prepared", "pending"}
            /\ cleanup'[u].status \in {"pending", "exhausted"}
            /\ cleanup'[u].error # "none"
            /\ cleanup'[u].error \in {"PUT_OUTCOME_AMBIGUOUS", "OBJECT_STORAGE", cleanup[u].error}
            /\ cleanup'[u].error = "OBJECT_STORAGE" /\ cleanup[u].error # "OBJECT_STORAGE"
                  => cleanup'[u].status = "exhausted"
        <4>1. CASE ClaimRow(u)
          BY <2>3, <4>1 DEF claim_due_batch, ClaimRow, Cleanup, Unresolved, RowInv
        <4>2. CASE ExhaustRow(u, IF cleanup[u].error = "none"
                                 THEN "OBJECT_STORAGE" ELSE cleanup[u].error)
          BY <2>3, <4>2 DEF claim_due_batch, ExhaustRow, Cleanup, Unresolved
        <4> QED
          BY <2>3, <4>1, <4>2 DEF claim_due_batch
      <3>2. RequestInv(u)'
        BY <3>a, Zenon DEF RequestInv, RowInv
      <3>3. RowInv(u)'
        BY <3>a, Zenon DEF RowInv
      <3>4. ClaimInv(u)'
        <4>1. CASE cleanup[u].attempts < MaxAttempts
          <5> DEFINE n == cleanup[u].attempts + 1
                     st == IF RequiresPresence(u) THEN "head" ELSE "delete"
          <5>1. cleanup[u].attempts \in 0..MaxAttempts /\ n \in 1..MaxAttempts
            BY <4>1, ConstantsAssumption DEF TypeOK, Cleanups
          <5>2. ClaimRow(u) /\ claim' = [claim EXCEPT ![u][n] = st]
            BY <2>3, <4>1, <5>1, ConstantsAssumption DEF claim_due_batch
          <5>3. \A m \in 1..MaxAttempts : claim'[u][m] = IF m = n THEN st ELSE claim[u][m]
            BY <5>1, <5>2, Zenon
          <5>4. st = "delete" => put[u] = "landed"
            BY <2>3 DEF claim_due_batch, Unresolved, RequiresPresence, RowInv
          <5>5. cleanup'[u].status = "pending" /\ put'[u] = put[u] /\ objects' = objects
            BY <2>3, <5>2 DEF claim_due_batch, ClaimRow, Cleanup
          <5> QED
            BY <5>3, <5>4, <5>5, Zenon DEF ClaimInv
        <4>2. CASE ~(cleanup[u].attempts < MaxAttempts)
          <5>1. /\ UNCHANGED <<claim, put, objects>>
                /\ cleanup'[u].status = "exhausted"
            BY <2>3, <4>2 DEF claim_due_batch, ExhaustRow, Cleanup
          <5> QED
            BY <5>1, Zenon DEF ClaimInv
        <4> QED
          BY <4>1, <4>2
      <3> QED
        BY <3>1, <3>2, <3>3, <3>4, <1>f
    <2>4. CASE LeaseExpires(u)
      <3>1. \A v \in Uploads \ {u} : Same(v)
        BY <2>4 DEF LeaseExpires, TypeOK, Reservations
      <3>2. RequestInv(u)'
        BY <2>4 DEF LeaseExpires, TypeOK, Reservations, RequestInv, RowInv
      <3>3. RowInv(u)'
        BY <2>4 DEF LeaseExpires, TypeOK, Reservations, RequestInv, RowInv
      <3>4. ClaimInv(u)'
        BY <2>4 DEF LeaseExpires, TypeOK, Reservations, RequestInv, RowInv, ClaimInv
      <3> QED
        BY <3>1, <3>2, <3>3, <3>4, <1>f
    <2>5. CASE DeadlinePasses(u)
      <3>1. \A v \in Uploads \ {u} : Same(v)
        BY <2>5 DEF DeadlinePasses, Unresolved, TypeOK, Cleanups
      <3>2. RequestInv(u)'
        BY <2>5 DEF DeadlinePasses, Unresolved, TypeOK, Cleanups, RequestInv, RowInv
      <3>3. RowInv(u)'
        BY <2>5 DEF DeadlinePasses, Unresolved, TypeOK, Cleanups, RequestInv, RowInv
      <3>4. ClaimInv(u)'
        BY <2>5 DEF DeadlinePasses, Unresolved, TypeOK, Cleanups, RequestInv, RowInv, ClaimInv
      <3> QED
        BY <3>1, <3>2, <3>3, <3>4, <1>f
    <2> QED
      BY <1>3, <2>1, <2>2, <2>3, <2>4, <2>5, Zenon
  <1>4. ASSUME NEW u \in Uploads, NEW n \in 1..MaxAttempts, ClaimStep(u, n) PROVE UploadInv'
    <2> RequestInv(u) /\ RowInv(u) /\ ClaimInv(u)
      BY DEF UploadInv
    <2>1. CASE ClaimHead(u, n)
      <3>1. \A v \in Uploads \ {u} : Same(v)
        BY <2>1 DEF ClaimHead
      <3>2. RequestInv(u)'
        BY <2>1, Zenon DEF ClaimHead, RequestInv, RowInv
      <3>3. RowInv(u)'
        BY <2>1 DEF ClaimHead, RequestInv, RowInv
      <3>4. ClaimInv(u)'
        <4>1. PICK st \in {"delete", "ambiguous"} :
                 /\ claim' = [claim EXCEPT ![u][n] = st]
                 /\ st = "delete" => u \in objects
          BY <2>1 DEF ClaimHead
        <4>2. \A m \in 1..MaxAttempts : claim'[u][m] = IF m = n THEN st ELSE claim[u][m]
          BY <4>1, Zenon
        <4>3. claim[u][n] = "head" /\ UNCHANGED <<cleanup, put, objects>>
          BY <2>1 DEF ClaimHead
        <4> QED
          BY <4>1, <4>2, <4>3 DEF RowInv, ClaimInv
      <3> QED
        BY <3>1, <3>2, <3>3, <3>4, <1>f, Zenon
    <2>2. CASE ClaimDelete(u, n)
      <3>1. \A v \in Uploads \ {u} : Same(v)
        BY <2>2 DEF ClaimDelete
      <3>2. RequestInv(u)'
        BY <2>2 DEF ClaimDelete, RequestInv, ClaimInv
      <3>3. RowInv(u)'
        BY <2>2 DEF ClaimDelete, RequestInv, RowInv
      <3>4. ClaimInv(u)'
        <4>1. PICK st \in {"deleted", "storage_error"} :
                 /\ claim' = [claim EXCEPT ![u][n] = st]
                 /\ st = "deleted" => u \notin objects'
          BY <2>2 DEF ClaimDelete
        <4>2. \A m \in 1..MaxAttempts : claim'[u][m] = IF m = n THEN st ELSE claim[u][m]
          BY <4>1, Zenon
        <4>3. /\ claim[u][n] = "delete" /\ UNCHANGED <<cleanup, put>>
              /\ u \in objects' => u \in objects
          BY <2>2 DEF ClaimDelete
        <4> QED
          BY <4>1, <4>2, <4>3 DEF ClaimInv
      <3> QED
        BY <3>1, <3>2, <3>3, <3>4, <1>f
    <2>3. CASE record_failed_attempt(u, n)
      <3>1. \A v \in Uploads \ {u} : Same(v)
        BY <2>3 DEF record_failed_attempt, ExhaustRow, Cleanup, NoReservation, TypeOK, Cleanups
      <3>2. RequestInv(u)'
        BY <2>3 DEF record_failed_attempt, ExhaustRow, Cleanup, NoReservation, TypeOK, Cleanups, RequestInv, RowInv
      <3>3. RowInv(u)'
        BY <2>3 DEF record_failed_attempt, ExhaustRow, Cleanup, NoReservation, TypeOK, Cleanups, RowInv, ClaimInv
      <3>4. ClaimInv(u)'
        BY <2>3 DEF record_failed_attempt, ExhaustRow, Cleanup, NoReservation, TypeOK, Cleanups, RequestInv, RowInv, ClaimInv
      <3> QED
        BY <3>1, <3>2, <3>3, <3>4, <1>f
    <2>4. CASE record_success(u, n)
      <3>a. put[u] = "landed" /\ u \notin objects
        BY <2>4 DEF record_success, ClaimInv
      <3>b. /\ UNCHANGED <<pc, confirmed, put, objects, sources>>
            /\ \A m \in 1..MaxAttempts : claim'[u][m] \in {claim[u][m], "none"}
        BY <2>4 DEF record_success
      <3>c. /\ \/ UNCHANGED <<cleanup, resv>>
               \/ /\ cleanup[u].status \in {"pending", "succeeded"}
                  /\ cleanup'[u].status = "succeeded" /\ resv'[u].kind # "linked"
            /\ \A v \in Uploads \ {u} : cleanup'[v] = cleanup[v] /\ resv'[v] = resv[v]
        BY <2>4, SucceedFacts DEF record_success
      <3>1. \A v \in Uploads \ {u} : Same(v)
        BY <2>4, <3>b, <3>c DEF record_success
      <3>2. RequestInv(u)'
        BY <3>a, <3>b, <3>c DEF RequestInv, RowInv
      <3>3. RowInv(u)'
        BY <3>a, <3>b, <3>c DEF RowInv
      <3>4. ClaimInv(u)'
        BY <3>a, <3>b, <3>c, Zenon DEF ClaimInv
      <3> QED
        BY <3>1, <3>2, <3>3, <3>4, <1>f
    <2>5. CASE ClaimDropped(u, n)
      <3>1. \A v \in Uploads \ {u} : Same(v)
        BY <2>5 DEF ClaimDropped
      <3>2. RequestInv(u)'
        BY <2>5 DEF ClaimDropped, RequestInv, RowInv
      <3>3. RowInv(u)'
        BY <2>5 DEF ClaimDropped, RequestInv, RowInv
      <3>4. ClaimInv(u)'
        BY <2>5 DEF ClaimDropped, RequestInv, RowInv, ClaimInv
      <3> QED
        BY <3>1, <3>2, <3>3, <3>4, <1>f
    <2> QED
      BY <1>4, <2>1, <2>2, <2>3, <2>4, <2>5 DEF ClaimStep
  <1>5. CASE create_source \/ Quiescent \/ UNCHANGED vars
    <2>1. \A v \in Uploads : Same(v)
      BY <1>0, <1>5 DEF create_source, Quiescent, vars
    <2> QED
      BY <2>1, Frame, Zenon DEF UploadInv
  <1> QED
    BY <1>2, <1>3, <1>4, <1>5 DEF Next

(* The inductive invariant of the upload path holds, lost acknowledgements *)
(* included.                                                               *)
THEOREM InvariantHolds == Spec => []UploadInv
  <1>1. Init => UploadInv
    BY DEF Init, UploadInv, RequestInv, RowInv, ClaimInv, NoReservation, Cleanup
  <1> QED
    BY <1>1, InvStep, TypeCorrect, PTL DEF Spec

-----------------------------------------------------------------------------
(* What the invariant gives.                                               *)

(* An object that no source owns, or a PUT that may still create one, is   *)
(* always held by a linked reservation and an unresolved or exhausted      *)
(* cleanup row: request-time cleanup and reconciliation never forget it.   *)
THEOREM OrphansAreCharged == Spec => []OrphanStaysCharged
  <1>1. TypeOK /\ UploadInv => OrphanStaysCharged
    BY DEF TypeOK, UploadInv, RequestInv, RowInv, OrphanStaysCharged, TypeOK, Cleanups
  <1> QED
    BY <1>1, TypeCorrect, InvariantHolds, PTL

(* The transactions that resolve a cleanup row release its quota hold.     *)
THEOREM ResolvedReleases == Spec => []ResolvedHoldsNothing
  <1>1. UploadInv => ResolvedHoldsNothing
    BY DEF UploadInv, RowInv, ResolvedHoldsNothing
  <1> QED
    BY <1>1, InvariantHolds, PTL

(* If commits are acknowledged, a committed source has ended its request   *)
(* and keeps its object in every step.                                     *)
LEMMA AckStep ==
    ~LostAcks /\ TypeOK /\ UploadInv /\ AckInv /\ [Next]_vars => AckInv'
  <1> SUFFICES ASSUME ~LostAcks, TypeOK, UploadInv, AckInv, [Next]_vars,
                      NEW v \in Uploads, v \in sources'
               PROVE  pc'[v] = "done" /\ v \in objects'
    BY DEF AckInv
  <1> USE DEF TypeOK, AckInv, Goto, rows, store
  <1>0. RequestInv(v) /\ RowInv(v) /\ ClaimInv(v)
    BY DEF UploadInv
  <1>1. CASE create_source \/ Quiescent \/ UNCHANGED vars
    BY <1>1 DEF create_source, Quiescent, vars
  <1>2. ASSUME NEW u \in Uploads, RequestStep(u) PROVE pc'[v] = "done" /\ v \in objects'
    <2>1. CASE create_file_source(u)
      <3>1. UNCHANGED <<confirmed, put, objects>>
        BY <2>1 DEF create_file_source
      <3>3. CASE CommitRows(u) /\ Goto(u, "done")
        <4>1. cleanup[u].status = "prepared" /\ pc[u] = "put_ok" /\ pc'[u] = "done"
              /\ sources' = sources \cup {u} /\ (u # v => pc'[v] = pc[v])
          BY <2>1, <3>3 DEF CommitRows, create_file_source
        <4>2. CASE u = v
          BY <1>0, <3>1, <4>1, <4>2 DEF RequestInv
        <4>3. CASE u # v
          BY <3>1, <4>1, <4>3
        <4> QED
          BY <4>2, <4>3
      <3>4. CASE Goto(u, "expire") /\ UNCHANGED rows
        BY <2>1, <3>1, <3>4 DEF create_file_source
      <3> QED
        BY <2>1, <3>3, <3>4 DEF create_file_source
    <2>2. CASE ~create_file_source(u)
      <3>1. v \in sources /\ pc[u] # "done" /\ (u # v => pc'[v] = pc[v])
        BY <1>2, <2>2 DEF RequestStep, reserve_file_upload, ReserveRows,
             finalize_file_upload_reservation, FinalizeRows, release_unlinked_reservation,
             bind_upload_reservation_to_cleanup, BindRows, put_object, PutReturns, PutRaises,
             expire_upload_concurrency_lease, arm_upload_cleanup, InlineDelete,
             mark_inline_cleanup_succeeded
      <3>2. u # v
        BY <3>1
      <3>3. v \in objects'
        BY <1>2, <2>2, <3>1, <3>2 DEF RequestStep, reserve_file_upload,
             finalize_file_upload_reservation, release_unlinked_reservation,
             bind_upload_reservation_to_cleanup, put_object, PutReturns, PutRaises,
             expire_upload_concurrency_lease, arm_upload_cleanup, InlineDelete,
             mark_inline_cleanup_succeeded
      <3> QED
        BY <3>1, <3>2, <3>3
    <2> QED
      BY <2>1, <2>2
  <1>3. ASSUME NEW u \in Uploads,
               \/ RequestCrash(u) \/ PutSettles(u) \/ claim_due_batch(u)
               \/ LeaseExpires(u) \/ DeadlinePasses(u)
        PROVE  pc'[v] = "done" /\ v \in objects'
    BY <1>3 DEF RequestCrash, PutSettles, claim_due_batch, LeaseExpires, DeadlinePasses
  <1>4. ASSUME NEW u \in Uploads, NEW n \in 1..MaxAttempts, ClaimStep(u, n)
        PROVE  pc'[v] = "done" /\ v \in objects'
    <2>1. CASE ClaimDelete(u, n)
      BY <1>0, <2>1 DEF ClaimDelete, RowInv, ClaimInv
    <2>2. CASE ~ClaimDelete(u, n)
      BY <1>4, <2>2 DEF ClaimStep, ClaimHead, record_failed_attempt, record_success, ClaimDropped
    <2> QED
      BY <2>1, <2>2
  <1> QED
    BY <1>1, <1>2, <1>3, <1>4 DEF Next

(* With acknowledged commits no request-time delete and no reconciliation  *)
(* attempt, however late, removes the object of a committed source.        *)
THEOREM SourcesKeepObjects == ~LostAcks => (Spec => []ReferencedObjectKept)
  <1> SUFFICES ASSUME ~LostAcks PROVE Spec => []ReferencedObjectKept
    OBVIOUS
  <1>1. Init => AckInv
    BY DEF Init, AckInv
  <1>2. TypeOK /\ UploadInv /\ AckInv /\ [Next]_vars => AckInv'
    BY AckStep
  <1>3. UploadInv /\ AckInv => ReferencedObjectKept
    BY DEF UploadInv, RowInv, AckInv, ReferencedObjectKept
  <1> QED
    BY <1>1, <1>2, <1>3, TypeCorrect, InvariantHolds, PTL DEF Spec

(* referenced, succeeded and exhausted are final, attempts only grow and   *)
(* source rows stay, whatever stale claim or late request step comes.      *)
THEOREM ResolutionsAreFinal == Spec => ResolutionIsFinal
  <1>1. TypeOK /\ UploadInv /\ [Next]_vars => [\A u \in Uploads : KeepsResolution(u)]_vars
    <2> SUFFICES ASSUME TypeOK, UploadInv, [Next]_vars, NEW v \in Uploads
                 PROVE  KeepsResolution(v)
      OBVIOUS
    <2> USE DEF KeepsResolution, rows
    <2>0. cleanup[v].attempts \in Nat /\ DOMAIN cleanup = Uploads
      BY DEF TypeOK, Cleanups
    <2>1. CASE cleanup'[v] = cleanup[v] /\ (v \in sources => v \in sources')
      BY <2>0, <2>1
    <2>2. ASSUME NEW u \in Uploads, bind_upload_reservation_to_cleanup(u) PROVE KeepsResolution(v)
      <3>1. cleanup[u].status = "none" /\ cleanup[u].attempts = 0
        BY <2>2, Zenon DEF bind_upload_reservation_to_cleanup, UploadInv, RequestInv, RowInv
      <3> QED
        BY <2>0, <2>2, <3>1 DEF bind_upload_reservation_to_cleanup, BindRows, Cleanup
    <2>3. ASSUME NEW u \in Uploads,
                 \/ create_file_source(u) \/ arm_upload_cleanup(u)
                 \/ mark_inline_cleanup_succeeded(u)
          PROVE  KeepsResolution(v)
      <3>1. CASE create_file_source(u)
        <4>1. CASE CommitRows(u)
          BY <2>0, <4>1 DEF CommitRows, Cleanup
        <4> QED
          BY <2>1, <3>1, <4>1 DEF create_file_source
      <3>2. CASE arm_upload_cleanup(u)
        BY <2>0, <3>2 DEF arm_upload_cleanup, Unresolved, Cleanup
      <3>3. CASE mark_inline_cleanup_succeeded(u)
        <4>1. CASE SucceedRows(u) /\ cleanup[u].status \notin {"referenced", "exhausted"}
                   /\ UNCHANGED sources
          BY <2>0, <4>1, SucceedFacts
        <4> QED
          BY <2>1, <3>3, <4>1 DEF mark_inline_cleanup_succeeded
      <3> QED
        BY <2>3, <3>1, <3>2, <3>3
    <2>4. ASSUME NEW u \in Uploads, claim_due_batch(u) \/ DeadlinePasses(u)
          PROVE  KeepsResolution(v)
      <3>1. CASE DeadlinePasses(u)
        BY <2>0, <3>1 DEF DeadlinePasses, Unresolved, Cleanups
      <3>2. CASE claim_due_batch(u)
        <4>1. Unresolved(u) /\ sources' = sources
          BY <3>2 DEF claim_due_batch
        <4>2. CASE ClaimRow(u)
          BY <2>0, <4>1, <4>2 DEF ClaimRow, Cleanup, Unresolved
        <4>3. CASE \E e : ExhaustRow(u, e)
          BY <2>0, <4>1, <4>3 DEF ExhaustRow, Cleanup, Unresolved
        <4> QED
          BY <3>2, <4>2, <4>3 DEF claim_due_batch
      <3> QED
        BY <2>4, <3>1, <3>2
    <2>5. ASSUME NEW u \in Uploads, NEW n \in 1..MaxAttempts, ClaimStep(u, n)
          PROVE  KeepsResolution(v)
      <3>1. CASE ClaimHead(u, n) \/ ClaimDelete(u, n) \/ ClaimDropped(u, n)
        BY <2>1, <3>1 DEF ClaimHead, ClaimDelete, ClaimDropped
      <3>2. CASE record_success(u, n)
        <4>1. CASE SucceedRows(u) /\ cleanup[u].status \notin {"referenced", "exhausted"}
                   /\ UNCHANGED sources
          BY <2>0, <4>1, SucceedFacts
        <4> QED
          BY <2>1, <3>2, <4>1 DEF record_success
      <3>3. CASE record_failed_attempt(u, n)
        <4>1. CASE UNCHANGED cleanup
          BY <2>1, <3>3, <4>1 DEF record_failed_attempt
        <4>2. CASE cleanup[u].status = "pending" /\ \E e : ExhaustRow(u, e)
          BY <2>0, <3>3, <4>2 DEF record_failed_attempt, ExhaustRow, Cleanup
        <4>3. CASE cleanup[u].status = "pending"
                     /\ \E e : cleanup' = [cleanup EXCEPT ![u].error = e]
          BY <2>0, <3>3, <4>3 DEF record_failed_attempt, Cleanups
        <4> QED
          BY <3>3, <4>1, <4>2, <4>3 DEF record_failed_attempt
      <3> QED
        BY <2>5, <3>1, <3>2, <3>3, Zenon DEF ClaimStep
    <2>6. ASSUME NEW u \in Uploads, RequestStep(u),
                 ~bind_upload_reservation_to_cleanup(u), ~create_file_source(u),
                 ~arm_upload_cleanup(u), ~mark_inline_cleanup_succeeded(u)
          PROVE  KeepsResolution(v)
      BY <2>1, <2>6 DEF RequestStep, reserve_file_upload, ReserveRows,
           finalize_file_upload_reservation, FinalizeRows, release_unlinked_reservation,
           put_object, PutReturns, PutRaises, expire_upload_concurrency_lease, InlineDelete
    <2>7. CASE \/ create_source \/ Quiescent \/ UNCHANGED vars
               \/ \E u \in Uploads : RequestCrash(u) \/ PutSettles(u) \/ LeaseExpires(u)
      BY <2>1, <2>7 DEF create_source, Quiescent, vars, RequestCrash, PutSettles, LeaseExpires
    <2> QED
      BY <2>2, <2>3, <2>4, <2>5, <2>6, <2>7, Zenon DEF Next
  <1> QED
    BY <1>1, TypeCorrect, InvariantHolds, PTL DEF Spec, ResolutionIsFinal

-----------------------------------------------------------------------------
(* The quota.                                                              *)

Kept == {u \in Uploads : resv[u].kind # "none"}
Final == {u \in Uploads : resv[u].kind \in {"finalized", "linked"}}

(* What the quota transactions see: reservations that are linked or whose  *)
(* lease is live.                                                          *)
HeldSet == {u \in Uploads : Held(u)}
HeldFinal == {u \in Uploads : Held(u) /\ resv[u].kind # "admitted"}

(* The limits hold even if every expired reservation that nobody reclaimed *)
(* is counted, because its request may still bind it.                      *)
QuotaInv ==
    /\ Small(sources) /\ Small(Kept) /\ urlSources \in Nat
    /\ urlSources + Cardinality(sources) + Cardinality(Kept) <= SourceLimit
    /\ Bytes(sources) + Bytes(Final) <= ByteLimit
    /\ Cardinality(Active) <= ConcurrencyLimit

(* What is charged is part of what is kept, and is all that Reclaimed      *)
(* leaves.                                                                 *)
LEMMA KeptSets ==
    ASSUME TypeOK, Small(Kept)
    PROVE  /\ Final \subseteq Kept /\ Active \subseteq Kept /\ HeldSet \subseteq Kept /\ HeldFinal \subseteq Final
           /\ Small(Final) /\ Small(Active) /\ Small(HeldSet) /\ Small(HeldFinal)
  <1>1. \A u \in Uploads : resv[u] \in Reservations
    BY DEF TypeOK
  <1>2. Final \subseteq Kept /\ Active \subseteq Kept
    BY DEF Final, Kept, Active
  <1>3. HeldSet \subseteq Kept
    BY DEF HeldSet, Kept, Held, Unlinked
  <1>4. HeldFinal \subseteq Final
    BY <1>1 DEF HeldFinal, Final, Held, Unlinked
  <1>5. HeldFinal \subseteq Kept
    BY <1>2, <1>4
  <1> QED
    BY <1>2, <1>3, <1>4, <1>5, SmallSubset

(* What get_knowledge_quota_usage sums, by name.                           *)
LEMMA Charges ==
    /\ ChargedSources = urlSources + Cardinality(sources) + Cardinality(HeldSet)
    /\ ChargedBytes = Bytes(sources) + Bytes(HeldFinal)
  BY DEF ChargedSources, ChargedBytes, HeldSet, HeldFinal

(* What is left after the reclaim was held, charged or active before.      *)
LEMMA ReclaimedSets ==
    ASSUME TypeOK, NEW v \in Uploads
    PROVE  /\ Reclaimed[v].kind # "none" => v \in HeldSet
           /\ Reclaimed[v].kind \in {"finalized", "linked"} => v \in HeldFinal
           /\ Reclaimed[v].kind # "none" /\ Reclaimed[v].lease = "live" => v \in Active
  <1>1. resv[v] \in Reservations
    BY DEF TypeOK
  <1>2. CASE Unlinked(v) /\ resv[v].lease = "expired"
    BY <1>2 DEF Reclaimed, NoReservation
  <1>3. CASE ~(Unlinked(v) /\ resv[v].lease = "expired")
    <2>1. Reclaimed[v] = resv[v]
      BY <1>3 DEF Reclaimed
    <2>2. resv[v].kind # "none" => Held(v)
      BY <1>1, <1>3 DEF Held, Unlinked, Reservations
    <2> QED
      BY <2>1, <2>2 DEF HeldSet, HeldFinal, Active
  <1> QED
    BY <1>2, <1>3

(* Steps that charge nothing new.                                          *)
LEMMA QuotaShrinks ==
    ASSUME TypeOK, QuotaInv, Kept' \subseteq Kept, Final' \subseteq Final, Active' \subseteq Active,
           UNCHANGED <<sources, urlSources>>
    PROVE  QuotaInv'
  <1>1. Small(Kept') /\ Cardinality(Kept') <= Cardinality(Kept)
    BY SmallSubset DEF QuotaInv
  <1>2. Small(Final) /\ Small(Active)
    BY KeptSets DEF QuotaInv
  <1>3. Small(Final') /\ Bytes(Final') <= Bytes(Final) /\ Small(Active') /\ Cardinality(Active') <= Cardinality(Active)
    BY <1>2, SmallSubset
  <1>4. /\ Cardinality(Kept') \in Nat /\ Cardinality(Kept) \in Nat /\ Bytes(Final') \in Nat /\ Bytes(Final) \in Nat
        /\ Cardinality(Active') \in Nat /\ Cardinality(Active) \in Nat /\ Cardinality(sources) \in Nat
        /\ Bytes(sources) \in Nat
    BY <1>1, <1>2, <1>3, SmallCounts DEF QuotaInv
  <1>5. urlSources + Cardinality(sources) + Cardinality(Kept') <= SourceLimit
    BY <1>1, <1>4, ConstantsAssumption DEF QuotaInv
  <1>6. Bytes(sources) + Bytes(Final') <= ByteLimit
    BY <1>3, <1>4, ConstantsAssumption DEF QuotaInv
  <1>7. Cardinality(Active') <= ConcurrencyLimit
    BY <1>3, <1>4, ConstantsAssumption DEF QuotaInv
  <1>8. Small(sources') /\ urlSources' \in Nat
    BY DEF QuotaInv
  <1>9. Bytes(sources') = Bytes(sources)
    OBVIOUS
  <1> QED
    BY <1>1, <1>5, <1>6, <1>7, <1>8, <1>9, Zenon DEF QuotaInv, Small, Pile, Bytes

(* The step leaves or lightens the charge of upload v.                     *)
NoMore(v) ==
    /\ resv'[v].kind # "none" => resv[v].kind # "none"
    /\ resv'[v].kind \in {"finalized", "linked"} => resv[v].kind \in {"finalized", "linked"}
    /\ resv'[v].lease = "live" /\ resv'[v].kind # "none" => resv[v].lease = "live"

(* If no upload is charged more, the limits still hold.                    *)
LEMMA QuotaQuiet ==
    ASSUME TypeOK, QuotaInv, \A v \in Uploads : NoMore(v), UNCHANGED <<sources, urlSources>>
    PROVE  QuotaInv'
  <1>1. Kept' \subseteq Kept
    BY DEF NoMore, Kept
  <1>2. Final' \subseteq Final
    BY DEF NoMore, Final
  <1>3. Active' \subseteq Active
    BY DEF NoMore, Active
  <1> QED
    BY <1>1, <1>2, <1>3, QuotaShrinks

(* Only one reservation is written, and it is charged no more than before. *)
LEMMA QuotaOne ==
    ASSUME TypeOK, QuotaInv, NEW u \in Uploads, NEW r \in Reservations, resv' = [resv EXCEPT ![u] = r],
           \/ r.kind = "none"
           \/ r.kind = resv[u].kind /\ r.lease \in {"expired", resv[u].lease}
           \/ r.kind = "linked" /\ resv[u].kind = "finalized" /\ r.lease = resv[u].lease,
           UNCHANGED <<sources, urlSources>>
    PROVE  QuotaInv'
  <1>1. ASSUME NEW v \in Uploads PROVE NoMore(v)
    <2>1. CASE v = u
      <3>1. resv'[v] = r
        BY <2>1 DEF TypeOK
      <3> QED
        BY <2>1, <3>1 DEF NoMore
    <2>2. CASE v # u
      <3>1. resv'[v] = resv[v]
        BY <2>2 DEF TypeOK
      <3> QED
        BY <3>1 DEF NoMore
    <2> QED
      BY <2>1, <2>2
  <1> QED
    BY <1>1, QuotaQuiet

(* Admission: one more source and one more concurrent upload, no bytes.    *)
LEMMA QuotaReserve ==
    ASSUME TypeOK, QuotaInv, NEW u \in Uploads, ReserveRows(u) PROVE QuotaInv'
  <1>0. /\ Small(Final) /\ Small(Active) /\ Small(HeldSet) /\ Small(HeldFinal) /\ HeldFinal \subseteq Final
        /\ Small({u}) /\ Cardinality({u}) = 1
    BY KeptSets, SmallOne DEF QuotaInv
  <1>1. ASSUME NEW v \in Uploads, v # u PROVE resv'[v] = Reclaimed[v]
    BY <1>1, ReclaimedType DEF ReserveRows
  <1>2. resv'[u] = [kind |-> "admitted", lease |-> "live"]
    BY ReclaimedType DEF ReserveRows
  <1>3. Kept' \subseteq HeldSet \cup {u}
    <2> SUFFICES ASSUME NEW v \in Uploads, v # u, resv'[v].kind # "none" PROVE v \in HeldSet
      BY DEF Kept
    <2> QED
      BY <1>1, ReclaimedSets
  <1>4. Final' \subseteq HeldFinal
    <2> SUFFICES ASSUME NEW v \in Uploads, resv'[v].kind \in {"finalized", "linked"} PROVE v \in HeldFinal
      BY DEF Final
    <2>1. v # u
      BY <1>2
    <2> QED
      BY <1>1, <2>1, ReclaimedSets
  <1>5. Active' \subseteq Active \cup {u}
    <2> SUFFICES ASSUME NEW v \in Uploads, v # u, resv'[v].kind # "none", resv'[v].lease = "live" PROVE v \in Active
      BY DEF Active
    <2> QED
      BY <1>1, ReclaimedSets, Zenon
  <1>6. Small(Kept') /\ Cardinality(Kept') <= Cardinality(HeldSet) + 1
    <2>1. Small(HeldSet \cup {u}) /\ Cardinality(HeldSet \cup {u}) <= Cardinality(HeldSet) + 1
      BY <1>0, SmallUnion
    <2>2. Small(Kept') /\ Cardinality(Kept') <= Cardinality(HeldSet \cup {u})
      BY <1>3, <2>1, SmallSubset
    <2>3. /\ Cardinality(Kept') \in Nat /\ Cardinality(HeldSet \cup {u}) \in Nat /\ Cardinality(HeldSet) \in Nat
      BY <1>0, <2>1, <2>2, SmallCounts
    <2> QED
      BY <2>1, <2>2, <2>3
  <1>7. Small(Final') /\ Bytes(Final') <= Bytes(HeldFinal)
    BY <1>0, <1>4, SmallSubset
  <1>8. Small(Active') /\ Cardinality(Active') <= Cardinality(Active) + 1
    <2>1. Small(Active \cup {u}) /\ Cardinality(Active \cup {u}) <= Cardinality(Active) + 1
      BY <1>0, SmallUnion
    <2>2. Small(Active') /\ Cardinality(Active') <= Cardinality(Active \cup {u})
      BY <1>5, <2>1, SmallSubset
    <2>3. /\ Cardinality(Active') \in Nat /\ Cardinality(Active \cup {u}) \in Nat /\ Cardinality(Active) \in Nat
      BY <1>0, <2>1, <2>2, SmallCounts
    <2> QED
      BY <2>1, <2>2, <2>3
  <1>9. /\ Cardinality(Kept') \in Nat /\ Cardinality(HeldSet) \in Nat /\ Bytes(Final') \in Nat /\ Bytes(HeldFinal) \in Nat
        /\ Cardinality(Active') \in Nat /\ Cardinality(Active) \in Nat /\ Cardinality(sources) \in Nat
        /\ Bytes(sources) \in Nat /\ urlSources \in Nat
    BY <1>0, <1>6, <1>7, <1>8, SmallCounts DEF QuotaInv
  <1>10. urlSources + Cardinality(sources) + Cardinality(Kept') <= SourceLimit
    <2>1. urlSources + Cardinality(sources) + Cardinality(HeldSet) < SourceLimit
      BY Charges DEF ReserveRows
    <2> QED
      BY <1>6, <1>9, <2>1, ConstantsAssumption
  <1>11. Bytes(sources) + Bytes(Final') <= ByteLimit
    <2>1. Bytes(sources) + Bytes(HeldFinal) <= ByteLimit
      BY Charges DEF ReserveRows
    <2> QED
      BY <1>7, <1>9, <2>1, ConstantsAssumption
  <1>12. Cardinality(Active') <= ConcurrencyLimit
    <2>1. Cardinality(Active) < ConcurrencyLimit
      BY DEF ReserveRows
    <2> QED
      BY <1>8, <1>9, <2>1, ConstantsAssumption
  <1>13. Small(sources') /\ urlSources' \in Nat /\ sources' = sources /\ urlSources' = urlSources
    BY DEF QuotaInv, ReserveRows
  <1>14. Bytes(sources') = Bytes(sources)
    BY <1>13
  <1> QED
    BY <1>6, <1>10, <1>11, <1>12, <1>13, <1>14, Zenon DEF QuotaInv, Small, Pile, Bytes

(* Finalisation: the bytes of one admitted upload.                         *)
LEMMA QuotaFinalize ==
    ASSUME TypeOK, QuotaInv, NEW u \in Uploads, FinalizeRows(u) PROVE QuotaInv'
  <1>0. /\ Small(Final) /\ Small(Active) /\ Small(Kept) /\ Small(HeldFinal) /\ HeldSet \subseteq Kept
        /\ Small({u}) /\ Bytes({u}) = Size[u]
    BY KeptSets, SmallOne DEF QuotaInv
  <1>1. ASSUME NEW v \in Uploads, v # u PROVE resv'[v] = Reclaimed[v]
    BY <1>1, ReclaimedType DEF FinalizeRows
  <1>2. u \in Kept /\ u \in Active
    BY DEF FinalizeRows, Kept, Active
  <1>3. Kept' \subseteq Kept
    <2> SUFFICES ASSUME NEW v \in Uploads, v # u, resv'[v].kind # "none" PROVE v \in HeldSet
      BY <1>0, <1>2 DEF Kept
    <2> QED
      BY <1>1, ReclaimedSets
  <1>4. Final' \subseteq HeldFinal \cup {u}
    <2> SUFFICES ASSUME NEW v \in Uploads, v # u, resv'[v].kind \in {"finalized", "linked"} PROVE v \in HeldFinal
      BY DEF Final
    <2> QED
      BY <1>1, ReclaimedSets
  <1>5. Active' \subseteq Active
    <2> SUFFICES ASSUME NEW v \in Uploads, v # u, resv'[v].kind # "none", resv'[v].lease = "live" PROVE v \in Active
      BY <1>2 DEF Active
    <2> QED
      BY <1>1, ReclaimedSets
  <1>6. Small(Kept') /\ Cardinality(Kept') <= Cardinality(Kept)
    BY <1>0, <1>3, SmallSubset
  <1>7. Small(Final') /\ Bytes(Final') <= Bytes(HeldFinal) + Size[u]
    <2>1. Small(HeldFinal \cup {u}) /\ Bytes(HeldFinal \cup {u}) <= Bytes(HeldFinal) + Size[u]
      BY <1>0, SmallUnion
    <2>2. Small(Final') /\ Bytes(Final') <= Bytes(HeldFinal \cup {u})
      BY <1>4, <2>1, SmallSubset
    <2>3. /\ Bytes(Final') \in Nat /\ Bytes(HeldFinal \cup {u}) \in Nat /\ Bytes(HeldFinal) \in Nat
      BY <1>0, <2>1, <2>2, SmallCounts
    <2>4. Size[u] \in Nat
      BY ConstantsAssumption
    <2> QED
      BY <2>1, <2>2, <2>3, <2>4
  <1>8. Small(Active') /\ Cardinality(Active') <= Cardinality(Active)
    BY <1>0, <1>5, SmallSubset
  <1>9. /\ Cardinality(Kept') \in Nat /\ Cardinality(Kept) \in Nat /\ Bytes(Final') \in Nat /\ Bytes(HeldFinal) \in Nat
        /\ Cardinality(Active') \in Nat /\ Cardinality(Active) \in Nat /\ Cardinality(sources) \in Nat
        /\ Bytes(sources) \in Nat /\ urlSources \in Nat /\ Size[u] \in Nat
    BY <1>0, <1>6, <1>7, <1>8, SmallCounts, ConstantsAssumption DEF QuotaInv
  <1>10. urlSources + Cardinality(sources) + Cardinality(Kept') <= SourceLimit
    BY <1>6, <1>9, ConstantsAssumption DEF QuotaInv
  <1>11. Bytes(sources) + Bytes(Final') <= ByteLimit
    <2>1. Bytes(sources) + Bytes(HeldFinal) + Size[u] <= ByteLimit
      BY Charges DEF FinalizeRows
    <2> QED
      BY <1>7, <1>9, <2>1, ConstantsAssumption
  <1>12. Cardinality(Active') <= ConcurrencyLimit
    BY <1>8, <1>9, ConstantsAssumption DEF QuotaInv
  <1>13. Small(sources') /\ urlSources' \in Nat /\ sources' = sources /\ urlSources' = urlSources
    BY DEF QuotaInv, FinalizeRows
  <1>14. Bytes(sources') = Bytes(sources)
    BY <1>13
  <1> QED
    BY <1>6, <1>10, <1>11, <1>12, <1>13, <1>14 DEF QuotaInv, Small, Pile, Bytes

(* Commit: one upload moves from the reservations to the sources.          *)
LEMMA QuotaCommit ==
    ASSUME TypeOK, QuotaInv, NEW u \in Uploads, CommitRows(u), resv[u].kind = "linked" PROVE QuotaInv'
  <1>0. /\ Small(Final) /\ Small(Active) /\ Small(Kept) /\ Small(sources) /\ u \in Kept /\ u \in Final
    BY KeptSets, Zenon DEF QuotaInv, Kept, Final
  <1>1. /\ \A v \in Uploads \ {u} : resv'[v] = resv[v]
        /\ resv'[u].kind = "none"
    BY DEF CommitRows, TypeOK, NoReservation
  <1>2. Kept' = Kept \ {u}
    BY <1>1, Zenon DEF Kept
  <1>3. Final' = Final \ {u}
    BY <1>1 DEF Final
  <1>4. Active' \subseteq Active
    BY <1>1 DEF Active
  <1>5. Small(Kept') /\ Cardinality(Kept') = Cardinality(Kept) - 1
    BY <1>0, <1>2, SmallRemove, Zenon
  <1>6. Small(Final') /\ Bytes(Final') = Bytes(Final) - Size[u]
    BY <1>0, <1>3, SmallRemove
  <1>7. Small(Active') /\ Cardinality(Active') <= Cardinality(Active)
    BY <1>0, <1>4, SmallSubset
  <1>8. /\ Small(sources') /\ Cardinality(sources') <= Cardinality(sources) + 1
        /\ Bytes(sources') <= Bytes(sources) + Size[u]
    <2>1. Small({u}) /\ Cardinality({u}) = 1 /\ Bytes({u}) = Size[u]
      BY SmallOne
    <2>2. sources' = sources \cup {u}
      BY DEF CommitRows
    <2> QED
      BY <1>0, <2>1, <2>2, SmallUnion
  <1>9. /\ Cardinality(Kept') \in Nat /\ Cardinality(Kept) \in Nat /\ Bytes(Final') \in Nat /\ Bytes(Final) \in Nat
        /\ Cardinality(Active') \in Nat /\ Cardinality(Active) \in Nat /\ Cardinality(sources) \in Nat
        /\ Bytes(sources) \in Nat /\ Cardinality(sources') \in Nat /\ Bytes(sources') \in Nat
        /\ urlSources \in Nat /\ Size[u] \in Nat /\ urlSources' = urlSources
    BY <1>0, <1>5, <1>6, <1>7, <1>8, SmallCounts, ConstantsAssumption DEF QuotaInv, CommitRows
  <1>10. urlSources + Cardinality(sources') + Cardinality(Kept') <= SourceLimit
    BY <1>5, <1>8, <1>9, ConstantsAssumption DEF QuotaInv
  <1>11. Bytes(sources') + Bytes(Final') <= ByteLimit
    BY <1>6, <1>8, <1>9, ConstantsAssumption DEF QuotaInv
  <1>12. Cardinality(Active') <= ConcurrencyLimit
    BY <1>7, <1>9, ConstantsAssumption DEF QuotaInv
  <1> QED
    BY <1>5, <1>8, <1>9, <1>10, <1>11, <1>12, Zenon DEF QuotaInv, Small, Pile, Bytes

(* A URL source: one more source once the expired holds are reclaimed.     *)
LEMMA QuotaSource == ASSUME TypeOK, QuotaInv, create_source PROVE QuotaInv'
  <1>0. /\ Small(Final) /\ Small(Active) /\ Small(HeldSet) /\ HeldFinal \subseteq Final
    BY KeptSets DEF QuotaInv
  <1>1. ASSUME NEW v \in Uploads PROVE resv'[v] = Reclaimed[v]
    BY DEF create_source
  <1>2. Kept' \subseteq HeldSet
    BY <1>1, ReclaimedSets DEF Kept
  <1>3. Final' \subseteq Final
    BY <1>0, <1>1, ReclaimedSets DEF Final
  <1>4. Active' \subseteq Active
    BY <1>1, ReclaimedSets DEF Active
  <1>5. Small(Kept') /\ Cardinality(Kept') <= Cardinality(HeldSet)
    BY <1>0, <1>2, SmallSubset
  <1>6. Small(Final') /\ Bytes(Final') <= Bytes(Final)
    BY <1>0, <1>3, SmallSubset
  <1>7. Small(Active') /\ Cardinality(Active') <= Cardinality(Active)
    BY <1>0, <1>4, SmallSubset
  <1>8. /\ Cardinality(Kept') \in Nat /\ Cardinality(HeldSet) \in Nat /\ Bytes(Final') \in Nat /\ Bytes(Final) \in Nat
        /\ Cardinality(Active') \in Nat /\ Cardinality(Active) \in Nat /\ Cardinality(sources) \in Nat
        /\ Bytes(sources) \in Nat /\ urlSources \in Nat
    BY <1>0, <1>5, <1>6, <1>7, SmallCounts DEF QuotaInv
  <1>9. urlSources + 1 + Cardinality(sources) + Cardinality(Kept') <= SourceLimit
    <2>1. urlSources + Cardinality(sources) + Cardinality(HeldSet) < SourceLimit
      BY Charges DEF create_source
    <2> QED
      BY <1>5, <1>8, <2>1, ConstantsAssumption
  <1>10. Bytes(sources) + Bytes(Final') <= ByteLimit
    BY <1>6, <1>8, ConstantsAssumption DEF QuotaInv
  <1>11. Cardinality(Active') <= ConcurrencyLimit
    BY <1>7, <1>8, ConstantsAssumption DEF QuotaInv
  <1>12. Small(sources') /\ sources' = sources /\ urlSources' = urlSources + 1 /\ urlSources' \in Nat
    BY <1>8 DEF QuotaInv, create_source
  <1>13. Bytes(sources') = Bytes(sources)
    BY <1>12
  <1> QED
    BY <1>5, <1>9, <1>10, <1>11, <1>12, <1>13, Zenon DEF QuotaInv, Small, Pile, Bytes

(* A step that writes no row keeps the limits.                             *)
LEMMA QuotaSame ==
    ASSUME TypeOK, QuotaInv, UNCHANGED rows PROVE QuotaInv'
  <1>1. UNCHANGED <<resv, sources, urlSources>>
    BY DEF rows
  <1>2. \A v \in Uploads : NoMore(v)
    BY <1>1 DEF NoMore
  <1> QED
    BY <1>1, <1>2, QuotaQuiet

(* Releasing, expiring or binding one reservation keeps the limits.        *)
LEMMA QuotaReleased ==
    ASSUME TypeOK, QuotaInv, NEW u \in Uploads, UNCHANGED <<sources, urlSources>>,
           \/ resv' = [resv EXCEPT ![u] = NoReservation]
           \/ resv' = [resv EXCEPT ![u] = IF @.kind = "linked" THEN NoReservation ELSE @]
           \/ resv' = resv
           \/ resv' = [resv EXCEPT ![u].lease = "expired"]
           \/ resv[u].kind = "finalized" /\ resv' = [resv EXCEPT ![u].kind = "linked"]
    PROVE  QuotaInv'
  <1>0. /\ NoReservation \in Reservations /\ NoReservation.kind = "none" /\ resv[u] \in Reservations
        /\ resv \in [Uploads -> Reservations]
    BY DEF NoReservation, Reservations, TypeOK
  <1>1. CASE resv' = [resv EXCEPT ![u] = NoReservation]
    BY <1>0, <1>1, QuotaOne, Zenon
  <1>2. CASE resv' = resv
    <2>1. \A v \in Uploads : NoMore(v)
      BY <1>2 DEF NoMore
    <2> QED
      BY <2>1, QuotaQuiet
  <1>3. CASE resv' = [resv EXCEPT ![u] = IF @.kind = "linked" THEN NoReservation ELSE @]
    <2>1. CASE resv[u].kind = "linked"
      <3>1. resv' = [resv EXCEPT ![u] = NoReservation]
        BY <1>3, <2>1
      <3> QED
        BY <1>1, <3>1
    <2>2. CASE resv[u].kind # "linked"
      <3>1. resv' = resv
        BY <1>0, <1>3, <2>2
      <3> QED
        BY <1>2, <3>1
    <2> QED
      BY <2>1, <2>2
  <1>4. CASE resv' = [resv EXCEPT ![u].lease = "expired"]
    <2>1. PICK r : r = [resv[u] EXCEPT !.lease = "expired"]
      BY Zenon
    <2>2. r \in Reservations /\ r.kind = resv[u].kind /\ r.lease = "expired"
      BY <1>0, <2>1 DEF Reservations
    <2>3. resv' = [resv EXCEPT ![u] = r]
      BY <1>4, <2>1
    <2> QED
      BY <2>2, <2>3, QuotaOne, Zenon
  <1>5. CASE resv[u].kind = "finalized" /\ resv' = [resv EXCEPT ![u].kind = "linked"]
    <2>1. PICK r : r = [resv[u] EXCEPT !.kind = "linked"]
      BY Zenon
    <2>2. r \in Reservations /\ r.kind = "linked" /\ r.lease = resv[u].lease
      BY <1>0, <2>1 DEF Reservations
    <2>3. resv' = [resv EXCEPT ![u] = r]
      BY <1>5, <2>1
    <2> QED
      BY <1>5, <2>2, <2>3, QuotaOne, Zenon
  <1> QED
    BY <1>1, <1>2, <1>3, <1>4, <1>5

(* No step charges the tenant above a limit.                               *)
LEMMA QuotaStep == TypeOK /\ UploadInv /\ QuotaInv /\ [Next]_vars => QuotaInv'
  <1> SUFFICES ASSUME TypeOK, UploadInv, QuotaInv, [Next]_vars PROVE QuotaInv'
    OBVIOUS
  <1>1. CASE create_source
    BY <1>1, QuotaSource
  <1>2. CASE UNCHANGED vars \/ Quiescent
    BY <1>2, QuotaSame DEF vars, Quiescent
  <1>3. ASSUME NEW u \in Uploads, RequestStep(u) PROVE QuotaInv'
    <2>1. CASE reserve_file_upload(u)
      BY <2>1, QuotaReserve, QuotaSame DEF reserve_file_upload
    <2>2. CASE finalize_file_upload_reservation(u)
      BY <2>2, QuotaFinalize, QuotaSame DEF finalize_file_upload_reservation
    <2>3. CASE release_unlinked_reservation(u)
      BY <2>3, QuotaReleased DEF release_unlinked_reservation
    <2>4. CASE bind_upload_reservation_to_cleanup(u)
      <3>1. BindRows(u) => QuotaInv'
        BY QuotaReleased, Zenon DEF BindRows
      <3> QED
        BY <2>4, <3>1, QuotaSame DEF bind_upload_reservation_to_cleanup
    <2>5. CASE put_object(u) \/ PutReturns(u) \/ PutRaises(u) \/ InlineDelete(u)
      BY <2>5, QuotaSame DEF put_object, PutReturns, PutRaises, InlineDelete
    <2>6. CASE create_file_source(u)
      <3>1. ASSUME CommitRows(u) PROVE resv[u].kind = "linked"
        <4>1. pc[u] = "put_ok" /\ cleanup[u].status = "prepared"
          BY <2>6, <3>1 DEF create_file_source, CommitRows
        <4>2. put[u] = "landed"
          BY <4>1 DEF UploadInv, RequestInv
        <4> QED
          BY <4>1, <4>2 DEF UploadInv, RowInv
      <3>2. CommitRows(u) => QuotaInv'
        BY <3>1, QuotaCommit
      <3> QED
        BY <2>6, <3>2, QuotaSame DEF create_file_source
    <2>7. CASE expire_upload_concurrency_lease(u)
      BY <2>7, QuotaReleased DEF expire_upload_concurrency_lease
    <2>8. CASE arm_upload_cleanup(u)
      BY <2>8, QuotaReleased DEF arm_upload_cleanup
    <2>9. CASE mark_inline_cleanup_succeeded(u)
      BY <2>9, QuotaReleased DEF mark_inline_cleanup_succeeded, SucceedRows
    <2> QED
      BY <1>3, <2>1, <2>2, <2>3, <2>4, <2>5, <2>6, <2>7, <2>8, <2>9 DEF RequestStep
  <1>4. ASSUME NEW u \in Uploads, NEW n \in 1..MaxAttempts, ClaimStep(u, n) PROVE QuotaInv'
    <2>1. CASE ClaimHead(u, n) \/ ClaimDelete(u, n) \/ ClaimDropped(u, n)
      BY <2>1, QuotaSame DEF ClaimHead, ClaimDelete, ClaimDropped
    <2>2. CASE record_failed_attempt(u, n)
      BY <2>2, QuotaReleased DEF record_failed_attempt
    <2>3. CASE record_success(u, n)
      BY <2>3, QuotaReleased DEF record_success, SucceedRows
    <2> QED
      BY <1>4, <2>1, <2>2, <2>3 DEF ClaimStep
  <1>5. ASSUME NEW u \in Uploads, RequestCrash(u) \/ PutSettles(u) PROVE QuotaInv'
    BY <1>5, QuotaSame DEF RequestCrash, PutSettles
  <1>6. ASSUME NEW u \in Uploads, claim_due_batch(u) \/ LeaseExpires(u) \/ DeadlinePasses(u) PROVE QuotaInv'
    BY <1>6, QuotaReleased DEF claim_due_batch, LeaseExpires, DeadlinePasses
  <1> QED
    BY <1>1, <1>2, <1>3, <1>4, <1>5, <1>6 DEF Next

(* An object in the bucket is a source's or is charged as linked, so the   *)
(* bytes in the bucket are within what the invariant counts.               *)
LEMMA QuotaBounds == TypeOK /\ UploadInv /\ QuotaInv => QuotaNeverOvershot
  <1> SUFFICES ASSUME TypeOK, UploadInv, QuotaInv PROVE QuotaNeverOvershot
    OBVIOUS
  <1>1. /\ HeldSet \subseteq Kept /\ HeldFinal \subseteq Final /\ Small(HeldSet) /\ Small(HeldFinal)
        /\ Small(Kept) /\ Small(Final) /\ Small(sources)
    BY KeptSets DEF QuotaInv
  <1>2. objects \subseteq sources \cup Final
    <2> SUFFICES ASSUME NEW u \in Uploads, u \in objects, u \notin sources PROVE u \in Final
      BY DEF TypeOK
    <2>1. put[u] = "landed" /\ cleanup[u].status \notin {"referenced", "none", "succeeded"}
      BY DEF UploadInv, RowInv
    <2>2. cleanup[u].status \in {"prepared", "pending", "exhausted"}
      BY <2>1 DEF TypeOK, Cleanups
    <2>3. resv[u].kind = "linked"
      BY <2>1, <2>2, Zenon DEF UploadInv, RowInv
    <2> QED
      BY <2>3 DEF Final
  <1>3. Small(sources \cup Final) /\ Bytes(sources \cup Final) <= Bytes(sources) + Bytes(Final)
    BY <1>1, SmallUnion
  <1>4. Small(objects) /\ Bytes(objects) <= Bytes(sources \cup Final)
    BY <1>2, <1>3, SmallSubset
  <1>5. Cardinality(HeldSet) <= Cardinality(Kept) /\ Bytes(HeldFinal) <= Bytes(Final)
    BY <1>1, SmallSubset
  <1>6. /\ Cardinality(Kept) \in Nat /\ Cardinality(HeldSet) \in Nat /\ Bytes(Final) \in Nat /\ Bytes(HeldFinal) \in Nat
        /\ Cardinality(sources) \in Nat /\ Bytes(sources) \in Nat /\ urlSources \in Nat
        /\ Bytes(sources \cup Final) \in Nat /\ Bytes(objects) \in Nat
    BY <1>1, <1>3, <1>4, SmallCounts DEF QuotaInv
  <1>7. ChargedSources <= SourceLimit
    BY <1>5, <1>6, Charges, ConstantsAssumption DEF QuotaInv
  <1>8. ChargedBytes <= ByteLimit
    BY <1>5, <1>6, Charges, ConstantsAssumption DEF QuotaInv
  <1>9. Bytes(objects) <= ByteLimit
    BY <1>3, <1>4, <1>6, ConstantsAssumption DEF QuotaInv
  <1> QED
    BY <1>7, <1>8, <1>9 DEF QuotaNeverOvershot, QuotaInv

(* No tenant is charged above its source, byte or concurrency limit, and   *)
(* the bucket never holds more bytes than the limit, whatever leases       *)
(* expire, commits lose their acknowledgement and PUTs land late.          *)
THEOREM QuotaKept == Spec => []QuotaNeverOvershot
  <1>1. Init => QuotaInv
    <2> SUFFICES ASSUME Init PROVE QuotaInv
      OBVIOUS
    <2>1. Kept = {} /\ Final = {} /\ Active = {} /\ sources = {} /\ urlSources = 0
      BY DEF Init, Kept, Final, Active, NoReservation
    <2> QED
      BY <2>1, SmallEmpty, ConstantsAssumption DEF QuotaInv
  <1>2. TypeOK /\ UploadInv /\ QuotaInv /\ [Next]_vars => QuotaInv'
    BY QuotaStep
  <1>3. TypeOK /\ UploadInv /\ QuotaInv => QuotaNeverOvershot
    BY QuotaBounds
  <1> QED
    BY <1>1, <1>2, <1>3, TypeCorrect, InvariantHolds, PTL DEF Spec

=============================================================================
