--------------------------- MODULE KnowledgeUpload ---------------------------
(***************************************************************************)
(* The durable upload path of a knowledge file for one tenant: the request *)
(* handler of the API (admission, byte finalisation, cleanup intent, PUT,  *)
(* source commit, request-time cleanup), the quota rows it holds, and the  *)
(* reconciliation jobs that replay unresolved cleanup rows.                *)
(*                                                                         *)
(* One PostgreSQL transaction is one action.  A transaction either commits *)
(* and is acknowledged, or rolls back and raises, or (LostAcks) commits    *)
(* while the caller sees an exception.  Storage calls are separate steps.  *)
(* Deadlines are untimed: a lease or a retry deadline may pass at any      *)
(* moment after it was set, which covers every speed of the processes.     *)
(***************************************************************************)
EXTENDS Naturals, FiniteSets

CONSTANTS
    Uploads,           \* upload requests of the tenant
    Size,              \* validated byte size of each upload
    SourceLimit,       \* KNOWLEDGE_SOURCE_LIMIT
    ByteLimit,         \* KNOWLEDGE_STORED_BYTE_LIMIT
    ConcurrencyLimit,  \* KNOWLEDGE_CONCURRENT_UPLOAD_LIMIT
    MaxAttempts,       \* MAX_RECONCILIATION_ATTEMPTS
    LostAcks           \* may the acknowledgement of a COMMIT be lost?

ASSUME ConstantsAssumption ==
    /\ Size \in [Uploads -> Nat]
    /\ SourceLimit \in Nat
    /\ ByteLimit \in Nat
    /\ ConcurrencyLimit \in Nat
    /\ MaxAttempts \in Nat \ {0}
    /\ LostAcks \in BOOLEAN

VARIABLES
    pc,         \* where each request is
    confirmed,  \* uploads whose PUT has returned: put_outcome_confirmed
    resv,       \* knowledge_upload_reservations
    cleanup,    \* knowledge_upload_cleanups
    sources,    \* uploads with a file-backed row in knowledge_sources
    urlSources, \* number of URL and sitemap rows of knowledge_sources
    put,        \* the single PUT attempt of each upload, inside the store
    objects,    \* uploads whose raw object is visible in the bucket
    claim       \* reconciliation attempts in progress, by attempt number

rows == <<resv, cleanup, sources, urlSources>>
store == <<put, objects>>
vars == <<pc, confirmed, rows, store, claim>>

-----------------------------------------------------------------------------
(* Rows.  A reservation is "admitted" (zero bytes), "finalized" (exact     *)
(* bytes) or "linked" to a cleanup row.  retry abstracts next_attempt_at:  *)
(* in the future, passed, or NULL.                                         *)

Finished == {"done", "refused", "failed", "crashed"}

PCs == Finished \cup {"idle", "admitted", "finalized", "releasing", "bound",
                      "putting", "put_ok", "expire", "arm", "delete", "mark"}

NoReservation == [kind |-> "none", lease |-> "expired"]

Reservations ==
    [kind : {"none", "admitted", "finalized", "linked"}, lease : {"live", "expired"}]

Terminal == {"referenced", "succeeded", "exhausted"}

Errors == {"none", "PUT_OUTCOME_AMBIGUOUS", "OBJECT_STORAGE", "SOURCE_PERSISTENCE"}

Cleanups == [status : Terminal \cup {"none", "prepared", "pending"},
             attempts : 0..MaxAttempts,
             retry : {"waiting", "due", "never"},
             error : Errors]

Cleanup(st, n, r, e) == [status |-> st, attempts |-> n, retry |-> r, error |-> e]

ClaimStates == {"none", "head", "delete", "ambiguous", "storage_error", "deleted"}

TypeOK ==
    /\ pc \in [Uploads -> PCs]
    /\ confirmed \subseteq Uploads
    /\ resv \in [Uploads -> Reservations]
    /\ cleanup \in [Uploads -> Cleanups]
    /\ sources \subseteq Uploads
    /\ urlSources \in Nat
    /\ put \in [Uploads -> {"none", "inflight", "landed", "lost"}]
    /\ objects \subseteq Uploads
    /\ claim \in [Uploads -> [1..MaxAttempts -> ClaimStates]]

Init ==
    /\ pc = [u \in Uploads |-> "idle"]
    /\ confirmed = {}
    /\ resv = [u \in Uploads |-> NoReservation]
    /\ cleanup = [u \in Uploads |-> Cleanup("none", 0, "never", "none")]
    /\ sources = {}
    /\ urlSources = 0
    /\ put = [u \in Uploads |-> "none"]
    /\ objects = {}
    /\ claim = [u \in Uploads |-> [n \in 1..MaxAttempts |-> "none"]]

Unresolved(u) == cleanup[u].status \in {"prepared", "pending"}

Goto(u, label) == pc' = [pc EXCEPT ![u] = label]

-----------------------------------------------------------------------------
(* Quota usage: what get_knowledge_quota_usage sums.                       *)

(* The size of the files in S, all their bytes counted one by one.         *)
Bytes(S) == Cardinality(UNION {{u} \X (1..Size[u]) : u \in S})

Unlinked(u) == resv[u].kind \in {"admitted", "finalized"}

Held(u) == resv[u].kind = "linked" \/ (Unlinked(u) /\ resv[u].lease = "live")

Active == {u \in Uploads : resv[u].kind # "none" /\ resv[u].lease = "live"}

ChargedSources ==
    urlSources + Cardinality(sources)
               + Cardinality({u \in Uploads : Held(u)})

ChargedBytes ==
    Bytes(sources)
      + Bytes({u \in Uploads : Held(u) /\ resv[u].kind # "admitted"})

(* Mutant: expired reservations are ignored but not deleted.               *)
NothingReclaimed == resv

(* delete_expired_unlinked_upload_reservations, run by every quota         *)
(* transaction of the tenant.                                              *)
Reclaimed ==
    [u \in Uploads |-> IF Unlinked(u) /\ resv[u].lease = "expired" THEN NoReservation ELSE resv[u]]

-----------------------------------------------------------------------------
(* The request handler.                                                    *)

ReserveRows(u) ==
    /\ ChargedSources < SourceLimit
    /\ ChargedBytes <= ByteLimit
    /\ Cardinality(Active) < ConcurrencyLimit
    /\ resv' = [Reclaimed EXCEPT ![u] = [kind |-> "admitted", lease |-> "live"]]
    /\ UNCHANGED <<cleanup, sources, urlSources>>

(* Admission before the multipart body is parsed.  A refusal or an error   *)
(* rolls the whole transaction back; after an unacknowledged commit the    *)
(* router holds no admission and nobody releases the row.                  *)
reserve_file_upload(u) ==
    /\ pc[u] = "idle"
    /\ \/ ReserveRows(u) /\ Goto(u, "admitted")
       \/ Goto(u, "refused") /\ UNCHANGED rows
       \/ LostAcks /\ ReserveRows(u) /\ Goto(u, "refused")
    /\ UNCHANGED <<confirmed, store, claim>>

FinalizeRows(u) ==
    /\ resv[u] = [kind |-> "admitted", lease |-> "live"]
    /\ ChargedBytes + Size[u] <= ByteLimit
    /\ resv' = [Reclaimed EXCEPT ![u].kind = "finalized"]
    /\ UNCHANGED <<cleanup, sources, urlSources>>

(* Parsing, permission re-check, validation and byte finalisation.  Any    *)
(* failure up to here releases the admission.                              *)
finalize_file_upload_reservation(u) ==
    /\ pc[u] = "admitted"
    /\ \/ FinalizeRows(u) /\ Goto(u, "finalized")
       \/ Goto(u, "releasing") /\ UNCHANGED rows
       \/ LostAcks /\ FinalizeRows(u) /\ Goto(u, "releasing")
    /\ UNCHANGED <<confirmed, store, claim>>

(* Best effort: the DELETE may fail, and lease expiry remains the fallback.*)
release_unlinked_reservation(u) ==
    /\ pc[u] = "releasing"
    /\ Goto(u, "failed")
    /\ resv' \in {resv, [resv EXCEPT ![u] = NoReservation]}
    /\ UNCHANGED <<cleanup, sources, urlSources, confirmed, store, claim>>

BindRows(u) ==
    /\ resv[u].kind = "finalized"
    /\ resv' = [resv EXCEPT ![u].kind = "linked"]
    /\ cleanup' = [cleanup EXCEPT ![u] = Cleanup("prepared", 0, "waiting", "none")]
    /\ UNCHANGED <<sources, urlSources>>

(* Cleanup intent and reservation binding, one transaction before the PUT. *)
bind_upload_reservation_to_cleanup(u) ==
    /\ pc[u] = "finalized"
    /\ \/ BindRows(u) /\ Goto(u, "bound")
       \/ Goto(u, "releasing") /\ UNCHANGED rows
       \/ LostAcks /\ BindRows(u) /\ Goto(u, "releasing")
    /\ UNCHANGED <<confirmed, store, claim>>

put_object(u) ==
    /\ pc[u] = "bound"
    /\ Goto(u, "putting")
    /\ put' = [put EXCEPT ![u] = "inflight"]
    /\ UNCHANGED <<confirmed, rows, objects, claim>>

(* The store applies the single PUT attempt, at any time, or never.        *)
PutSettles(u) ==
    /\ put[u] = "inflight"
    /\ \/ /\ put' = [put EXCEPT ![u] = "landed"]
          /\ objects' = objects \cup {u}
       \/ /\ put' = [put EXCEPT ![u] = "lost"]
          /\ UNCHANGED objects
    /\ UNCHANGED <<pc, confirmed, rows, claim>>

PutReturns(u) ==
    /\ pc[u] = "putting"
    /\ put[u] = "landed"
    /\ Goto(u, "put_ok")
    /\ confirmed' = confirmed \cup {u}
    /\ UNCHANGED <<rows, store, claim>>

(* ObjectStorageError: the outcome stays ambiguous for the caller.         *)
PutRaises(u) ==
    /\ pc[u] = "putting"
    /\ Goto(u, "expire")
    /\ UNCHANGED <<confirmed, rows, store, claim>>

(* Mutant: the commit does not re-check that the row is still prepared.    *)
CommitUnchecked(u) ==
    /\ sources' = sources \cup {u}
    /\ cleanup' = [cleanup EXCEPT ![u] =
                     Cleanup("referenced", cleanup[u].attempts, "never", "none")]
    /\ resv' = [resv EXCEPT ![u] = NoReservation]
    /\ UNCHANGED urlSources

CommitRows(u) ==
    /\ cleanup[u].status = "prepared"
    /\ sources' = sources \cup {u}
    /\ cleanup' = [cleanup EXCEPT ![u] =
                     Cleanup("referenced", cleanup[u].attempts, "never", "none")]
    /\ resv' = [resv EXCEPT ![u] = NoReservation]
    /\ UNCHANGED urlSources

(* The source row, the "referenced" mark and the release of the quota hold *)
(* commit together, and only while the cleanup row is still prepared.      *)
create_file_source(u) ==
    /\ pc[u] = "put_ok"
    /\ \/ CommitRows(u) /\ Goto(u, "done")
       \/ Goto(u, "expire") /\ UNCHANGED rows
       \/ LostAcks /\ CommitRows(u) /\ Goto(u, "expire")
    /\ UNCHANGED <<confirmed, store, claim>>

-----------------------------------------------------------------------------
(* _best_effort_failed_upload_cleanup, one step per transaction or storage *)
(* call.  Every step may fail without stopping the next one.               *)

expire_upload_concurrency_lease(u) ==
    /\ pc[u] = "expire"
    /\ Goto(u, IF u \in confirmed THEN "arm" ELSE "delete")
    /\ \/ UNCHANGED resv
       \/ /\ resv[u].kind = "linked"
          /\ resv' = [resv EXCEPT ![u].lease = "expired"]
    /\ UNCHANGED <<cleanup, sources, urlSources, confirmed, store, claim>>

arm_upload_cleanup(u) ==
    /\ pc[u] = "arm"
    /\ Goto(u, "delete")
    /\ \/ UNCHANGED cleanup
       \/ /\ Unresolved(u)
          /\ cleanup' = [cleanup EXCEPT ![u] =
               Cleanup("pending", cleanup[u].attempts, "waiting", "SOURCE_PERSISTENCE")]
    /\ UNCHANGED <<resv, sources, urlSources, confirmed, store, claim>>

(* The DELETE is issued whatever the cleanup row says by now.              *)
InlineDelete(u) ==
    /\ pc[u] = "delete"
    /\ \/ /\ objects' = objects \ {u}
          /\ Goto(u, IF u \in confirmed THEN "mark" ELSE "failed")
       \/ /\ objects' \in {objects, objects \ {u}}
          /\ Goto(u, "failed")
    /\ UNCHANGED <<confirmed, rows, put, claim>>

SucceedRows(u) ==
    /\ cleanup' = [cleanup EXCEPT ![u] =
                     Cleanup("succeeded", cleanup[u].attempts, "never", "none")]
    /\ resv' = [resv EXCEPT ![u] = IF @.kind = "linked" THEN NoReservation ELSE @]

mark_inline_cleanup_succeeded(u) ==
    /\ pc[u] = "mark"
    /\ Goto(u, "failed")
    /\ \/ UNCHANGED <<cleanup, resv>>
       \/ cleanup[u].status \notin {"referenced", "exhausted"} /\ SucceedRows(u)
    /\ UNCHANGED <<sources, urlSources, confirmed, store, claim>>

(* The API process dies or the request is cancelled; a PUT already sent    *)
(* may still land.                                                         *)
RequestCrash(u) ==
    /\ pc[u] \notin Finished \cup {"idle"}
    /\ Goto(u, "crashed")
    /\ UNCHANGED <<confirmed, rows, store, claim>>

(* A URL or sitemap source shares the source quota.                        *)
create_source ==
    /\ ChargedSources < SourceLimit
    /\ urlSources' = urlSources + 1
    /\ resv' = Reclaimed
    /\ UNCHANGED <<pc, confirmed, cleanup, sources, store, claim>>

-----------------------------------------------------------------------------
(* Reconciliation.  Any number of workers run; each claim consumes one     *)
(* attempt number, which identifies it from then on.                       *)

(* Mutant: an ambiguous PUT is deleted without looking for the object.     *)
PresenceAssumed(u) == FALSE

RequiresPresence(u) ==
    \/ cleanup[u].status = "prepared"
    \/ cleanup[u].error = "PUT_OUTCOME_AMBIGUOUS"

ExhaustRow(u, error) ==
    cleanup' = [cleanup EXCEPT ![u] =
                  Cleanup("exhausted", cleanup[u].attempts, "never", error)]

(* Mutant: the attempt is not consumed when the row is claimed.            *)
ClaimFree(u) ==
    cleanup' = [cleanup EXCEPT ![u] =
        Cleanup("pending", @.attempts, "waiting",
                IF @.status = "prepared" /\ @.error = "none"
                THEN "PUT_OUTCOME_AMBIGUOUS" ELSE @.error)]

(* The row after a claim: the advanced deadline is the lease.              *)
ClaimRow(u) ==
    cleanup' = [cleanup EXCEPT ![u] =
        Cleanup("pending", @.attempts + 1, "waiting",
                IF @.status = "prepared" /\ @.error = "none"
                THEN "PUT_OUTCOME_AMBIGUOUS" ELSE @.error)]

claim_due_batch(u) ==
    /\ Unresolved(u)
    /\ cleanup[u].retry = "due"
    /\ \/ /\ cleanup[u].attempts >= MaxAttempts
          /\ ExhaustRow(u, IF cleanup[u].error = "none"
                           THEN "OBJECT_STORAGE" ELSE cleanup[u].error)
          /\ UNCHANGED claim
       \/ /\ cleanup[u].attempts < MaxAttempts
          /\ ClaimRow(u)
          /\ claim' = [claim EXCEPT ![u][cleanup[u].attempts + 1] =
                         IF RequiresPresence(u) THEN "head" ELSE "delete"]
    /\ UNCHANGED <<pc, confirmed, resv, sources, urlSources, store>>

(* storage.exists: absence and an error are recorded alike.                *)
ClaimHead(u, n) ==
    /\ claim[u][n] = "head"
    /\ \/ u \in objects /\ claim' = [claim EXCEPT ![u][n] = "delete"]
       \/ claim' = [claim EXCEPT ![u][n] = "ambiguous"]
    /\ UNCHANGED <<pc, confirmed, rows, store>>

(* storage.delete_object: an error may hide a DELETE that was applied.     *)
ClaimDelete(u, n) ==
    /\ claim[u][n] = "delete"
    /\ \/ /\ objects' = objects \ {u}
          /\ claim' = [claim EXCEPT ![u][n] = "deleted"]
       \/ /\ objects' \in {objects, objects \ {u}}
          /\ claim' = [claim EXCEPT ![u][n] = "storage_error"]
    /\ UNCHANGED <<pc, confirmed, rows, put>>

(* The row is judged by its own attempt count, not by the claim's.         *)
record_failed_attempt(u, n) ==
    /\ claim[u][n] \in {"ambiguous", "storage_error"}
    /\ claim' = [claim EXCEPT ![u][n] = "none"]
    /\ LET error == IF claim[u][n] = "ambiguous"
                    THEN "PUT_OUTCOME_AMBIGUOUS" ELSE "OBJECT_STORAGE"
       IN  \/ cleanup[u].status = "exhausted" /\ UNCHANGED <<cleanup, resv>>
           \/ /\ cleanup[u].status \in {"referenced", "succeeded"}
              /\ resv' = [resv EXCEPT ![u] = IF @.kind = "linked" THEN NoReservation ELSE @]
              /\ UNCHANGED cleanup
           \/ /\ cleanup[u].status = "pending"
              /\ IF cleanup[u].attempts >= MaxAttempts
                 THEN ExhaustRow(u, error)
                 ELSE cleanup' = [cleanup EXCEPT ![u].error = error]
              /\ UNCHANGED resv
    /\ UNCHANGED <<pc, confirmed, sources, urlSources, store>>

(* Mutant: a late success revives an exhausted row.                        *)
SuccessAfterExhaustion(u, n) ==
    /\ claim[u][n] = "deleted"
    /\ claim' = [claim EXCEPT ![u][n] = "none"]
    /\ SucceedRows(u)
    /\ UNCHANGED <<pc, confirmed, sources, urlSources, store>>

record_success(u, n) ==
    /\ claim[u][n] = "deleted"
    /\ claim' = [claim EXCEPT ![u][n] = "none"]
    /\ \/ cleanup[u].status = "exhausted" /\ UNCHANGED <<cleanup, resv>>
       \/ cleanup[u].status \in {"pending", "succeeded"} /\ SucceedRows(u)
    /\ UNCHANGED <<pc, confirmed, sources, urlSources, store>>

(* The worker dies, is cancelled, or its transaction raises.               *)
ClaimDropped(u, n) ==
    /\ claim[u][n] # "none"
    /\ claim' = [claim EXCEPT ![u][n] = "none"]
    /\ UNCHANGED <<pc, confirmed, rows, store>>

-----------------------------------------------------------------------------
(* Time.                                                                   *)

LeaseExpires(u) ==
    /\ resv[u].lease = "live"
    /\ resv' = [resv EXCEPT ![u].lease = "expired"]
    /\ UNCHANGED <<pc, confirmed, cleanup, sources, urlSources, store, claim>>

DeadlinePasses(u) ==
    /\ Unresolved(u)
    /\ cleanup[u].retry = "waiting"
    /\ cleanup' = [cleanup EXCEPT ![u].retry = "due"]
    /\ UNCHANGED <<pc, confirmed, resv, sources, urlSources, store, claim>>

(* Nothing is left to do until another request arrives.                    *)
Quiescent ==
    /\ \A u \in Uploads :
          /\ pc[u] \in Finished
          /\ ~Unresolved(u)
          /\ resv[u].lease = "expired"
          /\ put[u] # "inflight"
          /\ \A n \in 1..MaxAttempts : claim[u][n] = "none"
    /\ UNCHANGED vars

RequestStep(u) ==
    \/ reserve_file_upload(u)
    \/ finalize_file_upload_reservation(u)
    \/ release_unlinked_reservation(u)
    \/ bind_upload_reservation_to_cleanup(u)
    \/ put_object(u)
    \/ PutReturns(u)
    \/ PutRaises(u)
    \/ create_file_source(u)
    \/ expire_upload_concurrency_lease(u)
    \/ arm_upload_cleanup(u)
    \/ InlineDelete(u)
    \/ mark_inline_cleanup_succeeded(u)

ClaimStep(u, n) ==
    \/ ClaimHead(u, n)
    \/ ClaimDelete(u, n)
    \/ record_failed_attempt(u, n)
    \/ record_success(u, n)
    \/ ClaimDropped(u, n)

Next ==
    \/ create_source
    \/ Quiescent
    \/ \E u \in Uploads :
          \/ RequestStep(u)
          \/ RequestCrash(u)
          \/ PutSettles(u)
          \/ claim_due_batch(u)
          \/ LeaseExpires(u)
          \/ DeadlinePasses(u)
          \/ \E n \in 1..MaxAttempts : ClaimStep(u, n)

(* Clocks advance and the worker's cleanup loop, which survives every      *)
(* exception, keeps polling.  Nothing is assumed of requests, of the store *)
(* or of a claim in progress.                                              *)
Fairness ==
    \A u \in Uploads :
        /\ WF_vars(DeadlinePasses(u))
        /\ WF_vars(claim_due_batch(u))

Spec == Init /\ [][Next]_vars /\ Fairness

-----------------------------------------------------------------------------
(* Properties.                                                             *)

KeepsResolution(u) ==
    /\ cleanup[u].status \in Terminal => cleanup'[u].status = cleanup[u].status
    /\ cleanup'[u].attempts >= cleanup[u].attempts
    /\ u \in sources => u \in sources'

(* A committed file source keeps its raw object: neither the request's own *)
(* failure path nor a reconciliation attempt, however late, deletes it.    *)
(* create_file_source commits only a prepared row and a claim takes only   *)
(* an unresolved one.                                                      *)
ReferencedObjectKept ==
    \A u \in Uploads : u \in sources => cleanup[u].status = "referenced" /\ u \in objects

(* An object without a source, or a PUT that may still create one, is      *)
(* remembered by an unresolved or operator-visible cleanup row and is      *)
(* still charged by a linked reservation.  In particular "succeeded" is    *)
(* never recorded while the PUT could land afterwards.                     *)
OrphanStaysCharged ==
    \A u \in Uploads :
        (u \in objects \/ put[u] = "inflight") /\ u \notin sources
            => /\ resv[u].kind = "linked"
               /\ cleanup[u].status \in {"prepared", "pending", "exhausted"}

(* The tenant is never charged above a limit, although leases expire, a    *)
(* reservation can be bound after its lease expired, and rejected quota    *)
(* transactions roll their reclaim back.  The bytes really present in the  *)
(* bucket, orphans and late PUTs included, stay within the byte quota too. *)
QuotaNeverOvershot ==
    /\ ChargedSources <= SourceLimit
    /\ ChargedBytes <= ByteLimit
    /\ Cardinality(Active) <= ConcurrencyLimit
    /\ Bytes(objects) <= ByteLimit

(* A cleanup row that reached referenced or succeeded holds no quota: the  *)
(* reservation is released by the transaction that resolves the row.       *)
ResolvedHoldsNothing ==
    \A u \in Uploads :
        cleanup[u].status \in {"referenced", "succeeded"} => resv[u].kind # "linked"

(* referenced, succeeded and exhausted are final, attempts are never given *)
(* back and a source row never disappears, whatever stale claim or request *)
(* step comes late.                                                        *)
ResolutionIsFinal == [][\A u \in Uploads : KeepsResolution(u)]_vars

(* The inductive invariant behind the safety properties above.  Request:   *)
(* what each request stage knows.  Row: what a cleanup status says of the  *)
(* store and the reservation.  Claim: a reconciliation attempt exists only *)
(* for a row that no request can still commit, and passes the presence     *)
(* check only after the PUT has landed.                                    *)
RequestInv(u) ==
    /\ pc[u] \in {"idle", "refused", "admitted", "finalized", "releasing", "bound"}
          => put[u] = "none"
    /\ pc[u] \in {"idle", "admitted", "finalized"} => cleanup[u].status = "none"
    /\ pc[u] = "bound" => /\ resv[u].kind = "linked"
                          /\ cleanup[u].status \in {"prepared", "pending", "exhausted"}
    /\ pc[u] \in {"put_ok", "arm", "mark", "done"} => u \in confirmed
    /\ u \in confirmed => put[u] = "landed"
    /\ pc[u] = "mark" => u \notin objects
    /\ pc[u] \in {"putting", "put_ok"} /\ put[u] = "landed"
          /\ cleanup[u].status = "prepared" => u \in objects

RowInv(u) ==
    /\ u \in sources <=> cleanup[u].status = "referenced"
    /\ u \in objects => put[u] = "landed"
    /\ put[u] # "none" => cleanup[u].status # "none"
    /\ put[u] # "none" /\ cleanup[u].status \in {"prepared", "pending", "exhausted"}
          => resv[u].kind = "linked"
    /\ cleanup[u].status \in {"referenced", "succeeded"} => resv[u].kind # "linked"
    /\ cleanup[u].status = "succeeded" => put[u] = "landed" /\ u \notin objects
    /\ cleanup[u].status = "none" => cleanup[u].attempts = 0
    /\ cleanup[u].status = "prepared" => cleanup[u].error = "none"
    /\ cleanup[u].status = "pending" =>
          /\ cleanup[u].error # "none"
          /\ cleanup[u].error # "PUT_OUTCOME_AMBIGUOUS" => put[u] = "landed"

ClaimInv(u) ==
    \A n \in 1..MaxAttempts :
        /\ claim[u][n] # "none" => cleanup[u].status \in {"pending", "succeeded", "exhausted"}
        /\ claim[u][n] \in {"delete", "storage_error", "deleted"} => put[u] = "landed"
        /\ claim[u][n] = "deleted" => u \notin objects

UploadInv == \A u \in Uploads : RequestInv(u) /\ RowInv(u) /\ ClaimInv(u)

(* With acknowledged commits, a committed source ends its request, so no   *)
(* request-time cleanup follows the commit.                                *)
AckInv == \A u \in Uploads : u \in sources => pc[u] = "done" /\ u \in objects

(* Every linked hold ends: by the source commit, by a confirmed delete, or *)
(* as an exhausted row that an operator sees.  The retry budget and the    *)
(* advancing deadline guarantee it even if every claim is dropped.         *)
HoldsResolve ==
    \A u \in Uploads :
        resv[u].kind = "linked"
            ~> (resv[u].kind = "none" \/ cleanup[u].status = "exhausted")

=============================================================================
