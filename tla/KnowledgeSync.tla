---------------------------- MODULE KnowledgeSync ----------------------------
(***************************************************************************)
(* Synchronisation of one knowledge source, from the API request to the    *)
(* parse obligation: start_source_sync stages a command in the outbox, the *)
(* outbox delivers it at least once (module OutboxDelivery), and the       *)
(* consumers of the worker processes fetch the content, store the raw      *)
(* object, and persist document and parse event; failures go through the   *)
(* retry topic to the dead-letter topic.                                   *)
(*                                                                         *)
(* The records of a source share a key, so each topic is one partition.  A *)
(* consumer commits or rewinds before it polls again, so its position is   *)
(* the committed offset: a partition is the queue of its records from that *)
(* offset on, and a commit removes the head.  Retry delays are untimed.    *)
(***************************************************************************)
EXTENDS Naturals, Sequences, FiniteSets

CONSTANTS
    Workers,      \* worker processes
    Contents,     \* bytes a fetch may return; a hash identifies them
    FileContent,  \* bytes of the uploaded object of a file source
    None,         \* no bytes
    SourceTypes,  \* types the source may have: "url", "file", "sitemap"
    MaxRetries,   \* len(_RETRY_DELAYS_SECONDS)
    MaxVersion,   \* bound on sync requests
    MaxCopies,    \* bound on copies of a command delivered by the outbox
    MaxFaults,    \* bound on crashes, rebalances and unacknowledged records
    LostAcks,     \* may the acknowledgement of a COMMIT be lost?
    LatePuts      \* may a PUT be applied after its worker stopped?

ASSUME SyncAssumption ==
    /\ FileContent \in Contents
    /\ None \notin Contents
    /\ SourceTypes \subseteq {"url", "file", "sitemap"}
    /\ MaxRetries \in Nat /\ MaxVersion \in Nat
    /\ MaxCopies \in Nat /\ MaxFaults \in Nat
    /\ LostAcks \in BOOLEAN /\ LatePuts \in BOOLEAN

Versions == 1..MaxVersion
Topics == {"sync", "retry"}

VARIABLES
    source,     \* the knowledge_sources row
    outbox,     \* status of the sync command of each version
    copies,     \* copies of it delivered so far
    documents,  \* content hashes of the knowledge_documents rows, by version
    parses,     \* content hashes of the parse events, by version
    raw,        \* the raw object of each version
    latePut,    \* PUTs of stopped workers that may still be applied
    queue,      \* records of each topic from the committed offset on
    dlq,        \* versions with a dead letter
    owner,      \* worker each partition is assigned to
    worker,     \* what each consumer is doing
    limbo,      \* unacknowledged records that may still arrive
    faults      \* faults so far

rows == <<source, outbox, documents, parses>>
broker == <<queue, dlq, owner, limbo>>
store == <<raw, latePut>>
vars == <<rows, copies, broker, store, worker, faults>>

Record(v, n) == [version |-> v, attempt |-> n]

Idle == [pc |-> "idle", topic |-> "sync", version |-> 0, attempt |-> 0, content |-> None]

PCs == {"idle", "load", "handoff", "fetch", "put", "persist", "mark", "retry", "dlq", "commit"}

TypeOK ==
    /\ source \in [type : SourceTypes, version : 0..MaxVersion,
                   status : {"pending", "syncing", "failed"}]
    /\ outbox \in [Versions -> {"none", "pending", "published"}]
    /\ copies \in [Versions -> 0..MaxCopies]
    /\ documents \in [Versions -> Seq(Contents)]
    /\ parses \in [Versions -> Seq(Contents)]
    /\ raw \in [Versions -> Contents \cup {None}]
    /\ latePut \subseteq Versions \X Contents
    /\ queue \in [Topics -> Seq([version : Versions, attempt : 0..MaxRetries])]
    /\ dlq \subseteq Versions
    /\ owner \in [Topics -> Workers]
    /\ worker \in [Workers -> [pc : PCs, topic : Topics, version : 0..MaxVersion,
                               attempt : 0..MaxRetries, content : Contents \cup {None}]]
    /\ limbo \subseteq (Topics \cup {"dlq"}) \X [version : Versions, attempt : 0..MaxRetries]
    /\ faults \in 0..MaxFaults

Init ==
    /\ source \in [type : SourceTypes, version : {0}, status : {"pending"}]
    /\ outbox = [v \in Versions |-> "none"]
    /\ copies = [v \in Versions |-> 0]
    /\ documents = [v \in Versions |-> <<>>]
    /\ parses = [v \in Versions |-> <<>>]
    /\ raw = [v \in Versions |-> None]
    /\ latePut = {}
    /\ queue = [t \in Topics |-> <<>>]
    /\ dlq = {}
    /\ owner \in [Topics -> Workers]
    /\ worker = [w \in Workers |-> Idle]
    /\ limbo = {}
    /\ faults = 0

-----------------------------------------------------------------------------
(* The API and the outbox.                                                 *)

(* Version, status and outbox event commit together under the row lock.    *)
start_source_sync ==
    /\ source.version < MaxVersion
    /\ source' = [source EXCEPT !.version = @ + 1, !.status = "syncing"]
    /\ outbox' = [outbox EXCEPT ![source.version + 1] = "pending"]
    /\ UNCHANGED <<documents, parses, copies, broker, store, worker, faults>>

(* OutboxDelivery!Deliver: copies repeat and overtake each other.          *)
Deliver(v) ==
    /\ outbox[v] = "pending" \/ copies[v] > 0
    /\ copies[v] < MaxCopies
    /\ copies' = [copies EXCEPT ![v] = @ + 1]
    /\ queue' = [queue EXCEPT !["sync"] = Append(@, Record(v, 0))]
    /\ UNCHANGED <<rows, dlq, owner, limbo, store, worker, faults>>

(* OutboxDelivery!Settle.                                                  *)
Settle(v) ==
    /\ outbox[v] = "pending" /\ copies[v] > 0
    /\ outbox' = [outbox EXCEPT ![v] = "published"]
    /\ UNCHANGED <<source, documents, parses, copies, broker, store, worker, faults>>

-----------------------------------------------------------------------------
(* run_knowledge_sync.                                                     *)

Stay == UNCHANGED <<rows, copies, broker, store, faults>>

At(w, label) == worker[w].pc = label

(* The result of the job decides what the consumer does with the record.   *)
Finish(w, label) == worker' = [worker EXCEPT ![w].pc = label, ![w].content = None]

FailTo(w, retryable) ==
    Finish(w, IF retryable /\ worker[w].attempt < MaxRetries THEN "retry" ELSE "mark")

Rewind(w) == worker' = [worker EXCEPT ![w] = Idle]

poll(w, t) ==
    /\ At(w, "idle")
    /\ owner[t] = w
    /\ queue[t] # <<>>
    /\ LET r == Head(queue[t])
       IN  worker' = [worker EXCEPT ![w] =
               [Idle EXCEPT !.pc = "load", !.topic = t,
                            !.version = r.version, !.attempt = r.attempt]]
    /\ Stay

(* VERSION_AHEAD is terminal, like an unsupported source type.             *)
load_source(w) ==
    /\ At(w, "load")
    /\ \/ worker[w].version < source.version /\ Finish(w, "commit")
       \/ /\ worker[w].version > source.version \/
                (worker[w].version = source.version /\ source.type = "sitemap")
          /\ FailTo(w, FALSE)
       \/ /\ worker[w].version = source.version /\ source.type # "sitemap"
          /\ worker' = [worker EXCEPT ![w].pc = "handoff"]
    /\ Stay

HandedOff(v) == documents[v] # <<>> /\ parses[v] # <<>>

completed_handoff_exists(w) ==
    /\ At(w, "handoff")
    /\ IF HandedOff(worker[w].version)
       THEN Finish(w, "commit")
       ELSE worker' = [worker EXCEPT ![w].pc = "fetch"]
    /\ Stay

(* A file keeps its bytes; a URL may return different ones every time.     *)
Fetchable == IF source.type = "url" THEN Contents ELSE {FileContent}

(* _fetch_content and _preflight_replay_mismatch: fetching touches no      *)
(* state, so both are one step.                                            *)
fetch_content(w) ==
    /\ At(w, "fetch")
    /\ \/ \E retryable \in BOOLEAN : FailTo(w, retryable \/ source.type = "file")
       \/ \E c \in Fetchable :
             LET found == documents[worker[w].version]
             IN  IF found # <<>> /\ Head(found) # c
                 THEN FailTo(w, FALSE)
                 ELSE worker' = [worker EXCEPT
                         ![w].pc = IF source.type = "url" THEN "put" ELSE "persist",
                         ![w].content = c]
    /\ Stay

put_bytes(w) ==
    /\ At(w, "put")
    /\ raw' = [raw EXCEPT ![worker[w].version] = worker[w].content]
    /\ worker' = [worker EXCEPT ![w].pc = "persist"]
    /\ UNCHANGED <<rows, copies, broker, latePut, faults>>

(* Mutant: the error of a failed PUT is swallowed.                         *)
PutErrorIgnored(w) ==
    /\ At(w, "put")
    /\ worker' = [worker EXCEPT ![w].pc = "persist"]
    /\ UNCHANGED <<rows, copies, broker, store, faults>>

(* ObjectStorageError: the PUT was applied, was not, or will be.           *)
put_raises(w) ==
    /\ At(w, "put")
    /\ FailTo(w, TRUE)
    /\ \/ UNCHANGED store
       \/ /\ raw' = [raw EXCEPT ![worker[w].version] = worker[w].content]
          /\ UNCHANGED latePut
       \/ /\ LatePuts
          /\ latePut' = latePut \cup {<<worker[w].version, worker[w].content>>}
          /\ UNCHANGED raw
    /\ UNCHANGED <<rows, copies, broker, faults>>

PutLands(v, c) ==
    /\ <<v, c>> \in latePut
    /\ latePut' = latePut \ {<<v, c>>}
    /\ raw' = [raw EXCEPT ![v] = c]
    /\ UNCHANGED <<rows, copies, broker, worker, faults>>

(* Mutant: an existing document of this version is not looked up.          *)
PersistAgain(w) ==
    LET v == worker[w].version
        c == worker[w].content
    IN  /\ documents' = [documents EXCEPT ![v] = Append(@, c)]
        /\ parses' = [parses EXCEPT ![v] = Append(@, c)]
        /\ source' = [source EXCEPT !.status = "syncing"]
        /\ UNCHANGED outbox

(* The rows written by the transaction, for the version the source is at.  *)
PersistRows(w) ==
    LET v == worker[w].version
        c == worker[w].content
    IN  /\ documents' = [documents EXCEPT ![v] = IF @ = <<>> THEN <<c>> ELSE @]
        /\ parses' = [parses EXCEPT ![v] = IF @ = <<>> THEN <<c>> ELSE @]
        /\ source' = [source EXCEPT !.status = "syncing"]
        /\ UNCHANGED outbox

(* One transaction under the source row lock.                              *)
persist_document_and_parse_event(w) ==
    LET v == worker[w].version
        mismatch == documents[v] # <<>> /\ Head(documents[v]) # worker[w].content
    IN  /\ At(w, "persist")
        /\ \/ v < source.version /\ Finish(w, "commit") /\ UNCHANGED rows
           \/ /\ v > source.version \/ (v = source.version /\ mismatch)
              /\ FailTo(w, FALSE) /\ UNCHANGED rows
           \/ v = source.version /\ ~mismatch /\ PersistRows(w) /\ Finish(w, "commit")
           \/ /\ LostAcks
              /\ v = source.version /\ ~mismatch /\ PersistRows(w) /\ FailTo(w, TRUE)
        /\ UNCHANGED <<copies, broker, store, faults>>

(* SQLAlchemyError in any read, or a rolled back persistence.              *)
DatabaseUnavailable(w) ==
    /\ worker[w].pc \in {"load", "handoff", "fetch", "persist"}
    /\ FailTo(w, TRUE)
    /\ Stay

-----------------------------------------------------------------------------
(* The consumer: what _handle_message does after a failure.                *)

Fault == faults < MaxFaults /\ faults' = faults + 1

(* A record that was produced but not acknowledged, or whose producer      *)
(* stopped, may still arrive.                                              *)
Unacknowledged(t, r) == Fault /\ limbo' = limbo \cup {<<t, r>>}

(* Mutant: the attempt header is copied, not incremented.                  *)
SameAttempt(w) == Record(worker[w].version, worker[w].attempt)

NextAttempt(w) == Record(worker[w].version, worker[w].attempt + 1)

DeadLetter(w) == Record(worker[w].version, worker[w].attempt)

(* Mutant: the failure update does not compare sync_version.               *)
FailureRowUnchecked(w) == source' = [source EXCEPT !.status = "failed"]

FailureRow(w) ==
    source' = IF source.version = worker[w].version
              THEN [source EXCEPT !.status = "failed"] ELSE source

MarkFailed(w) ==
    /\ At(w, "mark")
    /\ FailureRow(w)
    /\ Finish(w, "dlq")
    /\ UNCHANGED <<outbox, documents, parses, copies, broker, store, faults>>

(* Mutant: a failure that cannot be recorded is dead-lettered all the same.*)
MarkSkipped(w) ==
    /\ At(w, "mark")
    /\ Finish(w, IF worker[w].attempt < MaxRetries THEN "retry" ELSE "dlq")
    /\ UNCHANGED <<rows, copies, broker, store, faults>>

(* SQLAlchemyError: retry while retries are left, else rewind.             *)
MarkRaises(w) ==
    /\ At(w, "mark")
    /\ IF worker[w].attempt < MaxRetries THEN Finish(w, "retry") ELSE Rewind(w)
    /\ \/ UNCHANGED source
       \/ LostAcks /\ FailureRow(w)
    /\ UNCHANGED <<outbox, documents, parses, copies, broker, store, faults>>

publish_retry(w) ==
    /\ At(w, "retry")
    /\ queue' = [queue EXCEPT !["retry"] = Append(@, NextAttempt(w))]
    /\ Finish(w, "commit")
    /\ UNCHANGED <<rows, copies, dlq, owner, limbo, store, faults>>

publish_dlq(w) ==
    /\ At(w, "dlq")
    /\ dlq' = dlq \cup {worker[w].version}
    /\ Finish(w, "commit")
    /\ UNCHANGED <<rows, copies, queue, owner, limbo, store, faults>>

(* Mutant: a record whose dead letter was not acknowledged is committed.   *)
CommitAnyway(w) ==
    /\ worker[w].pc \in {"retry", "dlq"}
    /\ \/ UNCHANGED <<limbo, faults>>
       \/ At(w, "retry") /\ Unacknowledged("retry", NextAttempt(w))
       \/ At(w, "dlq") /\ Unacknowledged("dlq", DeadLetter(w))
    /\ Finish(w, "commit")
    /\ UNCHANGED <<rows, copies, queue, dlq, owner, store>>

(* BrokerUnavailableError: the consumed record is not committed.           *)
PublishRaises(w) ==
    /\ worker[w].pc \in {"retry", "dlq"}
    /\ \/ UNCHANGED <<limbo, faults>>
       \/ At(w, "retry") /\ Unacknowledged("retry", NextAttempt(w))
       \/ At(w, "dlq") /\ Unacknowledged("dlq", DeadLetter(w))
    /\ Rewind(w)
    /\ UNCHANGED <<rows, copies, queue, dlq, owner, store>>

(* An evicted consumer cannot commit: the error restarts its process.      *)
commit(w) ==
    /\ At(w, "commit")
    /\ LET t == worker[w].topic
       IN  IF owner[t] = w
           THEN queue' = [queue EXCEPT ![t] = Tail(@)]
           ELSE UNCHANGED queue
    /\ Rewind(w)
    /\ UNCHANGED <<rows, copies, dlq, owner, limbo, store, faults>>

-----------------------------------------------------------------------------
(* Faults.                                                                 *)

(* The process stops; a PUT or a publish under way may still take effect.  *)
Crash(w) ==
    /\ ~At(w, "idle")
    /\ \/ Fault /\ UNCHANGED <<limbo, latePut>>
       \/ At(w, "retry") /\ Unacknowledged("retry", NextAttempt(w)) /\ UNCHANGED latePut
       \/ At(w, "dlq") /\ Unacknowledged("dlq", DeadLetter(w)) /\ UNCHANGED latePut
       \/ /\ At(w, "put") /\ LatePuts /\ Fault
          /\ latePut' = latePut \cup {<<worker[w].version, worker[w].content>>}
          /\ UNCHANGED limbo
    /\ Rewind(w)
    /\ UNCHANGED <<rows, copies, queue, dlq, owner, raw>>

(* The group is rebalanced.  A consumer inside a handler does not poll, so *)
(* it is left out of the new assignment and goes on with its handler.      *)
Rebalance ==
    /\ Fault
    /\ owner' \in [Topics -> {w \in Workers : At(w, "idle")}]
    /\ owner' # owner
    /\ UNCHANGED <<rows, copies, queue, dlq, limbo, store, worker>>

LateRecord(t, r) ==
    /\ <<t, r>> \in limbo
    /\ limbo' = limbo \ {<<t, r>>}
    /\ \/ UNCHANGED <<queue, dlq>>
       \/ t = "dlq" /\ dlq' = dlq \cup {r.version} /\ UNCHANGED queue
       \/ t = "retry" /\ queue' = [queue EXCEPT ![t] = Append(@, r)] /\ UNCHANGED dlq
    /\ UNCHANGED <<rows, copies, owner, store, worker, faults>>

(* Nothing is left to do until the next request.                           *)
Quiescent ==
    /\ source.version = MaxVersion
    /\ \A v \in Versions : outbox[v] = "published"
    /\ \A t \in Topics : queue[t] = <<>>
    /\ \A w \in Workers : At(w, "idle")
    /\ UNCHANGED vars

SyncStep(w) ==
    \/ load_source(w)
    \/ completed_handoff_exists(w)
    \/ fetch_content(w)
    \/ put_bytes(w)
    \/ put_raises(w)
    \/ persist_document_and_parse_event(w)
    \/ DatabaseUnavailable(w)

HandlerStep(w) ==
    \/ SyncStep(w)
    \/ MarkFailed(w)
    \/ MarkRaises(w)
    \/ publish_retry(w)
    \/ publish_dlq(w)
    \/ PublishRaises(w)
    \/ commit(w)

Next ==
    \/ start_source_sync
    \/ Rebalance
    \/ Quiescent
    \/ \E v \in Versions : Deliver(v) \/ Settle(v)
    \/ \E w \in Workers :
          \/ \E t \in Topics : poll(w, t)
          \/ HandlerStep(w)
          \/ Crash(w)
    \/ \E put \in latePut : PutLands(put[1], put[2])
    \/ \E entry \in limbo : LateRecord(entry[1], entry[2])

(* The outbox delivers (OutboxPublisher!EventuallySettled), consumers keep *)
(* polling every partition and handlers return: every remote call has a    *)
(* time-out.  Broker and database may fail any number of times, but not    *)
(* for ever.                                                               *)
Fairness ==
    /\ \A v \in Versions : WF_vars(copies[v] = 0 /\ Deliver(v)) /\ WF_vars(Settle(v))
    /\ \A w \in Workers :
          /\ \A t \in Topics : SF_vars(poll(w, t))
          /\ WF_vars(HandlerStep(w))
          /\ SF_vars(MarkFailed(w))
          /\ SF_vars(publish_retry(w))
          /\ SF_vars(publish_dlq(w))

Spec == Init /\ [][Next]_vars /\ Fairness

-----------------------------------------------------------------------------
(* Properties.                                                             *)

Unconsumed(v) ==
    \E t \in Topics : \E i \in DOMAIN queue[t] : queue[t][i].version = v

(* The version a tenant asked for last is never silently dropped: its      *)
(* command is still in the outbox or in a topic, or it was handed to the   *)
(* parser, or the source shows the failure and a dead letter explains it.  *)
(* Commits, rewinds, retries, crashes and rebalances must all keep it.     *)
SyncNeverLost ==
    LET v == source.version
    IN  v > 0 => \/ outbox[v] = "pending"
                 \/ Unconsumed(v)
                 \/ HandedOff(v)
                 \/ source.status = "failed" /\ v \in dlq

(* Duplicate deliveries, concurrent workers and unacknowledged commits     *)
(* create one document and one parse event per version at most, together,  *)
(* and for the same bytes.                                                 *)
OneHandoffPerVersion ==
    \A v \in Versions : Len(documents[v]) <= 1 /\ parses[v] = documents[v]

(* The raw object a parse event points to holds the bytes whose hash the   *)
(* document records: a same-version replay with other bytes overwrites     *)
(* nothing.                                                                *)
RawMatchesDocument ==
    source.type = "url" =>
        \A v \in Versions : documents[v] # <<>> => raw[v] = Head(documents[v])

(* A failed source failed at its current version: the late failure of an   *)
(* older command never marks a newer sync that no worker has seen.         *)
FailureIsCurrent == source.status = "failed" => copies[source.version] > 0

(* Every requested version is handed to the parser, dead-lettered or       *)
(* superseded by a newer request.                                          *)
SyncResolves ==
    \A v \in Versions :
        source.version = v ~> (HandedOff(v) \/ v \in dlq \/ source.version > v)

=============================================================================
