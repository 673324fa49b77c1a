# Serviq verification project

TLA+ models of Serviq's services: what must survive crashes, retries, lost
acknowledgements and concurrent requests, and the algorithms whose boundaries are
easy to get wrong. TLC checks the models on small instances; TLAPS proves the main
results for every value of the constants.

## 1. The system

Serviq is a multi-tenant support platform. Three Python services run beside
PostgreSQL (READ COMMITTED), Valkey, an S3-compatible store and a
Kafka-compatible broker.

| Part | Where | State it owns | Why it is hard |
| --- | --- | --- | --- |
| knowledge upload | `services/api/app/modules/knowledge` | source, reservation and cleanup rows, one object per upload | a database and an object store without a common transaction |
| upload cleanup | `knowledge/cleanup.py`, `services/worker/app/jobs/knowledge_upload_cleanup.py` | cleanup rows | several workers, stale attempts, late PUTs |
| knowledge quota | `knowledge/quota.py` | reservations and their leases | leases expire while uploads are still running |
| source sync request | `knowledge/service.py` | `sync_version`, outbox rows | version and event must commit together |
| outbox publisher | `services/worker/app/jobs/outbox_publisher.py` | outbox rows, broker topics | crash between acknowledgement and commit |
| sync consumer and job | `services/worker/app/consumers`, `services/worker/app/jobs/knowledge_sync.py` | offsets, retry and dead-letter topics, documents, parse events, raw objects | at-least-once delivery, rebalancing, mutable URL content |
| public fetch | `services/worker/app/core/public_knowledge_fetch.py` | one connection at a time | each redirect makes the earlier checks stale |
| normalisation, chunking | `services/worker/app/core` | none (pure) | parser state, boundary arithmetic |
| sessions, login state | `services/api/app/core/session.py`, `modules/auth` | Valkey keys, user rows | one-time tokens, expiry, reads before writes |
| rate limits | `services/api/app/core/rate_limits.py` | Valkey counters | two counters consumed together, fixed windows |
| providers and secrets | `modules/providers`, `core/secret_store.py` | rows and encrypted secrets | row and secret change in separate steps |
| invitations, members, organisations, tenancy | `modules/*` | membership and invitation rows | concurrent accept, revoke and demotion; lock order |
| llm gateway | `services/llm-gateway` | none between calls | streams that break, four error vocabularies |
| web applications, packages | `apps`, `packages` | none | page shells and types |

`PROJECT.json` lists every part with its status, and every hazard with the line
where it bites.

## 2. Modules

| Module | Models |
| --- | --- |
| `KnowledgeUpload` | the upload request, its quota rows, request-time cleanup and the reconciliation workers, for one tenant |
| `OutboxDelivery` | the abstract promise of the outbox: at-least-once delivery |
| `OutboxPublisher` | the publisher loops of any number of workers |
| `KnowledgeSync` | sync requests, delivery, consumers, retries, dead letters and persistence, for one source |
| `Memberships` | organisation creation, invitations and member updates of one organisation |
| `Providers` | provider connections, secrets, connectivity results and model configurations of one tenant |
| `Sessions` | login state, callback, user upsert, sessions, tenant switch and logout |
| `RateLimits` | the fixed-window counters of connectivity tests and uploads |
| `Gateway` | HTTP boundary, embeddings route and the four provider adapters |
| `ConnectivityTest` | composition: a connectivity test through `RateLimits`, HTTP and `Gateway` |
| `KnowledgeNormalization` | text, Markdown, PDF and HTML to blocks and segments |
| `KnowledgeChunking` | segments to heading groups, token windows and provenance |
| `PublicFetch` | one fetch with its redirects |
| `KnowledgeContent` | composition: the content libraries of the worker |
| `*Proofs` | theorems about `KnowledgeUpload`, `OutboxPublisher`, `KnowledgeSync`, `Memberships`, `Providers`, `Sessions`, `PublicFetch`, `ConnectivityTest` (and with it `RateLimits` and `Gateway`) |
| `MC*` | constants of the TLC runs |

Definitions whose comment begins with "Mutant" are broken variants of the
definition that follows them; each shows that a property can fail. No
specification uses them.

### KnowledgeUpload

One PostgreSQL transaction is one action, because every quota transaction holds
the organisation row lock and every cleanup transition holds the row lock. A
storage call is a step of its own. `pc[u]` follows `create_file_source` and its
router: admission before the body is parsed (`reserve_file_upload`), byte
finalisation, cleanup intent bound to the reservation, the single PUT, the source
commit, and the four steps of `_best_effort_failed_upload_cleanup`, each of which
may fail on its own. `claim[u][n]` is reconciliation attempt `n`, from its claim to
its recording; all attempts of a row may be in progress at the same time, because
a lease that has passed does not stop the worker that held it.

Time is abstract. A lease or deadline may pass at any moment after it was set,
which covers every relative speed of processes and clocks.

`put` and `objects` are the store: the PUT of an upload is applied at any time
after it was sent, or never, also after its request has given up or died.
`LostAcks` adds commits that are applied although the caller sees an exception.

Left out: the storage-key comparison of a claim (both keys derive from the same
row), unknown legacy file sizes, and the API's own sweep, which makes the same row
transitions as the worker and is called only from tests.

### OutboxDelivery and OutboxPublisher

`OutboxDelivery` says only what a consumer of the outbox may rely on: a row leaves
`pending` after the broker holds a copy. `OutboxPublisher` has the row locks
(`batch`), the uncommitted updates of the open transaction (`mark`), the broker
(`topic`) and unacknowledged records that may still arrive (`late`). A batch is
published row by row and committed as a whole; a crash rolls it back. The number of
attempts is left out: it only determines the length of an untimed delay. The
refinement mapping (`Delivery`) keeps `status` and maps `delivered` to `topic`.

### KnowledgeSync

`start_source_sync` raises the version and stages the command. `Deliver` and
`Settle` are the actions of `OutboxDelivery` for that command, so the composition
rests on the refinement proved for the publisher. A worker then goes through the
reads and writes of `run_knowledge_sync` one by one: `load`, `handoff`, `fetch`
(which includes the preflight read), `put`, `persist`. Failures go to `retry` or to
`mark` and `dlq`, as in `_handle_message`.

A consumer commits or rewinds each record before it polls again, so its position is
always the committed offset. The model therefore keeps only the records from that
offset on; committing removes the head, if the worker still owns the partition. A
rebalance assigns the partitions to workers that are polling. A worker inside a
handler is left out of the group, finishes its handler, and fails when it commits.

Left out: records that are no valid commands (all producers of the topics are
modelled), missing and disabled sources (no code deletes or disables one), and
the length of retry delays.

### Memberships

A request is one READ COMMITTED transaction of several statements. The variables
hold committed rows; `seen` is what a request has read, deleted or inserted and not
committed. Row locks follow from `pc` and are listed in the module's header,
including the ones nobody wrote down: the foreign-key locks of inserted rows. A
lock that is held blocks the step; PostgreSQL's deadlock detector is an action that
rolls one of the waiters back. An invitation may expire at any time. An acceptance
writes the status only of a member it has read as suspended, as the code does; that
an active one stays active until the commit is due to the lock on the membership.

### Providers

A request is a sequence of short transactions with secret-store calls between
them. A transaction that locks a connection row is two steps, the locked read and
the commit. Secret removals fail, requests crash between any two steps, and a
COMMIT may be applied without an answer. `evidence` remembers what the gateway said
of each key, `excused` and `unacked` the secrets that were given up knowingly.

### Sessions

Every Valkey command is an action and can fail before, or lose its answer after, it
took effect. A key with a time to live is its number of remaining ticks. The user
upsert is a read, an insertion and a second read after a conflict; memberships come
and go beside it.

### RateLimits, Gateway and ConnectivityTest

`check_and_consume` is the Lua script: all counters are checked, then all consumed,
in one step. TTL answers in rounded seconds, so a second has several ticks.

`Gateway` serves one call at a time, because calls share no state. The provider
answers, sends chunks in any order, stops early or fails at any point; the consumer
of a stream may stop listening. What each SDK raises is a record of kind, status
and type, and each adapter's `_normalize_*_error` is translated condition by
condition. A text is one of two fragments, which together are the one JSON object. A
chunk has one choice at most; text beside the error of a chunk is dropped with it, as
in the code, and `sent` holds only the chunks that were taken.

`ConnectivityTest` conjoins both: limits, POST with a time-out, boundary, adapter,
outcome, status. That the connection changes meanwhile is the subject of
`Providers`.

### KnowledgeNormalization, KnowledgeChunking, PublicFetch and KnowledgeContent

A document is fed one line, page break or parser event at a time, so that the run
covers every document up to the bound. What a regular expression makes of a line
(`raw`, `clean`, heading rank, fence) is part of the line. Splitting, limits,
grouping and windows are translated as the code does them, in one pass with a
deque and an index that only moves forward; the properties compare them with
definitions over the whole document.

`PublicFetch` has one action for each thing the code waits for: resolver,
connection, headers, each read of the body. The resolver and the servers may answer
anything at every hop, including a `Location` that `urljoin` cannot parse. Nothing in
the worker passes fetched bytes to the normaliser
yet, so `KnowledgeContent` puts the two side by side and does not connect them.

## 3. Runs

| Run | Instance | Checks |
| --- | --- | --- |
| `upload_one` | one upload, three overlapping attempts | `ReferencedObjectKept`, `OrphanStaysCharged`, `ResolutionIsFinal`, `HoldsResolve` |
| `upload_two` | two uploads and URL sources, limits they cannot share, commits without acknowledgement | `QuotaNeverOvershot` |
| `upload_unacknowledged_commit` | one upload, commits without acknowledgement | violation of `ReferencedObjectKept` |
| `outbox` | two workers, two good rows, one malformed, one crash | `PublisherInv`, `ImplementsDelivery`, `EventuallySettled` |
| `sync_one` | one worker, all source types, two versions, one fault | `RawMatchesDocument`, `FailureIsCurrent`, `SyncResolves` |
| `sync_two` | two workers, one version, two copies, two faults, late PUTs, lost acknowledgements | `SyncNeverLost`, `OneHandoffPerVersion` |
| `sync_overwrite` | two workers, one version, two copies, no fault | violation of `RawMatchesDocument` |
| `members` | two users, one invitation, two concurrent requests of any kind | `HasActiveOwner`, `AcceptanceComplete`, `UsedOnce`, `UpdateByManager`, `EveryRequestAnswered` |
| `providers` | one connection, three keys, one model, two concurrent requests | `SecretsMatchRows`, `StatusOfOwnKey`, `ModelNeedsActiveProvider` |
| `sessions` | two login states, sessions and user rows for one identity, two concurrent requests | `LoginsAgree`, `TenantWasMember`, `NoRevival`, `SessionEnds` |
| `gateway` | a user, a connection, three limits; every direct call of the four adapters with up to three chunks | `BudgetKept`, `WindowsHonest`, `LimitReopens`, `StreamFaithful`, `ClientReleased`, `ErrorsClassified`, `BodyBounded`, `StatusProven`, `TestAnswered` |
| `content` | documents of up to four lines or six HTML events; fetches with up to two redirects | `SourceLocated`, `VisibleText`, `SegmentsExact`, `ChunkingExact`, `FetchChecked`, `FetchEnds` |

What the properties mean is stated above each of them in the modules. `TypeOK` of a
module gives the types of its variables. It is proved for `KnowledgeUpload`,
`OutboxPublisher`, `Memberships`, `Providers` and `Sessions`; for the other modules
it can be added to the INVARIANTS of their run.

**Bounds.** Three attempts is the code's own `MAX_RECONCILIATION_ATTEMPTS`: a first,
a middle and a last attempt overlap in every order. With two competing uploads one
attempt suffices, since attempts of different uploads touch different rows.
Limits are chosen so that the source and the byte quota each are the binding one in some
state; the limit on concurrent uploads does not bind two uploads and rests on the
theorem `QuotaKept`. Two copies of a command and two workers are what a race on one version
needs; two versions are what superseding needs; one retry exercises both "retries
left" and "retries spent" (the code has three). `MaxFaults` bounds crashes,
rebalances and unacknowledged records together.

Two concurrent requests are what each known race of `members`, `providers` and
`sessions` needs; requests follow one another without bound. In `members` an update
grants or takes away the admin role of an owner, which is what can race with an
acceptance while there is one owner, or suspends a member. Three keys allow two
rotations; `MCBound` allows one once a model is involved, because models never look
at a key. The three limits of `gateway` have different windows and sizes, so either
counter of a test can be the one that refuses. Three chunks hold text, end and
usage in any order. In `content`, segments of four characters and lines of up to
six make splitting happen at a blank, at the limit and inside a word; three tokens
with an overlap of one and at most three chunks make every window boundary and the
chunk limit happen. HTML tags include one of each role (scope, title, heading,
text, line break, ignored); `main` behaves as `article` and is left to the
definitions. Symmetry is used only in runs whose properties are safety properties.

**Deadlock** is checked except in `gateway` and `content`, where a direct call or a
library call ends and nothing follows.

**Fairness.**

* `KnowledgeUpload`: clocks advance and the cleanup loop keeps polling
  (`run_knowledge_upload_cleanup_loop` catches every exception). Nothing is assumed
  of requests, of the store or of an attempt in progress.
* `OutboxPublisher`, `KnowledgeSync`: in addition a worker which stops is
  restarted, handlers return because each remote call has a time-out, and broker
  and database do not stay unavailable for ever (strong fairness of the successful
  publish and of the failure update). Crashes are bounded: a worker that dies in
  every batch publishes nothing.
* `Memberships`: each request is served to its end, and PostgreSQL queues the
  waiters for a row in order of arrival (strong fairness of a request's step).
* `Sessions`: time passes.
* `ConnectivityTest`: time passes, and httpx enforces its time-out. The gateway, the
  provider and the callers owe nothing.
* `KnowledgeContent`: the steps of a fetch, since connecting, sending and reading have
  the policy's time-out; name resolution has only the resolver's own.

## 4. Proofs

`KnowledgeUploadProofs` (assumption: `ConstantsAssumption`, types of the limits):

* `TypeCorrect` and `InvariantHolds`. No safety property of the upload is
  inductive by itself. `UploadInv` adds what each request stage knows of its PUT
  and its row (`RequestInv`), what each row status says of the store and of the
  reservation (`RowInv`), and that an attempt exists only for a row that no request
  can still commit and passes the presence check only after the PUT has landed
  (`ClaimInv`). The last point is the heart of the argument: a row whose PUT may
  still land carries `PUT_OUTCOME_AMBIGUOUS`, and only seeing the object
  removes the ambiguity, so `succeeded` cannot be recorded too early.
* `OrphansAreCharged`, `ResolvedReleases` follow from it, with lost
  acknowledgements.
* `SourcesKeepObjects` needs acknowledged commits and one more invariant, `AckInv`:
  a request that has committed its source is done.
* `ResolutionsAreFinal` is an action property proved from the same invariant.
* `QuotaKept`, for any uploads (also infinitely many), sizes and limits, with lost
  acknowledgements. `QuotaNeverOvershot` is not inductive: it counts a reservation
  only while its lease is live, yet the request of an expired one may still bind it.
  `QuotaInv` counts every reservation row that exists, expired or not, and all bytes
  that were finalised. Each quota transaction deletes the expired rows before it adds
  its own, so what it checked is what `QuotaInv` counts afterwards; all other steps
  take charges away, or move one upload from the reservations to the sources. That
  the objects in the bucket are among the charged ones comes from `UploadInv`.
  `Bytes` is defined as the number of bytes of a set of files, not as a recursive
  sum, so that the theorems on finite sets apply.

`OutboxPublisherProofs` (assumption: `PublisherAssumption`): exclusive locks keep a
row pending while its publisher works on it, and every `published` mark follows an
acknowledgement (`PublisherInv`). Hence the commit of a batch settles exactly rows
the broker holds, and every other step is a delivery or a stutter (`Refinement`).

`KnowledgeSyncProofs` (assumption: `SyncAssumption`): `NeverLost` and `OneHandoff`,
for any workers, versions, copies, retries and faults. `SyncNeverLost` is not
inductive: it counts a record that a worker is about to commit. `SyncInv` therefore
asks for a record that remains after the commits under way (`Remains`), counts the
outbox row only until the first copy was delivered, and adds that the owner of a
partition works on the record at its head (`HeadInv`), that nothing is ahead of the
source's version (`AheadInv`) and that a dead letter follows the recorded failure
(`MarkInv`). A worker that lost its partition fails to commit, which is why only
owners matter in `Remains`.

* `FailuresAreCurrent` needs `SentInv`: whatever is queued, in a handler's hands, in
  limbo or marked failed is a version of which the outbox delivered a copy.
* `RawStaysExact` has a hypothesis, `Alone`: there is one worker and no PUT is
  applied after it was reported as failed. The run `sync_overwrite` shows that it is
  false for two workers. `RawInv` says that the bytes a worker is about to put agree
  with the document of its version, if there is one, and that the bytes it is about
  to persist are the ones in the store.

`MembershipsProofs` (assumption: `MembershipAssumption`): `AlwaysAnOwner`,
`ManagersUpdate`, `AcceptancesComplete` and `InvitationsUsedOnce`, for any users,
roles, invitations and concurrent requests. The invariant `MembershipInv` says that
one update runs at a time, that an owner besides its target stays active or the
target stays an owner (`OwnerStays`), and that an acceptance keeps its invitation
pending, its roles present and a member it has read as active active until it
commits (`HeldMember`: an update waits for the locked membership). The argument that is easy to miss
is about acceptances beside an update: they only add roles and activate users
(`StepGrows`), so an owner count taken under the organisation lock stays a lower
bound although acceptances do not take that lock.

`SessionsProofs` (assumptions: `SessionsAssumption`, and `AbsentAssumption`, that the
marks for "no state" and "no identity" are not one): `AlwaysAgree`, `AlwaysMember`
and `NeverRevived`, for any identities, states, sessions and concurrent requests.
`SessionInv` says what a request may still rely on of what it has read: a callback
after the consumption holds a state that nobody else holds and no session came
from, its user row is the one of its identity, and a tenant switch carries the
origin, identity and user of the session it will rewrite.

`ProvidersProofs` (assumption: `AbsentAssumption`, that the marks for "no secret" and
"no connection" are no secret and no connection): `SecretsMatch`,
`StatusesEarned` and `ModelsNeedActive`, for any connections, keys, models and
concurrent requests. `ProviderInv` says what a request may rely on between its
transactions. A secret it has stored and may still attach is named by no row and is
in no other request's hands (`SecretsOK`, `OneHand`), so a removal by one request
never takes away what another one is about to commit. The row it has locked is
still the row it has read (`LockedOK`, `LocksExclusive`). The test outcome it carries
is in evidence for the key it was made with (`ResultOK`), and is written only if the
locked row still names that key. Two rows never name the same secret
(`RowsDistinct`). `ModelsNeedActive` is an action property proved from the same
invariant: the connection that a model step has locked is active until it commits.

`PublicFetchProofs` (assumption: `FetchAssumption`): `FetchSafe`, for any hosts,
addresses and limits. `ChecksStillHold` records at each step which of the earlier
checks are still about the current URL; a redirect resets all of them.

`ConnectivityTestProofs` (assumptions: `LimitAssumption`, `SecondAssumption`, and
`GatewayAssumption`, that a chunk has the parts the SDKs give it), for any users,
connections, limits, windows, chunks and bodies:

* `LimitsKept`, through tests, uploads, Valkey failures and time. `LimitInv` adds
  the types of the counters.
* `WindowsAreHonest`. The number of admissions in sight is not bounded by the
  counter, which forgets them when a window ends. `WindowInv` relates the ages of the
  admissions to the counter (`Aged`): the current window began with the admission of
  age window minus time to live, and at most limit less one older ones are in sight,
  because the one that began the window before is already out of it.
* `ClientsReleased`, `BodiesBounded` and `FailuresClassified`, from `CallInv`: a client
  exists only after the adapter's own checks, and a failure is known only at the end
  of a call. The `_normalize_*_error` translations are compared, case by case, with
  `Verdict`, which knows nothing of the provider; `CalledInvalid` names the three cases
  in which an adapter departs from it.
* `StatusesProven`: the recorded outcome is what the call's evidence says.
* `StreamsFaithful`, for streams of any length. `StreamInv` says that the metadata
  collected so far is the metadata sent (`Known`), that the texts yielded or held
  back are the texts sent in the same order (`Told`, an order-preserving matching of
  positions that each chunk extends), and which events have been yielded at each
  step of the generator (`Placed`).

Only model-checked:

* all liveness properties (`HoldsResolve`, `EventuallySettled`, `SyncResolves`,
  `EveryRequestAnswered`, `SessionEnds`, `FetchEnds`, `TestAnswered`,
  `LimitReopens`), because fairness is outside the prover's reach;
* the text algorithms (`SourceLocated`, `VisibleText`, `SegmentsExact`,
  `ChunkingExact`): they compare recursive definitions for every input, which needs
  induction over data that the provers cannot instantiate.

Every other property that a passing run checks is also proved, under the hypotheses
named above.

## 5. Disagreements between documents and code

Shown by a run:

* `upload_unacknowledged_commit`: ADR-018 says cleanup never deletes the object of
  a referenced row. When the source commit is applied but not acknowledged,
  request-time cleanup deletes that object: the row is checked only by the arm
  step, whose early return does not stop the DELETE.
* `sync_overwrite`: ADR-023 says a replay with other bytes overwrites nothing. Two
  copies of a command that run at the same time both pass the preflight and write
  the same key. `sync_one` shows that one worker alone never does this, as long as
  a PUT is not applied after it was reported as failed.

Met while modelling; the model does what the code does and the properties are
stated accordingly:

* ADR-006 says only `pending` invitations may become `revoked`. Revocation reads the
  invitation without a lock, so it can overwrite `accepted` with `revoked`
  (`invitations/service.py:216`). `UsedOnce` therefore speaks of the state in which an
  acceptance commits, and of who accepted.
* OPE-291 calls an orphaned secret safer than a row without one. When the COMMIT of a row is applied but
  its answer is lost, the handler removes the secret it has just attached
  (`providers/service.py:125`); `SecretOfLiveRow` names this exception.
* ADR-003 says discovery and keys are cached in the process for five minutes. The
  callback builds a validator, and with it a cache, of its own
  (`auth/router.py:204`), so nothing is cached between logins.
* After a Markdown heading that skips a rank, the heading's own path leaves out the
  empty titles and the path of the text below keeps them
  (`knowledge_normalization.py:404` and `:379`). The chunker then takes heading and
  text for two sections.
* ADR-025 emits the visible text of every list item. An element nested in one of
  its own kind ends the capture of the outer one (`knowledge_normalization.py:270`),
  so the text after a nested list is dropped. `VisibleText` is stated for documents
  without such nesting.
* OPE-297 and ADR-013 let a stream "without meaningful terminal metadata" fail. The
  OpenAI, Gemini and OpenRouter adapters accept one that was cut off before its
  finish reason once any chunk carried a request id (`openrouter.py:144`). `TerminalTruthful` asks only that the event reports
  what was sent.

Also worth knowing, though no document says otherwise:

* A duplicate that is rejected for other bytes, or whose retries are spent on
  database errors, marks the source `failed` although its version has been handed
  to the parser.
* The adapters classify failures alike with three exceptions. Status 408 is a time-out
  for Gemini and OpenRouter and an invalid request for OpenAI and Anthropic. A
  redirect status is an invalid request for OpenAI and OpenRouter and the provider
  being unavailable for the other two. A `ValueError` from within the SDK is an
  invalid request only for Gemini.
* The OpenAI adapter streams text deltas even when a response schema was given.
* The clients of OpenAI and Anthropic are not closed; `ClientReleased` is about the
  other two.
* A body over the cap can be answered by the framework with 400 instead of 413.
* A redirect whose `Location` cannot be parsed makes `urljoin` raise a `ValueError`
  outside any `try` (`public_knowledge_fetch.py:306`), so the fetch ends with an error
  that is not one of its own. Its connection is closed by then.
* The fetch does not compare what it read with the declared length, so a body that
  is cut short is accepted.

## 6. Not modelled

* Web applications and shared packages: page shells and type declarations.
* Health, configuration, error mapping, connection set-up: no state machine.
* Migrations: their columns and constraints are the state of the modules; running
  them is a deployment step.
* Multipart parsing, byte validation, cookies, CSRF and redirect checks, e-mail and
  token formats: they refuse an input before any state changes.
* Reconciliation of unknown legacy file sizes, and `update_organization`: single-row
  updates under a lock.
* Encryption and file layout of the secret store, the S3 and Kafka protocols, the
  SDKs, pypdf and the HTML tokenizer: libraries and data formats. The read, modify
  and replace of the secret file is one step, because one API process makes these
  calls synchronously; several processes are outside the documented deployment.
