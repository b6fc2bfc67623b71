# FlowGate in TLA+

FlowGate receives MinIO bucket notifications, records one transfer per object in
SQLite, and copies the object from a source MinIO to a destination MinIO with a
pool of workers. A dashboard manages groups and apps and shows transfers live.
These modules model the parts of the Go code in `src/` that carry state, TLC
checks them on small instances, and TLAPS proves all of their safety properties,
among them both refinements, for every value of the constants.

## The system

| Part | State | Operations | Talks to | What is hard |
|---|---|---|---|---|
| Worker pool (`internal/transfer`) | queue under a mutex and a condition variable, `closed`, retry timers, one heap `Transfer` per job | `Start`, `Enqueue`, `Stop`, `process`, `scheduleRetry`, `fail` | store, hub, MinIO | wakeups, a record shared without a lock, retries, shutdown |
| Webhook handler (`internal/webhook/handler.go`, `dedup.go`) | dedup map with a time window, the loop over a notification's records | `ServeHTTP`, `IsDuplicate` | app cache, store, pool, hub | concurrent and repeated deliveries, failures in the middle of a batch, restarts |
| App cache and token check (`appcache.go`, `validator.go`) | resolved apps with an expiry | `Get`, `Set`, `cleanup`, `Verify` | store | stale entries, older data written over newer |
| Batch writer (`storage/batch.go`) | request channel, batch, transaction | `exec`, `run`, `drain`, `flush`, `close` | SQLite | answers on every error path, order, stop |
| Tables (`storage/store.go`, `*.sql`) | groups, apps, transfers | CRUD, constraints, cascades | | references, concurrent requests |
| REST API (`dashboard/api.go`, `group/`) | none of its own | groups and apps: create, update, delete | store, hub | read, wait for the body, write everything back |
| Hub (`internal/hub`) | client map, channels | `Run`, `Broadcast`, `readPump`, `writePump` | pool, API | panics on closed channels, slow clients, leaks |
| Sessions (`internal/auth`) | session map with sliding expiry | login, `Authed`, confirm, logout | router | clock read before the lock, logout under running requests |
| Configuration (`internal/config`) | none after the start | defaults, validation | main | placeholders that were not replaced |
| Process (`cmd/flowgate`) | signal context, order of shutdown | start, SIGTERM, exit | all | what is cancelled before what is awaited |
| MinIO client (`storage/minio.go`) | cache of clients | `clientFor`, `GetObject`, `PutObject` | MinIO | workers that miss the cache together, settings that change |
| Migrations (`storage/migrations.go`) | applied versions | `Migrate` | SQLite | a crash between statements |

What makes them correct: a transfer has one owner at a time and a finished one is
never reopened; every accepted notification is recorded and ends; copies of one
object never overlap; no write request is lost or answered twice; the hub neither
panics nor blocks; a deleted row is not brought back and none loses the row it refers
to; data that is out of date is used for a bounded time only; a session that ended
stays ended; no write meets a schema it was not written for.

## Modules

| Module | Models | Builds on |
|---|---|---|
| `TransferManager` | worker pool | |
| `Backoff` | the delay before a retry | |
| `Copy` | the pool's copies through the shared MinIO clients | `TransferManager`, `Backoff` |
| `Gateway` | webhook records to copied objects, with restarts | `TransferManager` |
| `Mirror` | what the gateway promises | implemented by `Gateway` |
| `BatchWriter` | the writing goroutine | |
| `SerialWriter` | what the batch writer promises | implemented by `BatchWriter` |
| `Migrations` | `Migrate` and its scripts | |
| `Storage` | the store through lives of the process | `Migrations`, `BatchWriter` |
| `Hub` | WebSocket hub and clients | |
| `Registry` | tables under the REST API | |
| `Admission` | app cache and token check | `Registry` |
| `Config` | defaults and validation | |
| `Sessions` | dashboard sessions | `Config` |
| `TransferManagerProofs` | theorems | `TransferManager` |
| `CopyProofs` | theorems | `Copy`, `TransferManagerProofs` |
| `GatewayProofs` | theorems, refinement of `Mirror` | `Gateway`, `TransferManagerProofs` |
| `StorageProofs` | theorems, refinement of `SerialWriter` | `Storage` |
| `HubProofs` | theorems | `Hub` |
| `RegistryProofs` | theorems | `Registry` |
| `AdmissionProofs` | theorems | `Admission`, `RegistryProofs` |
| `SessionsProofs` | theorems | `Sessions` |

Each `MC*` module gives one component its constants for TLC.
Definitions introduced by "Variant:" are deliberately wrong forms of the
definition that follows them; no specification uses them. They exist so that each
property can be seen to fail when the code is changed in that way.

### TransferManager

A section under `m.mu` is one step; so is every call that reaches the database or
MinIO. `Enqueue` unlocks before it signals, so the `Signal` is a step of its own
and `signals` counts the ones that are still to come. `pc` follows a worker
through `Start`'s loop (`lock`, `wait`) and `process` (`process` … `failed`).
`mem` is the heap record that job, worker and timer share. `row` is what the last
successful `UpdateTransfer` wrote, because its errors are only logged
(`UpdateMayFail` is the set of transfers to which that may happen). Times, sizes and
messages are kept as "is it set". `main`
follows the shutdown: SIGTERM cancels the context the workers run under, the HTTP
server drains, `Stop` sets `closed`, broadcasts and waits, and the store is closed
last. `feed` is what was handed to the hub, subject to the queue-depth throttle: a
dropped event leaves no trace, so the model lets the submitter of a job try its
`queued` event again, which the code does not. A retry timer fires some time later.

**Answered is not committed.** The batch writer answers a statement inside its open
transaction (`batch.go:114`) and commits afterwards (`batch.go:117`). The caller
goes on at once: a worker sends its event and takes the next job, a handler
enqueues. All other connections, those of `HasActiveTransfer` and of the API among
them, still read the old row. So there are two variables: `row` is the table inside
the transaction, `table` the table as committed, and `CommitBatch` (`table' = row`)
comes at any later time. There is one writing goroutine, and it takes up the next
batch after the commit of this one; a transfer has one owner, who waits for each
answer. Its next statement is therefore executed only when its last one is
committed, which is the guard `row[t] = table[t]` of `UpdateTransfer`. An UPDATE
whose commit fails is lost after it was answered; this is the second meaning of the
branch of `UpdateTransfer` that leaves the row alone. The end of `main` closes the
store and with it commits what is answered; a crash (`Restart` in `Gateway`) loses
it. What the pool relies on must hold for both: `RowCoherent`, `RetryBudget` and
`TerminalIsFinal` speak of `row` and `table`.

`AnnounceSubmitted` is the handler's `transfer:queued` event, sent after `Enqueue` and
so at any time of the transfer's life, also when it is over.

### Copy and Backoff

`Copy` puts `clientFor` between a worker's entry into `GetObject` or `PutObject`
and MinIO's answer: `Load`, `minio.New` and `LoadOrStore` are three steps, and
nothing keeps two workers from making a client each. The settings of a job are
fixed when it is created, so two jobs of an app differ when it was changed in
between. `Backoff` is `scheduleRetry`'s arithmetic with the width of the integer,
the second and both limits as parameters.

### Gateway

One request goroutine per handler walks its batch: deduper (test and mark in one
step, as under its lock), `HasActiveTransfer`, `CreateTransfer`, `Enqueue`, the
`queued` event, and 202 for the whole batch. MinIO may miss the answer and send
again, in any grouping. `Expire` is the end of the dedup window. `Restart` empties
memory and keeps the table; it follows a crash (`MayCrash`) or the end of a graceful
shutdown, in which `srv.Shutdown` waits for the handlers. After a crash the table is
as it was committed. `Begun` are the transfers that were ever given an id, committed
or not. Object versions follow each copy from source to destination; an upload that
returns an error may have stored its object (`UploadFails`). One app is modelled,
since every query and key is prefixed with the app's id.

`Mirror` is the abstract specification: transfers of a key begin once and one at a
time, and the destination changes only under a transfer of its key, to a version
of the source that is not older. `MirrorsSource` is the refinement: `begun` is
`Begun`, `work` the transfers somebody in the process carries.

Two assumptions are explicit constants. `ReadMayFail = FALSE`: the query of
`HasActiveTransfer` succeeds (its error is discarded and read as "none active").
`SlowHandler = FALSE`: the dedup window outlasts the way from the mark to the
committed INSERT (a batch is flushed every 10 ms, the default window is 60 s), and
`srv.Shutdown` all requests. With either one `TRUE`, two active rows of
one key are possible; the run `gateway_live` and the theorems without a hypothesis
say what then still holds. A third assumption is built in: the commit of an INSERT that
was answered with success does not fail, if the process lives to make it. `BatchWriter`
shows what happens otherwise: the job runs for a row that does not exist (hazard at
`store.go:310`), and no property here catches that.

### BatchWriter, Migrations and Storage

`BatchWriter`: `exec`'s send into the bounded channel, `run`'s select (request,
tick, stop, in any order when several are ready), `drain`, and `flush` as Begin,
one step per Exec, and Commit, each of which may fail. `gone` remembers under which
callers the process ended. `SerialWriter` is its abstract specification: a queue
answered in order, and a group of successes that becomes durable together or not
at all. `WritesAreSerial` maps the rest of the batch and the channel to the queue,
the transaction to the open group.

`Migrations` has every statement of the four scripts. CREATE … IF NOT EXISTS can be
repeated, ALTER TABLE cannot, and no transaction surrounds a script. The database
at the first start is new or of any earlier release. `Storage` puts both into one
process that may be killed at any step and started again.

### Hub

`Run`'s select and its fan-out loop, one client per step in any order (Go's map
order); registration and removal as rendezvous with `Run`; both pumps. Closing a
connection twice is harmless, closing a channel twice is not, so `closes` counts.

### Registry and Admission

An SQL statement is one step with its UNIQUE and REFERENCES constraints. A PUT is
two: it reads the row, then decodes the body, then writes all columns. Encryption
is an opaque constructor, so that encrypting twice or not at all is visible.
`Admission` adds the first half of `ServeHTTP`: cache lookup, query, decryption,
`Set`, token check, INSERT, with time in ticks. An app's random webhook secret is
represented by its id. Names are assumed to have no colon, so that the cache's key
"group:app" stands for the route.

### Config and Sessions

Of a configuration string the code asks only whether it is empty, blank or a
placeholder that the environment did not replace. `Sessions` starts a process on
such a file; requests then pass the checks of the router: `Authed` as a clock
reading and, up to `Lag` ticks later, a section under the lock; for changes also
the password again. A client sends whatever it likes as a cookie: a token that was
handed out at some time, also by an earlier process, or a value that no login ever
hands out (`Forged`), which `Authed` must not find in its map. The only thing a client
is assumed unable to do is to guess a random token before it is handed out.

## Runs

| Run | Instance | Shows |
|---|---|---|
| `pool` | 2 workers, 2 transfers with one retry each, the writes of the first may fail, late commits, throttle at depth 1, shutdown at any time (1.7 million states) | one owner per job, no lost wakeup, no dropped job, coherent rows, exact retry budget, events in order and never before the answer, finished rows never written again |
| `copy` | 2 workers, 2 transfers with budgets 2 and 0, one with a malformed endpoint, no failing writes, late commits, 16-bit durations, no events, with fairness | every transfer ends, `Stop` returns, one fitting client per cache key, a capped exponential back-off |
| `gateway` | 2 requests, 2 workers, 2 versions of one key, 2 rows, late commits | a row a reader finds active is carried or about to be committed as finished, 202 means recorded, `Mirror` is implemented |
| `gateway_restart` | 2 requests with up to 2 records, 1 worker, one crash or shutdown, failing INSERTs and UPDATEs, late commits that a crash loses | at most one active row per key, for the writer and for readers, also across restarts; `Mirror` is implemented: never two copies of a key at once |
| `gateway_live` | 2 requests, 1 worker, 1 retry, unanswered checks, requests that outlast the dedup window, with fairness | an accepted notification ends in a finished transfer of its key |
| `storage` | 3 requests, channel and batch of 2, all failures, a new database or one of 4 releases, 3 starts, kills at any step | nobody waits for ever, writes only on the full schema, `SerialWriter` is implemented: every request is accounted for, answered once and in order, and answers match effects |
| `hub` | 2 clients, hub buffer 2, client buffer 1, 3 messages | no panic, gap-free delivery, no blocking by clients, no leaked client |
| `registry` | 2 groups, 2 apps, 1 transfer, 2 requests | references, no resurrection by a late PUT, secrets sealed once |
| `admission` | 2 webhook requests, 1 API request, 1 app, TTL 2, lag 1, 5 ticks | decisions on outdated data end with the TTL |
| `sessions` | 2 requests, 2 tokens, 1 value that is no token, 2 starts, 4 configuration files, TTL 2, lag 1, 4 ticks | ended sessions stay ended, idle ones end, active ones are kept, changes need session and password |
| `gateway_create_fails` | 2 requests, failing INSERTs | violates `AckedIsRecorded` |
| `gateway_orphan` | 2 requests, one retry, SIGTERM and one restart, no crash | violates `SkippedIsCarried` |

**Bounds.** Two actors of each kind are what races in this code need: every critical
section involves a goroutine and one competitor. Two transfers separate "mine" from
"another's"; one retry each in `pool` is a first attempt, a wait on the timer and a
last attempt; budgets 2 and 0 in `copy` add an attempt in between and none to spare,
and the theorems about the pool hold for every budget. In `pool` the updates of one
transfer may fail and those of the other do not, so that both halves of
`ActiveIsOwned`, that of the heap record and that of the row, are put to the test.
`EventsFollowRow` is about the latter: a lost update leaves the row behind its
event. The `copy` and `gateway` runs have no property about events and leave them
out by a throttle below every queue length (`MCNoEvents`); `pool` has them all. Two
versions of a key are enough for a copy of an old version to meet a new one. Channel
and batch sizes of one or two with more requests than they hold reach full, empty
and overflow; three requests give a full batch and a next one. Three starts are a
migration that is cut short, its repetition and the start after that. Four ticks
with a TTL of two let a session be prolonged, be set back by a late request and
expire. The 16-bit back-off keeps the shape of the 64-bit one, for which the
property is proved: the maximum is a small part of the range, and 18 attempts shift
every base out of it. In both widths a base above the maximum delay can wrap to a
short wait; for 64 bits the first such base is 47279 seconds. The admission run has
time for an entry to be filled, to outlive a change and to expire. Rows, uploads,
restarts, messages and ticks are capped in the guards of the actions that create
them (`Transfers`, `MaxPuts`, `MaxRestarts`, `MaxMsgs`, `MaxTime`, `MaxStarts`,
`MaxAttempt`). Symmetry is used in safety runs only.

**Fairness.** Weak fairness of workers, request goroutines, timers, the pending
Signal and `Stop` is the Go scheduler and runtime timers, and that of `CommitBatch`
the batch writer's goroutine, which goes from its answers to the commit. Weak
fairness of MinIO's answers is an assumption on the environment; the code has no
deadline of its own, so without it a request that is never answered holds its worker
for good, and `EveryTransferFinishes` does not catch that. Nobody is obliged to send
a webhook or a SIGTERM. The batch writer has weak fairness of its goroutine and
strong fairness of the tick and stop cases, since `select` chooses among ready cases
at random; a process whose writer has ended exits. The hub has the same for its
message case; `BroadcastsDrain` assumes nothing of clients, while `ClientIsReleased`
is stated under `PumpsFair`: deadlines on the connection and the closed connection
make the pumps move.

## Proofs

Each `*Proofs` module proves the safety properties of one component from the
`ASSUME`s of the modules it extends: sizes are numbers, flags are Boolean, functions
have their domains, a marker such as `Absent`, `None`, `NoExpiry` or `NoToken` is
not one of the values it stands beside, a forged cookie is not a token
(`ForgedUnknown`). Nothing bounds the number of workers, requests, keys, clients,
rows, retries or starts. The inductive invariants were checked with TLC on the
instances of the runs before they were proved.

### TransferManagerProofs

* `PoolTypeCorrect`: `PoolSpec => []PoolTypeOK`.
* `PoolOneOwner`: a job is in one queue slot, one worker or one timer. Not
  inductive alone: a newly submitted transfer might meet an old job of the same
  id. `OwnershipInv` adds that a job exists only for a transfer that has a row;
  submitting needs a transfer without one.
* `PoolRowCoherent` and `PoolRetryBudget`: statements about the row. A row is the
  copy of some earlier state of the heap record, so `RecordInv` carries the same
  facts for the heap record, ties the record's status and retry count to the place
  of its job (`JobsCurrent`), and says that whoever will still work on a transfer
  finds its row unfinished (`LiveRowIsActive`), and that a reader is never ahead of
  the writer: what is committed as finished is what the writer has (`TableIsBehind`). The proof uses one owner at every
  write: changing one record leaves every other job's facts alone.
* `PoolTerminalIsFinal`: from `LiveRowIsActive`, since only owners write, and
  `TableIsBehind`, since a commit publishes what the writer has.
* `PoolNoLostWakeup`: a count of queued jobs against pending signals and workers at
  the lock. `StopPhase` adds where `closed` is set and that nobody sleeps after
  `Stop`'s Broadcast. A worker goes to sleep only on an empty queue, so the bound
  starts at zero; a Signal takes one from the signals and adds one worker at the
  lock.
* `PoolActiveIsOwned`: `MemCarried` is the property for the heap record;
  `RowIsMem` says that for a transfer whose updates do not fail the row is the record,
  except between a timer's reset and the next update.
* `PoolEventsFollowRow`: `FeedInv` adds that no final event was sent while the pool
  has the transfer (`FeedOpen`), that a first attempt was not announced before, and
  that a counted retry is announced once (`FeedFresh`). All of it disregards `queued`,
  which the submitter may append at any time.

### CopyProofs

* `CopyImplementsPool`: `CopySpec => PoolSpec`. Asking for a client moves no worker
  and a failed `clientFor` is an answer the pool expects, so that all theorems above
  hold with the client cache underneath; `CopyEventsFollowRow` is one of them.
* `CopyOneClientPerKey`, `CopyClientFitsJob`: `CopyInv` says that a worker asks for
  a client only in the middle of a copy (so its settings do not change under it), a
  cached client has the key it is cached under, a client in hand and not yet cached
  is that of the worker's own settings, and a client in use is the cached one.
* `BackoffStaysInBounds`: for every base, attempt and integer width the wait is
  between the limits and, if longer than the minimum, below the exponential it
  stands for. A product below the maximum cannot have wrapped.
* `OverflowNeverShortens`: the converse depends on the numbers (with 8 bits, a maximum
  of 100 and a base of 33 the fourth retry wraps to a short wait), so it is proved for
  the code's own, `GoDurations`: 64 bits, nanoseconds, at most one hour. A base of up to
  3600 seconds times 2^k that wraps to a positive number leaves 2^k * r, where r is what
  the base is above a multiple of 2^(64-k). For 2^k * r to be below an hour, k must be 23
  to 41. Up to k = 32 that multiple is one of 2^32, and no number of seconds up to 3600 is,
  in nanoseconds, so little above one (`SecondsAreSpread`, in units of 512 ns). From 33 on,
  r would be below 512, but base and multiple are both multiples of 512. Powers of two
  are numbers of subsets (`PowerIsCount`, `PowerAdds`), and the steps on concrete numbers
  see them only as the function `Power`.
* `CopyBackoffIsCapped`: `BackoffIsCappedExponential` of every job on a timer, from both
  theorems and `TimersCounted`: a job on a timer, or about to get one, has its attempt
  counted.

### GatewayProofs

The pool's invariants are proved again for the pool inside the gateway, where rows
are inserted and jobs enqueued in two steps and the process may be restarted over
old rows, without what was not committed. `HandedOver` bridges the two steps: a
transfer that is inserted and not yet enqueued belongs to one handler and to no job,
with its record untouched.

* `GatewayTypeCorrect`: versions stay within `MaxPuts` because every upload leaves
  a notification of its own (`UploadsCounted`), and the record a handler is at
  exists because `Rec` is used only below the end of its batch.
* `GatewayOneOwner`, `GatewayRowsSound`, `GatewayTerminalIsFinal`, `GatewayNoLostWakeup`:
  what `PoolSpec` guarantees, for the pool in a process that is restarted over old rows
  and is fed by requests of any speed. They have no hypothesis: they hold when the check
  fails, when requests outlast the window and when they enqueue after `Stop`.
* `GatewayOneActivePerKey`: `DedupInv` says that a request between its mark and its
  INSERT has its key in the deduper's map (`InWindow`), that it is the only such
  request of the key (`OneMarker`), and that once it has passed the database check
  there is still no active row of the key (`CheckStands`). The check reads committed
  rows only, so an INSERT that waits for its commit must be covered by the mark too
  (`InsertsMarked`): then a key without a mark and without a committed active row has
  no active row at all (`FreeForMarker`). Hypotheses: `ReadMayFail =
  FALSE`, `SlowHandler = FALSE`, and nothing else; crashes, failing INSERTs and UPDATEs
  and any number of restarts are covered.
* `GatewayMirrorsSource`: `Spec => MirrorsSource`, the refinement of `Mirror`, under
  the same hypotheses. What is carried is unfinished in the table, so transfers of a
  key are carried one at a time; `VersionsOrdered` says that the destination is not
  ahead of the source, nor of a version that is being uploaded. `Put` is `Change`,
  `CreateTransfer` is `Begin`, `Upload` is `Replicate`, the final UPDATE is `End`
  (also when it is lost), `Restart` is `Lose`, and all else changes nothing.
* `GatewayActiveRowIsCarried`, under `UpdateMayFail = {}` and `MaxRestarts = 0`: a row
  that a reader finds unfinished is carried, or its final UPDATE was answered and is in
  the open batch (`Finishing`). Between the answer and the commit the worker has let
  go and the row still blocks its key; that window is real, so the property names it.
  For the writer's row the statement is inductive without the exception
  (`WriterRowIsCarried`), because what is carried shrinks only when the final status is
  written (`CarriedStep`); the reader's row is that one or an earlier state of it
  (`ReaderFollowsWriter`), and after the exit it is that one (`ExitedCommitted`).
  `GatewaySkippedIsCarried` follows, with the same exception, and `gateway_orphan` shows
  that the hypothesis on restarts is needed.
* `GatewayAckedIsRecorded`, under `CreateMayFail = FALSE` and `NoRequestLost` (no
  restart, or neither crashes nor handlers that outlast the drain): every marked key
  and every record behind the loop has a row or a request on its way to one, and a
  request announces the row of its own record. `gateway_create_fails` shows that the
  first hypothesis is needed.

### StorageProofs

`StoreInv` joins the migrations and the writer: the writer is there exactly when
`Migrate` succeeded in this life of the process (`WriterIffUp`).

* `StoreTypeCorrect`; `StoreWritesMeetTheirColumns`: everything up to the statement
  `Migrate` has reached exists (`AppliedSoFar`), because what a recorded version
  stands for exists (`RecordedIsThere`).
* `StoreMigrateRepeatable`: while no script was cut short there is also nothing
  else (`NothingElse`), so an ALTER TABLE finds its column missing.
* `StoreWritesAreSerial`: the refinement of `SerialWriter`. `WaitsOnce` says that
  what is unanswered, in the order of batch and channel, has no duplicates and no
  answers; `WriterShape` which of batch, transaction and stop flag can be filled at
  which point of `run` and `flush`.

### HubProofs, RegistryProofs, AdmissionProofs, SessionsProofs

* `HubTypeCorrect`, `HubSafe`, `HubContiguous`: a client in the map has an open
  channel, and the fan-out loop only has clients that are in the map
  (`ChannelLife`); what a client got, then what is buffered for it, then the message
  it is about to be given, is the log from its registration on (`GotFollowsLog`,
  `SendFollowsGot`).
* `RegistryTypeCorrect`, `RegistryNoOrphans`, `RegistryDeletedStaysDeleted`: every
  row's id was handed out, and a PUT that waits for its body holds the group its app
  still has, if the app is still there (`HeldAppIsCurrent`).
* `AdmissionTypeCorrect`, `AdmissionNoOrphans`, `AdmissionStaleAtMostTTL`: an entry of
  the cache, a query's result and what a request is verified against are each
  current or outdated for a bounded time, with a bound that shrinks by the time the
  next step may take (`CacheBounded`, `QueryBounded`, `VerifyBounded`).
* `SessTypeCorrect`, `SessMutationsConfirmed`, `SessDeadStaysDead`, `SessIdleEnds`,
  `SessActiveKept`: what a request has shown at each point of its way
  (`RequestsHold`), a process runs only on what `validate` accepted
  (`RunsValidated`), a dead token has no entry (`DeadIsGone`), a clock reading is at
  most `Lag` old (`ReadingIsFresh`), and the expiry is the last use plus the TTL up to
  `Lag` (`ExpiryTracksUse`).

### Only model-checked

All liveness (`EveryTransferFinishes`, `StopCompletes`, `AckedEventFinishes`,
`NobodyWaitsForEver`, `BroadcastsDrain`, `ClientIsReleased`): fairness and `ENABLED`
are outside what the prover handles.

## Where code and documents disagree

Shown by runs:

* `gateway_create_fails`: the key is marked as seen before the INSERT; after a
  failed INSERT MinIO's next delivery is answered 202 and skipped (`BUILD.md:643`).
* `gateway_orphan`: workers run under the context that SIGTERM cancels, so running
  copies fail at once and their retry timers die with the process, although
  `BUILD.md:1008` has "no transfers are abandoned mid-stream". The rows they leave
  active then block their key: nobody takes them up, and the check that "covers
  restarts" (`handler.go:126`) skips every new notification because of them. A crash
  has the same effect.

Met while reading, not stated as runs:

* `batch.go:114` answers before the commit; the comment at `batch.go:39` says
  after. `SerialWriter` states what does hold. A dashboard can be told that a transfer
  is completed while the API still says `in_progress`, and a notification that arrives
  in that moment is skipped for a transfer that is over.
* A new version of an object that arrives during the copy of the old one, or
  within the dedup window after it, is acknowledged and never copied
  (`BUILD.md:798`).
* The handler enqueues before it broadcasts `transfer:queued`, so `started`, or even
  `completed`, may come first; `BUILD.md:205` has the broadcast first.
  `EventsFollowRow` orders the events of the workers and allows `queued` anywhere.
* No per-transfer timeout is set (`BUILD.md:1021`).
* Two overlapping PUTs on one app undo each other in fields neither request
  mentioned twice (`BUILD.md:1554`).
* GET of an unknown group or app answers 200 and `null` (`BUILD.md:1462`).
* `BUILD.md:1472` and `BUILD.md:1564` say that transfer records are retained when a
  group or an app is deleted, and `BUILD.md:1566` that only an active transfer is in
  the way (409). The schema has the opposite: a transfer refers to its app, so an app
  with any transfer, finished ones too, cannot be deleted, nor can its group; the
  answer is 500. `NoOrphans` states what the code does, and its mutant, a deletion that
  only active rows refuse, is the documented behaviour.
* `BUILD.md:1556` rotates the webhook secret by a PUT with `webhook_secret`; no path of
  the code changes an app's secret after its creation, and the field is ignored.
* A deleted or renamed app is still admitted from the cache for up to the TTL
  (`BUILD.md:1668`); `StaleAtMostTTL` states the bound.
* `migrations.go:22` calls `Migrate` "safe to call on every startup". After a script
  was cut short between two ALTER TABLE statements every later start fails on a
  duplicate column. `RepeatableUnlessInterrupted` states what does hold.
* `minio.go:64` says "last writer wins, both are equivalent": the first one wins,
  and a client made before a secret key, a region or `UseSSL` was changed serves the
  new jobs too, until the process ends. `ClientFitsJob` states what does hold.
* Retries with a back-off of 0 seconds wait up to an hour: the clamp takes zero for
  an overflow (`worker.go:128`).
* A WebSocket that is open stays so after its session ended (`router.go:47`).

## Limits of the properties

What holds is weaker than what one might wish in these places; no property above
catches the case.

* A MinIO request without an answer holds its worker (`worker.go:100`):
  `EveryTransferFinishes` and `AckedEventFinishes` assume that MinIO answers.
* `AckedEventFinishes` says that the key is copied, not that the version of that
  notification is (`handler.go:120`), and `AckedIsRecorded` is met by any row of the key.
* `ClientFitsJob` speaks of endpoint, access key and certificate policy, not of a stale
  secret key, region or `UseSSL` (`minio.go:44`).
* `DeletedStaysDeleted` does not speak of concurrent PUTs that undo each other
  (`api.go:267`).
* `RepeatableUnlessInterrupted` leaves out, by its precondition, the states after a
  script that was cut short or a version query that failed (`migrations.go:39`, `:48`).
* `WritesAreSerial` does not speak of the job that runs for a row whose INSERT was
  answered and whose commit failed (`store.go:310`).

## Not modelled

* The browser application (`web/assets`): user interface; it keeps no state that the
  server depends on, and its requests are those of `Registry` and `Sessions`.
* Lists, statistics, `GetWebhookURL`, the health endpoint and the periodic statistics
  broadcast only read. `BucketExists` has no caller.
* YAML parsing, flags, logging, request ids, routing tables, static files, listening
  and TLS: libraries and wiring without state that the properties tell apart.
* The cryptography of `group/service.go` beyond "sealed once, opened once".
* Build and deployment scripts.

## Plan

1. Done: worker pool, gateway, storage with migrations, hub, registry, admission,
   sessions with configuration, client cache and back-off; the abstract
   specifications `Mirror` and `SerialWriter` and their refinements; proofs of the
   safety properties and of both refinements.
2. Left: corollaries that combine components (the gateway over the client cache, as
   `CopyImplementsPool` does for the pool alone).
