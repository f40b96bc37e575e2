# eventic: TLA+ models and proofs

eventic keeps typed aggregates as append-only logs of revisions in SQLite or
PostgreSQL. A caller plans a write from a revision it read, the store commits
log row, head row and delivery intents in one transaction, and handlers run
after the commit, inline or from an outbox drained by workers. This directory
holds TLA+ models of that program, configurations that check them with TLC, and
proofs checked by TLAPS. Paths below are relative to `src/src/eventic/` unless
they start with `src/`.

## Inventory

| Component | State it keeps | Operations | Hard part | What makes it correct |
|---|---|---|---|---|
| SQL store, write path (`sql/store.py` `commit`, `planning.py`) | `eventic_revision`, `eventic_head`, `eventic_intent`, `eventic_schema` | `commit(batch)`: CAS, replay, insert, head upsert, intents, fingerprint | interleaved transactions at READ COMMITTED, row locks, deadlocks, rollback, lost acknowledgements and retries | log contiguous and unique, head = newest row, outbox = what the log owes, batches atomic, acknowledged = durable |
| Outbox and worker (`worker.py`, `retry.py`, `claim`/`settle` of the store, `redrive` of `sql/admin.py`) | `eventic_intent` rows, each worker's batch | claim, deliver, settle, stop, redrive | leases expiring under a slow worker, stale settlements, crashes, rolling deploys | at least once, no early giving up, dead only by exhaustion, dead leaves only by redrive, everything is resolved |
| Head rebuild and verify (`sql/admin.py`) | head table, derived from the log | `rebuild_heads`, `verify`, `check`, `list_intents` | runs while writers commit | the rebuilt head is the newest row; no false mismatch, no false orphan |
| Encodings (`encodings/`, `_decode_window`) | none; rows say how they are encoded | encode, decode, checkpoints | decode window depends on configuration | every committed row stays decodable |
| Runtime, batches, inline dispatch (`runtime.py`, `dispatch.py`) | batch entries | create, change, replace, batch exit, dispatch | handlers raise, re-enter or see replays after the commit | every handler of a dispatched commit runs; callers are told what happened |
| Evolution and hydration (`evolution.py`, `hydration.py`) | none | validate a chain, upcast, hydrate, `changed` | rows of several schema versions, rolling deploys | every version a build agrees to read reaches the declared one |
| Reads and paging (`history`, `search`, `list_intents`) | cursors held by callers | one page | appends, settlements and equal clock readings between pages | nothing skipped, nothing repeated |
| In-memory pool (`_SerializedStaticPool`) | one semaphore, one connection | check out, return | threads that overlap, checkouts that raise | one transaction at a time, no lost permit |
| Derived-projection prototypes (`src/.scratch/projects/008-derived-projection/probes/`) | a cursor per projection, match state, a lease | scan the log below a watermark, decode a scanned row, match, emit, apply | commits out of order, restores, crashes between emission and state, stalled owners | no row passed over, the cursor never goes back, output of one run that never fails |
| Declarations, canonical JSON, CLI, migrations, conformance kit | none at run time | validation, encoding, printing | none concurrent | not modelled, see below |

Callers reach the store through a `Runtime`: planning turns a read `Revision`
into a `CommitRequest` that names it as `expected_revision`; `commit` writes the
tables; the caller then dispatches inline handlers. Workers share only the
tables with callers: an intent row staged by `commit` is claimed, its revision
loaded, its handler called outside any transaction, and the row deleted or
updated by `settle`. Operators run `rebuild_heads`, `verify` and `redrive`
against the same tables while everything else runs. The prototypes are runnable
programs that settle how a planned subsystem will read the same log: a scan
follows the log in a total order below the oldest transaction in flight, a
matcher folds the rows and writes its matches back as aggregates.

## Modules

| Module | What it is |
|---|---|
| `SqlStore` | `SQLite.commit` and `Postgres.commit`, one action per SQL statement |
| `VersionedLog` | what the store promises: a log per aggregate that grows by atomic batches |
| `SqlStoreProofs` | the inductive invariant of `SqlStore`, six theorems on its log, and that it implements `VersionedLog`; then what the four tables say of each other, commit times, rewinds and lost races, and what holds on SQLite, over a file and in memory |
| `MCSqlStore` | instances of `SqlStore` for TLC |
| `SqliteStore` | `SQLite(':memory:')`: the pool's semaphore around the statements of `SqlStore` |
| `MCSqliteStore` | an instance of `SqliteStore` for TLC |
| `HeadRebuild` | `rebuild_heads` and `verify` on PostgreSQL, composed with the callers of `SqlStore` |
| `HeadRebuildProofs` | what a rebuild keeps and restores, for any number of callers |
| `MCHeadRebuild` | instances of it for TLC |
| `Runtime` | writes through `Collection` and `Batch`, and the inline dispatch that follows them |
| `RuntimeProofs` | what handlers see, which run, and what callers are told, however deep calls nest |
| `MCRuntime` | instances of it for TLC |
| `Delivery` | the outbox: claim, deliver, settle, retry, lease expiry, stop, crash, redrive |
| `OutboxContract` | what the outbox promises, without leases, attempts or clocks |
| `DeliveryProofs` | what the outbox keeps, and that it implements `OutboxContract` |
| `MCDelivery` | instances of `Delivery` for TLC |
| `DeltaLog` | `snapshot/1` and `delta/1` rows of one log, their decode windows and the fold of a rebuild |
| `DeltaScan` | scans of that log for predicates over documents and their changes |
| `DeltaLogProofs` | which configurations decode which rows, the fold of a rebuild, the causes of refusals and what scans see, for all intervals, documents and predicates |
| `MCDeltaLog` | instances of `DeltaLog` and `DeltaScan` for TLC |
| `Reads` | paged traversals of history, heads and outbox, chains of upcasts |
| `ReadsProofs` | paging and chains of upcasts, for any logs, page sizes and builds |
| `MCReads` | an instance of it for TLC |
| `ScanOrder` | the scan order of the log: transaction ids, watermark, epochs, restores |
| `ScanOrderProofs` | a scan passes over nothing, and meets revisions in order |
| `MCScanOrder` | an instance of it for TLC |
| `MatchProjection` | a matcher with lease, page, emission, state and fenced cursor |
| `MatchProjectionProofs` | the fencing of the cursor, and when state and matches are those of one replay |
| `MCMatchProjection` | an instance of it for TLC |

### SqlStore

State: the four tables as seen by a new transaction (`revisions`, `head`,
`intents`, `ledger`), the database clock, and for each writer the statement it
is about to execute (`pc`), its open transaction (`tx`: position in the batch,
`now()`, the head revision it read, uncommitted rows, locks, replays) and how its
last call ended. `acks` collects the `CommitResult`s callers received.

| Action | Code (`sql/store.py`) |
|---|---|
| `Call` | `Begin`: `engine.begin()`, `_now`, `BEGIN IMMEDIATE`; or `BusyTimeout`: another transaction has the write lock for too long |
| `SelectHead` | `select_head(..., for_update=True)`, 221-227 |
| `SelectRow` | the second SELECT and the decisions on both rows, 228-277: replay, repair, conflict, or go on |
| `InsertRow` | `insert_revision`; a unique violation is mapped by `_is_revision_race` |
| `WriteHead` | `upsert_head` and one insert per intent, 323-360 |
| `RepairHead` | `_upsert_head_from_row`, 392-419 |
| `UpsertFingerprint` | `upsert_fingerprint`, 362-372, and the end of `_commit_one` |
| `CommitTx`, `Ack` | leaving `engine.begin()`; the results reach the caller |
| `Crash`, `DeadlockVictim` | rollback, or an answer that never arrives; PostgreSQL's deadlock victim |

`Serialized` chooses the backend. With SQLite's `BEGIN IMMEDIATE` transactions
never overlap. On PostgreSQL each statement sees what is committed when it runs
plus the transaction's own writes; `FOR UPDATE`, upserts and unique keys wait
for the transactions that hold them (`Blockers`) and the database breaks wait
cycles. `SELECT ... FOR UPDATE` of a missing row locks nothing. That is
documented PostgreSQL behaviour, modelled from how the code uses it.

`Fabricate` says whether a caller may name a base it never read. `Runtime` hands
out a `Revision` only for a committed row, but `commit` is also called directly.

`ledger` is `eventic_schema`. Its key is the pair of stream and schema version
(`Schema`), as the primary key and the `ON CONFLICT` target have it, so writers of
two versions of one stream neither wait for each other's entry nor take it for
theirs. `FingerprintOf` is the declaration a writer runs. A request's version
follows from its content (`VersionOf`), since a document is written by one version
of its class.

A content stands for all `_is_identical` compares. Payloads are stored with the
default encoding, `snapshot/1`, whose decode is the document itself, so the
digest check of 312-321 always passes here; `delta/1` is left to `DeltaLog`. An
oversized batch is refused before anything happens and is left out, as is the
empty one, which changes nothing.

`VersionedLog` is the store as its callers may think of it: `log[k]` maps
revisions to contents, and a step adds the rows of one batch, each next to what
is there or there already. `LogView` reads that log off the committed rows of
`SqlStore`, and `ImplementsLog` says that every behaviour of `SqlStore` is then
one of `VersionedLog`: heads, locks, statements and clocks are implementation.

### SqliteStore

Over a file every thread has its own connection and `BEGIN IMMEDIATE` keeps
transactions apart: `SqlStore` with `Serialized`. Over `:memory:` all threads
share one connection, nothing in SQLite separates them, and
`_SerializedStaticPool` does it with a semaphore. The module runs the statements
of `SqlStore` without `Serialized` and adds the pool: `Acquire` (`_do_get`),
`ConnectFails` (a checkout that raises gives the permit back), `BeginShared`,
`Inside`, `Return` (`_do_return_conn`, also when resetting raises) and `Answer`.
`File` is `SqlStore` with `Serialized`, and `BehavesLikeFile` says that every
behaviour of the shared connection is one of the file store.

### HeadRebuild

Extends `SqlStore` with one more process, the operator, and composes its
statements with the callers' actions: a caller waits for the heads the operator
has deleted or written (`OpLocks`), the operator for those callers hold (`Free`).

| Action | Code (`sql/admin.py`) |
|---|---|
| `StartRebuild` | `engine.begin()` and the `SELECT` of `head_keys` |
| `DeleteHeads`, `DeleteHead` | the `DELETE`, which covers the heads committed when it starts and waits for each row's holder |
| `ReadChunk` | one statement of `_stream_log` with the fold of its rows |
| `LastRow`, `UpsertHead` | `emit` of `rebuild_heads`: newest row, comparison of digests, upsert |
| `CompareHead` | `emit` of `verify` |
| `FinishRebuild`, `FinishVerify` | the last, empty chunk; COMMIT and the report |
| `AwaitOperator` | a caller's `SELECT ... FOR UPDATE` that waits for a deleted head; when the rebuild commits it resumes without a row, because the head inserted again is not in its snapshot |
| `CrashOperator` | rollback of the operator's transaction |

A chunk may end within an aggregate. What counts for the fold is the last
statement that reads rows of the aggregate, so `ReadChunk` takes a set of
aggregates, each folded to its newest row, and leaves their order open. Callers
commit single requests (`MaxBatch = 1`): such a caller waits for the operator
before it holds any head, and no deadlock can arise. A batch that holds one head
and wants another can deadlock with a rebuild; batches against a rebuild are not
covered. The decoding pass of `verify` never fails for `snapshot/1` rows and is
`DeltaLog`'s `Decode` for the others. On SQLite both calls are one transaction that
overlaps nothing and are not modelled.

### Runtime

The store is one atomic step here, as `VersionedLog` allows. State: the log of
each aggregate with the schema version of each row, and for each process the
stack of calls it is in, because a handler may write through the runtime that
called it. `ended` says how the last call of a process to end ended, and which
handlers it ran.

| Action | Code |
|---|---|
| `Write` | `create`, `change`, `replace` of `Collection`: a request planned from a revision this build could hydrate, then `store.commit` |
| `LeaveBatch` | the same for the requests of a `Batch` block that leaves normally |
| `Materialize` | `_materialize`: the request's own document is hydrated, and dispatch begins |
| `StartHandler`, `HandlerReturns`, `HandlerRaises` | the loop of `dispatch_inline` |
| `EndDispatch` | `InlineDispatchError`, or the next entry of `_commit_all`, or the return |
| `Crash` | the process dies, with the calls it is in |

A `Batch` block that raises sends nothing and is left out. When the handlers of one
commit of a batch fail under `on_inline_error="raise"`, `EndDispatch` leaves
`_commit_all` with the `InlineDispatchError`, and the entries after it are not
dispatched, as in the code. `Unreadable` documents are those whose canonical form
does not validate again, so that `_materialize` raises after the commit. Each
process runs one build: `Version` is its schema version of the stream and `OnError`
its `on_inline_error`. Upcasters are total here.

### Delivery

State: the intent rows (an `unborn` or `gone` row is not in the table), each
worker's claimed intents with the attempt number of the claim, the settlements
it has prepared, what is left of its lease, and which handlers have succeeded.
Times are countdowns that `Tick` lowers together, so time never runs out and
liveness can be checked; `due` is told apart down to `-Horizon`. `late` is history:
the intents on which some worker has reported after the lease of its batch.

| Action | Code |
|---|---|
| `Stage` | the intent row of a commit, `sql/store.py` 341-360 |
| `Claim` | `claim`, `claim_select`, `claim_mark_leased`: the earliest claimable rows, up to the batch size |
| `Deliver` | `Worker._deliver`, `_reconstruct`, `_retry_or_dead`, `_dead_letter`, `disposition` |
| `Settle` | `settle` and `settle_intents`: by intent id alone |
| `Stop`, `Crash`, `Redrive` | `stop`; a worker that dies or whose claim or settle raises; `SqlAdmin.redrive` |

`claim`, `settle` and `redrive` are single actions. On PostgreSQL `claim` skips
rows other transactions have locked; skipping a row another claim is taking, or
a leased row that is being settled, gives the same result as running after that
transaction, because the row is not claimable then. Which intent of a batch is
delivered first is left open. `KnownTo` gives each worker the subscriptions of
its own build, so that rolling deploys are covered.

Nothing in the code keeps a worker within its lease (one lease of 30 s covers a
batch of 100 by default), and nothing in the model does: time passes while a batch
is delivered, another worker claims the same intents, and both report, in either
order. A worker that has outlived its lease and does not know it is `Stalled`.

The properties say what holds all the same, and what holds until the moment a
report comes too late. Nothing is lost, ever. Leases mean one holder, one attempt
per claim and a redrive that sticks for every intent that is not `late`; a stalled
worker that has not reported yet disturbs none of this but may cost one attempt.
After a late report the row is what that report says (`settle` looks at the intent
id alone), so an intent may be given up, revived or released once more.

`OutboxContract` has four phases per intent, the handlers that have succeeded, and
reports on batches; a late report may move an intent it covers from any phase but
`done`. `Delivery` implements it under `pending, leased -> owed`; the mapping is
the `INSTANCE` at the end of `Delivery`, `KeepsContract` is its safety, `Resolves`
its liveness.

### DeltaLog

State: the rows of one aggregate, the state of its head, and the last call of
`commit` with the configuration it ran under. Configuration is per process, so
every commit chooses one: an interval of `delta/1`, or none.

| Definition | Code |
|---|---|
| `Commit` | the encoding part of `_commit_one`: encode against the head, decode the new row again, compare, insert |
| `Diff`, `Apply` | `Delta.encode`, `Delta.decode` |
| `WindowStart`, `DecodeWindow`, `Chain` | `_decode_log_revision`, `_decode_window` |
| `Decode` with `Unconfigured` | a store without encodings, and `_decode_row` of `verify` |
| `Fold` | `_accumulate_into`, the fold of `rebuild_heads` |

A digest is the document it was computed from: SHA-256 is taken to be injective.
`Lax` holds the pairs of different JSON values that Python's `==` conflates
(`1 == True == 1.0`), because `Delta.encode` compares with `==` and digests
compare canonical bytes. Nothing here runs concurrently: the interleaving of
commits is `SqlStore`'s subject, and a commit reads its window inside the
transaction that inserts the row.

`DeltaScan` extends `DeltaLog` with what `p06_delta_scan_cost.py` and
`p03_predicates_plan.py` read off such a log: the document and the changed keys
of a row, by each of the scans (`SnapshotView`, `BatchedView`, `DeltaView`),
against what planning saw (`PlanView`), and the predicates of
`p09_predicate_fingerprint.py` that are evaluated on them. A predicate is a finite
tree, as a Python value of those classes is: `Predicates` has every subtree of the
ones in use, `Depth` says that the terms of one lie below it (`ScanAssumption`), and
`Evaluate` is a recursive function over `Predicates`.

### Reads

State: the logs, the outbox rows, the clock, the chain of upcasters of the newest
build, the schema version of the reading build, one traversal with its cursor and
pages, and `always`, which collects what has matched ever since it began.

| Action | Code |
|---|---|
| `Commit`, `Delivered`, `DeadLettered`, `Redriven`, `Tick` | what writers, workers and operators do to the rows meanwhile |
| `Start`, `ReadPage` | `history`, `search`, `list_intents`: rows beyond the cursor in key order, up to the limit; a page that is not full ends the traversal; a row the build cannot decode refuses the page |
| `Deploy` | the reading process is replaced by the newest build |
| `Connected`, `Upcast` | `validate_chain`, `upcast` |

Every schema version renames the one field a document has. Intent ids are hashes,
so `IntentId` is any injective function to
numbers, of which only the order matters; several intents can share a `created_at`.

### ScanOrder

State: the committed rows with their place `<<epoch, seq>>` in the scan order, the
writers' transactions, the cluster's counter of transaction ids, a transaction of
another database, restores and epochs, the cursor of a projection and what it has
read. A transaction inserts one row, as in the prototypes, whose tables have `seq`
for their primary key; the tie-break of a batch's rows by key and revision is words
in `p02_seq_gap.py` and is not modelled. In PostgreSQL `seq` is the id of the
inserting transaction and a scan stops below `Xmin`, the oldest id in flight; in
SQLite it is a counter under the write lock. `Cas` gives a change its id when it
locks the head and a create only when it inserts, which is why ids and revisions
need an argument. `Restore` moves a dump to a cluster whose counter is lower;
`MigrationWaits` and `Migrate` open a new epoch for the rows written since. Source:
`p02_seq_gap.py`, `p05_xid_reset_restore.py`, `p08_xmin_and_xid_timing.py`.

### MatchProjection

State: the log in scan order, the emit stream, the stored cursor, lease, fencing
epoch and partial matches, and for each matcher what it holds in memory.

| Action | Code (`probes/`) |
|---|---|
| `Acquire`, `LeaseExpires` | the lease of `p11_lease_and_crash_order.py` and its epoch |
| `Plan` | `run_matcher` of `p10_match_state_growth.py` over a page: `Advance` is event-time expiry and contiguous runs of one account |
| `Emit` | one match becomes an aggregate under an id made of its key and terminal row (`p04_reemit_idempotent.py`); another match under the same id poisons the projection (`p07_batch_order_and_poison.py`) |
| `Save` | the state update of `Sim.cycle`, after the emissions |
| `Checkpoint` | `advance`: the cursor, if the epoch is still the matcher's |
| `Crash` | a matcher dies anywhere |

Emission, state and cursor are "three independent transactions per cycle"
(`p11_lease_and_crash_order.py:14`), and the fence is in the update of the cursor
alone. So a matcher that dies, or loses its lease, between `Save` and `Checkpoint`
leaves a state that is ahead of the cursor, and a stale one can write its state
behind the back of its successor. `saved` remembers which rows the stored state
counts, and `mixed` that some matcher began while these were not the rows before the
cursor. `ReplayAgrees` and `StepsAreARun` are claimed while that has not happened;
what happens then is under Findings.

## Runs

| Run | Bounds | Shows |
|---|---|---|
| `sqlite` | both SQLite shapes, 2 threads, 1 key, 2 contents, 5 calls, revisions 0-2, any base, a failed checkout | the head is the newest row (I2), only a stale base is refused, the shared connection does no more than the file store and always comes back |
| `postgres` | 2 writers, 1 key, 2 contents of 2 schema versions, 4 calls, clock 0-2, bases that were read | unique revisions, acknowledged = durable, races lost by conflict, log = heads = outbox = ledger (I8), I11, rewinds only to revision 0 |
| `sql_batch` | 2 writers of two builds, 2 keys of 2 streams, 2 schema versions, batches of 2, 2 calls, revisions 0-1, an invalid queue | contiguity, log = heads = outbox = ledger (I8), atomic batches, every call ends, and `VersionedLog` is implemented |
| `rewind` | the smallest instance that shows it | the first finding below |
| `rebuild` | 2 callers, 2 keys, 2 contents, 4 commits, revisions 0-2, one rebuild or verify | deleted heads come back at the newest row, no aggregate loses its head, mismatches have a cause, no head is taken for an orphan |
| `outbox` | 2 workers of two builds, 2 intents, 2 attempts, batches of 1, leases of one instant, a crash, a stop, a redrive | the contract, its liveness included; nothing lost or given up early; one holder, bounded attempts and redrives that stick until a report comes too late |
| `delta` | one field that is absent, 1, true or 2, intervals 2, 3, 4 and none, revisions 0-4, 16 predicates | every row decodes by what it records (I10), an interval may be replaced by a multiple, the head is the fold (I2), scans see what planning saw, refusals have a cause |
| `inline` | processes of schema versions 1 and 2, one raising and one logging, 1 key, 2 contents, one of them unreadable, 2 subscriptions, batches of 2, 3 calls nested up to 2, revisions 0-2 | dispatch after commit (I9), every handler of each dispatched commit runs, failures surface, a conflict means nothing was written, versions never go back |
| `batch_handlers` | those of `inline` | the second finding below |
| `reads` | 2 aggregates of 2 revisions, clock 0-1, builds 1 and 3, pages of 1 and 2 | pages neither skip nor repeat, history is the log, chains reach the declared version |
| `scan` | both backends, 2 writers, transactions of one row, 2 aggregates of 2 revisions, 4 transaction ids, a foreign transaction, a restore | no committed row is passed over, rows of an aggregate come in order, every row is read |
| `matcher` | 2 matchers, 2 accounts, a pattern of 2 rows within a window of 1, 3 rows, pages of up to 2, 3 leases | the cursor never goes back and the projection catches up, or meets a conflict; state and emissions are those of one run that never fails and matches are what the pattern asks for, until a matcher begins with a state written for another cursor |

Several properties are conjunctions of parts with their own names and comments:
`TablesAgree` (types, heads, intents and ledger against the log), `Accounted`
(types, `NoLoss`, `DeadMeansExhausted`), `LeasesHold` (`LeaseExclusive`,
`AttemptsBounded`, `RedriveSticks`), `ReportsAreTrue` (types, `MismatchHasCause`,
`FoundAreRebuilt`), `HeadIsDerived`,
`AnswersAreTrue`, `TraversalsAreWhole`, `ScanIsWhole`, `ReplayAgrees`.

Why the bounds are enough: a race needs two transactions on one key; a rewind needs
a create, a change and a retry (three calls); a fourth and a fifth call let a writer
act on the outcome. Three revisions distinguish a head that is one behind from one
that is two behind. Two keys are what a wait cycle needs, and two schema versions of
a stream what two baselines need: each content is of one of them, so a log mixes
both. In the outbox two workers are needed for a stale settlement, two intents for
ordering, two attempts for one retry and one exhaustion; one crash and one redrive
let each happen in every state. Its unit of time is the lease, which is over at the
next `Tick`, so a worker may stall for as long as it likes after any of its steps;
`Horizon = 0` does not tell overdue rows apart, so which of several overdue rows is
claimed first is left open. The order of claims by `available_at` is not what any of
its properties turns on, and the proofs hold for every horizon, lease and batch
size. Intervals 2, 3 and 4 contain a pair where one divides the other and pairs
where none does, and five revisions reach past the second checkpoint of 2 and the
first of each; fields of a document do not affect each other, so one is enough. In
`inline` a handler's call inside a batch and a call of the other build make three;
one subscription of every kind and one of changes only tell matching apart from
order. In `reads` a clock of two readings and intent ids whose order is that of
nothing else make pages begin among rows of the same instant; a page of one row puts
the cursor on every row. In `scan` two writers are enough to commit in the other
order of their ids, a foreign transaction holds the watermark back without a row,
and four ids let a restored counter fall behind and catch up. In `matcher` two
matchers give a stale owner, two accounts two partial matches, three rows a match,
an expiry and a row left over; three leases are a takeover and the return of the
first. `MaxRevision`, `MaxCommits`, `MaxClock`, `MaxCalls`, `MaxDepth`,
`MaxCrashes`, `MaxRedrives`, `Horizon`, `MaxFailures`, `MaxTime`, `MaxXid`,
`MaxRestores`, `MaxRows` and `MaxEpoch` are bounds of the models, not of the
program.

`CHECK_DEADLOCK FALSE` in the configurations of `SqlStore`, `SqliteStore`,
`HeadRebuild` and `Runtime`: once `MaxCommits` or `MaxCalls` calls have been made
and answered, nothing is left to do; likewise for `DeltaLog` once the log has
`MaxRevision + 1` rows, for `ScanOrder` and `MatchProjection` once every row is
written and read, and for `Reads` once logs and traversal have ended. The outbox
is checked for deadlock.

Fairness. Store: a statement that is not blocked executes and the database
resolves deadlocks (`WF` on each writer's statements and on `DeadlockVictim`);
callers need not call and clients need not crash. Pool: a thread that has the
connection goes on and gives it back, and a thread that waits for the semaphore
gets it when it is there; `threading.Semaphore` promises no order among waiters
and none is assumed. Outbox: `run_forever` polls, so each worker's claim, deliver
and settle are weakly fair, and so is time; a worker that was stopped claims no
more, and crashes are bounded. Scan: transactions end, the projection keeps
scanning, and a migration that waits goes on; no writer has to begin. Matcher:
its loop goes on while it is up, a lease runs out in the end, and crashes are
bounded by the leases; a crash is never due. A matcher that has met a conflict
stays where it is, as every further attempt ends the same way.

## Findings

**The head can move backwards on PostgreSQL** (`rewind`). `_commit_one` reads
head and existing row in two statements; a retried create can read no head, lock
nothing, let the first create and a change commit, then find its own row and
upsert the head from it. The comment at `sql/store.py:238` excludes this. Readers
of the head see revision 0, and writers based on the newest revision get conflicts
until a replay of the newest row or `heads rebuild` repairs it. On SQLite the head
never lags (`sqlite`, proved); on PostgreSQL only revision 0 can be the target
(`postgres`, proved) and the log is never harmed (proved).

**A failing handler keeps the handlers of a batch's later commits from running**
(`batch_handlers`). `src/docs/DELIVERY.md:51` says of inline handlers that
"every handler still runs" and the failures are then raised. That holds within one
commit. `Batch._commit_all` (`runtime.py:210`) dispatches the commits of a batch
one by one and ends at the first `InlineDispatchError`; all of them are durable,
so nothing is retried and the handlers of the later ones never run. What does hold
is `DispatchIsWhole`: every handler of each commit that is dispatched (`inline`,
proved).

Behaviours the models show that contradict no line of the repository, or that no
run is spent on:

- A rebuild on PostgreSQL can put the head of an aggregate behind its log when the
  aggregate was created after the rebuild's `DELETE`: a caller can commit its next
  revision between the reading of the last row and the upsert. Heads that existed
  when the rebuild started come back at the newest row (`RebuildRepairs`, proved).
  Callers that waited for a deleted head are refused with a conflict although
  their base is the newest revision. `verify` on a live store counts a mismatch
  when a commit falls between its statements (`MismatchHasCause`, proved).
- `settle` does not check that its worker still holds the intent, and nothing keeps
  a worker within its lease. A late settlement can revive a dead intent, clear the
  live lease of another worker, or dead-letter an intent that was redriven meanwhile
  and has not been tried since. `LeasesHold` and `DeadMeansExhausted` name exactly
  these as exceptions (`late`).
- With `every` configured, `_decode_log_revision` places the window by its own
  interval, not by the one the row records, so a row written with a larger or
  unaligned interval raises `UndecodableRevision` for reads and for the check of
  every further commit, until the configuration is put back. I10 says that a row
  records what is needed to decode it, and it does: a store without the
  configuration reads it (`EveryRowDecodes`, proved), and so does one whose
  interval is a multiple (`MultiplesDecode`, proved).
- The worker computes `changed` from the stored payloads of two revisions, the
  runtime from upcast documents. Where the two rows have different schema
  versions the worker reports renamed fields that the inline handler of the same
  commit does not see. `where` of `search` likewise filters stored documents, not
  upcast ones. No line says what either means then, so no model states it.
- A deadlock between two batches on PostgreSQL is an `OperationalError`, which
  `commit` turns into `StoreError`, although its comment wants lost races to
  surface as `RevisionConflict` (single requests cannot deadlock:
  `LostRaceIsConflict`, proved).
- `Delta.encode` compares with Python's `==`, so a change that only turns `1` into
  `true` or `1.0` is not in the delta, the check of the commit fails, and the
  write raises `EncodingError` (`RefusedForCause` has such a case). The docstring
  of `encodings/delta.py` says that a checkpoint is written when a stream switches
  to `delta/1`; the code writes one only at multiples of `every`.
- The `CommitResult` of a replay has the time of the retry as `committed_at`, not
  the durable row's (`sql/store.py:249`, `wire.py:49`).
- A handler that writes, or another process, lets a later subscription see revision
  n + 1 before revision n.
- `canonical.verify` is never called by the write path although its module
  docstring says that a gap becomes a write-time error, so a document that does
  not validate again is committed and nothing can be based on it.
- `Outbox.dead_letter` is never read. `src/docs/EVOLUTION.md:35` says that
  `schema check` seeds the ledger of a clean database, and the code only reads it.
  `claim` on PostgreSQL locks the joined `eventic_revision` row `FOR UPDATE`, which
  needs more than the `INSERT` and `SELECT` that `src/docs/OPERATIONS.md:28`
  grants.
- In the prototypes: the window that `p06_delta_scan_cost.py` decodes for a
  checkpoint begins at the delta before it, so that keys that did not change pass
  for changed ones; an event can be found that planning did not see, but none is
  missed (`ScansAgree`, proved). After a restore, a migration that comes when the
  counter has already passed the old rows finds nothing to mend, and rows written
  since may lie before the cursor; `EverythingIsRead` excepts this.
- Also in the prototypes: emission, state and cursor are three transactions
  (`p11_lease_and_crash_order.py:13-18`) and only the cursor is fenced. After a
  death between state and cursor, or a lease lost there, the next matcher counts the
  rows between them a second time, or leaves rows out when a stale matcher has set
  the state back; a match is then missed or invented, or the right one meets another
  path under its id and poisons the projection. `p07_batch_order_and_poison.py:263`
  speaks of a resume from the rows of a checkpoint alone, without a stored state.
  The planned guide asks for one transaction with a fenced state
  (`IMPLEMENTATION_GUIDE.md:973`); no code has it yet. `ReplayAgrees` and
  `StepsAreARun` are exact about it: they end when a matcher begins from such a
  state.

## Proofs

`SqlStoreProofs` proves, for any sets of writers, keys, contents, streams and
subscriptions, any batch size, both backends, and whatever bases callers name:

| Theorem | Statement |
|---|---|
| `TypeCorrect` | `Spec => []TypeOK` |
| `LogStaysContiguous` | `Spec => []LogContiguous` |
| `RevisionsStayUnique` | `Spec => []UniqueRevision` |
| `HeadStaysInLog` | `Spec => []HeadMatchesLog` |
| `AcksStayDurable` | `Spec => []AckedDurable` |
| `BatchesAreAtomic` | `Spec => AllOrNothing` |

The only assumption is `StoreAssumption`, the types of the constants. None of the
properties is inductive. The invariant `IInv` adds, for each writer, what its
open transaction has established when it is about to execute a given statement
(`WriterOK`): its rows continue the log or each other, the heads it wrote are
log rows, the head revision it read is still the revision of some row, past the
CAS that revision is the request's base, the requests already dealt with have
their rows. Each part only asks for rows to exist, so another writer's commit,
which only adds rows, cannot break it (`Monotone`). That no two transactions
hold the same revision is separate (`Distinct`): the unique index refuses a row
of the log and makes an insert wait for an uncommitted one. There is one lemma
per action for types and one for the rest; `SafeStep` joins them.

It also proves `StoreImplementsLog`, `Spec => ImplementsLog`, from the same
invariant: a `CommitTx` is a `Commit` of its batch, because by `WriterOK` every
request of it has its row, every new row has its request, no row has two contents
and there is no gap; all other steps leave the log alone.

The second part of the module adds what the tables owe each other, again for both
backends unless the last column says otherwise.

| Theorem | Statement | Assumes |
|---|---|---|
| `TablesAlwaysAgree` | `Spec => []TablesAgree` | |
| `TimeStaysMonotone` | `Spec => []MonotoneTime` | `~Fabricate` |
| `OnlyCreatesRewind` | `Spec => RewindsOnlyToCreation` | `~Fabricate` |
| `LostRacesAreConflicts` | `Spec => []LostRaceIsConflict` | `MaxBatch = 1` |
| `HeadStaysLatest` | `Spec => []HeadIsLatest` | `Serialized` |
| `OnlyStaleBasesConflict` | `Spec => LatestBaseWins` | `Serialized` |
| `PoolImplementsFile` | `PoolSpec => BehavesLikeFile` | |

Each has an invariant on top of `IInv`. `TablesInv`: a transaction has staged the
intents of exactly its rows and has or sees a fingerprint for the stream and schema
version of each of them, and no two hold entries of the same stream and version.
`TimeInv`: a row is stamped with the `now()` of a transaction that began after its
base was committed; that is what `~Fabricate`, a base the caller has read, is needed
for, since a caller that guesses a base commits next to a row stamped later than its
own transaction. `RewindInv`: who has a head locked sees it as it is, so only a
transaction that found no head can write an older one, and its row is revision 0.
`SingleInv`: a transaction of one request holds nothing another one waits for while
it waits itself; with batches of two the deadlock of the findings is real.
`SerialInv`, for SQLite: at most one transaction is active, the head it sees is the
newest row it sees, and what its CAS has read is still so; on PostgreSQL both
theorems are false (the finding). `PoolInv`: the permit is out exactly when one
thread has it and only that thread has a transaction open; then the guard of `BEGIN
IMMEDIATE` is true whenever a thread begins, and every other statement is the same
in both stores, which carries the theorems for `Serialized` to the shared
connection.

`RuntimeProofs` proves, for any number of processes, builds, contents and
subscriptions, any size of batches and any depth of nested calls
(`RuntimeAssumption`),

| Theorem | Statement |
|---|---|
| `HandlersSeeWhatIsDurable` | `Spec => []DispatchAfterCommit` |
| `DispatchesStayWhole` | `Spec => []DispatchIsWhole` |
| `CallersAreToldTheTruth` | `Spec => []AnswersAreTrue` |
| `OldBuildsStopWriting` | `Spec => []VersionsNeverDecrease` |

The invariant speaks of every frame of every stack (`FramesOK`): its commits are in
the log, the handlers of those it has passed have run, those of the one it is at
have run or are still to run, and it has failures exactly if one of them raised.
A handler that writes pushes a frame and leaves the ones below as they are, and
the log only grows, so no frame can be spoilt from outside.

`HeadRebuildProofs` proves, for any number of callers, keys and contents and any
number of calls of the operator on PostgreSQL (`RebuildAssumption`: single
requests),

| Theorem | Statement |
|---|---|
| `HeadStaysDuringRebuild` | `RebuildSpec => []HeadMatchesLog` |
| `RebuildMends` | `RebuildSpec => RebuildRepairs` |
| `ReportsStayTrue` | `RebuildSpec => []ReportsAreTrue` |

The callers' steps are steps of `SqlStore`, so `IInv` is preserved by `SafeStep`.
What `RInv` adds turns on locks: a caller locks no head but that of its request and
holds that lock for every later revision it has written (`OwnLocks`), no caller has
a lock the operator has (`Apart`), hence nobody publishes a row of an aggregate
whose head is deleted, except one the log already has (`NoRowsForGone`). What the
operator has read of such an aggregate therefore stays its newest row (`ReadOK`),
and as the scan covers all of the heads that were deleted, each is back at COMMIT
(`AllBack`); and as the `DELETE` covers what the `SELECT` before it found
(`GoneOK`), none of that is reported as an orphan. `VerifyOK` does the same for
`verify` with the aggregates nothing was committed to.

`DeliveryProofs` proves, for any number of workers, builds, intents and queues,
any lease, backoff and number of attempts (`DeliveryAssumption`),

| Theorem | Statement |
|---|---|
| `NothingIsLost` | `Spec => []NoLoss` |
| `NotGivenUpEarly` | `Spec => []DeadMeansExhausted` |
| `EverythingAccountedFor` | `Spec => []Accounted` |
| `OneHolder` | `Spec => []LeasesHold` |
| `KeepsPromise` | `Spec => KeepsContract` |

None of them assumes anything about how long workers take. `BaseInv` says that
workers report only on what they hold, "delivered" only after the handler returned
and "dead" only with the attempts they were handed. `LeaseInv` says that while no
report on an intent has come too late, a worker within its lease has the row as it
claimed it (`Held`), which makes holders unique; and that every attempt beyond the
first `MaxAttempts - 1` has a holder or a crash to show for it (`Counted`): a claim
adds a holder, a crash takes one away and is counted, a report in time ends the
claim. `ClaimsBehind` relates the attempts a worker was handed to the row's, which
only a redrive lowers. For the contract, a settlement in time finds its intents
owed, and a late one is a report of the contract that says so.

`DeltaLogProofs` proves, for any fields, values, intervals, conflated pairs and
predicates (`DeltaAssumption`, `ScanAssumption`),

| Theorem | Statement |
|---|---|
| `RowsSufficeToDecode` | `Spec => []EveryRowDecodes` |
| `MultiplesStayReadable` | `Spec => []MultiplesDecode` |
| `HeadsAreDerived` | `Spec => []HeadIsDerived` |
| `RefusalsHaveACause` | `Spec => RefusedForCause` |
| `ScansAlwaysAgree` | `Spec => []ScansAgree` |

The chain of deltas and the fold are recursive functions, and the library's
induction theorems are of no use to the provers here. For the first two theorems
the proof goes around it: the program decodes each row before it inserts it, so
the invariant says that each row decodes from the newest checkpoint its writer
found, that no delta row stands at a multiple of its interval, and that later rows
change neither. What remains is arithmetic about which checkpoint a window finds.
The next two reason about the recursion itself, by least counterexample: the set
of lengths at which two functions defined by one recursion differ is a set of
naturals, and at its least element the step from the one before it contradicts
the definition. That gives what the fold of a longer log is, and what the window of
a row just written decodes to. `ScansAlwaysAgree` uses the same for the fold of a
scan: from the first checkpoint of its window on it has every row's document
(`FoldFinds`), a window of an interval that all others divide has one
(`AlignedReaches`), and where it begins with the delta before a checkpoint it has a
part of that document, in which more keys pass for changed (`DeltaScanSees`). That
nothing sent is missed is then a fact about predicates, by the depth of the tree:
none of them negates, so who sees more changes finds no fewer to hold
(`EvaluateGrows`).

`MatchProjectionProofs` proves, for any number of matchers and accounts, any log,
page size, window and length of the pattern (`MatchAssumption`),

| Theorem | Statement |
|---|---|
| `CursorMovesOn` | `Spec => CursorNeverGoesBack` |
| `ProjectionIsReplay` | `Spec => []ReplayAgrees` |
| `MatchesAreRuns` | `Spec => []StepsAreARun` |

The first is about fencing: epochs are handed out once, who has the epoch of the
lease has begun where the cursor is, and what it has planned lies ahead of where
it began. For the other two, whatever a matcher holds in memory, current or long
superseded, is a place of one and the same replay, as is the stored state with the
rows it counts (`ReplayInv`), and a page planned twice finds the same matches under
the same ids. A matcher that begins takes state and cursor for the same place;
where they are not, `mixed` is set and stays so (`MixedStays`), and the theorems
claim types alone.
The run over the log is recursive; by least counterexample it exists, it is one, a
row appended later does not change it, and a run that stops and begins again from
its state finds what one run finds (`ReplayComposes`). `GoodRun` says of it that
partial matches and found matches are exactly the account's rows between their
first and their last step, within the window, and that the matches of an account
lie one after the other; hence an id determines its match.

`ScanOrderProofs` proves `ScansStayWhole`, `Spec => []ScanIsWhole`, for any number
of writers, aggregates, transaction ids and restores, on both backends
(`ScanAssumption`). `PlaceInv` has three ideas: the place of a row about to be
committed is free and was given out once; the cursor is at a row, or in an epoch
that is closed; and where the live epoch has no row of an earlier cluster, the
cursor is below the watermark and so below whatever will be committed. A row that
a scan does not see lies at or above the watermark, hence beyond the new cursor. A
migration moves the rows of the live cluster to an epoch beyond any cursor.
`OrderInv` holds while the counter has not been set back: a change is given its id
under the lock of the head, so places of an aggregate follow its revisions, and
what a scan reads next are the revisions that come next.

`ReadsProofs` proves, for any aggregates, builds, page sizes and readings of the
clock, and any injective ids of intents (`ReadsAssumption`),

| Theorem | Statement |
|---|---|
| `TraversalsStayWhole` | `Spec => []TraversalsAreWhole` |
| `ChainsAlwaysReach` | `Spec => []ChainsReachDeclared` |

What is listed is at every moment a finite set of places without duplicates, so a
page is its first places beyond the cursor (`PageIs`). `ReaderOK` says that the
cursor is the last place returned, that places were returned in their order, and
that whatever has matched all along and lies at or below the cursor was returned;
a page appends places beyond the cursor and leaves out none below the new one, and
a page that is not full leaves none at all. Other steps only take places from
`always`. A history grows at its end alone, which makes its pages the log itself.
The recursion along a chain is again treated by least counterexample:
after n transitions a connected chain is n versions further, or at the end
(`UpcastReaches`).

## Only model-checked, and not modelled

Liveness (`CommitsEnd`, `ConnectionComesBack`, `Resolves`, which is the contract's
`Resolved`, `EverythingIsRead` and `CatchesUp`) is out of the prover's reach and
stays with TLC. Every other
property of the runs that pass is proved.

Not modelled: wall clocks that differ between hosts or run backwards,
statement-level partial failure inside PostgreSQL, the float arithmetic of
`Backoff`, upcasts of nested records, the `changed` sets of `Commit` envelopes,
validation of documents against pydantic classes, the tie-break among rows of one
transaction in a scan, resetting a projection. Declarations, canonical JSON, the
command line, migrations and the conformance kit keep no state between calls or are
tests; the prototypes outside `008-derived-projection` measure performance or probe
a library.

## Plan

Done: `SqlStore`, `Delivery`, `OutboxContract`, `HeadRebuild`, `DeltaLog`,
`VersionedLog`, `Runtime`, `SqliteStore`, `DeltaScan`, `Reads`, `ScanOrder`,
`MatchProjection`, and the proofs above.

Left: upcasts of nested records, batches of callers against a rebuild, and a
matcher that writes state and cursor in one fenced transaction, to be modelled when
the repository has it.
