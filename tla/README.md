# A verification of the export platform

The repository builds an asynchronous export service: subsystems create export
tasks over HTTP, a scheduler worker queries a business database batch by batch,
renders an XLSX or ZIP file into an object store, and callers download it until
a cleanup job deletes it. The state is one MySQL database and one object store;
every process (API, scheduler workers, cleanup jobs) may run several times.
These TLA+ modules model the parts whose correctness depends on how those
processes interleave, fail and overtake each other, and the pure functions that
two components write down separately and must agree on.

## 1. The system

| Component | Source | State it keeps | Operations | In the model |
| --- | --- | --- | --- | --- |
| Scheduler worker | `src/src/scheduler/worker.ts`, `src/src/workers/scheduler-worker.ts` | status, attempt and lock columns of `export_tasks`, `export_task_leases`, checkpoints, audits | poll, acquire or take over a lease, run a batch, save the checkpoint, look for a cancel request, renew, publish, mark terminal, audit | `ExportScheduler`; the batches of one attempt in `QueryPaging` |
| Task API | `src/src/task-api/service.ts` | the same rows, `export_task_idempotency` | create, list, detail, cancel, retry, download, signed download | creation in `TaskCreation`, cancel and retry in `ExportScheduler`, downloads in `FileDelivery`; list and detail only read |
| Query executor | `src/src/query-executor/index.ts` | none of its own; a cursor in the checkpoint | one keyset batch, second reading of all rows on completion | paging in `QueryPaging`; columns, masking, order and SELECT in `ExportContract`; the parameter check in `ParameterContract` |
| File service | `src/src/file-service/` | `export_task_files`, objects | `publishRows`, download links | publication in `FileDelivery`, splitting and naming in `QueryPaging`, headers in `ExportContract` |
| Object storage | `src/src/object-storage/index.ts` | objects by key | put, read, copy, delete | `FileDelivery` |
| Cleanup job | `src/src/cleanup-job/index.ts`, `src/src/jobs/cleanup-job.ts` | `export_task_files`, objects, audits | poll: list, withdraw, delete, forget, audit | `FileDelivery` |
| Registry | `src/src/registry-config/` | `export_registries` and versions, audits | insert, upsert, enable, disable, read, list | `TaskCreation`; the masking check of a contract in `ExportContract` |
| Repositories | `src/src/repositories/` | the tables | one statement or transaction each | inside the actions that issue them |
| Audit log, auth context | `src/src/audit-log/` | `export_audit_logs` | append | variables `audit` and `audits`; header parsing is stateless |
| Datasource adapters, sample registration | `src/src/datasource-adapters/`, `src/src/sample-purchase-order/` | none | I/O and sample data | the datasource is the variable `table` of `QueryPaging`; the rest is not modelled |
| Server, routes, contracts, configuration, migrations | `src/src/server.ts`, `src/src/routes/`, `src/src/config/`, `src/src/db/` | none while running | dispatch and set-up | not modelled |
| Driver and operation scripts | `src/*.ps1`, `src/scripts/` | task list and progress file | development loop, local stacks | not modelled |

How the parts interact: API calls and workers never talk to each other. They
read and update the same task row, and a cancel of an executing task reaches
the worker through the audit log (`hasAcceptedCancelRequest`). A worker hands
work to another one only by dying or by losing its lease; what the successor
knows is the checkpoint. Workers and cleanup jobs share the file row and the
storage keys. A task carries a snapshot of its registry row, so that workers
never read the registry again, except for its limit.

What is hard in this code: workers that act on what they read statements ago;
a database time that is read at the beginning of a transaction and compared
later; leases that run out under a worker that is only slow; cancels and
retries that race with the scheduler; a verified object that is copied by a
later request; cleanups that die between two deletions; requests that are
repeated while the first one is still running, against a registry that
changes; a table that is read twice and changes between and during the
readings; rules that are checked in two places by different code.
`PROJECT.json` lists these hazards with the line at which each bites.

### What makes each part correct

- *Scheduler*: a subsystem never has more active leases than its limit; nobody
  takes an active lease away; a lock is set exactly while a task executes; no
  batch that was persisted is repeated; every task is closed in the end.
- *Task API with the scheduler*: an attempt ends once, in one outcome; only a
  failed attempt is retried; a dispatched task is only cancelled on request; the
  audit log never says anything untrue of an attempt.
- *File delivery*: a completed task has a file that verifies; nobody gets a file
  before its task is COMPLETED and everybody gets the same one; an expired file
  is withdrawn, then deleted, and can be found by a cleanup until it is gone, and
  so can the files that earlier attempts of a completed task left.
- *Creation and registry*: one task for one client request id, whatever is
  repeated and whenever it breaks off; a task was enabled when it was made, its
  snapshot is one version of its registration, and the executor will accept its
  parameters; a repeated request is answered in the end.
- *Query paging*: every row that stays in the table is exported; the file has
  the number of rows that was counted; a source that does not change is exported
  exactly, however often the attempt failed and was resumed.
- *Contract*: values keep their headers, sensitive values are masked, the order
  of paging is total, its SQL and its check agree wherever the database and
  JavaScript order the values alike, values are bound where their names stood.

## 2. Modules

| Module | What it is |
| --- | --- |
| `ExportScheduler` | the scheduler with the API calls that cancel and retry |
| `ExportLifecycle` | the abstract promise: the life of a task, its attempts and its lock |
| `ExportSchedulerProofs`, `ExportLeaseProofs`, `ExportOutcomeProofs` | theorems and proofs about the scheduler |
| `FileDelivery` | publication, download and cleanup of the file of an attempt |
| `FileOffer` | the abstract promise: making, offered, withdrawn, deleted |
| `FileDeliveryProofs`, `FileOfferProofs` | theorems and proofs about file delivery, and its refinement of `FileOffer` |
| `ParameterContract` | the two checks of a request's parameters |
| `TaskCreation` | creation of tasks, idempotency, and the registry |
| `RequestRegister` | the abstract promise to a client that repeats a request |
| `TaskCreationProofs` | theorems and proofs about creation |
| `QueryPaging` | an attempt that pages through a changing table, and the parts of its file |
| `QueryPagingProofs` | theorems and proofs about paging |
| `ExportContract` | field mappings, masking, order and SELECT, as functions |
| `ExportContractProofs` | theorems and proofs about these functions |
| `MCExportScheduler`, `MCFileDelivery`, `MCTaskCreation`, `MCQueryPaging` | the instances for TLC; the last also states the properties of `ExportContract` |

The modules meet at the task: `TaskCreation` ends where `ExportScheduler`
begins, with a pending task and its snapshot; a batch of `ExportScheduler` is
one round of `QueryPaging`; the publication at the end of `QueryPaging` is a
publisher of `FileDelivery`. Each module abstracts its neighbours to what the
code lets through: `ExportScheduler` a batch to its three outcomes, `QueryPaging`
leases to one worker that may die, `FileDelivery` a rendered file to a body.

### ExportScheduler and the code

One action is one statement or one transaction; between two of them a worker
only has its local variables, here `job[w]` with the program counter `pc[w]`.

- `status`, `attemptNo`, `lockOwner` are columns of `export_tasks`. `lockLeft`
  is `lock_expire_at` minus the database time, in ticks; it reaches
  `-(MaxTrxAge + 1)` and stays there. `previousOwner` is the takeover evidence
  of `export_task_leases`, `checkpoint` the checkpoint row of each attempt
  (batches done, retry count, backoff pending), `published` the attempts whose
  file row and object exist, `audit` the set of audit records with result
  SUCCESS or ACCEPTED.
- A transaction that compares times (`acquireNextLease`,
  `renewLeaseAtBatchBoundary`, `markTaskTerminal`) reads the database time in
  its first statement. `BeginTrx` is that statement, `trxAge[w]` the ticks since,
  and `LeftAtTrx` what the transaction believes a lease has left.
- `AcquireNextLease` is one step although it is many statements: the candidate
  rows and the registry rows of the subsystem are read `FOR UPDATE`, so nothing
  but the time it read can be stale. `Candidate`, `Read` (ORDER BY, LIMIT),
  `SlotFree` and `Admissible` are its conditions; it takes the first admissible
  candidate and keeps the attempt.
- `SaveCheckpoint` and `PublishRows` check no lease, as in the code.
  `RenewLease`, `EnsureLease` and `MarkTaskTerminal` act under `HoldsLease`.
- `StepFails` is any other error inside the `try` block of
  `processAcquiredLease`; `WorkerStops` a crash, or an error that escapes the
  poll. A worker restarts under the same id and knows nothing.
- A cancel is the sequence `CancelReads`, `CancelUpdates`, then `CancelRereads`
  or `CancelLooksAgain`, then `AppendAudit`; a retry is `RetryReads`,
  `RetryFailedTask`, `AppendAudit`. `CallStops` ends a call anywhere.
- Left out: the second count of renewals, result counters, request ids, error
  codes, and what a batch queries. A batch succeeds, fails with retries left, or
  fails for good.

### FileDelivery and the code

An export is one attempt of a task (`TaskOf`); `holder` stands for its active
lease, whose life `ExportScheduler` models. The attempts of a task take turns: an
attempt is rendered or asked for when those before it are FAILED (`InTurn`),
because only `retryFailedTask` makes a new one. One action is one statement or one
request to the object store.

- `Render` reads the time, which fixes the date in both keys and the retention,
  and renders a body; the body may differ from one publisher to the next,
  because the rows are read again. Then `PutObject`, `VerifyObject` (read back
  and compare), `PublishObject` (the store copies what the temporary key holds
  *now*), `SaveFileMetadata` and `Mark`, which closes the task only for the
  holder. `PublishFails` leads to `Mark` with FAILED.
- The row's `ready` stands for `published_at`, `delivery_ready_at` and
  `checksum_verified_at`, which the code writes together; `key` for the date in
  the two storage keys, which are nulled together; `body` for checksum and size.
- `FindTask`, `FindFile`, `StreamBody` are the statements of both download
  handlers; with a link, the key that was signed must be the key in the row. A
  refusal ends the call. `CallEnds` covers an expired link, missing permission
  and a dying process.
- `Expired` is the WHERE of the listing. Its join of files and tasks leaves the
  attempt out (`export-file.repository.ts:126`): what must be COMPLETED is the
  task (`TaskCompleted`), and the file that a FAILED attempt registered, before
  its worker failed at the terminal mark, is a candidate as soon as a later attempt
  is COMPLETED. It is withdrawn, deleted and audited like any other. Until then,
  and for ever if no attempt completes, it is none.
- `ListExpired` reads the window of candidates once; `Invalidate`,
  `DeletePublished`, `DeleteTemp`, `MarkObjectDeleted`, `RecordDone` handle one
  after the other; `CleanupFails` is the `catch` block, `CleanerStops` a crash
  or an error outside the `try`. Deleting what is gone succeeds (404).
- The day is the unit of time. Task events and the audits of refused downloads
  are written and never read, and are left out.

### TaskCreation, ParameterContract and the code

- `registry` is a row of `export_registries` for each task code, `versions` the
  rows of `export_registry_versions`, `tasks` the rows of `export_tasks` with
  the request and the snapshot of the registry row, `idem` the rows of
  `export_task_idempotency`, `audits` the audit records. A row's `schema` stands
  for everything that `configSnapshotDigest` covers, its `formats` for what the
  digest leaves out (limits, retention, datasource).
- `createExportTask` is `Ask` (permission and fields of the body, then), one
  step per statement: `LookUpRegistry`, `FindClaim`
  (`findByIdempotencyScope`), `FindTask`, `GuardsReject`, `CreatePendingTask`
  (one transaction for the task and its idempotency row) or `DuplicateKey` (the
  primary key rolls it back), `AuditCreation` or `RejectWithAudit`, `Answer`.
  `call[c]` holds what the call has read, above all the registry row: nothing is
  read `FOR UPDATE` here, and every step may act on an old row.
- A request without `clientRequestId` has `NoKey` and goes straight from the
  registry to the insertion. The scope of a key is task code, tenant and
  operator; a key of the model is a client request id with its tenant and
  operator.
- `CallBreaks` is a dying process, a failing statement or a lost answer, in any
  step. The client of a call without a definite answer repeats the request
  (`AskAgain`), as it does after INTERNAL_ERROR.
- An administrator's call writes first and appends its audit in a second step
  (`AuditRegistryCall`); between the two it may break. `InsertRegistry` is POST,
  `UpsertRegistry` PUT, which carries the enabled flag of its body over whatever
  was set meanwhile, `SetRegistryEnabled` enable and disable.
- `prior` and `open` of a call, and `open` of a task, exist to state the
  properties: the claim that stood when the call began, and whether the task code
  was enabled at some moment since. `told` is what clients were answered.
- `ParameterContract` has both parameter checks as they are written:
  `AcceptedAtCreation` (`assertRegistryParameterSchema`) and
  `AcceptedAtExecution` (`validateParameterSchema`). They are different code and
  the second is the laxer one.

### QueryPaging, ExportContract and the code

- `ckpt` is the checkpoint row (cursor, processed count, retry count), `work`
  the local variables of a worker between two statements, `table` the business
  table, `file` the published rows with the number of parts, whether the name
  ends in `.zip` and whether the content is an archive.
- `QueryBatch` is `processQueryBatch`: a page behind the cursor, the look-ahead
  row, the limit, and on the last page (unless it is the first) the second
  reading `collectCompletedRows`, of which `CollectPage` is one page. It stops as
  soon as it has as many rows as were counted; `CollectEnds` compares the
  numbers. `QueryRefused` and `CollectRefused` are `validateCursorRows`, which
  looks at the rows of a page only. `RetriesOrFails` is the retry of
  `processAcquiredLease`, which keeps the cursor.
- `SaveCheckpoint`, `PublishRows`, `MarkCompleted` follow, and `WorkerStops` ends
  a worker between any two steps; whoever resumes has the checkpoint only.
- A page is a set of sort keys, and rows may share a key: the registry does not
  ask for a unique `cursorField`. `Insert` and `Delete` change the table at any
  time. `counted`, `steady` and `late` exist to state the properties: the keys
  that `processed` counts, the rows that were there all along, and whether a row
  was inserted that the counting had already passed.
- `ExportContract` translates the functions by what they return: `Columns` and
  `FieldHeaders` (mappings parsed twice, by executor and file service), `MapRow`
  and `RowKeys` (an object's keys in JavaScript's order, array indices first),
  `MaskingRegistered` and `MaskingExecuted`, `MaskPhone` and `MaskName`,
  `PagingOrder`, `AfterCursor` (the SQL predicate) and `Passes` (the check of the
  cursor), `CompileQuery` with its placeholders and values.
- A value of a row (`RowValues`) is a number, something that becomes a text, or a
  null, and has three places, which need not agree. `at` is its place in the
  order of the database: what ORDER BY and the predicate go by. `literal` is the
  place there of what `normalizeCursorValue` writes into the cursor, which is
  another one for a time with microseconds (a `Date` has milliseconds). `text` is
  its place under `localeCompare`, which `CompareValues` goes by unless both sides
  are numbers; a DECIMAL and a time are texts there. `HasToken` is the error for
  a null in a row of the page; in the database a comparison with null is not
  true (`Follows`, `Equals`).

## 3. Runs

| Run | Asks | Instance |
| --- | --- | --- |
| `sched_calls` | all safety properties of scheduler, cancel and retry, and that they implement `ExportLifecycle` | 1 task, 2 workers, 1 call at a time, 2 attempts, a lease of 2 ticks, one lost under its worker, transactions 1 tick old |
| `sched_limits` | `WithinLimits` when the snapshots of a subsystem carry different limits | 4 tasks in 2 subsystems, 3 workers, a window of 3 candidates |
| `sched_settles` | every task is closed; no checkpoint goes back | 2 tasks, limit 1, window 1, 1 retry with backoff, 1 crash |
| `sched_x_cancel` | does an accepted cancel keep a task from completing? no | 1 task, 1 worker, 1 call |
| `sched_x_checkpoint` | does a lost lease keep checkpoints monotonic? no | 1 task, 2 workers |
| `sched_x_limit` | does the limit hold when a renewal acts on an old time? no | 2 tasks, 2 workers |
| `sched_x_evidence` | is the takeover evidence kept? no | 1 task, 2 workers |
| `files_offer` | downloads and cleanup against `FileOffer`, keys and EXPIRE_MARKs, while no publisher is overtaken (`MaxStalls = 0`) | 2 attempts of 1 task, 2 publishers, 2 cleanup jobs, 1 download, 2 bodies, a window of 1, 3 days, 1 crash (1.03 million states) |
| `files_cleanup` | the files of a completed task are deleted in the end; closing once and retention, when a publisher is overtaken (`MaxStalls = 1`) | 2 attempts of 1 task, 2 publishers, 1 cleanup job, 1 body, a window of 1, 3 days, 1 crash (174,007 states) |
| `files_x_overtaken` | does a completed file verify when a publisher was overtaken? no | 1 export, 2 publishers, 1 lost lease |
| `creation` | creation against `RequestRegister`; snapshots, guards, audits; every call is answered | 2 calls with 2 requests between them, chosen from 5, 1 administrator with 2 calls, 2 contracts, 1 call that breaks |
| `paging` | what an attempt exports of a table that changes; the functions of `ExportContract` | 6 rows, the last two with one key, batches of 2, at most 4 rows, parts of 3, 1 retry, 2 changes, 1 fault, 1 crash |

The bounds are enough for the cases they are for: two processes and one lost
lease give every pair of overtaking and overtaken worker; a second attempt is
the first one that a stale actor can meddle with, and a third would only repeat
it; with three workers and limits 1 and 2 a slot is contested while another is
taken under a smaller limit; a window smaller than the number of candidates
makes the head of the queue matter. In file delivery two attempts of one task
are the least with a FAILED one whose file is cleaned up after another has
COMPLETED; a second task would share nothing with the first but the window, which
two attempts fill. In `creation` the two requests can be the
same, different under the same key, or without a key, and the administrator can
put any two of its calls between any of their steps; a third request would meet
the same claim as the second. In `paging` six rows make tables over and under
the limit, of up to three pages, with a tie within a page and across its end;
two changes are a deletion that hides an insertion from the count; one retry and
one crash resume every checkpoint. Symmetry is used over workers, publishers,
cleanup jobs, downloads and bodies in runs that check safety only. Named
bounds: `MaxAttempt`, `MaxStops`, `MaxStalls`, `MaxTrxAge`, `LastDay`,
`MaxAsks`, `MaxWrites`, `TaskIds`, `MaxChanges`, `MaxFaults`.

The five properties of `ExportContract` depend on no variable. They are
quantified over all small inputs (three columns, three `orderBy` entries, pairs
of rows of two fields with numbers, texts in both orders, a cut-off time and a
null, texts of up to seven characters, templates of three words and every order
of the four scope names) and evaluated once in `paging`, in its initial state with the empty
table (`AtStart`).

### What the violation runs show

- **A cancel can be accepted and lost.** The worker looks at the audit log once
  after each batch (`worker.ts:480`). A request accepted after that look and
  before the terminal mark is audited as ACCEPTED and the task ends COMPLETED.
- **A checkpoint can go back.** `saveCheckpoint` (`worker.ts:471`) asks for no
  lease. A worker that was taken over in the middle of a batch writes its older
  progress over its successor's.
- **A limit can be exceeded.** `renewLeaseAtBatchBoundary` (`worker.ts:618`)
  reads the time, waits for the row lock, and compares with the old time. A
  lease that ran out meanwhile, and whose slot was given to another task, comes
  back to life. With a clock that stands still inside a transaction
  (`MaxTrxAge = 0`) the limit is kept: `sched_limits` shows it and `LimitsHold`
  proves it.
- **Takeover evidence is erased** by the next poll of the new owner, which
  updates the same lease row with `previous_lock_owner` null (`worker.ts:365`).
- **A completed file may never verify.** The storage keys name the attempt, not
  the executor (`file-service/index.ts:119`). A publisher whose lease ran out
  during `publishRows`, which renews nothing, and its successor write the same
  keys; what is copied to the published key need not be what was verified, and
  the metadata may be of the other body.

### What the conditions of the properties stand for

Some properties of the passing runs have a condition or an exception that the
repository's documents do not have. Each was put there because TLC found the
counterexample when it was left out:

- **A publisher that lost its lease** registers the file of an attempt again, and
  brings back what a cleanup has withdrawn or deleted. `ImplementsOffer`,
  `CompletedFileVerifies`, `WithdrawnWhenExpired`, `ExpireMarkIsTrue` and
  `KeysKeptUntilDeleted` are promised while no publisher is overtaken, in
  `files_offer` by `MaxStalls = 0`. `ClosedTasksStayClosed` and
  `ObjectsKeptForRetention` are promised without that condition, and
  `files_cleanup` checks them with an overtaken publisher.
- **An EXPIRE_MARK may name a FAILED attempt**, whose task a later one completed.
  `ExpireMarkIsTrue` asks that the attempt is over and the task COMPLETED.
- **A valid page may be refused, and rows may be skipped, where a cursor is not
  the value.** `PagingOrderIsTotal` says that the check of the cursor passes what
  the predicate selects where both sides order the values alike. They need not:
  `localeCompare` is no collation, and a DECIMAL is compared as a text, so that
  10.00 comes before 9.00 and the page is refused
  (`query-executor/index.ts:828`). A time with microseconds is cut off in the
  cursor (`:859`): ascending, its row is met again and refused; descending,
  its neighbours within the millisecond are skipped in silence, and the property
  speaks of ascending orders. A null in a field of the order fails the batch
  whose page it is in; in a descending order it comes last, and the predicate of
  a second or later page does not select it. The property speaks of rows without
  nulls.

- **A steady row can be missing** from a COMPLETED export: `SteadyRowsExported`
  excepts `late`. A row that is inserted behind the cursor after it was passed
  is not counted; the second reading meets it, has the counted number one row
  early, and stops before the last row (`query-executor/index.ts:536`).
- **Of rows with the same key at the end of a page only one is exported.** The
  check for repeated cursors looks at the rows of a page, not at the look-ahead
  row, and the next page begins behind the key. `acceptance-criteria.md:57`
  (AC-E023) and `prd-lite.md:120` want the task to fail. This is why
  `SteadyRowsExported` speaks of keys and `QuietSource` asks for unique ones.
- **A repeated request may be refused** where `acceptance-criteria.md:22`
  (AC-014) and `prd-lite.md:110` want the first task's id: the registry is
  looked up before the idempotency row, so a code that was disabled meanwhile
  answers TASK_DISABLED (`ReplayAnswered` lists it), and of two requests that
  run at the same time the second is answered INTERNAL_ERROR (`DuplicateKey`),
  until it is repeated.
- **A phone rule that preserves no suffix shows the whole text** behind its
  stars: `text.slice(-0)` (`query-executor/index.ts:652`). `MasksHide` asks for
  a suffix of at least one.
- **A ZIP of one part is a workbook named `.zip`**
  (`file-service/index.ts:305`). `PartsHoldFile` makes the name and the content
  agree for XLSX exports only; an archive is always named so.
- **Duplicate headers, and headers that look like array indices, make every
  export with rows fail** with FIELD_MAPPING_INVALID, although the registry
  accepts them; `ColumnsKeepTheirHeaders` says that whatever does not fail is
  right.
- A creation that breaks off before its audit is answered by its claim when it
  is repeated, and never gets a creation audit: `AuditsAreTrue` speaks of those
  who were told CREATED.

### Fairness

`sched_settles` assumes that polls recur (`setInterval` in
`workers/scheduler-worker.ts`) and statements return (weak fairness of each
worker's step), that a call in flight is answered, that backoffs elapse, and
strong fairness of the clock, which other steps cannot stop. Nothing is assumed
of clients or of errors; crashes, lost leases and user retries are bounded.
`files_cleanup` assumes that cleanup polls recur, days pass, and each of the
two deletions and the update after them succeeds if it is tried again and again
for the same file (strong fairness): with a store that refuses one file for ever
the window may stay full of such files. Nothing is assumed of publishers, so that
`ExpiredFilesGo` speaks of what is so from some moment on. `creation` assumes weak fairness of the
steps of each call: the server goes on with a request it has, and a client
without an answer repeats it; nothing is assumed of administrators, new
requests or breaks, of which the last are bounded. `paging` assumes weak
fairness of the worker's step, which is the poll interval again.

## 4. Proofs

All theorems hold for every value of the constants that satisfies the named
assumptions of their module; nothing else is assumed except where said.

### The scheduler

`IInv == TypeOK /\ StaleKnowledgeIsTrue` is inductive (`Invariant`).
`CompletedIsPublished`, `CanceledOnRequest` and `AuditTellsOutcome` are not: a
worker at its terminal mark or audit, or a call about to append its record, may
have been overtaken, so the invariant must say what each process still knows.
`StaleKnowledgeIsTrue` says exactly that, of the attempt a process is about and
not of the present row: an attempt that was started stays started, one that came
to an outcome keeps it (`Stable`), published files and audit records only grow
(`Grows`), and the task row moves in a few ways only (`DbSteps`, `TaskMoves`).
`WorkerKnowsStep`, `CallKnowsStep` and `AuditKnowsStep` carry it through every
action.

- `ExportSchedulerProofs`: `TypesHold`, `StaleKnowledgeHolds`,
  `CancellationIsAsked`, `CompletionIsPublished`.
- `ExportLeaseProofs`: `LocksMatch`; `LeasesAreRespected`, where the age of a
  transaction makes it see a lease as longer, never shorter, than it is;
  `LimitsHold`, under the assumption `MaxTrxAge = 0`, by counting the active
  leases before and after the one that is granted (`NewlyActive`, `LimitStep`);
  `CheckpointsOnlyGrow`, under the assumption `MaxStalls = 0`, from a second
  invariant, `BatchesAreOwn`: a worker at a batch still has the lease of its
  task, is on the task's present attempt, and has counted no less than its
  checkpoint.
  `sched_x_checkpoint` shows that the assumption is needed.
- `ExportOutcomeProofs`: `AuditIsTrue`; `ImplementsTheLifecycle`, with the audit
  log as the memory of accepted cancels, the locks as executors and the
  published attempts as deliveries.

### Creation

`TaskCreationProofs`, from `RequestsAssumption`, `BodiesAssumption`,
`CreationConstants` and `NoneAssumption`. The inductive invariant is
`TypeOK /\ DataIsTrue /\ CallsKnow`. `DataIsTrue` is about the tables: every
registry row has the digest of its contents and is a listed version, every task
comes from such a row and an accepted request, every claim names a task of its
own whose request it digests, every audit record is true. `CallsKnow` is what a
running call has learnt so far: the row it read was such a row, a claim it found
is still there, the task it inserted exists. That survives the steps of all
others because the tables only grow (`TablesGrow`, `StillKnows`), and there is
one lemma for each step of a call. From it follow, for any number of clients,
keys, codes and contracts: `TypeOK`, `ReplayAnswered`, `SnapshotIsAVersion`,
`DisabledIsRefused`, `AuditsAreTrue`, the refinement of `RequestRegister`, and
`CreatedIsExecutable`, which rests on `CreationImpliesExecution`: whatever the
check at creation accepts, the one at execution accepts, for every schema.

### Paging

`QueryPagingProofs`, from `RowsAssumption`, `PagingCounts` and
`FormatAssumption`: for every finite table, batch size, limit and part size. The
inductive invariant is the conjunction of

- `CheckpointCounts`: the processed count is the number of counted keys, all at
  or before the cursor;
- `BatchIsNext`: a batch at hand lies behind the checkpoint;
- `NothingMissed`: unless a row came late, every key of the table up to the
  cursor is counted;
- `ReadingIsTrue`: what the second reading has holds every steady key up to its
  own cursor, and a reading whose number agreed holds them all;
- `FileIsMade` and `QuietIsTrue`, the same of the file, and of a source that does
  not change.

A page is a prefix of what is behind the cursor (`PageIsPrefix`) and the last
page is all of it (`LastPageIsAll`); both need that a finite set of keys has a
largest one, which is taken from the well-foundedness of finite subsets rather
than from induction over an operator. The second reading stops at the counted
number; `FullReading` shows that it has then passed the counting cursor, or has
exactly the counted rows, which without a late row are all rows up to there.
The parts of a file are intervals of ranks, and every rank is taken
(`RanksInOrder`, `EveryRankIsTaken`, `Quotient`). From it follow `TypeOK`,
`SteadyRowsExported`, `CountsAgree`, `QuietSource`, `PartsHoldFile` and
`CheckpointOnlyAdvances`.

### File delivery

`FileDeliveryProofs`, from `ExportsAssumption`, `PublishersAssumption`,
`BodiesAssumption` and `DeliveryCounts`, for any number of exports, publishers,
cleanup jobs, downloads and bodies. The invariant is

    Inv == TypeOK /\ RecordsAreWhole /\ TasksGoOn /\ (stalls = 0 => Undisturbed)

`RecordsAreWhole` is what the types rest on: whoever publishes does so within
the clock's bound, a row with keys has an expiry, a ready row a body. `TasksGoOn` is
about the attempts of a task: a lease is of an open attempt, and an attempt of
which there is any trace comes after attempts that FAILED. So a task has at most
one COMPLETED attempt, no later one is begun, and what the cleanup takes of
earlier ones is over; that holds whoever is overtaken.
`Undisturbed` is what holds until a lease runs out under a publisher at work,
and the condition is needed: `files_x_overtaken` shows a completed file that does
not verify after one lease ran out. With the same `MaxStalls = 1`, TLC also
finds `ExpireMarkIsTrue` and `KeysKeptUntilDeleted` violated (`LastDay = 3`, one
cleanup job), since a late publisher stores or registers again what a cleanup
has deleted. `WithdrawnWhenExpired` takes three publishers and `MaxStalls = 2`: one late
publisher makes the completed file look expired, the cleanup lists it, the
other registers a later expiry, and the cleanup withdraws that file a day early.

None of the properties is inductive by itself, since each process acts on what
it saw steps ago; so the invariant says what each still knows:

- `PublishersKnow`: a publisher at work has the lease, and the objects it has
  written are its own body, at the key its next step reads;
- `FilesAreTrue`: the published object of a COMPLETED attempt's ready file is the
  body of its row, a withdrawn one is past its day, a marked one is without keys,
  and nobody was given anything but the body of a completed export;
- `CleanersKnow`: the candidates a cleanup job has listed are of attempts that are
  over, FAILED or COMPLETED, of a completed task, and expired, with the key it
  listed or none, and the first of them is as far withdrawn and deleted as the
  job's program counter says;
- `CallsKnow`: a download that saw a completed task will see the same body again,
  and has been let through by the row that was there.

They hold each other up: a cleanup cannot touch what a publisher writes because
its candidates are of attempts that are over, a publisher not what is completed
because it has the lease of another, open attempt. From them follow `CompletedFileVerifies`, `WithdrawnWhenExpired` and
`ExpireMarkIsTrue` in every state with `stalls = 0`, and under `MaxStalls = 0`
the action property `KeysKeptUntilDeleted`. `FileOfferProofs` proves under the
same assumption that `FileDelivery` implements `FileOffer`: publishers take one
visible step, `Mark` (`PublisherOffers`), downloads `Take` what is offered when
they are let through (`FindFileTakes`) and then `Give` or `GiveUp`
(`StreamBodyGives`, `TakerLeaves`), cleanups `Withdraw` and `Delete`
(`CleanerWithdraws`), the clock and lost processes none. A download that was let
through may get the file after its withdrawal, for the code reads the row once;
`Take` says that nobody is let through then.

What remains true once a publisher was overtaken bounds the damage. A second
invariant, `LastingInv`, asks for no lease to last:

    LastingInv == TypeOK /\ RecordsAreWhole /\ Lasting

Three actors act on old knowledge, and each has its conjuncts. A publisher that
was overtaken may still store and register, but to close the export it needs the
lease, and a lease is of an open export (`TasksGoOn`); whoever is about to
complete has registered before (`CompletersRegistered`), and no later step takes
the expiry away. The registration writes key and expiry together, so a row never
mixes two publications (`FilesAreDated`); what a cleanup job lists is then
expired by its own key, and stays so while others register another day
(`CandidatesAreDated`). A download reads the task before the file, and what it
saw completed stays completed (`CallsSawCompletion`), as does what was given or
linked; what was cleaned is over, of a completed task (`OutsAreCompleted`). From them follow, for any number of lost
leases, `OnlyCompletedFilesLeave`, `ClosedTasksStayClosed` and
`ObjectsKeptForRetention`. So a download after an overtaking may find no body, or
one that is refused because it does not verify, and a file may be withdrawn a day
early; its objects may be overwritten, but they are not deleted before their
retention is over. The run `files_cleanup` checks the last two with a lost lease.
Outside the runs TLC found all three true with one export, two publishers, one cleanup job and one download,
one crash and two lost leases (1.4 million states).

### Contract

`ExportContractProofs` proves what `paging` checks on small inputs for inputs of
any length, without any assumption on the constants:

- `MaskingAgrees`: the registry's check of the masking rules and the executor's
  give the same answer, for any mappings and rules;
- `ColumnsAlwaysKeepHeaders`: a row that the file service takes has every column
  under its own header, in order; it takes every row whose headers differ and
  are no numbers;
- `MasksAlwaysHide`: a mask hides a character of any text that has one, and shows
  at most what the rule preserves, for any prefix and any suffix but the empty;
- `PagingOrderIsAlwaysTotal`: the order of paging names every field once and the
  cursor field always. Of two rows without nulls that differ in the cursor field
  exactly one is selected behind the exact cursor of the other, however
  JavaScript orders their values; the check of the cursor passes exactly what is
  selected, where both order them alike; and a cursor that is cut off skips no
  row of an order that only ascends;
- `ValuesAlwaysMeetTheirNames`: in the compiled SELECT every value stands where
  its name stood, the parameters in the query template, the scope's in the scope
  template, the cursor's behind their fields, and the limit at the end, for
  templates and orders of any length and any number of values of a name.

The first, second and fourth rest on sorting. `ExportContract` sorts with `InOrder`, which
puts at place n the member that n - 1 others come before; `InOrderSorts` shows
that for a strict total order on a finite set this is a sorted permutation, by
counting predecessors, which needs no induction. The rows of the fourth are of
numbers, texts and nulls, with the three places of a value independent of each
other; predicate and check both decide by the first field of the order in which
the rows differ, each by its own places (`SelectedByFirst`, `ComparedByFirst`),
and where the places are ordered alike this is the same field. That a business
database and JavaScript do order texts alike is the condition, and nothing in
the code secures it. The theorems named `...InTheRun` are the runs' properties,
which follow from the general ones.

The last rests on counting. A statement with as many values as holes takes them
all (`Fits`), two such statements take theirs one after the other (`FilledBoth`),
and so do any number (`FilledAll`). That is an induction over the pieces, and
`UpTo` makes it with a set of numbers in place of a predicate: a smallest number
that is not in the set would follow one that is. `FlattenSeq`, which is defined
by `CHOOSE`, is unfolded the same way: the beginnings of a concatenation exist
(`BeginningsExist`), and its last one is what `FlattenSeq` returns
(`FlattenIsLast`). The words of a template are texts and names; that no text has
a `?` of its own the code does not check (`validateTemplate`), and such a `?`
would move every later value one place.

### Only model-checked

Liveness under fairness is beyond the prover: `EverythingSettles`,
`ExpiredFilesGo`, `AnswerComes`, `AttemptEnds` stay with their runs.

## 5. Not modelled, and the plan

Not modelled for good: the XML and ZIP bytes of a workbook, the lexical checks
of a template for unsafe keywords, HTTP parsing, authentication headers,
configuration, migrations and operation scripts; they have no state that
outlives a call. Task events are written and never read. A listing and the
progress of a task only read.

The driver scripts (`codex-loop.ps1`) have a loop worth a model: it selects a
task, has it implemented, reviewed and tested, and commits. It writes
`passes = true` before the final gate and the commit, and its reviewers run
after the test with write access, so that what is committed need not be what
was tested. It shares nothing with the export service and is left out here.

By lines, the larger part of the repository is third-party skill scripts under
`.agents/`, there twice; the service with its tests and scripts is about a
third.

What is left of the plan: the driver loop.
