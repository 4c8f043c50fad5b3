# Emmett in TLA+

Emmett is a TypeScript library for event sourcing. Applications append messages to streams through
an event store (in memory, PostgreSQL, SQLite, MongoDB, EventStoreDB), decide what to append in
command and workflow handlers, and follow what was appended with consumers, whose processors
(reactors, projectors, workflows) keep checkpoints and locks. This directory models the parts where
interleavings, crashes, limits and order decide whether the library is correct. TLC checks the
models on small instances; TLAPS proves what matters most for every value of their constants.

Paths below are relative to `src/packages` of the repository.

## Inventory

| Component | State | Operations | What is hard | What makes it correct |
|---|---|---|---|---|
| PostgreSQL message log (`emmett-postgresql`, `schema/appendToStream.ts`, `readMessagesBatch.ts`, `readLastMessageCheckpoint.ts`, `pollingMessageSource.ts`) | rows of streams and messages, transaction ids, the sequence of global positions; the checkpoint of each reader | append (one transaction), poll a batch, start from BEGINNING or END | transactions commit in another order than they take ids; row locks; rollbacks leave holes | streams numbered without gaps, no message passed over or given twice, readers see one order |
| Async processor over PostgreSQL (`processors.ts`, `processorsLocks.ts`, `storeProcessorCheckpoint.ts`, `postgreSQLProcessorLock.ts`) | row of `emt_processors`, status of the projection, fields of each processor, transaction in hand, awaiters | start, acquire and release the lock, handle a batch, store the checkpoint, close, await | several processes, lock timeouts, failed commits, crash and restart, shutdown during a batch | one instance at work, every message handled once and in order, checkpoint stands for what was handled, awaiters are told |
| Task processing (`taskProcessor.ts`, `taskScheduler.ts`, `abort.ts`) | queue, heap, groups, slots, timer, pending promises | enqueue, abort, expire, release early, wait for the end, stop | calls from inside of tasks, abort against start, tasks that never end | one task of a group at a time, slots counted, no work held back, every caller answered |
| Command handling (`handleCommand.ts`, `retry.ts`) and the appends of the five event stores (`inMemoryEventStore.ts`, `inMemoryDatabase.ts`, `schema/appendToStream.ts` of PostgreSQL and SQLite, `mongoDBEventStore.ts`, `eventstoreDBEventStore.ts`) | the stream, the inline read model, the version that each handler read | aggregate, decide, append with an expected version, project inline, retry | conflicts between read and append, awaits between read and write, projections that fail | decisions are made on the state they are appended to; callers are told the truth |
| Workflows (`handleWorkflow.ts`, `workflowProcessor.ts`) | the workflow's stream (inbox and outputs), checkpoint, instances | store an input, decide, append input and outputs, handle outputs | redelivery after crashes and refused checkpoints, two instances at once | an input is recorded once, none is lost |
| Consumer and sources (`consumers.ts`, `processorStartPositions.ts`, `fusionStreams.ts`, `subscriptionMessageSource.ts`, `pollingMessageSource.ts`, `mongoDBMessageSource.ts`) | processors with their positions, running flag, chunk, subscription | start, stop, close, poll, subscribe again, hand out a chunk | one of several processors fails, abort at any point, subscriptions that break | every processor sees the log from its own position once; draining drains; stop ends |
| Checkpointers of SQLite, EventStoreDB, MongoDB, in memory | row, stream of checkpoints, documents; what each instance holds | read, store, reset | several instances, lost answers, cached revisions, read and write in two calls | one register that only moves from what is known, and covers what was handled |
| Projections and rebuild over PostgreSQL (`projectionsLocks.ts`, `registerProjection.ts`, `postgreSQLProjection.ts`, `rebuildPostgreSQLProjections.ts`) | status of a projection, its advisory lock, its read model, the checkpoint of its rebuild | inline handling, register, activate, deactivate, rebuild | appends that are open beside rebuilds and registrations | a projection takes every message once, by one of the two ways |
| Execution guards, in-process locks (`executionGuards.ts`, `utils/locking`) | pool of resources, held locks, pending initialization | acquire, release, execute, reset, stop | a resource that arrives after the stop, release by somebody else | at most the given number of resources, one holder, all closed in the end |
| Message bus (`messageBus`) | handlers, scheduled messages | subscribe, send, publish, schedule | a handler that fails | each handler is called |
| Migrations, versioning, serialization, typing, observability, web frameworks, test support, command line | none that correctness depends on | | | |

How they interact. A command handler reads a stream and appends with the version it read. The
append's transaction runs inline projections and hooks. A message source polls (PostgreSQL, SQLite)
or subscribes to (MongoDB, EventStoreDB) what was committed and yields it to a consumer, which
hands batches to its processors. A processor handles a batch and stores its checkpoint in one
transaction (PostgreSQL), under a lock that keeps other instances out, and tells its awaiters.
Workflow processors append again. Guards and in-process locks are built on the task processor and
offered to applications and drivers.

`PROJECT.json` lists every component with its sources, and under `hazards` the places where the
code can go wrong in a way that a test would hardly reach, with the properties that cover them or
the reason why none does yet.

## Plan

The order in which the modules were written, the most important behaviour first, and what each leaves.

1. `PostgresMessageLog` implements `OrderedLog`, with proofs.
2. `PostgresProcessor` implements `ExactlyOnceProcessing` on top of what 1 makes visible; the
   checkpoint theorems, that one instance is at work, the refinement, and what is promised to
   awaiters and inline projections are proved.
3. `TaskProcessor`, with proofs of its groups, slots, starts and order, of the work that is not held
   back and of its waiters.
4. `CommandHandling` over the five stores implements `CompareAndAppend`, with the proof, and
   with proofs of what callers and read models are told.
5. `WorkflowHandling` over a store whose appends commit by themselves, with proofs of its safety.
   Left: the same over PostgreSQL, where checkpoint and append share a transaction.
6. `Consumer` with its two kinds of sources, with proofs of its safety. Left: a start during a stop.
7. `Checkpointers` implements `CheckpointRegister`, with the proof.
8. `Projections`: inline handling, registration, activation and rebuild, with proofs. Left: several
   projections at once.
9. Not begun: in-process locks and execution guards on top of 3, and the message bus.

Abstract specifications: the ordered log, exactly-once processing, compare-and-append, the register
of a checkpoint. Each run asks one question of one module; modules meet through what they promise:
`PostgresProcessor` and `Projections` read the log as `OrderedLog` describes it, `CommandHandling`
takes PostgreSQL's append as `PostgresMessageLog` models it.

## Modules

### PostgresMessageLog

`BeginAppend` opens a client's transaction and takes its id, as the first statement of
`emt_append_to_stream` does. `ReadStreamPosition` is the `SELECT` of the stream's position when no
version is expected, a statement of its own and so with its own snapshot. `WriteStreamRow` and
`ConflictOnStreamRow` are the `INSERT` or `UPDATE` of the stream's row: it waits for another open
transaction that wrote the row and then finds the position it expects or does not. `InsertMessage`
draws a global position for one message, so that those of several transactions mix.
`CommitAppend` makes rows visible together. `RollbackAppend` stands for conflicts elsewhere, hooks
or projections that throw, and lost connections; numbers that were drawn stay lost.

`PollBatch` is `readMessagesBatch`: messages above the reader's checkpoint, below
`pg_snapshot_xmin`, in the order of (transaction id, global position), at most a batch.
`StartReading` takes the zero checkpoint or the last committed message. `toExpectedVersion` gives no
version for `NO_CONCURRENCY_CHECK` and, as the code does, for `STREAM_EXISTS` and
`STREAM_DOES_NOT_EXIST`.

`OrderedLog` is what a message source promises: a log that grows only at its end, and readers that
are each given a prefix of it. The refinement publishes a message when xmin has passed it.

Left out: payloads, several partitions, archived streams, several appends in one transaction, and
reading of one stream.

### PostgresProcessor

Instances of one processor, each in a consumer of its own. `published` numbers the messages in the
order that `PostgresMessageLog` makes visible; checkpoint 0 stands for the placeholder in the
database and for `null` in memory.

| Action | Code |
|---|---|
| `BeginStart`, `ResumeFromMemory` | `start` of `processors.ts`: with a checkpoint in memory it returns at once, without one it opens a transaction |
| `AcquireLock`, `KeepGoingUnlocked`, `RefuseStart` | `emt_try_acquire_processor_lock` and the policies `fail`, `skip`, `retry`; attempts are repeated in one transaction |
| `CompleteStart`, `FailStart` | `onStart`, reading the checkpoint, the commit or its failure |
| `HandleBatch` | a batch in its transaction: all of it, or up to the message after which, or before which, the handler stopped |
| `StoreCheckpoint`, `LeaveCheckpoint` | `store_processor_checkpoint`, whose comparison may fail, and a result that is not success, which the code passes over |
| `CommitBatch`, `RollbackBatch` | the end of the transaction; fields in memory were set before it |
| `StopConsumer`, `CloseProcessor`, `ShutDownProcessor` | `stop`, the closing of processors at the end of the loop, and the shutdown signal |
| `ReleaseLock`, `FailToRelease` | `emt_release_processor_lock` |
| `ExpireLock` | `last_updated` gets older than `lock.timeoutSeconds` |
| `Await` | `whenProcessed` and `whenCaughtUp` |
| `Crash`, `Publish` | the rest of the world |

`Disturbances` says which of the failures may happen, so that each run names the conditions of what
it shows. `handledAgain` only records what the properties speak about. Left out: `SKIP` results,
filters by message type, mixed checkpoint formats, timeouts of awaiters, and partial effects of a
handler that throws.

`ExactlyOnceProcessing` is the promise: messages take effect in order, each once.

### TaskProcessor

The scheduler and the processor in one module, since JavaScript runs a call to its end: an action is
what happens between two turns of the event loop. Only the loop of `processQueue` is split
(`RejectExpiredFirst`, `TakeNext`, `LeaveLoop`), because it runs the synchronous part of each task
and that part may call the processor again: `CanCall` lets `Enqueue`, `AbortQueued`, `AbortStarted`,
`Release`, `Stop` and `WaitForEndOfProcessing` happen there too. `Settle` is the end of an operation,
`FinishItem` what `executeItem` does after the release, `PassDeadline` and `FireTimer` the clock and
the expiration timer, `PassCloseDeadline` the deadline of a stop. `RemoveEntries`, `CompleteEntries`
and `GroupHeads` are the scheduler: an entry that leaves makes the next of its group ready, unless
one of the group is active. The heap is modelled by what it returns (`EarliestReady`).

Each task is enqueued at most once; the number of tasks is the bound of the model.

### CommandHandling

Clients handle commands on one stream of an event store. Each of the five stores appends in steps of
its own, so one module shows that they keep one promise, `CompareAndAppend`, and where they do not.

| Action | Code |
|---|---|
| `Handle`, `Retry` (`AggregateAndDecide`) | `CommandHandler` in `handleCommand.ts`: the stream is aggregated, the handlers decide; REJECT, STOP, SKIP and no messages end the call; a conflict has everything done again, as often as `retry` allows |
| `AppendToMemory`, `FindDocument`, `PutDocument`, `FailProjection` | `inMemoryEventStore.ts`: check and write in one turn, then the awaits of the inline projection's `handle` |
| `ReadPosition`, `WriteStream`, `CommitAppend`, `RollbackAppend`, `ViolateUniqueness` | the transaction of `appendToStream.ts` in PostgreSQL and SQLite, with its inline projection; any unique violation is answered as a conflict |
| `FindStream`, `UpdateStream`, `FailUpdate` | `mongoDBEventStore.ts`: `findOne`, projections, one `updateOne` with upsert |
| `AppendToServer` | `eventstoreDBEventStore.ts` |
| `FailAppend`, and `Answers` of the writes above | a driver that throws: before anything is written, or after, with the answer lost |

A write or a commit of PostgreSQL, SQLite, MongoDB or EventStoreDB may take effect while its answer is
lost or the driver throws. `handleCommand` retries conflicts only, so the caller is told of a failure
with its decision in the stream: what "failed" says is that the decision is there as a whole, or not
at all. After "appended" it is there, after "conflict" and "unchanged" it is not.

The read model is the list of messages that the inline projection has taken, so that a lost or doubled
one shows. Left out: middleware, payloads, hooks after the commit, sessions, and several streams.

### WorkflowHandling

Instances of a workflow's processor over a store whose appends commit by themselves. `Start` reads the
checkpoint, `AggregateAndDecide` and `AppendDecision` are the two sides of an await in
`handleWorkflow.ts`, `StoreInput` is the way of an input with `separateInputInboxFromProcessing`,
`HandleOutput` the output handler of `workflowProcessor.ts`, whose answer is an input again,
`StoreCheckpoint` the end of a batch, of one message here. `Skip` is `canHandle`, `Fail` a handler,
middleware or store that throws, `Crash` the end of the process. Left out: `stopAfter` and STOP, an
`EmmettError` of the output handler, workflows of other identifiers, and the state that `evolve` builds.
The checkpoint is compared and written in one step; how stores do that is `Checkpointers`.

### Consumer

One consumer with its processors and its source, which is polled or is a stream of changes.

| Action | Code |
|---|---|
| `Start`, `StartProcessor`, `FailStart`, `ResolvePositions`, `ReportStarted` | `start` of `consumers.ts` and `processorStartPositions.ts` |
| `Subscribe`, `Query`, `Pull`, `CatchUp`, `Break`, `FailSource` | `pollingMessageSource.ts`, `subscriptionMessageSource.ts`, `mongoDBMessageSource.ts`, with the position from which each goes on |
| `Flush`, `EndBatch`, `Abort`, `CloseProcessors` | the loop over chunks: one is handed over when it is full or its deadline fires, the loop ends when nobody is active, all have stopped, one rejected, or the source has caught up |
| `HandleBatch`, `StopInBatch`, `RejectBatch` | a processor's answer, with its own filter by position and checkpoint |
| `Stop`, `ReturnFromStop`, `Publish`, `Crash` | callers and the world |

A processor handles its part of a chunk and stores its checkpoint in one step: how that may fail is
`PostgresProcessor`. A start waits here for the end of the last run; the code lets it begin beside one
that is stopping (`consumers.ts:328`). A subscription breaks only after it has answered. What a
processor is given is written as the chunk without what it passes by (`PassedBy`): the code filters
message by message, and as a chunk is in the order of the log, what is passed by comes first.

### Checkpointers

The checkpoint of one processor in SQLite (a row), EventStoreDB (the last event of a stream, with the
revision cached in the process), MongoDB and in memory (a document that is read in one call and written
in the next). `Start`, `Handle` and `Fail` are what `processors.ts` does around them; `Written` has two
outcomes, as the answer of a write may be lost. In SQLite the store answers inside of the batch's
transaction, and the processor takes the checkpoint over before the commit (`processors.ts:1106`,
`sqliteProcessor.ts:219`). `FailCommit` is a commit that fails after that: row and effects are rolled
back, the instance stays ahead and goes on from there when it is started again, and its next store finds
a row that is not the one it holds. `told` is the last checkpoint whose commit was answered with
success. `StoreSQLite`, `StoreEventStoreDB`, `FindDocument`,
`UpdateDocument` and `HandleDocument` are `storeProcessorCheckpoint.ts` of SQLite,
`eventStoreDBCheckpointer.ts`, `mongoDBCheckpointer.ts` and `inMemoryProcessors.ts`; `Reset` is
somebody who resets the stream of checkpoints. `SharedStores` are those that several instances use
at once. All implement `CheckpointRegister`: a register that moves on only from the value which the
writer holds, with a step (`Overrun`) in which a transactional writer takes over what was not
committed. Left out: the metadata of the stream of checkpoints, and PostgreSQL's checkpoint,
which is a part of `PostgresProcessor`.

### Projections

One named projection of PostgreSQL and the three parties that meet on its advisory lock and its
status. `Begin`, `Ask`, `Try`, `Commit` and `Rollback` are an append with its inline projection: the
statement that takes the shared lock has read the status before it has the lock. `Register` and
`EndRegistration` are `registerProjection` in the transaction of a migration, `Change` the activation
and deactivation by an operator, and the rest a rebuild (`rebuildPostgreSQLProjections.ts` with
`postgreSQLProcessorLock.ts`): `TakeLock`, `Start`, `FailStart`, `HandleBatch`, `NoMessagesLeft`,
`FailBatch`, `Release`, `Crash`. A start that fails after it had the lock keeps `isLockAcquired` and
`acquired`; its processor is closed later, and then makes the projection active whoever has it
(`unreleased`, `ReleaseFailed`; `processorsLocks.ts:109`), as an operator may. `activated` records
that this happened while the last rebuild that started went through the log.

An append is one event with a row of its own in the read model; the log is read below the lowest open
transaction, as `PostgresMessageLog` shows; one rebuild is at work at a time, as `PostgresProcessor`
shows; the timeout after a crash is taken as elapsed, and passes under no rebuild that works; a rebuild's
consumer is started once; a registration that does not get the lock does
nothing, so it is no step. Projections without a name take no lock and are left out.

### MC modules

The `MC` modules give the sets that a configuration cannot write (expected versions, task groups, start
positions) and the symmetry of interchangeable clients and instances. Symmetry is used for safety runs
only. Operators whose comment starts with "Mutant:" are plausible mistakes in the definition below
them; no specification uses them.

## Runs

| Run | Question and bounds |
|---|---|
| `message_log` | Do overlapping appends keep streams gapless, and is a poller given an append-only log? Three transactions of two clients, two streams, one or two messages an append, versions 0 to 2 or none, batches of two. |
| `message_log_delivery` | When each append carries a version that its client has read, is the order of streams kept, and does every message arrive? The same, readers from BEGINNING or END, batches of one, with fairness. |
| `processor` | With crashes and failed transactions, does one instance work, are effects exactly once, and are all messages handled? Two instances that retry for the lock, three messages, batches of up to two, with fairness. |
| `processor_disturbed` | With every disturbance and instances that go on without the lock, does the checkpoint stay covered and move forward only? Two instances, two messages. |
| `processor_awaited` | Are awaiters told, and is inline handling held off, when projectors restart, crash and retry for the lock? Two instances, two messages, from END. |
| `task_processor` | All properties of task processing: two tasks of a group, one of them never ending, two without a group, two slots, three places in the queue, a waiter. |
| `command_handling` | Is every store compare-and-append for its command handlers? Two clients, three commands, five stores, an expectation of one message, of none or no check, one retry, up to two messages a decision; appends fail with or without effect. |
| `workflow_handling` | Are inputs recorded and decided on once, on the whole stream? Two instances, both modes, two inputs and one that is fed back (one and none with an inbox of its own), one output, one retry, three starts. |
| `consumer` | Does each processor see the log once and in order, does draining drain, does `stop` return? A processor from the beginning, one from the end, both kinds of sources, until caught up or not, three messages, batches of two, two starts, every fault. |
| `checkpointers` | Is the checkpoint one register, and does it cover what was handled? Three instances share SQLite or EventStoreDB and take turns with MongoDB or memory, three messages, batches of two, one reset; answers are lost and commits fail. |
| `projections` | Do inline handling and rebuilds exclude each other, and does a rebuild handle everything, once? Three appends, two rebuilds that empty the read model or do not, starts that fail and release later, two registrations, two changes by operators at any time. |
| `projections_registered` (violated) | Does the read model hold what was committed? Two appends, one registration. |

Why the bounds are enough. The log's hazards need two transactions that overlap and a third that
builds on, or comes after, one of them; two streams let positions and transaction ids disagree, and
batches smaller than what is visible end inside of a transaction. The processor's need an owner and a
successor; two messages tell "again" and "gap" apart, a third lets a batch of two be followed by
another. Task processing needs two tasks of a group for exclusion and promotion, two others to be
overtaken or to take the slots, and a task that never ends to keep a slot. Commands: two that race and
a third that builds on the winner, with a retry that may lose again. Workflows: two instances with
the same input in hand, a conflict and a redelivery. A consumer: a processor that is behind another,
a chunk that is full before the log ends, and a start after a failure. Checkpointers: two that race
and a third that reads what is left; a reset makes cached revisions stale. Projections: an open
append below and one above what a rebuild has read, and a second rebuild after a crash of the first.
`CHECK_DEADLOCK FALSE` is set in all: when the bounds are used up, or all consumers are stopped, or all
tasks are done, the system rests.

Type invariants are run only for `Consumer`; `TypeOK` of the other modules is proved, and was checked
by TLC before.

### What the violated run shows

`projections_registered` refutes a sentence of the guide that `findings` of `PROJECT.json` quotes. A
process that migrates the schema registers its inline projections under the exclusive lock
(`registerProjection.ts:27`) and keeps it until the migration commits. An append in between finds the
lock taken (`postgreSQLProjection.ts:134`), skips the projection without a word and commits: its event
stays out of the read model until a rebuild.

### Disagreements seen with these modules, without a run

Each can be seen by giving the configuration the values in parentheses and the property named.

- Start from END passes over the messages of an append that is still open
  (`readLastMessageCheckpoint.ts:20` has no bound on xmin, `messageSource.ts:50`;
  `message_log` with StartPositions {"END"}, `EndSkipsOnlyWhatIsThere`).
- An owner without messages for the lock's timeout is replaced, and both handle the next message
  (`processorsLocks.ts:60` against `docs/guides/testing.md:110`; Disturbances with "expiry", `HandledOnce`).
- A processor that was closed starts again from memory, without its lock (`processors.ts:909`;
  "restart", `OneInstanceAtWork`).
- The checkpoint in memory moves before the commit, so a batch whose commit fails is passed over when
  the same consumer is started again (`processors.ts:1108`; "rollback" and "restart", `HandledWithoutGaps`).
- `start` takes over a stored checkpoint without telling those who wait for it already
  (`processors.ts:974`; AwaitedWhile {"new", "starting"}, `AwaiterIsNotForgotten`). `whenProcessed`
  during a batch is answered before the commit (`processors.ts:725` against `testing.md:120`). A start
  that fails after it had the lock releases it later, and with it the projection
  (`postgreSQLProcessorLock.ts:73`); appends then handle inline what a rebuild of another process handles
  too (`projections` without `activated` in `NothingIsProjectedTwice`).
- `STREAM_DOES_NOT_EXIST` is not enforced by the appends of PostgreSQL and SQLite
  (`appendToStream.ts:301` against `docs/api-reference/commandhandler.md:157`; Stores {"postgres",
  "sqlite"}, `DecisionsStandOnWhatTheyRead`).
- With an inbox of its own, a stored input that is delivered again is decided on again
  (`handleWorkflow.ts:441` against `docs/guides/workflows.md:367`; Modes {TRUE}, `OutputsAreMadeOnce`).
- A change stream that gave nothing before it broke keeps '0' as its position and cannot be opened again
  (`mongoDBMessageSource.ts:84`, `mongoDBCheckpoint.ts:38` against
  `subscriptionMessageSource.unit.spec.ts:351`; `ActiveProcessorsGetEverything`). A resume token names
  a change, so a consumer that ended inside of one passes over the rest of it
  (`mongoDBCheckpoint.ts:51`; MaxChange 2, `NothingIsPassedOver`).
- Two instances that share MongoDB's checkpointer leave two documents (`mongoDBCheckpointer.ts:137`;
  SharedStores with "mongodb", `WhatWasToldIsRead`), and in memory one's update is lost. An instance
  whose checkpoint was refused, or whose answer was lost, compares with what it held and stores none
  again until it is read anew.
- A rebuild that is run again, or after a crash, empties the read model and goes on from the stored
  checkpoint (`docs/guides/projections.md:148`); it ends when a poll returns nothing, though committed
  events above an open transaction are unread; its release activates the projection when it failed,
  and when an operator has deactivated it meanwhile; a crash leaves the status as it is, and inline
  handling off. An activation by an operator during a rebuild has events projected twice (`projections`
  without `activated` in `NothingIsProjectedTwice`).

## Fairness

- Log: weak fairness of the statements of each open transaction, and of each started reader's poll.
  The database executes what it was sent, and transactions of appends have nothing to wait for
  except row locks of others like them; the poller loops until it is aborted, with a bounded wait.
  Nothing forces an append to begin, or a rollback.
- Processor: weak fairness of what a consumer does by itself once it is started or stopped
  (`Proceed`). A start, a stop, retries, failures, expiry and crashes are never forced. In
  particular the retries of `KeepGoingUnlocked` may go on or end; `RefuseStart` is their bound.
- Command handling: weak fairness of what a handler and its store do with a command once it is given.
  The event loop runs continuations and databases answer. Conflicts are not forced, nor failures.
- Workflows: weak fairness of what a started instance does with its deliveries, the checkpoint
  included. Nobody has to start an instance, and `InputsAreRecorded` assumes that one keeps running.
- Consumer: weak fairness of the run as a whole, of handing over a chunk (its deadline fires), of
  hearing an abort and of the return of `stop`. Starts, stops, crashes and breaks are not forced.
- Checkpointers and projections: safety only, no fairness.
- Task processor: the loop and continuations run (event loop), the timer fires and the clock
  runs, operations other than the ones in `NeverEnding` settle, and a holder of a manual slot gives
  it back. Fairness per kind of step, not per task, where the code is a queue.

## Proofs

`tlapm` checks the `*_proofs` modules. They assume the `ASSUME`s of their modules only, unless a
theorem names more.

**PostgresMessageLog_proofs.** `NoMessageIsSkipped`: the invariant needs that no reader from the
beginning has gone past an id that is open or still to come (`ReadersBehindXmin`), which holds
because a poll stays below xmin and new ids are above all; so what commits later lies after every
checkpoint. `DeliveryFollowsCheckpoints` adds that all that was delivered is at or below the
checkpoint. `LogImplementsOrderedLog` maps each step to `Publish`, `Deliver` or a stutter, for
readers from the beginning: any step may raise xmin, and the messages that come below it lie after
those that were. `StreamsStayGapless` rests on `RowLocks`: one open transaction holds a stream's row,
so the position it checked stays the committed one, and the rows it has inserted continue from it.
`ReadersSeeOneOrder`: of two readers from the beginning, one was given all that the other was, since
each was given the whole log up to its checkpoint. `StreamsAreDeliveredInOrder` assumes that every
append carries a version which its client read before (`ClientsReadVersionFirst`, and
`ExpectedVersions` are numbers). `OrderInv`: an open append has a higher id than every message up to
its version, and once it holds the stream's row that version is the committed position
(`BuildsOnEarlier`), so what it commits comes after all of its stream. Without a version an append may
take its id before one that it builds on, and the theorem is false.

**PostgresProcessor_proofs.** `CheckpointGoesForward` and `StoredCheckpointCoversHandled` hold
whether or not instances own the lock. `RowInv`: one transaction at a time has the row locked, and
whatever an instance holds to be stored is not behind the row. `CoverInv`: up to the position that
an instance has been given, each message above the checkpoint that it will compare with is handled
or in its batch, unless the batch stopped before it. The comparison then makes the stored
checkpoint cover what was handled. The second theorem assumes `StartFrom = BEGINNING` and no
truncation: from END, or after a truncation, the checkpoint stands for messages that were never to
be handled. `OneIsAtWork` assumes that locks are kept (`LocksAreKept`: none expires under an owner
that is there, no stopped consumer is started again, nobody goes on without the lock). `OwnerInv`:
the row names who is at work from the commit of its start to its release (`ActsAsOwner`), and while a
start has the new row in its transaction nobody is at work (`NobodyBesideAStart`), because the start
could lock only the row of an owner that was gone; the row's lock keeps other starts from it.
`MessagesAreHandledOnce` proves the refinement of `ExactlyOnceProcessing` from it, under
`StartsOnce`: kept locks, a start from the beginning that truncates nothing, and no signal that
closes a processor in the middle of a batch. `ExactInv`: what is handled is what the stored checkpoint
says, and only who is at work has a batch, which begins behind that checkpoint (`GoesOnFromRow`).
Each of the assumptions is needed: `StoreCheckpoint` only compares, so two that work
side by side commit the same message twice (`LeaveCheckpoint`).
`EffectsAreOnceAndInOrder` reads `HandledOnce` and `HandledWithoutGaps` off the same invariant.
`AwaitersAreNotForgotten` holds for every policy and with every disturbance, for awaiters that are
registered while the processor consumes, or while or after it closes. `AwaitInv`: nobody waits on a
processor that has not started or was closed, and who waits on one that consumes waits for more than
it remembers, but for the moment between the store of a checkpoint and the commit that tells of it.
That awaiters are not registered earlier is needed: a start takes over a checkpoint and tells nobody.
`ProjectionStaysHeld` assumes that no transaction of a start fails, no lock expires under an owner
that is there and nobody goes on without the lock (`StartsKeepLocks`; crashes, restarts and shutdowns
may happen). `HeldInv`: who remembers that it acquired the lock is the owner in the row, or has that
row in its transaction (`RemembersItsLock`), and while a start has the new row nobody else remembers a
lock (`NoLockBesideAStart`). So a release is always the owner's, and the projection is held for as
long as the row has one.

**TaskProcessor_proofs.** `TasksOfAGroupRunOneAtATime`: a ready task must be the first of a group of
which none is active (`ReadyAreHeads`), active tasks mark their group (`ActiveGroupsAreMarked`), and
tasks with a slot are active unless a stop made the scheduler forget them, after which nothing is
queued (`SlotsAreActive`, `StoppedIsEmpty`). `StartedWorkIsAwaited` follows from the same invariant:
the caller of what is queued still waits. `SlotsStayCounted` counts slots from the start of a task
to the end of `executeItem`, also of tasks that were forgotten. `TypeInvariant` adds the rest.
`NoWorkIsHeldBack`: a task that may start is ready (`WhoMayStartIsReady`, by a well-founded
argument on the order of arrival: there is a first one of the queued tasks of a group, and it is ready
if none of them is active), until a stop a group is active only because one of its tasks has a slot
(`ActiveGroupsAreHeld`), and the loop rests only with all slots taken or nothing ready (`RestsWhenDone`).
`OnlyGroupsAreOvertaken` is the action property: `EarliestReady` is the first of all that may start, so
one that came earlier waits for its group. `NoWaiterIsForgotten` looks at each way in which the last
task may leave.

**CommandHandling_proofs.** `CommandTypes`, and `CommandHandlingImplementsCompareAndAppend`: every
step extends the stream by one whole decision or leaves it alone, and a decision whose version is
compared stands right behind the version it was made on. The invariant carries the version that was
read or given from the reading to the append (`base` is what the store has compared with, an append
that was written keeps others from writing), store by store.
`CallersHearTheTruth`: what stands in the stream of a command is the whole decision if its caller was
told of an append or the handler still projects it, all of it or nothing if its caller was told of a
failure, and nothing otherwise (`TruthInv`); each step of each store goes on, appends, or answers
(`StepTells`). `OnlyRealConflictsAreTold` is the action property that a caller
without an expectation hears of a conflict only if the stream has moved since it was read, or a unique
index was violated in its transaction. It needs
that nobody has read beyond the end of the stream (`NobodyIsAhead`). `ReadModelsFollow`: over the
databases the inline read model is the stream; in memory, where a document is found and put in two
steps and puts may overtake each other, it holds nothing twice and only what was appended (`ReadInv`;
`FoundIsCurrent` and `DocumentsFollow` say it of the documents that handlers have in hand).

**WorkflowHandling_proofs.** `EveryInputIsDecidedOnce`: while an instance has a decision in hand whose
version is still the stream's, its input is not recorded (`WorkflowInv`); the append compares that
version, so a second decision on the same input conflicts. `CheckpointCoversEveryInput`: what an
instance remembers, its position and the stored checkpoint only pass inputs that are recorded.
`WorkflowTypes` bounds retries and positions.
`DecisionsSeeAll` holds in both modes. `SeenInv`: the version of the stream counts its messages
(`VersionCounts`), and a decision stands behind as many of them as it has seen (`AllIsSeen`); an append
compares the version, so nothing comes between.

**Checkpointers_proofs.** `EveryCheckpointCoversHandled` holds in each store, shared or not: what an
instance holds covers only handled messages, so does its position, and so does what it stores.
`WhatWasToldStays`, `RevisionsAreKept` and `CheckpointersImplementRegister` assume that only the
stores which compare in the write are shared. The invariant says that where instances come one at a
time, an instance that is between read and write holds what is stored. In SQLite, whose commit may fail
after the instance has taken the checkpoint over, what an instance holds says nothing of the store; the
comparison in the write does (`MayWriteRow`), so what was committed and told stays read
(`StoreStays`), and the failed commit is an `Overrun` of the register (`RegisterFailCommit`).

**Projections_proofs.** `InlineHandlingIsProtected`: an append that handled its event shares the lock,
whoever changes the status has it alone or finds nobody sharing it (`LockInv`). `RebuildsPassNothingOver`
follows from what a poll can read: nothing at or below the checkpoint is open, so what is committed
there was handed to the rebuild. `RebuildsProjectOnce`: as long as nobody makes the projection active
while the rebuild goes through the log (`StatusInv`), an event above the checkpoint is in the read
model only if it was handled inline, which was before the rebuild emptied it, or by an append on a
stale snapshot (`AheadInv`). What operators and the close of a failed start do is in the model and
excepted by the property, not assumed away. `ProjectionTypes` adds the types.

**Consumer_proofs.** `NothingIsLeftOut` and `DrainedRunsAreComplete` follow from one invariant,
`CoverInv`. `HandledIsStored`: a processor has handled the row of messages from where it began to its
stored checkpoint, and remembers that checkpoint or none. `Stands`: a running processor was started
at or before that checkpoint, and as long as it is active the chunk in hand begins no later than
its next message; who has answered and goes on is past the chunk. `ChunkIsNext`: the chunk is
the row of messages that ends where the source is, and the notice of having caught up comes after all
that was there when the start was reported. Then what a processor is given of a chunk is its next
messages (`PartIsNext`), so it may stop after any of them. Both theorems assume `OneByOne`: with change
streams, a change is one message. Without it a resume token names the change of a message, and a
processor that stopped in the middle of one is started again behind it. `ConsumerTypes` needs no
such assumption.

Every safety property and every refinement that a passing run checks is stated by a theorem. Only
model-checked are the liveness properties: `EveryMessageDelivered`, `EveryMessageIsHandled`,
`EveryCallerIsAnswered`, `EveryCommandIsAnswered`, `InputsAreRecorded`, `ResumableSourcesGiveEverything`
and `StopReturns`. Fairness and `ENABLED` are out of the prover's reach. So is induction over data, and
it loses its arithmetic where there are `RECURSIVE` operators; the modules use neither.

## Not modelled

Of the components that have a state: execution guards and in-process locks, which are thin layers over
the task processor (one holder of a key at a time is what `GroupsRunOneAtATime` says of groups); the
message bus, which calls handlers one after the other and keeps nothing; migrations and schema
creation, SQL text whose concurrent execution the database decides. Versioning, serialization and
typing are conversions without state; observability changes nothing that the program depends on; web
frameworks, test support and the command line have no state that outlives a call.

Within the modelled components, what each module leaves out is said in its section above. A module
covers what changes state; the larger part of the repository's lines is types, options, logging, spans
and adapters around it, and stays outside.
