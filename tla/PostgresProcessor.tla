-------------------------- MODULE PostgresProcessor --------------------------
(***************************************************************************)
(* The instances of one async processor (reactor or projector) over        *)
(* PostgreSQL, each run by a consumer of its own: the processor lock, the  *)
(* checkpoint, and the transactions in which batches are handled.          *)
(*                                                                         *)
(* The log is what PostgresMessageLog makes visible: messages 1, 2, ... in *)
(* checkpoint order.  Checkpoint 0 is both the placeholder in the database *)
(* and null in memory.  What a handler writes goes through the transaction *)
(* of its batch.  Statements see what is committed when they start; a row  *)
(* that an open transaction has locked makes other writers of it wait.     *)
(***************************************************************************)
EXTENDS Integers

CONSTANTS Instances,
          Unknown,            \* processor_instance_id of a row without owner
          BEGINNING, END,
          StartFrom,          \* one of those, or an explicit checkpoint
          AcquisitionPolicy,  \* what to do when the lock is not acquired
          TruncateOnStart,    \* the projector empties its projection
          Disturbances,       \* what may happen beside the normal course
          AwaitedWhile,       \* what the consumer does when it is awaited
          BatchSize,
          MaxMessages         \* bound: messages published

ASSUME ProcessorAssumption ==
  /\ Unknown \notin Instances
  /\ StartFrom \in {BEGINNING, END} \cup Nat
  /\ BEGINNING \notin Nat /\ END \notin Nat /\ BEGINNING # END
  /\ AcquisitionPolicy \in {"fail", "skip", "retry"}
  /\ TruncateOnStart \in BOOLEAN
  /\ Disturbances \subseteq {"crash",       \* a process dies
                             "rollback",    \* a transaction fails to commit
                             "expiry",      \* an owner's row gets too old
                             "restart",     \* a stopped consumer is started
                             "shutdown"}    \* SIGTERM or SIGINT
  /\ AwaitedWhile \subseteq {"new", "starting", "consuming", "stopping",
                             "closing", "stopped"}
  /\ BatchSize \in Nat \ {0}
  /\ MaxMessages \in Nat

VARIABLES
  published,         \* messages that can be read
  row,               \* the committed row of emt_processors
  projectionStatus,  \* the committed status in emt_projections
  handled,           \* messages whose handling is committed
  handledAgain,      \* those for which it was committed twice
  consumer,          \* what the consumer of each instance is doing
  position,          \* the last message its source has given it
  processor,         \* the fields of each processor
  transaction,       \* the transaction in which it starts or handles
  awaiter            \* a whenProcessed or whenCaughtUp call

database == <<row, projectionStatus, handled, handledAgain>>
vars == <<published, database, consumer, position, processor, transaction,
          awaiter>>

Row == [owner : Instances \cup {Unknown},
        status : {"running", "stopped"},
        checkpoint : Nat,
        stale : BOOLEAN]      \* last_updated is older than the lock's timeout

Processor == [isActive : BOOLEAN,
              isClosed : BOOLEAN,
              isLockAcquired : BOOLEAN,   \* "acquired" of the lock as well
              isReleasing : BOOLEAN,      \* close waits for the release
              lastCheckpoint : Nat,
              lastStoredCheckpoint : Nat]

Transaction == [phase : {"none", "acquiring", "reading", "handled", "stored"},
                holdsKey : BOOLEAN,   \* the advisory lock
                locksRow : BOOLEAN,
                writesRow : BOOLEAN,
                row : Row,            \* what it has written
                batch : SUBSET Nat,   \* messages it has handled
                isStop : BOOLEAN]     \* the handler asked to stop

Awaiter == [target : Nat,
            state : {"none", "waiting", "resolved", "rejected"}]

NoRow == [owner |-> Unknown, status |-> "stopped", checkpoint |-> 0,
          stale |-> FALSE]

NewProcessor == [isActive |-> FALSE, isClosed |-> FALSE,
                 isLockAcquired |-> FALSE, isReleasing |-> FALSE,
                 lastCheckpoint |-> 0, lastStoredCheckpoint |-> 0]

NoTransaction == [phase |-> "none", holdsKey |-> FALSE, locksRow |-> FALSE,
                  writesRow |-> FALSE, row |-> NoRow, batch |-> {},
                  isStop |-> FALSE]

NoAwaiter == [target |-> 0, state |-> "none"]

InTransaction(i) == transaction[i].phase # "none"

KeyIsFree(i) == \A j \in Instances \ {i} : ~transaction[j].holdsKey

RowIsFree(i) == \A j \in Instances \ {i} : ~transaction[j].locksRow

\* The row as the transaction commits it.
CommittedRow(t) == IF t.writesRow THEN t.row ELSE row

SetProcessor(i, p) == processor' = [processor EXCEPT ![i] = p]

SetTransaction(i, t) == transaction' = [transaction EXCEPT ![i] = t]

Enter(i, state) == consumer' = [consumer EXCEPT ![i] = state]

-----------------------------------------------------------------------------
(* Starting *)

CanStart(i) ==
  \/ consumer[i] = "new"
  \/ consumer[i] = "stopped" /\ "restart" \in Disturbances

Opened(p) == [p EXCEPT !.isActive = TRUE, !.isClosed = FALSE]

\* A processor that remembers a checkpoint goes on from it at once.
ResumeFromMemory(i) ==
  /\ CanStart(i)
  /\ processor[i].lastCheckpoint # 0
  /\ SetProcessor(i, Opened(processor[i]))
  /\ position' = [position EXCEPT ![i] = processor[i].lastCheckpoint]
  /\ Enter(i, "consuming")
  /\ UNCHANGED <<published, database, transaction, awaiter>>

\* Any other opens a transaction for the lock, onStart and the checkpoint.
BeginStart(i) ==
  /\ CanStart(i)
  /\ processor[i].lastCheckpoint = 0
  /\ SetProcessor(i, Opened(processor[i]))
  /\ SetTransaction(i, [transaction[i] EXCEPT !.phase = "acquiring"])
  /\ Enter(i, "starting")
  /\ UNCHANGED <<published, database, position, awaiter>>

\* Mutant: whoever gets the advisory lock becomes the owner.
CanAlwaysTakeOver(i) == TRUE

CanTakeOver(i) ==
  \/ row.owner \in {i, Unknown}
  \/ row.status = "stopped"
  \/ row.stale

OwnedBy(i) == [row EXCEPT !.owner = i, !.status = "running", !.stale = FALSE]

\* emt_try_acquire_processor_lock: the upsert waits for the row's lock.
AcquireLock(i) ==
  /\ transaction[i].phase = "acquiring"
  /\ \/ /\ processor[i].isLockAcquired    \* held already: no statement
        /\ SetTransaction(i, [transaction[i] EXCEPT !.phase = "reading"])
     \/ /\ ~processor[i].isLockAcquired
        /\ KeyIsFree(i) /\ RowIsFree(i) /\ CanTakeOver(i)
        /\ SetTransaction(i, [transaction[i] EXCEPT
               !.phase = "reading", !.holdsKey = TRUE, !.locksRow = TRUE,
               !.writesRow = TRUE, !.row = OwnedBy(i)])
  /\ SetProcessor(i, [processor[i] EXCEPT !.isLockAcquired = TRUE])
  /\ UNCHANGED <<published, database, consumer, position, awaiter>>

\* The transaction after an attempt that fails: on the advisory lock at once,
\* or on the row, which ON CONFLICT DO UPDATE locks though it leaves it alone.
AfterFailedAttempt(i) ==
  LET t == transaction[i]
  IN  {u \in {t, [t EXCEPT !.holdsKey = TRUE, !.locksRow = TRUE]} :
         /\ t.phase = "acquiring"
         /\ ~processor[i].isLockAcquired
         /\ IF u = t THEN ~KeyIsFree(i)
                     ELSE KeyIsFree(i) /\ RowIsFree(i) /\ ~CanTakeOver(i)}

\* "skip" goes on without the lock, "retry" tries again in its transaction.
KeepGoingUnlocked(i) ==
  /\ AcquisitionPolicy \in {"skip", "retry"}
  /\ \E t \in AfterFailedAttempt(i) :
       SetTransaction(i, [t EXCEPT
         !.phase = IF AcquisitionPolicy = "skip" THEN "reading" ELSE @])
  /\ UNCHANGED <<published, database, consumer, position, processor, awaiter>>

\* "fail", or retries that are used up, reject the start.
RefuseStart(i) ==
  /\ AcquisitionPolicy \in {"fail", "retry"}
  /\ \/ AfterFailedAttempt(i) # {}
     \/ transaction[i].phase = "acquiring" /\ transaction[i].locksRow
  /\ SetTransaction(i, NoTransaction)
  /\ Enter(i, "stopping")
  /\ UNCHANGED <<published, database, position, processor, awaiter>>

\* What the processor takes as its last checkpoint.
Remembered(checkpoint) ==
  IF checkpoint # 0 THEN checkpoint
  ELSE IF StartFrom \in Nat THEN StartFrom
  ELSE 0

WithCheckpoint(p, checkpoint) ==
  [p EXCEPT !.lastCheckpoint = Remembered(checkpoint),
            !.lastStoredCheckpoint = checkpoint]

\* Mutant: a first start skips what is already there.
StartAtTheEnd(checkpoint) == IF checkpoint # 0 THEN checkpoint ELSE published

\* What the start returns, as the position to read after.
StartPosition(checkpoint) ==
  IF Remembered(checkpoint) # 0 THEN Remembered(checkpoint)
  ELSE IF StartFrom = END THEN published
  ELSE 0

\* Mutant: the projection stays open to inline handling.
StatusLeftActive(t) == projectionStatus

\* The owner of a projector's row holds off the inline projection.
StatusWhenAcquired(t) ==
  IF t.writesRow THEN "async_processing" ELSE projectionStatus

\* onStart, the read of the checkpoint and the commit.
CompleteStart(i) ==
  LET t == transaction[i]
  IN  /\ t.phase = "reading"
      /\ row' = CommittedRow(t)
      /\ projectionStatus' = StatusWhenAcquired(t)
      /\ handled' = IF TruncateOnStart THEN {} ELSE handled
      /\ handledAgain' = IF TruncateOnStart THEN {} ELSE handledAgain
      /\ SetProcessor(i, WithCheckpoint(processor[i], row.checkpoint))
      /\ position' = [position EXCEPT ![i] = StartPosition(row.checkpoint)]
      /\ SetTransaction(i, NoTransaction)
      /\ Enter(i, "consuming")
      /\ UNCHANGED <<published, awaiter>>

\* onStart or a statement throws, or the commit fails: what was put into the
\* processor's fields stays there.
FailStart(i) ==
  /\ "rollback" \in Disturbances
  /\ transaction[i].phase \in {"acquiring", "reading"}
  /\ \/ UNCHANGED processor
     \/ /\ transaction[i].phase = "reading"
        /\ SetProcessor(i, WithCheckpoint(processor[i], row.checkpoint))
  /\ SetTransaction(i, NoTransaction)
  /\ Enter(i, "stopping")
  /\ UNCHANGED <<published, database, position, awaiter>>

-----------------------------------------------------------------------------
(* Handling *)

\* Messages that come again are passed over.
Unhandled(i, upTo) ==
  {m \in position[i] + 1 .. upTo : m > processor[i].lastCheckpoint}

\* The consumer gives the processor the next messages.  It handles all of
\* them, or stops: after the last it handled, or before one that throws.
HandleBatch(i) ==
  /\ consumer[i] = "consuming"
  /\ ~InTransaction(i)
  /\ processor[i].isActive
  /\ \E last \in position[i] + 1 .. published, isStop \in BOOLEAN :
       \E upTo \in position[i] .. last :
         /\ last - position[i] <= BatchSize
         /\ isStop \/ upTo = last
         /\ SetTransaction(i, [transaction[i] EXCEPT
                !.phase = "handled", !.isStop = isStop,
                !.batch = Unhandled(i, upTo)])
         /\ position' = [position EXCEPT ![i] = last]
  /\ UNCHANGED <<published, database, consumer, processor, awaiter>>

\* Mutant: the end of what was delivered, though the handler stopped before.
EndOfDelivery(i) == {position[i]}

\* The last message handled, if there is one.
CheckpointMessage(i) ==
  {m \in transaction[i].batch : \A k \in transaction[i].batch : k <= m}

\* Mutant: the stored checkpoint is not compared.
AnyCheckpointMatches(i) == TRUE

\* store_processor_checkpoint updates the row that still has the checkpoint
\* the processor stored last, or the placeholder when it stored none.
CheckpointMatches(i) == row.checkpoint = processor[i].lastStoredCheckpoint

\* A row written by another transaction is waited for, and compared again.
StoreCheckpoint(i) ==
  /\ transaction[i].phase = "handled"
  /\ CheckpointMatches(i)
  /\ RowIsFree(i)
  /\ \E m \in CheckpointMessage(i) :
       /\ SetTransaction(i, [transaction[i] EXCEPT
              !.phase = "stored", !.locksRow = TRUE, !.writesRow = TRUE,
              !.row = [row EXCEPT !.checkpoint = m, !.stale = FALSE]])
       /\ SetProcessor(i, [processor[i] EXCEPT
              !.lastCheckpoint = m, !.lastStoredCheckpoint = m])
  /\ UNCHANGED <<published, database, consumer, position, awaiter>>

\* Nothing to store, or a result that is not success: the batch goes on.
LeaveCheckpoint(i) ==
  /\ transaction[i].phase = "handled"
  /\ CheckpointMessage(i) = {} \/ ~CheckpointMatches(i)
  /\ SetTransaction(i, [transaction[i] EXCEPT !.phase = "stored"])
  /\ UNCHANGED <<published, database, consumer, position, processor, awaiter>>

\* Mutant: nobody is told.
NotifyNobody(a, checkpoint) == a

Notify(a, checkpoint) ==
  IF a.state = "waiting" /\ checkpoint # 0 /\ checkpoint >= a.target
    THEN [a EXCEPT !.state = "resolved"] ELSE a

CommitBatch(i) ==
  LET t == transaction[i]
  IN  /\ t.phase = "stored"
      /\ row' = CommittedRow(t)
      /\ handled' = handled \cup t.batch
      /\ handledAgain' = handledAgain \cup (handled \cap t.batch)
      /\ SetTransaction(i, NoTransaction)
      /\ awaiter' = [awaiter EXCEPT
           ![i] = Notify(@, processor[i].lastCheckpoint)]
      /\ IF t.isStop
           THEN /\ SetProcessor(i, [processor[i] EXCEPT !.isActive = FALSE])
                /\ Enter(i, "stopping")
           ELSE UNCHANGED <<processor, consumer>>
      /\ UNCHANGED <<published, projectionStatus, position>>

\* The batch handler throws, a statement or the commit fails: the processor
\* stops, and its fields stay as they are.
RollbackBatch(i) ==
  /\ "rollback" \in Disturbances
  /\ transaction[i].phase \in {"handled", "stored"}
  /\ SetTransaction(i, NoTransaction)
  /\ SetProcessor(i, [processor[i] EXCEPT !.isActive = FALSE])
  /\ Enter(i, "stopping")
  /\ UNCHANGED <<published, database, position, awaiter>>

-----------------------------------------------------------------------------
(* Closing *)

\* stop() is called, or the only processor is not active any more.
StopConsumer(i) ==
  /\ consumer[i] = "consuming"
  /\ ~InTransaction(i)
  /\ Enter(i, "stopping")
  /\ UNCHANGED <<published, database, position, processor, transaction,
                 awaiter>>

Reject(a) == IF a.state = "waiting" THEN [a EXCEPT !.state = "rejected"] ELSE a

CloseFields(i) ==
  /\ SetProcessor(i, [processor[i] EXCEPT
         !.isActive = FALSE, !.isClosed = TRUE,
         !.isReleasing = processor[i].isLockAcquired])
  /\ awaiter' = [awaiter EXCEPT ![i] = Reject(@)]

\* A consumer that ends closes its processor.
CloseProcessor(i) ==
  /\ consumer[i] = "stopping"
  /\ CloseFields(i)
  /\ Enter(i, IF processor[i].isLockAcquired THEN "closing" ELSE "stopped")
  /\ UNCHANGED <<published, database, position, transaction>>

\* A signal closes it while the consumer, and the batch in hand, go on.
ShutDownProcessor(i) ==
  /\ "shutdown" \in Disturbances
  /\ consumer[i] \in {"starting", "consuming"}
  /\ processor[i].isActive
  /\ CloseFields(i)
  /\ UNCHANGED <<published, database, consumer, position, transaction>>

AfterRelease(i) ==
  /\ SetProcessor(i, [processor[i] EXCEPT
         !.isLockAcquired = FALSE, !.isReleasing = FALSE])
  /\ Enter(i, IF consumer[i] = "closing" THEN "stopped" ELSE consumer[i])

\* emt_release_processor_lock: the projection is switched back for whoever
\* calls, the row is given up by its owner alone.
ReleaseLock(i) ==
  /\ processor[i].isReleasing
  /\ RowIsFree(i) /\ ~transaction[i].locksRow
  /\ projectionStatus' = "active"
  /\ row' = IF row.owner = i
              THEN [row EXCEPT !.status = "stopped", !.owner = Unknown,
                               !.stale = FALSE]
              ELSE row
  /\ AfterRelease(i)
  /\ UNCHANGED <<published, handled, handledAgain, position, transaction,
                 awaiter>>

FailToRelease(i) ==
  /\ "rollback" \in Disturbances
  /\ processor[i].isReleasing
  /\ \/ AfterRelease(i)              \* the commit fails
     \/ /\ SetProcessor(i, [processor[i] EXCEPT !.isReleasing = FALSE])
        /\ Enter(i, IF consumer[i] = "closing" THEN "stopped" ELSE consumer[i])
  /\ UNCHANGED <<published, database, position, transaction, awaiter>>

-----------------------------------------------------------------------------
(* The rest of the world *)

Publish ==
  /\ published < MaxMessages
  /\ published' = published + 1
  /\ UNCHANGED <<database, consumer, position, processor, transaction,
                 awaiter>>

\* A new process is an instance of its own, with an id of its own.
Crash(i) ==
  /\ "crash" \in Disturbances
  /\ consumer[i] \notin {"new", "crashed"}
  /\ Enter(i, "crashed")
  /\ SetProcessor(i, NewProcessor)
  /\ SetTransaction(i, NoTransaction)
  /\ awaiter' = [awaiter EXCEPT ![i] = NoAwaiter]
  /\ UNCHANGED <<published, database, position>>

OwnerIsAtWork ==
  /\ row.owner \in Instances
  /\ consumer[row.owner] \notin {"stopped", "crashed"}

\* Nothing has updated the row for lock.timeoutSeconds.  Only checkpoints do,
\* so an owner without messages expires as well as one that is gone.
ExpireLock ==
  /\ row.status = "running" /\ ~row.stale
  /\ "expiry" \in Disturbances \/ ~OwnerIsAtWork
  /\ row' = [row EXCEPT !.stale = TRUE]
  /\ UNCHANGED <<published, projectionStatus, handled, handledAgain, consumer,
                 position, processor, transaction, awaiter>>

\* whenProcessed of a message, or whenCaughtUp for the last one there is.
Await(i, target) ==
  /\ awaiter[i].state = "none"
  /\ consumer[i] \in AwaitedWhile
  /\ awaiter' = [awaiter EXCEPT ![i] =
       [target |-> target,
        state |-> IF processor[i].lastCheckpoint >= target THEN "resolved"
                  ELSE IF processor[i].isClosed THEN "rejected"
                  ELSE "waiting"]]
  /\ UNCHANGED <<published, database, consumer, position, processor,
                 transaction>>

-----------------------------------------------------------------------------

Init ==
  /\ published = 0
  /\ row = NoRow
  /\ projectionStatus = "active"
  /\ handled = {}
  /\ handledAgain = {}
  /\ consumer = [i \in Instances |-> "new"]
  /\ position = [i \in Instances |-> 0]
  /\ processor = [i \in Instances |-> NewProcessor]
  /\ transaction = [i \in Instances |-> NoTransaction]
  /\ awaiter = [i \in Instances |-> NoAwaiter]

\* What goes on by itself once a consumer has been started or stopped.
Proceed(i) ==
  \/ AcquireLock(i)
  \/ RefuseStart(i)
  \/ CompleteStart(i)
  \/ HandleBatch(i)
  \/ StoreCheckpoint(i)
  \/ LeaveCheckpoint(i)
  \/ CommitBatch(i)
  \/ CloseProcessor(i)
  \/ ReleaseLock(i)

Disturb(i) ==
  \/ FailStart(i)
  \/ RollbackBatch(i)
  \/ ShutDownProcessor(i)
  \/ FailToRelease(i)
  \/ Crash(i)

Next ==
  \/ Publish
  \/ ExpireLock
  \/ \E i \in Instances :
       \/ ResumeFromMemory(i)
       \/ BeginStart(i)
       \/ KeepGoingUnlocked(i)
       \/ StopConsumer(i)
       \/ Proceed(i)
       \/ Disturb(i)
       \/ \E target \in 1..published : Await(i, target)

Spec == Init /\ [][Next]_vars

FairSpec == Spec /\ \A i \in Instances : WF_vars(Proceed(i))

-----------------------------------------------------------------------------
(* Properties *)

\* Positions and checkpoints stay numbers: where a start begins to read is
\* never one of the names BEGINNING and END.
TypeOK ==
  /\ published \in Nat
  /\ row \in Row
  /\ projectionStatus \in {"active", "async_processing"}
  /\ handled \subseteq Nat
  /\ handledAgain \subseteq Nat
  /\ consumer \in [Instances -> {"new", "starting", "consuming", "stopping",
                                 "closing", "stopped", "crashed"}]
  /\ position \in [Instances -> Nat]
  /\ processor \in [Instances -> Processor]
  /\ transaction \in [Instances -> Transaction]
  /\ awaiter \in [Instances -> Awaiter]

\* Every message up to the stored checkpoint has been handled by a
\* transaction that committed, whoever stored it: instances without the lock,
\* instances that were replaced, and checkpoints that were remembered though
\* their transaction failed included.
CheckpointCoversHandled == 1..row.checkpoint \subseteq handled

\* The stored checkpoint never goes back.
CheckpointNeverMovesBack == [][row'.checkpoint >= row.checkpoint]_vars

Promise == INSTANCE ExactlyOnceProcessing

\* Whatever instances do, what they commit is what one processor would that
\* handles the log in order, and every message once.
ImplementsExactlyOnce == Promise!Spec

\* No message takes effect twice, whichever instances are given it: the
\* transaction of a batch stores the checkpoint that keeps others from it.  It
\* is not kept once a lock may expire.
HandledOnce == handledAgain = {}

\* No message takes effect while one before it has not: a processor that is
\* stopped and started again goes on where it was.  It is not kept when a
\* commit fails before the restart.
HandledWithoutGaps == \A m \in handled : \A k \in 1..m : k \in handled

\* The lock keeps all instances but one from working.
OneInstanceAtWork ==
  \A i, j \in Instances :
    /\ consumer[i] = "consuming" /\ processor[i].isActive
    /\ consumer[j] = "consuming" /\ processor[j].isActive
    => i = j

\* While the owner works, inline projections of the same name are held off.
ProjectionIsHeldWhileProcessing ==
  \A i \in Instances :
    /\ consumer[i] = "consuming" /\ processor[i].isActive
    /\ row.owner = i
    => projectionStatus = "async_processing"

\* An awaiter is only kept waiting for what the processor has yet to reach.
AwaiterIsNotForgotten ==
  \A i \in Instances :
    /\ consumer[i] = "consuming" /\ ~InTransaction(i)
    /\ awaiter[i].state = "waiting"
    => processor[i].lastCheckpoint < awaiter[i].target

\* A message that is there is handled, unless the consumer stops first: no
\* batch waits for ever for another instance that tries to get the lock.
EveryMessageIsHandled ==
  \A i \in Instances, m \in 1..MaxMessages :
    (consumer[i] = "consuming" /\ processor[i].isActive /\ published >= m)
      ~> (m \in handled \/ consumer[i] # "consuming")

=============================================================================
