---------------------- MODULE PostgresProcessor_proofs ----------------------
(***************************************************************************)
(* Proofs about PostgresProcessor, for any instances, batch size and       *)
(* number of messages, and, where a theorem does not say otherwise, for    *)
(* any lock policy and with all the disturbances.                          *)
(***************************************************************************)
EXTENDS PostgresProcessor, TLAPS

-----------------------------------------------------------------------------
(* Types *)

\* What acquiring, releasing and expiry write is a row.
LEMMA RowTypes ==
  ASSUME TypeOK, NEW c \in Nat
  PROVE  /\ \A i \in Instances : OwnedBy(i) \in Row
         /\ [row EXCEPT !.checkpoint = c, !.stale = FALSE] \in Row
         /\ [row EXCEPT !.stale = TRUE] \in Row
         /\ [row EXCEPT !.status = "stopped", !.owner = Unknown,
                        !.stale = FALSE] \in Row
         /\ \A i \in Instances : CommittedRow(transaction[i]) \in Row
BY DEF TypeOK, Row, OwnedBy, CommittedRow, Transaction

\* A start remembers, and begins to read after, a checkpoint.
LEMMA StartTypes ==
  ASSUME NEW c \in Nat, published \in Nat
  PROVE  Remembered(c) \in Nat /\ StartPosition(c) \in Nat
BY ProcessorAssumption DEF Remembered, StartPosition

\* Every update of the fields of a processor gives a processor.
LEMMA ProcessorTypes ==
  ASSUME NEW p \in Processor, NEW c \in Nat, NEW b \in BOOLEAN,
         published \in Nat
  PROVE  /\ NewProcessor \in Processor
         /\ Opened(p) \in Processor
         /\ WithCheckpoint(p, c) \in Processor
         /\ [p EXCEPT !.isLockAcquired = TRUE] \in Processor
         /\ [p EXCEPT !.isActive = FALSE] \in Processor
         /\ [p EXCEPT !.isReleasing = FALSE] \in Processor
         /\ [p EXCEPT !.isLockAcquired = FALSE, !.isReleasing = FALSE]
              \in Processor
         /\ [p EXCEPT !.lastCheckpoint = c, !.lastStoredCheckpoint = c]
              \in Processor
         /\ [p EXCEPT !.isActive = FALSE, !.isClosed = TRUE,
                      !.isReleasing = b] \in Processor
BY StartTypes DEF Processor, NewProcessor, Opened, WithCheckpoint

\* Every update of a transaction gives a transaction.
LEMMA TransactionTypes ==
  ASSUME NEW t \in Transaction, NEW r \in Row, NEW s \in SUBSET Nat,
         NEW b \in BOOLEAN
  PROVE  /\ [t EXCEPT !.phase = "acquiring"] \in Transaction
         /\ [t EXCEPT !.phase = "reading"] \in Transaction
         /\ [t EXCEPT !.phase = "stored"] \in Transaction
         /\ [t EXCEPT !.holdsKey = TRUE, !.locksRow = TRUE] \in Transaction
         /\ [t EXCEPT !.phase = "reading", !.holdsKey = TRUE,
                      !.locksRow = TRUE, !.writesRow = TRUE, !.row = r]
              \in Transaction
         /\ [t EXCEPT !.phase = "handled", !.isStop = b, !.batch = s]
              \in Transaction
         /\ [t EXCEPT !.phase = "stored", !.locksRow = TRUE,
                      !.writesRow = TRUE, !.row = r] \in Transaction
BY DEF Transaction

\* Telling and rejecting an awaiter leave an awaiter.
LEMMA AwaiterTypes ==
  ASSUME NEW a \in Awaiter, NEW c \in Nat
  PROVE  Notify(a, c) \in Awaiter /\ Reject(a) \in Awaiter
BY DEF Awaiter, Notify, Reject

\* Having no transaction is one of its states.
LEMMA NoTransactionType == NoTransaction \in Transaction
BY ProcessorAssumption DEF NoTransaction, Transaction, NoRow, Row

\* Every step keeps every variable in its type: remembered checkpoints and
\* positions stay numbers wherever the processor starts from.
LEMMA TypeInvariant == Spec => []TypeOK
<1>1. Init => TypeOK
  BY ProcessorAssumption, NoTransactionType
     DEF Init, TypeOK, Row, NoRow, Processor, NewProcessor, NoAwaiter, Awaiter
<1>2. TypeOK /\ [Next]_vars => TypeOK'
  <2> SUFFICES ASSUME TypeOK, [Next]_vars PROVE TypeOK'
    OBVIOUS
  <2>0. /\ \A i \in Instances, p \in Processor :
             SetProcessor(i, p) => processor' \in [Instances -> Processor]
        /\ \A i \in Instances, t \in Transaction :
             SetTransaction(i, t) => transaction' \in [Instances -> Transaction]
        /\ \A i \in Instances, a \in Awaiter :
             awaiter' = [awaiter EXCEPT ![i] = a]
               => awaiter' \in [Instances -> Awaiter]
    BY DEF TypeOK, SetProcessor, SetTransaction
  <2>t. ASSUME NEW i \in Instances
        PROVE  /\ processor[i] \in Processor
               /\ transaction[i] \in Transaction
               /\ awaiter[i] \in Awaiter
    BY DEF TypeOK
  <2> USE DEF Enter
  <2>1. ASSUME NEW i \in Instances, ResumeFromMemory(i) PROVE TypeOK'
    BY <2>1, <2>0, <2>t, ProcessorTypes
       DEF ResumeFromMemory, TypeOK, Processor, database
  <2>2. ASSUME NEW i \in Instances, BeginStart(i) PROVE TypeOK'
    BY <2>2, <2>0, <2>t, ProcessorTypes, TransactionTypes
       DEF BeginStart, TypeOK, database
  <2>3. ASSUME NEW i \in Instances, AcquireLock(i) PROVE TypeOK'
    BY <2>3, <2>0, <2>t, RowTypes, ProcessorTypes, TransactionTypes
       DEF AcquireLock, TypeOK, database
  <2>4. ASSUME NEW i \in Instances, KeepGoingUnlocked(i) PROVE TypeOK'
    BY <2>4, <2>0, <2>t, TransactionTypes
       DEF KeepGoingUnlocked, AfterFailedAttempt, TypeOK, database
  <2>5. ASSUME NEW i \in Instances, RefuseStart(i) PROVE TypeOK'
    BY <2>5, <2>0, <2>t, NoTransactionType
       DEF RefuseStart, TypeOK, database
  <2>6. ASSUME NEW i \in Instances, CompleteStart(i) PROVE TypeOK'
    BY <2>6, <2>0, <2>t, RowTypes, ProcessorTypes, StartTypes, NoTransactionType
       DEF CompleteStart, StatusWhenAcquired, TypeOK, Row
  <2>7. ASSUME NEW i \in Instances, FailStart(i) PROVE TypeOK'
    BY <2>7, <2>0, <2>t, ProcessorTypes, StartTypes, NoTransactionType
       DEF FailStart, TypeOK, Row, database
  <2>8. ASSUME NEW i \in Instances, HandleBatch(i) PROVE TypeOK'
    <3>1. PICK last \in position[i] + 1 .. published, isStop \in BOOLEAN :
            \E upTo \in position[i] .. last :
              /\ SetTransaction(i, [transaction[i] EXCEPT
                   !.phase = "handled", !.isStop = isStop,
                   !.batch = Unhandled(i, upTo)])
              /\ position' = [position EXCEPT ![i] = last]
      BY <2>8 DEF HandleBatch
    <3>2. position[i] \in Nat /\ published \in Nat
      BY DEF TypeOK
    <3>3. \A upTo \in position[i] .. last : Unhandled(i, upTo) \in SUBSET Nat
      BY <3>2 DEF Unhandled
    <3>4. PICK upTo \in position[i] .. last :
            SetTransaction(i, [transaction[i] EXCEPT
              !.phase = "handled", !.isStop = isStop,
              !.batch = Unhandled(i, upTo)])
      BY <3>1
    <3>5. [transaction[i] EXCEPT
              !.phase = "handled", !.isStop = isStop,
              !.batch = Unhandled(i, upTo)] \in Transaction
      <4>1. Unhandled(i, upTo) \in SUBSET Nat
        BY <3>3
      <4>2. transaction[i] \in Transaction
        BY <2>t
      <4> QED
        BY <4>1, <4>2 DEF Transaction
    <3>6. transaction' \in [Instances -> Transaction]
      BY <3>4, <3>5, <2>0
    <3>7. position' \in [Instances -> Nat]
      BY <3>1, <3>2 DEF TypeOK
    <3> QED
      BY <2>8, <3>6, <3>7 DEF HandleBatch, TypeOK, database
  <2>9. ASSUME NEW i \in Instances, StoreCheckpoint(i) PROVE TypeOK'
    <3>1. transaction[i].batch \subseteq Nat
      BY <2>t DEF Transaction
    <3>2. PICK m \in Nat :
            /\ SetTransaction(i, [transaction[i] EXCEPT
                 !.phase = "stored", !.locksRow = TRUE, !.writesRow = TRUE,
                 !.row = [row EXCEPT !.checkpoint = m, !.stale = FALSE]])
            /\ SetProcessor(i, [processor[i] EXCEPT
                 !.lastCheckpoint = m, !.lastStoredCheckpoint = m])
      BY <2>9, <3>1 DEF StoreCheckpoint, CheckpointMessage
    <3>3. [row EXCEPT !.checkpoint = m, !.stale = FALSE] \in Row
      BY RowTypes
    <3>4. /\ processor' \in [Instances -> Processor]
          /\ transaction' \in [Instances -> Transaction]
      BY <3>2, <3>3, <2>0, <2>t, ProcessorTypes, TransactionTypes DEF TypeOK
    <3> QED
      BY <2>9, <3>4 DEF StoreCheckpoint, TypeOK, database
  <2>10. ASSUME NEW i \in Instances, LeaveCheckpoint(i) PROVE TypeOK'
    BY <2>10, <2>0, <2>t, TransactionTypes
       DEF LeaveCheckpoint, TypeOK, database
  <2>11. ASSUME NEW i \in Instances, CommitBatch(i) PROVE TypeOK'
    <3>1. /\ processor[i].lastCheckpoint \in Nat
          /\ transaction[i].batch \subseteq Nat
      BY <2>t DEF Processor, Transaction
    <3> QED
      BY <2>11, <3>1, <2>0, <2>t, RowTypes, ProcessorTypes, AwaiterTypes,
         NoTransactionType
         DEF CommitBatch, TypeOK
  <2>12. ASSUME NEW i \in Instances, RollbackBatch(i) PROVE TypeOK'
    BY <2>12, <2>0, <2>t, ProcessorTypes, NoTransactionType
       DEF RollbackBatch, TypeOK, database
  <2>13. ASSUME NEW i \in Instances, StopConsumer(i) PROVE TypeOK'
    BY <2>13 DEF StopConsumer, TypeOK, database
  <2>14. ASSUME NEW i \in Instances, CloseProcessor(i) PROVE TypeOK'
    <3>1. processor[i].isLockAcquired \in BOOLEAN
      BY <2>t DEF Processor
    <3> QED
      BY <2>14, <3>1, <2>0, <2>t, ProcessorTypes, AwaiterTypes
         DEF CloseProcessor, CloseFields, TypeOK, database
  <2>15. ASSUME NEW i \in Instances, ShutDownProcessor(i) PROVE TypeOK'
    <3>1. processor[i].isLockAcquired \in BOOLEAN
      BY <2>t DEF Processor
    <3> QED
      BY <2>15, <3>1, <2>0, <2>t, ProcessorTypes, AwaiterTypes
         DEF ShutDownProcessor, CloseFields, TypeOK, database
  <2>16. ASSUME NEW i \in Instances, ReleaseLock(i) PROVE TypeOK'
    BY <2>16, <2>0, <2>t, RowTypes, ProcessorTypes
       DEF ReleaseLock, AfterRelease, TypeOK
  <2>17. ASSUME NEW i \in Instances, FailToRelease(i) PROVE TypeOK'
    BY <2>17, <2>0, <2>t, ProcessorTypes
       DEF FailToRelease, AfterRelease, TypeOK, database
  <2>18. ASSUME NEW i \in Instances, Crash(i) PROVE TypeOK'
    BY <2>18, <2>0, <2>t, ProcessorTypes, NoTransactionType
       DEF Crash, TypeOK, NoAwaiter, Awaiter, database
  <2>19. ASSUME NEW i \in Instances, NEW target \in 1..published,
                Await(i, target)
         PROVE  TypeOK'
    BY <2>19 DEF Await, TypeOK, Awaiter, database
  <2>20. CASE Publish
    BY <2>20 DEF Publish, TypeOK, database
  <2>21. CASE ExpireLock
    BY <2>21, RowTypes
       DEF ExpireLock, TypeOK
  <2>22. CASE UNCHANGED vars
    BY <2>22 DEF vars, TypeOK, database
  <2> QED
    BY <2>1, <2>2, <2>3, <2>4, <2>5, <2>6, <2>7, <2>8, <2>9, <2>10, <2>11,
       <2>12, <2>13, <2>14, <2>15, <2>16, <2>17, <2>18, <2>19, <2>20, <2>21,
       <2>22
       DEF Next, Proceed, Disturb
<1> QED
  BY <1>1, <1>2, PTL DEF Spec

-----------------------------------------------------------------------------
(* The stored checkpoint *)

\* What an instance would store is ahead of what is stored: it remembers no
\* less than it read or wrote, handles only what comes after that, and while
\* it holds a new version of the row nobody else can move the old one.
AheadOfRow(i) ==
  /\ processor[i].lastStoredCheckpoint <= processor[i].lastCheckpoint
  /\ transaction[i].phase = "handled" =>
       \A m \in transaction[i].batch : m > processor[i].lastCheckpoint
  /\ transaction[i].writesRow =>
       /\ transaction[i].locksRow
       /\ transaction[i].row.checkpoint >= row.checkpoint

RowIsLockedByOne ==
  \A i, j \in Instances :
    transaction[i].locksRow /\ transaction[j].locksRow => i = j

RowInv == RowIsLockedByOne /\ \A i \in Instances : AheadOfRow(i)

\* What the actions set for one instance is what holds for it afterwards, and
\* nothing changes for the others.
LEMMA Updates ==
  ASSUME TypeOK, NEW i \in Instances
  PROVE  /\ \A p : SetProcessor(i, p) =>
              /\ processor'[i] = p
              /\ \A j \in Instances \ {i} : processor'[j] = processor[j]
         /\ \A t : SetTransaction(i, t) =>
              /\ transaction'[i] = t
              /\ \A j \in Instances \ {i} : transaction'[j] = transaction[j]
         /\ \A state : Enter(i, state) =>
              /\ consumer'[i] = state
              /\ \A j \in Instances \ {i} : consumer'[j] = consumer[j]
BY DEF TypeOK, SetProcessor, SetTransaction, Enter

SameCheckpoints(q, p) ==
  /\ q.lastCheckpoint = p.lastCheckpoint
  /\ q.lastStoredCheckpoint = p.lastStoredCheckpoint

\* A start sets both checkpoints from the one that it has read.
LEMMA CheckpointsAreSet ==
  ASSUME NEW p \in Processor, NEW c \in Nat
  PROVE  /\ WithCheckpoint(p, c).lastCheckpoint = Remembered(c)
         /\ WithCheckpoint(p, c).lastStoredCheckpoint = c
BY DEF Processor, WithCheckpoint

\* What a transaction holds of the row.
SameHold(u, t) ==
  u.locksRow = t.locksRow /\ u.writesRow = t.writesRow /\ u.row = t.row

\* Going to the next phase leaves the rest of a transaction as it is.
LEMMA PhaseIsSet ==
  ASSUME NEW t \in Transaction, NEW x \in {"acquiring", "reading", "stored"}
  PROVE  LET u == [t EXCEPT !.phase = x]
         IN  /\ SameHold(u, t)
             /\ u.phase = x /\ u.batch = t.batch /\ u.isStop = t.isStop
BY DEF Transaction, SameHold

\* A handled batch is in the transaction, with what that wrote before.
LEMMA BatchIsSet ==
  ASSUME NEW t \in Transaction, NEW b, NEW s
  PROVE  LET u == [t EXCEPT !.phase = "handled", !.isStop = b, !.batch = s]
         IN  /\ SameHold(u, t)
             /\ u.phase = "handled" /\ u.batch = s /\ u.isStop = b
BY DEF Transaction, SameHold

\* A start remembers at least the checkpoint that it has read.
LEMMA RememberedIsNotLess ==
  ASSUME NEW c \in Nat
  PROVE  Remembered(c) \in Nat /\ Remembered(c) >= c
BY ProcessorAssumption DEF Remembered

\* The instances that a step of i leaves alone stay ahead of the row, when the
\* row is not moved or was locked by i.
LEMMA OthersStayAhead ==
  ASSUME TypeOK, RowInv, NEW i \in Instances, NEW j \in Instances \ {i},
         processor'[j] = processor[j],
         transaction'[j] = transaction[j],
         row'.checkpoint = row.checkpoint \/ transaction[i].locksRow
  PROVE  AheadOfRow(j)'
BY DEF RowInv, RowIsLockedByOne, AheadOfRow

\* Every step keeps the row locked by one transaction at a time, and all that
\* instances will store ahead of it.
LEMMA RowInvariant == TypeOK /\ TypeOK' /\ RowInv /\ [Next]_vars => RowInv'
<1> SUFFICES ASSUME TypeOK, TypeOK', RowInv, [Next]_vars
             PROVE  RowInv'
  OBVIOUS
<1>t. /\ row \in Row
      /\ \A i \in Instances : /\ processor[i] \in Processor
                              /\ transaction[i] \in Transaction
  BY DEF TypeOK
<1>l. ASSUME NEW i \in Instances,
             \A j \in Instances \ {i} : transaction'[j] = transaction[j],
             transaction'[i].locksRow => transaction[i].locksRow \/ RowIsFree(i)
      PROVE  RowIsLockedByOne'
  BY <1>l DEF RowInv, RowIsLockedByOne, RowIsFree
<1>f. ASSUME NEW i \in Instances,
             \A j \in Instances \ {i} : /\ processor'[j] = processor[j]
                                        /\ transaction'[j] = transaction[j],
             row'.checkpoint = row.checkpoint \/ transaction[i].locksRow,
             transaction'[i].locksRow
               => transaction[i].locksRow \/ RowIsFree(i),
             AheadOfRow(i)'
      PROVE  RowInv'
  BY <1>f, <1>l, OthersStayAhead DEF RowInv
<1>1. ASSUME NEW i \in Instances, ResumeFromMemory(i) PROVE RowInv'
  <2>1. AheadOfRow(i)'
    <3>1. SameCheckpoints(processor'[i], processor[i])
      BY <1>1 DEF ResumeFromMemory, SetProcessor, TypeOK, Processor,
             SameCheckpoints, Opened
    <3> QED
      BY <1>1, <3>1
         DEF ResumeFromMemory, SameCheckpoints, RowInv, AheadOfRow, database
  <2> QED
    BY <1>1, <1>f, <2>1, Updates DEF ResumeFromMemory, database
<1>2. ASSUME NEW i \in Instances, BeginStart(i) PROVE RowInv'
  <2>0. /\ SameHold(transaction'[i], transaction[i])
        /\ transaction'[i].phase = "acquiring"
        /\ SameCheckpoints(processor'[i], processor[i])
    <3>1. SameCheckpoints(processor'[i], processor[i])
      BY <1>2 DEF BeginStart, SetProcessor, TypeOK, Processor,
             SameCheckpoints, Opened
    <3>2. transaction'[i] = [transaction[i] EXCEPT !.phase = "acquiring"]
      BY <1>2, Updates DEF BeginStart
    <3> QED
      BY <3>1, <3>2, <1>t, PhaseIsSet
  <2>1. AheadOfRow(i)' /\ transaction'[i].locksRow = transaction[i].locksRow
    BY <1>2, <2>0
       DEF BeginStart, SameHold, SameCheckpoints, RowInv, AheadOfRow, database
  <2> QED
    BY <1>2, <1>f, <2>1, Updates DEF BeginStart, database
<1>3. ASSUME NEW i \in Instances, AcquireLock(i) PROVE RowInv'
  <2>0. /\ SameCheckpoints(processor'[i], processor[i])
        /\ transaction'[i].phase = "reading"
        /\ \/ SameHold(transaction'[i], transaction[i])
           \/ /\ transaction'[i].locksRow /\ RowIsFree(i)
              /\ transaction'[i].row = OwnedBy(i)
    <3>1. SameCheckpoints(processor'[i], processor[i])
      BY <1>3 DEF AcquireLock, SetProcessor, TypeOK, Processor,
             SameCheckpoints
    <3>2. \/ transaction'[i] = [transaction[i] EXCEPT !.phase = "reading"]
          \/ /\ RowIsFree(i)
             /\ transaction'[i] = [transaction[i] EXCEPT
                  !.phase = "reading", !.holdsKey = TRUE, !.locksRow = TRUE,
                  !.writesRow = TRUE, !.row = OwnedBy(i)]
      BY <1>3, Updates DEF AcquireLock
    <3>3. CASE transaction'[i] = [transaction[i] EXCEPT !.phase = "reading"]
      BY <3>1, <3>3, <1>t DEF Transaction, SameHold
    <3>4. CASE /\ RowIsFree(i)
               /\ transaction'[i] = [transaction[i] EXCEPT
                    !.phase = "reading", !.holdsKey = TRUE, !.locksRow = TRUE,
                    !.writesRow = TRUE, !.row = OwnedBy(i)]
      BY <3>1, <3>4, <1>t DEF Transaction
    <3> QED
      BY <3>2, <3>3, <3>4
  <2>1. AheadOfRow(i)' /\ row' = row
    <3>1. OwnedBy(i).checkpoint = row.checkpoint /\ row.checkpoint \in Nat
      BY <1>t DEF OwnedBy, Row
    <3> QED
      BY <1>3, <2>0, <3>1
         DEF AcquireLock, SameHold, SameCheckpoints, RowInv, AheadOfRow,
             database
  <2>2. transaction'[i].locksRow => transaction[i].locksRow \/ RowIsFree(i)
    BY <2>0 DEF SameHold
  <2> QED
    BY <1>3, <1>f, <2>1, <2>2, Updates DEF AcquireLock
<1>4. ASSUME NEW i \in Instances, KeepGoingUnlocked(i) PROVE RowInv'
  <2>0. PICK t \in AfterFailedAttempt(i) :
          SetTransaction(i, [t EXCEPT
            !.phase = IF AcquisitionPolicy = "skip" THEN "reading" ELSE @])
    BY <1>4 DEF KeepGoingUnlocked
  <2>3. /\ t \in Transaction /\ t.phase = "acquiring"
        /\ t.writesRow = transaction[i].writesRow /\ t.row = transaction[i].row
        /\ t.locksRow => transaction[i].locksRow \/ RowIsFree(i)
        /\ transaction[i].locksRow => t.locksRow
    <3>1. /\ transaction[i].phase = "acquiring"
          /\ t # transaction[i] => RowIsFree(i)
      BY DEF AfterFailedAttempt
    <3>2. CASE t = transaction[i]
      BY <3>1, <3>2, <1>t
    <3>3. CASE t = [transaction[i] EXCEPT !.holdsKey = TRUE, !.locksRow = TRUE]
      <4>1. CASE t # transaction[i]
        BY <4>1, <3>1, <3>3, <1>t DEF Transaction
      <4> QED
        BY <4>1, <3>2
    <3> QED
      BY <3>2, <3>3 DEF AfterFailedAttempt
  <2>4. SameHold(transaction'[i], t) /\ transaction'[i].phase # "handled"
    BY <2>0, <2>3 DEF SetTransaction, SameHold, TypeOK, Transaction
  <2>1. AheadOfRow(i)' /\ row' = row
    BY <1>4, <2>3, <2>4
       DEF KeepGoingUnlocked, SameHold, RowInv, AheadOfRow, database
  <2>2. transaction'[i].locksRow => transaction[i].locksRow \/ RowIsFree(i)
    BY <2>3, <2>4 DEF SameHold
  <2> QED
    BY <1>4, <1>f, <2>1, <2>2, Updates DEF KeepGoingUnlocked
<1>5. ASSUME NEW i \in Instances, RefuseStart(i) PROVE RowInv'
  <2>1. AheadOfRow(i)' /\ ~transaction'[i].locksRow
    BY <1>5, <1>t, Updates
       DEF RefuseStart, NoTransaction, RowInv, AheadOfRow, database
  <2> QED
    BY <1>5, <1>f, <2>1, Updates DEF RefuseStart, database
<1>6. ASSUME NEW i \in Instances, CompleteStart(i) PROVE RowInv'
  <2>1. AheadOfRow(i)' /\ ~transaction'[i].locksRow
    <3>1. row.checkpoint \in Nat
      BY <1>t DEF Row
    <3> QED
      BY <1>6, <1>t, <3>1, Updates, RememberedIsNotLess, CheckpointsAreSet
         DEF CompleteStart, NoTransaction, AheadOfRow
  <2>2. row'.checkpoint = row.checkpoint \/ transaction[i].locksRow
    BY <1>6 DEF CompleteStart, CommittedRow, RowInv, AheadOfRow
  <2> QED
    BY <1>6, <1>f, <2>1, <2>2, Updates DEF CompleteStart
<1>7. ASSUME NEW i \in Instances, FailStart(i) PROVE RowInv'
  <2>1. AheadOfRow(i)' /\ ~transaction'[i].locksRow
    <3>1. row.checkpoint \in Nat
      BY <1>t DEF Row
    <3> QED
      BY <1>7, <1>t, <3>1, Updates, RememberedIsNotLess, CheckpointsAreSet
         DEF FailStart, NoTransaction, RowInv, AheadOfRow
  <2> QED
    BY <1>7, <1>f, <2>1, Updates DEF FailStart, database
<1>8. ASSUME NEW i \in Instances, HandleBatch(i) PROVE RowInv'
  <2>1. PICK upTo, isStop :
          SetTransaction(i, [transaction[i] EXCEPT
            !.phase = "handled", !.isStop = isStop,
            !.batch = Unhandled(i, upTo)])
    BY <1>8 DEF HandleBatch
  <2>2. /\ transaction'[i].batch = Unhandled(i, upTo)
        /\ transaction'[i].locksRow = transaction[i].locksRow
        /\ transaction'[i].writesRow = transaction[i].writesRow
        /\ transaction'[i].row = transaction[i].row
    <3>1. transaction'[i] = [transaction[i] EXCEPT !.phase = "handled",
                    !.isStop = isStop, !.batch = Unhandled(i, upTo)]
      BY <2>1, Updates
    <3> QED
      BY <3>1, <1>t, BatchIsSet DEF SameHold
  <2>3. AheadOfRow(i)' /\ row' = row /\ processor' = processor
    BY <1>8, <2>2 DEF HandleBatch, Unhandled, RowInv, AheadOfRow, database
  <2> QED
    BY <1>f, <2>1, <2>2, <2>3, Updates
<1>9. ASSUME NEW i \in Instances, StoreCheckpoint(i) PROVE RowInv'
  <2>1. PICK m \in CheckpointMessage(i) :
          /\ SetTransaction(i, [transaction[i] EXCEPT
               !.phase = "stored", !.locksRow = TRUE, !.writesRow = TRUE,
               !.row = [row EXCEPT !.checkpoint = m, !.stale = FALSE]])
          /\ SetProcessor(i, [processor[i] EXCEPT
               !.lastCheckpoint = m, !.lastStoredCheckpoint = m])
    BY <1>9 DEF StoreCheckpoint
  <2>2. m \in transaction[i].batch /\ m \in Nat
    BY <1>t DEF CheckpointMessage, Transaction
  <2>3. m > row.checkpoint
    BY <1>9, <2>2, <1>t
       DEF StoreCheckpoint, CheckpointMatches, RowInv, AheadOfRow, Processor,
           Row
  <2>4. /\ processor'[i].lastCheckpoint = m
        /\ processor'[i].lastStoredCheckpoint = m
        /\ transaction'[i].phase = "stored"
        /\ transaction'[i].locksRow
        /\ transaction'[i].row.checkpoint = m
    <3>1. [row EXCEPT !.checkpoint = m, !.stale = FALSE].checkpoint = m
      BY <1>t DEF Row
    <3>2. LET p == [processor[i] EXCEPT !.lastCheckpoint = m,
                                        !.lastStoredCheckpoint = m]
          IN  p.lastCheckpoint = m /\ p.lastStoredCheckpoint = m
      BY <1>t DEF Processor
    <3> QED
      <4>1. /\ transaction'[i].phase = "stored"
            /\ transaction'[i].locksRow
            /\ transaction'[i].row
                 = [row EXCEPT !.checkpoint = m, !.stale = FALSE]
        BY <2>1 DEF SetTransaction, TypeOK, Transaction
      <4>2. processor'[i] = [processor[i] EXCEPT !.lastCheckpoint = m,
                                                 !.lastStoredCheckpoint = m]
        BY <2>1, Updates
      <4> QED
        BY <3>1, <3>2, <4>1, <4>2
  <2>5. row' = row
    BY <1>9 DEF StoreCheckpoint, database
  <2>6. AheadOfRow(i)'
    BY <2>2, <2>3, <2>4, <2>5, <1>t DEF AheadOfRow, Row
  <2> QED
    BY <1>9, <1>f, <2>1, <2>5, <2>6, Updates DEF StoreCheckpoint
<1>10. ASSUME NEW i \in Instances, LeaveCheckpoint(i) PROVE RowInv'
  <2>1. /\ AheadOfRow(i)' /\ row' = row
        /\ transaction'[i].locksRow = transaction[i].locksRow
    <3>1. transaction'[i] = [transaction[i] EXCEPT !.phase = "stored"]
      BY <1>10, Updates DEF LeaveCheckpoint
    <3>2. /\ SameHold(transaction'[i], transaction[i])
          /\ transaction'[i].phase = "stored"
      BY <3>1, <1>t, PhaseIsSet
    <3> QED
      BY <1>10, <3>2
         DEF LeaveCheckpoint, SameHold, RowInv, AheadOfRow, database
  <2> QED
    BY <1>10, <1>f, <2>1, Updates DEF LeaveCheckpoint
<1>11. ASSUME NEW i \in Instances, CommitBatch(i) PROVE RowInv'
  <2>1. AheadOfRow(i)' /\ ~transaction'[i].locksRow
    <3>1. \/ processor' = processor
          \/ SameCheckpoints(processor'[i], processor[i])
      BY <1>11 DEF CommitBatch, SetProcessor, TypeOK, Processor,
             SameCheckpoints
    <3> QED
      BY <1>11, <3>1, Updates
         DEF CommitBatch, NoTransaction, SameCheckpoints, RowInv, AheadOfRow
  <2>2. row'.checkpoint = row.checkpoint \/ transaction[i].locksRow
    BY <1>11 DEF CommitBatch, CommittedRow, RowInv, AheadOfRow
  <2> QED
    BY <1>11, <1>f, <2>1, <2>2, Updates DEF CommitBatch
<1>12. ASSUME NEW i \in Instances, RollbackBatch(i) PROVE RowInv'
  <2>1. AheadOfRow(i)' /\ ~transaction'[i].locksRow
    <3>1. SameCheckpoints(processor'[i], processor[i])
      BY <1>12 DEF RollbackBatch, SetProcessor, TypeOK, Processor,
             SameCheckpoints
    <3> QED
      BY <1>12, <3>1, Updates
         DEF RollbackBatch, NoTransaction, SameCheckpoints, RowInv, AheadOfRow
  <2> QED
    BY <1>12, <1>f, <2>1, Updates DEF RollbackBatch, database
<1>13. ASSUME UNCHANGED <<row, processor, transaction>> PROVE RowInv'
  BY <1>13 DEF RowInv, RowIsLockedByOne, AheadOfRow
<1>14. ASSUME NEW i \in Instances, CloseFields(i),
              UNCHANGED <<row, transaction>>
       PROVE  RowInv'
  <2>1. AheadOfRow(i)'
    <3>1. processor[i].isLockAcquired \in BOOLEAN
      BY <1>t DEF Processor
    <3>2. SameCheckpoints(processor'[i], processor[i])
      BY <1>14, <3>1 DEF CloseFields, SetProcessor, TypeOK, Processor,
             SameCheckpoints
    <3> QED
      BY <1>14, <3>2 DEF SameCheckpoints, RowInv, AheadOfRow
  <2> QED
    BY <1>14, <1>f, <2>1, Updates DEF CloseFields
<1>15. ASSUME NEW i \in Instances, ReleaseLock(i) PROVE RowInv'
  <2>1. AheadOfRow(i)' /\ row'.checkpoint = row.checkpoint
    <3>1. row'.checkpoint = row.checkpoint
      BY <1>15, <1>t DEF ReleaseLock, Row
    <3>2. SameCheckpoints(processor'[i], processor[i])
      BY <1>15 DEF ReleaseLock, AfterRelease, SetProcessor, TypeOK, Processor,
             SameCheckpoints
    <3> QED
      BY <1>15, <3>1, <3>2 DEF ReleaseLock, SameCheckpoints, RowInv, AheadOfRow
  <2> QED
    BY <1>15, <1>f, <2>1, Updates DEF ReleaseLock, AfterRelease
<1>16. ASSUME NEW i \in Instances, FailToRelease(i) PROVE RowInv'
  <2>1. AheadOfRow(i)'
    <3>1. SameCheckpoints(processor'[i], processor[i])
      <4>1. PICK b \in BOOLEAN :
              SetProcessor(i, [processor[i] EXCEPT
                !.isLockAcquired = b, !.isReleasing = FALSE])
        <5>1. [processor[i] EXCEPT !.isReleasing = FALSE]
                = [processor[i] EXCEPT
                     !.isLockAcquired = processor[i].isLockAcquired,
                     !.isReleasing = FALSE]
          BY <1>t DEF Processor
        <5>2. processor[i].isLockAcquired \in BOOLEAN
          BY <1>t DEF Processor
        <5> QED
          BY <1>16, <5>1, <5>2 DEF FailToRelease, AfterRelease
      <4> QED
        BY <4>1 DEF SetProcessor, TypeOK, Processor, SameCheckpoints
    <3> QED
      BY <1>16, <3>1
         DEF FailToRelease, SameCheckpoints, RowInv, AheadOfRow, database
  <2> QED
    BY <1>16, <1>f, <2>1, Updates DEF FailToRelease, AfterRelease, database
<1>17. ASSUME NEW i \in Instances, Crash(i) PROVE RowInv'
  <2>1. AheadOfRow(i)' /\ ~transaction'[i].locksRow
    BY <1>17, <1>t, Updates
       DEF Crash, NewProcessor, NoTransaction, AheadOfRow
  <2> QED
    BY <1>17, <1>f, <2>1, Updates DEF Crash, database
<1>18. CASE ExpireLock
  BY <1>18, <1>t DEF ExpireLock, RowInv, RowIsLockedByOne, AheadOfRow, Row
<1> QED
  BY <1>1, <1>2, <1>3, <1>4, <1>5, <1>6, <1>7, <1>8, <1>9, <1>10, <1>11,
     <1>12, <1>13, <1>14, <1>15, <1>16, <1>17, <1>18
     DEF Next, Proceed, Disturb, StopConsumer, CloseProcessor,
         ShutDownProcessor, Publish, Await, vars, database

\* No step moves the committed checkpoint back, whoever holds the lock.
THEOREM CheckpointGoesForward == Spec => CheckpointNeverMovesBack
<1>1. Init => RowInv
  BY DEF Init, RowInv, RowIsLockedByOne, AheadOfRow, NewProcessor, NoTransaction
<1>2. TypeOK /\ RowInv /\ [Next]_vars
        => [row'.checkpoint >= row.checkpoint]_vars
  <2> SUFFICES ASSUME TypeOK, RowInv, Next
               PROVE  row'.checkpoint >= row.checkpoint
    BY DEF vars
  <2>1. row \in Row
    BY DEF TypeOK
  <2>2. ASSUME NEW i \in Instances, row' = CommittedRow(transaction[i])
        PROVE  row'.checkpoint >= row.checkpoint
    BY <2>1, <2>2 DEF CommittedRow, RowInv, AheadOfRow, Row
  <2>3. ASSUME NEW i \in Instances, ReleaseLock(i)
        PROVE  row'.checkpoint = row.checkpoint
    BY <2>1, <2>3 DEF ReleaseLock, Row
  <2>4. ASSUME ExpireLock PROVE row'.checkpoint = row.checkpoint
    BY <2>1, <2>4 DEF ExpireLock, Row
  <2>5. \/ row' = row
        \/ ExpireLock
        \/ \E i \in Instances : \/ row' = CommittedRow(transaction[i])
                                \/ ReleaseLock(i)
    BY DEF Next, Proceed, Disturb, Publish, ResumeFromMemory, BeginStart,
           KeepGoingUnlocked, StopConsumer, Await, AcquireLock, RefuseStart,
           CompleteStart, HandleBatch, StoreCheckpoint, LeaveCheckpoint,
           CommitBatch, CloseProcessor, FailStart, RollbackBatch,
           ShutDownProcessor, FailToRelease, Crash, database
  <2> QED
    BY <2>1, <2>2, <2>3, <2>4, <2>5 DEF Row
<1> QED
  BY <1>1, <1>2, TypeInvariant, RowInvariant, PTL
     DEF Spec, CheckpointNeverMovesBack

-----------------------------------------------------------------------------
(* What the stored checkpoint stands for *)

\* A transaction belongs to the start or to the batch its consumer is at.
TransactionFits(i) ==
  LET t == transaction[i]
  IN  /\ t.phase \in {"none", "acquiring", "reading"} =>
           t.batch = {} /\ ~t.isStop
      /\ t.phase \in {"acquiring", "reading"} => consumer[i] = "starting"
      /\ t.phase \in {"handled", "stored"} => consumer[i] = "consuming"
      /\ t.batch \subseteq 1..position[i]

\* What was delivered after the remembered checkpoint is handled or in hand,
\* but for what follows the message at which the handler asked to stop.  It is
\* more than what the next checkpoint needs: an instance whose checkpoints are
\* refused goes on handling, and may store one much later.
NothingIsPassedOver(i) ==
  LET t == transaction[i]
  IN  /\ processor[i].lastCheckpoint = processor[i].lastStoredCheckpoint
      /\ t.writesRow => 1..t.row.checkpoint \subseteq handled \cup t.batch
      /\ consumer[i] = "consuming" =>
           \A m \in 1..position[i] :
             /\ m > processor[i].lastStoredCheckpoint
             /\ t.isStop => \E k \in t.batch : m <= k
             => m \in handled \cup t.batch

CoverInv ==
  /\ CheckpointCoversHandled
  /\ \A i \in Instances : TransactionFits(i) /\ NothingIsPassedOver(i)

\* At first nothing is stored, and nothing has to be covered.
LEMMA InitCovers == Init => CoverInv
BY DEF Init, CoverInv, CheckpointCoversHandled, TransactionFits,
       NothingIsPassedOver, NewProcessor, NoTransaction, NoRow

\* An instance whose transaction is gone and whose consumer is not consuming.
LEMMA SetAsideCovers ==
  ASSUME NEW i \in Instances,
         transaction'[i] = NoTransaction,
         consumer'[i] # "consuming",
         processor'[i].lastCheckpoint = processor'[i].lastStoredCheckpoint
  PROVE  TransactionFits(i)' /\ NothingIsPassedOver(i)'
BY DEF TransactionFits, NothingIsPassedOver, NoTransaction

\* A step that touches neither the transaction nor the checkpoints.
LEMMA UntouchedCovers ==
  ASSUME TypeOK, CoverInv, NEW i \in Instances,
         transaction'[i] = transaction[i],
         position'[i] = position[i],
         SameCheckpoints(processor'[i], processor[i]),
         handled \subseteq handled',
         \/ consumer'[i] = consumer[i]
         \/ consumer'[i] # "consuming" /\ transaction[i].phase = "none"
  PROVE  TransactionFits(i)' /\ NothingIsPassedOver(i)'
BY DEF CoverInv, TransactionFits, NothingIsPassedOver, SameCheckpoints

\* A consumer that neither starts nor consumes has no transaction.
LEMMA IdleBetweenConsumings ==
  ASSUME TypeOK, CoverInv, NEW i \in Instances,
         consumer[i] \notin {"starting", "consuming"}
  PROVE  transaction[i].phase = "none"
<1>1. transaction[i].phase
        \in {"none", "acquiring", "reading", "handled", "stored"}
  BY DEF TypeOK, Transaction
<1> QED
  BY <1>1 DEF CoverInv, TransactionFits

\* Every step keeps what an instance has gone past handled, by itself, by a
\* batch in hand or by whoever stored the checkpoint that it compares with.
LEMMA CoverInvariant ==
  ASSUME StartFrom = BEGINNING, ~TruncateOnStart
  PROVE  TypeOK /\ TypeOK' /\ RowInv /\ CoverInv /\ [Next]_vars => CoverInv'
<1> SUFFICES ASSUME TypeOK, TypeOK', RowInv, CoverInv, [Next]_vars
             PROVE  CoverInv'
  OBVIOUS
<1>t. /\ row \in Row /\ row.checkpoint \in Nat
      /\ \A i \in Instances : /\ processor[i] \in Processor
                              /\ transaction[i] \in Transaction
                              /\ transaction[i].batch \subseteq Nat
                              /\ position[i] \in Nat
  BY DEF TypeOK, Row, Transaction
<1>r. ASSUME NEW c \in Nat PROVE Remembered(c) = c /\ StartPosition(c) = c
  BY ProcessorAssumption DEF Remembered, StartPosition
<1>f. ASSUME NEW i \in Instances,
             \A j \in Instances \ {i} : /\ processor'[j] = processor[j]
                                        /\ transaction'[j] = transaction[j]
                                        /\ consumer'[j] = consumer[j],
             \A j \in Instances \ {i} : position'[j] = position[j],
             handled \subseteq handled',
             CheckpointCoversHandled',
             TransactionFits(i)', NothingIsPassedOver(i)'
      PROVE  CoverInv'
  <2>1. ASSUME NEW j \in Instances \ {i}
        PROVE  TransactionFits(j)' /\ NothingIsPassedOver(j)'
    BY <1>f, <2>1, UntouchedCovers DEF SameCheckpoints
  <2> QED
    BY <1>f, <2>1 DEF CoverInv
<1>c. ASSUME row'.checkpoint = row.checkpoint, handled \subseteq handled'
      PROVE  CheckpointCoversHandled'
  BY <1>c DEF CoverInv, CheckpointCoversHandled
<1>1. ASSUME NEW i \in Instances, ResumeFromMemory(i) PROVE CoverInv'
  <2>1. /\ processor'[i].lastCheckpoint = processor[i].lastCheckpoint
        /\ processor'[i].lastStoredCheckpoint
             = processor[i].lastStoredCheckpoint
    BY <1>1 DEF ResumeFromMemory, Opened, SetProcessor, TypeOK, Processor
  <2>2. position'[i] = processor[i].lastCheckpoint
    BY <1>1 DEF ResumeFromMemory, TypeOK
  <2>3. transaction[i].phase = "none"
    BY <1>1, IdleBetweenConsumings DEF ResumeFromMemory, CanStart
  <2>4. TransactionFits(i)' /\ NothingIsPassedOver(i)'
    <3>1. /\ processor[i].lastCheckpoint = processor[i].lastStoredCheckpoint
          /\ processor[i].lastCheckpoint \in Nat
      BY <1>t DEF CoverInv, NothingIsPassedOver, Processor
    <3> QED
      BY <1>1, <2>1, <2>2, <2>3, <3>1
         DEF ResumeFromMemory, database, CoverInv, TransactionFits,
             NothingIsPassedOver
  <2> QED
    BY <1>1, <1>f, <1>c, <2>4, Updates
       DEF ResumeFromMemory, CanStart, database, TypeOK
<1>2. ASSUME NEW i \in Instances, BeginStart(i) PROVE CoverInv'
  <2>1. SameCheckpoints(processor'[i], processor[i])
    BY <1>2 DEF BeginStart, Opened, SetProcessor, TypeOK, Processor,
                SameCheckpoints
  <2>2. transaction[i].phase = "none"
    BY <1>2, IdleBetweenConsumings DEF BeginStart, CanStart
  <2>3. /\ SameHold(transaction'[i], transaction[i])
        /\ transaction'[i].phase = "acquiring"
        /\ transaction'[i].batch = transaction[i].batch
        /\ transaction'[i].isStop = transaction[i].isStop
    BY <1>2 DEF BeginStart, SetTransaction, TypeOK, Transaction, SameHold
  <2>4. consumer'[i] = "starting"
    BY <1>2, Updates DEF BeginStart
  <2>5. TransactionFits(i)' /\ NothingIsPassedOver(i)'
    BY <1>2, <2>1, <2>2, <2>3, <2>4
       DEF BeginStart, database, CoverInv, TransactionFits,
           NothingIsPassedOver, SameCheckpoints, SameHold
  <2> QED
    BY <1>2, <1>f, <1>c, <2>5, Updates DEF BeginStart, database
<1>3. ASSUME NEW i \in Instances, AcquireLock(i) PROVE CoverInv'
  <2>1. SameCheckpoints(processor'[i], processor[i])
    BY <1>3 DEF AcquireLock, SetProcessor, TypeOK, Processor, SameCheckpoints
  <2>2. /\ transaction'[i].phase = "reading"
        /\ transaction'[i].batch = transaction[i].batch
        /\ transaction'[i].isStop = transaction[i].isStop
        /\ \/ SameHold(transaction'[i], transaction[i])
           \/ transaction'[i].row = OwnedBy(i)
    <3>1. CASE SetTransaction(i, [transaction[i] EXCEPT !.phase = "reading"])
      BY <3>1 DEF SetTransaction, TypeOK, Transaction, SameHold
    <3>2. CASE SetTransaction(i, [transaction[i] EXCEPT
                 !.phase = "reading", !.holdsKey = TRUE, !.locksRow = TRUE,
                 !.writesRow = TRUE, !.row = OwnedBy(i)])
      BY <3>2 DEF SetTransaction, TypeOK, Transaction
    <3> QED
      BY <1>3, <3>1, <3>2 DEF AcquireLock
  <2>3. OwnedBy(i).checkpoint = row.checkpoint
    BY <1>t DEF OwnedBy, Row
  <2>4. /\ transaction[i].phase = "acquiring" /\ consumer[i] = "starting"
        /\ UNCHANGED <<row, handled, consumer, position>>
    BY <1>3 DEF AcquireLock, database, CoverInv, TransactionFits
  <2>5. TransactionFits(i)' /\ NothingIsPassedOver(i)'
    BY <2>1, <2>2, <2>3, <2>4
       DEF CoverInv, CheckpointCoversHandled, TransactionFits,
           NothingIsPassedOver, SameCheckpoints, SameHold
  <2> QED
    BY <1>3, <1>f, <1>c, <2>4, <2>5, Updates DEF AcquireLock
<1>4. ASSUME NEW i \in Instances, KeepGoingUnlocked(i) PROVE CoverInv'
  <2>1. PICK t \in AfterFailedAttempt(i) :
          SetTransaction(i, [t EXCEPT
            !.phase = IF AcquisitionPolicy = "skip" THEN "reading" ELSE @])
    BY <1>4 DEF KeepGoingUnlocked
  <2>2. /\ transaction[i].phase = "acquiring"
        /\ \/ t = transaction[i]
           \/ t = [transaction[i] EXCEPT !.holdsKey = TRUE, !.locksRow = TRUE]
    BY DEF AfterFailedAttempt
  <2>3. /\ t \in Transaction /\ t.phase = "acquiring"
        /\ t.writesRow = transaction[i].writesRow /\ t.row = transaction[i].row
        /\ t.batch = transaction[i].batch /\ t.isStop = transaction[i].isStop
    BY <2>2, <1>t DEF Transaction
  <2>4. /\ transaction'[i].phase \in {"acquiring", "reading"}
        /\ transaction'[i].writesRow = t.writesRow
        /\ transaction'[i].row = t.row
        /\ transaction'[i].batch = t.batch
        /\ transaction'[i].isStop = t.isStop
    BY <2>1, <2>3 DEF SetTransaction, TypeOK, Transaction
  <2>5. /\ consumer[i] = "starting"
        /\ UNCHANGED <<row, handled, consumer, position, processor>>
    BY <1>4, <2>2 DEF KeepGoingUnlocked, database, CoverInv, TransactionFits
  <2>6. TransactionFits(i)' /\ NothingIsPassedOver(i)'
    BY <2>2, <2>3, <2>4, <2>5
       DEF CoverInv, TransactionFits, NothingIsPassedOver
  <2> QED
    BY <2>1, <1>f, <1>c, <2>5, <2>6, Updates
<1>5. ASSUME NEW i \in Instances, RefuseStart(i) PROVE CoverInv'
  <2>1. TransactionFits(i)' /\ NothingIsPassedOver(i)'
    BY <1>5, SetAsideCovers, Updates
       DEF RefuseStart, CoverInv, NothingIsPassedOver
  <2> QED
    BY <1>5, <1>f, <1>c, <2>1, Updates DEF RefuseStart, database
<1>6. ASSUME NEW i \in Instances, CompleteStart(i) PROVE CoverInv'
  <2>1. /\ transaction[i].phase = "reading"
        /\ transaction[i].batch = {}
        /\ row' = CommittedRow(transaction[i])
        /\ handled' = handled
    BY <1>6 DEF CompleteStart, CoverInv, TransactionFits
  <2>2. CheckpointCoversHandled'
    BY <2>1 DEF CommittedRow, CoverInv, CheckpointCoversHandled,
                NothingIsPassedOver
  <2>3. /\ processor'[i].lastCheckpoint = row.checkpoint
        /\ processor'[i].lastStoredCheckpoint = row.checkpoint
        /\ position'[i] = row.checkpoint
        /\ transaction'[i] = NoTransaction
    BY <1>6, <1>t, <1>r, Updates, CheckpointsAreSet DEF CompleteStart, TypeOK
  <2>4. TransactionFits(i)' /\ NothingIsPassedOver(i)'
    BY <2>3, <1>t
       DEF TransactionFits, NothingIsPassedOver, NoTransaction
  <2> QED
    BY <1>6, <1>f, <2>1, <2>2, <2>4, Updates DEF CompleteStart, TypeOK
<1>7. ASSUME NEW i \in Instances, FailStart(i) PROVE CoverInv'
  <2>1. processor'[i].lastCheckpoint = processor'[i].lastStoredCheckpoint
    BY <1>7, <1>t, <1>r, Updates, CheckpointsAreSet
       DEF FailStart, CoverInv, NothingIsPassedOver
  <2>2. TransactionFits(i)' /\ NothingIsPassedOver(i)'
    BY <1>7, <2>1, SetAsideCovers, Updates DEF FailStart
  <2> QED
    BY <1>7, <1>f, <1>c, <2>2, Updates DEF FailStart, database
<1>8. ASSUME NEW i \in Instances, HandleBatch(i) PROVE CoverInv'
  <2>1. PICK last \in position[i] + 1 .. published, isStop \in BOOLEAN :
          \E upTo \in position[i] .. last :
            /\ isStop \/ upTo = last
            /\ SetTransaction(i, [transaction[i] EXCEPT
                 !.phase = "handled", !.isStop = isStop,
                 !.batch = Unhandled(i, upTo)])
            /\ position' = [position EXCEPT ![i] = last]
    BY <1>8 DEF HandleBatch
  <2>2. PICK upTo \in position[i] .. last :
          /\ isStop \/ upTo = last
          /\ SetTransaction(i, [transaction[i] EXCEPT
               !.phase = "handled", !.isStop = isStop,
               !.batch = Unhandled(i, upTo)])
    BY <2>1
  <2>3. /\ SameHold(transaction'[i], transaction[i])
        /\ transaction'[i].phase = "handled"
        /\ transaction'[i].batch = Unhandled(i, upTo)
        /\ transaction'[i].isStop = isStop
    <3>1. transaction'[i] = [transaction[i] EXCEPT !.phase = "handled",
                    !.isStop = isStop, !.batch = Unhandled(i, upTo)]
      BY <2>2, Updates
    <3>2. transaction[i] \in Transaction
      BY <1>t
    <3> QED
      BY <3>1, <3>2, BatchIsSet DEF SameHold
  <2>4. /\ transaction[i].phase = "none" /\ consumer[i] = "consuming"
        /\ transaction[i].batch = {} /\ ~transaction[i].isStop
        /\ UNCHANGED <<row, handled, consumer, processor>>
    BY <1>8 DEF HandleBatch, InTransaction, database, CoverInv, TransactionFits
  <2>5. position'[i] = last /\ position[i] \in Nat /\ last \in Nat
    BY <2>1 DEF TypeOK
  <2>6. ASSUME NEW m \in 1..last,
               m > processor[i].lastStoredCheckpoint,
               isStop => \E k \in Unhandled(i, upTo) : m <= k
        PROVE  m \in handled \cup Unhandled(i, upTo)
    <3>1. CASE m <= position[i]
      BY <2>4, <2>5, <2>6, <3>1 DEF CoverInv, NothingIsPassedOver
    <3>2. CASE m > position[i]
      <4>1. m <= upTo
        BY <2>2, <2>6 DEF Unhandled
      <4>2. processor[i].lastCheckpoint = processor[i].lastStoredCheckpoint
        BY DEF CoverInv, NothingIsPassedOver
      <4> QED
        BY <2>5, <2>6, <3>2, <4>1, <4>2 DEF Unhandled
    <3> QED
      BY <2>5, <3>1, <3>2
  <2>7. TransactionFits(i)' /\ NothingIsPassedOver(i)'
    <3>1. TransactionFits(i)'
      <4>1. Unhandled(i, upTo) \subseteq 1..last
        BY <2>2, <2>5 DEF Unhandled
      <4> QED
        BY <2>3, <2>4, <2>5, <4>1 DEF TransactionFits
    <3>2. transaction[i].writesRow
            => 1..transaction[i].row.checkpoint \subseteq handled
      BY <2>4 DEF CoverInv, NothingIsPassedOver
    <3>3. NothingIsPassedOver(i)'
      BY <2>3, <2>4, <2>5, <2>6, <3>2
         DEF CoverInv, NothingIsPassedOver, SameHold
    <3> QED
      BY <3>1, <3>3
  <2> QED
    BY <2>1, <2>2, <2>4, <2>7, <1>f, <1>c, Updates DEF TypeOK
<1>9. ASSUME NEW i \in Instances, StoreCheckpoint(i) PROVE CoverInv'
  <2>1. PICK m \in CheckpointMessage(i) :
          /\ SetTransaction(i, [transaction[i] EXCEPT
               !.phase = "stored", !.locksRow = TRUE, !.writesRow = TRUE,
               !.row = [row EXCEPT !.checkpoint = m, !.stale = FALSE]])
          /\ SetProcessor(i, [processor[i] EXCEPT
               !.lastCheckpoint = m, !.lastStoredCheckpoint = m])
    BY <1>9 DEF StoreCheckpoint
  <2>2. /\ m \in transaction[i].batch /\ m \in Nat
        /\ \A k \in transaction[i].batch : k <= m /\ k \in Nat
    BY <1>t DEF CheckpointMessage
  <2>3. /\ transaction'[i].phase = "stored"
        /\ transaction'[i].row
             = [row EXCEPT !.checkpoint = m, !.stale = FALSE]
        /\ transaction'[i].batch = transaction[i].batch
        /\ transaction'[i].isStop = transaction[i].isStop
    BY <2>1 DEF SetTransaction, TypeOK, Transaction
  <2>4. transaction'[i].row.checkpoint = m
    BY <2>3, <1>t DEF Row
  <2>5. /\ processor'[i].lastCheckpoint = m
        /\ processor'[i].lastStoredCheckpoint = m
    BY <2>1 DEF SetProcessor, TypeOK, Processor
  <2>6. /\ transaction[i].phase = "handled" /\ consumer[i] = "consuming"
        /\ row.checkpoint = processor[i].lastStoredCheckpoint
        /\ UNCHANGED <<row, handled, consumer, position>>
    BY <1>9 DEF StoreCheckpoint, CheckpointMatches, database, CoverInv,
                TransactionFits
  <2>7. m > row.checkpoint
    BY <2>2, <2>6, <1>t DEF RowInv, AheadOfRow, Processor
  <2>8. ASSUME NEW k \in 1..m PROVE k \in handled \cup transaction[i].batch
    <3>1. CASE k <= row.checkpoint
      BY <3>1, <2>2, <1>t DEF CoverInv, CheckpointCoversHandled
    <3>2. CASE k > row.checkpoint
      <4>1. m <= position[i]
        BY <2>2, <2>6 DEF CoverInv, TransactionFits
      <4> QED
        BY <3>2, <4>1, <2>2, <2>6, <1>t DEF CoverInv, NothingIsPassedOver
    <3> QED
      BY <3>1, <3>2, <2>2, <1>t
  <2>9. TransactionFits(i)' /\ NothingIsPassedOver(i)'
    <3>1. TransactionFits(i)'
      BY <2>3, <2>6 DEF CoverInv, TransactionFits
    <3>2. ASSUME NEW k \in 1..position[i], k > m,
                 transaction[i].isStop
                   => \E l \in transaction[i].batch : k <= l
          PROVE  k \in handled \cup transaction[i].batch
      BY <3>2, <2>2, <2>6, <2>7, <1>t DEF CoverInv, NothingIsPassedOver
    <3> QED
      BY <3>1, <3>2, <2>3, <2>4, <2>5, <2>6, <2>8 DEF NothingIsPassedOver
  <2> QED
    BY <2>1, <2>6, <2>9, <1>f, <1>c, Updates
<1>10. ASSUME NEW i \in Instances, LeaveCheckpoint(i) PROVE CoverInv'
  <2>1. /\ SameHold(transaction'[i], transaction[i])
        /\ transaction'[i].phase = "stored"
        /\ transaction'[i].batch = transaction[i].batch
        /\ transaction'[i].isStop = transaction[i].isStop
    BY <1>10 DEF LeaveCheckpoint, SetTransaction, TypeOK, Transaction, SameHold
  <2>2. /\ consumer[i] = "consuming"
        /\ UNCHANGED <<row, handled, consumer, position, processor>>
    BY <1>10 DEF LeaveCheckpoint, database, CoverInv, TransactionFits
  <2>3. TransactionFits(i)' /\ NothingIsPassedOver(i)'
    BY <2>1, <2>2 DEF CoverInv, TransactionFits, NothingIsPassedOver, SameHold
  <2> QED
    BY <1>10, <2>2, <2>3, <1>f, <1>c, Updates DEF LeaveCheckpoint
<1>11. ASSUME NEW i \in Instances, CommitBatch(i) PROVE CoverInv'
  <2>1. /\ row' = CommittedRow(transaction[i])
        /\ handled' = handled \cup transaction[i].batch
        /\ transaction'[i] = NoTransaction
        /\ position' = position
        /\ consumer[i] = "consuming"
    BY <1>11, Updates DEF CommitBatch, CoverInv, TransactionFits
  <2>2. CheckpointCoversHandled'
    BY <2>1 DEF CommittedRow, CoverInv, CheckpointCoversHandled,
                NothingIsPassedOver
  <2>3. /\ processor'[i].lastCheckpoint = processor[i].lastCheckpoint
        /\ processor'[i].lastStoredCheckpoint
             = processor[i].lastStoredCheckpoint
    BY <1>11 DEF CommitBatch, SetProcessor, TypeOK, Processor
  <2>4. consumer'[i] = "consuming" => ~transaction[i].isStop
    BY <1>11, Updates DEF CommitBatch
  <2>5. TransactionFits(i)' /\ NothingIsPassedOver(i)'
    BY <2>1, <2>3, <2>4
       DEF CoverInv, TransactionFits, NothingIsPassedOver, NoTransaction
  <2>6. \A j \in Instances \ {i} : /\ processor'[j] = processor[j]
                                   /\ consumer'[j] = consumer[j]
                                   /\ transaction'[j] = transaction[j]
    BY <1>11, Updates DEF CommitBatch
  <2> QED
    BY <1>f, <2>1, <2>2, <2>5, <2>6
<1>12. ASSUME NEW i \in Instances, RollbackBatch(i) PROVE CoverInv'
  <2>1. SameCheckpoints(processor'[i], processor[i])
    BY <1>12 DEF RollbackBatch, SetProcessor, TypeOK, Processor, SameCheckpoints
  <2>2. TransactionFits(i)' /\ NothingIsPassedOver(i)'
    BY <1>12, <2>1, SetAsideCovers, Updates
       DEF RollbackBatch, SameCheckpoints, CoverInv, NothingIsPassedOver
  <2> QED
    BY <1>12, <1>f, <1>c, <2>2, Updates DEF RollbackBatch, database
<1>13. ASSUME NEW i \in Instances, StopConsumer(i) PROVE CoverInv'
  <2>1. TransactionFits(i)' /\ NothingIsPassedOver(i)'
    BY <1>13, UntouchedCovers, Updates
       DEF StopConsumer, InTransaction, SameCheckpoints, database
  <2> QED
    BY <1>13, <1>f, <1>c, <2>1, Updates DEF StopConsumer, database
<1>14. ASSUME NEW i \in Instances,
              UNCHANGED <<row, handled, position, transaction>>,
              CloseFields(i),
              \/ consumer' = consumer
              \/ CloseProcessor(i)
       PROVE  CoverInv'
  <2>1. SameCheckpoints(processor'[i], processor[i])
    BY <1>14 DEF CloseFields, SetProcessor, TypeOK, Processor, SameCheckpoints
  <2>2. \/ consumer'[i] = consumer[i]
        \/ consumer'[i] # "consuming" /\ transaction[i].phase = "none"
    BY <1>14, IdleBetweenConsumings, Updates DEF CloseProcessor
  <2>3. TransactionFits(i)' /\ NothingIsPassedOver(i)'
    BY <1>14, <2>1, <2>2, UntouchedCovers
  <2>4. \A j \in Instances \ {i} : /\ processor'[j] = processor[j]
                                   /\ consumer'[j] = consumer[j]
    BY <1>14, Updates DEF CloseFields, CloseProcessor
  <2> QED
    BY <1>14, <1>f, <1>c, <2>3, <2>4
<1>15. ASSUME NEW i \in Instances,
              row'.checkpoint = row.checkpoint,
              UNCHANGED <<handled, position, transaction>>,
              Enter(i, IF consumer[i] = "closing" THEN "stopped"
                       ELSE consumer[i]),
              SameCheckpoints(processor'[i], processor[i]),
              \A j \in Instances \ {i} : processor'[j] = processor[j]
       PROVE  CoverInv'
  <2>1. \/ consumer'[i] = consumer[i]
        \/ consumer'[i] # "consuming" /\ transaction[i].phase = "none"
    BY <1>15, IdleBetweenConsumings, Updates
  <2>2. TransactionFits(i)' /\ NothingIsPassedOver(i)'
    BY <1>15, <2>1, UntouchedCovers
  <2> QED
    BY <1>15, <1>f, <1>c, <2>2, Updates
<1>16. ASSUME NEW i \in Instances, ReleaseLock(i) PROVE CoverInv'
  <2>1. SameCheckpoints(processor'[i], processor[i])
    BY <1>16 DEF ReleaseLock, AfterRelease, SetProcessor, TypeOK, Processor,
                 SameCheckpoints
  <2>2. row'.checkpoint = row.checkpoint
    BY <1>16, <1>t DEF ReleaseLock, Row
  <2> QED
    BY <1>16, <2>1, <2>2, <1>15, Updates DEF ReleaseLock, AfterRelease
<1>17. ASSUME NEW i \in Instances, FailToRelease(i) PROVE CoverInv'
  <2>1. SameCheckpoints(processor'[i], processor[i])
    <3>1. CASE AfterRelease(i)
      BY <3>1 DEF AfterRelease, SetProcessor, TypeOK, Processor, SameCheckpoints
    <3>2. CASE SetProcessor(i, [processor[i] EXCEPT !.isReleasing = FALSE])
      BY <3>2 DEF SetProcessor, TypeOK, Processor, SameCheckpoints
    <3> QED
      BY <1>17, <3>1, <3>2 DEF FailToRelease
  <2> QED
    BY <1>17, <2>1, <1>15, Updates DEF FailToRelease, AfterRelease, database
<1>18. ASSUME NEW i \in Instances, Crash(i) PROVE CoverInv'
  <2>1. TransactionFits(i)' /\ NothingIsPassedOver(i)'
    BY <1>18, SetAsideCovers, Updates DEF Crash, NewProcessor
  <2> QED
    BY <1>18, <1>f, <1>c, <2>1, Updates DEF Crash, database
<1>19. CASE /\ row'.checkpoint = row.checkpoint
            /\ UNCHANGED <<handled, consumer, position, processor, transaction>>
  BY <1>19 DEF CoverInv, CheckpointCoversHandled, TransactionFits,
               NothingIsPassedOver
<1>20. ExpireLock => row'.checkpoint = row.checkpoint
  BY <1>t DEF ExpireLock, Row
<1> QED
  BY <1>1, <1>2, <1>3, <1>4, <1>5, <1>6, <1>7, <1>8, <1>9, <1>10, <1>11,
     <1>12, <1>13, <1>14, <1>16, <1>17, <1>18, <1>19, <1>20
     DEF Next, Proceed, Disturb, CloseProcessor, ShutDownProcessor, ExpireLock,
         Publish, Await, vars, database

\* A processor that starts from the beginning and truncates nothing stores no
\* checkpoint that a message before it is not handled for: with any number of
\* instances, whether they hold the lock, have lost it, or go on without it.
THEOREM StoredCheckpointCoversHandled ==
  ASSUME StartFrom = BEGINNING, ~TruncateOnStart
  PROVE  Spec => []CheckpointCoversHandled
<1>1. Init => RowInv
  BY DEF Init, RowInv, RowIsLockedByOne, AheadOfRow, NewProcessor, NoTransaction
<1>2. CoverInv => CheckpointCoversHandled
  BY DEF CoverInv
<1> QED
  BY <1>1, <1>2, TypeInvariant, InitCovers, RowInvariant, CoverInvariant, PTL
     DEF Spec

-----------------------------------------------------------------------------
(* One instance at work *)

AtWork(i) == consumer[i] = "consuming" /\ processor[i].isActive

\* Locks do not expire under owners that are there, a consumer that has stopped
\* is not started again, and nobody goes on without the lock.
LocksAreKept ==
  /\ "expiry" \notin Disturbances /\ "restart" \notin Disturbances
  /\ AcquisitionPolicy # "skip"

\* What an instance does follows from the lock: before it has tried it has
\* nothing, a start that has read the checkpoint writes itself into the row, a
\* batch leaves the owner in the row, and who is at work is that owner.
ActsAsOwner(i) ==
  LET p == processor[i]
      t == transaction[i]
  IN  /\ consumer[i] = "new" =>
           /\ ~p.isLockAcquired /\ ~p.isReleasing /\ p.lastCheckpoint = 0
           /\ t.phase = "none"
      /\ p.isReleasing => ~p.isActive
      /\ t.phase = "acquiring" => ~p.isLockAcquired /\ ~p.isReleasing
      /\ t.phase \in {"acquiring", "reading"} => consumer[i] = "starting"
      /\ t.phase \in {"handled", "stored"} => consumer[i] = "consuming"
      /\ t.phase \in {"none", "acquiring", "handled"} => ~t.writesRow
      /\ t.phase = "reading" =>
           /\ t.writesRow
           /\ t.row.owner = i /\ t.row.status = "running" /\ ~t.row.stale
      /\ t.phase = "stored" /\ t.writesRow =>
           /\ t.row.owner = row.owner /\ t.row.status = row.status
           /\ ~t.row.stale
      /\ AtWork(i) => row.owner = i /\ row.status = "running" /\ ~row.stale

\* Who has the new row in its transaction is not committed yet, nor is anybody
\* else at work.
NobodyBesideAStart ==
  \A i, j \in Instances : transaction[i].phase = "reading" => ~AtWork(j)

OwnerInv == NobodyBesideAStart /\ \A i \in Instances : ActsAsOwner(i)

\* A row that the step of an instance leaves alone, or writes while nobody else
\* has it locked or is at work, keeps the others in order.
LEMMA OthersActAsOwners ==
  ASSUME TypeOK, RowInv, OwnerInv, NEW i \in Instances,
         NEW j \in Instances \ {i},
         processor'[j] = processor[j], transaction'[j] = transaction[j],
         consumer'[j] = consumer[j],
         \/ row' = row
         \/ ~transaction[j].writesRow /\ ~AtWork(j)
         \/ /\ ~transaction[j].writesRow
            /\ row'.owner = row.owner /\ row'.status = row.status
            /\ ~row'.stale
  PROVE  ActsAsOwner(j)'
BY DEF OwnerInv, ActsAsOwner, AtWork, TypeOK, Transaction, Processor

\* What the others need of a step of i is that it does not begin to read while
\* one of them is at work, nor begins to work while one of them reads.
LEMMA OneStepKeepsOwner ==
  ASSUME OwnerInv, NEW i \in Instances, ActsAsOwner(i)',
         \A j \in Instances \ {i} :
           /\ processor'[j] = processor[j] /\ transaction'[j] = transaction[j]
           /\ consumer'[j] = consumer[j]
           /\ ActsAsOwner(j)',
         transaction'[i].phase = "reading" =>
           \/ transaction[i].phase = "reading"
           \/ \A j \in Instances \ {i} : ~AtWork(j),
         AtWork(i)' =>
           \/ AtWork(i)
           \/ \A j \in Instances \ {i} : transaction[j].phase # "reading"
  PROVE  OwnerInv'
<1>1. ASSUME NEW j \in Instances, NEW k \in Instances,
             transaction'[j].phase = "reading"
      PROVE  ~AtWork(k)'
  <2>1. CASE j = i /\ k = i
    BY <1>1, <2>1 DEF ActsAsOwner, AtWork
  <2>2. CASE j = i /\ k # i
    BY <1>1, <2>2 DEF OwnerInv, NobodyBesideAStart, AtWork
  <2>3. CASE j # i /\ k = i
    BY <1>1, <2>3 DEF OwnerInv, NobodyBesideAStart
  <2>4. CASE j # i /\ k # i
    BY <1>1, <2>4 DEF OwnerInv, NobodyBesideAStart, AtWork
  <2> QED
    BY <2>1, <2>2, <2>3, <2>4
<1>2. ASSUME NEW j \in Instances PROVE ActsAsOwner(j)'
  OBVIOUS
<1> QED
  BY <1>1, <1>2 DEF OwnerInv, NobodyBesideAStart

\* Every step keeps the owner the only one at work.
LEMMA OwnerInvariant ==
  ASSUME LocksAreKept, TypeOK, TypeOK', RowInv, OwnerInv, [Next]_vars
  PROVE  OwnerInv'
<1>t. /\ row \in Row
      /\ \A i \in Instances : /\ processor[i] \in Processor
                              /\ transaction[i] \in Transaction
  BY DEF TypeOK
<1>o. \A i \in Instances : ActsAsOwner(i)
  BY DEF OwnerInv
<1>f. ASSUME NEW i \in Instances, ActsAsOwner(i)', row' = row,
             \A j \in Instances \ {i} :
               /\ processor'[j] = processor[j]
               /\ transaction'[j] = transaction[j]
               /\ consumer'[j] = consumer[j],
             transaction'[i].phase = "reading" =>
               \/ transaction[i].phase = "reading"
               \/ \A j \in Instances \ {i} : ~AtWork(j),
             AtWork(i)' => AtWork(i)
      PROVE  OwnerInv'
  <2>1. \A j \in Instances \ {i} : ActsAsOwner(j)'
    BY <1>f, OthersActAsOwners
  <2> QED
    BY <1>f, <2>1, OneStepKeepsOwner
<1>1. ASSUME NEW i \in Instances, ResumeFromMemory(i) PROVE OwnerInv'
  BY <1>1, <1>o DEF ResumeFromMemory, CanStart, LocksAreKept, ActsAsOwner
<1>2. ASSUME NEW i \in Instances, BeginStart(i) PROVE OwnerInv'
  <2>1. /\ ~processor'[i].isLockAcquired /\ ~processor'[i].isReleasing
        /\ transaction'[i].phase = "acquiring" /\ ~transaction'[i].writesRow
        /\ consumer'[i] = "starting"
    <3>1. consumer[i] = "new"
      BY <1>2 DEF BeginStart, CanStart, LocksAreKept
    <3>2. /\ ~processor[i].isLockAcquired /\ ~processor[i].isReleasing
          /\ ~transaction[i].writesRow
      BY <3>1, <1>o DEF ActsAsOwner
    <3>3. /\ processor'[i] = Opened(processor[i])
          /\ transaction'[i] = [transaction[i] EXCEPT !.phase = "acquiring"]
          /\ consumer'[i] = "starting"
      BY <1>2, Updates DEF BeginStart
    <3> QED
      BY <3>2, <3>3, <1>t DEF Opened, Processor, Transaction
  <2>2. ActsAsOwner(i)' /\ ~AtWork(i)'
    BY <2>1 DEF ActsAsOwner, AtWork
  <2> QED
    BY <1>2, <1>f, <2>1, <2>2, Updates DEF BeginStart, database
<1>3. ASSUME NEW i \in Instances, AcquireLock(i) PROVE OwnerInv'
  <2>0. /\ transaction[i].phase = "acquiring" /\ consumer[i] = "starting"
        /\ ~processor[i].isLockAcquired /\ ~processor[i].isReleasing
    BY <1>3, <1>o DEF AcquireLock, ActsAsOwner
  <2>1. /\ processor'[i].isReleasing = FALSE
        /\ transaction'[i].phase = "reading" /\ transaction'[i].writesRow
        /\ transaction'[i].row = OwnedBy(i)
        /\ consumer'[i] = "starting" /\ CanTakeOver(i)
    <3>1. /\ processor'[i] = [processor[i] EXCEPT !.isLockAcquired = TRUE]
          /\ transaction'[i] = [transaction[i] EXCEPT
               !.phase = "reading", !.holdsKey = TRUE, !.locksRow = TRUE,
               !.writesRow = TRUE, !.row = OwnedBy(i)]
          /\ consumer' = consumer /\ CanTakeOver(i)
      BY <1>3, <2>0, Updates DEF AcquireLock
    <3> QED
      BY <2>0, <3>1, <1>t DEF Processor, Transaction
  <2>2. /\ OwnedBy(i).owner = i /\ OwnedBy(i).status = "running"
        /\ ~OwnedBy(i).stale
    BY <1>t DEF OwnedBy, Row
  <2>3. ActsAsOwner(i)' /\ ~AtWork(i)'
    BY <2>1, <2>2 DEF ActsAsOwner, AtWork
  <2>4. \A j \in Instances \ {i} : ~AtWork(j)
    BY <2>1, <1>o, ProcessorAssumption DEF CanTakeOver, ActsAsOwner
  <2> QED
    BY <1>3, <1>f, <2>3, <2>4, Updates DEF AcquireLock, database
<1>4. ASSUME NEW i \in Instances, KeepGoingUnlocked(i) PROVE OwnerInv'
  <2>0. PICK t \in AfterFailedAttempt(i) :
          SetTransaction(i, [t EXCEPT
            !.phase = IF AcquisitionPolicy = "skip" THEN "reading" ELSE @])
    BY <1>4 DEF KeepGoingUnlocked
  <2>1. /\ t \in Transaction /\ t.phase = "acquiring"
        /\ t.writesRow = transaction[i].writesRow
        /\ transaction[i].phase = "acquiring"
    <3>1. transaction[i].phase = "acquiring"
      BY DEF AfterFailedAttempt
    <3>2. CASE t = transaction[i]
      BY <3>1, <3>2, <1>t
    <3>3. CASE t = [transaction[i] EXCEPT !.holdsKey = TRUE, !.locksRow = TRUE]
      BY <3>1, <3>3, <1>t DEF Transaction
    <3> QED
      BY <3>2, <3>3 DEF AfterFailedAttempt
  <2>2. /\ transaction'[i].phase = "acquiring"
        /\ transaction'[i].writesRow = transaction[i].writesRow
    <3>1. transaction'[i] =
            [t EXCEPT !.phase = IF AcquisitionPolicy = "skip" THEN "reading"
                                ELSE @]
      BY <2>0, Updates
    <3> QED
      BY <2>1, <3>1 DEF LocksAreKept, Transaction
  <2>3. UNCHANGED <<row, processor, consumer>>
    BY <1>4 DEF KeepGoingUnlocked, database
  <2>4. ActsAsOwner(i)' /\ ~AtWork(i)'
    BY <2>1, <2>2, <2>3, <1>o DEF ActsAsOwner, AtWork
  <2> QED
    BY <2>0, <1>f, <2>2, <2>3, <2>4, Updates
\* A step that leaves instance i stopping, without a transaction.
<1>s. ASSUME NEW i \in Instances, transaction'[i] = NoTransaction,
             consumer'[i] \notin {"new", "consuming"},
             processor'[i].isReleasing => ~processor'[i].isActive, row' = row,
             \A j \in Instances \ {i} :
               /\ processor'[j] = processor[j]
               /\ transaction'[j] = transaction[j]
               /\ consumer'[j] = consumer[j]
      PROVE  OwnerInv'
  <2>1. ActsAsOwner(i)' /\ ~AtWork(i)'
    BY <1>s DEF ActsAsOwner, AtWork, NoTransaction
  <2> QED
    BY <1>s, <1>f, <2>1 DEF NoTransaction
<1>5. ASSUME NEW i \in Instances, RefuseStart(i) PROVE OwnerInv'
  BY <1>5, <1>s, <1>o, Updates DEF RefuseStart, database, ActsAsOwner
<1>6. ASSUME NEW i \in Instances, CompleteStart(i) PROVE OwnerInv'
  <2>0. /\ transaction[i].phase = "reading" /\ consumer[i] = "starting"
        /\ transaction[i].writesRow /\ transaction[i].locksRow
        /\ row' = transaction[i].row
    BY <1>6, <1>o DEF CompleteStart, ActsAsOwner, CommittedRow, RowInv,
                      AheadOfRow
  <2>1. /\ transaction'[i] = NoTransaction /\ consumer'[i] = "consuming"
        /\ processor'[i].isReleasing = processor[i].isReleasing
        /\ processor'[i].isActive = processor[i].isActive
    <3>1. /\ processor'[i] = WithCheckpoint(processor[i], row.checkpoint)
          /\ transaction'[i] = NoTransaction /\ consumer'[i] = "consuming"
      BY <1>6, Updates DEF CompleteStart
    <3> QED
      BY <3>1, <1>t DEF WithCheckpoint, Processor
  <2>2. row'.owner = i /\ row'.status = "running" /\ ~row'.stale
    BY <2>0, <1>o DEF ActsAsOwner
  <2>3. ActsAsOwner(i)'
    BY <2>1, <2>2, <1>o DEF ActsAsOwner, AtWork, NoTransaction
  <2>4. \A j \in Instances \ {i} : ~transaction[j].writesRow /\ ~AtWork(j)
    BY <2>0 DEF OwnerInv, NobodyBesideAStart, RowInv, RowIsLockedByOne,
                AheadOfRow
  <2>5. \A j \in Instances \ {i} : ActsAsOwner(j)'
    BY <1>6, <2>4, OthersActAsOwners, Updates DEF CompleteStart
  <2>6. \A j \in Instances \ {i} : transaction[j].phase # "reading"
    BY <2>4, <1>o DEF ActsAsOwner
  <2> QED
    BY <1>6, <2>1, <2>3, <2>5, <2>6, OneStepKeepsOwner, Updates
       DEF CompleteStart, NoTransaction
<1>7. ASSUME NEW i \in Instances, FailStart(i) PROVE OwnerInv'
  <2>1. /\ processor'[i].isReleasing = processor[i].isReleasing
        /\ processor'[i].isActive = processor[i].isActive
    <3>1. processor' = processor
            \/ processor'[i] = WithCheckpoint(processor[i], row.checkpoint)
      BY <1>7, Updates DEF FailStart
    <3> QED
      BY <3>1, <1>t DEF WithCheckpoint, Processor
  <2>2. \A j \in Instances \ {i} : processor'[j] = processor[j]
    BY <1>7, Updates DEF FailStart
  <2> QED
    BY <1>7, <1>s, <1>o, <2>1, <2>2, Updates
       DEF FailStart, database, ActsAsOwner
<1>8. ASSUME NEW i \in Instances, HandleBatch(i) PROVE OwnerInv'
  <2>0. PICK upTo, isStop :
          SetTransaction(i, [transaction[i] EXCEPT
            !.phase = "handled", !.isStop = isStop,
            !.batch = Unhandled(i, upTo)])
    BY ONLY <1>8, ZenonT(30) DEF HandleBatch
  <2>1. /\ transaction'[i].phase = "handled"
        /\ transaction'[i].writesRow = transaction[i].writesRow
    <3>1. transaction'[i] = [transaction[i] EXCEPT !.phase = "handled",
                    !.isStop = isStop, !.batch = Unhandled(i, upTo)]
      BY <2>0, Updates
    <3> QED
      BY <3>1, <1>t, BatchIsSet DEF SameHold
  <2>2. /\ UNCHANGED <<row, processor, consumer>>
        /\ consumer[i] = "consuming" /\ transaction[i].phase = "none"
    BY <1>8 DEF HandleBatch, InTransaction, database
  <2>3. ActsAsOwner(i)' /\ (AtWork(i)' => AtWork(i))
    BY <2>1, <2>2, <1>o DEF ActsAsOwner, AtWork
  <2> QED
    BY <2>0, <1>f, <2>1, <2>2, <2>3, Updates
<1>9. ASSUME NEW i \in Instances, StoreCheckpoint(i) PROVE OwnerInv'
  <2>0. PICK m \in Nat :
          /\ SetTransaction(i, [transaction[i] EXCEPT
               !.phase = "stored", !.locksRow = TRUE, !.writesRow = TRUE,
               !.row = [row EXCEPT !.checkpoint = m, !.stale = FALSE]])
          /\ SetProcessor(i, [processor[i] EXCEPT
               !.lastCheckpoint = m, !.lastStoredCheckpoint = m])
    <3>1. transaction[i].batch \subseteq Nat
      BY <1>t DEF Transaction
    <3> QED
      BY ONLY <1>9, <3>1, ZenonT(30)
         DEF StoreCheckpoint, CheckpointMessage
  <2>1. /\ transaction'[i].phase = "stored"
        /\ transaction'[i].row.owner = row.owner
        /\ transaction'[i].row.status = row.status
        /\ ~transaction'[i].row.stale
    <3>1. transaction'[i] = [transaction[i] EXCEPT
               !.phase = "stored", !.locksRow = TRUE, !.writesRow = TRUE,
               !.row = [row EXCEPT !.checkpoint = m, !.stale = FALSE]]
      BY <2>0, Updates
    <3>2. [row EXCEPT !.checkpoint = m, !.stale = FALSE].owner = row.owner
      BY <1>t DEF Row
    <3>3. [row EXCEPT !.checkpoint = m, !.stale = FALSE].status = row.status
      BY <1>t DEF Row
    <3>4. ~[row EXCEPT !.checkpoint = m, !.stale = FALSE].stale
      BY <1>t DEF Row
    <3>5. /\ transaction'[i].phase = "stored"
          /\ transaction'[i].row = [row EXCEPT !.checkpoint = m,
                                               !.stale = FALSE]
      <4>1. transaction[i] \in Transaction
        BY <1>t
      <4> QED
        BY ONLY <3>1, <4>1 DEF Transaction
    <3> QED
      BY ONLY <3>2, <3>3, <3>4, <3>5
  <2>2. /\ processor'[i].isReleasing = processor[i].isReleasing
        /\ processor'[i].isActive = processor[i].isActive
    <3>1. processor'[i] = [processor[i] EXCEPT
               !.lastCheckpoint = m, !.lastStoredCheckpoint = m]
      BY <2>0, Updates
    <3> QED
      BY <3>1, <1>t DEF Processor
  <2>3. /\ UNCHANGED <<row, consumer>> /\ transaction[i].phase = "handled"
    BY <1>9 DEF StoreCheckpoint, database
  <2>4. ActsAsOwner(i)' /\ (AtWork(i)' => AtWork(i))
    BY <2>1, <2>2, <2>3, <1>o DEF ActsAsOwner, AtWork
  <2> QED
    BY <2>0, <1>f, <2>1, <2>3, <2>4, Updates
<1>10. ASSUME NEW i \in Instances, LeaveCheckpoint(i) PROVE OwnerInv'
  <2>1. /\ transaction'[i].phase = "stored"
        /\ transaction'[i].writesRow = transaction[i].writesRow
    <3>1. transaction'[i] = [transaction[i] EXCEPT !.phase = "stored"]
      BY <1>10, Updates DEF LeaveCheckpoint
    <3> QED
      BY <3>1, <1>t, PhaseIsSet DEF SameHold
  <2>2. /\ UNCHANGED <<row, processor, consumer>>
        /\ transaction[i].phase = "handled"
    BY <1>10 DEF LeaveCheckpoint, database
  <2>3. ActsAsOwner(i)' /\ (AtWork(i)' => AtWork(i))
    BY <2>1, <2>2, <1>o DEF ActsAsOwner, AtWork
  <2> QED
    BY <1>10, <1>f, <2>1, <2>2, <2>3, Updates DEF LeaveCheckpoint
<1>11. ASSUME NEW i \in Instances, CommitBatch(i) PROVE OwnerInv'
  <2>0. /\ transaction[i].phase = "stored" /\ consumer[i] = "consuming"
        /\ transaction'[i] = NoTransaction
        /\ consumer'[i] \in {"consuming", "stopping"}
        /\ processor'[i] = processor[i]
             \/ processor'[i] = [processor[i] EXCEPT !.isActive = FALSE]
        /\ \A j \in Instances \ {i} :
             /\ processor'[j] = processor[j]
             /\ transaction'[j] = transaction[j]
             /\ consumer'[j] = consumer[j]
    <3>1. transaction[i].phase = "stored" /\ consumer[i] = "consuming"
      BY <1>11, <1>o DEF CommitBatch, ActsAsOwner
    <3>2. CASE transaction[i].isStop
      BY <1>11, <3>1, <3>2, Updates DEF CommitBatch
    <3>3. CASE ~transaction[i].isStop
      BY <1>11, <3>1, <3>3, Updates DEF CommitBatch
    <3> QED
      BY <3>2, <3>3
  <2>1. /\ processor'[i].isReleasing = processor[i].isReleasing
        /\ processor'[i].isActive => processor[i].isActive
    BY <2>0, <1>t DEF Processor
  <2>2. \/ row' = row
        \/ /\ transaction[i].writesRow /\ transaction[i].locksRow
           /\ row'.owner = row.owner /\ row'.status = row.status
           /\ ~row'.stale
    BY <1>11, <2>0, <1>o DEF CommitBatch, CommittedRow, ActsAsOwner, RowInv,
                             AheadOfRow
  <2>3. ActsAsOwner(i)' /\ (AtWork(i)' => AtWork(i))
    BY <2>0, <2>1, <2>2, <1>o DEF ActsAsOwner, AtWork, NoTransaction
  <2>4. \A j \in Instances \ {i} : row' = row \/ ~transaction[j].writesRow
    BY <2>2 DEF RowInv, RowIsLockedByOne, AheadOfRow
  <2>5. \A j \in Instances \ {i} : ActsAsOwner(j)'
    BY <2>0, <2>2, <2>4, OthersActAsOwners
  <2> QED
    BY <2>0, <2>3, <2>5, OneStepKeepsOwner DEF NoTransaction
<1>12. ASSUME NEW i \in Instances, RollbackBatch(i) PROVE OwnerInv'
  <2>1. ~processor'[i].isActive
    <3>1. processor'[i] = [processor[i] EXCEPT !.isActive = FALSE]
      BY <1>12, Updates DEF RollbackBatch
    <3> QED
      BY <3>1, <1>t DEF Processor
  <2> QED
    BY <1>12, <1>s, <2>1, Updates DEF RollbackBatch, database
\* A step that leaves transactions alone, and begins no work.
<1>c. ASSUME NEW i \in Instances, transaction' = transaction, row' = row,
             processor'[i].isReleasing => ~processor'[i].isActive,
             processor'[i].isActive => processor[i].isActive,
             transaction[i].phase = "acquiring" =>
               ~processor'[i].isLockAcquired /\ ~processor'[i].isReleasing,
             consumer[i] # "new", consumer'[i] # "new",
             \/ consumer'[i] = consumer[i]
             \/ /\ transaction[i].phase = "none"
                /\ consumer'[i] # "consuming",
             \A j \in Instances \ {i} : /\ processor'[j] = processor[j]
                                        /\ consumer'[j] = consumer[j]
      PROVE  OwnerInv'
  <2>1. AtWork(i)' => AtWork(i)
    BY <1>c DEF AtWork
  <2>2. ActsAsOwner(i)'
    BY <1>c, <1>o, <2>1 DEF ActsAsOwner
  <2> QED
    BY <1>c, <1>f, <2>1, <2>2
<1>13. ASSUME NEW i \in Instances, StopConsumer(i) PROVE OwnerInv'
  BY <1>13, <1>c, <1>o, Updates
     DEF StopConsumer, InTransaction, database, ActsAsOwner
<1>a. ASSUME NEW i \in Instances, CloseFields(i)
      PROVE  /\ ~processor'[i].isActive
             /\ transaction[i].phase = "acquiring" =>
                  ~processor'[i].isLockAcquired /\ ~processor'[i].isReleasing
             /\ \A j \in Instances \ {i} : processor'[j] = processor[j]
  <2>1. /\ processor'[i] = [processor[i] EXCEPT
              !.isActive = FALSE, !.isClosed = TRUE,
              !.isReleasing = processor[i].isLockAcquired]
        /\ \A j \in Instances \ {i} : processor'[j] = processor[j]
    BY <1>a, Updates DEF CloseFields
  <2> QED
    BY <2>1, <1>t, <1>o DEF Processor, ActsAsOwner
<1>14. ASSUME NEW i \in Instances, CloseProcessor(i) PROVE OwnerInv'
  <2>1. /\ transaction[i].phase = "none" /\ consumer[i] # "new"
        /\ consumer'[i] \in {"closing", "stopped"}
    <3>1. consumer[i] = "stopping"
      BY <1>14 DEF CloseProcessor
    <3>2. transaction[i].phase = "none"
      BY <3>1, <1>o, <1>t DEF ActsAsOwner, Transaction
    <3> QED
      BY <1>14, <3>1, <3>2, Updates DEF CloseProcessor
  <2> QED
    BY <1>14, <1>a, <1>c, <2>1, Updates DEF CloseProcessor, database
<1>15. ASSUME NEW i \in Instances, ShutDownProcessor(i) PROVE OwnerInv'
  <2>1. CloseFields(i) /\ UNCHANGED <<row, consumer, transaction>>
    BY <1>15 DEF ShutDownProcessor, database
  <2>2. consumer[i] # "new"
    BY <1>15 DEF ShutDownProcessor
  <2> QED
    BY <1>a, <1>c, <2>1, <2>2
\* Who releases the lock was closed, and is in no transaction of a start that
\* waits for it.
<1>r. ASSUME NEW i \in Instances, processor[i].isReleasing
      PROVE  /\ ~processor[i].isActive
             /\ consumer[i] # "new" /\ transaction[i].phase # "acquiring"
             /\ consumer[i] = "closing" => transaction[i].phase = "none"
  <2>1. consumer[i] = "closing" => transaction[i].phase = "none"
    BY <1>o, <1>t DEF ActsAsOwner, Transaction
  <2> QED
    BY <1>r, <1>o, <2>1 DEF ActsAsOwner
<1>e. ASSUME NEW i \in Instances, processor[i].isReleasing, AfterRelease(i)
      PROVE  /\ ~processor'[i].isActive
             /\ \/ consumer'[i] = consumer[i]
                \/ /\ transaction[i].phase = "none"
                   /\ consumer'[i] = "stopped"
             /\ consumer'[i] # "new"
             /\ \A j \in Instances \ {i} : /\ processor'[j] = processor[j]
                                           /\ consumer'[j] = consumer[j]
  <2>1. /\ processor'[i] = [processor[i] EXCEPT
              !.isLockAcquired = FALSE, !.isReleasing = FALSE]
        /\ consumer'[i] = IF consumer[i] = "closing" THEN "stopped"
                          ELSE consumer[i]
        /\ \A j \in Instances \ {i} : /\ processor'[j] = processor[j]
                                      /\ consumer'[j] = consumer[j]
    BY <1>e, Updates DEF AfterRelease
  <2>2. ~processor'[i].isActive
    BY <1>e, <1>r, <1>t, <2>1 DEF Processor
  <2> QED
    BY <1>e, <1>r, <2>1, <2>2
<1>16. ASSUME NEW i \in Instances, ReleaseLock(i) PROVE OwnerInv'
  <2>0. /\ processor[i].isReleasing /\ AfterRelease(i)
        /\ transaction' = transaction
        /\ \A j \in Instances : ~transaction[j].writesRow
    BY <1>16 DEF ReleaseLock, RowIsFree, RowInv, AheadOfRow
  <2>1. CASE row.owner # i
    BY <1>16, <1>c, <1>e, <1>r, <2>0, <2>1 DEF ReleaseLock
  <2>2. CASE row.owner = i
    <3>1. \A j \in Instances : ~AtWork(j)
      BY <1>o, <1>r, <2>0, <2>2 DEF ActsAsOwner, AtWork
    <3>2. \A j \in Instances \ {i} : ActsAsOwner(j)'
      BY <1>e, <2>0, <3>1, OthersActAsOwners
    <3>3. ActsAsOwner(i)' /\ ~AtWork(i)'
      BY <1>e, <1>o, <1>r, <2>0 DEF ActsAsOwner, AtWork
    <3> QED
      BY <1>e, <2>0, <3>2, <3>3, OneStepKeepsOwner
  <2> QED
    BY <2>1, <2>2
<1>17. ASSUME NEW i \in Instances, FailToRelease(i) PROVE OwnerInv'
  <2>0. processor[i].isReleasing /\ UNCHANGED <<row, transaction>>
    BY <1>17 DEF FailToRelease, database
  <2>1. CASE AfterRelease(i)
    BY <1>c, <1>e, <1>r, <2>0, <2>1
  <2>2. CASE /\ SetProcessor(i, [processor[i] EXCEPT !.isReleasing = FALSE])
             /\ Enter(i, IF consumer[i] = "closing" THEN "stopped"
                         ELSE consumer[i])
    <3>1. /\ processor'[i] = [processor[i] EXCEPT !.isReleasing = FALSE]
          /\ consumer'[i] = IF consumer[i] = "closing" THEN "stopped"
                            ELSE consumer[i]
          /\ \A j \in Instances \ {i} : /\ processor'[j] = processor[j]
                                        /\ consumer'[j] = consumer[j]
      BY <2>2, Updates
    <3>2. ~processor'[i].isActive
      BY <1>r, <1>t, <2>0, <3>1 DEF Processor
    <3> QED
      BY <1>c, <1>r, <2>0, <3>1, <3>2
  <2> QED
    BY <1>17, <2>1, <2>2 DEF FailToRelease
<1>18. ASSUME NEW i \in Instances, Crash(i) PROVE OwnerInv'
  BY <1>18, <1>s, Updates DEF Crash, NewProcessor, database
<1>19. CASE ExpireLock
  <2>1. /\ ~OwnerIsAtWork
        /\ UNCHANGED <<consumer, processor, transaction>>
        /\ row'.owner = row.owner /\ row'.status = row.status
    BY <1>19, <1>t DEF ExpireLock, LocksAreKept, Row
  <2>2. \A i \in Instances : ~AtWork(i)
    BY <1>o, <2>1 DEF ActsAsOwner, AtWork, OwnerIsAtWork
  <2>3. \A i \in Instances : ActsAsOwner(i)' /\ ~AtWork(i)'
    BY <1>o, <2>1, <2>2 DEF ActsAsOwner, AtWork
  <2> QED
    BY <2>3 DEF OwnerInv, NobodyBesideAStart
<1>20. CASE UNCHANGED <<row, consumer, processor, transaction>>
  BY <1>20 DEF OwnerInv, NobodyBesideAStart, ActsAsOwner, AtWork
<1> QED
  BY <1>1, <1>2, <1>3, <1>4, <1>5, <1>6, <1>7, <1>8, <1>9, <1>10, <1>11,
     <1>12, <1>13, <1>14, <1>15, <1>16, <1>17, <1>18, <1>19, <1>20
     DEF Next, Proceed, Disturb, Publish, Await, vars, database

\* As long as locks are kept, at most one instance is at work, with any number
\* of instances that start, try again, fail, are shut down and crash: the row
\* names the owner from the commit of its start to its release.
THEOREM OneIsAtWork ==
  ASSUME LocksAreKept
  PROVE  Spec => []OneInstanceAtWork
<1>1. Init => RowInv
  BY DEF Init, RowInv, RowIsLockedByOne, AheadOfRow, NewProcessor, NoTransaction
<1>2. Init => OwnerInv
  BY DEF Init, OwnerInv, NobodyBesideAStart, ActsAsOwner, AtWork, NewProcessor,
         NoTransaction
<1>3. OwnerInv => OneInstanceAtWork
  BY DEF OwnerInv, ActsAsOwner, AtWork, OneInstanceAtWork
<1>4. TypeOK /\ TypeOK' /\ RowInv /\ OwnerInv /\ [Next]_vars => OwnerInv'
  BY OwnerInvariant
<1> QED
  BY <1>1, <1>2, <1>3, <1>4, TypeInvariant, RowInvariant, PTL DEF Spec

-----------------------------------------------------------------------------
(* Every message once *)

\* What the effects are exactly once under: a processor that starts from the
\* beginning, keeps its projection, and is closed by its consumer alone.
StartsOnce ==
  /\ LocksAreKept /\ "shutdown" \notin Disturbances
  /\ StartFrom = BEGINNING /\ ~TruncateOnStart

\* Only who is at work has a batch, which begins behind the stored checkpoint
\* and is stored with its own end, or is empty because the handler stopped.
GoesOnFromRow(i) ==
  LET p == processor[i]
      t == transaction[i]
      c == row.checkpoint
  IN  /\ t.phase = "reading" => t.row.checkpoint = c
      /\ t.phase \in {"handled", "stored"} => AtWork(i)
      /\ AtWork(i) =>
           /\ t.phase \in {"none", "handled"} =>
                p.lastStoredCheckpoint = c /\ p.lastCheckpoint = c
           /\ t.phase = "none" => position[i] = c
           /\ t.phase = "handled" =>
                \E upTo \in c..published :
                  /\ t.batch = (c + 1)..upTo
                  /\ t.isStop \/ (upTo = position[i] /\ upTo > c)
           /\ t.phase = "stored" /\ ~t.writesRow => t.batch = {} /\ t.isStop
           /\ t.phase = "stored" /\ t.writesRow =>
                /\ t.row.checkpoint \in (c + 1)..published
                /\ t.batch = (c + 1)..t.row.checkpoint
                /\ p.lastStoredCheckpoint = t.row.checkpoint
                /\ p.lastCheckpoint = t.row.checkpoint
                /\ t.isStop \/ t.row.checkpoint = position[i]

ExactInv ==
  /\ row.checkpoint <= published
  /\ handled = 1..row.checkpoint
  /\ handledAgain = {}
  /\ \A i \in Instances : GoesOnFromRow(i)

\* An instance that a step leaves alone goes on from the row, when the step
\* does not move the checkpoint or it is neither at work nor starting.
LEMMA OthersGoOn ==
  ASSUME TypeOK, TypeOK', ExactInv, NEW j \in Instances,
         processor'[j] = processor[j], transaction'[j] = transaction[j],
         consumer'[j] = consumer[j], position'[j] = position[j],
         published' >= published,
         \/ row'.checkpoint = row.checkpoint
         \/ ~AtWork(j) /\ transaction[j].phase # "reading"
  PROVE  GoesOnFromRow(j)'
<1>1. CASE ~AtWork(j) /\ transaction[j].phase # "reading"
  BY <1>1 DEF ExactInv, GoesOnFromRow, AtWork
<1>2. CASE row'.checkpoint = row.checkpoint
  <2>1. /\ row.checkpoint \in Nat /\ published \in Nat /\ published' \in Nat
    BY DEF TypeOK, Row
  <2>2. \A upTo \in row.checkpoint..published :
          upTo \in row.checkpoint..published'
    BY <2>1
  <2>3. \A c \in (row.checkpoint + 1)..published :
          c \in (row.checkpoint + 1)..published'
    BY <2>1
  <2>4. GoesOnFromRow(j)
    BY DEF ExactInv
  <2> QED
    BY ONLY <1>2, <2>2, <2>3, <2>4, processor'[j] = processor[j],
            transaction'[j] = transaction[j], consumer'[j] = consumer[j],
            position'[j] = position[j]
       DEF GoesOnFromRow, AtWork
<1> QED
  BY <1>1, <1>2

\* Every step keeps the effects those of the stored checkpoint.
LEMMA ExactInvariant ==
  ASSUME StartsOnce, TypeOK, TypeOK', RowInv, OwnerInv, ExactInv, [Next]_vars
  PROVE  /\ ExactInv'
         /\ [Promise!Next]_(Promise!vars)
<1> DEFINE c == row.checkpoint
           Goal == ExactInv' /\ [Promise!Next]_(Promise!vars)
<1>t. /\ row \in Row /\ row.checkpoint \in Nat /\ row'.checkpoint \in Nat
      /\ published \in Nat
      /\ \A i \in Instances : /\ processor[i] \in Processor
                              /\ transaction[i] \in Transaction
                              /\ position[i] \in Nat
  BY DEF TypeOK, Row
<1>o. \A i \in Instances : ActsAsOwner(i) /\ GoesOnFromRow(i)
  BY DEF OwnerInv, ExactInv
<1>p. \A i \in Instances : /\ position'[i] \in Nat
                           /\ transaction'[i] \in Transaction
  BY DEF TypeOK
\* A step that leaves the effects and the checkpoint alone.
<1>f. ASSUME NEW i \in Instances, GoesOnFromRow(i)',
             UNCHANGED <<published, handled, handledAgain>>,
             row'.checkpoint = row.checkpoint,
             \A j \in Instances \ {i} :
               /\ processor'[j] = processor[j]
               /\ transaction'[j] = transaction[j]
               /\ consumer'[j] = consumer[j]
               /\ position'[j] = position[j]
      PROVE  Goal
  <2>1. \A j \in Instances \ {i} : GoesOnFromRow(j)'
    BY <1>f, <1>t, OthersGoOn
  <2>2. ExactInv'
    BY <1>f, <2>1 DEF ExactInv
  <2> QED
    BY <1>f, <2>2 DEF Promise!vars
\* A step after which i is neither at work nor in the middle of a start.
<1>s. ASSUME NEW i \in Instances, ~AtWork(i)',
             \/ transaction'[i].phase \in {"none", "acquiring"}
             \/ transaction'[i] = transaction[i] /\ ~AtWork(i),
             UNCHANGED <<published, handled, handledAgain>>,
             row'.checkpoint = row.checkpoint,
             \A j \in Instances \ {i} :
               /\ processor'[j] = processor[j]
               /\ transaction'[j] = transaction[j]
               /\ consumer'[j] = consumer[j]
               /\ position'[j] = position[j]
      PROVE  Goal
  <2>1. GoesOnFromRow(i)'
    BY <1>s, <1>o DEF GoesOnFromRow
  <2> QED
    BY <1>f, <1>s, <2>1
<1>1. ASSUME NEW i \in Instances, ResumeFromMemory(i) PROVE Goal
  BY <1>1, <1>o
     DEF ResumeFromMemory, CanStart, StartsOnce, LocksAreKept, ActsAsOwner
<1>2. ASSUME NEW i \in Instances, BeginStart(i) PROVE Goal
  <2>1. transaction'[i] = [transaction[i] EXCEPT !.phase = "acquiring"]
    BY <1>2, Updates DEF BeginStart
  <2>2. transaction'[i].phase = "acquiring"
    BY <2>1, <1>t DEF Transaction
  <2>3. ~AtWork(i)'
    BY <1>2, Updates DEF BeginStart, AtWork
  <2> QED
    BY <1>2, <1>s, <2>2, <2>3, Updates DEF BeginStart, database
<1>3. ASSUME NEW i \in Instances, AcquireLock(i) PROVE Goal
  <2>0. consumer[i] = "starting" /\ ~processor[i].isLockAcquired
    BY <1>3, <1>o DEF AcquireLock, ActsAsOwner
  <2>1. /\ transaction'[i] = [transaction[i] EXCEPT
               !.phase = "reading", !.holdsKey = TRUE, !.locksRow = TRUE,
               !.writesRow = TRUE, !.row = OwnedBy(i)]
        /\ consumer' = consumer
    BY <1>3, <2>0, Updates DEF AcquireLock
  <2>2. transaction'[i].phase = "reading" /\ transaction'[i].row = OwnedBy(i)
    BY <2>1, <1>t DEF Transaction
  <2>3. OwnedBy(i).checkpoint = row.checkpoint
    BY <1>t DEF OwnedBy, Row
  <2>4. GoesOnFromRow(i)'
    BY <1>3, <2>0, <2>1, <2>2, <2>3
       DEF AcquireLock, database, GoesOnFromRow, AtWork
  <2> QED
    BY <1>3, <1>f, <2>4, Updates DEF AcquireLock, database
<1>4. ASSUME NEW i \in Instances, KeepGoingUnlocked(i) PROVE Goal
  <2>0. PICK t \in AfterFailedAttempt(i) :
          SetTransaction(i, [t EXCEPT
            !.phase = IF AcquisitionPolicy = "skip" THEN "reading" ELSE @])
    BY <1>4 DEF KeepGoingUnlocked
  <2>1. t \in Transaction /\ t.phase = "acquiring"
        /\ transaction[i].phase = "acquiring"
    <3>1. transaction[i].phase = "acquiring"
      BY DEF AfterFailedAttempt
    <3>2. CASE t = transaction[i]
      BY <3>1, <3>2, <1>t
    <3>3. CASE t = [transaction[i] EXCEPT !.holdsKey = TRUE, !.locksRow = TRUE]
      BY <3>1, <3>3, <1>t DEF Transaction
    <3> QED
      BY <3>1, <3>2, <3>3 DEF AfterFailedAttempt
  <2>2. transaction'[i].phase = "acquiring"
    <3>1. transaction'[i] =
            [t EXCEPT !.phase = IF AcquisitionPolicy = "skip" THEN "reading"
                                ELSE @]
      BY <2>0, Updates
    <3> QED
      BY <2>1, <3>1 DEF StartsOnce, LocksAreKept, Transaction
  <2>3. ~AtWork(i)'
    BY <1>4, <1>o, <2>1 DEF KeepGoingUnlocked, ActsAsOwner, AtWork
  <2> QED
    BY <1>4, <1>s, <2>0, <2>2, <2>3, Updates DEF KeepGoingUnlocked, database
<1>5. ASSUME NEW i \in Instances, RefuseStart(i) PROVE Goal
  BY <1>5, <1>s, Updates DEF RefuseStart, database, AtWork, NoTransaction
<1>6. ASSUME NEW i \in Instances, CompleteStart(i) PROVE Goal
  <2>0. /\ transaction[i].phase = "reading"
        /\ row'.checkpoint = row.checkpoint
    BY <1>6, <1>o DEF CompleteStart, CommittedRow, ActsAsOwner, GoesOnFromRow
  <2>1. Remembered(c) = c /\ StartPosition(c) = c
    BY <1>t, ProcessorAssumption DEF Remembered, StartPosition, StartsOnce
  <2>2. /\ processor'[i] = WithCheckpoint(processor[i], c)
        /\ transaction'[i].phase = "none"
        /\ position'[i] = c
    BY <1>6, <2>1, <1>t, Updates
       DEF CompleteStart, NoTransaction, TypeOK
  <2>3. /\ processor'[i].lastCheckpoint = c
        /\ processor'[i].lastStoredCheckpoint = c
    BY <2>1, <2>2, <1>t, CheckpointsAreSet
  <2>4. GoesOnFromRow(i)'
    BY <2>0, <2>2, <2>3 DEF GoesOnFromRow
  <2>5. UNCHANGED <<published, handled, handledAgain>>
    BY <1>6 DEF CompleteStart, StartsOnce
  <2>6. \A j \in Instances \ {i} :
               /\ processor'[j] = processor[j]
               /\ transaction'[j] = transaction[j]
               /\ consumer'[j] = consumer[j]
               /\ position'[j] = position[j]
    BY <1>6, Updates DEF CompleteStart, TypeOK
  <2> QED
    BY <1>f, <2>0, <2>4, <2>5, <2>6
<1>7. ASSUME NEW i \in Instances, FailStart(i) PROVE Goal
  BY <1>7, <1>s, Updates DEF FailStart, database, AtWork, NoTransaction
<1>8. ASSUME NEW i \in Instances, HandleBatch(i) PROVE Goal
  <2>1. PICK last, isStop, upTo :
          /\ last \in position[i] + 1 .. published
          /\ upTo \in position[i] .. last
          /\ isStop \/ upTo = last
          /\ SetTransaction(i, [transaction[i] EXCEPT
               !.phase = "handled", !.isStop = isStop,
               !.batch = Unhandled(i, upTo)])
          /\ position' = [position EXCEPT ![i] = last]
    BY ONLY <1>8, ZenonT(30) DEF HandleBatch
  <2>2. /\ AtWork(i) /\ transaction[i].phase = "none"
        /\ UNCHANGED <<published, row, handled, handledAgain, consumer,
                       processor>>
    BY <1>8 DEF HandleBatch, AtWork, InTransaction, database
  <2>3. /\ position[i] = c
        /\ processor[i].lastCheckpoint = c
        /\ processor[i].lastStoredCheckpoint = c
    BY <2>2, <1>o DEF GoesOnFromRow
  <2>4. /\ transaction'[i].phase = "handled"
        /\ transaction'[i].isStop = isStop
        /\ transaction'[i].batch = Unhandled(i, upTo)
    <3>1. transaction'[i] = [transaction[i] EXCEPT !.phase = "handled",
                    !.isStop = isStop, !.batch = Unhandled(i, upTo)]
      BY <2>1, Updates
    <3> QED
      BY <3>1, <1>t, BatchIsSet DEF SameHold
  <2>5. Unhandled(i, upTo) = (c + 1)..upTo
    BY <2>3, <1>t DEF Unhandled
  <2>6. position'[i] = last /\ upTo \in c..published /\ last > c
    BY <2>1, <2>3, <1>t DEF TypeOK
  <2>7. GoesOnFromRow(i)'
    BY <2>1, <2>2, <2>3, <2>4, <2>5, <2>6 DEF GoesOnFromRow, AtWork
  <2>8. \A j \in Instances \ {i} : /\ transaction'[j] = transaction[j]
                                   /\ position'[j] = position[j]
    BY <2>1, Updates DEF TypeOK
  <2> QED
    BY <1>f, <2>2, <2>7, <2>8
<1>9. ASSUME NEW i \in Instances, StoreCheckpoint(i) PROVE Goal
  <2>0. /\ AtWork(i) /\ transaction[i].phase = "handled"
        /\ UNCHANGED <<published, row, handled, handledAgain, consumer,
                       position>>
    BY <1>9, <1>o DEF StoreCheckpoint, GoesOnFromRow, database
  <2>1. PICK upTo \in c..published :
          /\ transaction[i].batch = (c + 1)..upTo
          /\ transaction[i].isStop \/ (upTo = position[i] /\ upTo > c)
    BY <2>0, <1>o DEF GoesOnFromRow
  <2>2. PICK m \in CheckpointMessage(i) :
          /\ SetTransaction(i, [transaction[i] EXCEPT
               !.phase = "stored", !.locksRow = TRUE, !.writesRow = TRUE,
               !.row = [row EXCEPT !.checkpoint = m, !.stale = FALSE]])
          /\ SetProcessor(i, [processor[i] EXCEPT
               !.lastCheckpoint = m, !.lastStoredCheckpoint = m])
    BY ONLY <1>9, ZenonT(30) DEF StoreCheckpoint
  <2>3. m = upTo /\ m \in (c + 1)..published
    BY <2>1, <2>2, <1>t DEF CheckpointMessage
  <2>4. /\ transaction'[i].phase = "stored" /\ transaction'[i].writesRow
        /\ transaction'[i].row.checkpoint = m
        /\ transaction'[i].batch = transaction[i].batch
        /\ transaction'[i].isStop = transaction[i].isStop
    <3>1. transaction'[i] = [transaction[i] EXCEPT
               !.phase = "stored", !.locksRow = TRUE, !.writesRow = TRUE,
               !.row = [row EXCEPT !.checkpoint = m, !.stale = FALSE]]
      BY <2>2, Updates
    <3>2. transaction[i] \in Transaction
      BY <1>t
    <3>3. [row EXCEPT !.checkpoint = m, !.stale = FALSE].checkpoint = m
      BY <1>t DEF Row
    <3>4. transaction'[i].row = [row EXCEPT !.checkpoint = m, !.stale = FALSE]
      BY ONLY <3>1, <3>2 DEF Transaction
    <3>5. /\ transaction'[i].phase = "stored" /\ transaction'[i].writesRow
          /\ transaction'[i].batch = transaction[i].batch
          /\ transaction'[i].isStop = transaction[i].isStop
      BY ONLY <3>1, <3>2 DEF Transaction
    <3> QED
      BY ONLY <3>3, <3>4, <3>5
  <2>5. /\ processor'[i].lastCheckpoint = m
        /\ processor'[i].lastStoredCheckpoint = m
        /\ processor'[i].isActive = processor[i].isActive
    <3>1. processor'[i] = [processor[i] EXCEPT
               !.lastCheckpoint = m, !.lastStoredCheckpoint = m]
      BY <2>2, Updates
    <3>2. processor[i] \in Processor
      BY <1>t
    <3> QED
      BY ONLY <3>1, <3>2 DEF Processor
  <2>6. GoesOnFromRow(i)'
    BY <2>0, <2>1, <2>3, <2>4, <2>5 DEF GoesOnFromRow, AtWork
  <2>7. \A j \in Instances \ {i} : /\ transaction'[j] = transaction[j]
                                   /\ processor'[j] = processor[j]
    BY <2>2, Updates
  <2> QED
    BY <1>f, <2>0, <2>6, <2>7
<1>10. ASSUME NEW i \in Instances, LeaveCheckpoint(i) PROVE Goal
  <2>0. /\ AtWork(i) /\ transaction[i].phase = "handled"
        /\ ~transaction[i].writesRow
        /\ processor[i].lastStoredCheckpoint = c
        /\ UNCHANGED <<published, row, handled, handledAgain, consumer,
                       position, processor>>
    BY <1>10, <1>o DEF LeaveCheckpoint, GoesOnFromRow, ActsAsOwner, database
  <2>1. PICK upTo \in c..published :
          /\ transaction[i].batch = (c + 1)..upTo
          /\ transaction[i].isStop \/ (upTo = position[i] /\ upTo > c)
    BY <2>0, <1>o DEF GoesOnFromRow
  <2>2. CheckpointMessage(i) = {}
    BY <1>10, <2>0 DEF LeaveCheckpoint, CheckpointMatches
  <2>3. upTo = c
    <3>1. upTo > c => upTo \in CheckpointMessage(i)
      BY <2>1, <1>t DEF CheckpointMessage
    <3> QED
      BY <2>1, <2>2, <3>1, <1>t
  <2>4. transaction[i].batch = {} /\ transaction[i].isStop
    BY <2>1, <2>3, <1>t
  <2>5. /\ transaction'[i].phase = "stored"
        /\ transaction'[i].writesRow = transaction[i].writesRow
        /\ transaction'[i].batch = transaction[i].batch
        /\ transaction'[i].isStop = transaction[i].isStop
    <3>1. transaction'[i] = [transaction[i] EXCEPT !.phase = "stored"]
      BY <1>10, Updates DEF LeaveCheckpoint
    <3> QED
      BY <3>1, <1>t, PhaseIsSet DEF SameHold
  <2>6. GoesOnFromRow(i)'
    BY <2>0, <2>4, <2>5 DEF GoesOnFromRow, AtWork
  <2>7. \A j \in Instances \ {i} : transaction'[j] = transaction[j]
    BY <1>10, Updates DEF LeaveCheckpoint
  <2> QED
    BY <1>f, <2>0, <2>6, <2>7
<1>11. ASSUME NEW i \in Instances, CommitBatch(i) PROVE Goal
  <2> DEFINE t == transaction[i]
  <2>0. /\ AtWork(i) /\ t.phase = "stored"
        /\ handled' = handled \cup t.batch
        /\ handledAgain' = handledAgain \cup (handled \cap t.batch)
        /\ UNCHANGED <<published, position>>
        /\ row' = CommittedRow(t)
    BY <1>11, <1>o DEF CommitBatch, GoesOnFromRow
  <2>1. /\ transaction'[i] = NoTransaction
        /\ IF t.isStop THEN consumer'[i] = "stopping"
           ELSE processor'[i] = processor[i] /\ consumer'[i] = consumer[i]
        /\ \A j \in Instances \ {i} :
             /\ processor'[j] = processor[j]
             /\ transaction'[j] = transaction[j]
             /\ consumer'[j] = consumer[j]
             /\ position'[j] = position[j]
    <3>1. CASE t.isStop
      BY <1>11, <3>1, Updates DEF CommitBatch
    <3>2. CASE ~t.isStop
      BY <1>11, <3>2, Updates DEF CommitBatch
    <3> QED
      BY <3>1, <3>2
  <2>2. \A j \in Instances \ {i} :
          ~AtWork(j) /\ transaction[j].phase # "reading"
    BY <2>0 DEF OwnerInv, NobodyBesideAStart, ActsAsOwner
  <2>3. \A j \in Instances \ {i} : GoesOnFromRow(j)'
    BY <2>0, <2>1, <2>2, <1>t, OthersGoOn
  <2>4. CASE ~t.writesRow
    <3>1. row' = row /\ t.batch = {} /\ t.isStop
      BY <2>0, <2>4, <1>o DEF CommittedRow, GoesOnFromRow
    <3>2. UNCHANGED <<handled, handledAgain>>
      BY <2>0, <3>1
    <3>3. GoesOnFromRow(i)'
      BY <2>1, <3>1 DEF GoesOnFromRow, AtWork, NoTransaction
    <3> QED
      BY <1>f, <2>0, <2>1, <3>1, <3>2, <3>3
  <2>5. CASE t.writesRow
    <3> DEFINE m == t.row.checkpoint
    <3>1. /\ row'.checkpoint = m
          /\ m \in (c + 1)..published
          /\ t.batch = (c + 1)..m
          /\ processor[i].lastStoredCheckpoint = m
          /\ processor[i].lastCheckpoint = m
          /\ t.isStop \/ m = position[i]
      BY <2>0, <2>5, <1>o DEF CommittedRow, GoesOnFromRow
    <3>2. handled = 1..c /\ handledAgain = {}
      BY DEF ExactInv
    <3>3. handled' = 1..m /\ handledAgain' = {}
      BY <2>0, <3>1, <3>2, <1>t
    <3>4. GoesOnFromRow(i)'
      BY <2>0, <2>1, <3>1 DEF GoesOnFromRow, AtWork, NoTransaction
    <3>5. ExactInv'
      BY <2>0, <2>3, <3>1, <3>3, <3>4, <1>t DEF ExactInv
    <3>6. Promise!Handle
      BY <2>0, <3>1, <3>2, <3>3, <1>t DEF Promise!Handle
    <3> QED
      BY <3>5, <3>6 DEF Promise!Next
  <2> QED
    BY <2>4, <2>5
<1>12. ASSUME NEW i \in Instances, RollbackBatch(i) PROVE Goal
  BY <1>12, <1>s, Updates DEF RollbackBatch, database, AtWork, NoTransaction
<1>13. ASSUME NEW i \in Instances, StopConsumer(i) PROVE Goal
  <2>1. transaction'[i].phase = "none"
    BY <1>13 DEF StopConsumer, InTransaction
  <2> QED
    BY <1>13, <1>s, <2>1, Updates DEF StopConsumer, database, AtWork
<1>14. ASSUME NEW i \in Instances, CloseProcessor(i) PROVE Goal
  <2>1. /\ ~AtWork(i) /\ ~AtWork(i)'
        /\ \A j \in Instances \ {i} : /\ processor'[j] = processor[j]
                                      /\ consumer'[j] = consumer[j]
    BY <1>14, Updates DEF CloseProcessor, CloseFields, AtWork
  <2> QED
    BY <1>14, <1>s, <2>1 DEF CloseProcessor, database
<1>15. ASSUME NEW i \in Instances, ShutDownProcessor(i) PROVE Goal
  BY <1>15 DEF ShutDownProcessor, StartsOnce
\* The end of a release, whoever was asked for it.
<1>e. ASSUME NEW i \in Instances, processor[i].isReleasing,
             processor'[i].isActive = processor[i].isActive
      PROVE  ~AtWork(i) /\ ~AtWork(i)'
  BY <1>e, <1>o DEF ActsAsOwner, AtWork
<1>r. ASSUME NEW i \in Instances, AfterRelease(i)
      PROVE  /\ processor'[i].isActive = processor[i].isActive
             /\ \A j \in Instances \ {i} : /\ processor'[j] = processor[j]
                                           /\ consumer'[j] = consumer[j]
  <2>1. /\ processor'[i] = [processor[i] EXCEPT
              !.isLockAcquired = FALSE, !.isReleasing = FALSE]
        /\ \A j \in Instances \ {i} : /\ processor'[j] = processor[j]
                                      /\ consumer'[j] = consumer[j]
    BY <1>r, Updates DEF AfterRelease
  <2> QED
    BY <2>1, <1>t DEF Processor
<1>16. ASSUME NEW i \in Instances, ReleaseLock(i) PROVE Goal
  <2>1. row'.checkpoint = row.checkpoint
    BY <1>16, <1>t DEF ReleaseLock, Row
  <2> QED
    BY <1>16, <1>e, <1>r, <1>s, <2>1 DEF ReleaseLock
<1>17. ASSUME NEW i \in Instances, FailToRelease(i) PROVE Goal
  <2>1. CASE AfterRelease(i)
    BY <1>17, <1>e, <1>r, <1>s, <2>1 DEF FailToRelease, database
  <2>2. CASE /\ SetProcessor(i, [processor[i] EXCEPT !.isReleasing = FALSE])
             /\ Enter(i, IF consumer[i] = "closing" THEN "stopped"
                         ELSE consumer[i])
    <3>1. /\ processor'[i] = [processor[i] EXCEPT !.isReleasing = FALSE]
          /\ \A j \in Instances \ {i} : /\ processor'[j] = processor[j]
                                        /\ consumer'[j] = consumer[j]
      BY <2>2, Updates
    <3>2. processor'[i].isActive = processor[i].isActive
      BY <3>1, <1>t DEF Processor
    <3> QED
      BY <1>17, <1>e, <1>s, <3>1, <3>2 DEF FailToRelease, database
  <2> QED
    BY <1>17, <2>1, <2>2 DEF FailToRelease
<1>18. ASSUME NEW i \in Instances, Crash(i) PROVE Goal
  BY <1>18, <1>s, Updates DEF Crash, database, AtWork, NoTransaction
\* A step of nobody: more messages, an expired row, an awaiter, or no step.
<1>n. ASSUME UNCHANGED <<handled, handledAgain, consumer, position, processor,
                         transaction>>,
             row'.checkpoint = row.checkpoint,
             published' = published \/ Promise!Publish
      PROVE  Goal
  <2>1. published' >= published /\ published' \in Nat
    BY <1>n, <1>t DEF Promise!Publish
  <2>2. \A j \in Instances : GoesOnFromRow(j)'
    BY <1>n, <2>1, OthersGoOn
  <2>3. ExactInv'
    BY <1>n, <1>t, <2>1, <2>2 DEF ExactInv
  <2> QED
    BY <1>n, <2>3 DEF Promise!Next, Promise!vars
<1>19. CASE ExpireLock
  <2>1. row'.checkpoint = row.checkpoint
    BY <1>19, <1>t DEF ExpireLock, Row
  <2> QED
    BY <1>19, <1>n, <2>1 DEF ExpireLock
<1>20. CASE Publish
  BY <1>20, <1>n DEF Publish, Promise!Publish, database
<1>21. ASSUME NEW i \in Instances, NEW target, Await(i, target) PROVE Goal
  BY <1>21, <1>n DEF Await, database
<1>22. CASE UNCHANGED vars
  BY <1>22, <1>n DEF vars, database
<1> QED
  BY <1>1, <1>2, <1>3, <1>4, <1>5, <1>6, <1>7, <1>8, <1>9, <1>10, <1>11,
     <1>12, <1>13, <1>14, <1>15, <1>16, <1>17, <1>18, <1>19, <1>20, <1>21,
     <1>22 DEF Next, Proceed, Disturb

\* A processor that starts from the beginning handles the messages in order and
\* each of them once, with any number of instances that start, compete for the
\* lock, fail, stop and crash, as long as locks are kept.
THEOREM MessagesAreHandledOnce ==
  ASSUME StartsOnce
  PROVE  Spec => ImplementsExactlyOnce
<1>1. Init => RowInv
  BY DEF Init, RowInv, RowIsLockedByOne, AheadOfRow, NewProcessor, NoTransaction
<1>2. Init => OwnerInv
  BY DEF Init, OwnerInv, NobodyBesideAStart, ActsAsOwner, AtWork, NewProcessor,
         NoTransaction
<1>3. Init => ExactInv /\ Promise!Init
  <2>1. 1..0 = {}
    OBVIOUS
  <2> QED
    BY <2>1 DEF Init, ExactInv, GoesOnFromRow, AtWork, NewProcessor,
                NoTransaction, NoRow, Promise!Init
<1>4. TypeOK /\ TypeOK' /\ RowInv /\ OwnerInv /\ [Next]_vars => OwnerInv'
  BY OwnerInvariant DEF StartsOnce
<1>5. TypeOK /\ TypeOK' /\ RowInv /\ OwnerInv /\ ExactInv /\ [Next]_vars
        => ExactInv' /\ [Promise!Next]_(Promise!vars)
  BY ExactInvariant
<1>6. Spec => Promise!Spec
  BY <1>1, <1>2, <1>3, <1>4, <1>5, TypeInvariant, RowInvariant, PTL
     DEF Spec, Promise!Spec
<1> QED
  BY <1>6 DEF ImplementsExactlyOnce

\* Under the same conditions the messages that took effect are those up to the
\* stored checkpoint: none took effect twice, or before one in front of it.
THEOREM EffectsAreOnceAndInOrder ==
  ASSUME StartsOnce
  PROVE  Spec => [](HandledOnce /\ HandledWithoutGaps)
<1>1. Init => RowInv
  BY DEF Init, RowInv, RowIsLockedByOne, AheadOfRow, NewProcessor, NoTransaction
<1>2. Init => OwnerInv
  BY DEF Init, OwnerInv, NobodyBesideAStart, ActsAsOwner, AtWork, NewProcessor,
         NoTransaction
<1>3. Init => ExactInv
  <2>1. 1..0 = {}
    OBVIOUS
  <2> QED
    BY <2>1 DEF Init, ExactInv, GoesOnFromRow, AtWork, NewProcessor,
                NoTransaction, NoRow
<1>4. TypeOK /\ TypeOK' /\ RowInv /\ OwnerInv /\ [Next]_vars => OwnerInv'
  BY OwnerInvariant DEF StartsOnce
<1>5. TypeOK /\ TypeOK' /\ RowInv /\ OwnerInv /\ ExactInv /\ [Next]_vars
        => ExactInv'
  BY ExactInvariant
<1>6. TypeOK /\ ExactInv => HandledOnce /\ HandledWithoutGaps
  <2> SUFFICES ASSUME TypeOK, ExactInv PROVE HandledOnce /\ HandledWithoutGaps
    OBVIOUS
  <2>1. /\ handled = 1..row.checkpoint /\ handledAgain = {}
        /\ row.checkpoint \in Nat
    BY DEF TypeOK, ExactInv, Row
  <2> QED
    BY <2>1 DEF HandledOnce, HandledWithoutGaps
<1> QED
  BY <1>1, <1>2, <1>3, <1>4, <1>5, <1>6, TypeInvariant, RowInvariant, PTL
     DEF Spec

-----------------------------------------------------------------------------
(* Awaiters *)

\* A transaction belongs to the start or to the batch its consumer is at.
PhaseFits(i) ==
  /\ transaction[i].phase \in {"acquiring", "reading"} =>
       consumer[i] = "starting"
  /\ transaction[i].phase \in {"handled", "stored"} =>
       consumer[i] = "consuming"


\* Nobody waits on a processor that is yet to start or was closed; who waits on
\* one that consumes waits for what it has not reached, but for the moment
\* between the store of a checkpoint and the commit that tells of it.
WaitsForWhatComes(i) ==
  LET a == awaiter[i]
  IN  /\ PhaseFits(i)
      /\ consumer[i] \in {"closing", "stopped"} => processor[i].isClosed
      /\ a.state = "waiting" =>
           /\ a.target >= 1
           /\ consumer[i] \notin {"new", "starting", "closing", "stopped"}
           /\ consumer[i] = "consuming" /\ transaction[i].phase # "stored" =>
                processor[i].lastCheckpoint < a.target

AwaitInv == \A i \in Instances : WaitsForWhatComes(i)

\* A consumer that neither starts nor consumes has no transaction.
LEMMA PhaseFitsAll ==
  ASSUME TypeOK, NEW i \in Instances, PhaseFits(i),
         consumer[i] \notin {"starting", "consuming"}
  PROVE  transaction[i].phase = "none"
<1>1. transaction[i].phase
        \in {"none", "acquiring", "reading", "handled", "stored"}
  BY DEF TypeOK, Transaction
<1> QED
  BY <1>1 DEF PhaseFits

\* Every step keeps awaiters waiting only for what their processor will still
\* tell of: a commit tells those that it reaches, a close rejects the others.
LEMMA AwaitInvariant ==
  ASSUME AwaitedWhile \cap {"new", "starting"} = {},
         TypeOK, TypeOK', AwaitInv, [Next]_vars
  PROVE  AwaitInv'
<1>t. \A i \in Instances : /\ processor[i] \in Processor
                           /\ transaction[i] \in Transaction
                           /\ awaiter[i] \in Awaiter
  BY DEF TypeOK
<1>w. \A i \in Instances : WaitsForWhatComes(i) /\ PhaseFits(i)
  BY DEF AwaitInv, WaitsForWhatComes
<1>a. awaiter \in [Instances -> Awaiter]
  BY DEF TypeOK
<1>n. NoTransaction.phase = "none"
  BY DEF NoTransaction
<1>f. ASSUME NEW i \in Instances, WaitsForWhatComes(i)',
             \A j \in Instances \ {i} :
               /\ processor'[j] = processor[j]
               /\ transaction'[j] = transaction[j]
               /\ consumer'[j] = consumer[j]
               /\ awaiter'[j] = awaiter[j]
      PROVE  AwaitInv'
  <2>1. ASSUME NEW j \in Instances \ {i} PROVE WaitsForWhatComes(j)'
    BY <1>f, <1>w, <2>1 DEF WaitsForWhatComes, PhaseFits
  <2> QED
    BY <1>f, <2>1 DEF AwaitInv
<1>1. ASSUME NEW i \in Instances, ResumeFromMemory(i) PROVE AwaitInv'
  <2>1. consumer[i] \in {"new", "stopped"} /\ awaiter[i].state # "waiting"
    BY <1>1, <1>w DEF ResumeFromMemory, CanStart, WaitsForWhatComes
  <2>2. transaction[i].phase = "none"
    BY <1>w, <2>1, PhaseFitsAll
  <2>3. WaitsForWhatComes(i)'
    BY <1>1, <2>1, <2>2, Updates
       DEF ResumeFromMemory, WaitsForWhatComes, PhaseFits
  <2> QED
    BY <1>1, <1>f, <2>3, Updates DEF ResumeFromMemory
<1>2. ASSUME NEW i \in Instances, BeginStart(i) PROVE AwaitInv'
  <2>1. consumer[i] \in {"new", "stopped"} /\ awaiter[i].state # "waiting"
    BY <1>2, <1>w DEF BeginStart, CanStart, WaitsForWhatComes
  <2>2. transaction'[i] = [transaction[i] EXCEPT !.phase = "acquiring"]
    BY <1>2, Updates DEF BeginStart
  <2>3. transaction'[i].phase = "acquiring"
    BY <1>t, <2>2, PhaseIsSet
  <2>4. WaitsForWhatComes(i)'
    BY <1>2, <2>1, <2>3, Updates DEF BeginStart, WaitsForWhatComes, PhaseFits
  <2> QED
    BY <1>2, <1>f, <2>4, Updates DEF BeginStart
\* A step of a start that goes on, or that gives up.
<1>s. ASSUME NEW i \in Instances, consumer[i] = "starting",
             consumer'[i] = "starting", awaiter' = awaiter,
             transaction'[i].phase \in {"acquiring", "reading"}
      PROVE  WaitsForWhatComes(i)'
  BY <1>s, <1>w DEF WaitsForWhatComes, PhaseFits
<1>g. ASSUME NEW i \in Instances, consumer[i] \notin {"new", "closing", "stopped"},
             consumer'[i] = "stopping", awaiter' = awaiter,
             transaction'[i].phase = "none"
      PROVE  WaitsForWhatComes(i)'
  BY <1>g, <1>w DEF WaitsForWhatComes, PhaseFits
<1>3. ASSUME NEW i \in Instances, AcquireLock(i) PROVE AwaitInv'
  <2>1. transaction[i].phase = "acquiring" /\ consumer[i] = "starting"
    BY <1>3, <1>w DEF AcquireLock, PhaseFits
  <2>2. \/ transaction'[i] = [transaction[i] EXCEPT !.phase = "reading"]
        \/ transaction'[i] = [transaction[i] EXCEPT
             !.phase = "reading", !.holdsKey = TRUE, !.locksRow = TRUE,
             !.writesRow = TRUE, !.row = OwnedBy(i)]
    BY <1>3, Updates DEF AcquireLock
  <2>3. transaction'[i].phase = "reading"
    BY <1>t, <2>2 DEF Transaction
  <2>4. WaitsForWhatComes(i)'
    BY <1>3, <1>s, <2>1, <2>3 DEF AcquireLock
  <2> QED
    BY <1>3, <1>f, <2>4, Updates DEF AcquireLock
<1>4. ASSUME NEW i \in Instances, KeepGoingUnlocked(i) PROVE AwaitInv'
  <2>1. PICK t \in AfterFailedAttempt(i) :
          SetTransaction(i, [t EXCEPT
            !.phase = IF AcquisitionPolicy = "skip" THEN "reading" ELSE @])
    BY <1>4 DEF KeepGoingUnlocked
  <2>2. transaction[i].phase = "acquiring" /\ consumer[i] = "starting"
    BY <1>w DEF AfterFailedAttempt, PhaseFits
  <2>3. t \in Transaction /\ t.phase = "acquiring"
    <3>1. CASE t = transaction[i]
      BY <1>t, <2>2, <3>1
    <3>2. CASE t = [transaction[i] EXCEPT !.holdsKey = TRUE, !.locksRow = TRUE]
      BY <1>t, <2>2, <3>2 DEF Transaction
    <3> QED
      BY <3>1, <3>2 DEF AfterFailedAttempt
  <2>4. transaction'[i].phase \in {"acquiring", "reading"}
    <3>1. transaction'[i] =
            [t EXCEPT !.phase = IF AcquisitionPolicy = "skip" THEN "reading"
                                ELSE @]
      BY <2>1, Updates
    <3> QED
      BY <2>3, <3>1 DEF Transaction
  <2>5. UNCHANGED <<processor, consumer, awaiter>>
    BY <1>4 DEF KeepGoingUnlocked
  <2>6. WaitsForWhatComes(i)'
    BY <1>s, <2>2, <2>4, <2>5
  <2> QED
    BY <1>f, <2>1, <2>5, <2>6, Updates
<1>5. ASSUME NEW i \in Instances, RefuseStart(i) \/ FailStart(i)
      PROVE  AwaitInv'
  <2>1. transaction[i].phase \in {"acquiring", "reading"}
    BY <1>5 DEF RefuseStart, FailStart, AfterFailedAttempt
  <2>2. consumer[i] = "starting"
    BY <1>w, <2>1 DEF PhaseFits
  <2>3. /\ transaction'[i] = NoTransaction /\ consumer'[i] = "stopping"
        /\ awaiter' = awaiter
        /\ \A j \in Instances \ {i} :
             /\ processor'[j] = processor[j]
             /\ transaction'[j] = transaction[j]
             /\ consumer'[j] = consumer[j]
    BY <1>5, Updates DEF RefuseStart, FailStart
  <2>4. WaitsForWhatComes(i)'
    BY <1>g, <1>n, <2>2, <2>3
  <2> QED
    BY <1>f, <2>3, <2>4
<1>6. ASSUME NEW i \in Instances, CompleteStart(i) PROVE AwaitInv'
  <2>1. consumer[i] = "starting" /\ awaiter[i].state # "waiting"
    BY <1>6, <1>w DEF CompleteStart, PhaseFits, WaitsForWhatComes
  <2>2. WaitsForWhatComes(i)'
    BY <1>6, <1>n, <2>1, Updates DEF CompleteStart, WaitsForWhatComes, PhaseFits
  <2> QED
    BY <1>6, <1>f, <2>2, Updates DEF CompleteStart
<1>8. ASSUME NEW i \in Instances, HandleBatch(i) PROVE AwaitInv'
  <2>0. PICK upTo, isStop :
          SetTransaction(i, [transaction[i] EXCEPT
            !.phase = "handled", !.isStop = isStop,
            !.batch = Unhandled(i, upTo)])
    BY ONLY <1>8, ZenonT(30) DEF HandleBatch
  <2>1. transaction'[i].phase = "handled"
    <3>1. transaction'[i] = [transaction[i] EXCEPT !.phase = "handled",
                    !.isStop = isStop, !.batch = Unhandled(i, upTo)]
      BY <2>0, Updates
    <3> QED
      BY <3>1, <1>t, BatchIsSet DEF SameHold
  <2>2. /\ UNCHANGED <<processor, consumer, awaiter>>
        /\ consumer[i] = "consuming" /\ transaction[i].phase = "none"
    BY <1>8 DEF HandleBatch, InTransaction
  <2>3. WaitsForWhatComes(i)'
    BY <1>w, <2>1, <2>2 DEF WaitsForWhatComes, PhaseFits
  <2> QED
    BY <2>0, <1>f, <2>2, <2>3, Updates
\* A step to the end of the batch, which is yet to commit.
<1>b. ASSUME NEW i \in Instances, transaction[i].phase = "handled",
             transaction'[i].phase = "stored",
             UNCHANGED <<consumer, awaiter>>
      PROVE  WaitsForWhatComes(i)'
  BY <1>b, <1>w DEF WaitsForWhatComes, PhaseFits
<1>9. ASSUME NEW i \in Instances, StoreCheckpoint(i) PROVE AwaitInv'
  <2>0. PICK m :
          /\ SetTransaction(i, [transaction[i] EXCEPT
               !.phase = "stored", !.locksRow = TRUE, !.writesRow = TRUE,
               !.row = [row EXCEPT !.checkpoint = m, !.stale = FALSE]])
          /\ SetProcessor(i, [processor[i] EXCEPT
               !.lastCheckpoint = m, !.lastStoredCheckpoint = m])
    BY ONLY <1>9, ZenonT(30) DEF StoreCheckpoint
  <2>1. transaction'[i].phase = "stored"
    <3>1. transaction'[i] = [transaction[i] EXCEPT
               !.phase = "stored", !.locksRow = TRUE, !.writesRow = TRUE,
               !.row = [row EXCEPT !.checkpoint = m, !.stale = FALSE]]
      BY <2>0, Updates
    <3> DEFINE r == [row EXCEPT !.checkpoint = m, !.stale = FALSE]
    <3>2. transaction[i] \in Transaction
      BY <1>t
    <3> HIDE DEF r
    <3> QED
      BY ONLY <3>1, <3>2 DEF Transaction
  <2>2. transaction[i].phase = "handled" /\ UNCHANGED <<consumer, awaiter>>
    BY <1>9 DEF StoreCheckpoint
  <2>3. WaitsForWhatComes(i)'
    BY <1>b, <2>1, <2>2
  <2> QED
    BY <1>f, <2>0, <2>2, <2>3, Updates
<1>10. ASSUME NEW i \in Instances, LeaveCheckpoint(i) PROVE AwaitInv'
  <2>1. transaction'[i] = [transaction[i] EXCEPT !.phase = "stored"]
    BY <1>10, Updates DEF LeaveCheckpoint
  <2>2. transaction'[i].phase = "stored"
    BY <1>t, <2>1, PhaseIsSet
  <2>3. WaitsForWhatComes(i)'
    BY <1>10, <1>b, <2>2 DEF LeaveCheckpoint
  <2> QED
    BY <1>10, <1>f, <2>3, Updates DEF LeaveCheckpoint
<1>11. ASSUME NEW i \in Instances, CommitBatch(i) PROVE AwaitInv'
  <2>1. consumer[i] = "consuming"
    BY <1>11, <1>w DEF CommitBatch, PhaseFits
  <2>2. /\ transaction'[i] = NoTransaction
        /\ consumer'[i] \in {"consuming", "stopping"}
        /\ processor'[i] = processor[i]
             \/ processor'[i] = [processor[i] EXCEPT !.isActive = FALSE]
        /\ awaiter'[i] = Notify(awaiter[i], processor[i].lastCheckpoint)
        /\ \A j \in Instances \ {i} :
             /\ processor'[j] = processor[j]
             /\ transaction'[j] = transaction[j]
             /\ consumer'[j] = consumer[j]
             /\ awaiter'[j] = awaiter[j]
    <3>1. /\ transaction'[i] = NoTransaction
          /\ awaiter' = [awaiter EXCEPT
               ![i] = Notify(@, processor[i].lastCheckpoint)]
          /\ \A j \in Instances \ {i} : transaction'[j] = transaction[j]
      BY <1>11, Updates DEF CommitBatch
    <3>2. /\ awaiter'[i] = Notify(awaiter[i], processor[i].lastCheckpoint)
          /\ \A j \in Instances \ {i} : awaiter'[j] = awaiter[j]
      BY <1>a, <3>1
    <3>3. CASE transaction[i].isStop
      BY <1>11, <3>1, <3>2, <3>3, Updates DEF CommitBatch
    <3>4. CASE ~transaction[i].isStop
      BY <1>11, <2>1, <3>1, <3>2, <3>4 DEF CommitBatch
    <3> QED
      BY <3>3, <3>4
  <2>3. processor'[i].lastCheckpoint = processor[i].lastCheckpoint
    BY <1>t, <2>2 DEF Processor
  <2>4. ASSUME awaiter'[i].state = "waiting"
        PROVE  /\ awaiter'[i].target >= 1
               /\ processor'[i].lastCheckpoint < awaiter'[i].target
    <3> DEFINE a == awaiter[i]
               c == processor[i].lastCheckpoint
    <3>1. a \in Awaiter /\ c \in Nat
      BY <1>t DEF Processor
    <3>2. CASE a.state = "waiting" /\ c # 0 /\ c >= a.target
      <4>1. awaiter'[i] = [a EXCEPT !.state = "resolved"]
        BY <2>2, <3>2 DEF Notify
      <4> HIDE DEF a
      <4> QED
        BY ONLY <2>4, <3>1, <4>1 DEF Awaiter
    <3>3. CASE ~(a.state = "waiting" /\ c # 0 /\ c >= a.target)
      <4>1. awaiter'[i] = a
        BY <2>2, <3>3 DEF Notify
      <4>2. a.state = "waiting" /\ a.target >= 1 /\ a.target \in Nat
        BY <1>w, <2>4, <3>1, <4>1 DEF WaitsForWhatComes, Awaiter
      <4> QED
        BY <2>3, <3>1, <3>3, <4>1, <4>2
    <3> QED
      BY <3>2, <3>3
  <2>5. WaitsForWhatComes(i)'
    BY <1>n, <2>2, <2>4 DEF WaitsForWhatComes, PhaseFits
  <2> QED
    BY <1>f, <2>2, <2>5
<1>12. ASSUME NEW i \in Instances, RollbackBatch(i) PROVE AwaitInv'
  <2>1. consumer[i] = "consuming"
    BY <1>12, <1>w DEF RollbackBatch, PhaseFits
  <2>2. WaitsForWhatComes(i)'
    BY <1>12, <1>g, <1>n, <2>1, Updates DEF RollbackBatch
  <2> QED
    BY <1>12, <1>f, <2>2, Updates DEF RollbackBatch
<1>13. ASSUME NEW i \in Instances, StopConsumer(i) PROVE AwaitInv'
  <2>1. WaitsForWhatComes(i)'
    BY <1>13, <1>g, Updates DEF StopConsumer, InTransaction
  <2> QED
    BY <1>13, <1>f, <2>1, Updates DEF StopConsumer
\* Nobody waits on a processor that was closed.
<1>c. ASSUME NEW i \in Instances, CloseFields(i)
      PROVE  /\ processor'[i].isClosed
             /\ awaiter'[i].state # "waiting"
             /\ \A j \in Instances \ {i} : /\ processor'[j] = processor[j]
                                           /\ awaiter'[j] = awaiter[j]
  <2>1. /\ processor'[i] = [processor[i] EXCEPT
              !.isActive = FALSE, !.isClosed = TRUE,
              !.isReleasing = processor[i].isLockAcquired]
        /\ \A j \in Instances \ {i} : processor'[j] = processor[j]
    BY <1>c, Updates DEF CloseFields
  <2>2. processor'[i].isClosed
    BY <1>t, <2>1 DEF Processor
  <2>3. /\ awaiter'[i] = Reject(awaiter[i])
        /\ \A j \in Instances \ {i} : awaiter'[j] = awaiter[j]
    BY <1>a, <1>c DEF CloseFields
  <2>4. Reject(awaiter[i]).state # "waiting"
    BY <1>t DEF Reject, Awaiter
  <2> QED
    BY <2>1, <2>2, <2>3, <2>4
<1>14. ASSUME NEW i \in Instances, CloseProcessor(i) PROVE AwaitInv'
  <2>1. CloseFields(i) /\ consumer[i] = "stopping" /\ transaction' = transaction
    BY <1>14 DEF CloseProcessor
  <2>2. transaction[i].phase = "none"
    BY <1>w, <2>1, PhaseFitsAll
  <2>3. /\ consumer'[i] \in {"closing", "stopped"}
        /\ \A j \in Instances \ {i} : consumer'[j] = consumer[j]
    BY <1>14, Updates DEF CloseProcessor
  <2>4. WaitsForWhatComes(i)'
    BY <1>c, <2>1, <2>2, <2>3 DEF WaitsForWhatComes, PhaseFits
  <2> QED
    BY <1>c, <1>f, <2>1, <2>3, <2>4
<1>15. ASSUME NEW i \in Instances, ShutDownProcessor(i) PROVE AwaitInv'
  <2>1. CloseFields(i) /\ UNCHANGED <<consumer, transaction>>
    BY <1>15 DEF ShutDownProcessor
  <2>2. WaitsForWhatComes(i)'
    BY <1>c, <1>w, <2>1 DEF WaitsForWhatComes, PhaseFits
  <2> QED
    BY <1>c, <1>f, <2>1, <2>2
\* A release, or one that fails, ends the close.
<1>16. ASSUME NEW i \in Instances, ReleaseLock(i) \/ FailToRelease(i)
       PROVE  AwaitInv'
  <2>1. /\ UNCHANGED <<transaction, awaiter>>
        /\ \/ processor'[i] = [processor[i] EXCEPT
                !.isLockAcquired = FALSE, !.isReleasing = FALSE]
           \/ processor'[i] = [processor[i] EXCEPT !.isReleasing = FALSE]
        /\ consumer'[i] = IF consumer[i] = "closing" THEN "stopped"
                          ELSE consumer[i]
        /\ \A j \in Instances \ {i} : /\ processor'[j] = processor[j]
                                      /\ consumer'[j] = consumer[j]
    BY <1>16, Updates DEF ReleaseLock, FailToRelease, AfterRelease
  <2>2. /\ processor'[i].isClosed = processor[i].isClosed
        /\ processor'[i].lastCheckpoint = processor[i].lastCheckpoint
    BY <1>t, <2>1 DEF Processor
  <2>3. consumer[i] = "closing" => transaction[i].phase = "none"
    BY <1>w, PhaseFitsAll
  <2>4. WaitsForWhatComes(i)'
    BY <1>w, <2>1, <2>2, <2>3 DEF WaitsForWhatComes, PhaseFits
  <2> QED
    BY <1>f, <2>1, <2>4
<1>18. ASSUME NEW i \in Instances, Crash(i) PROVE AwaitInv'
  <2>1. /\ awaiter'[i] = NoAwaiter
        /\ \A j \in Instances \ {i} : awaiter'[j] = awaiter[j]
    BY <1>18, <1>a DEF Crash
  <2>2. WaitsForWhatComes(i)'
    BY <1>18, <1>n, <2>1, Updates
       DEF Crash, WaitsForWhatComes, PhaseFits, NoAwaiter
  <2> QED
    BY <1>18, <1>f, <2>1, <2>2, Updates DEF Crash
<1>19. ASSUME NEW i \in Instances, NEW target \in 1..published,
              Await(i, target)
       PROVE  AwaitInv'
  <2>1. consumer[i] \in AwaitedWhile
        /\ UNCHANGED <<consumer, processor, transaction>>
    BY <1>19 DEF Await
  <2>2. /\ awaiter'[i] =
             [target |-> target,
              state |-> IF processor[i].lastCheckpoint >= target
                          THEN "resolved"
                        ELSE IF processor[i].isClosed THEN "rejected"
                        ELSE "waiting"]
        /\ \A j \in Instances \ {i} : awaiter'[j] = awaiter[j]
    BY <1>19, <1>a DEF Await
  <2>3. /\ awaiter'[i].target = target
        /\ awaiter'[i].state = "waiting" =>
             /\ ~(processor[i].lastCheckpoint >= target)
             /\ ~processor[i].isClosed
    BY <2>2
  <2>4. /\ target \in Nat /\ target >= 1
        /\ processor[i].lastCheckpoint \in Nat
    BY <1>t DEF TypeOK, Processor
  <2>5. consumer[i] \notin {"new", "starting"}
    BY <2>1
  <2>6. WaitsForWhatComes(i)'
    BY <1>w, <2>1, <2>3, <2>4, <2>5 DEF WaitsForWhatComes, PhaseFits
  <2> QED
    BY <1>f, <2>1, <2>2, <2>6
<1>20. CASE UNCHANGED <<consumer, processor, transaction, awaiter>>
  BY <1>20, <1>w DEF AwaitInv, WaitsForWhatComes, PhaseFits
<1> QED
  BY <1>1, <1>2, <1>3, <1>4, <1>5, <1>6, <1>8, <1>9, <1>10, <1>11, <1>12,
     <1>13, <1>14, <1>15, <1>16, <1>18, <1>19, <1>20
     DEF Next, Proceed, Disturb, Publish, ExpireLock, vars

\* Who awaits a processor while it consumes, or while or after it closes, is
\* told when it gets there, or that it was closed: none is kept waiting for a
\* checkpoint that was reached, whatever fails, expires or is shut down.
THEOREM AwaitersAreNotForgotten ==
  ASSUME AwaitedWhile \cap {"new", "starting"} = {}
  PROVE  Spec => []AwaiterIsNotForgotten
<1>1. Init => AwaitInv
  <2>1. NoAwaiter.state = "none" /\ NoTransaction.phase = "none"
    BY DEF NoAwaiter, NoTransaction
  <2> QED
    BY <2>1 DEF Init, AwaitInv, WaitsForWhatComes, PhaseFits
<1>2. TypeOK /\ TypeOK' /\ AwaitInv /\ [Next]_vars => AwaitInv'
  BY AwaitInvariant
<1>3. AwaitInv => AwaiterIsNotForgotten
  BY DEF AwaitInv, WaitsForWhatComes, AwaiterIsNotForgotten, InTransaction
<1> QED
  BY <1>1, <1>2, <1>3, TypeInvariant, PTL DEF Spec

-----------------------------------------------------------------------------
(* The projection that is held *)

\* there, and nobody goes on without the lock.
StartsKeepLocks ==
  /\ "rollback" \notin Disturbances /\ "expiry" \notin Disturbances
  /\ AcquisitionPolicy # "skip"

\* Who remembers that it acquired the lock is the owner in the row, or has
\* that row in its transaction; who has stopped remembers nothing.
RemembersItsLock(i) ==
  LET p == processor[i]
      t == transaction[i]
  IN  /\ PhaseFits(i)
      /\ consumer[i] \in {"new", "stopped", "crashed"} => ~p.isLockAcquired
      /\ p.isReleasing => p.isLockAcquired
      /\ t.phase = "acquiring" => ~p.isLockAcquired
      /\ t.phase \in {"none", "acquiring", "handled"} => ~t.writesRow
      /\ t.phase = "reading" =>
           /\ t.writesRow
           /\ t.row.owner = i /\ t.row.status = "running" /\ ~t.row.stale
      /\ t.phase = "stored" /\ t.writesRow =>
           /\ t.row.owner = row.owner /\ t.row.status = row.status
           /\ ~t.row.stale
      /\ p.isLockAcquired =>
           \/ row.owner = i /\ ~row.stale
           \/ t.phase = "reading"

\* While a start has the new row in its transaction, nobody else remembers a
\* lock.
NoLockBesideAStart ==
  \A i, j \in Instances :
    transaction[i].phase = "reading" /\ processor[j].isLockAcquired => i = j

\* The projection is held for as long as the row has an owner, also for one
\* that has crashed.
HeldForTheOwner ==
  row.owner # Unknown =>
    row.status = "running" /\ projectionStatus = "async_processing"

HeldInv ==
  /\ HeldForTheOwner
  /\ NoLockBesideAStart
  /\ \A i \in Instances : RemembersItsLock(i)

\* A row that the step of an instance leaves alone, or writes while nobody else
\* has it locked or remembers a lock, keeps what the others remember.
LEMMA OthersRememberTheirLocks ==
  ASSUME TypeOK, HeldInv, NEW j \in Instances,
         processor'[j] = processor[j], transaction'[j] = transaction[j],
         consumer'[j] = consumer[j],
         \/ row' = row
         \/ ~transaction[j].writesRow /\ ~processor[j].isLockAcquired
         \/ /\ ~transaction[j].writesRow
            /\ row'.owner = row.owner /\ row'.status = row.status
            /\ ~row'.stale
  PROVE  RemembersItsLock(j)'
<1>1. RemembersItsLock(j) /\ processor[j] \in Processor
      /\ transaction[j] \in Transaction
  BY DEF HeldInv, TypeOK
<1>2. transaction[j].phase = "reading" => transaction[j].writesRow
  BY <1>1 DEF RemembersItsLock
<1> QED
  BY <1>1, <1>2 DEF RemembersItsLock, PhaseFits

\* What the others need of a step of i is that it takes no lock beside a start
\* that has the new row, nor begins to read while one of them has a lock.
LEMMA OneStepKeepsLocks ==
  ASSUME HeldInv, NEW i \in Instances, RemembersItsLock(i)', HeldForTheOwner',
         \A j \in Instances \ {i} :
           /\ processor'[j] = processor[j] /\ transaction'[j] = transaction[j]
           /\ RemembersItsLock(j)',
         transaction'[i].phase = "reading" =>
           \/ transaction[i].phase = "reading"
           \/ \A j \in Instances \ {i} : ~processor[j].isLockAcquired,
         processor'[i].isLockAcquired =>
           \/ processor[i].isLockAcquired
           \/ \A j \in Instances \ {i} : transaction[j].phase # "reading"
  PROVE  HeldInv'
<1>1. ASSUME NEW j \in Instances, NEW k \in Instances,
             transaction'[j].phase = "reading", processor'[k].isLockAcquired
      PROVE  j = k
  <2>1. CASE j = i /\ k # i
    BY <1>1, <2>1 DEF HeldInv, NoLockBesideAStart
  <2>2. CASE j # i /\ k = i
    BY <1>1, <2>2 DEF HeldInv, NoLockBesideAStart
  <2>3. CASE j # i /\ k # i
    BY <1>1, <2>3 DEF HeldInv, NoLockBesideAStart
  <2> QED
    BY <2>1, <2>2, <2>3
<1>2. \A j \in Instances : RemembersItsLock(j)'
  OBVIOUS
<1> QED
  BY <1>1, <1>2 DEF HeldInv, NoLockBesideAStart

\* Every step keeps the projection held for the owner in the row, and releases
\* it only with the row.
LEMMA HeldInvariant ==
  ASSUME StartsKeepLocks, TypeOK, TypeOK', RowInv, HeldInv, [Next]_vars
  PROVE  HeldInv'
<1>t. /\ row \in Row
      /\ \A i \in Instances : /\ processor[i] \in Processor
                              /\ transaction[i] \in Transaction
  BY DEF TypeOK
<1>o. \A i \in Instances : RemembersItsLock(i) /\ PhaseFits(i)
  BY DEF HeldInv, RemembersItsLock
<1>n. /\ NoTransaction.phase = "none" /\ ~NoTransaction.writesRow
      /\ ~NewProcessor.isLockAcquired /\ ~NewProcessor.isReleasing
  BY DEF NoTransaction, NewProcessor
\* A step that leaves the row alone.
<1>f. ASSUME NEW i \in Instances, RemembersItsLock(i)',
             UNCHANGED <<row, projectionStatus>>,
             \A j \in Instances \ {i} :
               /\ processor'[j] = processor[j]
               /\ transaction'[j] = transaction[j]
               /\ consumer'[j] = consumer[j],
             transaction'[i].phase = "reading" =>
               \/ transaction[i].phase = "reading"
               \/ \A j \in Instances \ {i} : ~processor[j].isLockAcquired,
             processor'[i].isLockAcquired =>
               \/ processor[i].isLockAcquired
               \/ \A j \in Instances \ {i} : transaction[j].phase # "reading"
      PROVE  HeldInv'
  <2>1. \A j \in Instances \ {i} : RemembersItsLock(j)'
    BY <1>f, OthersRememberTheirLocks
  <2>2. HeldForTheOwner'
    BY <1>f DEF HeldInv, HeldForTheOwner
  <2> QED
    BY <1>f, <2>1, <2>2, OneStepKeepsLocks
<1>1. ASSUME NEW i \in Instances, ResumeFromMemory(i) PROVE HeldInv'
  <2>1. consumer[i] \in {"new", "stopped"}
    BY <1>1 DEF ResumeFromMemory, CanStart
  <2>2. /\ transaction[i].phase = "none" /\ ~processor[i].isLockAcquired
        /\ ~processor[i].isReleasing /\ ~transaction[i].writesRow
    BY <1>o, <2>1, PhaseFitsAll DEF RemembersItsLock
  <2>3. /\ processor'[i] = Opened(processor[i]) /\ consumer'[i] = "consuming"
        /\ UNCHANGED <<row, projectionStatus, transaction>>
        /\ \A j \in Instances \ {i} : /\ processor'[j] = processor[j]
                                      /\ consumer'[j] = consumer[j]
    BY <1>1, Updates DEF ResumeFromMemory, database
  <2>4. ~processor'[i].isLockAcquired /\ ~processor'[i].isReleasing
    BY <1>t, <2>2, <2>3 DEF Opened, Processor
  <2>5. RemembersItsLock(i)'
    BY <2>2, <2>3, <2>4 DEF RemembersItsLock, PhaseFits
  <2> QED
    BY <1>f, <2>2, <2>3, <2>4, <2>5
<1>2. ASSUME NEW i \in Instances, BeginStart(i) PROVE HeldInv'
  <2>1. consumer[i] \in {"new", "stopped"}
    BY <1>2 DEF BeginStart, CanStart
  <2>2. /\ transaction[i].phase = "none" /\ ~processor[i].isLockAcquired
        /\ ~processor[i].isReleasing /\ ~transaction[i].writesRow
    BY <1>o, <2>1, PhaseFitsAll DEF RemembersItsLock
  <2>3. /\ processor'[i] = Opened(processor[i]) /\ consumer'[i] = "starting"
        /\ transaction'[i] = [transaction[i] EXCEPT !.phase = "acquiring"]
        /\ UNCHANGED <<row, projectionStatus>>
        /\ \A j \in Instances \ {i} : /\ processor'[j] = processor[j]
                                      /\ transaction'[j] = transaction[j]
                                      /\ consumer'[j] = consumer[j]
    BY <1>2, Updates DEF BeginStart, database
  <2>4. ~processor'[i].isLockAcquired /\ ~processor'[i].isReleasing
    BY <1>t, <2>2, <2>3 DEF Opened, Processor
  <2>5. transaction'[i].phase = "acquiring" /\ ~transaction'[i].writesRow
    BY <1>t, <2>2, <2>3, PhaseIsSet DEF SameHold
  <2>6. RemembersItsLock(i)'
    BY <2>3, <2>4, <2>5 DEF RemembersItsLock, PhaseFits
  <2> QED
    BY <1>f, <2>3, <2>4, <2>5, <2>6
<1>3. ASSUME NEW i \in Instances, AcquireLock(i) PROVE HeldInv'
  <2>0. /\ transaction[i].phase = "acquiring" /\ consumer[i] = "starting"
        /\ ~processor[i].isLockAcquired /\ ~processor[i].isReleasing
    BY <1>3, <1>o DEF AcquireLock, RemembersItsLock, PhaseFits
  <2>1. /\ processor'[i] = [processor[i] EXCEPT !.isLockAcquired = TRUE]
        /\ transaction'[i] = [transaction[i] EXCEPT
             !.phase = "reading", !.holdsKey = TRUE, !.locksRow = TRUE,
             !.writesRow = TRUE, !.row = OwnedBy(i)]
        /\ UNCHANGED <<row, projectionStatus, consumer>>
        /\ CanTakeOver(i) /\ RowIsFree(i)
        /\ \A j \in Instances \ {i} : /\ processor'[j] = processor[j]
                                      /\ transaction'[j] = transaction[j]
    BY <1>3, <2>0, Updates DEF AcquireLock, database
  <2>2. /\ transaction'[i].phase = "reading" /\ transaction'[i].writesRow
        /\ transaction'[i].row = OwnedBy(i) /\ ~processor'[i].isReleasing
    BY <1>t, <2>0, <2>1 DEF Processor, Transaction
  <2>3. /\ OwnedBy(i).owner = i /\ OwnedBy(i).status = "running"
        /\ ~OwnedBy(i).stale
    BY <1>t DEF OwnedBy, Row
  <2>4. RemembersItsLock(i)'
    BY <2>0, <2>1, <2>2, <2>3 DEF RemembersItsLock, PhaseFits
  <2>5. ASSUME NEW j \in Instances \ {i}
        PROVE  /\ transaction[j].phase # "reading"
               /\ ~processor[j].isLockAcquired
    <3>1. ~transaction[j].writesRow
      BY <2>1 DEF RowIsFree, RowInv, AheadOfRow
    <3>2. transaction[j].phase # "reading"
      BY <1>o, <3>1 DEF RemembersItsLock
    <3>3. ~(row.owner = j /\ ~row.stale)
      BY <2>1, ProcessorAssumption
         DEF CanTakeOver, HeldInv, HeldForTheOwner
    <3> QED
      BY <1>o, <3>2, <3>3 DEF RemembersItsLock
  <2> QED
    BY <1>f, <2>1, <2>4, <2>5
<1>4. ASSUME NEW i \in Instances, KeepGoingUnlocked(i) PROVE HeldInv'
  <2>0. PICK t \in AfterFailedAttempt(i) :
          SetTransaction(i, [t EXCEPT
            !.phase = IF AcquisitionPolicy = "skip" THEN "reading" ELSE @])
    BY <1>4 DEF KeepGoingUnlocked
  <2>1. /\ t \in Transaction /\ t.phase = "acquiring"
        /\ t.writesRow = transaction[i].writesRow
        /\ transaction[i].phase = "acquiring"
    <3>1. transaction[i].phase = "acquiring"
      BY DEF AfterFailedAttempt
    <3>2. CASE t = transaction[i]
      BY <3>1, <3>2, <1>t
    <3>3. CASE t = [transaction[i] EXCEPT !.holdsKey = TRUE, !.locksRow = TRUE]
      BY <3>1, <3>3, <1>t DEF Transaction
    <3> QED
      BY <3>2, <3>3 DEF AfterFailedAttempt
  <2>2. /\ transaction'[i].phase = "acquiring"
        /\ transaction'[i].writesRow = transaction[i].writesRow
    <3>1. transaction'[i] =
            [t EXCEPT !.phase = IF AcquisitionPolicy = "skip" THEN "reading"
                                ELSE @]
      BY <2>0, Updates
    <3> QED
      BY <2>1, <3>1 DEF StartsKeepLocks, Transaction
  <2>3. UNCHANGED <<row, projectionStatus, processor, consumer>>
    BY <1>4 DEF KeepGoingUnlocked, database
  <2>4. RemembersItsLock(i)'
    BY <2>1, <2>2, <2>3, <1>o DEF RemembersItsLock, PhaseFits
  <2> QED
    BY <2>0, <1>f, <2>2, <2>3, <2>4, Updates
<1>5. ASSUME NEW i \in Instances, RefuseStart(i) PROVE HeldInv'
  <2>1. transaction[i].phase = "acquiring"
    BY <1>5, <1>o DEF RefuseStart, AfterFailedAttempt
  <2>2. ~processor[i].isLockAcquired /\ ~processor[i].isReleasing
    BY <1>o, <2>1 DEF RemembersItsLock
  <2>3. /\ transaction'[i] = NoTransaction /\ consumer'[i] = "stopping"
        /\ UNCHANGED <<row, projectionStatus, processor>>
        /\ \A j \in Instances \ {i} : /\ transaction'[j] = transaction[j]
                                      /\ consumer'[j] = consumer[j]
    BY <1>5, Updates DEF RefuseStart, database
  <2>4. RemembersItsLock(i)'
    BY <1>n, <2>2, <2>3 DEF RemembersItsLock, PhaseFits
  <2> QED
    BY <1>f, <1>n, <2>2, <2>3, <2>4
<1>6. ASSUME NEW i \in Instances, CompleteStart(i) PROVE HeldInv'
  <2>0. /\ transaction[i].phase = "reading" /\ consumer[i] = "starting"
        /\ transaction[i].writesRow /\ transaction[i].locksRow
        /\ row' = transaction[i].row
        /\ projectionStatus' = "async_processing"
    BY <1>6, <1>o DEF CompleteStart, RemembersItsLock, PhaseFits, CommittedRow,
                      StatusWhenAcquired, RowInv, AheadOfRow
  <2>1. /\ transaction'[i] = NoTransaction /\ consumer'[i] = "consuming"
        /\ processor'[i].isReleasing = processor[i].isReleasing
        /\ processor'[i].isLockAcquired = processor[i].isLockAcquired
    <3>1. /\ processor'[i] = WithCheckpoint(processor[i], row.checkpoint)
          /\ transaction'[i] = NoTransaction /\ consumer'[i] = "consuming"
      BY <1>6, Updates DEF CompleteStart
    <3> QED
      BY <3>1, <1>t DEF WithCheckpoint, Processor
  <2>2. row'.owner = i /\ row'.status = "running" /\ ~row'.stale
    BY <2>0, <1>o DEF RemembersItsLock
  <2>3. RemembersItsLock(i)' /\ HeldForTheOwner'
    BY <1>n, <1>o, <2>0, <2>1, <2>2
       DEF RemembersItsLock, PhaseFits, HeldForTheOwner
  <2>4. \A j \in Instances \ {i} :
          ~transaction[j].writesRow /\ ~processor[j].isLockAcquired
    BY <2>0 DEF HeldInv, NoLockBesideAStart, RowInv, RowIsLockedByOne,
                AheadOfRow
  <2>5. \A j \in Instances \ {i} : /\ processor'[j] = processor[j]
                                   /\ transaction'[j] = transaction[j]
                                   /\ consumer'[j] = consumer[j]
    BY <1>6, Updates DEF CompleteStart
  <2>6. \A j \in Instances \ {i} : RemembersItsLock(j)'
    BY <2>4, <2>5, OthersRememberTheirLocks
  <2> QED
    BY <1>n, <2>1, <2>3, <2>5, <2>6, OneStepKeepsLocks
<1>8. ASSUME NEW i \in Instances, HandleBatch(i) PROVE HeldInv'
  <2>0. PICK upTo, isStop :
          SetTransaction(i, [transaction[i] EXCEPT
            !.phase = "handled", !.isStop = isStop,
            !.batch = Unhandled(i, upTo)])
    BY ONLY <1>8, ZenonT(30) DEF HandleBatch
  <2>1. /\ transaction'[i].phase = "handled"
        /\ transaction'[i].writesRow = transaction[i].writesRow
    <3>1. transaction'[i] = [transaction[i] EXCEPT !.phase = "handled",
                    !.isStop = isStop, !.batch = Unhandled(i, upTo)]
      BY <2>0, Updates
    <3> QED
      BY <3>1, <1>t, BatchIsSet DEF SameHold
  <2>2. /\ UNCHANGED <<row, projectionStatus, processor, consumer>>
        /\ consumer[i] = "consuming" /\ transaction[i].phase = "none"
    BY <1>8 DEF HandleBatch, InTransaction, database
  <2>3. RemembersItsLock(i)'
    BY <2>1, <2>2, <1>o DEF RemembersItsLock, PhaseFits
  <2> QED
    BY <2>0, <1>f, <2>1, <2>2, <2>3, Updates
<1>9. ASSUME NEW i \in Instances, StoreCheckpoint(i) PROVE HeldInv'
  <2>0. PICK m :
          /\ SetTransaction(i, [transaction[i] EXCEPT
               !.phase = "stored", !.locksRow = TRUE, !.writesRow = TRUE,
               !.row = [row EXCEPT !.checkpoint = m, !.stale = FALSE]])
          /\ SetProcessor(i, [processor[i] EXCEPT
               !.lastCheckpoint = m, !.lastStoredCheckpoint = m])
    BY ONLY <1>9, ZenonT(30) DEF StoreCheckpoint
  <2> DEFINE r == [row EXCEPT !.checkpoint = m, !.stale = FALSE]
  <2>a. r.owner = row.owner /\ r.status = row.status /\ ~r.stale
    BY <1>t DEF Row
  <2>b. transaction'[i] = [transaction[i] EXCEPT
          !.phase = "stored", !.locksRow = TRUE, !.writesRow = TRUE, !.row = r]
    BY <2>0, Updates
  <2>c. processor'[i] = [processor[i] EXCEPT
          !.lastCheckpoint = m, !.lastStoredCheckpoint = m]
    BY <2>0, Updates
  <2> HIDE DEF r
  <2>1. transaction'[i].phase = "stored" /\ transaction'[i].row = r
    <3>1. transaction[i] \in Transaction
      BY <1>t
    <3> QED
      BY ONLY <2>b, <3>1 DEF Transaction
  <2>2. /\ processor'[i].isReleasing = processor[i].isReleasing
        /\ processor'[i].isLockAcquired = processor[i].isLockAcquired
    <3>1. processor[i] \in Processor
      BY <1>t
    <3> QED
      BY ONLY <2>c, <3>1 DEF Processor
  <2>3. /\ UNCHANGED <<row, projectionStatus, consumer>>
        /\ transaction[i].phase = "handled"
    BY <1>9 DEF StoreCheckpoint, database
  <2>4. RemembersItsLock(i)'
    BY <1>o, <2>a, <2>1, <2>2, <2>3 DEF RemembersItsLock, PhaseFits
  <2> QED
    BY <2>0, <1>f, <2>1, <2>2, <2>3, <2>4, Updates
<1>10. ASSUME NEW i \in Instances, LeaveCheckpoint(i) PROVE HeldInv'
  <2>1. /\ transaction'[i].phase = "stored"
        /\ transaction'[i].writesRow = transaction[i].writesRow
    <3>1. transaction'[i] = [transaction[i] EXCEPT !.phase = "stored"]
      BY <1>10, Updates DEF LeaveCheckpoint
    <3> QED
      BY <3>1, <1>t, PhaseIsSet DEF SameHold
  <2>2. /\ UNCHANGED <<row, projectionStatus, processor, consumer>>
        /\ transaction[i].phase = "handled"
    BY <1>10 DEF LeaveCheckpoint, database
  <2>3. RemembersItsLock(i)'
    BY <2>1, <2>2, <1>o DEF RemembersItsLock, PhaseFits
  <2> QED
    BY <1>10, <1>f, <2>1, <2>2, <2>3, Updates DEF LeaveCheckpoint
<1>11. ASSUME NEW i \in Instances, CommitBatch(i) PROVE HeldInv'
  <2>0. /\ transaction[i].phase = "stored" /\ consumer[i] = "consuming"
        /\ transaction'[i] = NoTransaction
        /\ consumer'[i] \in {"consuming", "stopping"}
        /\ processor'[i] = processor[i]
             \/ processor'[i] = [processor[i] EXCEPT !.isActive = FALSE]
        /\ projectionStatus' = projectionStatus
        /\ \A j \in Instances \ {i} :
             /\ processor'[j] = processor[j]
             /\ transaction'[j] = transaction[j]
             /\ consumer'[j] = consumer[j]
    <3>1. transaction[i].phase = "stored" /\ consumer[i] = "consuming"
      BY <1>11, <1>o DEF CommitBatch, PhaseFits
    <3>2. CASE transaction[i].isStop
      BY <1>11, <3>1, <3>2, Updates DEF CommitBatch
    <3>3. CASE ~transaction[i].isStop
      BY <1>11, <3>1, <3>3, Updates DEF CommitBatch
    <3> QED
      BY <3>2, <3>3
  <2>1. /\ processor'[i].isReleasing = processor[i].isReleasing
        /\ processor'[i].isLockAcquired = processor[i].isLockAcquired
    BY <2>0, <1>t DEF Processor
  <2>2. \/ row' = row
        \/ /\ transaction[i].writesRow /\ transaction[i].locksRow
           /\ row'.owner = row.owner /\ row'.status = row.status
           /\ ~row'.stale
    BY <1>11, <2>0, <1>o DEF CommitBatch, CommittedRow, RemembersItsLock, RowInv,
                             AheadOfRow
  <2>3. RemembersItsLock(i)'
    BY <1>n, <2>0, <2>1, <2>2, <1>o DEF RemembersItsLock, PhaseFits
  <2>4. \A j \in Instances \ {i} : row' = row \/ ~transaction[j].writesRow
    BY <2>2 DEF RowInv, RowIsLockedByOne, AheadOfRow
  <2>5. \A j \in Instances \ {i} : RemembersItsLock(j)'
    BY <2>0, <2>2, <2>4, OthersRememberTheirLocks
  <2>6. HeldForTheOwner'
    BY <2>0, <2>2 DEF HeldInv, HeldForTheOwner
  <2> QED
    BY <1>n, <2>0, <2>1, <2>3, <2>5, <2>6, OneStepKeepsLocks
<1>13. ASSUME NEW i \in Instances, StopConsumer(i) PROVE HeldInv'
  <2>1. RemembersItsLock(i)'
    BY <1>13, <1>o, Updates
       DEF StopConsumer, InTransaction, database, RemembersItsLock, PhaseFits
  <2> QED
    BY <1>13, <1>f, <2>1, Updates DEF StopConsumer, database
\* A close begins the release of a lock that is remembered.
<1>a. ASSUME NEW i \in Instances, CloseFields(i)
      PROVE  /\ processor'[i].isLockAcquired = processor[i].isLockAcquired
             /\ processor'[i].isReleasing = processor[i].isLockAcquired
             /\ \A j \in Instances \ {i} : processor'[j] = processor[j]
  <2>1. /\ processor'[i] = [processor[i] EXCEPT
              !.isActive = FALSE, !.isClosed = TRUE,
              !.isReleasing = processor[i].isLockAcquired]
        /\ \A j \in Instances \ {i} : processor'[j] = processor[j]
    BY <1>a, Updates DEF CloseFields
  <2> QED
    BY <2>1, <1>t DEF Processor
<1>14. ASSUME NEW i \in Instances, CloseProcessor(i) PROVE HeldInv'
  <2>1. /\ CloseFields(i) /\ consumer[i] = "stopping"
        /\ UNCHANGED <<row, projectionStatus, transaction>>
    BY <1>14 DEF CloseProcessor, database
  <2>2. transaction[i].phase = "none"
    BY <1>o, <2>1, PhaseFitsAll
  <2>3. /\ consumer'[i] =
             IF processor[i].isLockAcquired THEN "closing" ELSE "stopped"
        /\ \A j \in Instances \ {i} : consumer'[j] = consumer[j]
    BY <1>14, Updates DEF CloseProcessor
  <2>4. RemembersItsLock(i)'
    BY <1>a, <1>o, <2>1, <2>2, <2>3 DEF RemembersItsLock, PhaseFits
  <2> QED
    BY <1>a, <1>f, <2>1, <2>3, <2>4
<1>15. ASSUME NEW i \in Instances, ShutDownProcessor(i) PROVE HeldInv'
  <2>1. /\ CloseFields(i)
        /\ UNCHANGED <<row, projectionStatus, consumer, transaction>>
    BY <1>15 DEF ShutDownProcessor, database
  <2>2. RemembersItsLock(i)'
    BY <1>a, <1>o, <2>1 DEF RemembersItsLock, PhaseFits
  <2> QED
    BY <1>a, <1>f, <2>1, <2>2
<1>16. ASSUME NEW i \in Instances, ReleaseLock(i) PROVE HeldInv'
  <2>0. /\ processor[i].isReleasing /\ AfterRelease(i)
        /\ transaction' = transaction
        /\ \A j \in Instances : ~transaction[j].writesRow
    BY <1>16 DEF ReleaseLock, RowIsFree, RowInv, AheadOfRow
  <2>1. \A j \in Instances : transaction[j].phase # "reading"
    BY <1>o, <2>0 DEF RemembersItsLock
  <2>2. /\ processor[i].isLockAcquired /\ row.owner = i
        /\ consumer[i] \notin {"new", "stopped", "crashed"}
        /\ transaction[i].phase # "acquiring"
    BY <1>o, <2>0, <2>1 DEF RemembersItsLock
  <2>3. /\ processor'[i] = [processor[i] EXCEPT
              !.isLockAcquired = FALSE, !.isReleasing = FALSE]
        /\ consumer'[i] = IF consumer[i] = "closing" THEN "stopped"
                          ELSE consumer[i]
        /\ \A j \in Instances \ {i} : /\ processor'[j] = processor[j]
                                      /\ consumer'[j] = consumer[j]
    BY <2>0, Updates DEF AfterRelease
  <2>4. ~processor'[i].isLockAcquired /\ ~processor'[i].isReleasing
    BY <1>t, <2>3 DEF Processor
  <2>5. consumer[i] = "closing" => transaction[i].phase = "none"
    BY <1>o, PhaseFitsAll
  <2>6. RemembersItsLock(i)'
    BY <1>o, <2>0, <2>1, <2>3, <2>4, <2>5 DEF RemembersItsLock, PhaseFits
  <2>7. \A j \in Instances \ {i} : ~processor[j].isLockAcquired
    BY <1>o, <2>1, <2>2 DEF RemembersItsLock
  <2>8. \A j \in Instances \ {i} : RemembersItsLock(j)'
    BY <2>0, <2>3, <2>7, OthersRememberTheirLocks
  <2>9. HeldForTheOwner'
    <3>1. row'.owner = Unknown
      BY <1>16, <1>t, <2>2 DEF ReleaseLock, Row
    <3> QED
      BY <3>1 DEF HeldForTheOwner
  <2> QED
    BY <2>0, <2>1, <2>3, <2>4, <2>6, <2>8, <2>9, OneStepKeepsLocks
<1>17. ASSUME NEW i \in Instances,
              FailStart(i) \/ RollbackBatch(i) \/ FailToRelease(i)
       PROVE  HeldInv'
  BY <1>17 DEF FailStart, RollbackBatch, FailToRelease, StartsKeepLocks
<1>18. ASSUME NEW i \in Instances, Crash(i) PROVE HeldInv'
  <2>1. /\ processor'[i] = NewProcessor /\ transaction'[i] = NoTransaction
        /\ consumer'[i] = "crashed"
        /\ UNCHANGED <<row, projectionStatus>>
        /\ \A j \in Instances \ {i} : /\ processor'[j] = processor[j]
                                      /\ transaction'[j] = transaction[j]
                                      /\ consumer'[j] = consumer[j]
    BY <1>18, Updates DEF Crash, database
  <2>2. RemembersItsLock(i)'
    BY <1>n, <2>1 DEF RemembersItsLock, PhaseFits
  <2> QED
    BY <1>f, <1>n, <2>1, <2>2
<1>19. CASE ExpireLock
  <2>1. /\ ~OwnerIsAtWork
        /\ UNCHANGED <<projectionStatus, consumer, processor, transaction>>
        /\ row'.owner = row.owner /\ row'.status = row.status
    BY <1>19, <1>t DEF ExpireLock, StartsKeepLocks, Row
  <2>2. \A i \in Instances : row.owner = i => ~processor[i].isLockAcquired
    BY <1>o, <2>1 DEF RemembersItsLock, OwnerIsAtWork
  <2>3. \A i \in Instances : RemembersItsLock(i)'
    BY <1>o, <2>1, <2>2 DEF RemembersItsLock, PhaseFits
  <2> QED
    BY <2>1, <2>3 DEF HeldInv, HeldForTheOwner, NoLockBesideAStart
<1>20. CASE UNCHANGED <<row, projectionStatus, consumer, processor, transaction>>
  BY <1>20, <1>o DEF HeldInv, HeldForTheOwner, NoLockBesideAStart,
                     RemembersItsLock, PhaseFits
<1> QED
  BY <1>1, <1>2, <1>3, <1>4, <1>5, <1>6, <1>8, <1>9, <1>10, <1>11, <1>13,
     <1>14, <1>15, <1>16, <1>17, <1>18, <1>19, <1>20
     DEF Next, Proceed, Disturb, Publish, Await, vars, database

\* While an owner works, inline projections of the same name are held off, with
\* any number of instances that start, try again, stop, start again, are shut
\* down and crash: a release by one that is not the owner, which would let them
\* go on, needs a start that failed after it got the lock, or a lost lock.
THEOREM ProjectionStaysHeld ==
  ASSUME StartsKeepLocks
  PROVE  Spec => []ProjectionIsHeldWhileProcessing
<1>1. Init => RowInv
  BY DEF Init, RowInv, RowIsLockedByOne, AheadOfRow, NewProcessor, NoTransaction
<1>2. Init => HeldInv
  <2>1. /\ NoTransaction.phase = "none" /\ ~NoTransaction.writesRow
        /\ ~NewProcessor.isLockAcquired /\ ~NewProcessor.isReleasing
        /\ NoRow.owner = Unknown
    BY DEF NoTransaction, NewProcessor, NoRow
  <2> QED
    BY <2>1 DEF Init, HeldInv, HeldForTheOwner, NoLockBesideAStart,
                RemembersItsLock, PhaseFits
<1>3. TypeOK /\ TypeOK' /\ RowInv /\ HeldInv /\ [Next]_vars => HeldInv'
  BY HeldInvariant
<1>4. HeldInv => ProjectionIsHeldWhileProcessing
  BY ProcessorAssumption
     DEF HeldInv, HeldForTheOwner, ProjectionIsHeldWhileProcessing
<1> QED
  BY <1>1, <1>2, <1>3, <1>4, TypeInvariant, RowInvariant, PTL DEF Spec

=============================================================================
