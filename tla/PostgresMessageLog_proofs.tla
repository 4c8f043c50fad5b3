---------------------- MODULE PostgresMessageLog_proofs ----------------------
(* Proofs about PostgresMessageLog, for any clients, streams and readers,    *)
(* any batch and append sizes and any bound on transactions.                 *)
EXTENDS PostgresMessageLog, TLAPS

-----------------------------------------------------------------------------
(* Types *)

\* Every step keeps every variable in its type: positions and ids stay
\* numbers, an open append keeps the fields that the function works with.
LEMMA TypeInvariant == Spec => []TypeOK
<1> USE LogAssumption DEF AppendInFlight, Idle, Message, Checkpoint,
                          DefaultCheckpoint, Open, log, reading, vars, toExpectedVersion
<1>1. Init => TypeOK
  BY DEF Init, TypeOK
<1>2. TypeOK /\ [Next]_vars => TypeOK'
  <2> SUFFICES ASSUME TypeOK, [Next]_vars PROVE TypeOK'
    OBVIOUS
  <2> USE DEF TypeOK
  <2>1. ASSUME NEW c \in Clients, NEW s \in Streams,
               NEW size \in 1..MaxAppendSize, NEW e \in ExpectedVersions,
               BeginAppend(c, s, size, e)
        PROVE  TypeOK'
    BY <2>1 DEF BeginAppend
  <2>2. ASSUME NEW c \in Clients, ReadStreamPosition(c) PROVE TypeOK'
    <3> DEFINE t == transaction[c]
               next == [t EXCEPT !.phase = "positioned",
                                 !.position = streamPosition[t.streamId]]
    <3>1. t \in AppendInFlight
      BY <2>2 DEF ReadStreamPosition
    <3>2. next \in AppendInFlight
      BY <3>1
    <3>3. transaction' = [transaction EXCEPT ![c] = next]
      BY <2>2 DEF ReadStreamPosition
    <3> QED
      BY <2>2, <3>2, <3>3 DEF ReadStreamPosition
  <2>3. ASSUME NEW c \in Clients, WriteStreamRow(c) PROVE TypeOK'
    BY <2>3 DEF WriteStreamRow
  <2>4. ASSUME NEW c \in Clients, ConflictOnStreamRow(c) PROVE TypeOK'
    BY <2>4 DEF ConflictOnStreamRow
  <2>5. ASSUME NEW c \in Clients, InsertMessage(c) PROVE TypeOK'
    <3> DEFINE t == transaction[c]
               row == [streamId |-> t.streamId, position |-> t.position + 1,
                       transactionId |-> t.id,
                       globalPosition |-> nextGlobalPosition]
               next == [t EXCEPT !.position = t.position + 1,
                                 !.left = t.left - 1,
                                 !.inserted = t.inserted \cup {row}]
    <3>0. t.phase = "written" /\ t.left > 0
      BY <2>5 DEF InsertMessage
    <3>1. t \in AppendInFlight /\ t.left > 0
      BY <3>0
    <3>2. row \in Message
      BY <3>1
    <3>3. /\ t.position + 1 \in Nat
          /\ t.left - 1 \in Nat
          /\ t.inserted \cup {row} \in SUBSET Message
      BY <3>1, <3>2
    <3> HIDE DEF row
    <3>5. next \in AppendInFlight
      BY <3>1, <3>3
    <3>4. transaction' = [transaction EXCEPT ![c] = next]
      BY <2>5 DEF InsertMessage, row
    <3>6. /\ nextGlobalPosition' \in Nat
          /\ UNCHANGED <<nextTransactionId, streamPosition, messages, reading>>
      BY <2>5 DEF InsertMessage
    <3> HIDE DEF next, t
    <3> QED
      BY <3>4, <3>5, <3>6
  <2>6. ASSUME NEW c \in Clients, CommitAppend(c) PROVE TypeOK'
    <3> DEFINE t == transaction[c]
    <3>1. t.phase = "written"
      BY <2>6 DEF CommitAppend
    <3>2. t \in AppendInFlight
      BY <3>1
    <3>3. /\ messages' \subseteq Message
          /\ streamPosition' \in [Streams -> Nat]
          /\ transaction' \in [Clients -> AppendInFlight \cup {Idle}]
      BY <2>6, <3>2 DEF CommitAppend
    <3> QED
      BY <2>6, <3>3 DEF CommitAppend
  <2>7. ASSUME NEW c \in Clients, RollbackAppend(c) PROVE TypeOK'
    BY <2>7 DEF RollbackAppend
  <2>8. ASSUME NEW r \in Readers, NEW from \in StartPositions,
               StartReading(r, from)
        PROVE  TypeOK'
    BY <2>8 DEF StartReading, StartsAfter, LastMessages, CheckpointOf
  <2>9. ASSUME NEW r \in Readers, PollBatch(r) PROVE TypeOK'
    BY <2>9 DEF PollBatch, Unread, Visible, CheckpointOf
  <2>10. CASE UNCHANGED vars
    BY <2>10
  <2> QED
    BY <2>1, <2>2, <2>3, <2>4, <2>5, <2>6, <2>7, <2>8, <2>9, <2>10
       DEF Next, Proceed
<1> QED
  BY <1>1, <1>2, PTL DEF Spec

-----------------------------------------------------------------------------
(* No message is skipped *)

\* Open transactions have ids below the next one, and their rows carry them.
TransactionIds ==
  /\ nextTransactionId >= 1
  /\ \A c \in Clients : Open(c) =>
       /\ transaction[c].id >= 1
       /\ transaction[c].id < nextTransactionId
       /\ \A m \in transaction[c].inserted :
            m.transactionId = transaction[c].id
  /\ \A m \in messages : m.transactionId >= 1

\* What makes the bound on xmin work: a reader that did not start from END has
\* not gone past any id that is open or still to come, so whatever commits
\* later is ordered after its checkpoint.
ReadersBehindXmin ==
  \A r \in Readers : readFrom[r] # "END" =>
    /\ after[r].transactionId < nextTransactionId
    /\ \A c \in Clients :
         Open(c) => after[r].transactionId < transaction[c].id

ReadInv == TypeOK /\ TransactionIds /\ ReadersBehindXmin /\ NoMessageSkipped

\* The rows that an open append has inserted are messages.
LEMMA InsertedAreMessages ==
  ASSUME TypeOK, NEW c \in Clients, Open(c)
  PROVE  /\ transaction[c] \in AppendInFlight
         /\ transaction[c].inserted \subseteq Message
BY DEF TypeOK, Open, AppendInFlight, Idle

\* A step that leaves the readers and the committed messages alone and opens
\* no transaction with an id that is not new.
LEMMA ReadersUndisturbed ==
  ASSUME ReadInv, TypeOK', UNCHANGED <<messages, reading>>,
         nextTransactionId' >= nextTransactionId,
         \A c \in Clients :
           Open(c)' => \/ Open(c) /\ transaction'[c].id = transaction[c].id
                      \/ transaction'[c].id = nextTransactionId
  PROVE  ReadersBehindXmin' /\ NoMessageSkipped'
<1>1. NoMessageSkipped'
  BY DEF ReadInv, NoMessageSkipped, Before, reading
<1>2. ReadersBehindXmin'
  BY DEF ReadInv, ReadersBehindXmin, reading, TypeOK, Checkpoint
<1> QED
  BY <1>1, <1>2

\* Appends, commits, rollbacks and polls keep readers behind xmin, and so keep
\* them from passing over a message.
LEMMA ReadInvariant == Spec => []ReadInv
<1>1. Init => ReadInv
  BY LogAssumption DEF Init, ReadInv, TypeOK, TransactionIds,
     ReadersBehindXmin, NoMessageSkipped, DefaultCheckpoint, Checkpoint, Idle,
     Open
<1>2. TypeOK' /\ ReadInv /\ [Next]_vars => ReadInv'
  <2> SUFFICES ASSUME TypeOK', ReadInv, [Next]_vars PROVE ReadInv'
    OBVIOUS
  <2>0. TypeOK
    BY DEF ReadInv
  <2>1. ASSUME NEW c \in Clients, NEW s \in Streams,
               NEW size \in 1..MaxAppendSize, NEW e \in ExpectedVersions,
               BeginAppend(c, s, size, e)
        PROVE  ReadInv'
    <3>0. /\ transaction'[c].id = nextTransactionId
          /\ transaction'[c].inserted = {}
          /\ \A d \in Clients \ {c} : transaction'[d] = transaction[d]
          /\ nextTransactionId' = nextTransactionId + 1
          /\ messages' = messages
      BY <2>0, <2>1 DEF BeginAppend, TypeOK
    <3>1. TransactionIds'
      BY <2>0, <3>0, InsertedAreMessages
         DEF ReadInv, TypeOK, TransactionIds, Open, AppendInFlight
    <3>2. ReadersBehindXmin' /\ NoMessageSkipped'
      BY <2>0, <2>1, ReadersUndisturbed DEF BeginAppend, TypeOK, Open, reading
    <3> QED
      BY <3>1, <3>2 DEF ReadInv
  <2>2. ASSUME NEW c \in Clients, ReadStreamPosition(c) PROVE ReadInv'
    <3>1. TransactionIds'
      BY <2>0, <2>2, InsertedAreMessages
         DEF ReadStreamPosition, ReadInv, TypeOK, TransactionIds, Open,
             AppendInFlight
    <3>2. ReadersBehindXmin' /\ NoMessageSkipped'
      BY <2>0, <2>2, ReadersUndisturbed, InsertedAreMessages
         DEF ReadStreamPosition, TypeOK, Open, reading, AppendInFlight
    <3> QED
      BY <3>1, <3>2 DEF ReadInv
  <2>3. ASSUME NEW c \in Clients, WriteStreamRow(c) PROVE ReadInv'
    <3>1. TransactionIds'
      BY <2>0, <2>3, InsertedAreMessages
         DEF WriteStreamRow, ReadInv, TypeOK, TransactionIds, Open,
             AppendInFlight
    <3>2. ReadersBehindXmin' /\ NoMessageSkipped'
      BY <2>0, <2>3, ReadersUndisturbed, InsertedAreMessages
         DEF WriteStreamRow, TypeOK, Open, reading, AppendInFlight
    <3> QED
      BY <3>1, <3>2 DEF ReadInv
  <2>4. ASSUME NEW c \in Clients,
               ConflictOnStreamRow(c) \/ RollbackAppend(c)
        PROVE  ReadInv'
    <3>1. TransactionIds'
      BY <2>0, <2>4
         DEF ConflictOnStreamRow, RollbackAppend, ReadInv, TypeOK,
             TransactionIds, Open, Idle
    <3>2. ReadersBehindXmin' /\ NoMessageSkipped'
      BY <2>0, <2>4, ReadersUndisturbed
         DEF ConflictOnStreamRow, RollbackAppend, TypeOK, Open, Idle, reading
    <3> QED
      BY <3>1, <3>2 DEF ReadInv
  <2>5. ASSUME NEW c \in Clients, InsertMessage(c) PROVE ReadInv'
    <3>0. Open(c)
      BY <2>5 DEF InsertMessage, Open
    <3> DEFINE t == transaction[c]
               row == [streamId |-> t.streamId, position |-> t.position + 1,
                       transactionId |-> t.id,
                       globalPosition |-> nextGlobalPosition]
    <3>a. /\ transaction'[c].id = t.id
          /\ transaction'[c].inserted = t.inserted \cup {row}
          /\ \A d \in Clients \ {c} : transaction'[d] = transaction[d]
          /\ nextTransactionId' = nextTransactionId
          /\ messages' = messages
      BY <2>0, <2>5, <3>0, InsertedAreMessages
         DEF InsertMessage, TypeOK, AppendInFlight
    <3>b. row.transactionId = t.id
      OBVIOUS
    <3> HIDE DEF row
    <3>1. TransactionIds'
      BY <2>0, <3>0, <3>a, <3>b DEF ReadInv, TransactionIds, Open
    <3>2. ReadersBehindXmin' /\ NoMessageSkipped'
      BY <2>0, <2>5, <3>0, ReadersUndisturbed, InsertedAreMessages
         DEF InsertMessage, TypeOK, Open, reading, AppendInFlight
    <3> QED
      BY <3>1, <3>2 DEF ReadInv
  <2>6. ASSUME NEW c \in Clients, CommitAppend(c) PROVE ReadInv'
    <3>0. Open(c)
      BY <2>6 DEF CommitAppend, Open
    <3>1. TransactionIds'
      BY <2>0, <2>6, <3>0, InsertedAreMessages
         DEF CommitAppend, ReadInv, TypeOK, TransactionIds, Open, Idle, Message
    <3>2. ReadersBehindXmin'
      BY <2>0, <2>6
         DEF CommitAppend, ReadInv, ReadersBehindXmin, TypeOK, Open, Idle,
             reading
    <3>3. ASSUME NEW r \in Readers, readFrom[r] = "BEGINNING",
                 NEW m \in transaction[c].inserted
          PROVE  Before(after[r], m)
      BY <3>0, <3>3
         DEF ReadInv, ReadersBehindXmin, TransactionIds, Before
    <3>4. NoMessageSkipped'
      BY <2>6, <3>3 DEF CommitAppend, ReadInv, NoMessageSkipped, Before, reading
    <3> QED
      BY <3>1, <3>2, <3>4 DEF ReadInv
  <2>7. ASSUME NEW r \in Readers, NEW from \in StartPositions,
               StartReading(r, from)
        PROVE  ReadInv'
    <3>1. TransactionIds'
      BY <2>0, <2>7 DEF StartReading, ReadInv, TransactionIds, log, Open
    <3>2. from # "END" => after'[r] = DefaultCheckpoint
      BY <2>0, <2>7 DEF StartReading, StartsAfter, TypeOK
    <3>3. ReadersBehindXmin'
      <4>1. /\ readFrom'[r] = from
            /\ \A q \in Readers \ {r} : /\ readFrom'[q] = readFrom[q]
                                       /\ after'[q] = after[q]
            /\ UNCHANGED log
        BY <2>0, <2>7 DEF StartReading, TypeOK
      <4>2. DefaultCheckpoint.transactionId = 0
        BY DEF DefaultCheckpoint
      <4> QED
        BY <2>0, <3>2, <4>1, <4>2, InsertedAreMessages
           DEF ReadInv, ReadersBehindXmin, TransactionIds, TypeOK, log, Open,
               AppendInFlight
    <3>4. \A m \in messages : Before(DefaultCheckpoint, m)
      BY <2>0
         DEF ReadInv, TransactionIds, Before, DefaultCheckpoint, TypeOK, Message
    <3>5. NoMessageSkipped'
      BY <2>0, <2>7, <3>2, <3>4
         DEF StartReading, ReadInv, NoMessageSkipped, TypeOK, log
    <3> QED
      BY <3>1, <3>3, <3>5 DEF ReadInv
  <2>8. ASSUME NEW r \in Readers, PollBatch(r) PROVE ReadInv'
    <3>1. TransactionIds'
      BY <2>0, <2>8 DEF PollBatch, ReadInv, TransactionIds, log, Open
    <3>2. PICK last \in Unread(r) :
            /\ delivered' = [delivered EXCEPT ![r] =
                 @ \cup {m \in Unread(r) : ~Before(last, m)}]
            /\ after' = [after EXCEPT ![r] = CheckpointOf(last)]
      BY <2>8 DEF PollBatch
    <3>3. last \in messages /\ BelowXmin(last)
      BY DEF Unread, Visible
    <3>4. ReadersBehindXmin'
      BY <2>0, <2>8, <3>2, <3>3
         DEF PollBatch, ReadInv, ReadersBehindXmin, BelowXmin, CheckpointOf,
             TypeOK, log, Open
    <3>5. ASSUME NEW m \in messages, ~Before(CheckpointOf(last), m),
                 readFrom[r] = "BEGINNING"
          PROVE  m \in delivered'[r]
      <4>1. ~Before(last, m)
        BY <3>5 DEF Before, CheckpointOf
      <4>2. CASE ~Before(after[r], m)
        BY <2>0, <3>2, <3>5, <4>2 DEF ReadInv, NoMessageSkipped, TypeOK
      <4>3. CASE Before(after[r], m)
        <5>1. m.transactionId <= last.transactionId
          BY <2>0, <3>3, <4>1 DEF Before, TypeOK, Message
        <5>2. BelowXmin(m)
          BY <2>0, <3>3, <5>1, InsertedAreMessages
             DEF BelowXmin, TypeOK, Message, AppendInFlight
        <5> QED
          BY <2>0, <3>2, <4>1, <4>3, <5>2 DEF Unread, Visible, TypeOK
      <4> QED
        BY <4>2, <4>3
    <3>6. NoMessageSkipped'
      BY <2>0, <2>8, <3>2, <3>5
         DEF PollBatch, ReadInv, NoMessageSkipped, TypeOK, log
    <3> QED
      BY <3>1, <3>4, <3>6 DEF ReadInv
  <2>9. CASE UNCHANGED vars
    BY <2>9 DEF vars, log, reading, ReadInv, TransactionIds, ReadersBehindXmin,
                NoMessageSkipped, Open
  <2> QED
    BY <2>1, <2>2, <2>3, <2>4, <2>5, <2>6, <2>7, <2>8, <2>9 DEF Next, Proceed
<1> QED
  BY <1>1, <1>2, TypeInvariant, PTL DEF Spec

\* A reader from the beginning is given every committed message up to its
\* checkpoint, whatever the order in which transactions commit.
THEOREM NoMessageIsSkipped == Spec => []NoMessageSkipped
  BY ReadInvariant, PTL DEF ReadInv

-----------------------------------------------------------------------------
(* The order of delivery *)

\* A reader was given committed messages, none of them past its checkpoint.
DeliveredUpToCheckpoint ==
  \A r \in Readers :
    /\ readFrom[r] = "NOWHERE" => delivered[r] = {}
    /\ delivered[r] \subseteq messages
    /\ \A m \in delivered[r] : ~Before(after[r], m)

\* No poll delivers a message above the checkpoint that it leaves behind.
LEMMA DeliveredUpToCheckpointInvariant == Spec => []DeliveredUpToCheckpoint
<1>1. Init => DeliveredUpToCheckpoint
  BY DEF Init, DeliveredUpToCheckpoint
<1>2. TypeOK /\ DeliveredUpToCheckpoint /\ [Next]_vars
        => DeliveredUpToCheckpoint'
  <2> SUFFICES ASSUME TypeOK, DeliveredUpToCheckpoint, [Next]_vars
               PROVE  DeliveredUpToCheckpoint'
    OBVIOUS
  <2>1. ASSUME messages \subseteq messages', UNCHANGED reading
        PROVE  DeliveredUpToCheckpoint'
    BY <2>1 DEF DeliveredUpToCheckpoint, reading, Before
  <2>2. ASSUME NEW r \in Readers, NEW from \in StartPositions,
               StartReading(r, from)
        PROVE  DeliveredUpToCheckpoint'
    <3>1. delivered' = delivered /\ messages' = messages /\ delivered[r] = {}
      BY <2>2 DEF StartReading, DeliveredUpToCheckpoint, log
    <3>2. \A q \in Readers \ {r} :
            readFrom'[q] = readFrom[q] /\ after'[q] = after[q]
      BY <2>2 DEF StartReading, TypeOK
    <3> QED
      BY <3>1, <3>2 DEF DeliveredUpToCheckpoint, Before
  <2>3. ASSUME NEW r \in Readers, PollBatch(r)
        PROVE  DeliveredUpToCheckpoint'
    <3>1. PICK last \in Unread(r) :
            /\ delivered' = [delivered EXCEPT ![r] =
                 @ \cup {m \in Unread(r) : ~Before(last, m)}]
            /\ after' = [after EXCEPT ![r] = CheckpointOf(last)]
      BY <2>3 DEF PollBatch
    <3>2. /\ messages' = messages /\ readFrom' = readFrom
          /\ readFrom[r] # "NOWHERE"
      BY <2>3 DEF PollBatch, log
    <3>3. last \in messages /\ Before(after[r], last)
      BY <3>1 DEF Unread, Visible
    <3>4. ASSUME NEW m \in delivered'[r]
          PROVE  m \in messages /\ ~Before(after'[r], m)
      <4>1. after'[r] = CheckpointOf(last)
        BY <3>1 DEF TypeOK
      <4>2. CASE m \in delivered[r]
        <5>1. m \in messages /\ ~Before(after[r], m)
          BY <4>2 DEF DeliveredUpToCheckpoint
        <5>2. ~Before(last, m)
          BY <3>3, <5>1 DEF Before, TypeOK, Message, Checkpoint
        <5> QED
          BY <4>1, <5>1, <5>2 DEF Before, CheckpointOf
      <4>3. CASE m \in Unread(r) /\ ~Before(last, m)
        BY <4>1, <4>3 DEF Unread, Visible, Before, CheckpointOf
      <4> QED
        BY <3>1, <4>2, <4>3 DEF TypeOK
    <3>5. \A q \in Readers \ {r} :
            delivered'[q] = delivered[q] /\ after'[q] = after[q]
      BY <3>1 DEF TypeOK
    <3> QED
      BY <3>2, <3>4, <3>5 DEF DeliveredUpToCheckpoint, Before
  <2> QED
    BY <2>1, <2>2, <2>3
       DEF Next, Proceed, BeginAppend, ReadStreamPosition, WriteStreamRow,
           ConflictOnStreamRow, InsertMessage, CommitAppend, RollbackAppend,
           vars, log
<1> QED
  BY <1>1, <1>2, TypeInvariant, PTL DEF Spec

\* A poll delivers messages for the first time, after all delivered before.
THEOREM DeliveryFollowsCheckpoints == Spec => DeliveredInCheckpointOrder
<1>1. TypeOK /\ DeliveredUpToCheckpoint /\ [Next]_vars
        => [\A r \in Readers :
              delivered'[r] # delivered[r] =>
                \A m \in Unread(r), k \in delivered[r] :
                  m \in delivered'[r] => Before(k, m)]_vars
  <2>1. ASSUME TypeOK, DeliveredUpToCheckpoint,
               NEW r \in Readers, NEW m \in Unread(r), NEW k \in delivered[r]
        PROVE  Before(k, m)
    <3>1. m \in Message /\ Before(after[r], m)
      BY <2>1 DEF Unread, Visible, TypeOK
    <3>2. k \in Message /\ ~Before(after[r], k)
      BY <2>1 DEF DeliveredUpToCheckpoint, TypeOK
    <3>3. after[r] \in Checkpoint
      BY <2>1 DEF TypeOK
    <3> QED
      BY <3>1, <3>2, <3>3 DEF Before, Message, Checkpoint
  <2> QED
    BY <2>1
<1> QED
  BY <1>1, TypeInvariant, DeliveredUpToCheckpointInvariant, PTL
     DEF Spec, DeliveredInCheckpointOrder

\* Of two readers from the beginning, one was given all that the other was.
ReadersAgree ==
  \A q, r \in Readers :
    readFrom[q] = "BEGINNING" /\ readFrom[r] = "BEGINNING" =>
      \/ delivered[q] \subseteq delivered[r]
      \/ delivered[r] \subseteq delivered[q]

\* Readers from the beginning see one order, whenever they poll and however
\* transactions commit between their polls: each was given the whole log up to
\* its checkpoint.
THEOREM ReadersSeeOneOrder == Spec => []ReadersAgree
<1>1. TypeOK /\ DeliveredUpToCheckpoint /\ NoMessageSkipped => ReadersAgree
  <2> SUFFICES ASSUME TypeOK, DeliveredUpToCheckpoint, NoMessageSkipped,
                      NEW q \in Readers, NEW r \in Readers,
                      readFrom[q] = "BEGINNING", readFrom[r] = "BEGINNING"
               PROVE  \/ delivered[q] \subseteq delivered[r]
                      \/ delivered[r] \subseteq delivered[q]
    BY DEF ReadersAgree
  <2>1. ASSUME NEW x \in Readers, NEW y \in Readers,
               readFrom[y] = "BEGINNING", ~Before(after[y], after[x])
        PROVE  delivered[x] \subseteq delivered[y]
    <3> SUFFICES ASSUME NEW m \in delivered[x] PROVE m \in delivered[y]
      OBVIOUS
    <3>1. m \in messages /\ ~Before(after[x], m)
      BY DEF DeliveredUpToCheckpoint
    <3>2. /\ m \in Message
          /\ after[x] \in Checkpoint /\ after[y] \in Checkpoint
      BY <3>1 DEF TypeOK
    <3>3. ~Before(after[y], m)
      BY <2>1, <3>1, <3>2 DEF Before, Message, Checkpoint
    <3> QED
      BY <2>1, <3>1, <3>3 DEF NoMessageSkipped
  <2>2. after[q] \in Checkpoint /\ after[r] \in Checkpoint
    BY DEF TypeOK
  <2>3. ~Before(after[q], after[r]) \/ ~Before(after[r], after[q])
    BY <2>2 DEF Before, Checkpoint
  <2> QED
    BY <2>1, <2>3
<1> QED
  BY <1>1, TypeInvariant, DeliveredUpToCheckpointInvariant, ReadInvariant, PTL
     DEF ReadInv

-----------------------------------------------------------------------------
(* Refinement of OrderedLog *)

\* When no reader starts from END, the messages below xmin are an ordered log
\* that grows at its end only, and polls deliver prefixes of it.
THEOREM LogImplementsOrderedLog ==
  ASSUME StartPositions = {"BEGINNING"}
  PROVE  Spec => ImplementsOrderedLog
<1> DEFINE Inv == TypeOK /\ TypeOK' /\ ReadInv /\ DeliveredUpToCheckpoint
<1>1. Init => Source!Init
  BY DEF Init, Source!Init, Visible
<1>2. Inv /\ [Next]_vars => [Source!Next]_(Source!vars)
  <2> SUFFICES ASSUME Inv, [Next]_vars PROVE [Source!Next]_(Source!vars)
    OBVIOUS
  <2>1. ASSUME \A m \in Visible : BelowXmin(m)', messages \subseteq messages',
               delivered' = delivered,
               \A m \in messages' \ messages, old \in Visible :
                 old.transactionId < m.transactionId
        PROVE  Source!Publish
    <3>1. Visible \subseteq Visible'
      BY <2>1 DEF Visible
    <3>2. ASSUME NEW new \in Visible' \ Visible, NEW old \in Visible
          PROVE  Before(old, new)
      <4>1. CASE new \notin messages
        BY <2>1, <3>2, <4>1 DEF Visible, Before
      <4>2. CASE new \in messages
        <5>1. ~BelowXmin(new) /\ BelowXmin(old)
          BY <3>2, <4>2 DEF Visible
        <5>2. new \in Message /\ old \in Message
          BY <3>2, <4>2 DEF Visible, TypeOK
        <5>3. old.transactionId < new.transactionId
          BY <5>1, <5>2, InsertedAreMessages
             DEF BelowXmin, TypeOK, Message, AppendInFlight
        <5> QED
          BY <5>3 DEF Before
      <4> QED
        BY <4>1, <4>2
    <3> QED
      BY <2>1, <3>1, <3>2 DEF Source!Publish
  <2>2. ASSUME NEW c \in Clients, NEW s \in Streams,
               NEW size \in 1..MaxAppendSize, NEW e \in ExpectedVersions,
               BeginAppend(c, s, size, e)
        PROVE  Source!Publish
    <3>1. /\ transaction'[c].id = nextTransactionId
          /\ \A d \in Clients \ {c} : transaction'[d] = transaction[d]
          /\ nextTransactionId' = nextTransactionId + 1
          /\ messages' = messages /\ delivered' = delivered
      BY <2>2 DEF BeginAppend, TypeOK, reading
    <3>2. \A m \in Visible : BelowXmin(m)'
      BY <3>1 DEF Visible, BelowXmin, Open, TypeOK, Message
    <3> QED
      BY <2>1, <3>1, <3>2
  <2>3. ASSUME NEW c \in Clients, Proceed(c) \/ RollbackAppend(c)
        PROVE  Source!Publish
    <3>1. /\ nextTransactionId' = nextTransactionId
          /\ delivered' = delivered
          /\ Open(c)
      BY <2>3 DEF Proceed, ReadStreamPosition, WriteStreamRow, InsertMessage,
           ConflictOnStreamRow, CommitAppend, RollbackAppend, reading, Open
    <3>2. \A d \in Clients : Open(d)' =>
            Open(d) /\ transaction'[d].id = transaction[d].id
      BY <2>3, <3>1, InsertedAreMessages
         DEF Proceed, ReadStreamPosition, WriteStreamRow, InsertMessage,
             ConflictOnStreamRow, CommitAppend, RollbackAppend, Open, Idle,
             TypeOK, AppendInFlight
    <3>3. \A m \in Visible : BelowXmin(m)'
      BY <3>1, <3>2 DEF Visible, BelowXmin
    <3>4. \/ messages' = messages
          \/ messages' = messages \cup transaction[c].inserted
      BY <2>3 DEF Proceed, ReadStreamPosition, WriteStreamRow, InsertMessage,
           ConflictOnStreamRow, CommitAppend, RollbackAppend
    <3>5. \A m \in messages' \ messages, old \in Visible :
            old.transactionId < m.transactionId
      BY <3>1, <3>4 DEF Visible, BelowXmin, ReadInv, TransactionIds
    <3> QED
      BY <2>1, <3>1, <3>3, <3>4, <3>5
  <2>4. ASSUME NEW r \in Readers, NEW from \in StartPositions,
               StartReading(r, from)
        PROVE  Source!Publish
    <3>1. Visible' = Visible /\ delivered' = delivered
      BY <2>4 DEF StartReading, log, Visible, BelowXmin, Open
    <3> QED
      BY <3>1 DEF Source!Publish
  <2>5. ASSUME NEW r \in Readers, PollBatch(r) PROVE Source!Deliver(r)
    <3>1. PICK last \in Unread(r) :
            delivered' = [delivered EXCEPT ![r] =
              @ \cup {m \in Unread(r) : ~Before(last, m)}]
      BY <2>5 DEF PollBatch
    <3>2. readFrom[r] = "BEGINNING" /\ Visible' = Visible
      BY <2>5 DEF PollBatch, TypeOK, log, Visible, BelowXmin, Open
    <3>3. /\ last \in Visible /\ last \in Message
          /\ Before(after[r], last) /\ after[r] \in Checkpoint
      BY DEF Unread, Visible, TypeOK
    <3>4. last \notin delivered[r]
      BY <3>3 DEF DeliveredUpToCheckpoint
    <3>5. ASSUME NEW m \in delivered[r]
          PROVE  m \in Visible /\ ~Before(last, m)
      <4>1. m \in messages /\ m \in Message /\ ~Before(after[r], m)
        BY DEF DeliveredUpToCheckpoint, TypeOK
      <4>2. ~Before(last, m) /\ m.transactionId <= last.transactionId
        BY <3>3, <4>1 DEF Before, Message, Checkpoint
      <4>3. BelowXmin(m)
        BY <3>3, <4>1, <4>2, InsertedAreMessages
           DEF BelowXmin, Visible, Message, TypeOK, AppendInFlight
      <4> QED
        BY <4>1, <4>2, <4>3 DEF Visible
    <3>6. ASSUME NEW m \in Visible, m \notin delivered[r]
          PROVE  m \in Unread(r)
      BY <3>2, <3>6 DEF ReadInv, NoMessageSkipped, Unread, Visible
    <3>7. delivered[r] \cup {m \in Unread(r) : ~Before(last, m)}
            = {m \in Visible : ~Before(last, m)}
      BY <3>5, <3>6 DEF Unread
    <3>8. delivered' = [delivered EXCEPT ![r] =
                          {m \in Visible : ~Before(last, m)}]
      BY <3>1, <3>7 DEF TypeOK
    <3> QED
      BY <3>2, <3>3, <3>4, <3>8 DEF Source!Deliver
  <2>6. CASE UNCHANGED vars
    BY <2>6 DEF vars, log, reading, Source!vars, Visible, BelowXmin, Open
  <2> QED
    BY <2>2, <2>3, <2>4, <2>5, <2>6 DEF Next, Source!Next
<1> QED
  BY <1>1, <1>2, TypeInvariant, ReadInvariant,
     DeliveredUpToCheckpointInvariant, PTL
     DEF Spec, ImplementsOrderedLog, Source!Spec

-----------------------------------------------------------------------------
(* Streams *)

\* The rows of an append number on from the stream's committed position.
RowsContinue(t) ==
  LET base == streamPosition[t.streamId]
  IN  /\ t.position >= base
      /\ \A m \in t.inserted : /\ m.streamId = t.streamId
                              /\ m.position > base
                              /\ m.position <= t.position
      /\ \A p \in Nat : p > base /\ p <= t.position =>
           \E m \in t.inserted : m.position = p
      /\ \A m, k \in t.inserted : m.position = k.position => m = k

\* One open transaction holds a stream's row, so the position that it checked
\* stays the committed one until it ends.
RowLocks ==
  \A c \in Clients :
    /\ Open(c) /\ transaction[c].phase # "written"
         => transaction[c].inserted = {}
    /\ transaction[c].phase = "written" =>
         /\ RowsContinue(transaction[c])
         /\ \A d \in Clients \ {c} : ~HoldsStreamRow(d, transaction[c].streamId)

StreamInv == RowLocks /\ StreamsAreGapless

\* The lock on the row of a stream keeps its numbering without gaps.
LEMMA StreamInvariant == Spec => []StreamInv
<1>1. Init => StreamInv
  BY DEF Init, StreamInv, RowLocks, StreamsAreGapless, Open, Idle
<1>2. TypeOK /\ TypeOK' /\ StreamInv /\ [Next]_vars => StreamInv'
  <2> SUFFICES ASSUME TypeOK, TypeOK', StreamInv, [Next]_vars
               PROVE  StreamInv'
    OBVIOUS
  <2> USE DEF HoldsStreamRow
  <2>1. ASSUME NEW c \in Clients, NEW s \in Streams,
               NEW size \in 1..MaxAppendSize, NEW e \in ExpectedVersions,
               BeginAppend(c, s, size, e)
        PROVE  StreamInv'
    <3>1. /\ transaction'[c].phase # "written"
          /\ transaction'[c].inserted = {}
          /\ \A d \in Clients \ {c} : transaction'[d] = transaction[d]
          /\ messages' = messages /\ streamPosition' = streamPosition
      BY <2>1 DEF BeginAppend, TypeOK
    <3> QED
      BY <3>1 DEF StreamInv, RowLocks, RowsContinue, StreamsAreGapless, Open
  <2>2. ASSUME NEW c \in Clients, ReadStreamPosition(c) PROVE StreamInv'
    <3>1. /\ transaction'[c].phase = "positioned"
          /\ transaction'[c].inserted = transaction[c].inserted
          /\ \A d \in Clients \ {c} : transaction'[d] = transaction[d]
          /\ messages' = messages /\ streamPosition' = streamPosition
          /\ transaction[c].phase = "begun"
      BY <2>2, InsertedAreMessages
         DEF ReadStreamPosition, TypeOK, AppendInFlight, Open
    <3> QED
      BY <3>1 DEF StreamInv, RowLocks, RowsContinue, StreamsAreGapless, Open
  <2>3. ASSUME NEW c \in Clients, WriteStreamRow(c) PROVE StreamInv'
    <3>0. transaction[c] \in AppendInFlight
      BY <2>3, InsertedAreMessages DEF WriteStreamRow, Open
    <3>1. /\ transaction'[c] = [transaction[c] EXCEPT !.phase = "written"]
          /\ \A d \in Clients \ {c} : transaction'[d] = transaction[d]
          /\ messages' = messages /\ streamPosition' = streamPosition
          /\ transaction[c].phase = "positioned"
          /\ transaction[c].position = streamPosition[transaction[c].streamId]
          /\ \A d \in Clients : ~HoldsStreamRow(d, transaction[c].streamId)
      BY <2>3 DEF WriteStreamRow, TypeOK, PositionMatches, RowIsFree
    <3>2. transaction[c].inserted = {}
      BY <3>1 DEF StreamInv, RowLocks, Open
    <3>3. RowsContinue(transaction[c])'
      BY <3>0, <3>1, <3>2 DEF RowsContinue, AppendInFlight, TypeOK
    <3>4. /\ transaction'[c].streamId = transaction[c].streamId
          /\ transaction'[c].phase = "written"
      BY <3>0, <3>1 DEF AppendInFlight
    <3>5. RowLocks'
      <4>1. ASSUME NEW d \in Clients \ {c}
            PROVE  /\ Open(d)' /\ transaction'[d].phase # "written"
                        => transaction'[d].inserted = {}
                   /\ transaction'[d].phase = "written" =>
                        /\ RowsContinue(transaction[d])'
                        /\ \A e \in Clients \ {d} :
                             ~HoldsStreamRow(e, transaction[d].streamId)'
        <5>1. transaction'[d] = transaction[d]
          BY <3>1
        <5>2. Open(d) /\ transaction[d].phase # "written"
                => transaction[d].inserted = {}
          BY DEF StreamInv, RowLocks
        <5>3. ASSUME transaction[d].phase = "written"
              PROVE  RowsContinue(transaction[d])'
          BY <3>1, <5>1, <5>3 DEF StreamInv, RowLocks, RowsContinue
        <5>4. ASSUME transaction[d].phase = "written", NEW e \in Clients \ {d}
              PROVE  ~HoldsStreamRow(e, transaction[d].streamId)'
          <6>1. CASE e = c
            BY <3>1, <3>4, <5>1, <5>4, <6>1
          <6>2. CASE e # c
            BY <3>1, <5>1, <5>4, <6>2 DEF StreamInv, RowLocks
          <6> QED
            BY <6>1, <6>2
        <5> QED
          BY <5>1, <5>2, <5>3, <5>4 DEF Open
      <4>2. /\ transaction'[c].phase = "written"
            /\ RowsContinue(transaction[c])'
            /\ \A e \in Clients \ {c} :
                 ~HoldsStreamRow(e, transaction[c].streamId)'
        BY <3>1, <3>3, <3>4
      <4> QED
        BY <4>1, <4>2 DEF RowLocks
    <3>6. StreamsAreGapless'
      BY <3>1 DEF StreamInv, StreamsAreGapless
    <3> QED
      BY <3>5, <3>6 DEF StreamInv
  <2>4. ASSUME NEW c \in Clients,
               ConflictOnStreamRow(c) \/ RollbackAppend(c)
        PROVE  StreamInv'
    <3>1. /\ transaction'[c] = Idle
          /\ \A d \in Clients \ {c} : transaction'[d] = transaction[d]
          /\ messages' = messages /\ streamPosition' = streamPosition
      BY <2>4 DEF ConflictOnStreamRow, RollbackAppend, TypeOK
    <3> QED
      BY <3>1
         DEF StreamInv, RowLocks, RowsContinue, StreamsAreGapless, Open, Idle
  <2>5. ASSUME NEW c \in Clients, InsertMessage(c) PROVE StreamInv'
    <3> DEFINE t == transaction[c]
               row == [streamId |-> t.streamId, position |-> t.position + 1,
                       transactionId |-> t.id,
                       globalPosition |-> nextGlobalPosition]
    <3>0. t.phase = "written" /\ t \in AppendInFlight
      BY <2>5, InsertedAreMessages DEF InsertMessage, Open
    <3>1. /\ transaction'[c].phase = "written"
          /\ transaction'[c].streamId = t.streamId
          /\ transaction'[c].position = t.position + 1
          /\ transaction'[c].inserted = t.inserted \cup {row}
          /\ \A d \in Clients \ {c} : transaction'[d] = transaction[d]
          /\ messages' = messages /\ streamPosition' = streamPosition
      BY <2>5, <3>0 DEF InsertMessage, TypeOK, AppendInFlight
    <3>2. row.streamId = t.streamId /\ row.position = t.position + 1
      OBVIOUS
    <3>3. RowsContinue(t) /\ t.position \in Nat /\ t.inserted \subseteq Message
          /\ streamPosition[t.streamId] \in Nat
      BY <3>0 DEF StreamInv, RowLocks, AppendInFlight, TypeOK
    <3> HIDE DEF row
    <3>4. RowsContinue(transaction[c])'
      <4> DEFINE base == streamPosition[t.streamId]
      <4>1. \A m \in t.inserted \cup {row} :
              /\ m.streamId = t.streamId
              /\ m.position > base
              /\ m.position <= t.position + 1
        BY <3>2, <3>3 DEF RowsContinue, Message
      <4>2. \A p \in Nat : p > base /\ p <= t.position + 1 =>
              \E m \in t.inserted \cup {row} : m.position = p
        <5> TAKE p \in Nat
        <5>1. CASE p = t.position + 1
          BY <3>2, <5>1
        <5>2. CASE p # t.position + 1
          BY <3>3, <5>2 DEF RowsContinue
        <5> QED
          BY <5>1, <5>2
      <4>3. \A m, k \in t.inserted \cup {row} : m.position = k.position => m = k
        BY <3>2, <3>3 DEF RowsContinue, Message
      <4> HIDE DEF t
      <4> QED
        BY <3>1, <3>3, <4>1, <4>2, <4>3 DEF RowsContinue
    <3> QED
      BY <3>0, <3>1, <3>4
         DEF StreamInv, RowLocks, RowsContinue, StreamsAreGapless, Open
  <2>6. ASSUME NEW c \in Clients, CommitAppend(c) PROVE StreamInv'
    <3> DEFINE t == transaction[c]
    <3>0. t.phase = "written" /\ t \in AppendInFlight
      BY <2>6, InsertedAreMessages DEF CommitAppend, Open
    <3>1. /\ transaction'[c] = Idle
          /\ \A d \in Clients \ {c} : transaction'[d] = transaction[d]
          /\ messages' = messages \cup t.inserted
          /\ streamPosition'[t.streamId] = t.position
          /\ \A s \in Streams \ {t.streamId} :
               streamPosition'[s] = streamPosition[s]
      BY <2>6, <3>0 DEF CommitAppend, TypeOK
    <3>2. RowsContinue(t) /\ t.position \in Nat /\ t.inserted \subseteq Message
          /\ streamPosition[t.streamId] \in Nat /\ t.streamId \in Streams
      BY <3>0 DEF StreamInv, RowLocks, AppendInFlight, TypeOK
    <3>3. \A d \in Clients \ {c} : ~HoldsStreamRow(d, t.streamId)
      BY <3>0 DEF StreamInv, RowLocks
    <3>4. RowLocks'
      <4>1. ASSUME NEW d \in Clients \ {c}, transaction[d].phase = "written"
            PROVE  streamPosition'[transaction[d].streamId]
                     = streamPosition[transaction[d].streamId]
        BY <3>1, <3>3, <4>1, InsertedAreMessages DEF Open, AppendInFlight
      <4> QED
        BY <3>1, <4>1 DEF StreamInv, RowLocks, RowsContinue, Open, Idle
    <3>5. StreamsAreGapless'
      <4> SUFFICES ASSUME NEW s \in Streams
                   PROVE
        /\ \A m \in messages' :
             m.streamId = s => m.position \in 1..streamPosition'[s]
        /\ \A p \in 1..streamPosition'[s] :
             \E m \in messages' : m.streamId = s /\ m.position = p
        /\ \A m, k \in messages' :
             m.streamId = s /\ k.streamId = s /\ m.position = k.position
               => m = k
        BY DEF StreamsAreGapless
      <4>1. CASE s # t.streamId
        BY <3>1, <3>2, <4>1 DEF StreamInv, StreamsAreGapless, RowsContinue
      <4>2. CASE s = t.streamId
        <5>1. \A m \in messages : m.streamId = s =>
                m.position \in 1..streamPosition[s]
          BY DEF StreamInv, StreamsAreGapless
        <5>2. \A m \in t.inserted :
                m.position > streamPosition[s] /\ m.position \in Nat
          BY <3>2, <4>2 DEF RowsContinue, Message
        <5>3. \A m \in messages' :
                m.streamId = s => m.position \in 1..streamPosition'[s]
          BY <3>1, <3>2, <4>2, <5>1, <5>2 DEF RowsContinue
        <5>4. \A p \in 1..streamPosition'[s] :
                \E m \in messages' : m.streamId = s /\ m.position = p
          <6> TAKE p \in 1..streamPosition'[s]
          <6>1. CASE p <= streamPosition[s]
            BY <3>1, <3>2, <4>2, <6>1 DEF StreamInv, StreamsAreGapless
          <6>2. CASE p > streamPosition[s]
            BY <3>1, <3>2, <4>2, <6>2 DEF RowsContinue
          <6> QED
            BY <3>2, <4>2, <6>1, <6>2
        <5>5. \A m, k \in messages' :
                m.streamId = s /\ k.streamId = s /\ m.position = k.position
                  => m = k
          BY <3>1, <3>2, <4>2, <5>1, <5>2
             DEF StreamInv, StreamsAreGapless, RowsContinue
        <5> QED
          BY <5>3, <5>4, <5>5
      <4> QED
        BY <4>1, <4>2
    <3> QED
      BY <3>4, <3>5 DEF StreamInv
  <2>7. CASE UNCHANGED log
    BY <2>7 DEF log, StreamInv, RowLocks, RowsContinue, StreamsAreGapless, Open
  <2> QED
    BY <2>1, <2>2, <2>3, <2>4, <2>5, <2>6, <2>7
       DEF Next, Proceed, StartReading, PollBatch, vars
<1> QED
  BY <1>1, <1>2, TypeInvariant, PTL DEF Spec

\* Committed messages of a stream are numbered from 1 to the stream's position
\* without a gap or a duplicate.
THEOREM StreamsStayGapless == Spec => []StreamsAreGapless
  BY StreamInvariant, PTL DEF StreamInv

-----------------------------------------------------------------------------
(* The order of a stream *)

\* What an open append with a version builds on: its client had read the
\* version, so the messages up to it carry lower transaction ids, and while the
\* append holds the stream's row nothing else is committed to the stream.
BuildsOnEarlier(t) ==
  /\ t.phase # "begun" /\ t.expected \in Nat
  /\ t.expected <= streamPosition[t.streamId]
  /\ t.phase = "positioned" => t.position = t.expected
  /\ t.phase = "written" => streamPosition[t.streamId] = t.expected
  /\ \A k \in messages :
       k.streamId = t.streamId /\ k.position <= t.expected
         => k.transactionId < t.id

\* The rows of one append draw from the sequence in the order of the stream.
RowsInOrder(t) ==
  /\ \A m \in t.inserted : m.globalPosition < nextGlobalPosition
  /\ \A m, k \in t.inserted :
       k.position < m.position => k.globalPosition < m.globalPosition

\* The order of a stream is its messages' order in the log.
StreamsInOrder ==
  \A m, k \in messages :
    m.streamId = k.streamId /\ k.position < m.position => Before(k, m)

OrderInv ==
  /\ \A m \in messages : m.transactionId < nextTransactionId
  /\ \A c \in Clients : Open(c) => /\ BuildsOnEarlier(transaction[c])
                                  /\ RowsInOrder(transaction[c])
  /\ StreamsInOrder

\* What the order of delivery rests on, beside itself.
LogInv == TypeOK /\ TransactionIds /\ StreamInv

\* A step that neither commits nor touches the append of c leaves what that
\* append builds on, and the order of its rows, as they were.
LEMMA OthersKeepTheirOrder ==
  ASSUME OrderInv, TypeOK, NEW c \in Clients, Open(c),
         transaction'[c] = transaction[c],
         UNCHANGED <<messages, streamPosition>>,
         nextGlobalPosition' >= nextGlobalPosition,
         nextGlobalPosition' \in Nat
  PROVE  /\ BuildsOnEarlier(transaction[c])'
         /\ RowsInOrder(transaction[c])'
<1>1. BuildsOnEarlier(transaction[c]) /\ RowsInOrder(transaction[c])
  BY DEF OrderInv
<1>2. BuildsOnEarlier(transaction[c])'
  BY <1>1 DEF BuildsOnEarlier
<1>3. \A m \in transaction[c].inserted : m.globalPosition \in Nat
  BY InsertedAreMessages DEF Message
<1>4. RowsInOrder(transaction[c])'
  BY <1>1, <1>3 DEF RowsInOrder, TypeOK
<1> QED
  BY <1>2, <1>4

\* A step that commits nothing keeps the order, when the open appends do.
LEMMA OrderIsKept ==
  ASSUME OrderInv, TypeOK, UNCHANGED messages,
         nextTransactionId' \in Nat,
         nextTransactionId' >= nextTransactionId,
         \A c \in Clients : Open(c)' => /\ BuildsOnEarlier(transaction[c])'
                                       /\ RowsInOrder(transaction[c])'
  PROVE  OrderInv'
<1>1. \A m \in messages' : m.transactionId < nextTransactionId'
  BY DEF OrderInv, TypeOK, Message
<1>2. StreamsInOrder'
  BY DEF OrderInv, StreamsInOrder, Before
<1> QED
  BY <1>1, <1>2 DEF OrderInv

\* What is committed comes after all of its stream: the append held the
\* stream's row, and its id is above the ids of what it builds on.
LEMMA CommitKeepsTheOrder ==
  ASSUME LogInv, OrderInv, NEW c \in Clients, CommitAppend(c)
  PROVE  OrderInv'
<1> DEFINE t == transaction[c]
<1>0. t.phase = "written" /\ t \in AppendInFlight /\ Open(c) /\ TypeOK
  BY InsertedAreMessages DEF CommitAppend, Open, LogInv
<1>1. /\ transaction'[c] = Idle
      /\ \A d \in Clients \ {c} : transaction'[d] = transaction[d]
      /\ messages' = messages \cup t.inserted
      /\ streamPosition'[t.streamId] = t.position
      /\ \A s \in Streams \ {t.streamId} :
           streamPosition'[s] = streamPosition[s]
      /\ nextTransactionId' = nextTransactionId
      /\ nextGlobalPosition' = nextGlobalPosition
  <2>1. t.streamId \in Streams
    BY <1>0 DEF AppendInFlight
  <2>2. /\ transaction' = [transaction EXCEPT ![c] = Idle]
        /\ streamPosition' = [streamPosition EXCEPT ![t.streamId] = t.position]
        /\ messages' = messages \cup t.inserted
        /\ nextTransactionId' = nextTransactionId
        /\ nextGlobalPosition' = nextGlobalPosition
    BY DEF CommitAppend
  <2>3. /\ transaction \in [Clients -> AppendInFlight \cup {Idle}]
        /\ streamPosition \in [Streams -> Nat]
    BY <1>0 DEF TypeOK
  <2> HIDE DEF t
  <2> QED
    BY <2>1, <2>2, <2>3
<1>2. BuildsOnEarlier(t) /\ RowsInOrder(t) /\ RowsContinue(t)
  BY <1>0 DEF OrderInv, LogInv, StreamInv, RowLocks
<1>3. /\ t.inserted \subseteq Message /\ messages \subseteq Message
      /\ t.position \in Nat /\ t.id \in Nat
      /\ streamPosition[t.streamId] \in Nat /\ t.streamId \in Streams
  BY <1>0 DEF AppendInFlight, TypeOK
<1>4. \A m \in t.inserted : /\ m.transactionId = t.id
                            /\ m.streamId = t.streamId
                            /\ m.position > streamPosition[t.streamId]
  BY <1>0, <1>2 DEF LogInv, TransactionIds, RowsContinue
<1>5. t.id < nextTransactionId
  BY <1>0 DEF LogInv, TransactionIds
<1>6. \A m \in messages : m.streamId = t.streamId =>
        /\ m.position <= streamPosition[t.streamId]
        /\ m.transactionId < t.id
  <2> SUFFICES ASSUME NEW m \in messages, m.streamId = t.streamId
               PROVE  /\ m.position <= streamPosition[t.streamId]
                      /\ m.transactionId < t.id
    OBVIOUS
  <2>1. m.position \in 1..streamPosition[t.streamId]
    BY <1>3 DEF LogInv, StreamInv, StreamsAreGapless
  <2>2. streamPosition[t.streamId] = t.expected
    BY <1>0, <1>2 DEF BuildsOnEarlier
  <2> QED
    BY <1>2, <2>1, <2>2 DEF BuildsOnEarlier
<1>7. \A m \in messages' : m.transactionId < nextTransactionId'
  BY <1>1, <1>4, <1>5 DEF OrderInv
<1> HIDE DEF t
<1>8. StreamsInOrder'
  <2> SUFFICES ASSUME NEW m \in messages', NEW k \in messages',
                      m.streamId = k.streamId, k.position < m.position
               PROVE  Before(k, m)
    BY DEF StreamsInOrder, Before
  <2>1. CASE m \in messages /\ k \in messages
    BY <2>1 DEF OrderInv, StreamsInOrder
  <2>2. CASE m \in messages /\ k \in t.inserted
    <3>1. /\ k.position > streamPosition[t.streamId]
          /\ m.position <= streamPosition[t.streamId]
          /\ k.position \in Nat /\ m.position \in Nat
      BY <1>3, <1>4, <1>6, <2>2 DEF Message
    <3> QED
      BY <1>3, <3>1
  <2>3. CASE m \in t.inserted /\ k \in messages
    BY <1>4, <1>6, <2>3 DEF Before
  <2>4. CASE m \in t.inserted /\ k \in t.inserted
    BY <1>2, <1>4, <2>4 DEF Before, RowsInOrder
  <2> QED
    BY <1>1, <2>1, <2>2, <2>3, <2>4
<1>9. ASSUME NEW d \in Clients, Open(d)'
      PROVE  /\ BuildsOnEarlier(transaction[d])'
             /\ RowsInOrder(transaction[d])'
  <2> DEFINE u == transaction[d]
  <2>1. d # c /\ transaction'[d] = u /\ Open(d)
    BY <1>1, <1>9 DEF Open, Idle
  <2>2. BuildsOnEarlier(u) /\ RowsInOrder(u) /\ u \in AppendInFlight
    BY <1>0, <2>1, InsertedAreMessages DEF OrderInv
  <2>3. u.streamId \in Streams /\ u.expected \in Nat
    BY <2>2 DEF AppendInFlight, BuildsOnEarlier
  <2>4. u.streamId = t.streamId => u.phase # "written"
    BY <1>0, <2>1 DEF LogInv, StreamInv, RowLocks, HoldsStreamRow, t
  <2>5. /\ u.expected <= streamPosition'[u.streamId]
        /\ u.phase = "written" => streamPosition'[u.streamId] = u.expected
    <3>1. CASE u.streamId = t.streamId
      <4>1. /\ t.position >= streamPosition[t.streamId]
            /\ u.expected <= streamPosition[t.streamId]
        BY <1>2, <2>2, <3>1 DEF RowsContinue, BuildsOnEarlier
      <4>2. u.expected <= t.position
        BY <1>3, <2>3, <4>1
      <4> QED
        BY <1>1, <2>4, <3>1, <4>2
    <3>2. CASE u.streamId # t.streamId
      BY <1>1, <2>2, <2>3, <3>2 DEF BuildsOnEarlier
    <3> QED
      BY <3>1, <3>2
  <2>6. ASSUME NEW k \in messages', k.streamId = u.streamId,
               k.position <= u.expected
        PROVE  k.transactionId < u.id
    <3>1. CASE k \in messages
      BY <2>2, <2>6, <3>1 DEF BuildsOnEarlier
    <3>2. CASE k \in t.inserted
      <4>1. /\ k.position > streamPosition[t.streamId]
            /\ k.streamId = t.streamId /\ k.position \in Nat
        BY <1>3, <1>4, <3>2 DEF Message
      <4>2. u.expected <= streamPosition[t.streamId]
        BY <2>2, <2>6, <4>1 DEF BuildsOnEarlier
      <4> QED
        BY <1>3, <2>3, <2>6, <4>1, <4>2
    <3> QED
      BY <1>1, <3>1, <3>2
  <2>7. BuildsOnEarlier(transaction[d])'
    BY <2>1, <2>2, <2>5, <2>6 DEF BuildsOnEarlier
  <2>8. RowsInOrder(transaction[d])'
    BY <1>1, <2>1, <2>2 DEF RowsInOrder
  <2> QED
    BY <2>7, <2>8
<1> QED
  BY <1>7, <1>8, <1>9 DEF OrderInv

\* While every append carries a version that was read before it began, each
\* step keeps the committed messages of a stream in the order of the log.
LEMMA OrderInvariant ==
  ASSUME ClientsReadVersionFirst, ExpectedVersions \subseteq Nat
  PROVE  Spec => []OrderInv
<1>1. Init => OrderInv
  BY DEF Init, OrderInv, StreamsInOrder, Open, Idle
<1>2. LogInv /\ TypeOK' /\ OrderInv /\ [Next]_vars => OrderInv'
  <2> SUFFICES ASSUME LogInv, TypeOK', OrderInv, [Next]_vars
               PROVE  OrderInv'
    OBVIOUS
  <2>0. /\ TypeOK /\ Null \notin Nat
        /\ nextTransactionId' \in Nat /\ nextGlobalPosition' \in Nat
        /\ nextTransactionId \in Nat /\ nextGlobalPosition \in Nat
    BY LogAssumption DEF LogInv, TypeOK
  <2>1. ASSUME NEW c \in Clients, NEW s \in Streams,
               NEW size \in 1..MaxAppendSize, NEW e \in ExpectedVersions,
               BeginAppend(c, s, size, e)
        PROVE  OrderInv'
    <3>1. toExpectedVersion(e) = e /\ e \in Nat /\ e # Null
      BY <2>0 DEF toExpectedVersion
    <3>2. /\ transaction'[c] =
               [phase |-> "positioned", id |-> nextTransactionId,
                streamId |-> s, expected |-> e, position |-> e,
                left |-> size, inserted |-> {}]
          /\ e <= streamPosition[s]
          /\ \A d \in Clients \ {c} : transaction'[d] = transaction[d]
          /\ UNCHANGED <<messages, streamPosition, nextGlobalPosition>>
          /\ nextTransactionId' = nextTransactionId + 1
      BY <2>0, <2>1, <3>1 DEF BeginAppend, TypeOK
    <3>3. /\ transaction'[c].phase = "positioned"
          /\ transaction'[c].id = nextTransactionId
          /\ transaction'[c].streamId = s
          /\ transaction'[c].expected = e
          /\ transaction'[c].position = e
          /\ transaction'[c].inserted = {}
      BY <3>2
    <3>4. BuildsOnEarlier(transaction[c])' /\ RowsInOrder(transaction[c])'
      BY <3>1, <3>2, <3>3 DEF BuildsOnEarlier, RowsInOrder, OrderInv
    <3>5. ASSUME NEW d \in Clients \ {c}, Open(d)'
          PROVE  BuildsOnEarlier(transaction[d])' /\ RowsInOrder(transaction[d])'
      BY <2>0, <3>2, <3>5, OthersKeepTheirOrder DEF Open
    <3> QED
      BY <2>0, <3>2, <3>4, <3>5, OrderIsKept
  <2>2. ASSUME NEW c \in Clients, ReadStreamPosition(c) PROVE OrderInv'
    BY <2>2 DEF ReadStreamPosition, OrderInv, BuildsOnEarlier, Open
  <2>3. ASSUME NEW c \in Clients, WriteStreamRow(c) PROVE OrderInv'
    <3>0. Open(c) /\ transaction[c] \in AppendInFlight
      BY <2>0, <2>3, InsertedAreMessages DEF WriteStreamRow, Open
    <3>1. /\ transaction'[c] = [transaction[c] EXCEPT !.phase = "written"]
          /\ transaction[c].phase = "positioned"
          /\ transaction[c].position = streamPosition[transaction[c].streamId]
          /\ \A d \in Clients \ {c} : transaction'[d] = transaction[d]
          /\ UNCHANGED <<messages, streamPosition, nextGlobalPosition,
                         nextTransactionId>>
      BY <2>0, <2>3 DEF WriteStreamRow, TypeOK, PositionMatches
    <3>2. /\ transaction'[c].phase = "written"
          /\ transaction'[c].id = transaction[c].id
          /\ transaction'[c].streamId = transaction[c].streamId
          /\ transaction'[c].expected = transaction[c].expected
          /\ transaction'[c].inserted = transaction[c].inserted
      BY <3>0, <3>1 DEF AppendInFlight
    <3>3. BuildsOnEarlier(transaction[c]) /\ RowsInOrder(transaction[c])
      BY <3>0 DEF OrderInv
    <3>4. BuildsOnEarlier(transaction[c])' /\ RowsInOrder(transaction[c])'
      BY <3>1, <3>2, <3>3 DEF BuildsOnEarlier, RowsInOrder
    <3>5. ASSUME NEW d \in Clients \ {c}, Open(d)'
          PROVE  BuildsOnEarlier(transaction[d])' /\ RowsInOrder(transaction[d])'
      BY <2>0, <3>1, <3>5, OthersKeepTheirOrder DEF Open
    <3> QED
      BY <2>0, <3>1, <3>4, <3>5, OrderIsKept
  <2>4. ASSUME NEW c \in Clients,
               ConflictOnStreamRow(c) \/ RollbackAppend(c)
        PROVE  OrderInv'
    <3>1. /\ transaction'[c] = Idle
          /\ \A d \in Clients \ {c} : transaction'[d] = transaction[d]
          /\ UNCHANGED <<messages, streamPosition, nextGlobalPosition,
                         nextTransactionId>>
      BY <2>0, <2>4 DEF ConflictOnStreamRow, RollbackAppend, TypeOK
    <3>2. ASSUME NEW d \in Clients, Open(d)'
          PROVE  BuildsOnEarlier(transaction[d])' /\ RowsInOrder(transaction[d])'
      BY <2>0, <3>1, <3>2, OthersKeepTheirOrder DEF Open, Idle
    <3> QED
      BY <2>0, <3>1, <3>2, OrderIsKept
  <2>5. ASSUME NEW c \in Clients, InsertMessage(c) PROVE OrderInv'
    <3> DEFINE t == transaction[c]
               row == [streamId |-> t.streamId, position |-> t.position + 1,
                       transactionId |-> t.id,
                       globalPosition |-> nextGlobalPosition]
    <3>0. t.phase = "written" /\ Open(c) /\ t \in AppendInFlight
      BY <2>0, <2>5, InsertedAreMessages DEF InsertMessage, Open
    <3>1. /\ transaction'[c].phase = "written"
          /\ transaction'[c].id = t.id
          /\ transaction'[c].streamId = t.streamId
          /\ transaction'[c].expected = t.expected
          /\ transaction'[c].inserted = t.inserted \cup {row}
          /\ \A d \in Clients \ {c} : transaction'[d] = transaction[d]
          /\ UNCHANGED <<messages, streamPosition, nextTransactionId>>
          /\ nextGlobalPosition' = nextGlobalPosition + 1
      BY <2>0, <2>5, <3>0 DEF InsertMessage, TypeOK, AppendInFlight
    <3>2. /\ row.position = t.position + 1
          /\ row.globalPosition = nextGlobalPosition
      OBVIOUS
    <3> HIDE DEF row
    <3>3. BuildsOnEarlier(t) /\ RowsInOrder(t)
      BY <3>0 DEF OrderInv
    <3>4. /\ t.position \in Nat
          /\ \A m \in t.inserted : /\ m.position <= t.position
                                  /\ m.position \in Nat
                                  /\ m.globalPosition \in Nat
      BY <3>0 DEF LogInv, StreamInv, RowLocks, RowsContinue, AppendInFlight,
                  Message
    <3>5. BuildsOnEarlier(transaction[c])'
      BY <3>0, <3>1, <3>3 DEF BuildsOnEarlier
    <3>6. \A m \in t.inserted \cup {row} :
            m.globalPosition < nextGlobalPosition + 1
      BY <2>0, <3>2, <3>3, <3>4 DEF RowsInOrder
    <3>7. \A m, k \in t.inserted \cup {row} :
            k.position < m.position => k.globalPosition < m.globalPosition
      BY <2>0, <3>2, <3>3, <3>4 DEF RowsInOrder
    <3>8. RowsInOrder(transaction[c])'
      BY <3>1, <3>6, <3>7 DEF RowsInOrder
    <3>9. ASSUME NEW d \in Clients \ {c}, Open(d)'
          PROVE  BuildsOnEarlier(transaction[d])' /\ RowsInOrder(transaction[d])'
      BY <2>0, <3>1, <3>9, OthersKeepTheirOrder DEF Open
    <3> QED
      BY <2>0, <3>1, <3>5, <3>8, <3>9, OrderIsKept
  <2>6. ASSUME NEW c \in Clients, CommitAppend(c) PROVE OrderInv'
    BY <2>6, CommitKeepsTheOrder
  <2>7. CASE UNCHANGED log
    BY <2>7 DEF log, OrderInv, BuildsOnEarlier, RowsInOrder, StreamsInOrder,
                Before, Open
  <2> QED
    BY <2>1, <2>2, <2>3, <2>4, <2>5, <2>6, <2>7
       DEF Next, Proceed, StartReading, PollBatch, vars
<1> QED
  BY <1>1, <1>2, TypeInvariant, ReadInvariant, StreamInvariant, PTL
     DEF Spec, LogInv, ReadInv

\* While every append carries a version that its client has read before, a
\* reader from the beginning is given the messages of a stream in the order of
\* the stream: what a delivered message builds on was delivered before it.
THEOREM StreamsAreDeliveredInOrder ==
  ASSUME ClientsReadVersionFirst, ExpectedVersions \subseteq Nat
  PROVE  Spec => []DeliveredInStreamOrder
<1>1. TypeOK /\ OrderInv /\ DeliveredUpToCheckpoint /\ NoMessageSkipped
        => DeliveredInStreamOrder
  <2> SUFFICES ASSUME TypeOK, OrderInv, DeliveredUpToCheckpoint,
                      NoMessageSkipped,
                      NEW r \in Readers, NEW m \in delivered[r],
                      NEW k \in messages,
                      readFrom[r] = "BEGINNING", m.streamId = k.streamId,
                      k.position < m.position
               PROVE  k \in delivered[r] /\ Before(k, m)
    BY DEF DeliveredInStreamOrder
  <2>1. m \in messages /\ ~Before(after[r], m)
    BY DEF DeliveredUpToCheckpoint
  <2>2. Before(k, m)
    BY <2>1 DEF OrderInv, StreamsInOrder
  <2>3. ~Before(after[r], k)
    <3>1. m \in Message /\ k \in Message /\ after[r] \in Checkpoint
      BY <2>1 DEF TypeOK
    <3> QED
      BY <2>1, <2>2, <3>1 DEF Before, Message, Checkpoint
  <2> QED
    BY <2>2, <2>3 DEF NoMessageSkipped
<1> QED
  BY <1>1, TypeInvariant, OrderInvariant, DeliveredUpToCheckpointInvariant,
     NoMessageIsSkipped, PTL

=============================================================================
