------------------------- MODULE PostgresMessageLog -------------------------
(***************************************************************************)
(* The message log of the PostgreSQL event store: concurrent appends, each *)
(* a database transaction running emt_append_to_stream, and readers that   *)
(* poll the global order (transaction id, global position) below the       *)
(* snapshot's xmin, as readMessagesBatch does.                             *)
(*                                                                         *)
(* One partition, nothing archived.  Statements run in READ COMMITTED: a   *)
(* statement sees what is committed when it starts, and blocks on a row    *)
(* that another open transaction has written.  Payloads are left out.      *)
(***************************************************************************)
EXTENDS Integers, FiniteSets

CONSTANTS Clients, Streams, Readers,
          NO_CONCURRENCY_CHECK, STREAM_DOES_NOT_EXIST, STREAM_EXISTS,
          Null,                     \* SQL NULL
          ExpectedVersions,         \* what appends ask for
          ClientsReadVersionFirst,  \* an explicit version was read before
          StartPositions,           \* where readers start
          BatchSize,
          MaxAppendSize,            \* bound: messages of one append
          MaxTransactionId          \* bound: transactions begun

SpecialVersions == {NO_CONCURRENCY_CHECK, STREAM_DOES_NOT_EXIST, STREAM_EXISTS}

ASSUME LogAssumption ==
  /\ BatchSize \in Nat \ {0}
  /\ MaxAppendSize \in Nat \ {0}
  /\ MaxTransactionId \in Nat
  /\ ClientsReadVersionFirst \in BOOLEAN
  /\ StartPositions \subseteq {"BEGINNING", "END"}
  /\ ExpectedVersions \subseteq Nat \cup SpecialVersions
  /\ Null \notin Nat
  /\ \A v \in SpecialVersions : v \notin Nat

VARIABLES
  nextTransactionId,   \* the next xid8 the server assigns
  nextGlobalPosition,  \* the sequence behind emt_messages.global_position
  transaction,         \* the append each client has in flight
  streamPosition,      \* committed emt_streams.stream_position, 0: no row
  messages,            \* committed rows of emt_messages
  readFrom,            \* where each reader started, "NOWHERE" before it does
  after,               \* the checkpoint each reader polls after
  skipped,             \* what was committed when the reader started from END
  delivered            \* what each reader was given

log == <<nextTransactionId, nextGlobalPosition, transaction, streamPosition,
         messages>>
reading == <<readFrom, after, skipped, delivered>>
vars == <<log, reading>>

-----------------------------------------------------------------------------
(* The global order *)

Checkpoint == [transactionId : Nat, globalPosition : Nat]

DefaultCheckpoint == [transactionId |-> 0, globalPosition |-> 0]

Message == [streamId : Streams, position : Nat,
            transactionId : Nat, globalPosition : Nat]

CheckpointOf(m) ==
  [transactionId |-> m.transactionId, globalPosition |-> m.globalPosition]

\* Row comparison in SQL; the zero-padded text of checkpoints compares alike.
Before(m, k) ==
  \/ m.transactionId < k.transactionId
  \/ /\ m.transactionId = k.transactionId
     /\ m.globalPosition < k.globalPosition

-----------------------------------------------------------------------------
(* Appending *)

Idle == [phase |-> "idle"]

AppendInFlight == [phase : {"begun", "positioned", "written"},
           id : Nat,
           streamId : Streams,
           expected : ExpectedVersions,
           position : Nat,      \* expected position, then the last row's
           left : Nat,          \* messages still to insert
           inserted : SUBSET Message]

Open(c) == transaction[c].phase # "idle"

\* The client's transaction has inserted or updated the stream's row.
HoldsStreamRow(c, s) ==
  /\ transaction[c].phase = "written"
  /\ transaction[c].streamId = s

\* Mutant: an explicit version is dropped as well.
ignoreExpectedVersion(expected) == Null

toExpectedVersion(expected) == IF expected \in Nat THEN expected ELSE Null

\* The transaction takes its id in the function's first statement.
BeginAppend(c, s, size, expected) ==
  LET version == toExpectedVersion(expected)
  IN  /\ ~Open(c)
      /\ nextTransactionId <= MaxTransactionId
      /\ ClientsReadVersionFirst /\ expected \in Nat
           => expected <= streamPosition[s]
      /\ nextTransactionId' = nextTransactionId + 1
      /\ transaction' = [transaction EXCEPT ![c] =
           [phase    |-> IF version = Null THEN "begun" ELSE "positioned",
            id       |-> nextTransactionId,
            streamId |-> s,
            expected |-> expected,
            position |-> IF version = Null THEN 0 ELSE version,
            left     |-> size,
            inserted |-> {}]]
      /\ UNCHANGED <<nextGlobalPosition, streamPosition, messages, reading>>

\* Without an expected position the committed one is read, in a statement,
\* and so in a snapshot, of its own.
ReadStreamPosition(c) ==
  /\ transaction[c].phase = "begun"
  /\ transaction' = [transaction EXCEPT
       ![c].phase = "positioned",
       ![c].position = streamPosition[transaction[c].streamId]]
  /\ UNCHANGED <<nextTransactionId, nextGlobalPosition, streamPosition,
                 messages, reading>>

\* INSERT of the stream's row at position 0, UPDATE of it at any other: one
\* that finds the row at another position fails, one that another open
\* transaction has written waits for it to end.
PositionMatches(c) ==
  transaction[c].position = streamPosition[transaction[c].streamId]

\* Mutant: writing a stream's row does not wait for the others who write it.
RowIsNeverLocked(s) == TRUE

RowIsFree(s) == \A d \in Clients : ~HoldsStreamRow(d, s)

WriteStreamRow(c) ==
  /\ transaction[c].phase = "positioned"
  /\ PositionMatches(c)
  /\ RowIsFree(transaction[c].streamId)
  /\ transaction' = [transaction EXCEPT ![c].phase = "written"]
  /\ UNCHANGED <<nextTransactionId, nextGlobalPosition, streamPosition,
                 messages, reading>>

\* A unique violation or no updated row: the append is rolled back and the
\* client gets an ExpectedVersionConflictError.
ConflictOnStreamRow(c) ==
  /\ transaction[c].phase = "positioned"
  /\ ~PositionMatches(c)
  /\ transaction' = [transaction EXCEPT ![c] = Idle]
  /\ UNCHANGED <<nextTransactionId, nextGlobalPosition, streamPosition,
                 messages, reading>>

\* Rows draw from the sequence one by one, beside those of other sessions.
InsertMessage(c) ==
  LET t == transaction[c]
      row == [streamId |-> t.streamId, position |-> t.position + 1,
              transactionId |-> t.id, globalPosition |-> nextGlobalPosition]
  IN  /\ t.phase = "written"
      /\ t.left > 0
      /\ nextGlobalPosition' = nextGlobalPosition + 1
      /\ transaction' = [transaction EXCEPT
           ![c].position = t.position + 1,
           ![c].left = t.left - 1,
           ![c].inserted = t.inserted \cup {row}]
      /\ UNCHANGED <<nextTransactionId, streamPosition, messages, reading>>

\* After the hooks and the inline projections, which share the transaction.
CommitAppend(c) ==
  LET t == transaction[c]
  IN  /\ t.phase = "written"
      /\ t.left = 0
      /\ messages' = messages \cup t.inserted
      /\ streamPosition' = [streamPosition EXCEPT ![t.streamId] = t.position]
      /\ transaction' = [transaction EXCEPT ![c] = Idle]
      /\ UNCHANGED <<nextTransactionId, nextGlobalPosition, reading>>

\* A hook or an inline projection throws, the connection or the process dies:
\* the transaction and sequence numbers it took are not given back.
RollbackAppend(c) ==
  /\ Open(c)
  /\ transaction' = [transaction EXCEPT ![c] = Idle]
  /\ UNCHANGED <<nextTransactionId, nextGlobalPosition, streamPosition,
                 messages, reading>>

-----------------------------------------------------------------------------
(* Reading *)

\* Mutant: what is committed is read, whatever is still open below it.
BelowNextTransactionId(m) == m.transactionId < nextTransactionId

\* transaction_id < pg_snapshot_xmin(pg_current_snapshot()): below the lowest
\* id still open, or below the next one when none is.
BelowXmin(m) ==
  /\ m.transactionId < nextTransactionId
  /\ \A c \in Clients : Open(c) => m.transactionId < transaction[c].id

Visible == {m \in messages : BelowXmin(m)}

\* The last committed message is looked up without the bound on xmin.
LastMessages == {m \in messages : \A k \in messages : ~Before(m, k)}

StartsAfter(from) ==
  IF from = "END" /\ messages # {}
    THEN {CheckpointOf(m) : m \in LastMessages}
    ELSE {DefaultCheckpoint}

StartReading(r, from) ==
  /\ readFrom[r] = "NOWHERE"
  /\ readFrom' = [readFrom EXCEPT ![r] = from]
  /\ \E checkpoint \in StartsAfter(from) :
       after' = [after EXCEPT ![r] = checkpoint]
  /\ skipped' = [skipped EXCEPT ![r] = IF from = "END" THEN messages ELSE {}]
  /\ UNCHANGED <<log, delivered>>

\* Mutant: a checkpoint of the global position alone.
UnreadAfterPosition(r) ==
  {m \in Visible : m.globalPosition > after[r].globalPosition}

Unread(r) == {m \in Visible : Before(after[r], m)}

\* Up to BatchSize of the unread messages, in order; the checkpoint moves to
\* the last of them.
PollBatch(r) ==
  /\ readFrom[r] # "NOWHERE"
  /\ \E last \in Unread(r) :
       LET batch == {m \in Unread(r) : ~Before(last, m)}
       IN  /\ Cardinality(batch) <= BatchSize
           /\ Cardinality(batch) = BatchSize \/ batch = Unread(r)
           /\ delivered' = [delivered EXCEPT ![r] = @ \cup batch]
           /\ after' = [after EXCEPT ![r] = CheckpointOf(last)]
  /\ UNCHANGED <<log, readFrom, skipped>>

-----------------------------------------------------------------------------

Init ==
  /\ nextTransactionId = 1
  /\ nextGlobalPosition = 1
  /\ transaction = [c \in Clients |-> Idle]
  /\ streamPosition = [s \in Streams |-> 0]
  /\ messages = {}
  /\ readFrom = [r \in Readers |-> "NOWHERE"]
  /\ after = [r \in Readers |-> DefaultCheckpoint]
  /\ skipped = [r \in Readers |-> {}]
  /\ delivered = [r \in Readers |-> {}]

\* What the database does with an append once it has begun.
Proceed(c) ==
  \/ ReadStreamPosition(c)
  \/ WriteStreamRow(c)
  \/ ConflictOnStreamRow(c)
  \/ InsertMessage(c)
  \/ CommitAppend(c)

Next ==
  \/ \E c \in Clients :
       \/ \E s \in Streams, size \in 1..MaxAppendSize, e \in ExpectedVersions :
            BeginAppend(c, s, size, e)
       \/ Proceed(c)
       \/ RollbackAppend(c)
  \/ \E r \in Readers :
       \/ \E from \in StartPositions : StartReading(r, from)
       \/ PollBatch(r)

Spec == Init /\ [][Next]_vars

\* An open transaction goes on or ends, a started reader keeps polling.
Fairness ==
  /\ \A c \in Clients : WF_vars(Proceed(c))
  /\ \A r \in Readers : WF_vars(PollBatch(r))

FairSpec == Spec /\ Fairness

-----------------------------------------------------------------------------
(* Properties *)

\* Positions, ids and checkpoints stay numbers, also a reader's first
\* checkpoint; an open append keeps the fields the function works with.
TypeOK ==
  /\ nextTransactionId \in Nat
  /\ nextGlobalPosition \in Nat
  /\ transaction \in [Clients -> AppendInFlight \cup {Idle}]
  /\ streamPosition \in [Streams -> Nat]
  /\ messages \subseteq Message
  /\ readFrom \in [Readers -> StartPositions \cup {"NOWHERE"}]
  /\ after \in [Readers -> Checkpoint]
  /\ skipped \in [Readers -> SUBSET Message]
  /\ delivered \in [Readers -> SUBSET Message]

\* The committed messages of a stream are numbered 1, 2, ... up to the
\* position in the stream's row, each number once, however appends with and
\* without an expected version interleave.
StreamsAreGapless ==
  \A s \in Streams :
    /\ \A m \in messages : m.streamId = s => m.position \in 1..streamPosition[s]
    /\ \A p \in 1..streamPosition[s] :
         \E m \in messages : m.streamId = s /\ m.position = p
    /\ \A m, k \in messages :
         m.streamId = s /\ k.streamId = s /\ m.position = k.position => m = k

\* A reader from the beginning never moves its checkpoint past a message that
\* it was not given, though transactions commit in another order than they
\* take ids and sequence numbers.
NoMessageSkipped ==
  \A r \in Readers :
    readFrom[r] = "BEGINNING" =>
      \A m \in messages : ~Before(after[r], m) => m \in delivered[r]

\* The same of every reader: one that starts from END passes over what the
\* log held then, and nothing else.  Readers from END do not keep it: their
\* first checkpoint has no bound on xmin.
EndSkipsOnlyWhatIsThere ==
  \A r \in Readers :
    readFrom[r] # "NOWHERE" =>
      \A m \in messages :
        ~Before(after[r], m) => m \in delivered[r] \cup skipped[r]

\* Whatever a poll delivers comes after all that was delivered before, and is
\* delivered for the first time: the source's checkpoint order.
DeliveredInCheckpointOrder ==
  [][\A r \in Readers :
       delivered'[r] # delivered[r] =>
         \A m \in Unread(r), k \in delivered[r] :
           m \in delivered'[r] => Before(k, m)]_vars

\* Messages of one stream are delivered in the order of the stream: while an
\* append that carries a version has read it first, its transaction's id is
\* above the ids of all that it builds on.
DeliveredInStreamOrder ==
  \A r \in Readers : \A m \in delivered[r], k \in messages :
    /\ readFrom[r] = "BEGINNING"
    /\ m.streamId = k.streamId
    /\ k.position < m.position
    => k \in delivered[r] /\ Before(k, m)

\* A committed message reaches every reader: a lower transaction id that is
\* still open only delays it.
EveryMessageDelivered ==
  \A r \in Readers, s \in Streams, p \in 1..MaxTransactionId :
    (/\ readFrom[r] = "BEGINNING"
     /\ streamPosition[s] >= p)
      ~> \E m \in delivered[r] : m.streamId = s /\ m.position = p

\* Readers from the beginning see a log that grows only at its end: the
\* messages below xmin.  What commits later is ordered after all of them.
Source == INSTANCE OrderedLog WITH published <- Visible

\* Polling below xmin implements the ordered log that consumers rely on.
ImplementsOrderedLog == Source!Spec

=============================================================================
