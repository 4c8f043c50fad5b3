--------------------------- MODULE Checkpointers ---------------------------
(***************************************************************************)
(* The instances of one processor, and its checkpoint in each of the       *)
(* stores but PostgreSQL: a row (SQLite), the last event of a stream       *)
(* (EventStoreDB, which keeps the revision it has read in the process),    *)
(* documents that are read, compared and then written (MongoDB, in-memory).*)
(* The checkpoint of a message is its number in the log; 0 is null.        *)
(*                                                                         *)
(* An instance whose checkpoint is refused goes on handling and keeps      *)
(* comparing with what it held; one that fails (STOP) is kept by its       *)
(* process with what it held, and may be started again.                    *)
(*                                                                         *)
(* In SQLite an instance takes the checkpoint over when the statement is   *)
(* answered, inside of the transaction.  Should the commit then fail, it   *)
(* holds a checkpoint that was never stored: started again in its process  *)
(* it goes on behind the batch that was rolled back, and what it stores is *)
(* refused, until the row should come to be what it holds.                 *)
(***************************************************************************)
EXTENDS Naturals, Sequences, FiniteSets

CONSTANTS Instances,
          Stores,        \* stores to look at
          SharedStores,  \* those that several instances use at once
          BatchSize,
          MaxMessages,   \* bound: messages in the log
          MaxResets      \* bound: resets of the checkpoint

Comparing == {"sqlite", "eventstoredb"}       \* in one step with the write
ReadingFirst == {"mongodb", "inmemory"}

ASSUME CheckpointersAssumption ==
  /\ Stores \subseteq Comparing \cup ReadingFirst
  /\ BatchSize \in Nat \ {0} /\ MaxMessages \in Nat /\ MaxResets \in Nat

VARIABLES
  store,     \* where the checkpoint is
  stored,    \* its row, documents or events, in the order they were inserted
  instance,  \* what each instance of the processor does
  handled,   \* messages that were handled
  told,      \* the last checkpoint an instance was told is stored for good:
             \* in SQLite, with the commit answered too
  resets

vars == <<store, stored, instance, handled, told, resets>>

Checkpoints == 0..MaxMessages

-----------------------------------------------------------------------------
(* An instance *)

Gone == [state |-> "gone", last |-> 0, revision |-> 0, position |-> 0,
         upTo |-> 0]

TypeOfInstance ==
  [state    : {"gone", "stopped", "running", "storing", "writing"},
   last     : Checkpoints,   \* lastStoredCheckpoint
   revision : Nat,           \* the revision kept, from 1; 0 without a stream
   position : Checkpoints,   \* where its message source stands
   upTo     : Checkpoints]   \* message whose checkpoint is to be stored

\* Started, or failed: between two batches, with what it holds.
Holding(state, last, revision, position) ==
  [Gone EXCEPT !.state = state, !.last = last, !.revision = revision,
               !.position = position]

Becomes(i, new) == instance' = [instance EXCEPT ![i] = new]

\* Where only one instance may be at work, the others have gone.
MayStart(i) ==
  store \notin SharedStores =>
    \A other \in Instances \ {i} : instance[other].state = "gone"

-----------------------------------------------------------------------------
(* What is stored *)

\* Mutant: the stream of checkpoints is read forwards.
FirstOf(s) == IF s = <<>> THEN 0 ELSE s[1]

LastOf(s) == IF s = <<>> THEN 0 ELSE s[Len(s)]

\* findOne and the SELECT take any of what they match.
Readable ==
  IF stored = <<>> THEN {0}
  ELSE IF store = "eventstoredb" THEN {LastOf(stored)}
  ELSE {stored[d] : d \in DOMAIN stored}

Revision == IF store = "eventstoredb" THEN Len(stored) ELSE 0

\* The handler's writes are in the transaction of the checkpoint.
IsTransactional == store = "sqlite"

-----------------------------------------------------------------------------
(* Start *)

\* A checkpoint in the process is kept, otherwise the stored one is read.
Start(i) ==
  /\ instance[i].state \in {"gone", "stopped"} /\ MayStart(i)
  /\ \/ /\ instance[i].last = 0
        /\ \E c \in Readable : Becomes(i, Holding("running", c, Revision, c))
     \/ /\ instance[i].last # 0
        /\ Becomes(i, [instance[i] EXCEPT !.state = "running",
                                          !.position = instance[i].last])
  /\ UNCHANGED <<store, stored, handled, told, resets>>

\* The process ends, or lets go of the processor.
Leave(i) ==
  /\ instance[i].state # "gone"
  /\ Becomes(i, Gone)
  /\ UNCHANGED <<store, stored, handled, told, resets>>

-----------------------------------------------------------------------------
(* Handle *)

\* Mutant: the handler fails at the last message, the checkpoint is the batch's.
BatchButTheLast(i) == instance[i].position + 1 .. instance[i].upTo - 1

Batch(i) == instance[i].position + 1 .. instance[i].upTo

\* Messages up to the checkpoint the instance holds are not handled.
Handle(i) ==
  /\ instance[i].state = "running"
  /\ \E upTo \in instance[i].position + 1 .. instance[i].position + BatchSize :
       /\ upTo <= MaxMessages
       /\ Becomes(i, [instance[i] EXCEPT !.state = "storing", !.upTo = upTo])
       /\ handled' = IF IsTransactional THEN handled
                     ELSE handled \cup instance[i].position + 1 .. upTo
  /\ UNCHANGED <<store, stored, told, resets>>

Stopped(i, last) == Becomes(i, Holding("stopped", last, instance[i].revision, 0))

\* The store fails before anything is written, or a transaction without a
\* new checkpoint is rolled back.
Fail(i) ==
  /\ instance[i].state \in {"storing", "writing"}
  /\ Stopped(i, instance[i].last)
  /\ UNCHANGED <<store, stored, handled, told, resets>>

Committed(i) == IF IsTransactional THEN handled \cup Batch(i) ELSE handled

\* MISMATCH or IGNORED: what the instance holds stays as it is.  The commit of
\* the effects may take place and its answer get lost.
Refused(i) ==
  /\ \/ Becomes(i, Holding("running", instance[i].last, instance[i].revision,
                           instance[i].upTo))
     \/ IsTransactional /\ Stopped(i, instance[i].last)
  /\ handled' = Committed(i)
  /\ UNCHANGED <<store, stored, told, resets>>

\* The write takes effect; the answer may get lost, which fails the instance:
\* the answer of the write, or in a transaction that of the commit, with the
\* checkpoint taken over.
Written(i, new) ==
  /\ stored' = new
  /\ \/ /\ Becomes(i, Holding("running", instance[i].upTo,
                              IF store = "eventstoredb" THEN Len(new) ELSE 0,
                              instance[i].upTo))
        /\ told' = instance[i].upTo
     \/ /\ Stopped(i, IF IsTransactional THEN instance[i].upTo
                      ELSE instance[i].last)
        /\ UNCHANGED told
  /\ handled' = Committed(i)
  /\ UNCHANGED <<store, resets>>

Replaced(d, i) == [stored EXCEPT ![d] = instance[i].upTo]

Added(i) == Append(stored, instance[i].upTo)

-----------------------------------------------------------------------------
(* SQLite *)

\* Mutant: the INSERT replaces a row that is there.
MayReplaceRow(i) == instance[i].last \in {0, LastOf(stored)}

\* UPDATE ... WHERE last_processed_checkpoint = what the instance holds; where
\* it holds null, an INSERT that a row which is there makes fail.
MayWriteRow(i) ==
  IF instance[i].last = 0 THEN stored = <<>>
  ELSE stored # <<>> /\ stored[1] = instance[i].last

StoreSQLite(i) ==
  /\ store = "sqlite" /\ instance[i].state = "storing"
  /\ \/ MayWriteRow(i) /\ Written(i, <<instance[i].upTo>>)
     \/ ~MayWriteRow(i) /\ Refused(i)

\* The write is answered, then the commit fails: the row and the effects are
\* rolled back, the checkpoint in the process is not.
FailCommit(i) ==
  /\ store = "sqlite" /\ instance[i].state = "storing" /\ MayWriteRow(i)
  /\ Stopped(i, instance[i].upTo)
  /\ UNCHANGED <<store, stored, handled, told, resets>>

-----------------------------------------------------------------------------
(* EventStoreDB *)

\* Mutant: the append expects ANY revision.
IsAnyRevision(i) == instance[i].revision <= Len(stored)

\* The revision kept in the process is the one the append expects.
IsExpectedRevision(i) == instance[i].revision = Len(stored)

StoreEventStoreDB(i) ==
  /\ store = "eventstoredb" /\ instance[i].state = "storing"
  /\ \/ IsExpectedRevision(i) /\ Written(i, Added(i))
     \/ ~IsExpectedRevision(i) /\ Refused(i)

\* Whoever resets appends a null checkpoint, whatever the revision.
Reset ==
  /\ store = "eventstoredb" /\ resets < MaxResets
  /\ stored' = Append(stored, 0)
  /\ told' = 0
  /\ resets' = resets + 1
  /\ UNCHANGED <<store, instance, handled>>

-----------------------------------------------------------------------------
(* MongoDB and in-memory: one call reads, the next one writes. *)

IsAhead(current, i) ==
  IF store = "mongodb"
  THEN \/ stored # <<>> /\ current # instance[i].last
       \/ current # 0 /\ current >= instance[i].upTo
  ELSE current # 0 /\ (\/ current = instance[i].upTo
                       \/ current # instance[i].last)

FindDocument(i) ==
  /\ store \in ReadingFirst /\ instance[i].state = "storing"
  /\ \E current \in Readable :
       \/ IsAhead(current, i) /\ Refused(i)
       \/ /\ ~IsAhead(current, i)
          /\ Becomes(i, [instance[i] EXCEPT !.state = "writing"])
          /\ UNCHANGED <<store, stored, handled, told, resets>>

\* updateOne with upsert: without a document that has the checkpoint which the
\* instance holds, another one is inserted.
UpdateDocument(i) ==
  /\ store = "mongodb" /\ instance[i].state = "writing"
  /\ \/ \E d \in DOMAIN stored :
          stored[d] = instance[i].last /\ Written(i, Replaced(d, i))
     \/ /\ \A d \in DOMAIN stored : stored[d] # instance[i].last
        /\ Written(i, Added(i))

\* The document with the identifier of the processor, whatever is in it.
HandleDocument(i) ==
  /\ store = "inmemory" /\ instance[i].state = "writing"
  /\ Written(i, <<instance[i].upTo>>)

-----------------------------------------------------------------------------
Init ==
  /\ store \in Stores
  /\ stored = <<>>
  /\ instance = [i \in Instances |-> Gone]
  /\ handled = {}
  /\ told = 0
  /\ resets = 0

Step(i) ==
  \/ Start(i) \/ Leave(i) \/ Handle(i) \/ Fail(i)
  \/ StoreSQLite(i) \/ FailCommit(i) \/ StoreEventStoreDB(i)
  \/ FindDocument(i) \/ UpdateDocument(i) \/ HandleDocument(i)

Next == (\E i \in Instances : Step(i)) \/ Reset

Spec == Init /\ [][Next]_vars

-----------------------------------------------------------------------------
(* Properties *)

TypeOK ==
  /\ store \in Stores
  /\ stored \in Seq(Checkpoints)
  /\ store # "eventstoredb" => resets = 0
  /\ instance \in [Instances -> TypeOfInstance]
  /\ \A i \in Instances : instance[i].state = "storing" => Batch(i) # {}
  /\ handled \subseteq 1..MaxMessages
  /\ told \in Checkpoints
  /\ resets \in 0..MaxResets

\* A checkpoint that a start may read covers handled messages only: whatever
\* fails, is refused, is lost or reset, no message is passed over.
CheckpointCoversHandled ==
  \A d \in DOMAIN stored : 1..stored[d] \subseteq handled

\* An instance that starts anew reads at least what an instance was told to be
\* stored: of those who store at once, one is told so.  In SQLite the answer
\* within the transaction is not yet that: the commit's is.
WhatWasToldIsRead == \A c \in Readable : c >= told

\* The revision that a process keeps is that of the checkpoint which its
\* instance holds: an append that expects it replaces that checkpoint.
RevisionIsOfTheCheckpoint ==
  store = "eventstoredb" =>
    \A i \in Instances :
      LET kept == instance[i].revision
      IN  /\ kept <= Len(stored)
          /\ instance[i].last = IF kept = 0 THEN 0 ELSE stored[kept]

Register == INSTANCE CheckpointRegister
  WITH value <- LastOf(stored),
       held  <- [i \in Instances |-> instance[i].last],
       transactional <- IsTransactional

\* The checkpoint moves on from what the instance that stores it holds, and in
\* no other way but a reset: a lost race is answered, never won.  What an
\* instance holds is the checkpoint or was, but for a commit that failed.
ImplementsRegister == Register!Spec
=============================================================================
