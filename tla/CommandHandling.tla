--------------------------- MODULE CommandHandling ---------------------------
(***************************************************************************)
(* Command handlers that work on one stream of an event store: aggregate   *)
(* the stream, decide, append with the version that was read, and retry    *)
(* when another append came first.  The store is one of the five the       *)
(* repository has; each appends in steps of its own, with its inline       *)
(* projection, whose document is here the list of the messages it holds.   *)
(* Hooks after the commit change nothing here and cannot fail an append.   *)
(* A call to a database may fail before it takes effect, or after it, when *)
(* the answer is lost; which of the two it was is decided when the caller  *)
(* is told of the failure.                                                 *)
(*                                                                         *)
(* A stream's version is its length; 0 stands for a stream that does not   *)
(* exist (EventStoreDB counts from -1).  PostgreSQL's statements are those *)
(* of PostgresMessageLog, as the client sees them.                         *)
(***************************************************************************)
EXTENDS Naturals, Sequences, FiniteSets

CONSTANTS Clients,
          Stores,                   \* those the run looks at
          NO_CONCURRENCY_CHECK, STREAM_DOES_NOT_EXIST, STREAM_EXISTS,
          NotGiven,                 \* the caller expects nothing
          ExpectedVersions,         \* what callers pass
          MaxRetries,               \* retries of onVersionConflict
          MaxAppendSize,            \* bound: messages of one decision
          MaxCommands               \* bound: commands of all clients

Transactional == {"postgres", "sqlite"}

ASSUME CommandAssumption ==
  /\ Stores \subseteq Transactional \cup {"memory", "mongo", "esdb"}
  /\ MaxRetries \in Nat /\ MaxAppendSize \in Nat \ {0} /\ MaxCommands \in Nat
  /\ NotGiven \notin Nat
  /\ {NO_CONCURRENCY_CHECK, STREAM_DOES_NOT_EXIST, STREAM_EXISTS} \cap Nat = {}
  /\ NO_CONCURRENCY_CHECK \notin {STREAM_DOES_NOT_EXIST, STREAM_EXISTS, NotGiven}
  /\ STREAM_DOES_NOT_EXIST \notin {STREAM_EXISTS, NotGiven}
  /\ STREAM_EXISTS # NotGiven
  /\ ExpectedVersions \subseteq
       Nat \cup {NO_CONCURRENCY_CHECK, STREAM_DOES_NOT_EXIST, STREAM_EXISTS,
                 NotGiven}

VARIABLES
  store,      \* which of the stores this is
  stream,     \* committed messages
  readModel,  \* committed state of the inline projection
  handling,   \* the command that each client has in hand
  outcomes    \* what each client was told, one by one

vars == <<store, stream, readModel, handling, outcomes>>

-----------------------------------------------------------------------------
(* Expected versions *)

matchesExpectedVersion(current, expected) ==
  \/ expected = NO_CONCURRENCY_CHECK
  \/ expected = STREAM_DOES_NOT_EXIST /\ current = 0
  \/ expected = STREAM_EXISTS /\ current # 0
  \/ expected \in Nat /\ current = expected

\* PostgreSQL and SQLite compare with nothing but a number.
hasExpectedNumber(expected) == expected \in Nat

\* Mutant: the index of the last message instead of the number of messages.
expectedLastIndex(h) ==
  IF h.option # NotGiven THEN h.option
  ELSE IF h.seen = 0 THEN STREAM_DOES_NOT_EXIST ELSE h.seen - 1

\* Mutant: what the caller expects is all that the append expects.
expectedByCallerOnly(h) ==
  IF h.option = NotGiven THEN NO_CONCURRENCY_CHECK ELSE h.option

\* What the caller expects, else the version that was aggregated.
expectedStreamVersion(h) ==
  IF h.option # NotGiven THEN h.option
  ELSE IF h.seen = 0 THEN STREAM_DOES_NOT_EXIST ELSE h.seen

-----------------------------------------------------------------------------
(* A command *)

Idle == [phase |-> "idle"]

At(c, phase) == handling[c].phase = phase

\* The messages that the decision will append, number nr of size each.
Decided(c) ==
  LET h == handling[c]
  IN  [nr \in 1..h.size |->
         [by |-> <<c, Len(outcomes[c]) + 1>>, nr |-> nr, size |-> h.size,
          seen |-> h.seen, option |-> h.option]]

\* The call returns or throws.
Tell(c, outcome) ==
  /\ handling' = [handling EXCEPT ![c] = Idle]
  /\ outcomes' = [outcomes EXCEPT ![c] = Append(@, outcome)]

\* A write has taken effect.  When its answer is lost the call throws all the
\* same, and is not retried: only version conflicts are.
Answers == {"appended", "failed"}

Step(c, phase) ==
  /\ handling' = [handling EXCEPT ![c].phase = phase]
  /\ UNCHANGED outcomes

\* An ExpectedVersionConflictError: the whole command is handled again, from
\* the aggregation on, as often as the policy allows.
ConflictAfter(c, option, tries) ==
  IF tries < MaxRetries
    THEN /\ handling' = [handling EXCEPT
              ![c] = [phase |-> "retrying", option |-> option,
                      tries |-> tries + 1]]
         /\ UNCHANGED outcomes
    ELSE Tell(c, "conflict")

Conflict(c) == ConflictAfter(c, handling[c].option, handling[c].tries)

\* The reading fails fast when the stream is not as the caller expects; MongoDB
\* does not compare a stream that does not exist.
CanRead(option) ==
  \/ option = NotGiven
  \/ matchesExpectedVersion(Len(stream), option)
  \/ store = "mongo" /\ stream = <<>>

\* The stream is read and the handlers decide: REJECT, STOP, SKIP or no
\* messages append nothing, an error of the reading or of a handler ends the
\* call; else the messages of all handlers up to the one that stopped are
\* appended at once.  Handlers share no state, so this is one step.
AggregateAndDecide(c, option, tries) ==
  /\ IF CanRead(option)
       THEN \/ \E outcome \in {"unchanged", "failed"} : Tell(c, outcome)
            \/ /\ \E size \in 1..MaxAppendSize :
                   handling' = [handling EXCEPT
                     ![c] = [phase |-> "appending", option |-> option,
                             tries |-> tries, seen |-> Len(stream),
                             size |-> size, base |-> 0, done |-> 0,
                             found |-> <<>>]]
               /\ UNCHANGED outcomes
       ELSE ConflictAfter(c, option, tries)
  /\ UNCHANGED <<store, stream, readModel>>

CommandsOf(c) == Len(outcomes[c]) + (IF At(c, "idle") THEN 0 ELSE 1)

CommandsGiven ==
  UNION {{c} \X (1..CommandsOf(c)) : c \in Clients}

Handle(c, option) ==
  /\ At(c, "idle")
  /\ Cardinality(CommandsGiven) < MaxCommands
  /\ AggregateAndDecide(c, option, 0)

Retry(c) ==
  /\ At(c, "retrying")
  /\ AggregateAndDecide(c, handling[c].option, handling[c].tries)

-----------------------------------------------------------------------------
(* In-memory store *)

\* The check and the write are one turn of the event loop; the inline
\* projection is awaited after it.
AppendToMemory(c) ==
  /\ store = "memory" /\ At(c, "appending")
  /\ IF matchesExpectedVersion(Len(stream), expectedStreamVersion(handling[c]))
       THEN /\ stream' = stream \o Decided(c)
            /\ Step(c, "projecting")
       ELSE Conflict(c) /\ UNCHANGED stream
  /\ UNCHANGED <<store, readModel>>

\* handle of a collection awaits the document ...
FindDocument(c) ==
  /\ store = "memory" /\ At(c, "projecting")
  /\ handling' = [handling EXCEPT ![c].phase = "found", ![c].found = readModel]
  /\ UNCHANGED <<store, stream, readModel, outcomes>>

\* ... and puts the evolved one in its place, whatever is there by now; a
\* document that was missing is only inserted when it still is.
PutDocument(c) ==
  LET h == handling[c]
      evolved == Append(h.found, Decided(c)[h.done + 1])
  IN  /\ store = "memory" /\ At(c, "found")
      /\ readModel' = IF h.found = <<>> /\ readModel # <<>> THEN readModel
                      ELSE evolved
      /\ IF h.done + 1 = h.size THEN Tell(c, "appended")
         ELSE /\ handling' = [handling EXCEPT ![c].phase = "projecting",
                                              ![c].done = h.done + 1,
                                              ![c].found = <<>>]
              /\ UNCHANGED outcomes
      /\ UNCHANGED <<store, stream>>

\* The projection throws: the call fails, what it wrote stays.
FailProjection(c) ==
  /\ store = "memory" /\ At(c, "projecting")
  /\ Tell(c, "failed")
  /\ UNCHANGED <<store, stream, readModel>>

-----------------------------------------------------------------------------
(* All databases *)

\* The append fails before anything is written, with an error that is not a
\* version conflict: no connection, no answer in time, a request refused.
FailAppend(c) ==
  /\ store # "memory" /\ At(c, "appending")
  /\ Tell(c, "failed")
  /\ UNCHANGED <<store, stream, readModel>>

-----------------------------------------------------------------------------
(* PostgreSQL and SQLite *)

\* The position is read in the append's transaction; SQLite compares at once.
ReadPosition(c) ==
  LET expected == expectedStreamVersion(handling[c])
  IN  /\ store \in Transactional /\ At(c, "appending")
      /\ IF /\ store = "sqlite" /\ hasExpectedNumber(expected)
            /\ expected # Len(stream)
           THEN Conflict(c)
           ELSE /\ handling' = [handling EXCEPT
                     ![c].phase = "positioned",
                     ![c].base = IF hasExpectedNumber(expected) THEN expected
                                 ELSE Len(stream)]
                /\ UNCHANGED outcomes
      /\ UNCHANGED <<store, stream, readModel>>

\* Mutant: the row is locked when it is read, and nobody gives way.
RowIsReadByNobody(c) ==
  \A d \in Clients \ {c} : ~At(d, "written") /\ ~At(d, "positioned")

\* Another transaction that has written the stream's row is waited for.
RowIsFree(c) == \A d \in Clients \ {c} : ~At(d, "written")

\* INSERT or UPDATE of the stream's row, and INSERT of the messages.
WriteStream(c) ==
  /\ store \in Transactional /\ At(c, "positioned")
  /\ RowIsFree(c)
  /\ IF handling[c].base = Len(stream) THEN Step(c, "written") ELSE Conflict(c)
  /\ UNCHANGED <<store, stream, readModel>>

\* Before the commit the inline projection is run in the same transaction.
\* The commit may take effect and its answer be lost.
CommitAppend(c) ==
  /\ store \in Transactional /\ At(c, "written")
  /\ stream' = stream \o Decided(c)
  /\ readModel' = readModel \o Decided(c)
  /\ \E answer \in Answers : Tell(c, answer)
  /\ UNCHANGED store

\* A projection or a hook fails, the database is busy, or the connection is
\* lost before the commit took effect: the transaction is rolled back.
RollbackAppend(c) ==
  /\ store \in Transactional /\ (At(c, "positioned") \/ At(c, "written"))
  /\ Tell(c, "failed")
  /\ UNCHANGED <<store, stream, readModel>>

\* Mutant: the result is a conflict, but the transaction is committed.
CommitTheConflict(c) ==
  /\ store \in Transactional /\ At(c, "written")
  /\ stream' = stream \o Decided(c)
  /\ Conflict(c)
  /\ UNCHANGED <<store, readModel>>

\* Any unique violation, of a projection's table too, is taken for a conflict.
ViolateUniqueness(c) ==
  /\ store \in Transactional /\ At(c, "written")
  /\ Conflict(c)
  /\ UNCHANGED <<store, stream, readModel>>

-----------------------------------------------------------------------------
(* MongoDB *)

\* The stream's document holds its position and its read models.
FindStream(c) ==
  /\ store = "mongo" /\ At(c, "appending")
  /\ IF matchesExpectedVersion(Len(stream), expectedStreamVersion(handling[c]))
       THEN /\ handling' = [handling EXCEPT ![c].phase = "positioned",
                                            ![c].base = Len(stream),
                                            ![c].found = readModel]
            /\ UNCHANGED outcomes
       ELSE Conflict(c)
  /\ UNCHANGED <<store, stream, readModel>>

\* Mutant: the update finds the stream by its name alone.
StreamIsThere(c) == TRUE

StreamIsAtPosition(c) == handling[c].base = Len(stream)

\* One update of messages, position and read models, of the document at the
\* position that was found.  With the position moved the upsert inserts a
\* second document of the stream and the unique index refuses it: an error
\* of the driver, not a conflict.  So is an answer that is lost.
UpdateStream(c) ==
  /\ store = "mongo" /\ At(c, "positioned")
  /\ IF StreamIsAtPosition(c)
       THEN /\ stream' = stream \o Decided(c)
            /\ readModel' = handling[c].found \o Decided(c)
            /\ \E answer \in Answers : Tell(c, answer)
       ELSE Tell(c, "failed") /\ UNCHANGED <<stream, readModel>>
  /\ UNCHANGED store

\* An inline projection throws before the update, or the connection is lost
\* before the update took effect.
FailUpdate(c) ==
  /\ store = "mongo" /\ At(c, "positioned")
  /\ Tell(c, "failed")
  /\ UNCHANGED <<store, stream, readModel>>

-----------------------------------------------------------------------------
(* EventStoreDB *)

\* The server compares and appends in one step.  Every error but the wrong
\* version is thrown on, also one that hides a success.
AppendToServer(c) ==
  /\ store = "esdb" /\ At(c, "appending")
  /\ IF matchesExpectedVersion(Len(stream), expectedStreamVersion(handling[c]))
       THEN /\ stream' = stream \o Decided(c)
            /\ \E answer \in Answers : Tell(c, answer)
       ELSE Conflict(c) /\ UNCHANGED stream
  /\ UNCHANGED <<store, readModel>>

-----------------------------------------------------------------------------

Init ==
  /\ store \in Stores
  /\ stream = <<>>
  /\ readModel = <<>>
  /\ handling = [c \in Clients |-> Idle]
  /\ outcomes = [c \in Clients |-> <<>>]

\* What the handler and its store do with a command once it was given.
Proceed(c) ==
  \/ Retry(c)
  \/ AppendToMemory(c) \/ FindDocument(c) \/ PutDocument(c)
  \/ ReadPosition(c) \/ WriteStream(c) \/ CommitAppend(c)
  \/ FindStream(c) \/ UpdateStream(c)
  \/ AppendToServer(c)

Fail(c) ==
  \/ FailProjection(c) \/ FailAppend(c)
  \/ RollbackAppend(c) \/ ViolateUniqueness(c)
  \/ FailUpdate(c)

Next ==
  \E c \in Clients :
    \/ \E option \in ExpectedVersions : Handle(c, option)
    \/ Proceed(c)
    \/ Fail(c)

Spec == Init /\ [][Next]_vars

\* The event loop runs the continuations of every call, databases answer;
\* nothing has to fail.
Fairness == \A c \in Clients : WF_vars(Proceed(c))

FairSpec == Spec /\ Fairness

-----------------------------------------------------------------------------
(* Properties *)

Appended == [by : Clients \X Nat, nr : Nat, size : Nat, seen : Nat,
             option : ExpectedVersions]

Phases == {"appending", "projecting", "found", "positioned", "written"}

ToRetry ==
  [phase : {"retrying"}, option : ExpectedVersions, tries : 0..MaxRetries]

ToAppend ==
  [phase : Phases, option : ExpectedVersions, tries : 0..MaxRetries,
   seen : Nat, size : 1..MaxAppendSize, base : Nat,
   done : 0..MaxAppendSize, found : Seq(Appended)]

Outcomes == {"appended", "unchanged", "conflict", "failed"}

\* Streams and read models hold messages, no command is retried more often
\* than its policy says, and a call ends in one of four ways.
TypeOK ==
  /\ store \in Stores
  /\ stream \in Seq(Appended)
  /\ readModel \in Seq(Appended)
  /\ handling \in [Clients -> ToRetry \cup ToAppend \cup {Idle}]
  /\ outcomes \in [Clients -> Seq(Outcomes)]

AppendedBy(c, k) == {i \in DOMAIN stream : stream[i].by = <<c, k>>}

\* What a caller is told is what happened, however often the command was
\* retried: after a success one whole decision is in the stream, after a
\* conflict or a refusal nothing of it is.  A failure does not say which of
\* the two it was, since an answer may be lost, and an inline projection that
\* throws in memory leaves the messages there; but no part of a decision is in
\* the stream without the rest, and none is there twice.
CallersAreToldTheTruth ==
  \A c \in Clients : \A k \in DOMAIN outcomes[c] :
    /\ outcomes[c][k] = "appended" => AppendedBy(c, k) # {}
    /\ outcomes[c][k] \in {"unchanged", "conflict"} => AppendedBy(c, k) = {}
    /\ \A i \in AppendedBy(c, k) :
         Cardinality(AppendedBy(c, k)) = stream[i].size

\* The version behind a message was read or given, and the store compares it.
\* For a handler that found no stream PostgreSQL and SQLite do not, and MongoDB
\* compares what the caller gave with the append only.
Compared(m) ==
  /\ m.option \in Nat \cup {NotGiven}
  /\ m.seen = 0 => /\ store \in Transactional => m.option # NotGiven
                   /\ store = "mongo" => m.option = NotGiven

Promised ==
  [i \in DOMAIN stream |->
     [by |-> stream[i].by, nr |-> stream[i].nr, size |-> stream[i].size,
      seen |-> stream[i].seen, compared |-> Compared(stream[i])]]

Promise == INSTANCE CompareAndAppend WITH appended <- Promised

\* Command handlers implement compare-and-append: the state that a decision was
\* made on is the state it is appended to, through retries and through the
\* interleavings of the stores' reads, locks and writes.
ImplementsCompareAndAppend == Promise!Spec

\* The same without the exceptions: a handler that found no stream starts one.
\* PostgreSQL and SQLite do not keep it.
DecisionsStandOnWhatTheyRead ==
  \A i \in DOMAIN stream :
    stream[i].option \in Nat \cup {NotGiven} =>
      stream[i].seen = i - stream[i].nr

\* Inline read models are the stream's: at no time does anybody see the one
\* without the other, and no append works on a read model that another append
\* has replaced.  In memory, where appends share a document without a check,
\* the read model still holds nothing twice and nothing that is not appended.
ReadModelFollowsStream ==
  /\ store \in Transactional \cup {"mongo"} => readModel = stream
  /\ \A i \in DOMAIN readModel :
       /\ \E j \in DOMAIN stream : stream[j] = readModel[i]
       /\ \A j \in DOMAIN readModel : readModel[i] = readModel[j] => i = j

\* A caller who expected nothing is told of a conflict only when another append
\* did come between its last read and its own, or when the uniqueness of some
\* table was violated in its transaction: the stores never refuse an append
\* that stands on the end of the stream.
ConflictsAreReal ==
  [][\A c \in Clients :
       (/\ ~At(c, "idle") /\ Len(outcomes'[c]) > Len(outcomes[c])
        /\ outcomes'[c][Len(outcomes'[c])] = "conflict"
        /\ handling[c].option = NotGiven)
       => \/ Len(stream) > handling[c].seen
          \/ At(c, "written")]_vars

\* Every call is answered, though handlers retry and wait for rows that others
\* have locked.
EveryCommandIsAnswered ==
  \A c \in Clients : ~At(c, "idle") ~> At(c, "idle")

=============================================================================
