------------------------------ MODULE Consumer ------------------------------
(***************************************************************************)
(* A consumer: it starts its processors, reads their source from the       *)
(* earliest of their positions, collects messages in chunks and hands each *)
(* chunk to all processors that are active, each with its own checkpoint.  *)
(* start and stop may be called at any time, processors stop and fail one  *)
(* by one, subscriptions break and the process crashes.                    *)
(*                                                                         *)
(* A message is its checkpoint, its place in the log; position 0 is        *)
(* BEGINNING, all messages are after it.  A processor handles its part of  *)
(* a chunk and stores its checkpoint in one step (how that may fail is in  *)
(* PostgresProcessor).                                                     *)
(***************************************************************************)
EXTENDS Naturals, Sequences, FiniteSets, FiniteSetsExt

CONSTANTS Processors,
          END, NotStarted,  \* positions that are not numbers
          StartFrom,        \* startFrom of each processor, 0 or END
          Setups,           \* kinds of sources, and conditions to stop
          Faults,           \* what may go wrong
          BatchSize,
          MaxChange,        \* bound: messages of one change
          MaxMessages,      \* bound: messages in the log
          MaxStarts         \* bound: calls of start

Sources == {"polling", "changes"}

ASSUME ConsumerAssumption ==
  /\ Processors # {}          \* checked by start
  /\ END \notin Nat /\ NotStarted \notin Nat /\ END # NotStarted
  /\ StartFrom \in [Processors -> {0, END}]
  /\ Setups \subseteq [source : Sources, until : BOOLEAN]
  /\ Faults \subseteq {"stop", "error", "reject", "start", "source", "break", "crash"}
  /\ BatchSize \in Nat \ {0}
  /\ MaxChange \in Nat /\ MaxMessages \in Nat /\ MaxStarts \in Nat

VARIABLES
  setup,       \* is the source polled, or a change stream? until caught up?
  log,         \* for each message the last one of its change
  checkpoint,  \* stored checkpoints, 0 without one
  processor,   \* isActive and lastCheckpoint of each
  handled,     \* what each has handled
  since,       \* where each began that was started from END
  isRunning,
  stopping,    \* is stop awaiting the end of the run?
  starts,      \* how often start was called
  run          \* what the last start has set off

store == <<log, checkpoint, handled, since>>
vars == <<setup, store, processor, isRunning, stopping, starts, run>>

-----------------------------------------------------------------------------
(* The source *)

LogEnd == Len(log)

Changes == setup.source = "changes"

\* Where the source goes on from a position: a resume token names a change.
After(position) ==
  IF Changes /\ position # 0 THEN log[position] ELSE position

\* One query brings a change, or a batch.
Horizon(position) ==
  IF position = LogEnd THEN position
  ELSE IF Changes THEN log[position + 1]
  ELSE Min({position + BatchSize, LogEnd})

\* Mutant: nothing is left after any query.
NothingLeft(position) == FALSE

\* Does it say that there is more?
AnyLeft(position) ==
  IF Changes THEN position < LogEnd ELSE Horizon(position) < LogEnd

-----------------------------------------------------------------------------
(* Runs and processors *)

In(phase) == run.phase = phase

NoRun ==
  [phase |-> "ended", aborted |-> FALSE, drained |-> FALSE,
   positions |-> [p \in Processors |-> NotStarted], promised |-> 0,
   subscribed |-> FALSE, at |-> 0, horizon |-> 0, left |-> TRUE,
   given |-> FALSE, resumable |-> TRUE,
   chunk |-> <<>>, caughtUp |-> FALSE,
   pending |-> {}, carryOn |-> FALSE, rejected |-> FALSE]

Inactive == [active |-> FALSE, checkpoint |-> 0]

Active == {p \in Processors : processor[p].active}

EarliestPosition(positions) == Min({positions[p] : p \in Processors})

\* The loop is left: isRunning is reset before the processors are closed.
Leave(drained) ==
  /\ run' = [NoRun EXCEPT !.phase = "closing", !.drained = drained]
  /\ isRunning' = FALSE

Start ==
  /\ ~isRunning /\ In("ended") /\ ~stopping /\ starts < MaxStarts
  /\ isRunning' = TRUE
  /\ starts' = starts + 1
  /\ run' = [NoRun EXCEPT !.phase = "starting"]
  /\ processor' = [p \in Processors |-> [processor[p] EXCEPT !.active = TRUE]]
  /\ UNCHANGED <<setup, store, stopping>>

\* A processor goes on from the checkpoint in memory, or reads the stored one.
StartProcessor(p) ==
  LET last == IF processor[p].checkpoint # 0 THEN processor[p].checkpoint
              ELSE checkpoint[p]
  IN  /\ In("starting") /\ run.positions[p] = NotStarted
      /\ processor' = [processor EXCEPT ![p].checkpoint = last]
      /\ run' = [run EXCEPT !.positions[p] = IF last # 0 THEN last ELSE StartFrom[p]]
      /\ UNCHANGED <<setup, store, isRunning, stopping, starts>>

\* Initialisation, or the start of one processor, fails: the run fails.
FailStart ==
  /\ "start" \in Faults
  /\ In("starting") /\ \E p \in Processors : run.positions[p] = NotStarted
  /\ Leave(FALSE)
  /\ UNCHANGED <<setup, store, processor, stopping, starts>>

\* END is the last checkpoint at the time.
ResolvePositions ==
  LET atEnd == {p \in Processors : run.positions[p] = END}
      Resolved(positions) ==
        [p \in Processors |-> IF p \in atEnd THEN LogEnd ELSE positions[p]]
  IN  /\ In("starting")
      /\ \A p \in Processors : run.positions[p] # NotStarted
      /\ run' = [run EXCEPT !.phase = "started", !.positions = Resolved(@)]
      /\ since' = Resolved(since)
      /\ UNCHANGED <<setup, log, checkpoint, handled, processor, isRunning,
                     stopping, starts>>

\* whenStarted is resolved: from now on all messages are picked up.
ReportStarted ==
  /\ In("started")
  /\ run' = [run EXCEPT !.phase = "reading", !.promised = LogEnd,
                        !.at = EarliestPosition(run.positions)]
  /\ UNCHANGED <<setup, store, processor, isRunning, stopping, starts>>

\* A change stream that is told to resume from nowhere throws, each time.
Subscribe ==
  /\ In("reading") /\ ~run.aborted /\ ~run.subscribed /\ run.resumable
  /\ run' = [run EXCEPT !.subscribed = TRUE, !.at = After(@),
                        !.horizon = After(run.at), !.left = TRUE, !.given = FALSE]
  /\ UNCHANGED <<setup, store, processor, isRunning, stopping, starts>>

\* Mutant: a chunk is full with one too many.
HasRoomForMore == Len(run.chunk) <= BatchSize

HasRoom == Len(run.chunk) + (IF run.caughtUp THEN 1 ELSE 0) < BatchSize

Reads == In("reading") /\ ~run.aborted /\ run.subscribed /\ HasRoom

Query ==
  /\ Reads /\ run.at = run.horizon /\ run.left
  /\ run' = [run EXCEPT !.horizon = Horizon(run.at), !.left = AnyLeft(run.at)]
  /\ UNCHANGED <<setup, store, processor, isRunning, stopping, starts>>

\* The chunk takes the next message, whose checkpoint is kept to go on from.
Pull ==
  /\ Reads /\ run.at < run.horizon
  /\ run' = [run EXCEPT !.at = @ + 1, !.chunk = Append(@, run.at + 1),
                        !.given = TRUE, !.resumable = TRUE]
  /\ UNCHANGED <<setup, store, processor, isRunning, stopping, starts>>

\* A source with nothing left says so, and looks again.  The notice of a change
\* stream that gave nothing has checkpoint '0', and that is kept as well.
CatchUp ==
  /\ Reads /\ run.at = run.horizon /\ ~run.left
  /\ run' = [run EXCEPT !.caughtUp = TRUE, !.left = TRUE,
                        !.resumable = ~Changes \/ run.given]
  /\ UNCHANGED <<setup, store, processor, isRunning, stopping, starts>>

\* A change stream breaks or ends, and is to be opened again.  (One that breaks
\* before it has answered at all leaves no trace.)
Break ==
  /\ "break" \in Faults /\ Changes
  /\ Reads /\ run.at = run.horizon /\ (run.given \/ ~run.left)
  /\ run' = [run EXCEPT !.subscribed = FALSE]
  /\ UNCHANGED <<setup, store, processor, isRunning, stopping, starts>>

\* An error that is not retried.
FailSource ==
  /\ "source" \in Faults
  /\ In("reading")
  /\ Leave(FALSE)
  /\ UNCHANGED <<setup, store, processor, stopping, starts>>

\* Mutant: only a full chunk is handed over.
IsFull == ~HasRoom \/ (run.chunk = <<>> /\ run.caughtUp)

\* A chunk is full, or its deadline is reached.
IsDue == run.chunk # <<>> \/ run.caughtUp

\* Mutant: the checkpoint alone tells what a processor is given.
NotHandled(p, message) == message > processor[p].checkpoint

\* What a processor is given of a chunk: after its start, after its checkpoint.
IsFor(p, message) ==
  message > run.positions[p] /\ message > processor[p].checkpoint

\* A chunk is in the order of the log, so what it has not to be given is first.
PassedBy(p) == {i \in DOMAIN run.chunk : ~IsFor(p, run.chunk[i])}

PartOf(p) == SubSeq(run.chunk, Cardinality(PassedBy(p)) + 1, Len(run.chunk))

\* The chunk goes to the active processors; an abort may still come with it.
Flush ==
  /\ In("reading") /\ IsDue
  /\ \/ /\ run.chunk = <<>> /\ setup.until
        /\ Leave(TRUE)
     \/ /\ run.chunk = <<>> /\ ~setup.until
        /\ run' = [run EXCEPT !.caughtUp = FALSE]
        /\ UNCHANGED isRunning
     \/ /\ run.chunk # <<>> /\ Active = {}
        /\ Leave(FALSE)
     \/ /\ run.chunk # <<>> /\ Active # {}
        /\ run' = [run EXCEPT !.phase = "handling", !.pending = Active,
                              !.carryOn = FALSE, !.rejected = FALSE]
        /\ UNCHANGED isRunning
  /\ UNCHANGED <<setup, store, processor, stopping, starts>>

\* The processor has handled the first messages of its part, and answers.
Handles(p, done, active) ==
  LET last == IF done = <<>> THEN processor[p].checkpoint ELSE done[Len(done)]
  IN  /\ handled' = [handled EXCEPT ![p] = @ \o done]
      /\ checkpoint' = [checkpoint EXCEPT ![p] = IF done = <<>> THEN @ ELSE last]
      /\ processor' = [processor EXCEPT ![p] = [active |-> active, checkpoint |-> last]]
      /\ run' = [run EXCEPT !.pending = @ \ {p}, !.carryOn = @ \/ active]

HandleBatch(p) ==
  /\ In("handling") /\ p \in run.pending
  /\ Handles(p, PartOf(p), TRUE)
  /\ UNCHANGED <<setup, log, since, isRunning, stopping, starts>>

\* The processor stops with a message: an error says it was not handled.
StopInBatch(p) ==
  /\ In("handling") /\ p \in run.pending
  /\ \E i \in DOMAIN PartOf(p) :
       \/ "stop" \in Faults /\ Handles(p, SubSeq(PartOf(p), 1, i), FALSE)
       \/ "error" \in Faults /\ Handles(p, SubSeq(PartOf(p), 1, i - 1), FALSE)
  /\ UNCHANGED <<setup, log, since, isRunning, stopping, starts>>

\* A processor of somebody else's making rejects.
RejectBatch(p) ==
  /\ "reject" \in Faults
  /\ In("handling") /\ p \in run.pending
  /\ run' = [run EXCEPT !.pending = @ \ {p}, !.rejected = TRUE]
  /\ UNCHANGED <<setup, store, processor, isRunning, stopping, starts>>

\* Everybody has answered: a rejection ends the run, and so does STOP of all.
EndBatch ==
  LET goesOn == ~run.rejected /\ run.carryOn
  IN  /\ In("handling") /\ run.pending = {}
      /\ \/ ~goesOn /\ Leave(FALSE)
         \/ goesOn /\ run.caughtUp /\ setup.until /\ Leave(TRUE)
         \/ /\ goesOn /\ ~(run.caughtUp /\ setup.until)
            /\ run' = [run EXCEPT !.phase = "reading", !.chunk = <<>>,
                                  !.caughtUp = FALSE]
            /\ UNCHANGED isRunning
      /\ UNCHANGED <<setup, store, processor, stopping, starts>>

\* Mutant: an abort is seen when the source gives a message.
SeesAbortLate == run.aborted /\ run.at < LogEnd

SeesAbort == run.aborted

\* A chunk that did not get out is dropped.
Abort ==
  /\ In("reading") /\ SeesAbort
  /\ Leave(FALSE)
  /\ UNCHANGED <<setup, store, processor, stopping, starts>>

CloseProcessors ==
  /\ In("closing")
  /\ processor' = [p \in Processors |-> [processor[p] EXCEPT !.active = FALSE]]
  /\ run' = NoRun
  /\ UNCHANGED <<setup, store, isRunning, stopping, starts>>

-----------------------------------------------------------------------------
(* Callers *)

Stop ==
  /\ isRunning
  /\ isRunning' = FALSE
  /\ run' = [run EXCEPT !.aborted = TRUE]
  /\ stopping' = TRUE
  /\ UNCHANGED <<setup, store, processor, starts>>

ReturnFromStop ==
  /\ stopping /\ In("ended")
  /\ stopping' = FALSE
  /\ UNCHANGED <<setup, store, processor, isRunning, starts, run>>

\* An append is one change.
Publish ==
  /\ \E size \in 1..MaxChange :
       /\ LogEnd + size <= MaxMessages
       /\ log' = log \o [i \in 1..size |-> LogEnd + size]
  /\ UNCHANGED <<setup, checkpoint, handled, since, processor, isRunning,
                 stopping, starts, run>>

Crash ==
  /\ "crash" \in Faults
  /\ processor' = [p \in Processors |-> Inactive]
  /\ run' = NoRun /\ isRunning' = FALSE /\ stopping' = FALSE
  /\ UNCHANGED <<setup, store, starts>>

-----------------------------------------------------------------------------

Init ==
  /\ setup \in Setups
  /\ log = <<>>
  /\ checkpoint = [p \in Processors |-> 0]
  /\ processor = [p \in Processors |-> Inactive]
  /\ handled = [p \in Processors |-> <<>>]
  /\ since = [p \in Processors |-> 0]
  /\ isRunning = FALSE /\ stopping = FALSE /\ starts = 0
  /\ run = NoRun

\* What a run does by itself.
Proceed ==
  \/ \E p \in Processors : StartProcessor(p) \/ HandleBatch(p)
  \/ ResolvePositions \/ ReportStarted
  \/ Subscribe \/ Query \/ Pull \/ CatchUp
  \/ EndBatch \/ CloseProcessors

Fail ==
  \/ FailStart \/ Break \/ FailSource
  \/ \E p \in Processors : StopInBatch(p) \/ RejectBatch(p)

Next ==
  \/ Start \/ Stop \/ ReturnFromStop \/ Publish \/ Crash
  \/ Proceed \/ Flush \/ Abort \/ Fail

Spec == Init /\ [][Next]_vars

\* Sources, stores and handlers answer, deadlines fire and an abort is heard;
\* nobody has to call start or stop.
Fairness ==
  /\ WF_vars(ReturnFromStop)
  /\ WF_vars(Proceed) /\ WF_vars(Flush) /\ WF_vars(Abort)

FairSpec == Spec /\ Fairness

-----------------------------------------------------------------------------
(* Properties *)

Phases == {"ended", "starting", "started", "reading", "handling", "closing"}

Positions == (0..MaxMessages) \union {END, NotStarted}

\* The state of a consumer has the shape its code gives it.
TypeOK ==
  /\ setup \in Setups
  /\ log \in Seq(1..MaxMessages) /\ LogEnd <= MaxMessages
  /\ checkpoint \in [Processors -> 0..LogEnd]
  /\ processor \in [Processors -> [active : BOOLEAN, checkpoint : 0..LogEnd]]
  /\ \A p \in Processors : handled[p] \in Seq(1..LogEnd)
  /\ since \in [Processors -> 0..LogEnd]
  /\ isRunning \in BOOLEAN /\ stopping \in BOOLEAN /\ starts \in 0..MaxStarts
  /\ run.phase \in Phases
  /\ run.positions \in [Processors -> Positions]
  /\ run.promised \in 0..LogEnd
  /\ run.at \in 0..run.horizon \/ ~run.subscribed
  /\ run.horizon \in 0..LogEnd
  /\ run.chunk \in Seq(1..LogEnd) /\ Len(run.chunk) <= BatchSize
  /\ run.pending \subseteq Processors

Reached(p) == IF checkpoint[p] = 0 THEN since[p] ELSE checkpoint[p]

\* A processor has handled every message from where it began to its stored
\* checkpoint, each one once and in order, whatever the other processors of
\* the consumer need of the same source, and however often it was stopped,
\* failed, was broken off or crashed.
NothingIsPassedOver ==
  \A p \in Processors :
    handled[p] = [i \in 1..(Reached(p) - since[p]) |-> since[p] + i]

\* A run that ends because it has caught up has given every processor that is
\* still active all messages that were there when whenStarted was resolved.
DrainsWhatWasThere ==
  [][In("closing")' /\ ~In("closing") /\ run'.drained =>
       \A p \in Active : \A m \in since[p] + 1 .. run.promised :
         m \in Range(handled[p])]_vars

HasAll(p) == \A m \in since[p] + 1 .. LogEnd : m \in Range(handled[p])

\* A processor that stays active gets every message, of a broken source too:
\* the source keeps receiving after a live subscription closes.  It is not kept
\* by a change stream that has given nothing before it breaks.
ActiveProcessorsGetEverything ==
  \A p \in Processors : <>[]processor[p].active => []<>HasAll(p)

Resumes == In("reading") => run.subscribed \/ run.resumable

\* A processor that stays active gets every message, as long as the source is
\* open or has a position to go on from.
ResumableSourcesGiveEverything ==
  \A p \in Processors :
    <>[](processor[p].active /\ Resumes) => []<>HasAll(p)

\* stop comes back, whatever the run was at when it was called.
StopReturns == stopping ~> ~stopping

=============================================================================
