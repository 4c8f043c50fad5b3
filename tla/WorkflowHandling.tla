-------------------------- MODULE WorkflowHandling --------------------------
(***************************************************************************)
(* One workflow, handled by the instances of its processor over a store    *)
(* whose appends commit by themselves (MongoDB, EventStoreDB): inputs are  *)
(* delivered in the order of the log, recorded in the workflow's stream    *)
(* with the outputs that were decided on, and the checkpoint is stored     *)
(* after the batch.  Nothing keeps two instances from working at once, and *)
(* a crash, or a checkpoint that is refused, has inputs delivered again.   *)
(*                                                                         *)
(* The log holds the messages of all streams, a message's identifier is    *)
(* its index.  "external" messages are inputs in streams of others, all    *)
(* else is in the workflow's stream: "stored" inputs (wf:Type, with the    *)
(* originalMessageId), "output" messages, and "fed" ones, inputs that the  *)
(* output handler made.  With separateInputInboxFromProcessing an input is *)
(* only stored when it comes, and decided on when its copy is delivered.   *)
(***************************************************************************)
EXTENDS Naturals, Sequences, FiniteSets

CONSTANTS Instances,
          Modes,        \* values of separateInputInboxFromProcessing
          MaxRetries,   \* retries of onVersionConflict
          MaxOutputs,   \* bound: outputs of one decision
          MaxInputs,    \* bound for each mode: external inputs
          MaxFed,       \* bound for each mode: inputs of the output handler
          MaxStarts     \* bound: starts of all instances

ASSUME WorkflowAssumption ==
  /\ Modes \subseteq BOOLEAN
  /\ MaxRetries \in Nat /\ MaxOutputs \in Nat /\ MaxStarts \in Nat
  /\ \A mode \in Modes : MaxInputs[mode] \in Nat /\ MaxFed[mode] \in Nat

VARIABLES
  separate,    \* separateInputInboxFromProcessing
  log,         \* messages of all streams
  version,     \* version of the workflow's stream, 0 without a stream
  checkpoint,  \* the stored checkpoint of the processor
  instance,    \* what each instance of the processor does
  starts       \* how often an instance was started

vars == <<separate, log, version, checkpoint, instance, starts>>

-----------------------------------------------------------------------------
(* Messages *)

External == [type |-> "external", of |-> 0, seen |-> 0]

Stored(id, seen) == [type |-> "stored", of |-> id, seen |-> seen]

Output(id, seen) == [type |-> "output", of |-> id, seen |-> seen]

Fed(id) == [type |-> "fed", of |-> id, seen |-> 0]

Number(type) == Cardinality({i \in DOMAIN log : log[i].type = type})

\* Mutant: with an inbox of its own, only what is in there.
CanHandleInbox(message) ==
  message.type \in {"output"}
                     \cup (IF separate THEN {"stored"} ELSE {"external", "fed"})

\* What the processor hands to its handler.
canHandle(message) ==
  message.type \in {"external", "fed", "output"}
                     \cup (IF separate THEN {"stored"} ELSE {})

\* An input that does not bear the workflow's name: it is not a stored copy.
IsRaw(message) == message.type \in {"external", "fed"}

IsInput(message) == message.type # "output"

\* The identifiers that evolving the stream collects, those of stored inputs.
processedInputIds ==
  {log[i].of : i \in {j \in DOMAIN log : log[j].type = "stored"}}

\* Mutant: inputs are recorded, but nobody looks.
WasNeverProcessed(id) == FALSE

WasProcessed(id) == id \in processedInputIds

-----------------------------------------------------------------------------
(* An instance *)

\* position: the last message that was handled; remembered: the checkpoint in
\* memory.
StartedAt(start, phase) ==
  [phase |-> phase, position |-> start, remembered |-> start,
   seen |-> 0, size |-> 0, tries |-> 0]

NotStarted == StartedAt(0, "stopped")

At(p, phase) == instance[p].phase = phase

Becomes(p, state) == instance' = [instance EXCEPT ![p] = state]

\* The identifier of the message in hand, or the next to be handed over.
Current(p) == instance[p].position + 1

HasNext(p) == Current(p) \in DOMAIN log

\* The message in hand was handled: the end of its batch.
Done(p) ==
  Becomes(p, [instance[p] EXCEPT !.phase = "handled", !.position = Current(p),
                                 !.seen = 0, !.size = 0, !.tries = 0])

\* Mutant: a message that fails is passed over.
PassedOver(p) == Done(p)

\* The instance stops; the message in hand was not handled.
Stopped(p) == Becomes(p, StartedAt(instance[p].remembered, "stopped"))

AppendToStream(messages) ==
  /\ log' = log \o messages
  /\ version' = version + Len(messages)

\* The start reads the checkpoint, unless there is one in memory.
Start(p) ==
  LET start == IF instance[p].remembered # 0 THEN instance[p].remembered
               ELSE checkpoint
  IN  /\ At(p, "stopped")
      /\ starts < MaxStarts
      /\ starts' = starts + 1
      /\ Becomes(p, StartedAt(start, "idle"))
      /\ UNCHANGED <<separate, log, version, checkpoint>>

Skip(p) ==
  /\ At(p, "idle") /\ HasNext(p) /\ ~canHandle(log[Current(p)])
  /\ Done(p)
  /\ UNCHANGED <<separate, log, version, checkpoint, starts>>

\* The inbox of its own: an input is stored without a look at the stream.
StoreInput(p) ==
  /\ separate
  /\ At(p, "idle") /\ HasNext(p) /\ IsRaw(log[Current(p)])
  /\ AppendToStream(<<Stored(Current(p), version)>>)
  /\ Done(p)
  /\ UNCHANGED <<separate, checkpoint, starts>>

\* The stream is aggregated and the workflow decides, unless the input was
\* processed.  Outputs that middleware rejects or skips are not appended; a
\* stored input without outputs has nothing to append.
AggregateAndDecide(p) ==
  /\ At(p, "idle") \/ At(p, "retrying")
  /\ HasNext(p) /\ canHandle(log[Current(p)]) /\ IsInput(log[Current(p)])
  /\ separate => ~IsRaw(log[Current(p)])
  /\ \/ WasProcessed(Current(p)) /\ Done(p)
     \/ /\ ~WasProcessed(Current(p))
        /\ \E size \in 0..MaxOutputs :
             IF separate /\ size = 0 THEN Done(p)
             ELSE Becomes(p, [instance[p] EXCEPT !.phase = "appending",
                                                 !.seen = version,
                                                 !.size = size])
  /\ UNCHANGED <<separate, log, version, checkpoint, starts>>

Outputs(p) ==
  [nr \in 1..instance[p].size |-> Output(Current(p), instance[p].seen)]

\* The input and its outputs in one append; a stored input is there already.
Decision(p) ==
  IF separate THEN Outputs(p)
  ELSE <<Stored(Current(p), instance[p].seen)>> \o Outputs(p)

\* Mutant: the append expects nothing.
IsAnywhere(p) == TRUE

IsAsAggregated(p) == instance[p].seen = version

Retrying(p) ==
  Becomes(p, [instance[p] EXCEPT !.phase = "retrying", !.seen = 0, !.size = 0,
                                 !.tries = @ + 1])

\* After a conflict the input is aggregated and decided on again, as often as
\* the policy allows.
Conflict(p) ==
  IF instance[p].tries < MaxRetries THEN Retrying(p) ELSE Stopped(p)

\* The append expects the version that was aggregated.
AppendDecision(p) ==
  /\ At(p, "appending")
  /\ IF IsAsAggregated(p) THEN AppendToStream(Decision(p)) /\ Done(p)
                          ELSE Conflict(p) /\ UNCHANGED <<log, version>>
  /\ UNCHANGED <<separate, checkpoint, starts>>

\* The output handler's answer, if any, is an input of the same workflow.
HandleOutput(p) ==
  /\ At(p, "idle") /\ HasNext(p) /\ log[Current(p)].type = "output"
  /\ \/ UNCHANGED <<log, version>>
     \/ Number("fed") < MaxFed[separate] /\ AppendToStream(<<Fed(Current(p))>>)
  /\ Done(p)
  /\ UNCHANGED <<separate, checkpoint, starts>>

\* The checkpoint of a batch is stored when it was handled.  The checkpointer
\* compares with what the instance has stored or read before; a refusal is
\* passed over.
StoreCheckpoint(p) ==
  /\ At(p, "handled")
  /\ IF checkpoint = instance[p].remembered
       THEN /\ checkpoint' = instance[p].position
            /\ Becomes(p, StartedAt(instance[p].position, "idle"))
       ELSE /\ Becomes(p, [instance[p] EXCEPT !.phase = "idle"])
            /\ UNCHANGED checkpoint
  /\ UNCHANGED <<separate, log, version, starts>>

\* The workflow, its middleware, the output handler or the store throws.
Fail(p) ==
  /\ \/ At(p, "retrying") \/ At(p, "appending")
     \/ At(p, "idle") /\ HasNext(p) /\ canHandle(log[Current(p)])
  /\ Stopped(p)
  /\ UNCHANGED <<separate, log, version, checkpoint, starts>>

Crash(p) ==
  /\ instance[p] # NotStarted
  /\ Becomes(p, NotStarted)
  /\ UNCHANGED <<separate, log, version, checkpoint, starts>>

Publish ==
  /\ Number("external") < MaxInputs[separate]
  /\ log' = Append(log, External)
  /\ UNCHANGED <<separate, version, checkpoint, instance, starts>>

-----------------------------------------------------------------------------

Init ==
  /\ separate \in Modes
  /\ log = <<>>
  /\ version = 0
  /\ checkpoint = 0
  /\ instance = [p \in Instances |-> NotStarted]
  /\ starts = 0

\* What an instance that was started does by itself.
Proceed(p) ==
  \/ Skip(p) \/ StoreInput(p) \/ AggregateAndDecide(p) \/ AppendDecision(p)
  \/ HandleOutput(p) \/ StoreCheckpoint(p)

Next ==
  \/ Publish
  \/ \E p \in Instances : Start(p) \/ Proceed(p) \/ Fail(p) \/ Crash(p)

Spec == Init /\ [][Next]_vars

\* Subscriptions deliver and handlers return; nobody has to start an instance.
Fairness == \A p \in Instances : WF_vars(Proceed(p))

FairSpec == Spec /\ Fairness

-----------------------------------------------------------------------------
(* Properties *)

Messages ==
  [type : {"external", "stored", "output", "fed"}, of : Nat, seen : Nat]

States ==
  [phase : {"stopped", "idle", "retrying", "appending", "handled"},
   position : Nat, remembered : Nat,
   seen : Nat, size : 0..MaxOutputs, tries : 0..MaxRetries]

\* The log holds messages, no input is retried more often than the policy says,
\* and nobody is ahead of the log.
TypeOK ==
  /\ separate \in Modes
  /\ log \in Seq(Messages)
  /\ version \in 0..Len(log)
  /\ checkpoint \in 0..Len(log)
  /\ instance \in [Instances -> States]
  /\ \A p \in Instances : instance[p].position <= Len(log)
  /\ starts \in 0..MaxStarts

StoredFor(id) ==
  {i \in DOMAIN log : log[i].type = "stored" /\ log[i].of = id}

\* However often an input is delivered, to whichever instances, and wherever
\* they fail or crash: it is recorded once, in the append that records the
\* outputs decided on for it.  With an inbox of its own it may be stored again.
InputsAreDecidedOnce ==
  ~separate => \A i, j \in DOMAIN log :
    (/\ log[i].type = "stored" /\ log[j].type = "stored"
     /\ log[i].of = log[j].of) => i = j

\* The same in either mode, for the outputs.  It is not kept with an inbox of
\* its own: a stored copy that is delivered again is decided on again.
OutputsAreMadeOnce ==
  \A i, j \in DOMAIN log :
    (/\ log[i].type = "output" /\ log[j].type = "output"
     /\ log[i].of = log[j].of) => log[i].seen = log[j].seen

InStream(i) == log[i].type # "external"

\* Messages of one decision: they name the same input and the same version.
SameDecision(i, j) ==
  /\ log[i].type \in {"stored", "output"} /\ log[j].type \in {"stored", "output"}
  /\ log[i].of = log[j].of /\ log[i].seen = log[j].seen

\* A decision is appended to the stream that it was made on, all of it: what the
\* stream holds before the first of its messages is the version it has seen,
\* though several instances decide, and inputs are stored and fed in between.
DecisionsSeeTheWholeStream ==
  \A i \in DOMAIN log :
    log[i].type = "output" \/ (log[i].type = "stored" /\ ~separate) =>
      Cardinality({j \in 1..(i - 1) : InStream(j) /\ ~SameDecision(i, j)})
        = log[i].seen

\* Up to the checkpoint, and up to where an instance is, no input was lost: each
\* is recorded in the workflow's stream, whoever failed or crashed.
CheckpointCoversInputs ==
  \A i \in DOMAIN log :
    /\ IsRaw(log[i])
    /\ i <= checkpoint \/ \E p \in Instances : i <= instance[p].position
    => StoredFor(i) # {}

\* As long as some instance keeps running, every input comes to be recorded,
\* whatever the others do beside it.
InputsAreRecorded ==
  (\E p \in Instances : <>[](~At(p, "stopped"))) =>
    []<>(\A i \in DOMAIN log : IsRaw(log[i]) => StoredFor(i) # {})

=============================================================================
