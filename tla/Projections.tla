----------------------------- MODULE Projections -----------------------------
(* One projection that appends keep up to date inline, in their own           *)
(* transactions, and that an asynchronous processor rebuilds now and then.    *)
(* Three parties meet on the projection's advisory lock and on the status in  *)
(* its row of emt_projections:                                                *)
(*                                                                            *)
(*   appends         share the lock until their transaction ends, and handle  *)
(*                   their event only if they got it and the status is        *)
(*                   'active'; otherwise they silently pass the projection by; *)
(*   a rebuild       takes the lock alone, sets the status to                 *)
(*                   'async_processing', empties the read model, goes through *)
(*                   the log after its stored checkpoint, and sets 'active'   *)
(*                   when nothing is left;                                    *)
(*   registrations,  made by every process that migrates the schema, and      *)
(*   changes         made by operators, take the lock alone.                  *)
(*                                                                            *)
(* An append is one event, named by the number of its transaction: the log is *)
(* read in that order, and only below the lowest transaction that is open     *)
(* (module PostgresMessageLog).  At most one rebuild is at work: the timeout  *)
(* that lets the next one take over after a crash is taken as elapsed, and    *)
(* never passes under one that still works.  A rebuild is a consumer that is  *)
(* started once.  Module PostgresProcessor is about what happens otherwise.   *)
EXTENDS Integers

CONSTANTS
  Truncating,       \* whether the projection can truncate: a subset of BOOLEAN
  MaxAppends,       \* bounds the transactions that append
  MaxRebuilds,      \* bounds the rebuilds that are started
  MaxRegistrations, \* bounds the processes that migrate the schema
  MaxChanges        \* bounds the activations and deactivations

ASSUME BoundsAreNumbers ==
  {MaxAppends, MaxRebuilds, MaxRegistrations, MaxChanges} \subseteq Nat
ASSUME TruncatingIsBoolean == Truncating \subseteq BOOLEAN

VARIABLES
  status,      \* the committed status of the projection's row, "none" without a row
  exclusive,   \* who holds the projection's advisory lock alone
  append,      \* the transactions that append
  projected,   \* how many times the read model holds the event of each append
  rebuild,     \* what the rebuild does
  checkpoint,  \* the last event that a rebuild has stored, 0 for none
  truncates,   \* whether the projection can truncate
  unreleased,  \* starts that failed with a lock they have still to release
  activated,   \* whether others made the projection active while the last rebuild
               \* that started went through the log
  rebuilds,    \* rebuilds started so far
  registered,  \* registrations started so far
  changes      \* activations and deactivations so far

counters == <<rebuilds, registered, changes>>
others == <<unreleased, activated>>
vars == <<status, exclusive, append, projected, rebuild, checkpoint, truncates,
          others, counters>>

----------------------------------------------------------------------------
(* State *)

Appends == 1..MaxAppends

Status == {"none", "active", "inactive", "async_processing"}

(* "asking" has the snapshot of the statement that takes the lock and has not *)
(* taken it; the last three have done with the projection.  "passed" has the  *)
(* shared lock, as "handled" has, and found the projection not active.        *)
Open == {"appended", "asking", "handled", "passed", "refused"}

Append == [state : {"none", "committed", "rolledBack"} \cup Open,
           saw : Status,       \* the status in the statement's snapshot
           stale : BOOLEAN]    \* whether it was another when the event was handled

(* An append that has no use for a snapshot, or none any more *)
In(state, stale) == [state |-> state, saw |-> "none", stale |-> stale]

Phase == {"none", "starting", "processing", "ending"}

IsOpen(n) == append[n].state \in Open
Sharing(n) == append[n].state \in {"handled", "passed"}
Committed == {n \in Appends : append[n].state = "committed"}

(* Mutant: the lock is refused to the others, not to who shares it. *)
LockIsNotHeldAlone == exclusive = "nobody"

(* pg_try_advisory_xact_lock: nobody shares the lock or has it alone *)
LockIsFree ==
  /\ exclusive = "nobody"
  /\ \A n \in Appends : ~Sharing(n)

(* COALESCE(is_active, true): a projection without a row counts as active *)
CountsAsActive(s) == s \in {"none", "active"}

(* Mutant: whatever is committed can be read. *)
IsReadableAtOnce(n) == TRUE

(* What a poll returns: the events after the checkpoint with no transaction   *)
(* open below them                                                            *)
IsReadable(n) == \A m \in 1..n : ~IsOpen(m)
Available == {n \in Committed : n > checkpoint /\ IsReadable(n)}

Init ==
  /\ status \in {"none", "active"}
  /\ exclusive = "nobody"
  /\ append = [n \in Appends |-> In("none", FALSE)]
  /\ projected = [n \in Appends |-> 0]
  /\ rebuild = "none"
  /\ checkpoint = 0
  /\ truncates \in Truncating
  /\ unreleased = 0
  /\ activated = FALSE
  /\ rebuilds = 0 /\ registered = 0 /\ changes = 0

----------------------------------------------------------------------------
(* Appends *)

(* emt_append_to_stream writes the message under the next transaction number. *)
Begin(n) ==
  /\ append[n].state = "none"
  /\ \A m \in 1..(n - 1) : append[m].state # "none"
  /\ append' = [append EXCEPT ![n].state = "appended"]
  /\ UNCHANGED <<status, exclusive, projected, rebuild, checkpoint, truncates,
                 others, counters>>

(* The statement that takes the lock and reads the status has its snapshot    *)
(* before it has the lock.                                                    *)
Ask(n) ==
  /\ append[n].state = "appended"
  /\ append' = [append EXCEPT ![n].state = "asking", ![n].saw = status]
  /\ UNCHANGED <<status, exclusive, projected, rebuild, checkpoint, truncates,
                 others, counters>>

(* pg_try_advisory_xact_lock_shared does not wait.  With the lock, and an     *)
(* active projection in the snapshot, the append runs the projection's handle.*)
Try(n) ==
  /\ append[n].state = "asking"
  /\ \/ /\ exclusive # "nobody"
        /\ append' = [append EXCEPT ![n] = In("refused", FALSE)]
     \/ /\ exclusive = "nobody"
        /\ ~CountsAsActive(append[n].saw)
        /\ append' = [append EXCEPT ![n] = In("passed", FALSE)]
     \/ /\ exclusive = "nobody"
        /\ CountsAsActive(append[n].saw)
        /\ append' = [append EXCEPT ![n] = In("handled", ~CountsAsActive(status))]
  /\ UNCHANGED <<status, exclusive, projected, rebuild, checkpoint, truncates,
                 others, counters>>

(* The append commits with what its handle has written, and the lock goes. *)
Commit(n) ==
  /\ append[n].state \in {"handled", "passed", "refused"}
  /\ append' = [append EXCEPT ![n].state = "committed"]
  /\ projected' = IF append[n].state = "handled"
                    THEN [projected EXCEPT ![n] = @ + 1]
                    ELSE projected
  /\ UNCHANGED <<status, exclusive, rebuild, checkpoint, truncates, others, counters>>

(* A conflict, an error in handle, or a process that dies *)
Rollback(n) ==
  /\ IsOpen(n)
  /\ append' = [append EXCEPT ![n] = In("rolledBack", FALSE)]
  /\ UNCHANGED <<status, exclusive, projected, rebuild, checkpoint, truncates,
                 others, counters>>

----------------------------------------------------------------------------
(* Registrations and changes of the status *)

(* A process that migrates the schema initialises its inline projections in   *)
(* the transaction of the migration; without the lock it registers nothing.   *)
Register ==
  /\ registered < MaxRegistrations
  /\ LockIsFree
  /\ exclusive' = "registration"
  /\ registered' = registered + 1
  /\ UNCHANGED <<status, append, projected, rebuild, checkpoint, truncates, others,
                 rebuilds, changes>>

(* Mutant: the registration writes its status over the one that is there. *)
EndRegistrationActive ==
  /\ exclusive = "registration"
  /\ exclusive' = "nobody"
  /\ status' \in {status, "active"}
  /\ UNCHANGED <<append, projected, rebuild, checkpoint, truncates, others, counters>>

(* The row of a projection that is there already keeps its status. *)
EndRegistration ==
  /\ exclusive = "registration"
  /\ exclusive' = "nobody"
  /\ status' \in {status, IF status = "none" THEN "active" ELSE status}
  /\ UNCHANGED <<append, projected, rebuild, checkpoint, truncates, others, counters>>

(* activateProjection and deactivateProjection change a row that is there,    *)
(* and do not wait for the lock, which a rebuild gives up when it has started.*)
Change(to) ==
  /\ changes < MaxChanges
  /\ LockIsFree
  /\ status # "none"
  /\ status' = to
  /\ activated' = (activated \/ (to = "active" /\ rebuild = "processing"))
  /\ changes' = changes + 1
  /\ UNCHANGED <<exclusive, append, projected, rebuild, checkpoint, truncates,
                 unreleased, rebuilds, registered>>

----------------------------------------------------------------------------
(* The rebuild *)

(* The first transaction of the processor tries for the lock until it has it. *)
TakeLock ==
  /\ rebuild = "none"
  /\ rebuilds < MaxRebuilds
  /\ LockIsFree
  /\ exclusive' = "rebuild"
  /\ rebuild' = "starting"
  /\ rebuilds' = rebuilds + 1
  /\ UNCHANGED <<status, append, projected, checkpoint, truncates, others,
                 registered, changes>>

(* It empties the read model and reads the checkpoint before it commits. *)
Start ==
  /\ rebuild = "starting"
  /\ exclusive' = "nobody"
  /\ rebuild' = "processing"
  /\ status' = "async_processing"
  /\ projected' = IF truncates THEN [n \in Appends |-> 0] ELSE projected
  /\ activated' = FALSE
  /\ UNCHANGED <<append, checkpoint, truncates, unreleased, counters>>

(* The truncation, the read of the checkpoint or the commit fails.  The       *)
(* transaction rolls back; the processor goes on to believe that it has the   *)
(* lock, and is closed.                                                       *)
FailStart ==
  /\ rebuild = "starting"
  /\ exclusive' = "nobody"
  /\ rebuild' = "none"
  /\ unreleased' = unreleased + 1
  /\ UNCHANGED <<status, append, projected, checkpoint, truncates, activated, counters>>

(* Closing it runs emt_release_processor_lock, which makes the projection     *)
(* active without looking who has it now.  It waits for a rebuild that has    *)
(* the row but has not committed its start, and finds no row where none is.   *)
ReleaseFailed ==
  /\ unreleased > 0
  /\ rebuild # "starting"
  /\ unreleased' = unreleased - 1
  /\ status' = IF status = "none" THEN "none" ELSE "active"
  /\ activated' = (activated \/ rebuild = "processing")
  /\ UNCHANGED <<exclusive, append, projected, rebuild, checkpoint, truncates, counters>>

(* A batch and its checkpoint are one transaction; its size is left open. *)
HandleBatch ==
  /\ rebuild = "processing"
  /\ \E last \in Available :
       /\ projected' = [n \in Appends |->
                          IF n \in Available /\ n <= last
                            THEN projected[n] + 1
                            ELSE projected[n]]
       /\ checkpoint' = last
  /\ UNCHANGED <<status, exclusive, append, rebuild, truncates, others, counters>>

(* The consumer stops when a poll returns nothing *)
NoMessagesLeft ==
  /\ rebuild = "processing"
  /\ Available = {}
  /\ rebuild' = "ending"
  /\ UNCHANGED <<status, exclusive, append, projected, checkpoint, truncates,
                 others, counters>>

(* ... and when the projection fails on a batch. *)
FailBatch ==
  /\ rebuild = "processing"
  /\ Available # {}
  /\ rebuild' = "ending"
  /\ UNCHANGED <<status, exclusive, append, projected, checkpoint, truncates,
                 others, counters>>

(* emt_release_processor_lock activates the projection in either case. *)
Release ==
  /\ rebuild = "ending"
  /\ rebuild' = "none"
  /\ status' = "active"
  /\ UNCHANGED <<exclusive, append, projected, checkpoint, truncates, others, counters>>

(* The process dies: the row stays as it is. *)
Crash ==
  /\ rebuild \in {"processing", "ending"}
  /\ rebuild' = "none"
  /\ UNCHANGED <<status, exclusive, append, projected, checkpoint, truncates,
                 others, counters>>

----------------------------------------------------------------------------
Step(n) == Begin(n) \/ Ask(n) \/ Try(n) \/ Commit(n) \/ Rollback(n)

Rebuilding == \/ TakeLock \/ Start \/ FailStart \/ ReleaseFailed \/ HandleBatch
              \/ NoMessagesLeft \/ FailBatch \/ Release \/ Crash

Next ==
  \/ \E n \in Appends : Step(n)
  \/ Register \/ EndRegistration
  \/ \E to \in {"active", "inactive"} : Change(to)
  \/ Rebuilding

Spec == Init /\ [][Next]_vars

----------------------------------------------------------------------------
TypeOK ==
  /\ status \in Status
  /\ exclusive \in {"nobody", "registration", "rebuild"}
  /\ append \in [Appends -> Append]
  /\ projected \in [Appends -> Nat]
  /\ rebuild \in Phase
  /\ checkpoint \in 0..MaxAppends
  /\ truncates \in BOOLEAN
  /\ unreleased \in Nat
  /\ activated \in BOOLEAN
  /\ {rebuilds, registered, changes} \subseteq Nat

(* An append that has handled its event inline commits while the projection   *)
(* is still active: neither a rebuild nor a deactivation gets past the shared *)
(* lock.  (emt_try_acquire_projection_lock against emt_try_acquire_processor_ *)
(* lock and emt_deactivate_projection.)  Only an append whose snapshot was    *)
(* older than the status it had to look at is excepted.                       *)
InlineOnlyWhileActive ==
  \A n \in Appends :
    append[n].state = "handled" /\ ~append[n].stale => CountsAsActive(status)

(* Where nothing is emptied, every committed event up to the checkpoint of    *)
(* the rebuild is in the read model, whatever the appends did with it, and    *)
(* whatever crashed or failed since.                                          *)
RebuildHandlesEverything ==
  ~truncates => \A n \in Committed : n <= checkpoint => projected[n] > 0

(* Where a rebuild empties the read model first, no event is in it twice:     *)
(* what is handled inline is not handled by a rebuild that has not emptied    *)
(* the read model since.  Only an event that its append handled on a stale    *)
(* snapshot is excepted, and a projection that an operator, or the close of a *)
(* start that had failed, made active while the rebuild went through the log. *)
NothingIsProjectedTwice ==
  truncates => \A n \in Appends : projected[n] <= 1 \/ append[n].stale \/ activated

(* Events and read model agree: what is committed has been projected, as long *)
(* as no rebuild is at work and nobody has deactivated the projection.        *)
ReadModelIsConsistent ==
  rebuild = "none" /\ status \in {"none", "active"} =>
    \A n \in Committed : projected[n] > 0
=============================================================================
