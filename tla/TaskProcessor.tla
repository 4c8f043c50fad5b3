---------------------------- MODULE TaskProcessor ----------------------------
(***************************************************************************)
(* The in-process task processor with its scheduler: callers enqueue       *)
(* tasks, a bounded number run at once, tasks of one group run one at a    *)
(* time, and callers leave the queue by abort, by timeout or by a stop.    *)
(*                                                                         *)
(* JavaScript runs a call to its end, so an action is what happens between *)
(* two turns of the event loop.  Only the loop of processQueue is split:   *)
(* it runs the synchronous part of every task it takes, and that part may  *)
(* call the processor again.  Each task is enqueued at most once, so the   *)
(* number of tasks bounds the model.                                       *)
(***************************************************************************)
EXTENDS Integers, FiniteSets

CONSTANTS Tasks,
          Waiters,          \* calls of waitForEndOfProcessing
          Groups, NoGroup,
          TaskGroup,        \* taskGroupId of each task
          ManualTasks,      \* enqueued with releaseMode "manual"
          NeverEnding,      \* tasks whose operation never settles
          HasIdleTimeout,   \* maxTaskIdleTime is set
          MaxActiveTasks,
          MaxQueueSize

ASSUME TaskProcessorAssumption ==
  /\ NoGroup \notin Groups
  /\ TaskGroup \in [Tasks -> Groups \cup {NoGroup}]
  /\ ManualTasks \subseteq Tasks /\ NeverEnding \subseteq Tasks
  /\ HasIdleTimeout \in BOOLEAN
  /\ MaxActiveTasks \in Nat \ {0}
  /\ MaxQueueSize \in Nat

VARIABLES
  queued,        \* entriesByItem of the scheduler
  ready,         \* readyHeap: those that may start
  active,        \* activeEntriesByItem
  groupActive,   \* groups with active = true
  sequence,      \* of each entry, 0 without one
  nextSequence,
  overdue,       \* queued tasks whose expiresAtMs has passed
  timer,         \* expirationTimer is set
  loop,          \* where processQueue is
  activeTasks,
  activeItems,
  running,       \* started, their slot is not released
  released,      \* released, executeItem has yet to go on
  working,       \* the operation has not settled
  aborted,       \* started tasks that a stop has aborted
  caller,        \* the promise of each enqueue
  waiter,
  stop           \* the call of stop that took effect

scheduler == <<queued, ready, active, groupActive, sequence, nextSequence>>
slots == <<activeTasks, activeItems, running, released>>
vars == <<scheduler, overdue, timer, loop, slots, working, aborted, caller,
          waiter, stop>>

Stopped == stop # "none"

Idle == activeTasks = 0 /\ queued = {}

\* Code that uses the processor runs in a turn of its own, or in the
\* synchronous part of a task.
CanCall == loop \in {"idle", "task"}

Answer(answer, tasks) ==
  [t \in Tasks |-> IF t \in tasks /\ caller[t] = "waiting" THEN answer
                   ELSE caller[t]]

-----------------------------------------------------------------------------
(* The scheduler *)

\* The first tasks of these groups, unless one of the group is active.
GroupHeads(groups, tasks, activeGroups) ==
  {t \in tasks :
     /\ TaskGroup[t] \in (groups \cap Groups) \ activeGroups
     /\ \A u \in tasks : TaskGroup[u] = TaskGroup[t]
                           => sequence[t] <= sequence[u]}

GroupsOf(tasks) == {TaskGroup[t] : t \in tasks}

WithoutEntries(tasks) == [t \in Tasks |-> IF t \in tasks THEN 0 ELSE sequence[t]]

\* Mutant: a group whose first task leaves is not looked at again.
RemoveWithoutPromotion(tasks) ==
  /\ queued' = queued \ tasks
  /\ sequence' = WithoutEntries(tasks)
  /\ ready' = ready \ tasks
  /\ overdue' = overdue \ tasks

\* Mutant: a task that leaves the queue stays in the heap.
RemoveLeavingReady(tasks) ==
  /\ queued' = queued \ tasks
  /\ sequence' = WithoutEntries(tasks)
  /\ UNCHANGED ready
  /\ overdue' = overdue \ tasks

\* Tasks that leave the queue make the next ones of their groups ready.
RemoveEntries(tasks) ==
  /\ queued' = queued \ tasks
  /\ sequence' = WithoutEntries(tasks)
  /\ ready' = (ready \ tasks)
       \cup GroupHeads(GroupsOf(tasks), queued \ tasks, groupActive)
  /\ overdue' = overdue \ tasks

CompleteEntries(tasks) ==
  LET groups == GroupsOf(tasks \cap active)
  IN  /\ active' = active \ tasks
      /\ groupActive' = groupActive \ groups
      /\ ready' = ready \cup GroupHeads(groups, queued, groupActive \ groups)

\* Mutant: tasks of a group are not held back.
AlwaysReady(t) == TRUE

\* A new task is ready when it has no group or is the first of a free one.
IsFirstOfItsGroup(t) ==
  \/ TaskGroup[t] = NoGroup
  \/ /\ TaskGroup[t] \notin groupActive
     /\ \A u \in queued : TaskGroup[u] # TaskGroup[t]

\* Mutant: whichever is ready starts.
AnyReady == ready

EarliestReady == {t \in ready : \A u \in ready : sequence[t] <= sequence[u]}

-----------------------------------------------------------------------------
(* Callers *)

EnsureProcessing == loop' = IF loop = "idle" THEN "entered" ELSE loop

\* A call that is refused (aborted already, stopped, too many in the queue)
\* changes nothing.
Enqueue(t) ==
  /\ CanCall
  /\ caller[t] = "none"
  /\ ~Stopped
  /\ Cardinality(queued) < MaxQueueSize
  /\ caller' = [caller EXCEPT ![t] = "waiting"]
  /\ queued' = queued \cup {t}
  /\ ready' = IF IsFirstOfItsGroup(t) THEN ready \cup {t} ELSE ready
  /\ sequence' = [sequence EXCEPT ![t] = nextSequence]
  /\ nextSequence' = nextSequence + 1
  /\ timer' = (timer \/ HasIdleTimeout)
  /\ EnsureProcessing
  /\ UNCHANGED <<active, groupActive, overdue, slots, working, aborted,
                 waiter, stop>>

\* Mutant: the waiters are looked at before the count goes down.
ResolveWaitersTooEarly ==
  IF activeTasks = 0 /\ queued = {}
    THEN /\ waiter' = [w \in Waiters |-> IF waiter[w] = "waiting"
                                           THEN "resolved" ELSE waiter[w]]
         /\ UNCHANGED stop
    ELSE UNCHANGED <<waiter, stop>>

ResolveIdleWaiters ==
  IF activeTasks' = 0 /\ queued' = {}
    THEN /\ waiter' = [w \in Waiters |-> IF waiter[w] = "waiting"
                                           THEN "resolved" ELSE waiter[w]]
         /\ stop' = IF stop \in {"draining", "closing"} THEN "drained"
                    ELSE stop
    ELSE UNCHANGED <<waiter, stop>>

\* The signal of the caller fires before its task has started ...
AbortQueued(t) ==
  /\ CanCall
  /\ t \in queued
  /\ caller' = Answer("rejected", {t})
  /\ RemoveEntries({t})
  /\ UNCHANGED activeTasks
  /\ ResolveIdleWaiters
  /\ UNCHANGED <<active, groupActive, nextSequence, timer, loop,
                 activeItems, running, released, working, aborted>>

\* ... or later: the caller is answered, the task learns by its own signal.
AbortStarted(t) ==
  /\ CanCall
  /\ t \in working \ aborted
  /\ caller' = Answer("rejected", {t})
  /\ UNCHANGED <<scheduler, overdue, timer, loop, slots, working, aborted,
                 waiter, stop>>

WaitForEndOfProcessing(w) ==
  /\ CanCall
  /\ waiter[w] = "none"
  /\ waiter' = [waiter EXCEPT ![w] = IF Idle THEN "resolved" ELSE "waiting"]
  /\ UNCHANGED <<scheduler, overdue, timer, loop, slots, working, aborted,
                 caller, stop>>

-----------------------------------------------------------------------------
(* Processing *)

\* The loop starts by turning away those that have waited too long.
RejectExpiredFirst ==
  /\ loop = "entered"
  /\ loop' = "taking"
  /\ caller' = Answer("rejected", overdue)
  /\ RemoveEntries(overdue)
  /\ UNCHANGED activeTasks
  /\ ResolveIdleWaiters
  /\ UNCHANGED <<active, groupActive, nextSequence, timer,
                 activeItems, running, released, working, aborted>>

\* Mutant: one more than allowed.
ExceedsLimit == activeTasks <= MaxActiveTasks

HasFreeSlot == activeTasks < MaxActiveTasks

\* takeNext and executeItem up to the end of the task's synchronous part.
TakeNext ==
  /\ loop \in {"taking", "task"}
  /\ HasFreeSlot
  /\ \E t \in EarliestReady :
       /\ queued' = queued \ {t}
       /\ sequence' = WithoutEntries({t})
       /\ ready' = ready \ {t}
       /\ overdue' = overdue \ {t}
       /\ active' = active \cup {t}
       /\ groupActive' = groupActive \cup ({TaskGroup[t]} \cap Groups)
       /\ activeItems' = activeItems \cup {t}
       /\ running' = running \cup {t}
       /\ working' = working \cup {t}
  /\ activeTasks' = activeTasks + 1
  /\ loop' = "task"
  /\ UNCHANGED <<nextSequence, timer, released, aborted, caller,
                 waiter, stop>>

LeaveLoop ==
  /\ loop \in {"taking", "task"}
  /\ ~HasFreeSlot \/ ready = {}
  /\ loop' = "idle"
  /\ UNCHANGED <<scheduler, overdue, timer, slots, working, aborted, caller,
                 waiter, stop>>

\* release() of the task's context; the next calls do nothing.
Release(t) ==
  /\ CanCall
  /\ t \in running
  /\ running' = running \ {t}
  /\ released' = released \cup {t}
  /\ UNCHANGED <<scheduler, overdue, timer, loop, activeTasks, activeItems,
                 working, aborted, caller, waiter, stop>>

\* The operation settles: a result keeps the slot of a manual task.
Settle(t) ==
  /\ loop = "idle"
  /\ t \in working
  /\ working' = working \ {t}
  /\ \E answer \in {"resolved", "rejected"} :
       /\ caller' = Answer(answer, {t})
       /\ IF t \in running /\ ~(answer = "resolved" /\ t \in ManualTasks)
            THEN /\ running' = running \ {t}
                 /\ released' = released \cup {t}
            ELSE UNCHANGED <<running, released>>
  /\ UNCHANGED <<scheduler, overdue, timer, loop, activeTasks, activeItems,
                 aborted, waiter, stop>>

\* executeItem goes on after the release.
FinishItem(t) ==
  /\ loop = "idle"
  /\ t \in released
  /\ released' = released \ {t}
  /\ activeItems' = activeItems \ {t}
  /\ activeTasks' = activeTasks - 1
  /\ CompleteEntries({t})
  /\ UNCHANGED queued
  /\ ResolveIdleWaiters
  /\ EnsureProcessing
  /\ UNCHANGED <<sequence, nextSequence, overdue, timer, running, working,
                 aborted, caller>>

-----------------------------------------------------------------------------
(* Time and stopping *)

\* Deadlines pass in the order of arrival: all tasks wait equally long.
PassDeadline(t) ==
  /\ CanCall
  /\ HasIdleTimeout
  /\ t \in queued
  /\ \A u \in queued : sequence[u] < sequence[t] => u \in overdue
  /\ overdue' = overdue \cup {t}
  /\ UNCHANGED <<scheduler, timer, loop, slots, working, aborted, caller,
                 waiter, stop>>

FireTimer ==
  /\ loop = "idle"
  /\ timer
  /\ caller' = Answer("rejected", overdue)
  /\ RemoveEntries(overdue)
  /\ timer' = (queued' # {})
  /\ UNCHANGED activeTasks
  /\ ResolveIdleWaiters
  /\ UNCHANGED <<active, groupActive, nextSequence, loop,
                 activeItems, running, released, working, aborted>>

\* The active tasks are told to stop, and forgotten.
AbortActiveItems ==
  /\ aborted' = aborted \cup (activeItems \cap working)
  /\ active' = active \ activeItems
  /\ groupActive' = groupActive \ GroupsOf(activeItems \cap active)
  /\ activeItems' = {}

\* Mutant: those who wait in the queue are not told.
AnswerNobody == caller

AnswerQueued == Answer("rejected", queued)

\* How stop goes on, once the queue is cleared: it ends at once by force or
\* when nothing runs, or waits, for ever or until its deadline.
Stop ==
  /\ CanCall
  /\ ~Stopped
  /\ caller' = AnswerQueued
  /\ queued' = {} /\ ready' = {} /\ overdue' = {}
  /\ sequence' = WithoutEntries(queued)
  /\ nextSequence' = 0
  /\ timer' = FALSE
  /\ \/ /\ stop' = "forced"
        /\ AbortActiveItems
     \/ /\ stop' \in IF activeTasks = 0 THEN {"drained"}
                     ELSE {"draining", "closing"}
        /\ UNCHANGED <<active, groupActive, activeItems, aborted>>
  /\ UNCHANGED <<loop, activeTasks, running, released, working,
                 waiter>>

PassCloseDeadline ==
  /\ loop = "idle"
  /\ stop = "closing"
  /\ stop' = "forced"
  /\ AbortActiveItems
  /\ UNCHANGED <<queued, ready, sequence, nextSequence, overdue, timer, loop,
                 activeTasks, running, released, working, caller, waiter>>

-----------------------------------------------------------------------------

Init ==
  /\ queued = {} /\ ready = {} /\ active = {} /\ groupActive = {}
  /\ sequence = [t \in Tasks |-> 0]
  /\ nextSequence = 0
  /\ overdue = {}
  /\ timer = FALSE
  /\ loop = "idle"
  /\ activeTasks = 0
  /\ activeItems = {} /\ running = {} /\ released = {}
  /\ working = {} /\ aborted = {}
  /\ caller = [t \in Tasks |-> "none"]
  /\ waiter = [w \in Waiters |-> "none"]
  /\ stop = "none"

ProcessQueue == RejectExpiredFirst \/ TakeNext \/ LeaveLoop

Next ==
  \/ ProcessQueue
  \/ FireTimer
  \/ Stop
  \/ PassCloseDeadline
  \/ \E w \in Waiters : WaitForEndOfProcessing(w)
  \/ \E t \in Tasks :
       \/ Enqueue(t)
       \/ AbortQueued(t)
       \/ AbortStarted(t)
       \/ Release(t)
       \/ t \notin NeverEnding /\ Settle(t)
       \/ FinishItem(t)
       \/ PassDeadline(t)

Spec == Init /\ [][Next]_vars

\* The event loop, and callers whose operations end and who give back what
\* they acquired; the clock runs.
FairSpec ==
  /\ Spec
  /\ WF_vars(ProcessQueue)
  /\ WF_vars(FireTimer)
  /\ WF_vars(\E t \in Tasks : FinishItem(t))
  /\ WF_vars(\E t \in Tasks : PassDeadline(t))
  /\ \A t \in Tasks \ NeverEnding : /\ WF_vars(Settle(t))
                                    /\ WF_vars(Release(t))

-----------------------------------------------------------------------------
(* Properties *)

\* What the scheduler calls ready or overdue is still queued: who leaves the
\* queue by an abort, a timeout, a stop or a start leaves all of it.
TypeOK ==
  /\ queued \subseteq Tasks
  /\ ready \subseteq queued
  /\ overdue \subseteq queued
  /\ active \subseteq Tasks
  /\ groupActive \subseteq Groups
  /\ sequence \in [Tasks -> Nat]
  /\ nextSequence \in Nat
  /\ timer \in BOOLEAN
  /\ loop \in {"idle", "entered", "taking", "task"}
  /\ activeTasks \in Nat
  /\ activeItems \subseteq Tasks
  /\ running \subseteq Tasks
  /\ released \subseteq Tasks
  /\ working \subseteq Tasks
  /\ aborted \subseteq Tasks
  /\ caller \in [Tasks -> {"none", "waiting", "resolved", "rejected"}]
  /\ waiter \in [Waiters -> {"none", "waiting", "resolved"}]
  /\ stop \in {"none", "draining", "closing", "drained", "forced"}

\* Two tasks of one group never hold slots together, whoever aborts, expires,
\* releases early, enqueues from inside of a task, or stops the processor.
GroupsRunOneAtATime ==
  \A t, u \in running \cup released :
    TaskGroup[t] = TaskGroup[u] /\ TaskGroup[t] # NoGroup => t = u

\* The count of active tasks is that of the slots which are taken, also of
\* tasks that were aborted and forgotten, and stays within the limit.
SlotsAreCounted ==
  /\ activeTasks = Cardinality(running \cup released)
  /\ activeTasks <= MaxActiveTasks

\* No task waits while there is a slot for it: one that could start has been
\* started when the processor comes to rest.
WorkIsNotHeldBack ==
  loop = "idle" /\ HasFreeSlot
    => \A t \in queued : \E u \in running \cup released :
         TaskGroup[t] = TaskGroup[u] /\ TaskGroup[t] # NoGroup

\* Nobody keeps waiting for the end of processing when nothing is left.
WaitersAreNotForgotten ==
  Idle => /\ \A w \in Waiters : waiter[w] # "waiting"
          /\ stop \notin {"draining", "closing"}

\* A task only starts before one that came earlier if that one has to wait
\* for another task of its group.
StartsInArrivalOrder ==
  [][\A t \in running' \ running, u \in queued :
       sequence[u] < sequence[t]
         => \E v \in running \cup released :
              TaskGroup[u] = TaskGroup[v] /\ TaskGroup[u] # NoGroup]_vars

\* Work whose caller was turned away by an abort, a timeout or a stop never
\* starts.
OnlyAwaitedWorkStarts ==
  [][\A t \in running' \ running : caller[t] = "waiting"]_vars

\* Every caller is answered, those behind a task that never ends included.
EveryCallerIsAnswered ==
  \A t \in Tasks \ NeverEnding :
    caller[t] = "waiting" ~> caller[t] \in {"resolved", "rejected"}

=============================================================================
