------------------------ MODULE TaskProcessor_proofs ------------------------
(***************************************************************************)
(* What TaskProcessor guarantees for every set of tasks, groups and        *)
(* limits: its type, that tasks of a group run one at a time and others in *)
(* the order they came, that work nobody waits for never starts and work   *)
(* that may start is not left waiting, and that waiters are told.          *)
(***************************************************************************)
EXTENDS TaskProcessor, FiniteSetTheorems, WellFoundedInduction, TLAPS

\* The parts of TypeOK that the other invariant needs.
SetsOK ==
  /\ queued \subseteq Tasks
  /\ ready \subseteq queued
  /\ overdue \subseteq queued
  /\ active \subseteq Tasks
  /\ groupActive \subseteq Groups
  /\ sequence \in [Tasks -> Nat]
  /\ nextSequence \in Nat
  /\ running \subseteq Tasks
  /\ released \subseteq Tasks
  /\ working \subseteq Tasks
  /\ caller \in [Tasks -> {"none", "waiting", "resolved", "rejected"}]

Grouped(t) == TaskGroup[t] # NoGroup

\* A task that has started is queued no more; its caller has called, and the
\* caller of a queued task still waits.
Started == active \cup running \cup released \cup working

TasksAreInOnePlace ==
  /\ running \cap released = {}
  /\ queued \cap Started = {}
  /\ \A t \in Started : caller[t] # "none"
  /\ \A t \in queued : caller[t] = "waiting"

\* The scheduler counts every task with a slot as active, unless a stop made
\* it forget them: then nothing is queued any more.
SlotsAreActive ==
  \/ running \cup released \subseteq active
  \/ Stopped

StoppedIsEmpty == Stopped => queued = {}

\* A group is marked active while one of its tasks is.
ActiveGroupsAreMarked ==
  /\ \A t \in active : Grouped(t) => TaskGroup[t] \in groupActive
  /\ \A t, u \in active : Grouped(t) /\ TaskGroup[t] = TaskGroup[u] => t = u

\* Only the first task of a group that is not active is ready.
ReadyAreHeads ==
  \A t \in ready : Grouped(t) =>
    /\ TaskGroup[t] \notin groupActive
    /\ \A u \in queued : TaskGroup[u] = TaskGroup[t]
                           => sequence[t] <= sequence[u]

\* No two entries have the same place in the order of arrival.
ArrivalsAreOrdered ==
  /\ \A t, u \in queued : sequence[t] = sequence[u] => t = u
  /\ \A t \in queued : sequence[t] < nextSequence

GroupInv ==
  /\ SetsOK
  /\ TasksAreInOnePlace
  /\ SlotsAreActive
  /\ StoppedIsEmpty
  /\ ActiveGroupsAreMarked
  /\ ReadyAreHeads
  /\ ArrivalsAreOrdered
  /\ GroupsRunOneAtATime

-----------------------------------------------------------------------------
(* Steps that leave the scheduler alone *)

\* Steps that leave scheduler and slots alone keep the groups in order.
LEMMA SchedulerUntouched ==
  ASSUME GroupInv, UNCHANGED scheduler, overdue' \subseteq queued,
         running' \cup released' \subseteq running \cup released,
         running' \cap released' = {},
         working' \subseteq working,
         caller' \in [Tasks -> {"none", "waiting", "resolved", "rejected"}],
         \A t \in Tasks : caller[t] # "none" => caller'[t] # "none",
         \A t \in queued : caller'[t] = caller[t],
         Stopped' <=> Stopped
  PROVE  GroupInv'
<1>1. SetsOK'
  BY DEF GroupInv, SetsOK, scheduler
<1>2. TasksAreInOnePlace'
  BY DEF GroupInv, SetsOK, scheduler, TasksAreInOnePlace, Started
<1>3. SlotsAreActive' /\ StoppedIsEmpty'
  BY DEF GroupInv, SlotsAreActive, StoppedIsEmpty, scheduler
<1>4. ActiveGroupsAreMarked' /\ ReadyAreHeads' /\ ArrivalsAreOrdered'
  BY DEF GroupInv, ActiveGroupsAreMarked, ReadyAreHeads, ArrivalsAreOrdered,
         Grouped, scheduler
<1>5. GroupsRunOneAtATime'
  BY DEF GroupInv, GroupsRunOneAtATime
<1> QED  BY <1>1, <1>2, <1>3, <1>4, <1>5 DEF GroupInv

\* An answer leaves other callers alone, and no call is undone by it.
LEMMA AnswersAreKept ==
  ASSUME SetsOK, NEW answer \in {"resolved", "rejected"},
         NEW tasks \in SUBSET Tasks
  PROVE  /\ Answer(answer, tasks) \in
              [Tasks -> {"none", "waiting", "resolved", "rejected"}]
         /\ \A t \in Tasks : caller[t] # "none"
                               => Answer(answer, tasks)[t] # "none"
         /\ \A t \in Tasks \ tasks : Answer(answer, tasks)[t] = caller[t]
BY DEF SetsOK, Answer

\* Telling those who wait for the end of processing undoes no stop.
LEMMA StopGoesOn ==
  ASSUME ResolveIdleWaiters
  PROVE  Stopped' <=> Stopped
BY DEF ResolveIdleWaiters, Stopped

-----------------------------------------------------------------------------
(* Leaving the queue *)

\* A promoted task is the first of a group that is not active.
LEMMA HeadsAreFirst ==
  ASSUME NEW groups, NEW tasks \in SUBSET Tasks, NEW activeGroups,
         NEW t \in GroupHeads(groups, tasks, activeGroups)
  PROVE  /\ t \in tasks
         /\ TaskGroup[t] \in groups
         /\ TaskGroup[t] \notin activeGroups
         /\ \A u \in tasks : TaskGroup[u] = TaskGroup[t]
                               => sequence[t] <= sequence[u]
BY DEF GroupHeads

\* Tasks that leave the queue by abort or timeout keep the groups in order.
LEMMA RemovalKeepsGroups ==
  ASSUME GroupInv, NEW tasks \in SUBSET Tasks, RemoveEntries(tasks),
         UNCHANGED <<active, groupActive, nextSequence, running, released,
                     working>>,
         caller' = Answer("rejected", tasks),
         Stopped' <=> Stopped
  PROVE  GroupInv'
<1> DEFINE heads ==
      GroupHeads(GroupsOf(tasks), queued \ tasks, groupActive)
<1>1. /\ queued' = queued \ tasks
      /\ ready' = (ready \ tasks) \cup heads
      /\ overdue' = overdue \ tasks
      /\ \A t \in queued' : sequence'[t] = sequence[t]
      /\ sequence' \in [Tasks -> Nat]
  BY DEF RemoveEntries, WithoutEntries, GroupInv, SetsOK
<1>2. heads \subseteq queued'
  BY <1>1, HeadsAreFirst DEF GroupInv, SetsOK
<1>3. SetsOK'
  BY <1>1, <1>2, AnswersAreKept DEF GroupInv, SetsOK
<1>4. TasksAreInOnePlace'
  BY <1>1, AnswersAreKept
  DEF GroupInv, SetsOK, TasksAreInOnePlace, Started
<1>5. SlotsAreActive' /\ StoppedIsEmpty'
  BY <1>1 DEF GroupInv, SlotsAreActive, StoppedIsEmpty
<1>6. ActiveGroupsAreMarked' /\ GroupsRunOneAtATime'
  BY DEF GroupInv, ActiveGroupsAreMarked, GroupsRunOneAtATime, Grouped
<1>7. ReadyAreHeads'
  <2> SUFFICES ASSUME NEW t \in ready', Grouped(t)
               PROVE  /\ TaskGroup[t] \notin groupActive
                      /\ \A u \in queued' : TaskGroup[u] = TaskGroup[t]
                                              => sequence'[t] <= sequence'[u]
    BY DEF ReadyAreHeads, Grouped
  <2>1. CASE t \in ready \ tasks
    BY <2>1, <1>1, <1>3 DEF GroupInv, ReadyAreHeads, SetsOK
  <2>2. CASE t \in heads
    BY <2>2, <1>1, <1>2, HeadsAreFirst DEF GroupInv, SetsOK
  <2> QED  BY <1>1, <2>1, <2>2
<1>8. ArrivalsAreOrdered'
  BY <1>1 DEF GroupInv, ArrivalsAreOrdered
<1> QED  BY <1>3, <1>4, <1>5, <1>6, <1>7, <1>8 DEF GroupInv

-----------------------------------------------------------------------------
(* Arriving, starting, finishing *)

\* A new task is ready only as the first of a group that is not active.
LEMMA EnqueueKeepsGroups ==
  ASSUME GroupInv, NEW t \in Tasks, Enqueue(t)
  PROVE  GroupInv'
<1>1. /\ caller[t] = "none" /\ ~Stopped /\ Stopped' = Stopped
      /\ caller' = [caller EXCEPT ![t] = "waiting"]
      /\ queued' = queued \cup {t}
      /\ ready' = IF IsFirstOfItsGroup(t) THEN ready \cup {t} ELSE ready
      /\ sequence' = [sequence EXCEPT ![t] = nextSequence]
      /\ nextSequence' = nextSequence + 1
      /\ UNCHANGED <<overdue, active, groupActive, running, released, working>>
  BY DEF Enqueue, Stopped, slots
<1>2. t \notin queued /\ t \notin Started
  BY <1>1 DEF GroupInv, TasksAreInOnePlace
<1>3. /\ \A u \in queued : sequence'[u] = sequence[u]
                           /\ sequence[u] < nextSequence
      /\ sequence'[t] = nextSequence
      /\ \A u \in Tasks : sequence[u] \in Nat /\ sequence'[u] \in Nat
      /\ nextSequence \in Nat
  BY <1>1, <1>2 DEF GroupInv, SetsOK, ArrivalsAreOrdered
<1>4. SetsOK'
  BY <1>1 DEF GroupInv, SetsOK
<1>5. TasksAreInOnePlace'
  BY <1>1, <1>2 DEF GroupInv, SetsOK, TasksAreInOnePlace, Started
<1>6. SlotsAreActive' /\ StoppedIsEmpty'
  BY <1>1 DEF GroupInv, SlotsAreActive, StoppedIsEmpty
<1>7. ActiveGroupsAreMarked' /\ GroupsRunOneAtATime'
  BY <1>1 DEF GroupInv, ActiveGroupsAreMarked, GroupsRunOneAtATime, Grouped
<1>8. ReadyAreHeads'
  <2> SUFFICES ASSUME NEW r \in ready', Grouped(r)
               PROVE  /\ TaskGroup[r] \notin groupActive
                      /\ \A u \in queued' : TaskGroup[u] = TaskGroup[r]
                                              => sequence'[r] <= sequence'[u]
    BY <1>1 DEF ReadyAreHeads, Grouped
  <2>1. CASE r \in ready
    BY <2>1, <1>1, <1>3 DEF GroupInv, ReadyAreHeads, SetsOK
  <2>2. CASE r \notin ready
    BY <2>2, <1>1, <1>3 DEF IsFirstOfItsGroup, Grouped
  <2> QED  BY <2>1, <2>2
<1>9. ArrivalsAreOrdered'
  <2>1. \A u, v \in queued' : sequence'[u] = sequence'[v] => u = v
    BY <1>1, <1>3 DEF GroupInv, SetsOK, ArrivalsAreOrdered
  <2>2. \A u \in queued' : sequence'[u] < nextSequence'
    BY <1>1, <1>3 DEF GroupInv, SetsOK
  <2> QED  BY <2>1, <2>2 DEF ArrivalsAreOrdered
<1> QED  BY <1>4, <1>5, <1>6, <1>7, <1>8, <1>9 DEF GroupInv

\* A task that starts was the only one of its group that could.
LEMMA TakeNextKeepsGroups ==
  ASSUME GroupInv, TakeNext
  PROVE  GroupInv'
<1>1. PICK t \in EarliestReady :
        /\ queued' = queued \ {t}
        /\ ready' = ready \ {t}
        /\ overdue' = overdue \ {t}
        /\ sequence' = WithoutEntries({t})
        /\ active' = active \cup {t}
        /\ groupActive' = groupActive \cup ({TaskGroup[t]} \cap Groups)
        /\ running' = running \cup {t}
        /\ working' = working \cup {t}
  BY DEF TakeNext
<1>2. /\ UNCHANGED <<nextSequence, released, caller>>
      /\ Stopped' = Stopped
  BY DEF TakeNext, Stopped
<1>3. /\ t \in ready /\ t \in queued /\ t \in Tasks
      /\ t \notin Started /\ caller[t] = "waiting" /\ ~Stopped
      /\ TaskGroup[t] \in Groups \cup {NoGroup}
  BY TaskProcessorAssumption
  DEF EarliestReady, GroupInv, SetsOK, TasksAreInOnePlace, StoppedIsEmpty
<1>4. /\ \A u \in queued' : sequence'[u] = sequence[u]
      /\ sequence' \in [Tasks -> Nat]
  BY <1>1 DEF WithoutEntries, GroupInv, SetsOK
<1>5. running \cup released \subseteq active
  BY <1>3 DEF GroupInv, SlotsAreActive
<1>6. \A u \in active : Grouped(t) => TaskGroup[u] # TaskGroup[t]
  BY <1>3 DEF GroupInv, ActiveGroupsAreMarked, ReadyAreHeads, Grouped
<1>7. SetsOK'
  BY <1>1, <1>2, <1>3, <1>4 DEF GroupInv, SetsOK
<1>8. TasksAreInOnePlace'
  BY <1>1, <1>2, <1>3 DEF GroupInv, TasksAreInOnePlace, Started
<1>9. SlotsAreActive' /\ StoppedIsEmpty'
  BY <1>1, <1>2, <1>3, <1>5 DEF SlotsAreActive, StoppedIsEmpty
<1>10. ActiveGroupsAreMarked'
  BY <1>1, <1>3, <1>6 DEF GroupInv, ActiveGroupsAreMarked, Grouped
<1>11. ReadyAreHeads'
  <2> SUFFICES ASSUME NEW r \in ready', Grouped(r)
               PROVE  /\ TaskGroup[r] \notin groupActive'
                      /\ \A u \in queued' : TaskGroup[u] = TaskGroup[r]
                                              => sequence'[r] <= sequence'[u]
    BY DEF ReadyAreHeads, Grouped
  <2>1. r \in ready /\ r \in queued /\ r # t /\ r \in queued'
    BY <1>1 DEF GroupInv, SetsOK
  <2>2. TaskGroup[r] # TaskGroup[t]
    <3> SUFFICES ASSUME TaskGroup[r] = TaskGroup[t]
                 PROVE  r = t
      BY <2>1
    <3>1. sequence[r] <= sequence[t] /\ sequence[t] <= sequence[r]
      BY <2>1, <1>3 DEF GroupInv, ReadyAreHeads, Grouped
    <3>2. sequence[r] = sequence[t]
      BY <3>1, <2>1, <1>3 DEF GroupInv, SetsOK
    <3> QED  BY <3>2, <2>1, <1>3 DEF GroupInv, ArrivalsAreOrdered
  <2> QED  BY <1>1, <1>4, <2>1, <2>2 DEF GroupInv, ReadyAreHeads
<1>12. ArrivalsAreOrdered'
  BY <1>1, <1>2, <1>4 DEF GroupInv, ArrivalsAreOrdered
<1>13. GroupsRunOneAtATime'
  BY <1>1, <1>2, <1>5, <1>6 DEF GroupInv, GroupsRunOneAtATime, Grouped
<1> QED
  BY <1>7, <1>8, <1>9, <1>10, <1>11, <1>12, <1>13 DEF GroupInv

\* A task that ends hands its group to the next one, and to no other.
LEMMA FinishKeepsGroups ==
  ASSUME GroupInv, NEW t \in Tasks, FinishItem(t)
  PROVE  GroupInv'
<1> DEFINE groups == GroupsOf({t} \cap active)
<1> DEFINE heads == GroupHeads(groups, queued, groupActive \ groups)
<1>1. /\ t \in released
      /\ released' = released \ {t}
      /\ active' = active \ {t}
      /\ groupActive' = groupActive \ groups
      /\ ready' = ready \cup heads
      /\ UNCHANGED <<queued, overdue, sequence, nextSequence, running, working,
                     caller>>
  BY DEF FinishItem, CompleteEntries
<1>2. Stopped' <=> Stopped
  BY StopGoesOn DEF FinishItem
<1>3. heads \subseteq queued
  BY HeadsAreFirst DEF GroupInv, SetsOK
<1>4. SetsOK'
  BY <1>1, <1>3 DEF GroupInv, SetsOK
<1>5. TasksAreInOnePlace'
  BY <1>1 DEF GroupInv, TasksAreInOnePlace, Started
<1>6. SlotsAreActive' /\ StoppedIsEmpty'
  BY <1>1, <1>2
  DEF GroupInv, SlotsAreActive, StoppedIsEmpty, TasksAreInOnePlace
<1>7. ActiveGroupsAreMarked'
  BY <1>1 DEF GroupInv, ActiveGroupsAreMarked, GroupsOf, Grouped
<1>8. ReadyAreHeads'
  <2> SUFFICES ASSUME NEW r \in ready', Grouped(r)
               PROVE  /\ TaskGroup[r] \notin groupActive'
                      /\ \A u \in queued : TaskGroup[u] = TaskGroup[r]
                                             => sequence[r] <= sequence[u]
    BY <1>1 DEF ReadyAreHeads, Grouped
  <2>1. CASE r \in ready
    BY <2>1, <1>1 DEF GroupInv, ReadyAreHeads
  <2>2. CASE r \in heads
    BY <2>2, <1>1, HeadsAreFirst DEF GroupInv, SetsOK
  <2> QED  BY <1>1, <2>1, <2>2
<1>9. ArrivalsAreOrdered' /\ GroupsRunOneAtATime'
  BY <1>1 DEF GroupInv, ArrivalsAreOrdered, GroupsRunOneAtATime
<1> QED  BY <1>4, <1>5, <1>6, <1>7, <1>8, <1>9 DEF GroupInv

-----------------------------------------------------------------------------
(* Stopping *)

\* Aborting the active tasks gives up their groups together with them.
LEMMA AbortKeepsGroups ==
  ASSUME GroupInv, AbortActiveItems
  PROVE  /\ active' \subseteq active
         /\ groupActive' \subseteq groupActive
         /\ \A t \in active' : Grouped(t) => TaskGroup[t] \in groupActive'
<1>1. /\ active' = active \ activeItems
      /\ groupActive' = groupActive \ GroupsOf(activeItems \cap active)
  BY DEF AbortActiveItems
<1> QED  BY <1>1 DEF GroupInv, ActiveGroupsAreMarked, GroupsOf, Grouped

\* Once a stop has emptied the queue.
LEMMA EmptyQueueKeepsGroups ==
  ASSUME GroupInv, queued' = {}, ready' = {}, overdue' = {}, Stopped',
         UNCHANGED <<running, released, working>>,
         active' \subseteq active,
         groupActive' \subseteq groupActive,
         \A t \in active' : Grouped(t) => TaskGroup[t] \in groupActive',
         sequence' \in [Tasks -> Nat], nextSequence' \in Nat,
         caller' \in [Tasks -> {"none", "waiting", "resolved", "rejected"}],
         \A t \in Tasks : caller[t] # "none" => caller'[t] # "none"
  PROVE  GroupInv'
<1>1. SetsOK'
  BY DEF GroupInv, SetsOK
<1>2. TasksAreInOnePlace'
  BY DEF GroupInv, SetsOK, TasksAreInOnePlace, Started
<1>3. SlotsAreActive' /\ StoppedIsEmpty' /\ ReadyAreHeads' /\ ArrivalsAreOrdered'
  BY DEF SlotsAreActive, StoppedIsEmpty, ReadyAreHeads, ArrivalsAreOrdered
<1>4. ActiveGroupsAreMarked' /\ GroupsRunOneAtATime'
  BY DEF GroupInv, ActiveGroupsAreMarked, GroupsRunOneAtATime, Grouped
<1> QED  BY <1>1, <1>2, <1>3, <1>4 DEF GroupInv

\* A stop leaves nothing in the queue that could start beside what runs.
LEMMA StopKeepsGroups ==
  ASSUME GroupInv, Stop
  PROVE  GroupInv'
<1>1. /\ queued' = {} /\ ready' = {} /\ overdue' = {} /\ Stopped'
      /\ sequence' = WithoutEntries(queued)
      /\ nextSequence' = 0
      /\ caller' = Answer("rejected", queued)
      /\ UNCHANGED <<running, released, working>>
  BY DEF Stop, Stopped, AnswerQueued
<1>2. /\ active' \subseteq active
      /\ groupActive' \subseteq groupActive
      /\ \A t \in active' : Grouped(t) => TaskGroup[t] \in groupActive'
  <2>1. CASE AbortActiveItems
    BY <2>1, AbortKeepsGroups
  <2>2. CASE UNCHANGED <<active, groupActive>>
    BY <2>2 DEF GroupInv, ActiveGroupsAreMarked
  <2> QED  BY <2>1, <2>2 DEF Stop
<1>3. sequence' \in [Tasks -> Nat] /\ nextSequence' \in Nat
  BY <1>1 DEF WithoutEntries, GroupInv, SetsOK
<1>4. /\ caller' \in [Tasks -> {"none", "waiting", "resolved", "rejected"}]
      /\ \A t \in Tasks : caller[t] # "none" => caller'[t] # "none"
  BY <1>1, AnswersAreKept DEF GroupInv, SetsOK
<1> QED  BY <1>1, <1>2, <1>3, <1>4, EmptyQueueKeepsGroups

\* Forgetting what still runs is safe: nothing is queued after a stop.
LEMMA CloseDeadlineKeepsGroups ==
  ASSUME GroupInv, PassCloseDeadline
  PROVE  GroupInv'
<1>1. /\ AbortActiveItems
      /\ Stopped /\ Stopped'
      /\ UNCHANGED <<queued, ready, overdue, sequence, nextSequence, running,
                     released, working, caller>>
  BY DEF PassCloseDeadline, Stopped
<1>2. queued = {} /\ ready = {} /\ overdue = {}
  BY <1>1 DEF GroupInv, StoppedIsEmpty, SetsOK
<1> QED
  BY <1>1, <1>2, AbortKeepsGroups, EmptyQueueKeepsGroups DEF GroupInv, SetsOK

-----------------------------------------------------------------------------
(* The invariant *)

\* A new task processor has no task at all.
LEMMA GroupInvInit == Init => GroupInv
BY DEF Init, GroupInv, SetsOK, TasksAreInOnePlace, Started, SlotsAreActive,
       StoppedIsEmpty, ActiveGroupsAreMarked, ReadyAreHeads,
       ArrivalsAreOrdered, GroupsRunOneAtATime, Stopped

\* Every step of the processor keeps the groups in order.
LEMMA GroupInvNext == GroupInv /\ [Next]_vars => GroupInv'
<1> SUFFICES ASSUME GroupInv, [Next]_vars
             PROVE  GroupInv'
  OBVIOUS
<1>0. SetsOK /\ running \cap released = {} /\ queued \cap working = {}
  BY DEF GroupInv, TasksAreInOnePlace, Started
<1>1. CASE RejectExpiredFirst \/ FireTimer
  BY <1>0, <1>1, StopGoesOn, RemovalKeepsGroups
  DEF RejectExpiredFirst, FireTimer, SetsOK
<1>2. CASE TakeNext
  BY <1>2, TakeNextKeepsGroups
<1>3. CASE Stop
  BY <1>3, StopKeepsGroups
<1>4. CASE PassCloseDeadline
  BY <1>4, CloseDeadlineKeepsGroups
<1>5. CASE LeaveLoop \/ \E w \in Waiters : WaitForEndOfProcessing(w)
  BY <1>0, <1>5, SchedulerUntouched
  DEF LeaveLoop, WaitForEndOfProcessing, slots, Stopped, SetsOK
<1>6. ASSUME NEW t \in Tasks, Enqueue(t)
      PROVE  GroupInv'
  BY <1>6, EnqueueKeepsGroups
<1>7. ASSUME NEW t \in Tasks, AbortQueued(t)
      PROVE  GroupInv'
  BY <1>0, <1>7, StopGoesOn, RemovalKeepsGroups DEF AbortQueued
<1>8. ASSUME NEW t \in Tasks, AbortStarted(t)
      PROVE  GroupInv'
  <2>1. /\ UNCHANGED <<scheduler, overdue, running, released, working, stop>>
        /\ t \in working
        /\ caller' = Answer("rejected", {t})
    BY <1>8 DEF AbortStarted, slots
  <2>2. \A u \in queued : caller'[u] = caller[u]
    BY <1>0, <2>1, AnswersAreKept DEF SetsOK
  <2>3. /\ caller' \in [Tasks -> {"none", "waiting", "resolved", "rejected"}]
        /\ \A u \in Tasks : caller[u] # "none" => caller'[u] # "none"
    BY <1>0, <2>1, AnswersAreKept
  <2>4. overdue' \subseteq queued /\ Stopped' = Stopped
    BY <1>0, <2>1 DEF SetsOK, Stopped
  <2> QED
    BY <1>0, <2>1, <2>2, <2>3, <2>4, SchedulerUntouched
<1>9. ASSUME NEW t \in Tasks, Release(t)
      PROVE  GroupInv'
  BY <1>0, <1>9, SchedulerUntouched DEF Release, Stopped, SetsOK
<1>10. ASSUME NEW t \in Tasks, Settle(t)
       PROVE  GroupInv'
  <2>1. /\ UNCHANGED <<scheduler, overdue, stop>>
        /\ working' = working \ {t}
        /\ t \in working
    BY <1>10 DEF Settle
  <2>2. PICK answer \in {"resolved", "rejected"} :
          caller' = Answer(answer, {t})
    BY <1>10 DEF Settle
  <2>3. /\ running' \cup released' \subseteq running \cup released
        /\ running' \cap released' = {}
    BY <1>0, <1>10 DEF Settle
  <2>4. \A u \in queued : caller'[u] = caller[u]
    BY <1>0, <2>1, <2>2, AnswersAreKept DEF SetsOK
  <2>5. /\ caller' \in [Tasks -> {"none", "waiting", "resolved", "rejected"}]
        /\ \A u \in Tasks : caller[u] # "none" => caller'[u] # "none"
    BY <1>0, <2>2, AnswersAreKept
  <2>6. overdue' \subseteq queued /\ Stopped' = Stopped
    BY <1>0, <2>1 DEF SetsOK, Stopped
  <2> QED
    BY <2>1, <2>3, <2>4, <2>5, <2>6, SchedulerUntouched
<1>11. ASSUME NEW t \in Tasks, FinishItem(t)
       PROVE  GroupInv'
  BY <1>11, FinishKeepsGroups
<1>12. ASSUME NEW t \in Tasks, PassDeadline(t)
       PROVE  GroupInv'
  BY <1>0, <1>12, SchedulerUntouched DEF PassDeadline, slots, Stopped, SetsOK
<1>13. CASE UNCHANGED vars
  BY <1>0, <1>13, SchedulerUntouched DEF vars, slots, Stopped, SetsOK
<1> QED
  BY <1>1, <1>2, <1>3, <1>4, <1>5, <1>6, <1>7, <1>8, <1>9, <1>10, <1>11,
     <1>12, <1>13
  DEF Next, ProcessQueue

\* Queue, heap, groups and slots agree, whatever calls interleave: a ready task
\* is the first of a group of which nothing runs.
THEOREM GroupInvariant == Spec => []GroupInv
BY GroupInvInit, GroupInvNext, PTL DEF Spec

\* Tasks of one group never hold slots together, whatever the groups, the
\* limits and the order of calls, aborts, timeouts and stops.
THEOREM TasksOfAGroupRunOneAtATime == Spec => []GroupsRunOneAtATime
<1>1. GroupInv => GroupsRunOneAtATime
  BY DEF GroupInv
<1> QED  BY <1>1, GroupInvariant, PTL

\* Work whose caller was turned away never starts: a task that starts is
\* queued, and who is queued still waits for the answer.
THEOREM StartedWorkIsAwaited == Spec => OnlyAwaitedWorkStarts
<1>1. GroupInv /\ [Next]_vars
        => [\A t \in running' \ running : caller[t] = "waiting"]_vars
  <2> SUFFICES ASSUME GroupInv, Next, NEW t \in running' \ running
               PROVE  caller[t] = "waiting"
    OBVIOUS
  <2>1. CASE TakeNext
    BY <2>1 DEF TakeNext, EarliestReady, GroupInv, SetsOK, TasksAreInOnePlace
  <2>2. CASE ~TakeNext
    <3>1. running' \subseteq running
      BY <2>2 DEF Next, ProcessQueue, RejectExpiredFirst, LeaveLoop, FireTimer,
           Stop, PassCloseDeadline, WaitForEndOfProcessing, Enqueue,
           AbortQueued, AbortStarted, Release, Settle, FinishItem,
           PassDeadline, slots
    <3> QED  BY <3>1
  <2> QED  BY <2>1, <2>2
<1> QED
  BY <1>1, GroupInvariant, PTL DEF Spec, OnlyAwaitedWorkStarts

-----------------------------------------------------------------------------
(* Counting slots *)

Held == running \cup released

SlotInv ==
  /\ IsFiniteSet(Held)
  /\ activeTasks \in Nat
  /\ SlotsAreCounted

\* At first no slot is taken.
LEMMA SlotInvInit == Init => SlotInv
BY FS_EmptySet, TaskProcessorAssumption
DEF Init, SlotInv, Held, SlotsAreCounted

\* A slot is counted from the start of its task to the end of executeItem, once.
LEMMA SlotInvNext == GroupInv /\ SlotInv /\ [Next]_vars => SlotInv'
<1> SUFFICES ASSUME GroupInv, SlotInv, [Next]_vars
             PROVE  SlotInv'
  OBVIOUS
<1>1. CASE TakeNext
  <2>1. PICK t \in queued : Held' = Held \cup {t}
    BY <1>1 DEF TakeNext, EarliestReady, Held, GroupInv, SetsOK
  <2>2. t \notin Held
    BY DEF Held, GroupInv, TasksAreInOnePlace, Started
  <2>3. activeTasks' = activeTasks + 1 /\ activeTasks < MaxActiveTasks
    BY <1>1 DEF TakeNext, HasFreeSlot
  <2>4. /\ IsFiniteSet(Held')
        /\ Cardinality(Held') = Cardinality(Held) + 1
    BY <2>1, <2>2, FS_AddElement DEF SlotInv
  <2> QED
    BY <2>3, <2>4, TaskProcessorAssumption DEF SlotInv, SlotsAreCounted, Held
<1>2. ASSUME NEW t \in Tasks, FinishItem(t)
      PROVE  SlotInv'
  <2>1. /\ Held' = Held \ {t}
        /\ t \in Held
        /\ activeTasks' = activeTasks - 1
    BY <1>2 DEF FinishItem, Held, GroupInv, TasksAreInOnePlace
  <2>2. /\ IsFiniteSet(Held')
        /\ Cardinality(Held') = Cardinality(Held) - 1
        /\ Cardinality(Held') \in Nat
    BY <2>1, FS_RemoveElement, FS_CardinalityType DEF SlotInv
  <2> QED
    BY <2>1, <2>2, TaskProcessorAssumption DEF SlotInv, SlotsAreCounted, Held
<1>3. CASE ~TakeNext /\ \A t \in Tasks : ~FinishItem(t)
  <2>1. Held' = Held /\ activeTasks' = activeTasks
    BY <1>3 DEF Next, ProcessQueue, RejectExpiredFirst, LeaveLoop, FireTimer,
         Stop, PassCloseDeadline, WaitForEndOfProcessing, Enqueue, AbortQueued,
         AbortStarted, Release, Settle, PassDeadline, slots, vars, Held
  <2> QED  BY <2>1 DEF SlotInv, SlotsAreCounted, Held
<1> QED  BY <1>1, <1>2, <1>3

\* The number of active tasks is that of the slots that are taken, and never
\* exceeds the limit.
THEOREM SlotsStayCounted == Spec => []SlotsAreCounted
<1>1. SlotInv => SlotsAreCounted
  BY DEF SlotInv
<1> QED
  BY <1>1, SlotInvInit, SlotInvNext, GroupInvariant, PTL DEF Spec

-----------------------------------------------------------------------------
(* Types *)

\* What the other two invariants leave out of TypeOK.
OthersOK ==
  /\ timer \in BOOLEAN
  /\ loop \in {"idle", "entered", "taking", "task"}
  /\ activeItems \subseteq Tasks
  /\ aborted \subseteq Tasks
  /\ waiter \in [Waiters -> {"none", "waiting", "resolved"}]
  /\ stop \in {"none", "draining", "closing", "drained", "forced"}

\* Telling those who wait leaves waiters and stop in their types.
LEMMA WaitersStayTyped ==
  ASSUME OthersOK, ResolveIdleWaiters
  PROVE  /\ waiter' \in [Waiters -> {"none", "waiting", "resolved"}]
         /\ stop' \in {"none", "draining", "closing", "drained", "forced"}
BY DEF OthersOK, ResolveIdleWaiters

\* Every step keeps the remaining variables in their types.
LEMMA OthersOKNext ==
  ASSUME GroupInv, OthersOK, [Next]_vars
  PROVE  OthersOK'
<1>0. queued \subseteq Tasks /\ ready \subseteq Tasks /\ working \subseteq Tasks
  BY DEF GroupInv, SetsOK
<1>1. CASE ProcessQueue
  BY <1>0, <1>1, WaitersStayTyped
  DEF OthersOK, ProcessQueue, RejectExpiredFirst, TakeNext, LeaveLoop,
      EarliestReady, slots
<1>2. CASE FireTimer
  BY <1>2, WaitersStayTyped DEF OthersOK, FireTimer
<1>3. CASE Stop \/ PassCloseDeadline
  BY <1>0, <1>3 DEF OthersOK, Stop, PassCloseDeadline, AbortActiveItems
<1>4. ASSUME NEW w \in Waiters, WaitForEndOfProcessing(w)
      PROVE  OthersOK'
  BY <1>4 DEF OthersOK, WaitForEndOfProcessing, slots
<1>5. ASSUME NEW t \in Tasks,
             AbortQueued(t) \/ FinishItem(t)
      PROVE  OthersOK'
  BY <1>5, WaitersStayTyped
  DEF OthersOK, AbortQueued, FinishItem, EnsureProcessing
<1>6. ASSUME NEW t \in Tasks,
             \/ Enqueue(t) \/ AbortStarted(t) \/ Release(t)
             \/ Settle(t) \/ PassDeadline(t)
      PROVE  OthersOK'
  BY <1>6, TaskProcessorAssumption
  DEF OthersOK, Enqueue, AbortStarted, Release, Settle, PassDeadline,
      EnsureProcessing, slots
<1>7. CASE UNCHANGED vars
  BY <1>7 DEF OthersOK, vars, slots
<1> QED
  BY <1>1, <1>2, <1>3, <1>4, <1>5, <1>6, <1>7 DEF Next

\* What is ready or overdue is queued, whichever way tasks leave the queue.
THEOREM TypeInvariant == Spec => []TypeOK
<1>1. Init => OthersOK
  BY DEF Init, OthersOK
<1>2. GroupInv /\ OthersOK /\ [Next]_vars => OthersOK'
  BY OthersOKNext
<1>3. GroupInv /\ SlotInv /\ OthersOK => TypeOK
  BY DEF GroupInv, SetsOK, SlotInv, OthersOK, TypeOK
<1> QED
  BY <1>1, <1>2, <1>3, SlotInvInit, SlotInvNext, GroupInvariant, PTL DEF Spec

-----------------------------------------------------------------------------
(* No work is held back *)

\* A set of numbers that has a member has a least one.
LEMMA LeastExists ==
  ASSUME NEW S \in SUBSET Nat, S # {}
  PROVE  \E x \in S : \A y \in S : x <= y
<1> DEFINE R == OpToRel(<, Nat)
<1>1. IsWellFoundedOn(R, Nat)
  BY NatLessThanWellFounded
<1>2. \A x, y \in Nat : y < x => <<y, x>> \in R
  BY DEF OpToRel
<1> HIDE DEF R
<1>3. PICK x \in S : \A y \in S : ~(<<y, x>> \in R)
  BY <1>1, WFMin
<1>4. \A y \in S : x <= y
  <2> SUFFICES ASSUME NEW y \in S PROVE x <= y
    OBVIOUS
  <2>1. ~(y < x)
    BY <1>2, <1>3, Zenon
  <2> QED
    BY <2>1
<1> QED
  BY <1>4

\* A group that is looked at, has tasks and is not active has a first task.
LEMMA HeadsExist ==
  ASSUME SetsOK, NEW groups, NEW tasks \in SUBSET Tasks, NEW activeGroups,
         NEW t \in tasks, Grouped(t), TaskGroup[t] \in groups,
         TaskGroup[t] \notin activeGroups
  PROVE  \E u \in GroupHeads(groups, tasks, activeGroups) :
           TaskGroup[u] = TaskGroup[t]
<1> DEFINE S == {sequence[u] : u \in {v \in tasks : TaskGroup[v] = TaskGroup[t]}}
<1>1. S \in SUBSET Nat /\ S # {}
  BY DEF SetsOK
<1>2. PICK x \in S : \A y \in S : x <= y
  BY <1>1, LeastExists
<1>3. PICK u \in tasks : TaskGroup[u] = TaskGroup[t] /\ sequence[u] = x
  OBVIOUS
<1>4. \A v \in tasks : TaskGroup[v] = TaskGroup[u]
                         => sequence[u] <= sequence[v]
  BY <1>2, <1>3
<1>5. TaskGroup[u] \in (groups \cap Groups) \ activeGroups
  BY <1>3, TaskProcessorAssumption DEF Grouped
<1> QED
  BY <1>3, <1>4, <1>5 DEF GroupHeads

\* Whoever may start is ready: a task without a group, and one of every group
\* that is not active.
WhoMayStartIsReady ==
  \A t \in queued :
    /\ ~Grouped(t) => t \in ready
    /\ Grouped(t) /\ TaskGroup[t] \notin groupActive =>
         \E u \in ready : TaskGroup[u] = TaskGroup[t]

\* As long as nobody stops the processor, a group is active because one of its
\* tasks has a slot.
ActiveGroupsAreHeld ==
  ~Stopped => \A g \in groupActive : \E u \in running \cup released :
                TaskGroup[u] = g

\* The loop is left when it has nothing to start, and what happens while it
\* rests gives it nothing to start, or enters it again.
RestsWhenDone ==
  /\ loop = "idle" => ~HasFreeSlot \/ ready = {}
  /\ loop = "task" => activeTasks > 0

WorkInv == WhoMayStartIsReady /\ ActiveGroupsAreHeld /\ RestsWhenDone

\* At first nothing is queued.
LEMMA WorkInvInit == Init => WorkInv
BY DEF Init, WorkInv, WhoMayStartIsReady, ActiveGroupsAreHeld, RestsWhenDone

\* Whoever leaves the queue leaves the next one of the group ready; and while
\* the loop rests with a slot to give, there is no such next one.
LEMMA RemovalHoldsNothingBack ==
  ASSUME GroupInv, WorkInv, NEW tasks \in SUBSET queued, RemoveEntries(tasks),
         UNCHANGED groupActive
  PROVE  /\ WhoMayStartIsReady'
         /\ ready = {} => ready' = {}
<1> DEFINE heads ==
      GroupHeads(GroupsOf(tasks), queued \ tasks, groupActive)
<1>1. /\ queued' = queued \ tasks
      /\ ready' = (ready \ tasks) \cup heads
      /\ queued \subseteq Tasks /\ ready \subseteq queued
      /\ SetsOK
  BY DEF RemoveEntries, GroupInv, SetsOK
<1>2. ASSUME NEW t \in queued', ~Grouped(t) PROVE t \in ready'
  BY <1>1, <1>2 DEF WorkInv, WhoMayStartIsReady
<1>3. ASSUME NEW t \in queued', Grouped(t), TaskGroup[t] \notin groupActive
      PROVE  \E u \in ready' : TaskGroup[u] = TaskGroup[t]
  <2>1. CASE TaskGroup[t] \in GroupsOf(tasks)
    <3>1. queued \ tasks \in SUBSET Tasks /\ t \in queued \ tasks
      BY <1>1
    <3>2. \E u \in heads : TaskGroup[u] = TaskGroup[t]
      BY <1>1, <1>3, <2>1, <3>1, HeadsExist
    <3> QED
      BY <1>1, <3>2
  <2>2. CASE TaskGroup[t] \notin GroupsOf(tasks)
    <3>1. PICK u \in ready : TaskGroup[u] = TaskGroup[t]
      BY <1>1, <1>3 DEF WorkInv, WhoMayStartIsReady
    <3>2. u \notin tasks
      BY <2>2, <3>1 DEF GroupsOf
    <3> QED
      BY <1>1, <3>1, <3>2
  <2> QED
    BY <2>1, <2>2
<1>4. WhoMayStartIsReady'
  BY <1>2, <1>3 DEF WhoMayStartIsReady, Grouped
<1>5. ASSUME ready = {}, NEW t \in heads PROVE FALSE
  <2>1. PICK u \in tasks : TaskGroup[u] = TaskGroup[t]
    BY <1>1, HeadsAreFirst DEF GroupsOf
  <2>2. TaskGroup[t] \notin groupActive /\ TaskGroup[t] \in Groups
    BY DEF GroupHeads
  <2>3. Grouped(u)
    BY <2>1, <2>2, TaskProcessorAssumption DEF Grouped
  <2> QED
    BY <1>5, <2>1, <2>2, <2>3 DEF WorkInv, WhoMayStartIsReady
<1> QED
  BY <1>1, <1>4, <1>5

\* Every step of the processor keeps it.
LEMMA WorkInvNext ==
  ASSUME GroupInv, SlotInv, WorkInv, [Next]_vars
  PROVE  WorkInv'
<1>0. /\ SetsOK /\ queued \subseteq Tasks /\ ready \subseteq queued
      /\ overdue \subseteq queued /\ activeTasks \in Nat
  BY DEF GroupInv, SetsOK, SlotInv
\* A step that leaves the scheduler and the slots' holders alone.
<1>s. ASSUME UNCHANGED <<queued, ready, groupActive, activeTasks>>,
             running' \cup released' = running \cup released,
             Stopped' <=> Stopped,
             loop' = loop
      PROVE  WorkInv'
  BY <1>s DEF WorkInv, WhoMayStartIsReady, ActiveGroupsAreHeld, RestsWhenDone,
              Grouped, HasFreeSlot
\* A step after which nothing is queued, and the processor is stopped.
<1>e. ASSUME queued' = {}, ready' = {}, Stopped', UNCHANGED <<activeTasks, loop>>
      PROVE  WorkInv'
  BY <1>e DEF WorkInv, WhoMayStartIsReady, ActiveGroupsAreHeld, RestsWhenDone
\* A step by which tasks leave the queue.
<1>r. ASSUME NEW tasks \in SUBSET queued, RemoveEntries(tasks),
             ResolveIdleWaiters,
             UNCHANGED <<groupActive, activeTasks, running, released>>,
             loop' = loop \/ loop' = "taking"
      PROVE  WorkInv'
  <2>1. WhoMayStartIsReady' /\ (ready = {} => ready' = {})
    BY <1>r, RemovalHoldsNothingBack
  <2>2. ActiveGroupsAreHeld'
    BY <1>r, StopGoesOn DEF WorkInv, ActiveGroupsAreHeld
  <2>3. RestsWhenDone'
    BY <1>r, <2>1 DEF WorkInv, RestsWhenDone, HasFreeSlot
  <2> QED
    BY <2>1, <2>2, <2>3 DEF WorkInv
<1>1. CASE RejectExpiredFirst \/ FireTimer
  BY <1>0, <1>1, <1>r DEF RejectExpiredFirst, FireTimer
<1>2. CASE TakeNext
  <2>1. PICK t \in EarliestReady :
          /\ queued' = queued \ {t}
          /\ ready' = ready \ {t}
          /\ groupActive' = groupActive \cup ({TaskGroup[t]} \cap Groups)
          /\ running' = running \cup {t}
    BY <1>2 DEF TakeNext
  <2>2. /\ activeTasks' = activeTasks + 1 /\ loop' = "task"
        /\ UNCHANGED <<released, stop>>
    BY <1>2 DEF TakeNext
  <2>3. t \in ready /\ t \in Tasks
    BY <1>0 DEF EarliestReady
  <2>4. WhoMayStartIsReady'
    <3>1. ASSUME NEW u \in queued', ~Grouped(u) PROVE u \in ready'
      BY <2>1, <3>1 DEF WorkInv, WhoMayStartIsReady
    <3>2. ASSUME NEW u \in queued', Grouped(u), TaskGroup[u] \notin groupActive'
          PROVE  \E v \in ready' : TaskGroup[v] = TaskGroup[u]
      <4>1. PICK v \in ready : TaskGroup[v] = TaskGroup[u]
        BY <2>1, <3>2 DEF WorkInv, WhoMayStartIsReady
      <4>2. TaskGroup[u] \in Groups
        BY <1>0, <2>1, <3>2, TaskProcessorAssumption DEF Grouped
      <4>3. v # t
        BY <2>1, <3>2, <4>1, <4>2
      <4> QED
        BY <2>1, <4>1, <4>3
    <3> QED
      BY <3>1, <3>2 DEF WhoMayStartIsReady, Grouped
  <2>5. ActiveGroupsAreHeld'
    BY <2>1, <2>2 DEF WorkInv, ActiveGroupsAreHeld, Stopped
  <2>6. RestsWhenDone'
    BY <1>0, <2>2 DEF RestsWhenDone
  <2> QED
    BY <2>4, <2>5, <2>6 DEF WorkInv
<1>3. CASE LeaveLoop
  BY <1>3 DEF LeaveLoop, scheduler, slots, WorkInv, WhoMayStartIsReady,
              ActiveGroupsAreHeld, RestsWhenDone, Grouped, HasFreeSlot, Stopped
<1>4. CASE Stop \/ PassCloseDeadline
  <2>1. queued' = {} /\ ready' = {} /\ Stopped' /\ UNCHANGED <<activeTasks, loop>>
    BY <1>0, <1>4 DEF Stop, PassCloseDeadline, Stopped, GroupInv, StoppedIsEmpty
  <2> QED
    BY <2>1, <1>e
<1>5. ASSUME NEW w \in Waiters, WaitForEndOfProcessing(w) PROVE WorkInv'
  BY <1>5, <1>s DEF WaitForEndOfProcessing, scheduler, slots, Stopped
<1>6. ASSUME NEW t \in Tasks, Enqueue(t) PROVE WorkInv'
  <2>1. /\ queued' = queued \cup {t}
        /\ ready' = IF IsFirstOfItsGroup(t) THEN ready \cup {t} ELSE ready
        /\ UNCHANGED <<groupActive, activeTasks, running, released, stop>>
        /\ loop' = IF loop = "idle" THEN "entered" ELSE loop
    BY <1>6 DEF Enqueue, EnsureProcessing, slots
  <2>2. WhoMayStartIsReady'
    <3>1. ASSUME NEW u \in queued', ~Grouped(u) PROVE u \in ready'
      BY <2>1, <3>1
      DEF WorkInv, WhoMayStartIsReady, IsFirstOfItsGroup, Grouped
    <3>2. ASSUME NEW u \in queued', Grouped(u), TaskGroup[u] \notin groupActive
          PROVE  \E v \in ready' : TaskGroup[v] = TaskGroup[u]
      <4>1. CASE \E v \in queued : TaskGroup[v] = TaskGroup[u]
        <5>1. PICK v \in queued : TaskGroup[v] = TaskGroup[u]
          BY <4>1
        <5>2. \E x \in ready : TaskGroup[x] = TaskGroup[u]
          BY <3>2, <5>1 DEF WorkInv, WhoMayStartIsReady, Grouped
        <5> QED
          BY <2>1, <5>2
      <4>2. CASE ~ \E v \in queued : TaskGroup[v] = TaskGroup[u]
        BY <2>1, <3>2, <4>2 DEF IsFirstOfItsGroup
      <4> QED
        BY <4>1, <4>2
    <3> QED
      BY <2>1, <3>1, <3>2 DEF WhoMayStartIsReady, Grouped
  <2>3. ActiveGroupsAreHeld' /\ RestsWhenDone'
    BY <2>1 DEF WorkInv, ActiveGroupsAreHeld, RestsWhenDone, Stopped
  <2> QED
    BY <2>2, <2>3 DEF WorkInv
<1>7. ASSUME NEW t \in Tasks, AbortQueued(t) PROVE WorkInv'
  <2>1. {t} \in SUBSET queued /\ RemoveEntries({t})
    BY <1>7 DEF AbortQueued
  <2> QED
    BY <1>7, <2>1, <1>r DEF AbortQueued
<1>8. ASSUME NEW t \in Tasks, AbortStarted(t) \/ PassDeadline(t) PROVE WorkInv'
  BY <1>8, <1>s DEF AbortStarted, PassDeadline, scheduler, slots, Stopped
<1>9. ASSUME NEW t \in Tasks, Release(t) \/ Settle(t) PROVE WorkInv'
  <2>1. running' \cup released' = running \cup released
    BY <1>9 DEF Release, Settle
  <2> QED
    BY <1>9, <1>s, <2>1 DEF Release, Settle, scheduler, Stopped
<1>10. ASSUME NEW t \in Tasks, FinishItem(t) PROVE WorkInv'
  <2> DEFINE groups == GroupsOf({t} \cap active)
             heads == GroupHeads(groups, queued, groupActive \ groups)
  <2>1. /\ t \in released
        /\ released' = released \ {t}
        /\ groupActive' = groupActive \ groups
        /\ ready' = ready \cup heads
        /\ UNCHANGED <<queued, running>>
        /\ loop' = "entered"
    BY <1>10 DEF FinishItem, CompleteEntries, EnsureProcessing
  <2>2. Stopped' <=> Stopped
    BY <1>10, StopGoesOn DEF FinishItem
  <2>3. WhoMayStartIsReady'
    <3>1. ASSUME NEW u \in queued, Grouped(u), TaskGroup[u] \notin groupActive'
          PROVE  \E v \in ready' : TaskGroup[v] = TaskGroup[u]
      <4>1. CASE TaskGroup[u] \in groups
        <5>1. \E v \in heads : TaskGroup[v] = TaskGroup[u]
          BY <1>0, <2>1, <3>1, <4>1, HeadsExist
        <5> QED
          BY <2>1, <5>1
      <4>2. CASE TaskGroup[u] \notin groups
        BY <2>1, <3>1, <4>2 DEF WorkInv, WhoMayStartIsReady
      <4> QED
        BY <4>1, <4>2
    <3> QED
      BY <2>1, <3>1 DEF WorkInv, WhoMayStartIsReady, Grouped
  <2>4. ActiveGroupsAreHeld'
    <3> SUFFICES ASSUME ~Stopped, NEW g \in groupActive'
                 PROVE  \E u \in running' \cup released' : TaskGroup[u] = g
      BY <2>2 DEF ActiveGroupsAreHeld
    <3>1. t \in active
      BY <2>1 DEF GroupInv, SlotsAreActive
    <3>2. g # TaskGroup[t]
      BY <2>1, <3>1 DEF GroupsOf
    <3>3. PICK u \in running \cup released : TaskGroup[u] = g
      BY <2>1 DEF WorkInv, ActiveGroupsAreHeld
    <3> QED
      BY <2>1, <3>2, <3>3
  <2>5. RestsWhenDone'
    BY <2>1 DEF RestsWhenDone
  <2> QED
    BY <2>3, <2>4, <2>5 DEF WorkInv
<1>11. CASE UNCHANGED vars
  BY <1>11, <1>s DEF vars, scheduler, slots, Stopped
<1> QED
  BY <1>1, <1>2, <1>3, <1>4, <1>5, <1>6, <1>7, <1>8, <1>9, <1>10, <1>11
  DEF Next, ProcessQueue

\* Queue, heap, groups and slots: nothing that may start is forgotten.
LEMMA WorkInvariant == Spec => [](GroupInv /\ SlotInv /\ WorkInv)
<1>1. SlotInv /\ GroupInv /\ WorkInv /\ [Next]_vars => WorkInv'
  BY WorkInvNext
<1> QED
  BY <1>1, WorkInvInit, SlotInvInit, SlotInvNext, GroupInvariant, PTL DEF Spec

\* What waits while the processor rests waits for its group, if there is a slot.
LEMMA RestHoldsNothingBack ==
  ASSUME GroupInv, WorkInv
  PROVE  WorkIsNotHeldBack
<1> SUFFICES ASSUME loop = "idle", HasFreeSlot, NEW t \in queued
             PROVE  \E u \in running \cup released :
                      TaskGroup[t] = TaskGroup[u] /\ TaskGroup[t] # NoGroup
  BY DEF WorkIsNotHeldBack
<1>1. ready = {}
  BY DEF WorkInv, RestsWhenDone
<1>2. Grouped(t) /\ TaskGroup[t] \in groupActive
  BY <1>1 DEF WorkInv, WhoMayStartIsReady
<1>3. ~Stopped
  BY DEF GroupInv, StoppedIsEmpty
<1> QED
  BY <1>2, <1>3 DEF WorkInv, ActiveGroupsAreHeld, Grouped

\* No task that could start is left waiting when the processor comes to rest,
\* though an abort or the timer promotes tasks without entering the loop.
THEOREM NoWorkIsHeldBack == Spec => []WorkIsNotHeldBack
<1>1. GroupInv /\ SlotInv /\ WorkInv => WorkIsNotHeldBack
  BY RestHoldsNothingBack
<1> QED
  BY <1>1, WorkInvariant, PTL

\* Tasks start in the order in which they came; only one that waits for its
\* group is overtaken.
THEOREM OnlyGroupsAreOvertaken == Spec => StartsInArrivalOrder
<1> DEFINE Ordered ==
      \A t \in running' \ running, u \in queued :
        sequence[u] < sequence[t]
          => \E v \in running \cup released :
               TaskGroup[u] = TaskGroup[v] /\ TaskGroup[u] # NoGroup
<1>1. ASSUME GroupInv, WorkInv, Next PROVE Ordered
  <2> SUFFICES ASSUME NEW t \in running' \ running, NEW u \in queued,
                      sequence[u] < sequence[t]
               PROVE  \E v \in running \cup released :
                        TaskGroup[u] = TaskGroup[v] /\ TaskGroup[u] # NoGroup
    OBVIOUS
  <2>1. TakeNext
    BY <1>1
    DEF Next, ProcessQueue, RejectExpiredFirst, LeaveLoop, FireTimer,
        Stop, PassCloseDeadline, WaitForEndOfProcessing, Enqueue,
        AbortQueued, AbortStarted, Release, Settle, FinishItem,
        PassDeadline, slots
  <2>2. t \in EarliestReady
    BY <2>1 DEF TakeNext
  <2>3. /\ \A v \in queued : sequence[v] \in Nat
        /\ ready \subseteq queued /\ t \in ready
        /\ \A v \in ready : sequence[t] <= sequence[v]
    BY <1>1, <2>2 DEF GroupInv, SetsOK, EarliestReady
  <2>4. u \notin ready
    BY <2>3
  <2>5. Grouped(u) /\ TaskGroup[u] \in groupActive
    <3> SUFFICES ASSUME Grouped(u), TaskGroup[u] \notin groupActive
                 PROVE  FALSE
      BY <1>1, <2>4 DEF WorkInv, WhoMayStartIsReady
    <3>1. PICK v \in ready : TaskGroup[v] = TaskGroup[u]
      BY <1>1 DEF WorkInv, WhoMayStartIsReady
    <3>2. sequence[v] <= sequence[u]
      BY <1>1, <3>1 DEF GroupInv, ReadyAreHeads, Grouped
    <3> QED
      BY <2>3, <3>1, <3>2
  <2>6. ~Stopped
    BY <1>1 DEF GroupInv, StoppedIsEmpty
  <2> QED
    BY <1>1, <2>5, <2>6 DEF WorkInv, ActiveGroupsAreHeld, Grouped
<1>2. GroupInv /\ SlotInv /\ WorkInv /\ [Next]_vars => [Ordered]_vars
  BY <1>1
<1> QED
  BY <1>2, WorkInvariant, PTL DEF Spec, StartsInArrivalOrder

\* With nothing queued and nothing active, nobody is kept waiting: an abort, a
\* timeout, a stop and the last task's end all look after those who wait.
LEMMA WaitersNext ==
  ASSUME GroupInv, SlotInv, WorkInv, OthersOK, WaitersAreNotForgotten,
         [Next]_vars
  PROVE  WaitersAreNotForgotten'
<1>0. /\ waiter \in [Waiters -> {"none", "waiting", "resolved"}]
      /\ activeTasks \in Nat /\ queued \subseteq Tasks
  BY DEF OthersOK, SlotInv, GroupInv, SetsOK
<1>1. ASSUME ResolveIdleWaiters PROVE WaitersAreNotForgotten'
  <2>1. CASE activeTasks' = 0 /\ queued' = {}
    BY <1>0, <1>1, <2>1 DEF ResolveIdleWaiters, WaitersAreNotForgotten
  <2>2. CASE ~(activeTasks' = 0 /\ queued' = {})
    BY <2>2 DEF WaitersAreNotForgotten, Idle
  <2> QED
    BY <2>1, <2>2
<1>2. ASSUME UNCHANGED <<activeTasks, queued, waiter, stop>>
      PROVE  WaitersAreNotForgotten'
  BY <1>2 DEF WaitersAreNotForgotten, Idle
<1>3. CASE RejectExpiredFirst \/ FireTimer
  BY <1>1, <1>3 DEF RejectExpiredFirst, FireTimer
<1>4. CASE TakeNext
  BY <1>0, <1>4 DEF TakeNext, WaitersAreNotForgotten, Idle
<1>5. CASE LeaveLoop
  BY <1>2, <1>5 DEF LeaveLoop, scheduler, slots
<1>6. CASE Stop
  <2> SUFFICES ASSUME activeTasks = 0
               PROVE  /\ \A w \in Waiters : waiter[w] # "waiting"
                      /\ stop' \notin {"draining", "closing"}
    BY <1>6 DEF Stop, WaitersAreNotForgotten, Idle
  <2>1. loop = "idle"
    BY <1>6 DEF Stop, CanCall, WorkInv, RestsWhenDone
  <2>2. HasFreeSlot
    BY TaskProcessorAssumption DEF HasFreeSlot
  <2>3. running \cup released = {}
    BY FS_EmptySet DEF SlotInv, SlotsAreCounted, Held
  <2>4. queued = {}
    BY <2>1, <2>2, <2>3, RestHoldsNothingBack DEF WorkIsNotHeldBack
  <2>5. \A w \in Waiters : waiter[w] # "waiting"
    BY <2>4 DEF WaitersAreNotForgotten, Idle
  <2> QED
    BY <1>6, <2>5 DEF Stop
<1>7. CASE PassCloseDeadline
  BY <1>7 DEF PassCloseDeadline, WaitersAreNotForgotten, Idle
<1>8. ASSUME NEW w \in Waiters, WaitForEndOfProcessing(w)
      PROVE  WaitersAreNotForgotten'
  BY <1>0, <1>8
  DEF WaitForEndOfProcessing, WaitersAreNotForgotten, Idle, scheduler, slots
<1>9. ASSUME NEW t \in Tasks, Enqueue(t) PROVE WaitersAreNotForgotten'
  BY <1>9 DEF Enqueue, WaitersAreNotForgotten, Idle
<1>10. ASSUME NEW t \in Tasks, AbortQueued(t) \/ FinishItem(t)
       PROVE  WaitersAreNotForgotten'
  BY <1>1, <1>10 DEF AbortQueued, FinishItem
<1>11. ASSUME NEW t \in Tasks,
              AbortStarted(t) \/ Release(t) \/ Settle(t) \/ PassDeadline(t)
       PROVE  WaitersAreNotForgotten'
  BY <1>2, <1>11
  DEF AbortStarted, Release, Settle, PassDeadline, scheduler, slots
<1>12. CASE UNCHANGED vars
  BY <1>2, <1>12 DEF vars, scheduler, slots
<1> QED
  BY <1>3, <1>4, <1>5, <1>6, <1>7, <1>8, <1>9, <1>10, <1>11, <1>12
  DEF Next, ProcessQueue

\* Nobody keeps waiting for the end of processing when nothing is left, whoever
\* waits, and whichever way the last task has left.
THEOREM NoWaiterIsForgotten == Spec => []WaitersAreNotForgotten
<1>1. Init => OthersOK /\ WaitersAreNotForgotten
  BY DEF Init, OthersOK, WaitersAreNotForgotten
<1>2. GroupInv /\ SlotInv /\ WorkInv /\ OthersOK /\ WaitersAreNotForgotten
        /\ [Next]_vars => OthersOK' /\ WaitersAreNotForgotten'
  BY OthersOKNext, WaitersNext
<1> QED
  BY <1>1, <1>2, WorkInvariant, PTL DEF Spec

=============================================================================
