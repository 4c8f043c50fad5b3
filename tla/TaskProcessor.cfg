\* Two tasks of a group, one of which may never end, and two without; two slots.
CONSTANTS
  t1 = t1
  t2 = t2
  t3 = t3
  t4 = t4
  g1 = g1
  Tasks = {t1, t2, t3, t4}
  Waiters = {w1}
  Groups = {g1}
  NoGroup = NoGroup
  TaskGroup <- OneGroup
  ManualTasks = {t2}
  NeverEnding = {t1}
  HasIdleTimeout = TRUE
  MaxActiveTasks = 2
  MaxQueueSize = 3
CHECK_DEADLOCK FALSE
SPECIFICATION FairSpec
INVARIANTS
  GroupsRunOneAtATime
  SlotsAreCounted
  WorkIsNotHeldBack
  WaitersAreNotForgotten
PROPERTIES
  StartsInArrivalOrder
  OnlyAwaitedWorkStarts
  EveryCallerIsAnswered
