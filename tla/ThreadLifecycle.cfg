\* Three tasks, the second start included, fair scheduling.
SPECIFICATION FairSpec
CONSTANTS
  Task = {t1, t2, t3}
  Poster = {p1}
  Owner = owner
  QuitTask = quit
  MaxStarts = 2
  Rounds = 4
INVARIANTS
  LoopOutlivesPosts
  QuitComesLast
  TasksSettled
  DestructorDrains
  OwnerSeesThread
PROPERTIES
  StopReturns
\* The Thread may be left alone, stopped or not.
CHECK_DEADLOCK FALSE
