\* Three tasks of every kind, one foreign poster, nested runs.
SPECIFICATION Spec
CONSTANTS
  Task = {t1, t2, t3}
  Reference = t1
  Poster = {p1}
  Loop = loop
  Closure = {c1}
  Delays = {0, 1}
  MaxDepth = 2
  MaxRuns = 2
  MaxTime = 3
SYMMETRY Symmetry
INVARIANTS
  NoLostWakeup
  EachTaskOnce
PROPERTIES
  NoUninvitedTask
  QuitDrains
  ImplementsTaskRunner
\* The pump may block for good: nobody posts any more.
CHECK_DEADLOCK FALSE
