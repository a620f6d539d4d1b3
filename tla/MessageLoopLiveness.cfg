\* Two tasks with equal or different closures and run times, nested runs, fair
\* scheduling.
SPECIFICATION ReferenceSpec
CONSTANTS
  Task = {t1, t2}
  Reference = t1
  Poster = {p1}
  Loop = loop
  Closure = {c1, c2}
  Delays = {0, 1, 2}
  MaxDepth = 2
  MaxRuns = 2
  MaxTime = 3
INVARIANTS
  TimerArmed
PROPERTIES
  NestableTaskRuns
  QuitReturns
\* The pump may block for good: nobody posts any more.
CHECK_DEADLOCK FALSE
