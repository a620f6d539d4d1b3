\* Two loops, two observers, two notifications, loops nested once.
SPECIFICATION Spec
CONSTANTS
  Loop = {t1, t2}
  Observer = {o1, o2}
  Context = {c1, c2, c3}
  NULL = null
  NOTIFY_ALL = TRUE
  MaxNotes = 2
  MaxSize = 3
  MaxDepth = 2
SYMMETRY Symmetry
INVARIANTS
  ContextsAccounted
  EveryoneNotified
PROPERTIES
  NotifiesRegistered
\* The object is destroyed in the end.
CHECK_DEADLOCK FALSE
