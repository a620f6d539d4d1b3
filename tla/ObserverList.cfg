\* Three observers, nested iterations, lists of both types.
SPECIFICATION Spec
CONSTANTS
  Observer = {o1, o2, o3}
  NULL = null
  MaxSize = 5
  MaxDepth = 2
SYMMETRY Symmetry
INVARIANTS
  ListAccounted
PROPERTIES
  NotifiesOnlyOwed
  NotifiesAllOwed
\* The list may be destroyed.
CHECK_DEADLOCK FALSE
