\* Four globals of different kinds, three threads, two exits.
SPECIFICATION FairSpec
CONSTANTS
  a = a
  b = b
  c = c
  d = d
  Thread = {t1, t2, t3}
  Instance = {a, b, c, d}
  Kind <- MCKind
  Needs <- MCNeeds
  MaxExits = 2
INVARIANTS
  EachDestroyedOnce
  GivenIsThere
PROPERTIES
  DependentsFirst
  GetReturns
\* Everything may have been created.
CHECK_DEADLOCK FALSE
