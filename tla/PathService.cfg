\* Two threads, two directories to override keys with.
SPECIFICATION Spec
CONSTANTS
  Thread = {th1, th2}
  Directory = {d1, d2}
INVARIANTS
  CacheInSync
