\* Two watchers, three Watches, an event that resets itself and one that does not.
SPECIFICATION FairSpec
CONSTANTS
  Watcher = {w1, w2}
  Watch = {x1, x2, x3}
  Event = {e1, e2}
  AutoReset = {e1}
  None = None
  MaxStarts = 3
  MaxSignals = 2
  MaxDepth = 2
INVARIANTS
  WatchesAccounted
  NoPostToDeadLoop
PROPERTIES
  NotifiesWatched
  SignalAnswered
\* The loop is destroyed.
CHECK_DEADLOCK FALSE
