\* Two loops that post to each other and to themselves.
SPECIFICATION FairSpec
CONSTANTS
  Loop = {l1, l2}
  Relay = {r1, r2, r3}
  NULL = null
INVARIANTS
  RelayHasOneUser
  ProxyOutlivesPost
  LeakExplained
PROPERTIES
  ReleasedAtHome
  ReplyRuns
\* All loops may be gone.
CHECK_DEADLOCK FALSE
