\* Three threads that wait with and without timeouts, fair scheduling.
SPECIFICATION FairSpec
CONSTANTS
  Thread = {th1, th2, th3}
  NoThread = none
INVARIANTS
  EventsAccounted
  NoLostSignal
PROPERTIES
  NoSpuriousSignal
  ImplementsCondVar
