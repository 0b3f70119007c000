CONSTANTS
  MaxSubmissions = 2
  Submitters = {s1, s2}
  Cancellers = {c1}
  Workers = {w1, w2}
  None = None
SPECIFICATION FairSpec
INVARIANTS
  QueueInv
  OneWorker
  PendingIsServed
  EventsAreTrue
PROPERTIES
  ContractHolds
  WorkEnds
CHECK_DEADLOCK FALSE
