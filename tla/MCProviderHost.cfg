CONSTANTS
  Calls = {c1, c2}
  c1 = c1
  c2 = c2
  Kinds <- ChatAndOther
  MaxProcesses = 2
  MaxFaults = 1
  None = None
SPECIFICATION FairHostSpec
INVARIANTS
  NothingIsLeft
  AbandonedIsCancelled
PROPERTIES
  EveryCallEnds
CHECK_DEADLOCK FALSE
