CONSTANTS
  Threads = {t1, t2}
  Operations = {"snapshot", "new_session", "resume_session"}
SPECIFICATION FairLocksSpec
PROPERTY SnapshotReturns
CHECK_DEADLOCK FALSE
