SPECIFICATION FairToolsSpec
CONSTANTS
  Commands = {"c1", "c2"}
  OwnerOf <- Owners
  Children = {"a"}
  Ttys = {"c1"}
  MAX_ACTIVE_TASKS = 2
  MAX_ACTIVE_CHILD_TASKS = 1
  MAX_ACTIVE_TASKS_PER_CHILD = 1
  MAX_RECENT_TASKS = 1
  MaxOutput = 1
  Accidents <- OneCommand
  Backgrounds = {"c1"}
  Timed = {"c2"}
  HALF_BUDGET = 5
  FRAGMENT_OVERHEAD = 1
  MAX_FRAGMENTS_PER_HALF = 2
  ChunkSizes = {1, 4}
  TokenBudgets = {3}
  MaxTotal = 9
  MAX_TRANSCRIPT_BYTES = 16
  TRUNCATION_MARKER_BYTES = 1
  Texts <- SomeTexts
  EntryBytes = 1
  NoticeBytes = 1
  MaxPushes = 4
  Emitters = {"worker", "router"}
  MaxEmits = 3
  Bounded = {"bounded"}
  Unbounded = {"first"}
  Capacity = 1
  Snapshot <- OneProvider
INVARIANTS
  LiveIsAccounted
  ReportIsExact
PROPERTIES
  FinishedIsComplete
  ShutdownReapsAll
CHECK_DEADLOCK FALSE
