SPECIFICATION Spec
CONSTANTS
  Worker = Worker
  Clients = {c1}
  Operations = {"new_session", "resume_session", "compact", "downshift", "cancel"}
  Faults = {"error", "crash", "torn"}
  MaxTurns = 2
  MaxSubmissions = 3
  MaxMessages = 6
  MaxCalls = 2
  MaxFaults = 1
  MIN_RESERVE_TOKENS = 8000
  MAX_RESERVE_TOKENS = 50000
  MIN_SUMMARY_OUTPUT_TOKENS = 2000
  MAX_SUMMARY_OUTPUT_TOKENS = 16000
  ConfiguredReserves <- MCReserves
  Derived = Derived
INVARIANTS
  FileMatchesHistory
  ActiveIsReplayed
  NothingForgotten
CHECK_DEADLOCK FALSE
