SPECIFICATION PartsSpec
CONSTANTS
  Main = Main
  Client = Client
  Sweeper = Sweeper
  Owner = Owner
  MaxAgents = 4
  Discarders = {Sweeper, Owner}
  Shutdown = Owner
  Settings <- MCSettings
  Threads = {t1, t2, t3}
  Operations = {"submit", "finish_submission", "snapshot", "select_profile", "begin_run"}
INVARIANTS
  ResultNotLost
  RegistryBounded
  WaiterNotLost
  InboxSettled
  ChildrenFollowParent
  NoDeadlock
CHECK_DEADLOCK FALSE
