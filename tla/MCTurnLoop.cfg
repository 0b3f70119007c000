SPECIFICATION FairTurnSpec
CONSTANTS
  DirOrder <- MCDirOrder
  Above <- MCAbove
  BaseSize = 2
  MaxSlots = 4
  MaxBytes = 9
  ChainLimit = 8
  Header = 1
  Separator = 1
  Marker = 1
  MaxModelTurns = 2
  MaxImages = 1
  Profiles = 2
  Sighted = {1}
  Denied = {"spawn_agent"}
  Prior <- MCPrior
  Plans <- MCPlans
INVARIANTS
  RequestIsSound
  ScopesAreRead
PROPERTIES
  ChildIsOneRun
  RunsEnd
CHECK_DEADLOCK FALSE
