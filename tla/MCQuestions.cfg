CONSTANTS
  Submissions = {root}
  Agents = {child}
  Callers = {tui, api}
  Tui = tui
  MaxAsks = 2
  MaxDismisses = 1
  None = None
SPECIFICATION FairSpec
INVARIANTS
  OneOwner
  AcceptedIsDelivered
PROPERTIES
  QuestionsEnd
CHECK_DEADLOCK FALSE
