CONSTANTS
  Providers = {p1, p2}
  Calls = {c1, c2}
  MaxCalls = 2
  MaxTokens = 2
  MaxRestarts = 1
  None = None
  m1 = m1
  low = low
  high = high
  Models = {m1, m2}
  Levels = {low, high}
  Supports <- SomeSupports
  Selectors = {s1, s2}
  MaxSelections = 3
  NoProfile = NoProfile
SPECIFICATION FairAccountSpec
INVARIANTS
  AccountAgrees
  ConfigIsSelection
PROPERTIES
  SavesStand
  EveryCallReturns
CHECK_DEADLOCK FALSE
