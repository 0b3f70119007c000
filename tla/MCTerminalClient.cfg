CONSTANTS
  Providers = {p1}
  Tasks = {t1, t2}
  Catalog = Catalog
  MaxJobs = 2
  MaxQuestions = 1
  None = None
  MaxSubmissions = 2
  MaxParts = 1
  MaxSwitches = 1
  Nobody = Nobody
  Options = 2
  MaxDraft = 1
  Requests <- SomeRequests
  Values = {v1, v2}
  MaxRows = 3
  NoValue = NoValue
  Images = {i1}
  MaxImages = 2
  MaxLetters = 1
  MaxHistory = 2
  Nothing = Nothing
  Clients = {c1, c2}
  Prompts = {1, 2}
  MaxEntries = 2
  MaxAppends = 4
  MaxAccidents = 2
  Unreadable = 99
  Undecodable = 98
  NoLine = 0
  NoClient = NoClient
SPECIFICATION Spec
INVARIANTS
  ScreenIsTrue
  TranscriptFollowsTurns
  EnterActsOnWhatIsShown
  DraftIsTypedText
  FileIsNewestPrompts
PROPERTIES
  LateResultsAreInert
  QuestionStaysShown
CHECK_DEADLOCK FALSE
