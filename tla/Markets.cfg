CONSTANTS
  None = None
  Captures <- MCCaptures
  RealmOf <- MCRealmOf
  TimeOf <- MCTimeOf
  Declared <- MCDeclared
  Rows <- MCRows
  ScopeOf <- MCScopeOf
  ContextOf <- MCContextOf
  PetOf <- MCPetOf
  RaidItems = {2}
  LuaFiles = {1, 2, 3}
  CapturesIn <- MCCapturesIn
  KeptJobs = 0
  MaxJobs = 2
  MaxCommands = 1
  MaxResets = 1
  MaxAccidents = 2
  Groups <- MCGroups
  Filters <- MCFilters
  MaxScans = 6
  MaxClock = 5
  HistoryLimits = {1, 2, 3}
SPECIFICATION Spec
INVARIANTS TypeOK CompleteScansAreWhole JobsAreTrue BusyMeansImporting
INVARIANTS LegacyAnswersAgree CurrentMarketsOnce UnifiedAnswersAgree HistoryIsNewest
CHECK_DEADLOCK FALSE
