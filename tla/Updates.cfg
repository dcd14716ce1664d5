CONSTANTS
  A = A  B = B  C = C  D = D  f1 = f1  f2 = f2
  Scans = {1, 2, 3, 4, 5, 6}
  RealmOf <- MCRealmOf
  MarketOf <- MCMarketOf
  TimeOf <- MCTimeOf
  DayOf <- MCDayOf
  RowsOf <- MCRowsOf
  PerDay = 1
  Cap = 1
  Files = {f1, f2}
  Contents = {1, 2, 3, 4}
  ContentsOf <- MCContentsOf
  ScansIn <- MCScansIn
  SeedScans = {1, 2}
  ExcludedRealms = {D}
  Cutoffs = {15}
  ForeignScans = {4}
  MaxGenerations = 4
  MaxFaults = 3
SPECIFICATION Spec
CHECK_DEADLOCK FALSE
INVARIANTS TypeOK ServedIsTracked ReceiptMeansImported IdsAreForever ScansRestore
PROPERTIES ScansStay
