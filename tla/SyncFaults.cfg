CONSTANTS
  j1 = j1  j2 = j2
  m1 = m1  m2 = m2  n1 = n1  s1 = s1  s2 = s2
  h1 = h1  h2 = h2  seed = seed
  Jobs = {j1, j2}
  Manifests = {m2}
  StaleManifests = {m2}
  Shas = {s2}
  ShaOf <- MCShaOfStale
  Retention = Retention
  Seeds = {seed}
  Procs = {h1, Worker, Timer, Cli}
  NoJob = NoJob
  Nobody = Nobody
  Handlers = {h1}
  Worker = Worker
  Seed = seed
  Timer = Timer
  Cli = Cli
  MaxFaults = 1
  MaxTimers = 1
  MaxCommands = 1
  MaxOutside = 1
SPECIFICATION Spec
SYMMETRY MCSymmetry
INVARIANTS TypeOK FailedOffConfig OneSwitchAtATime LeaseHeld OneJobPerSnapshot
PROPERTIES SuccessIsTrue ImportStartsOnce UnknownKeepsOthersOut ImplementsStore
