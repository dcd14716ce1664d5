CONSTANTS
  m1 = m1  m2 = m2  s1 = s1  s2 = s2
  Jobs = {j1, j2}
  Manifests = {m1, m2}
  StaleManifests = {m1}
  Shas = {s1, s2}
  ShaOf <- MCShaOf
  CapturedAt <- MCCapturedAt
  Retention = Retention
  Seeds = {seed}
  Procs = {h1, h2, Worker, Timer}
  NoJob = NoJob
  Nobody = Nobody
  NoManifest = NoManifest
  Handlers = {h1, h2}
  Worker = Worker
  Timer = Timer
  MaxFaults = 1
  MaxMisreads = 1
  MaxTimers = 1
SPECIFICATION Spec
CONSTRAINT MCBounds
SYMMETRY MCSymmetry
INVARIANTS TypeOK EntriesAreTrue QueuedIsComplete OvertakenOnlyLogged
PROPERTIES EntryKeepsRemote ReceiptSticks PhasesAdvance
