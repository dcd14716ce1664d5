CONSTANTS
  m1 = m1  m2 = m2  s1 = s1  s2 = s2
  Jobs = {j1}
  Manifests = {m1}
  StaleManifests = {}
  Shas = {s1}
  ShaOf <- MCShaOfOne
  CapturedAt <- MCCapturedAtOne
  Retention = Retention
  Seeds = {seed}
  Procs = {h1, Worker, Timer}
  NoJob = NoJob
  Nobody = Nobody
  NoManifest = NoManifest
  Handlers = {h1}
  Worker = Worker
  Timer = Timer
  MaxFaults = 1
  MaxMisreads = 1
  MaxTimers = 0
SPECIFICATION LiveSpec
PROPERTIES QueueDrains
