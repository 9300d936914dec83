SPECIFICATION Spec
CONSTANTS
  p1 = p1
  p2 = p2
  Monitors = {1, 2}
  Procs = {p1, p2}
  Workers = {p1, p2}
  NoWorker = NoWorker
  WorkerOf <- OwnWorker
  LastDay = 2
  Slots = 1
  PageLimit = 1
  Parallelism = 2
  MaxAttempts = 2
  Backoff = 1
  AttemptBound = 3
CHECK_DEADLOCK FALSE
CONSTRAINT Bounded
SYMMETRY Symmetry
INVARIANTS TypeOK AuditsMatchItems CollectionIsExhaustive
PROPERTIES SettledByLatestClaim KeepsMonitorPromise
