SPECIFICATION FairSpec
CONSTANTS
  p1 = p1
  p2 = p2
  w1 = w1
  w2 = w2
  j1 = j1
  j2 = j2
  Jobs = {j1}
  Procs = {p1, p2}
  Workers = {w1, w2}
  NoWorker = NoWorker
  NoJob = NoJob
  WorkerOf <- OwnWorker
  LeaseSeconds = 2
  MaxAttempts = 2
  InitialDelay = 1
  MaxDelay = 2
  RecordableKinds = {TRUE, FALSE}
  MaxLag = 1
  AttemptBound = 3

PROPERTIES EveryJobSettles
