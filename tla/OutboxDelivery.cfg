SPECIFICATION Spec
CONSTANTS
  p1 = p1
  p2 = p2
  w1 = w1
  w2 = w2
  e1 = e1
  e2 = e2
  Events = {e1, e2}
  Procs = {p1, p2}
  Workers = {w1, w2}
  NoWorker = NoWorker
  NoDelivery = NoDelivery
  WorkerOf <- OwnWorker
  LeaseSeconds = 2
  Limit = 2
  MaxLag = 1
  AttemptBound = 3
SYMMETRY Symmetry
INVARIANTS TypeOK AuditsMatchRows
PROPERTIES PublishedByLatestClaim KeepsOutboxPromise
