SPECIFICATION IntakeSpec
CONSTANTS
  r1 = r1
  r2 = r2
  k1 = k1
  k2 = k2
  b1 = b1
  Requests = {r1, r2}
  Keys = {k1, k2}
  Bodies = {b1, b2}
  Dispatchers = {d1}
  MaxPending = 1
  Limit = 4
  NoRequest = NoRequest
CHECK_DEADLOCK FALSE
INVARIANTS TypeOK ReservationMatchesRequest EventsMatchRequests BacklogBounded
PROPERTIES KeepsIntakePromise
