SPECIFICATION Spec
CONSTANTS
  p1 = p1
  p2 = p2
  b1 = b1
  b2 = b2
  k1 = k1
  k2 = k2
  a1 = a1
  a2 = a2
  Actions = {a1, a2}
  Clients = {p1, p2}
  Keys = {k1, k2}
  Bodies = {b1, b2}
  NoClient = NoClient
  Gone = Gone
  NoBody = NoBody
  NoRequest = NoRequest
  NoKey = NoKey
  LeaseSeconds = 2
  MaxLag = 1
SYMMETRY Symmetry
INVARIANTS TypeOK OutcomeIsWhole ReservedBeforeEffect
PROPERTIES KeepsSendPromise
