SPECIFICATION FairSpec
CONSTANTS
  k1 = k1
  k2 = k2
  k3 = k3
  k4 = k4
  o1 = o1
  o2 = o2
  p1 = p1
  p2 = p2
  pl1 = pl1
  Orders = {o1, o2}
  NoOrder = NoOrder
  NoPlan = NoPlan
  Dates = {0}
  Plans = {pl1}
  Clients = {p1}
  Keys = {k1, k2, k3}
  Prices = {1, 2}
  NoPrice = NoPrice
  NoRequest = NoRequest
  MaxScheduled = 2
PROPERTIES StaleDraftIsRecreated
CHECK_DEADLOCK FALSE
