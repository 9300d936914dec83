SPECIFICATION Spec
CONSTANTS
  Calls = {"c1", "c2", "c3"}
  KeyOf <- KeyOfCall
  Asks = {"a", "b"}
  Processes = {"p1", "p2"}
  ProcessOf <- ProcessOfCall
  NoRecord = NoRecord
  NoRequest = NoRequest
  NoDelivery = NoDelivery
  Replicas = {"r1", "r2"}
  Tasks = {"t1"}
  ReplicaOf <- ReplicaOfTask
  Configs = {"c1", "c2"}
  CeilingOf <- Ceilings
  MaxActs = 2
  Kids = {"k1", "k2"}
  IssuerKeys = {"k1"}
  Life = 2
  Cooldown = 1
  LastNow = 5
  Things = {"t1"}
  Keys = {"k1", "k2"}
  NoKey = NoKey
  Runners = {"old", "new", "edited"}
  PlanOf <- Plans
  Legacy <- OldTables
  NoRunner = NoRunner
  Threads = {1, 2, 3}
  Facts = {"f1", "f2"}
  DayOf <- DayOfThread
  Nothing = Nothing
CHECK_DEADLOCK FALSE
INVARIANTS ServicesTypeOK KeyNamesOneResult ChangesAreTold OneCallPerKey KillSwitchHolds CeilingHolds LedgerMatchesSchema NewKeyIsFound
PROPERTIES EveryJobSettles EveryClaimSettles EveryEventPublished BatchIsCompleted EveryRequestProjected
