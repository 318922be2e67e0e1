SPECIFICATION FairSpec
CONSTANTS
  e1 = e1
  e2 = e2
  e3 = e3
  w1 = w1
  w2 = w2
  Creates = {e1, e2, e3}
  Waits = {w1, w2}
  NoEvent = NoEvent
  PoolSize = 1
  MaxLen = 2
  MaxTime = 1
  Retention <- MixedRetention
  Lease <- ShortLease
  RefreshLeases = {1}
  SetStates = {"succeeded"}
  Timeout <- ForeverAndTimed
INVARIANTS TypeOK UniqueIdentity OneOutcome WaitHonest NoLostWakeup
PROPERTIES WaitsEnd StatusForward NotTakenEarly RefinesEventPromise
CHECK_DEADLOCK FALSE
