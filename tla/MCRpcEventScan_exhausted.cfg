SPECIFICATION ScanSpec
CONSTANTS
  e1 = e1
  e2 = e2
  e3 = e3
  e4 = e4
  Creates = {e1, e2, e3, e4}
  Waits = {}
  NoEvent = NoEvent
  PoolSize = 3
  MaxLen = 2
  MaxTime = 2
  Retention <- MixedRetention
  Lease <- ShortLease
  RefreshLeases = {1}
  SetStates = {"succeeded", "failed"}
  Timeout <- NoWaits
PROPERTIES ExhaustedMeansBusy
SYMMETRY CreateSymmetry
CHECK_DEADLOCK FALSE
