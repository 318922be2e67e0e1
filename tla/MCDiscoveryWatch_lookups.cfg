SPECIFICATION WatchSpec
CONSTANTS
  s1 = s1
  s2 = s2
  l1 = l1
  Servers = {s1, s2}
  Lookups = {l1}
  InstanceId <- OwnIds
  MaxServings = 1
  MaxTime = 2
  Timeout = 1
  Prune = TRUE
  Troubles = {"crash", "no_thread"}
INVARIANTS TypeOK NoGhost PunctualStaysListed
PROPERTIES RefinesRegistry
CHECK_DEADLOCK FALSE
