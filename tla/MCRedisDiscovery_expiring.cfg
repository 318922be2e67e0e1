SPECIFICATION FairSpec
CONSTANTS
  s1 = s1
  s2 = s2
  l1 = l1
  Servers = {s1, s2}
  Lookups = {l1}
  InstanceId <- OwnIds
  MaxServings = 1
  MaxTime = 0
  Ttl = 2
  Troubles = {"crash", "no_thread", "backend"}
INVARIANTS TypeOK
PROPERTIES RefinesRegistry GhostsExpire
CHECK_DEADLOCK FALSE
