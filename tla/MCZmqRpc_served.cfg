SPECIFICATION FairSpec
CONSTANTS
  c1 = c1
  c2 = c2
  d1 = d1
  Calls = {c1, c2}
  NoCall = NoCall
  Clients = {d1}
  ClientOf <- OneClient
  MaxTime = 1
  Hwm = 2
  Interventions = {"stop", "close_server"}
  Timeouts <- AnyTimeout
  SentShapes = {"good", "undecodable"}
  MaxRestarts = 0
  HandlerEnds = {"fit", "abort"}
PROPERTIES ServedCallsEnd StopEnds
CHECK_DEADLOCK FALSE
