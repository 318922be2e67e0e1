SPECIFICATION Spec
CONSTANTS
  c1 = c1
  c2 = c2
  d1 = d1
  Calls = {c1}
  NoCall = NoCall
  Clients = {d1}
  ClientOf <- OneClient
  MaxTime = 1
  Hwm = 1
  Interventions = {}
  Timeouts <- FiniteTimeout
  SentShapes = {"good"}
  MaxRestarts = 0
  HandlerEnds = {"fit", "abort", "bad_abort"}
PROPERTIES HandlerEndReported
CHECK_DEADLOCK FALSE
