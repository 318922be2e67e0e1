SPECIFICATION FairSpec
CONSTANTS
  c1 = c1
  c2 = c2
  d1 = d1
  Calls = {c1, c2}
  NoCall = NoCall
  Clients = {d1}
  ClientOf <- OneClient
  MaxTime = 2
  Hwm = 1
  Interventions = {"lose", "close_client"}
  Timeouts <- FiniteTimeout
  SentShapes = {"good", "unreadable"}
  MaxRestarts = 1
  HandlerEnds = {"fit", "bad_abort"}
PROPERTIES CallsEnd
CHECK_DEADLOCK FALSE
