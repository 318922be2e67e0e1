SPECIFICATION Spec
CONSTANTS
  c1 = c1
  c2 = c2
  d1 = d1
  Calls = {c1, c2}
  NoCall = NoCall
  Clients = {d1}
  ClientOf <- OneClient
  MaxTime = 1
  MaxBetween = 1
  Borrowers = {}
  Timeouts <- MCTimeouts
  SentShapes <- MCShapes
  HandlerEnds = {"fit", "nested"}
  MaxRestarts = 0
  Interventions = {"stop"}
PROPERTIES ServesUntilStopped
CHECK_DEADLOCK FALSE
