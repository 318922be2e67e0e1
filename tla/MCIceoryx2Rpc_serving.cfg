SPECIFICATION FairSpec
CONSTANTS
  c1 = c1
  c2 = c2
  d1 = d1
  Calls = {c1, c2}
  NoCall = NoCall
  Clients = {d1}
  ClientOf <- OneClient
  MaxTime = 1
  MaxBetween = 1
  Borrowers = {c1}
  Timeouts <- MCTimeouts
  SentShapes <- MCShapes
  HandlerEnds = {"fit", "bad_abort", "nested"}
  MaxRestarts = 1
  Interventions = {"close_client", "stop", "close_server", "crash"}
INVARIANTS TypeOK HonestOutcome PortNotReused
PROPERTIES CallsEnd CloseEndsCalls StopEnds RefinesUnaryRpc
CHECK_DEADLOCK FALSE
