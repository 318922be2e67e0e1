SPECIFICATION FairSpec
CONSTANTS
  c1 = c1
  c2 = c2
  d1 = d1
  Calls = {c1, c2}
  NoCall = NoCall
  Clients = {d1}
  ClientOf <- OneClient
  MaxTime = 1
  Timeouts <- MCTimeouts
  SentShapes <- MCShapes
  HandlerEnds = {"fit", "bad_abort"}
  MaxFaults = 1
  Interventions = {"lose", "resend", "crash", "stall", "close_client", "stop", "close_server"}
INVARIANTS TypeOK HonestOutcome
PROPERTIES CallsEnd RefinesRepeatedRpc
CHECK_DEADLOCK FALSE
