SPECIFICATION Spec
CONSTANTS
  c1 = c1
  c2 = c2
  d1 = d1
  Calls = {c1, c2}
  NoCall = NoCall
  Clients = {d1}
  ClientOf <- OneClient
  MaxTime = 2
  Hwm = 1
  Interventions = {"lose"}
  Timeouts <- AnyTimeout
  SentShapes = {"good", "unreadable", "unknown_method", "large", "undecodable"}
  MaxRestarts = 1
  HandlerEnds = {"fit", "unfit", "oversize", "abort", "bad_abort", "exception"}
INVARIANTS TypeOK Correlation OnlyLateDiscarded AtMostOnce HonestOutcome
PROPERTIES NoAcceptAfterTimeout RefinesUnaryRpc
SYMMETRY CallSymmetry
CHECK_DEADLOCK FALSE
