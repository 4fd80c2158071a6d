SPECIFICATION FairSpec
CONSTANTS
  Requests = {r1, r2}
  Workers = {w}
  Kinds = {"append", "ask", "card"}
  MaxFaults = 0
  MaxCrashes = 0
PROPERTY ProjectionCatchesUp
CHECK_DEADLOCK FALSE
