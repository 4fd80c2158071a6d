SPECIFICATION FairSpec
CONSTANTS
  Requests = {r1, r2}
  Workers = {w}
  Kinds = {"append", "ask", "respond", "rebuild"}
  MaxFaults = 1
  MaxCrashes = 1
INVARIANTS
  FreshWithoutOverlap
  InFlightIsDirty
  RebuildRepairs
PROPERTIES
  DirtyIsRefreshed
  ImplementsLedger
CHECK_DEADLOCK FALSE
