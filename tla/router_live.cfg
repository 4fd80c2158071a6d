SPECIFICATION FairSpec
CONSTANTS
  Agents = {a1}
  NoAgent = NoAgent
  Texts <- MCTexts
  MaxMessages = 2
  BatchSize = 1
  MaxLate = 1
  MaxChanges = 1
  MaxFaults = 1
  MaxCrashes = 1
  MaxStops = 1
INVARIANTS
  CursorPassesHandled
PROPERTIES
  RouterCatchesUp
CHECK_DEADLOCK FALSE
