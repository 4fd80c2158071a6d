SPECIFICATION Spec
CONSTANTS
  Agents = {a1, a2}
  NoAgent = NoAgent
  Texts <- MCTexts
  MaxMessages = 2
  BatchSize = 2
  MaxLate = 1
  MaxChanges = 1
  MaxFaults = 2
  MaxCrashes = 1
  MaxStops = 0
SYMMETRY AgentSymmetry
INVARIANTS
  
  WakeHasPacket
  UnroutableWasOff
CHECK_DEADLOCK FALSE
