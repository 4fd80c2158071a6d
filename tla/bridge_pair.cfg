SPECIFICATION Spec
CONSTANTS
  Wakeups = {w1}
  Bridges = {b1, b2}
  Texts = {t1, t2}
  NoBridge = NoBridge
  NoText = NoText
  NoWakeup = NoWakeup
  FailureLimit = 2
  PostAttempts = 2
  MaxFaults = 2
  MaxCrashes = 1
SYMMETRY BridgeSymmetry
INVARIANTS
  OwnerRuns
  RedispatchTakesAFault
  CompletedIsAnswered
  SettledIsFinal
PROPERTIES
  RunsOnlyWhileClaimed
  ImplementsDelivery
