SPECIFICATION FairSpec
CONSTANTS
  Wakeups = {w1}
  Bridges = {b1}
  Texts = {t1}
  NoBridge = NoBridge
  NoText = NoText
  NoWakeup = NoWakeup
  FailureLimit = 3
  PostAttempts = 3
  MaxFaults = 6
  MaxCrashes = 1
INVARIANT MarksAreEarned
PROPERTIES
  WakeupSettles
  PendingCompletes
