SPECIFICATION FairSpec
CONSTANTS
  Wakeups = {w1}
  Bridges = {b1}
  Texts = {t1}
  NoBridge = NoBridge
  NoText = NoText
  NoWakeup = NoWakeup
  FailureLimit = 3
  PostAttempts = 3
  MaxFaults = 1
  MaxCrashes = 0
PROPERTY FailedAttemptIsRetried
