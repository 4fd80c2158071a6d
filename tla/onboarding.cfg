SPECIFICATION Spec
CONSTANTS
  Requests = {r1, r2, r3}
  Invites = {i1, i2}
  Callers = {c1, c2}
  Bootstrap = Bootstrap
  NoOne = NoOne
  MaxTime = 2
  SessionTTL = 0
  Lifetimes = {1}
  InviteKinds = {"agent", "any"}
SYMMETRY OnboardingSymmetry
INVARIANTS
  OneAdmissionPerToken
  InvitedByAuthority
  HumanStays
PROPERTIES
  ImplementsAdmission
CHECK_DEADLOCK FALSE
