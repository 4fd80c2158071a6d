SPECIFICATION Spec
CONSTANTS
  Requests = {r1, r2, r3, r4}
  Bodies <- MCBodies
  NoBody = NoBody
  Ids <- MCIds
  IdOf <- MCIdOf
  Trimmed <- MCTrimmed
SYMMETRY RequestSymmetry
INVARIANTS
  OneBodyAccepted
  AcceptedBodyNotRefused
PROPERTY ImplementsRequestKey
