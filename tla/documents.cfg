CONSTANTS
  r1 = r1
  r2 = r2
  r3 = r3
  d1 = d1
  d2 = d2
  Nil = Nil
  Requests = {r1, r2, r3}
  Docs = {d1, d2}
  OldDocs = {d1}
  Threads = {d1, d2}
  OwnThread <- IdAsThread
  Subject = d1
  Operations <- CallsOnOne
SYMMETRY Symmetry
SPECIFICATION Spec
INVARIANTS
  NoBlindWrite
  SummaryIsLatest
  MarksExclude
  TrashEventsAlternate
  ThreadBinding
PROPERTY ImplementsHistory
CHECK_DEADLOCK FALSE
