SPECIFICATION Spec
CONSTANTS
  Cards <- CardIds
  Columns = {"backlog", "ready", "done"}
  ThreadOf <- MCThreadOf
  NoThread = NoThread
  Calls <- MCCalls
  Refs = {"none", "proof", "other"}
  Requests = {r1}
  RankStep = 2
  MaxRank = 6
  Nil = Nil
INVARIANTS
  DoneIsConsistent
  MovedEventIsTrue
  ThreadHasOneCard
PROPERTY LandsWhereAsked
CHECK_DEADLOCK FALSE
