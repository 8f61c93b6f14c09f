SPECIFICATION FairSpec
CONSTANTS
  c1 = c1
  c2 = c2
  Callers = {c1, c2}
  NumSlots = 3
  MaxQueued = 2
  Kinds <- MCKinds
  MaxSends = 3
  MaxFails = 1
INVARIANTS TypeOK SlotsOwned AnsweredByOwn
PROPERTIES CmdProgress
CHECK_DEADLOCK FALSE
