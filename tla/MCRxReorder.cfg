CONSTANTS
  SnMod = 16
  WSize = 4
  Pool = 2
  First = 14
  MaxFrames = 6
  MaxRepeats = 1
SPECIFICATION FairSpec
INVARIANTS TypeOK InOrder
PROPERTIES PassedWhenDue ReorderProgress
CHECK_DEADLOCK FALSE
