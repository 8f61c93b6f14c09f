SPECIFICATION FairSpec
CONSTANTS
  HasCrashIrq = TRUE
  NumRmem = 2
  NumVring = 2
  MaxBoots = 2
  MaxCrashes = 2
  MaxFails = 1
  MaxNotes = 2
INVARIANTS TypeOK BootsInOrder BalancedUntilWarned RemovedInOrder
PROPERTIES RprocProgress
CHECK_DEADLOCK FALSE
