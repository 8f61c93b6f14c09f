SPECIFICATION Spec
CONSTANTS
  HasCrashIrq = TRUE
  NumRmem = 0
  NumVring = 1
  MaxBoots = 2
  MaxCrashes = 2
  MaxFails = 0
  MaxNotes = 0
INVARIANTS CrashIrqBalanced
CHECK_DEADLOCK FALSE
