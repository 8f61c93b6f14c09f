SPECIFICATION FairSpec
CONSTANTS
  Entries = 2
  IndexMod = 4
  Window = 2
  Count = 3
  Junk = Junk
  NoItem = NoItem
  MaxRuns = 2
  MaxBoots = 1
INVARIANTS RingsHold
PROPERTIES CleanRuns PingsReturn
CHECK_DEADLOCK FALSE
