SPECIFICATION FairSpec
CONSTANTS
  N = 4
  IndexMod = 8
  Items = {a, b}
  Junk = Junk
  NoItem = NoItem
  MaxRestarts = 2
INVARIANTS SlotExclusion ReadsAreWhole NoFalseAlarm
PROPERTIES IsFifo RingProgress
