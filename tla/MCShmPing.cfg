SPECIFICATION FairSpec
CONSTANTS
  SeqMod = 4
  NoBody = NoBody
  MaxPings = 4
  MaxRuns = 2
  MaxRestarts = 2
INVARIANTS TypeOK SlotExclusion NoFalseAlarm SleeperWillWake
PROPERTIES AcceptedWasMade PingProgress
CHECK_DEADLOCK FALSE
