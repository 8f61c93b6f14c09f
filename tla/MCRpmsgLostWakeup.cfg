SPECIFICATION Spec
CONSTANTS
  N = 2
  IndexMod = 4
  Msgs = {m1, m2}
  Malformed = {}
  Announcement = Announcement
  NoMsg = NoMsg
  HostFifo = 1
  DevFifo = 2
  Modes = {TRUE}
CHECK_DEADLOCK FALSE
INVARIANT NothingLeftBehind
