SPECIFICATION Spec
CONSTANTS
  N = 2
  IndexMod = 4
  Msgs = {m1, bad}
  Malformed = {bad}
  Announcement = Announcement
  NoMsg = NoMsg
  HostFifo = 1
  DevFifo = 2
  Modes = {TRUE, FALSE}
CHECK_DEADLOCK FALSE
INVARIANTS
  TypeOK
  OneOwner
  Doorbells
