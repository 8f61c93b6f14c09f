SPECIFICATION FairSpec
CONSTANTS
  N = 2
  IndexMod = 4
  Msgs = {m1, m2}
  Malformed = {}
  Announcement = Announcement
  NoMsg = NoMsg
  HostFifo = 1
  DevFifo = 2
  Modes = {FALSE}
CHECK_DEADLOCK FALSE
PROPERTIES
  EchoesInOrder
  EchoProgress
