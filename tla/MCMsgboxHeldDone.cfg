SPECIFICATION FairSpec
CONSTANTS
  Chan = {c1}
  FifoMax = 2
  TxDoneModes = {FALSE}
  NoChan = NoChan
  NoSub = NoSub
  NoDrain = NoDrain
  MaxTx = 4
  MaxRx = 0
  MaxTimeouts = 2
  MaxBinds = 1
PROPERTIES DoneIsAlwaysAccepted
CHECK_DEADLOCK FALSE
