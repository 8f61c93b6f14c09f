SPECIFICATION FairSpec
CONSTANTS
  Chan = {c1}
  FifoMax = 2
  TxDoneModes = {TRUE}
  NoChan = NoChan
  NoSub = NoSub
  NoDrain = NoDrain
  MaxTx = 6
  MaxRx = 0
  MaxTimeouts = 0
  MaxBinds = 2
PROPERTIES DoneHasRoom
CHECK_DEADLOCK FALSE
