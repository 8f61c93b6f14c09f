SPECIFICATION FairSpec
CONSTANTS
  Chan = {c1, c2}
  FifoMax = 1
  TxDoneModes = {TRUE}
  NoChan = NoChan
  NoSub = NoSub
  NoDrain = NoDrain
  MaxTx = 1
  MaxRx = 1
  MaxTimeouts = 0
  MaxBinds = 1
INVARIANTS UsersAreStarted
PROPERTIES ChannelProgress
CHECK_DEADLOCK FALSE
