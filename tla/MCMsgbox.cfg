SPECIFICATION FairSpec
CONSTANTS
  Chan = {c1}
  FifoMax = 2
  TxDoneModes = {TRUE, FALSE}
  NoChan = NoChan
  NoSub = NoSub
  NoDrain = NoDrain
  MaxTx = 4
  MaxRx = 2
  MaxTimeouts = 2
  MaxBinds = 2
INVARIANTS TypeOK SentOnceInOrder QuietAfterShutdown RxConsistent
PROPERTIES DoneIsAccepted TxProgress
CHECK_DEADLOCK FALSE
