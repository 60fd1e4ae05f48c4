\* One poll at a time: failures and crashes delay a donation and lose none.
SPECIFICATION FairSpec
CONSTANTS
  NEvents = 4
  KindOf <- LifeKinds
  TxOf <- ApartTx
  Batch = 2
  MaxRetries = 2
  Pollers = {p1}
  Disturbances = {"handler", "append", "commit", "resolve", "crash"}
  MaxDisturbances = 3
INVARIANT AppendedOnce
PROPERTY EventuallyHandled
CHECK_DEADLOCK FALSE
