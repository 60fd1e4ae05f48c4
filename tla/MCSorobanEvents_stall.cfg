\* One graceful stop in the middle of a batch, and nothing else.
SPECIFICATION FairSpec
CONSTANTS
  NEvents = 3
  KindOf <- DonatedKinds
  TxOf <- ThreeTx
  Batch = 3
  MaxRetries = 2
  Pollers = {p1}
  Disturbances = {"stop"}
  MaxDisturbances = 1
PROPERTY EventuallyHandled
CHECK_DEADLOCK FALSE
