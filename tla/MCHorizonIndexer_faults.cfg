\* Every kind of fault in a running service; an administrator replays any range, forced
\* or not; a project is listed late; the two payments share a transaction.
SPECIFICATION Spec
CONSTANTS
  NOps = 2
  MaxLedger = 2
  LedgerOf <- PairLedger
  TxOf <- PairTx
  WalletOf <- PairWallet
  FirstTip = 1
  FirstListed = {"w1"}
  LagThreshold = 1
  ReconcileLag = 0
  MaxRetries = 1
  HandlerBound = TRUE
  Jobs = {"lag", "admin"}
  Workers = {"poll"}
  Faults = {"stream", "handler", "enqueue", "cursorRead", "query", "backfillOp", "dlqOp", "split", "crash"}
  MaxFaults = 2
  MaxInflight = 1
INVARIANTS TypeOK ChecksumNamesADonation ResolvedHasDonation
PROPERTY ImplementsLedger
