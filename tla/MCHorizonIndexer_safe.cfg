\* No payment is lost: one payment per ledger and transaction, a backfill whose
\* handler is bound, stream errors, failing handlers, graceful restarts.
SPECIFICATION Spec
CONSTANTS
  NOps = 3
  MaxLedger = 4
  LedgerOf <- ApartLedger
  TxOf <- ApartTx
  WalletOf <- OneWallet
  FirstTip = 2
  FirstListed = {"w1"}
  LagThreshold = 2
  ReconcileLag = 2
  MaxRetries = 2
  HandlerBound = TRUE
  Jobs = {"lag", "reconciler"}
  Workers = {"poll"}
  Faults = {"stop", "stream", "handler", "dlqOp"}
  MaxFaults = 2
  MaxInflight = 1
INVARIANTS  CheckpointWithinChain
PROPERTY CheckpointMonotone
