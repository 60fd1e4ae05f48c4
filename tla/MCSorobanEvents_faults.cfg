\* Everything at once: two overlapping polls, every kind of disturbance.
SPECIFICATION Spec
CONSTANTS
  NEvents = 3
  KindOf <- PlanKinds
  TxOf <- ThreeTx
  Batch = 2
  MaxRetries = 1
  Pollers = {p1, p2}
  Disturbances = {"connect", "begin", "dedup", "handler", "append", "dlqWrite", "commit",
                  "resolve", "range", "rescan", "load", "stop", "crash"}
  MaxDisturbances = 1
SYMMETRY Symmetry
INVARIANTS TypeOK NothingSkipped MarkedIsKept
PROPERTY ImplementsLedger
CHECK_DEADLOCK FALSE
