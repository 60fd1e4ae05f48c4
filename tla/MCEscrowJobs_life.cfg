SPECIFICATION Spec
CONSTANTS
  Ids = {j1, j2, j3}
  Amounts <- OddAmount
  Plans <- SmallPlans
  Submitted <- AllFresh
  Windows <- ShortWindow
  People = {a1, a2}
  RELEASE_AFTER_LEDGERS = 1
  DEFAULT_DEADLINE_LEDGERS = 2
  GRACE_PERIOD = 0
  MAX_JOBS = 2
  CounterMax = 3
  MaxLedger = 3
SYMMETRY Symmetric
CHECK_DEADLOCK FALSE
INVARIANTS
  TypeOK
  StatusMatches
  FundsAccounted
  DisputeStands
  SlotsAccounted
  AdminsCanAct
PROPERTIES
  ReputationCounted
