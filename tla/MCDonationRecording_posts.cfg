SPECIFICATION RecSpec
CONSTANTS
  Payments <- TwoPayments
  DonorOf <- TwoDonors
  ProjectOf <- OneProject
  AmountOf <- Amounts
  Requests = {r1, r2}
  Keys = {k1, k2}
  Handlers = {h1}
  PoolProject = "p1"
  Matcher = "m"
  Cap = 2
  Multiplier = 1
  Jobs = {w1}
  MaxFailures = 1
INVARIANTS BooksAddUp 
SYMMETRY Symmetric
CHECK_DEADLOCK FALSE
