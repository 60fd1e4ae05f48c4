SPECIFICATION FamilySpec
CONSTANTS
  LastLedger = 3
  \* donations and disputes
  Donors = {"d1", "d2"}
  Anon = "anon"
  Pool = "pool"
  Projects = {"p1"}
  Offers <- SomeOffers
  MaxDonations = 2
  SetUps = 2
  Price = 2
  Tiers = {1, 2}
  Rates = {1, 2}
  Goals = {2}
  Thresholds = {0, 1}
  RateMax = 1
  RateWindow = 2
  RefundWindow = 1
  ChallengeWindow = 1
  Timelock = 1
  Planners = {"d1"}
  Interval = 1
  \* custody
  Causes = {"p1", "p2"}
  Gifts = {3}
  MaxGifts = 2
  FeePercent = 50
  Shares <- TwoShares
  Schedules = {"s1"}
  VestedAmounts = {3, 5}
  Counts = {1, 2}
  VestInterval = 1
  Delay = 1
  Grace = 1
  \* governance
  Voters = {v1, v2}
  Topics = {"t1"}
  BadgeWeights <- ThreeTiers
  Ballots <- SomeBallots
  VoteWindow = 1
  VoteGrace = 1
  BadgeMoves = 2
  NoOne = NoOne
  \* control
  Persons = {"a1", "a2", "a3"}
  Suspendable = {"a1"}
  Wasms = {"w1", "w2"}
  Lock = 1
  NoWasm = NoWasm
  Nobody = Nobody
  \* verification
  Plots = {"p1", "p2"}
  Committee = {"v1", "v2"}
  Root = Root
  \* impact reports
  Auditors = {"v1", "v2", "v3"}
  CO2Rates = {1, 2, 4}
INVARIANTS DonationsSettle CustodyExact   TrustHolds
PROPERTIES NothingReopens ChangesVouched
CHECK_DEADLOCK FALSE
