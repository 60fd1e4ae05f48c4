SPECIFICATION SatelliteSpec
CONSTANTS
  \* submission
  Envelopes = {"x", "y"}
  FailureLimit = 2
  SendRetries = 2
  FeeBumps = 1
  \* webhooks
  Amounts = {1, 2}
  Checks = {"c1", "c2"}
  Workers = {"w1", "w2"}
  MaxAttempts = 2
  MaxReplays = 2
  NoAmount = NoAmount
  \* the web client's queue
  Items = {"i1", "i2"}
  Acceptable = {"i1"}
  Tabs = {"t1", "t2"}
  NoTab = NoTab
  NoItem = NoItem
  \* digests
  Runs = {"r1", "r2"}
  SendAttempts = 2
  MaxClaims = 4
  \* sessions
  Families = {"f1", "f2"}
  MaxChain = 3
  Refreshes = {"q1", "q2"}
  \* cycles
  Replicas = {"n1", "n2"}
  Sessions = {"s1", "s2"}
  MaxDepth = 2
  NoSession = NoSession
  \* the audit log
  Writers = {"w1", "w2"}
  MaxRows = 4
  \* the mobile client's queue
  Offline = {"g1", "g2"}
  MaxTries = 2
  MaxUserOps = 3
  NoGift = NoGift
  \* the donate form
  Presses = {"p1", "p2"}
  MaxSequence = 3
  NoHash = NoHash
  \* the review of projects
  Applications = {"a1", "a2"}
  MaxProjects = 2
  Operations = {"o1", "o2"}
  None = None
  \* the failover
  Daemons = {"d1", "d2"}
  Threshold = 2
  Nobody = Nobody
  Alias = Alias
  Pods = {"j1", "j2"}
  NoPod = NoPod
  \* the response cache
  Fetches = {"g1", "g2"}
  Updates = {"u1"}
  NoFetch = NoFetch
  NoBody = NoBody
  ErrorBody = ErrorBody
  \* the contracts' clock
  LastLedger = 3
  \* stakes
  Reporters = {"r1", "r2"}
  Assets = {"a1", "a2"}
  Stakes = {1}
  StakeCap = 2
  Cooldown = 1
  SlashSlots = 2
  MaxSlashes = 3
  NoAsset = NoAsset
  \* prices
  Prices = {10, 11}
  RingSize = 3
  MaxReports = 4
  Staleness = 1
  MaxDeviation = 500
  Feeds = {"f1", "f2"}
  FailureThreshold = 2
  \* attestations
  Chains = {"c1", "c2"}
  TxHashes = {"t1", "t2"}
  Givers = {"g1", "g2"}
  MaxRecords = 2
  AttWasms = {"w1"}
  AttLock = 1
  NoAttWasm = NoAttWasm
INVARIANTS  DeliveriesExplained  OneWins   AttestationsAgree
 
CHECK_DEADLOCK FALSE
