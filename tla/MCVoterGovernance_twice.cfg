SPECIFICATION GovSpec
CONSTANTS
  Voters = {v1, v2}
  Topics = {"t1"}
  BadgeWeights <- ThreeTiers
  Ballots <- SomeBallots
  VoteWindow = 1
  VoteGrace = 1
  BadgeMoves = 2
  NoOne = NoOne
  LastLedger = 3
INVARIANTS OneVoteEach
CHECK_DEADLOCK FALSE
