CONSTANTS
  s1 = s1  s2 = s2
  Stakers = {s1, s2}
  StakerRank <- MCStakerRank
  BlockRank <- MCBlockRank
  Interval = 2
  PendingInterval = 1
  PendingLimit = 2
  StakeLimit = 2
  MinStake = 2
  RateNum = 1  RateDen = 2
  MaxPayout = 2
  NoRecord = NoRecord
  Amounts = {2}
  OtherAmounts = {}
  InitialFree = 4
  InitialTreasury = 3
  MaxRelayStep = 2
  MaxRelay = 4
  MaxBlock = 2
SPECIFICATION Spec
INVARIANTS TotalStakedExact SweepComplete OnlySkippedBlocksPend
PROPERTY PaysEachIntervalOnce
CHECK_DEADLOCK FALSE
