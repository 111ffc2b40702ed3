CONSTANTS
  s1 = s1  
  Stakers = {s1}
  StakerRank <- MCStakerRank
  BlockRank <- MCBlockRank
  Interval = 2
  PendingInterval = 1
  PendingLimit = 2
  StakeLimit = 2
  MinStake = 2
  RateNum = 1  RateDen = 2
  MaxPayout = 1
  NoRecord = NoRecord
  Amounts = {1, 2}
  OtherAmounts = {2}
  InitialFree = 4
  InitialTreasury = 3
  MaxRelayStep = 3
  MaxRelay = 4
  MaxBlock = 3
SPECIFICATION FairSpec
INVARIANTS TypeOK FreezeExact CounterCoversRecords
PROPERTIES UnstakeReleased ImplementsUnstakeQueue
CHECK_DEADLOCK FALSE
