\* Five years of four relay blocks, of which two decline; early, near and late starts.
CONSTANTS
  Year = 4
  Interval = 2
  YearsUntilFlat = 2
  StartPercent = 10
  EndPercent = 4
  Parts = 1000
  Starts = {1, 2, 9}
  Changes <- Burn
  InitialIssuance = 900
  MaxRelayStep = 3
  MaxRelay = 20
  MaxIssuance = 1000
SPECIFICATION InflationFairSpec
INVARIANT RateOfSchedule
  
