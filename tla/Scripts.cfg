SPECIFICATION ScriptsSpec
CONSTANTS
  Initialize <- RuntimeInitialize
  Others <- RuntimeOthers
  Admits <- RuntimeAdmits
  Dispatch <- RuntimeDispatch
  FirstNonce = 0
  MaxUnfinalized = 1
  MaxReorgs = 1
  MaxLosses = 1
  PendingInterval = 1
  ChunkSize = 2
  Horizon = 5
  MaxSwitches = 1
  MaxRuns = 2
  Now = 3
  Requested = 2
  RefreshAt = 1
  BatchSize = 1
  MaxTries = 2
  Donations = {1, 4}
INVARIANTS
  ReportsAreFinal
  
  RunMakesProgress
  FundsArrive
PROPERTY
  ScriptsEnd
CHECK_DEADLOCK FALSE
