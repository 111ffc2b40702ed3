\* A token that is sent to the token it is already nested in.
SPECIFICATION NftSpec
CONSTANTS
  u1 = u1
  u2 = u2
  e1 = e1
  Users = {u1}
  AsSub <- MCAsSub
  NobodySponsors = NobodySponsors
  PromotionAccount = u1
  NotFound = NotFound
  NoSpender = NoSpender
  CollectionLimit = 1
  AdminLimit = 1
  MaxTokenOwnership = 2
  TokenLimit = 3
  CreationPrice = 0
  InitialFunds = 0
  MaxCollections = 1
  Modes = {"NFT"}
  CreateInputs <- MCOpen
  LimitInputs = {}
  PermissionInputs = {}
  TransferFlags = {}
  Promoted = {}
  Managed = {}
  MaxTokens = 2
  MaxBatch = 1
  Budgets = {2}
  Spenders = {}
INVARIANTS NestedParentExists
CHECK_DEADLOCK FALSE
