\* A collection of tokens and a collection of money, in either order or two of a kind.
SPECIFICATION FtSpec
CONSTANTS
  u1 = u1
  u2 = u2
  Users = {u1, u2}
  AsSub <- MCAsSub
  NobodySponsors = NobodySponsors
  PromotionAccount = u2
  NotFound = NotFound
  NoSpender = NoSpender
  CollectionLimit = 2
  AdminLimit = 1
  MaxTokenOwnership = 2
  TokenLimit = 1
  CreationPrice = 0
  InitialFunds = 0
  MaxCollections = 2
  Modes = {"NFT", "Fungible"}
  CreateInputs <- MCNestable
  LimitInputs = {}
  PermissionInputs = {}
  TransferFlags = {}
  Promoted = {}
  Managed = {}
  MaxTokens = 1
  MaxBatch = 2
  Budgets = {2}
  Spenders = {u2}
  Values = {0, 1}
  MaxValue = 2
INVARIANTS SupplyIsSum MoneyReachable NothingOutlivesCollection
PROPERTIES MoneyTakenByEntitledOnly
CHECK_DEADLOCK FALSE
