\* A token that is minted with 0 pieces.
SPECIFICATION MCSpec
CONSTANTS
  u1 = u1
  u2 = u2
  Users = {u1, u2}
  AsSub <- MCAsSub
  NobodySponsors = NobodySponsors
  PromotionAccount = u2
  NotFound = NotFound
  NoSpender = NoSpender
  CollectionLimit = 2
  AdminLimit = 1
  MaxTokenOwnership = 2
  TokenLimit = 3
  CreationPrice = 0
  InitialFunds = 0
  MaxCollections = 2
  Modes = {"NFT", "ReFungible"}
  CreateInputs = {}
  LimitInputs = {}
  PermissionInputs = {}
  TransferFlags = {}
  Promoted = {}
  Managed = {}
  MaxTokens = 1
  MaxBatch = 2
  Budgets = {2}
  Spenders = {}
  Values = {0, 1}
  MaxValue = 2
  MintedPieces = {0, 1}
  MaxPieces = 2
INVARIANT OwnersEnumerated
CHECK_DEADLOCK FALSE
