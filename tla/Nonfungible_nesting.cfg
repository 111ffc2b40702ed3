\* One collection, open or with a token limit and an allow list, three tokens, two
\* accounts of which one may become an admin: nesting, cycles, rights and approvals.
SPECIFICATION NftSpec
CONSTANTS
  u1 = u1
  u2 = u2
  e1 = e1
  Users = {u1, u2}
  AsSub <- MCAsSub
  NobodySponsors = NobodySponsors
  PromotionAccount = u2
  NotFound = NotFound
  NoSpender = NoSpender
  CollectionLimit = 1
  AdminLimit = 1
  MaxTokenOwnership = 2
  TokenLimit = 3
  CreationPrice = 0
  InitialFunds = 0
  MaxCollections = 1
  Modes = {"NFT"}
  CreateInputs <- MCEither
  LimitInputs = {}
  PermissionInputs = {}
  TransferFlags = {}
  Promoted = {}
  Managed = {u2}
  MaxTokens = 3
  MaxBatch = 2
  Budgets = {2}
  Spenders = {u2}
INVARIANTS IndexExact ChildrenAreNested NoCycle
PROPERTIES TakenByEntitledOnly ApprovalEndsWithOwner
CHECK_DEADLOCK FALSE
