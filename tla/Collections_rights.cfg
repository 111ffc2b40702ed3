\* Two collections, three cross accounts of which two are the same account, small
\* limits so that the admin and the collection limit are reached.
SPECIFICATION CollectionSpec
CONSTANTS
  u1 = u1
  u2 = u2
  e1 = e1
  Users = {u1, u2, e1}
  AsSub <- MCAsSub
  NobodySponsors = NobodySponsors
  PromotionAccount = u2
  CollectionLimit = 1
  AdminLimit = 2
  MaxTokenOwnership = 2
  TokenLimit = 2
  CreationPrice = 1
  InitialFunds = 1
  MaxCollections = 2
  Modes = {"NFT"}
  CreateInputs <- MCCreateInputs
  LimitInputs <- MCLimitInputs
  PermissionInputs <- MCPermissionInputs
  TransferFlags = {TRUE, FALSE}
  Promoted = {1}
  Managed = {u1, u2, e1}
INVARIANT CollectionRowsExact
PROPERTIES LimitsRatchet SponsorAgreed
CHECK_DEADLOCK FALSE
