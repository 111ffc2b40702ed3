\* Two identities and two subs that move between them.
SPECIFICATION SyncSpec
CONSTANTS
  a1 = a1
  a2 = a2
  s1 = s1
  Owners = {a1, a2}
  s2 = s2
  Subs = {s1, s2}
  i1 = i1
  i2 = i2
  Infos = {i1, i2}
  None = None
  MaxSubAccounts = 2
  Order <- MCOrder
  RelayPrefix = 2
  LocalPrefix = 42
  OtherPrefixes = {0}
  MaxChanges = 2
  MaxNoted = 1
  MaxRounds = 3
SYMMETRY MCSymmetry
INVARIANTS SupersListed RelayFollowed
 
CHECK_DEADLOCK FALSE
