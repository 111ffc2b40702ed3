\* One genesis invulnerable and two accounts with session keys; license bonds 2 and 0.
CONSTANTS
  i1 = i1
  c1 = c1
  c2 = c2
  NoLicense = NoLicense
  NoBlock = NoBlock
  AccountIds <- Three
  Registered = {c1, c2}
  GenesisInvulnerables <- First
  MaxCollators = 2
  DesiredCollators = 3
  KickThreshold = 2
  SessionPeriod = 1
  SlashNum = 1
  SlashDen = 2
  Bonds = {0}
  InitialBond = 2
  InitialFree = 2
  InitialPot = 2
SPECIFICATION CollatorFairSpec
INVARIANTS BondsBacked RosterSound
PROPERTIES  AbsentCandidateLeaves RemovedStopsCollating
