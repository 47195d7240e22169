SPECIFICATION Spec
CONSTANTS
  Coinbase = {c1, c2, c3}
  Inference = {}
  Bonded = {c1}
  Ghosts = {c2, c3}
  Unknown = {c3}
  Burnable = {}
  Dust = {}
  MaxClaimBatch = 2
  MaxInFlightClaims = 2
  LegacyWindow = 9
  BondedWindow = 9
  GateDaa = 9
  CapExpiry = 2
  ResponseTimeout = 1
  OrphanCooldown = 1
  SeqLockCooldown = 1
  UnknownCooldown = 1
  MaxUnknownCooldown = 2
  MaxOrphanRetries = 2
  ValidationWindow = 1
  Rejections = {}
  MaxDaa = 1
  Lag = 0
  MaxReorgs = 3
  MaxLost = 0
  MaxRestarts = 1
  MaxInbox = 2
INVARIANT TrackingMatchesChain
INVARIANT ValidationNeverWedges
CHECK_DEADLOCK FALSE
