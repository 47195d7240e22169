SPECIFICATION Spec
CONSTANTS
  Coinbase = {c1, c2}
  Inference = {i1}
  Bonded = {c1}
  Ghosts = {c2}
  Unknown = {c2}
  Burnable = {i1}
  Dust = {}
  MaxClaimBatch = 2
  MaxInFlightClaims = 2
  LegacyWindow = 1
  BondedWindow = 2
  GateDaa = 2
  CapExpiry = 2
  ResponseTimeout = 1
  OrphanCooldown = 1
  SeqLockCooldown = 1
  UnknownCooldown = 1
  MaxUnknownCooldown = 1
  MaxOrphanRetries = 2
  ValidationWindow = 1
  Rejections = {"other"}
  MaxDaa = 2
  Lag = 0
  MaxReorgs = 3
  MaxLost = 1
  MaxRestarts = 0
  MaxInbox = 1
INVARIANT ReAddedIsTracked
INVARIANT ClaimsAreExact
PROPERTY SlashedIsLost
CHECK_DEADLOCK FALSE
