CONSTANTS
  Users = {u1, u2}
  Tiers = {t1, t2}
  MaxRegs = 3
  Requests = {r1, r2}
  Settings <- MCSettings
  WaitlistEnabled = TRUE
  MaxRetries = 2
  BulkCount = 2
  NoUser = NoUser
  NoTier = NoTier
SPECIFICATION Spec
SYMMETRY Symmetric
INVARIANT TypeOK
INVARIANT CountIsLive
INVARIANT OneLivePerUser
INVARIANT SeatsFit
PROPERTY RegistersWithinCapacity
PROPERTY PromotesInOrder
PROPERTY NoSlotIsLost
CHECK_DEADLOCK FALSE
