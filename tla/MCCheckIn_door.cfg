CONSTANTS
  Badges = {b1, b2}
  Zones = {z1}
  NoZone = NoZone
  Scanners = {s1, s2}
  Policies = {"single", "multi_zone", "multi_day"}
  MaxDay = 3
  ValidFrom = 1
  ValidTo = 2
  MaxLag = 1
  MaxCapacity = 1
  MaxLocks = 2
SPECIFICATION Spec
SYMMETRY Symmetric
INVARIANT TypeOK
INVARIANT CountIsInside
INVARIANT OneEntryPerLock
INVARIANT TrailIsHonest
PROPERTY ZoneNeverOverfilled
PROPERTY KeepsTheDoor
CHECK_DEADLOCK FALSE
