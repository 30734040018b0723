CONSTANTS
  Users = {u1, u2}
  Invites = {i1, i2}
  Requests = {r1, r2, r3, r4}
  MaxLimit = 1
SPECIFICATION Spec
SYMMETRY Symmetric
INVARIANT TypeOK
INVARIANT OverLimitHasACause
INVARIANT DriftHasACause
CHECK_DEADLOCK FALSE
