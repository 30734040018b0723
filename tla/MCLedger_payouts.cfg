CONSTANTS
  p1 = p1
  p2 = p2
  Payments = {p1, p2}
  Late = {p1}
  MaxOverwrites = 1
  Periods <- Overlapping
  NoPayout = NoPayout
  Gross = 20
  Parts = {5, 15}
  PageSize = 3
  Sweepers = {s1}
  ReadsBeforeWrites = FALSE
SPECIFICATION FairSpec
INVARIANT TypeOK
INVARIANT FeeFollowsPayment
PROPERTY PaidOnce
PROPERTY KeepsTheAccount
PROPERTY FundsAreReleased
CHECK_DEADLOCK FALSE
