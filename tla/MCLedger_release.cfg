CONSTANTS
  p1 = p1
  p2 = p2
  Payments = {p1, p2}
  Late = {p1}
  MaxOverwrites = 1
  Periods <- Overlapping
  NoPayout = NoPayout
  Gross = 20
  Parts = {5}
  PageSize = 3
  Sweepers = {s1, s2}
  ReadsBeforeWrites = TRUE
SPECIFICATION Spec
INVARIANT SweptStaysPaid
CHECK_DEADLOCK FALSE
