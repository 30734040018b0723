CONSTANTS
  Users = {u1}
  Payments = {p1}
  Requests = {r1, r2}
  Keys = {k1}
  Amount = 2
  Stock = 1
  MaxAttendees = 1
  ReadsBeforeWrites = FALSE
  CrashesHappen = TRUE
  NoUser = NoUser
  NoPayment = NoPayment
SPECIFICATION FairSpec
INVARIANT CountersAreExact
PROPERTY PaidIsCredited
CHECK_DEADLOCK FALSE
