CONSTANTS
  Users = {u1}
  Payments = {p1}
  Requests = {r1, r2}
  Keys = {k1}
  Amount = 1
  Stock = 1
  MaxAttendees = 1
  ReadsBeforeWrites = TRUE
  CrashesHappen = FALSE
  NoUser = NoUser
  NoPayment = NoPayment
SPECIFICATION Spec
INVARIANT AnnouncedOnlyOnTransition
CHECK_DEADLOCK FALSE
