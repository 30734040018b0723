CONSTANTS
  Users = {u1}
  Payments = {p1}
  Requests = {r1, r2, r3}
  Keys = {k1}
  Amount = 2
  Stock = 1
  MaxAttendees = 1
  ReadsBeforeWrites = TRUE
  CrashesHappen = TRUE
  NoUser = NoUser
  NoPayment = NoPayment
SPECIFICATION Spec
SYMMETRY Symmetric
INVARIANT TypeOK
INVARIANT CreditMatchesStatus
INVARIANT SeatIsPaid
INVARIANT RefundMutex
INVARIANT RefundsAreBacked
CHECK_DEADLOCK FALSE
PROPERTY FeedsTheAccount
