CONSTANTS
  TopPlan = 2
  TrialPlans = {2}
  Requests = {r1, r2, r3}
  Docs = {1, 2}
  ReadsBeforeWrites = FALSE
SPECIFICATION Spec
SYMMETRY MCSymmetry
INVARIANT TypeOK
INVARIANT PlansAgree
CHECK_DEADLOCK FALSE
