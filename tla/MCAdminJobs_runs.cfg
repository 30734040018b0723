CONSTANTS
  Runs = {r1, r2, r3}
  MaxRun = 1
  NoRun = NoRun
SPECIFICATION Spec
INVARIANT TypeOK
INVARIANT BoundedOverlap
PROPERTY RunsEnd
CHECK_DEADLOCK FALSE
