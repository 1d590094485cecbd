SPECIFICATION Spec
CONSTANTS
  Program = {p1, p2}
  Connection = {w1}
  Isolate = {i1, i2}
  MaxNested = 3
  None = none
INVARIANTS TypeOK OneThreadRuns EntriesExclusive OneDeadlockOnly
PROPERTY CallsReturn
CHECK_DEADLOCK FALSE
