SPECIFICATION Spec
CONSTANTS
  Program = {p1, p2}
  Connection = {w1}
  Isolate = {i1, i2}
  MaxNested = 3
  None = none
INVARIANT MonitorAlone
CHECK_DEADLOCK FALSE
