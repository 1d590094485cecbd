CONSTANTS
  Ref = {r1, r2}
  Addr = {a1, a2}
  Data = {d1}
  Obj = {o1}
  Kind = {"Function"}
  Tracker = {t1}
  Closer = {c1}
  Interruptible = FALSE
  None = None
SPECIFICATION Spec
CHECK_DEADLOCK FALSE
INVARIANTS
  HandlesMonitored
PROPERTIES
  HandlesKept
  HandleReclaimed
