CONSTANTS
  Ref = {r1, r2}
  Addr = {a1, a2}
  Data = {d1, d2}
  Obj = {o1, o2}
  Kind = {"Function"}
  None = None
SPECIFICATION Spec
SYMMETRY Symmetry
CHECK_DEADLOCK FALSE
INVARIANT
  ProxyUsable
