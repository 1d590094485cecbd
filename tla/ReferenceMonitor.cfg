CONSTANTS
  Object = {o1, o2, o3}
  Tracker = {t1, t2}
  Closer = {c1}
  Interruptible = FALSE
  None = None
SPECIFICATION Spec
CHECK_DEADLOCK FALSE
INVARIANTS
  TypeOK
  MapExact
  NoCleanAfterRelease
  ReleasedOnce
PROPERTIES
  PromiseKept
  EnqueuedIsCleaned
  CloseReturns
