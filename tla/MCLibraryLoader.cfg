CONSTANTS
  d1 = d1
  d2 = d2
  d3 = d3
  Thread = {t1, t2}
  Dll <- MCDll
  Lib = Lib
  Icu = Icu
  Walk <- MCWalk
  Forced = d2
  None = None
  MaxRestarts = 1
SPECIFICATION MCSpec
CHECK_DEADLOCK FALSE
INVARIANTS
  TypeOK
  InitializedOnce
  WholeFilesUsed
  PreloadReaches
PROPERTIES
  CallsAnswered
