SPECIFICATION QSpec
CONSTANTS
  JSThread = {j1, j2}
  WS = ws
  None = none
  MaxMessages = 4
INVARIANTS TypeOK MessageAccounted ClientOutlivesLoop PauseCanEnd SleepsOnlyWhenEmpty
PROPERTIES MessageHandled ResumeEndsPause OvertakesLeftOnly FifoOrder InspectorKept
CHECK_DEADLOCK FALSE
