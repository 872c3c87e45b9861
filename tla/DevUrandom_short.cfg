SPECIFICATION Spec
CONSTANTS
  Callers = {t1}
  Lens = {2}
  MaxFd = 1
  MaxCalls = 1
INVARIANTS
  SuccessMeansFilled
CHECK_DEADLOCK FALSE
