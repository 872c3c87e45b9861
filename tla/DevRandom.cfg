SPECIFICATION Spec
CONSTANTS
  Callers = {t1, t2}
  Lens = {0, 3}
  MaxFd = 2
  MaxCalls = 2
  PoolSize = 2
INVARIANTS
  SuccessMeansFilled
  DescriptorsAccounted
  ReadProgress
PROPERTIES
  CallReturns
  ContractSpec
CHECK_DEADLOCK FALSE
