SPECIFICATION Spec
CONSTANTS
  Callers = {t1}
  Lens = {2}
  Backend = "rand_openssl"
INVARIANT FailureIsZero
