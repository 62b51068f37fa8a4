SPECIFICATION FairSpec
CONSTANTS
  t1 = t1
  t2 = t2
  Tab = {t1, t2}
  Flow = {f1, f2}
  MaxAttempts = 3
  Window = 1
  None = None
CHECK_DEADLOCK FALSE
INVARIANTS TypeOK FlowOnce
PROPERTIES  SignInSettles
