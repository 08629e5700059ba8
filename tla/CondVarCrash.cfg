SPECIFICATION Spec
CONSTANTS
  coroutine_count_ = 3
  MaxCalls = 2
  Conds = {k1}
  NoCond = NoCond
  MaxNotify = 2
INVARIANT WakesOnlyWaiters
CHECK_DEADLOCK FALSE
