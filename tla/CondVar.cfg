SPECIFICATION Spec
CONSTANTS
  coroutine_count_ = 3
  MaxCalls = 3
  Conds = {k1}
  NoCond = NoCond
  MaxNotify = 2
INVARIANTS
  TypeOK
  WaiterKnown
  NotifyAllReachesAll
\* The process may crash, see WakesOnlyWaiters.
CHECK_DEADLOCK FALSE
