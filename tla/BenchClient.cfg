SPECIFICATION ClientSpec
CONSTANTS
  coroutine_count_ = 2
  MaxLost = 1
  rate_limit_ = 1
  max_req_count_ = 2
  Pieces = 2
  MaxTimers = 2
INVARIANTS
  ClientTypeOK
  TimeOutHasWaiter
  EventHasWaiter
  StoppedIsSpent
