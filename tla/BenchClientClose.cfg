SPECIFICATION ClientSpec
CONSTANTS
  coroutine_count_ = 1
  MaxLost = 0
  rate_limit_ = 1
  max_req_count_ = 2
  Pieces = 2
  MaxTimers = 2
INVARIANT
  GoesOnAfterClose
