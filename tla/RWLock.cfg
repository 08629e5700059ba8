SPECIFICATION FairSpec
CONSTANTS
  coroutine_count_ = 3
  MaxCalls = 3
  RWLocks = {1}
INVARIANTS
  TypeOK
  ReadersOrWriter
  WaiterQueuedOrServed
  QueueResumable
PROPERTY
  RunReturns
