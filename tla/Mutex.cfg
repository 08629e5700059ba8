SPECIFICATION FairSpec
CONSTANTS
  coroutine_count_ = 3
  MaxCalls = 2
  Mutexes = {1, 2}
INVARIANTS
  TypeOK
  MutualExclusion
  WaiterQueuedOrServed
  QueueResumable
PROPERTY
  RunReturns
