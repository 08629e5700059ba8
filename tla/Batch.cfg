SPECIFICATION FairSpec
CONSTANTS
  coroutine_count_ = 6
  MaxCalls = 2
  max_concurrency_in_batch_ = 2
  kMaxBatchSize = 2
INVARIANTS
  TypeOK
  BatchesConsistent
  ParentWaitsForAll
PROPERTY
  RunReturns
