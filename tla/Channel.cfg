SPECIFICATION FairSpec
CONSTANTS
  coroutine_count_ = 3
  MaxCalls = 2
  Messages = {d1, d2}
  buffer_size = 2
  NoMessage = d0
  Semaphores = {"idle", "fill"}
  NoSemaphore = "none"
  InitialValue <- MCInitialValue
INVARIANTS
  TypeOK
  RoomAccounted
PROPERTIES
  IsQueue
  PositiveIsTaken
