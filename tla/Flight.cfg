SPECIFICATION FairSpec
CONSTANTS
  coroutine_count_ = 3
  MaxCalls = 2
  CallOnces = {1}
  SingleFlights = {2, 3}
INVARIANTS
  TypeOK
  OneCaller
  WaiterHasCall
PROPERTY
  CallEnds
