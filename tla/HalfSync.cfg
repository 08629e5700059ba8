SPECIFICATION FairSpec
CONSTANTS
  io_count = 2
  Mains = {m1}
  Workers = {w1, w2}
  Conns = {c1, c2}
  First = c1
  None = None
  queue_buffer_size = 1
  Pieces = 2
  Room = 1
INVARIANTS
  TypeOK
  SoleOwner
  EchoAccounted
PROPERTY
  Answered
