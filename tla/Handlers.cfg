SPECIFICATION FairHandlersSpec
CONSTANTS
  c1 = c1
  c2 = c2
  Conns = {c1, c2}
  Requests <- MCRequests
  Sendings <- MCSendings
  Room = 2
  None = None
  Servers <- MCServers
  TINY_ECHO_HEAD_LEN = 2
INVARIANTS
  HandlersTypeOK
  OneMessageAtATime
  InOnePlace
PROPERTIES
  IsEcho
  Answered
