SPECIFICATION Spec
CONSTANTS
  c1 = c1
  c2 = c2
  p1 = p1
  p2 = p2
  Conn <- MCConn
  Proc <- MCProc
  None = None
  OutCapacity = 1
  MaxLines = 3
INVARIANTS
  TypeOK
  OneServer
  DownIsDown
  StopReachesServer
CHECK_DEADLOCK FALSE
