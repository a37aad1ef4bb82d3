SPECIFICATION FairSpec
CONSTANTS
  c1 = c1
  c2 = c2
  p1 = p1
  p2 = p2
  Conn <- MCConnOne
  Proc <- MCProc
  None = None
  OutCapacity = 3
  MaxLines = 3
PROPERTIES
  ExitNoticed
  OutputFollowed
CHECK_DEADLOCK FALSE
