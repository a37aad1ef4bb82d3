SPECIFICATION FairSpec
CONSTANTS
  n1 = n1
  n2 = n2
  boot = boot
  t1 = t1
  t2 = t2
  Node <- MCNode
  BootNode = n1
  NoNode = NoNode
  Task <- MCTaskPair
  Initial = boot
  Attempts = 1
  MaxTokens = 3
  MayStall <- MCNode
  Overlap = TRUE
  StreamErrors = TRUE
INVARIANTS
  BootLinkHearsHandlers
PROPERTIES
  CancelledLinkEnds
  SwitchConnects
CHECK_DEADLOCK FALSE
