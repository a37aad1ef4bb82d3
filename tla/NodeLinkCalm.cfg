SPECIFICATION FairSpec
CONSTANTS
  n1 = n1
  n2 = n2
  boot = boot
  t1 = t1
  t2 = t2
  Node <- MCNode
  BootNode = n1
  NoNode = NoNode
  Task <- MCTask
  Initial = boot
  Attempts = 2
  MaxTokens = 3
  MayStall = {}
  Overlap = FALSE
  StreamErrors = FALSE
INVARIANTS
  TypeOK
  ExclusiveLink
  LinkServesCurrentNode
  LinkHearsHandlers
PROPERTIES
  SwitchConverges
CHECK_DEADLOCK FALSE
