SPECIFICATION Spec
CONSTANTS
  m = m
  s = s
  n = n
  a = a
  r = r
  q = q
  c = c
  d = d
  None = None
  Builtin = m
  NoFilter = n
  Server <- MCServer
  Filter <- MCFilter
  Setter <- MCSetter
  Asks <- MCAsks
  Conn <- MCConn
  MaxOps = 3
  MaxBreaks = 1
SYMMETRY MCSymmetry
INVARIANTS
  TypeOK
  NodeConsistent
  NoEmbrace
  IndexAgrees
  CurrentAgrees
  FilterAgrees
CHECK_DEADLOCK FALSE
