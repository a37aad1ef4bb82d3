SPECIFICATION Spec
CONSTANTS
  settings = settings
  admin = admin
  a = a
  b = b
  v = v
  w = w
  h1 = h1
  h2 = h2
  s1 = s1
  Name <- MCNames
  Sort <- MCSorts
  Value <- MCValue
  NoValue = NoValue
  Settings = settings
  Default = v
  Handler <- MCHandlers
  Stream <- MCNone
  Main = Main
  Admin = admin
  NoOp = NoOp
  Free = Free
  DiskErrors = FALSE
  MaxCrashes = 2
INVARIANTS
  CreatedIsThere
PROPERTIES
  ImplementsStore
CHECK_DEADLOCK FALSE
