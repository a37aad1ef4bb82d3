SPECIFICATION Spec
CONSTANTS
  settings = settings
  admin = admin
  a = a
  b = b
  v = v
  w = w
  h1 = h1
  h2 = h2
  s1 = s1
  Name <- MCName
  Sort <- MCSort
  Value <- MCValue
  NoValue = NoValue
  Settings = settings
  Default = v
  Handler <- MCHandler
  Stream <- MCStream
  Main = Main
  Admin = admin
  NoOp = NoOp
  Free = Free
  DiskErrors = TRUE
  MaxCrashes = 1
INVARIANTS
  TypeOK
  FileValid
CHECK_DEADLOCK FALSE
