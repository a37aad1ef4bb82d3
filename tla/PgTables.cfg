SPECIFICATION Spec
CONSTANTS
  a = a
  v = v
  w = w
  h1 = h1
  s1 = s1
  x = x
  y = y
  NoName = NoName
  NoValue = NoValue
  Name <- MCName
  Value <- MCValue
  Handler <- MCHandler
  Stream <- MCStream
  Main = Main
  Admin = a
  AdminPerms = v
  Button <- MCButton
  Link <- MCLink
  NoLink = NoLink
  NoOp = NoOp
  Free = Free
  Calls <- MCCalls
  MaxCuts = 1
INVARIANTS
  TypeOK
  ButtonsWhole
  ResetAnswered
PROPERTIES
  ImplementsTables
CHECK_DEADLOCK FALSE
