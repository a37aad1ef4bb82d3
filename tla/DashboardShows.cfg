SPECIFICATION FairSpec
CONSTANTS
  x = x
  padded = padded
  y = y
  empty = empty
  ready = ready
  bye = bye
  note = note
  k1 = k1
  k2 = k2
  none = none
  Text <- MCText
  Cleaned <- MCCleaned
  Blank <- MCBlank
  Ready = ready
  Bye = bye
  ReadyNote = note
  Socket <- MCSocket
  NoSocket = none
  MaxLines = 2
  MaxBreaks = 1
  Window = 1
  Prints <- MCPrints
  MaxChanges <- MCMaxChanges
  MaxSockets <- MCMaxSockets
INVARIANTS
  ConsoleFaithful
PROPERTIES
  Settles
CHECK_DEADLOCK FALSE
