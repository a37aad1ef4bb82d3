SPECIFICATION FairSpec
CONSTANTS
  k = k
  s = s
  l = l
  w = w
  Writer <- MCWriter
  Link = Link
  None = None
  Requests = 2
  Looped = 0
  Keeper <- MCKeeper
  Streamer <- MCNone
  Lister <- MCNone
  MaxCalls = 1
PROPERTIES
  Returns
CHECK_DEADLOCK FALSE
