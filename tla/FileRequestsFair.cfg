SPECIFICATION FairSpec
CONSTANTS
  k = k
  s = s
  l = l
  w = w
  Writer <- MCWriter
  Link = Link
  None = None
  Requests = 2
  Looped = 0
  Keeper <- MCNone
  Streamer <- MCStreamer
  Lister <- MCLister
  MaxCalls = 1
INVARIANTS
  TypeOK
  AnswerComes
  WaitsFree
PROPERTIES
  Returns
  WriterServed
CHECK_DEADLOCK FALSE
