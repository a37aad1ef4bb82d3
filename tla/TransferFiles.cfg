SPECIFICATION FairSpec
CONSTANTS
  f1 = f1
  f2 = f2
  f3 = f3
  f4 = f4
  f5 = f5
  a = a
  b = b
  c = c
  d = d
  e = e
  h = h
  u = u
  None = None
  File <- MCFile
  Content <- MCContent
  Raw <- MCRaw
  Marks <- MCMarks
  Folders <- MCFolders
  Uploader <- MCUploader
  FilesOf <- MCFilesOf
  Stored <- MCStored
  Carriers <- MCCarriers
  Commands = 1
  Capacity = 7
  MaxBuffer = 7
  MaxRead = 2
  Window = 0
  Faults = 2
INVARIANTS
  TypeOK
  Arrives
  NeverMixed
  CommandKept
PROPERTIES
  Recovers
CHECK_DEADLOCK FALSE
