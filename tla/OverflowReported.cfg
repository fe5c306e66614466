SPECIFICATION Spec
CONSTANTS
  s3 = s3
  a4 = a4
  b4 = b4
  c5 = c5
  d5 = d5
  e4 = e4
  NThreads = 3
  NTasks = 4
  Sols <- MCSols
  Length <- MCLength
  Copies <- MCCopies
  LineLen <- MCLineLen
  Leaves <- MCLeaves
  ShortSols <- MCShortSols
  TasksBefore <- MCTasksBefore
  Requests <- MCRequestOverflow
  CanSleep = TRUE
INVARIANT OverflowReported
