SPECIFICATION FairSpec
CONSTANTS
  NFiles = 2
  Upload <- MCUpload
  Msg <- MCMsg
  Content <- MCContent
  Ts <- MCTs
  Earliest <- MCEarliest
  Latest <- MCLatest
  MaxTime = 8
  DayLen = 3
  BatchSize = 1
  BufMax = 0
  First = 4
  Last = 7
  InitTime = 2
  ClearDb = {TRUE, FALSE}
  Enabled = {"read", "upload", "forward", "backward", "purge", "crash", "error"}
  MaxEvents = 3
CHECK_DEADLOCK FALSE
INVARIANTS
  KnownFilesKept
  IndexCoversStored
  NoLoss
  AtMostOnce
  StoredOnce
PROPERTY
  FilesIngested
