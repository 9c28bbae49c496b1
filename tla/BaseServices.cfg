CONSTANTS
  Key = {k}
  MaxObjects = 3
  MaxNodes = 4
  Texts <- MCTexts
  LogThread = {t1, t2}
  MaxFileSize = 1
  MaxTotalSize = 1
  ChannelSize = 1
  MaxRecords = 3
  MaxSecond = 1
  Worker = {w1, w2}
  ThreadName = {"n"}
  Tid = {1, 2}
  MaxIds = 1
  MaxBlocks = 2
  Moment = {o1, o2}
  Base = 2
  Epoch = 2
  Precision = 3
  Word = 10
  LastSecond = 3
  Caller = {p1, p2, p3}
  MaxAllocators = 2
SPECIFICATION Spec
INVARIANTS BaseTypeOK JsonIsSound LogIsSound ManagerIsSound TimeIsSound OneAllocator
PROPERTIES CallsAreContained DestroyReturns
CHECK_DEADLOCK FALSE
