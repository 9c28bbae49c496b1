\* Two threads log to files of one record.
CONSTANTS
  LogThread = {t1, t2}
  MaxFileSize = 1
  MaxTotalSize = 1
  ChannelSize = 1
  MaxRecords = 3
  MaxSecond = 1
SPECIFICATION LoggerSpec
INVARIANT LogIsThreadSafe
CHECK_DEADLOCK FALSE
