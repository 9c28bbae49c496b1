\* A stream of up to ten bytes over a buffer that grows twice and wraps the third
\* time; one connection, closed up to twice, with one or two I/O threads that take
\* one task a turn; two acceptors.
CONSTANTS
  InitialSize = 2
  Slack = 1
  BlockSizes = {2, 4, 8}
  Wrap = 16
  StreamLength = 10
  HeaderSize = 1
  Frame <- MCFrame
  RecvSizes = {0, 2, 5}
  Connection = {c1}
  IoThreadCounts = {1, 2}
  kBatchTaskSize = 1
  MaxClose = 2
  MaxStop = 1
  Acceptor = {a1, a2}
SPECIFICATION Spec
INVARIANTS NetworkTypeOK StreamIsKept NothingHeldBack EofIsReal
INVARIANTS ClosesAreAccounted DestroyIsSafe AcceptorsAreSound
PROPERTIES DisconnectedIsLast EveryCloseAnswered
CHECK_DEADLOCK FALSE
