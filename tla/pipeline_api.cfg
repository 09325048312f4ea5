CONSTANTS
  Watcher <- MCWatcher
  Conn <- MCConn
  Feed <- MCLongFeed
  Direct <- MCMixed
  BatchCap = 1
  QueueCap = 1
  FlushSize = 2
  MaxFault = 1
  WatchersFirst = FALSE
  None = None
SPECIFICATION Spec
INVARIANTS QuietAfterClose InOrder
PROPERTY StopReturns
