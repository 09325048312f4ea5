CONSTANTS
  Watcher <- MCWatcher
  Conn <- MCConn
  Feed <- MCFeed
  Direct <- MCDirect
  BatchCap = 1
  QueueCap = 1
  FlushSize = 2
  MaxFault = 0
  WatchersFirst = FALSE
  None = None
SPECIFICATION Spec
INVARIANT ShutdownEventsCounted
