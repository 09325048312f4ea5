CONSTANTS
  Watcher <- MCWatcher
  Conn <- MCConn
  Feed <- MCFeed
  Direct <- MCDirect
  BatchCap = 1
  QueueCap = 1
  FlushSize = 2
  MaxFault = 1
  WatchersFirst = TRUE
  None = None
SPECIFICATION Spec
INVARIANTS TypeOK
PROPERTIES LedgerKept
