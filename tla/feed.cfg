CONSTANTS
  Table = {t1, t2}
  NoTable = NoTable
  Retained = 2
  QueueSize = 1
  SocketSize = 1
  MaxEvents = 2
  MaxCommands = 1
SPECIFICATION FairSpec
INVARIANTS FeedTypeOK OneFeed NothingMissed
PROPERTIES FeedSettles
CHECK_DEADLOCK FALSE
