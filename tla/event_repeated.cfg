CONSTANTS
  Table = {t1, t2}
  NoTable = NoTable
  Retained = 2
  QueueSize = 1
  SocketSize = 1
  MaxEvents = 2
  MaxCommands = 1
SPECIFICATION Spec
INVARIANTS EventsFollowSnapshot
CHECK_DEADLOCK FALSE
