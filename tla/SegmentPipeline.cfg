SPECIFICATION Spec
CONSTANTS
  Peer = {p1, p2}
  Broadcaster = {p1}
  Watcher = {p2}
  Capacity = 2
  SegsPerStream = 2
  ChannelSize = 1
  MaxStreams = 2
  MaxMishaps = 1
  Nothing = Nothing
  Tagged = Tagged
INVARIANTS TypeOK NothingStale PlayersMoveOn OwnEvents
PROPERTIES DiscontinuityMarked Delivered
CHECK_DEADLOCK FALSE
