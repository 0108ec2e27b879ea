\* One broadcaster, one stream of one segment, and a player that polls.
SPECIFICATION Spec
CONSTANTS
  Peer = {p1, p2}
  Broadcaster = {p1}
  Watcher = {p2}
  Capacity = 2
  SegsPerStream = 1
  ChannelSize = 1
  MaxStreams = 1
  MaxMishaps = 1
  Nothing = Nothing
  Tagged = Tagged
PROPERTY HandOffMarked
CHECK_DEADLOCK FALSE
