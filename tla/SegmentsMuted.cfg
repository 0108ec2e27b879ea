\* Two broadcasters, one after the other, a segment each.
SPECIFICATION Spec
CONSTANTS
  Peer = {p1, p2}
  Broadcaster = {p1, p2}
  Watcher = {}
  Capacity = 2
  SegsPerStream = 1
  ChannelSize = 1
  MaxStreams = 2
  MaxMishaps = 1
  Nothing = Nothing
  Tagged = Tagged
PROPERTY OwnDelivered
CHECK_DEADLOCK FALSE
