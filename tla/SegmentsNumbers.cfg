\* Two broadcasters, one after the other, two segments each.
SPECIFICATION Spec
CONSTANTS
  Peer = {p1, p2}
  Broadcaster = {p1, p2}
  Watcher = {}
  Capacity = 2
  SegsPerStream = 2
  ChannelSize = 1
  MaxStreams = 2
  MaxMishaps = 0
  Nothing = Nothing
  Tagged = Tagged
INVARIANT NothingStale
CHECK_DEADLOCK FALSE
