\* Two users act on the same stream at once.
CONSTANTS
  Client = {c1, c2}
  Streamer = c1
  Permitted = {c1, c2}
  Nobody = Nobody
  Wall = {1}
  Packed = {2, 3}
  MaxCommands = 2
  MaxStreams = 1
SPECIFICATION ConcurrentSpec
INVARIANT InSync
CHECK_DEADLOCK FALSE
