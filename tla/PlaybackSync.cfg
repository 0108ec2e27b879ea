\* Three peers, one of them giving two commands in a row or two taking turns.
CONSTANTS
  Client = {c1, c2, c3}
  Streamer = c1
  Permitted = {c1, c2, c3}
  Nobody = Nobody
  Wall = {1}
  Packed = {2, 3, 5}
  MaxCommands = 2
  MaxStreams = 2
SPECIFICATION OrderlySpec
INVARIANT InSync
PROPERTIES NeverOlder EveryoneFollows
CHECK_DEADLOCK FALSE
