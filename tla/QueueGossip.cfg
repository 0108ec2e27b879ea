CONSTANTS
  Peer = {a, b, c}
  Editors = {a, b}
  Creator = a
  Inside = {a, b}
  Links = {{a, b}, {b, c}, {a, c}}
  None = None
  MaxCommands = 2
  MaxSeq = 3
SPECIFICATION Spec
INVARIANTS Agree EncodesCurrent OneBroadcaster
PROPERTY LeadersPlayed
CHECK_DEADLOCK FALSE
