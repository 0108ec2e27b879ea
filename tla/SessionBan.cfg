CONSTANTS
  Peer = {a, b}
  Session = {s1, s2}
  Default = Default
  None = None
  MaxCommands = 4
SPECIFICATION Spec
INVARIANT BannedNeverJoin
CHECK_DEADLOCK FALSE
