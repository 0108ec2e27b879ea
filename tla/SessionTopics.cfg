CONSTANTS
  Peer = {a, b}
  Session = {s1, s2}
  Default = Default
  None = None
  MaxCommands = 3
SPECIFICATION Spec
INVARIANT PreviousLeft
CHECK_DEADLOCK FALSE
