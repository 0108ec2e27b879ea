\* Two editors with only a viewer between them.
CONSTANTS
  Peer = {a, b, c}
  Editors = {a, b}
  Creator = a
  Inside = {a, b, c}
  Links = {{a, c}, {b, c}}
  None = None
  MaxCommands = 2
  MaxSeq = 3
SPECIFICATION Spec
INVARIANT EditorsHeard
CHECK_DEADLOCK FALSE
