CONSTANTS
  Peer = {a, b}
  Editors = {a, b}
  Creator = a
  Inside = {a, b}
  Links = {{a, b}}
  None = None
  MaxCommands = 2
  MaxSeq = 3
SPECIFICATION Spec
PROPERTY EveryEntryPlayed
CHECK_DEADLOCK FALSE
