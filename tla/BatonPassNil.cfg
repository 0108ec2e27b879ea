SPECIFICATION Spec
CONSTANTS
  Files = {f1}
  Commands = {"APPEND", "CLEAR"}
  SegsPerFile = 1
  MaxCommands = 3
  MaxRuns = 2
  MaxDisturbances = 0
  NoFile = NoFile
INVARIANT NilMeansEof
CHECK_DEADLOCK FALSE
