SPECIFICATION Spec
CONSTANTS
  Files = {f1, f2}
  Commands = {"APPEND", "REMOVE"}
  SegsPerFile = 1
  MaxCommands = 3
  MaxRuns = 2
  MaxDisturbances = 0
  NoFile = NoFile
INVARIANT UniqueFirstSeq
CHECK_DEADLOCK FALSE
