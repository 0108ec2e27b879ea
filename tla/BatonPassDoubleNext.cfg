SPECIFICATION Spec
CONSTANTS
  Files = {f1}
  Commands = {"APPEND"}
  SegsPerFile = 1
  MaxCommands = 2
  MaxRuns = 2
  MaxDisturbances = 0
  NoFile = NoFile
PROPERTY BothBeforeNext
CHECK_DEADLOCK FALSE
