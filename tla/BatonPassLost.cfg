SPECIFICATION Spec
CONSTANTS
  Files = {f1}
  Commands = {"APPEND", "SKIP_NEXT"}
  SegsPerFile = 1
  MaxCommands = 3
  MaxRuns = 2
  MaxDisturbances = 1
  NoFile = NoFile
PROPERTY NoEntryLost
CHECK_DEADLOCK FALSE
