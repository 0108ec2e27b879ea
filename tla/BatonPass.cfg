\* Two commands, two runs, one re-evaluation or one ffmpeg failure.
SPECIFICATION Spec
CONSTANTS
  Files = {f1}
  Commands = {"APPEND", "REMOVE", "CLEAR", "SKIP_NEXT"}
  SegsPerFile = 1
  MaxCommands = 2
  MaxRuns = 2
  MaxDisturbances = 1
  NoFile = NoFile
INVARIANTS TypeOK SupersededCancelled
PROPERTIES CancelledEncoderStops LockReleased
CHECK_DEADLOCK FALSE
