\* Three entries, any mix of commands, one re-evaluation, one ffmpeg failure.
SPECIFICATION OrderlySpec
CONSTANTS
  Files = {f1, f2}
  Commands = {"APPEND", "REMOVE", "CLEAR", "SKIP_PREV", "SKIP_NEXT"}
  SegsPerFile = 2
  MaxCommands = 3
  MaxRuns = 3
  MaxDisturbances = 2
  NoFile = NoFile
INVARIANTS NilMeansEof UniqueFirstSeq HeadStreamed EncodedOnce
PROPERTIES NoEntryLost AllStreamed ImplementsStreamed
CHECK_DEADLOCK FALSE
