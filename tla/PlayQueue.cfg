CONSTANTS
  Entries = {e1, e2, e3, e4}
  MaxLen = 4
SPECIFICATION PlaylistSpec
INVARIANT
  CursorInRange
PROPERTY
  EditKeepsCurrent
CHECK_DEADLOCK TRUE
