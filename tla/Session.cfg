CONSTANTS
  Peer = {a, b}
  Session = {s1, s2}
  Default = Default
  None = None
  MaxCommands = 4
SPECIFICATION Spec
INVARIANTS TypeOK BannedStayOut OwnTopics Roster RolesFollow
PROPERTIES CommandsEnd Expelled
CHECK_DEADLOCK FALSE
