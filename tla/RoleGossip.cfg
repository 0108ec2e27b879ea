CONSTANTS
  p1 = p1
  p2 = p2
  admin = admin
  viewer = viewer
  helper = helper
  Peer = {p1, p2}
  Role = {admin, viewer, helper}
  Undefined = Undefined
  Perm <- MCPerm
  Defaults <- MCDefaults
  FirstRoles <- MCFirstRoles
  RoleLists <- MCRoleLists
  Masks <- MCMasks
  FirstClocks = {0, 1}
  MaxJump = 1
  MaxCommands = 2
SPECIFICATION Spec
INVARIANTS InAgreement NoOrphanRole
PROPERTIES OnlyNewer Spreads
CHECK_DEADLOCK FALSE
