\* A counter of three values, so that it wraps within the bounds.
CONSTANTS
  Node = {n1, n2}
  Span = 3
  Foreign = {2}
  MaxWall = 1
  MaxLogical = 3
SPECIFICATION Spec
PROPERTY StampsAhead
