CONSTANTS
  Capacity = 3
  MaxSeq = 6
  d1 = d1
  d2 = d2
  Empty = Empty
  Payload <- BodiesOrEmpty
SPECIFICATION Spec
PROPERTIES
  ImplementsWindow
  ListedStaysListed
CHECK_DEADLOCK TRUE
