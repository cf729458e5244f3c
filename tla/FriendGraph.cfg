\* Three requests of either side, three rows.
SPECIFICATION Spec
CONSTANTS
  Pair = {a, b}
  Requests = {r1, r2, r3}
  None = None
  MaxRows = 3
INVARIANTS
  OneMutualEdge
PROPERTIES
  OnlyRemovalEnds
  RequestsEnd
\* When the rows are used up nobody can ask.
CHECK_DEADLOCK FALSE
