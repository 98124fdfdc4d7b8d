SPECIFICATION Spec
CONSTANTS
  Requests = {r1, r2}
  Ids = {p1, p2}
  Names = {n1, n2}
  Keys = {k1, k2, k3}
  Visitors = {v1}
  MaxEvents = 2
  None = None
  WritesOverlap = FALSE
SYMMETRY Symmetry
INVARIANTS TypeOK KeyOpensItsProject NoOrphans AcceptedEventsKept RetiredKeyStaysDead
PROPERTIES DeletedStaysDeleted ImplementsDirectory
