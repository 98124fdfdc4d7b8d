SPECIFICATION Spec
CONSTANTS
  Requests = {r1}
  Ids = {p1, p2}
  Names = {n1}
  Keys = {k1, k2}
  Visitors = {v1}
  MaxEvents = 2
  None = None
  WritesOverlap = FALSE
  Pages = {g1}
  Browsers = {b1}
  Queries = 2
  AdminAreas = {"admin"}
INVARIANT AdminsSeeSwitcher
