SPECIFICATION Spec
CONSTANTS
  Requests = {r1, r2}
  Clients = {c1}
  Ids = {u1, u2, u3}
  Names = {ana, bob}
  None = None
  SetupsOverlap = FALSE
  DeletesOverlap = TRUE
INVARIANT LastAdminStays
