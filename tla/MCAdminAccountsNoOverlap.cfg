SPECIFICATION Spec
CONSTANTS
  Requests = {r1, r2}
  Clients = {c1, c2}
  Ids = {u1, u2, u3}
  Names = {ana, bob}
  None = None
  SetupsOverlap = FALSE
  DeletesOverlap = FALSE
SYMMETRY Symmetry
INVARIANTS TypeOK UsernamesUnique RevokedStaysOut LastAdminStays
PROPERTIES SetupOnce ImplementsDirectory
