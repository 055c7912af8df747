CONSTANTS
  Phones = {p1, p2}
  Clients = {c1, c2}
  Requests = {q1, q2}
  NoPhone = NoPhone
  NoClient = NoClient
SPECIFICATION Spec
SYMMETRY Symmetry
INVARIANTS PendingIsUsable StoredIsSignedIn StoredIsOwn
CHECK_DEADLOCK FALSE
