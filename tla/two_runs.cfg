SPECIFICATION Spec
CONSTANTS
  r1 = r1
  r2 = r2
  p1 = p1
  m1 = m1
  Runs = {r1, r2}
  Phones = {p1}
  Members = {m1}
  BadIds = {}
  IdOnly = {}
  PriorAdded = {}
  PriorRefused = {}
  PriorCount = 0
  Filters = {{m1}}
  PhoneChoices = {{p1}}
  OtherCounts = {0}
  MaxFails = 1
  MaxStrikes = 1
  NoMember = NoMember
  NoRun = NoRun
SYMMETRY RunSymmetry
INVARIANTS AddsAreCounted OneWebRun NoGhostStop
PROPERTIES ImplementsLedger StopEffective
CHECK_DEADLOCK FALSE
