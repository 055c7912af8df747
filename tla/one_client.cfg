SPECIFICATION Spec
CONSTANTS
  r1 = r1
  r2 = r2
  p1 = p1
  p2 = p2
  m1 = m1
  Runs = {r1, r2}
  Phones = {p1, p2}
  Members = {m1}
  BadIds = {}
  IdOnly = {}
  PriorAdded = {}
  PriorRefused = {}
  PriorCount = 1
  Filters = {{m1}}
  PhoneChoices = {{p1}, {p1, p2}}
  OtherCounts = {}
  MaxFails = 2
  MaxStrikes = 2
  NoMember = NoMember
  NoRun = NoRun
INVARIANT OneClientPerAccount
CHECK_DEADLOCK FALSE
