SPECIFICATION FairSpec
CONSTANTS
  p1 = p1
  Phones = {p1}
  Scrapes = {}
  Scans = {}
  Probes = {}
  u1 = u1
  Manuals = {u1}
  a1 = a1
  Adds = {a1}
  NoPhone = NoPhone
  NoOp = NoOp
PROPERTY GateAlwaysReopens
CHECK_DEADLOCK FALSE
