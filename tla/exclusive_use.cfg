SPECIFICATION Spec
CONSTANTS
  p1 = p1
  Phones = {p1}
  Scrapes = {}
  bg = bg
  Scans = {bg}
  Probes = {}
  u1 = u1
  Manuals = {u1}
  Adds = {}
  NoPhone = NoPhone
  NoOp = NoOp
INVARIANT ExclusiveUse
CHECK_DEADLOCK FALSE
