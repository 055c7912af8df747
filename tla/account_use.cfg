SPECIFICATION FairSpec
CONSTANTS
  p1 = p1
  p2 = p2
  Phones = {p1, p2}
  s1 = s1
  Scrapes = {s1}
  bg = bg
  Scans = {bg}
  pr = pr
  Probes = {pr}
  u1 = u1
  Manuals = {u1}
  a1 = a1
  Adds = {a1}
  NoPhone = NoPhone
  NoOp = NoOp
INVARIANT MarkedExclusive
PROPERTIES NoMarkForgotten JobMarkEnds GateReopens
CHECK_DEADLOCK FALSE
