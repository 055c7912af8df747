SPECIFICATION Spec
CONSTANTS
  m1 = m1
  m2 = m2
  p1 = p1
  p2 = p2
  t1 = t1
  t2 = t2
  Members = {m1, m2}
  Phones = {p1, p2}
  Tasks = {t1, t2}
  Max = 1
  PriorCount = 0
  NoPhone = NoPhone
  NoMember = NoMember
  NoTask = NoTask
SYMMETRY Symmetry
INVARIANTS TypeOK RefusedNotInvited RefusedNotStored CountsOfARun
CHECK_DEADLOCK FALSE
