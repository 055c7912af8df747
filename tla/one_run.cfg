SPECIFICATION FairSpec
CONSTANTS
  r1 = r1
  p1 = p1
  p2 = p2
  m1 = m1
  mBad = mBad
  mId = mId
  mDone = mDone
  Runs = {r1}
  Phones = {p1, p2}
  Members = {m1, mBad, mId, mDone}
  BadIds = {mBad}
  IdOnly = {mId}
  PriorAdded = {mDone}
  PriorRefused = {}
  PriorCount = 1
  Filters = {{m1, mBad, mId, mDone}}
  PhoneChoices = {{p1, p2}}
  OtherCounts = {}
  MaxFails = 2
  MaxStrikes = 2
  NoMember = NoMember
  NoRun = NoRun
INVARIANTS TypeOK Placement Conservation
PROPERTIES NoRepeatInvite EveryRunFinishes
CHECK_DEADLOCK FALSE
