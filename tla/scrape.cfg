SPECIFICATION FairSpec
CONSTANTS
  u1 = u1
  u2 = u2
  g1 = g1
  g2 = g2
  Users = {u1, u2}
  Groups = {g1, g2}
  Dialogs = {g1}
  Listed <- MCListed
  Heard <- MCHeard
  OnRecord = {}
  MaxClients = 2
  MaxJobs = 2
  NoGroup = NoGroup
  Bulk = Bulk
INVARIANTS
  TypeOK
  CandidatesConfirmed
  FoundIsSaved
  SourceIsRight
PROPERTIES
  StopEnds
CHECK_DEADLOCK FALSE
