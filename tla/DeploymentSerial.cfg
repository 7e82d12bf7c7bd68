CONSTANTS
  r1 = r1
  r2 = r2
  c1 = c1
  u1 = u1
  None = None
  Torn = Torn
  Requests = {r1, r2}
  Commits = {c1}
  Uploads = {u1}
  Shas <- MCShas
  Sound = {c1, u1}
  MaxHistory = 1
  MaxProbes = 2
SPECIFICATION SerialSpec
SYMMETRY Symmetry
INVARIANTS
  TypeOK
  TagNamesItsTree
  OwnCandidateProbed
  RollbackTargetProved
PROPERTIES
  SuccessMeansServed
  ImplementsSwap
  BarNeverGoesBack
