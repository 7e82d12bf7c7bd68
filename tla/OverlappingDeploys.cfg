CONSTANTS
  r1 = r1
  r2 = r2
  c1 = c1
  u1 = u1
  None = None
  Torn = Torn
  Requests = {r1, r2}
  Commits = {c1}
  Uploads = {u1}
  Shas <- MCShas
  Sound = {c1}
  MaxHistory = 1
  MaxProbes = 1
SPECIFICATION Spec
SYMMETRY Symmetry
INVARIANTS
  OnlyHealthyServed
