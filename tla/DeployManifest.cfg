CONSTANTS
  s1 = s1
  s2 = s2
  None = None
  Shas = {s1, s2}
  MaxHistory = 4
SPECIFICATION ManifestSpec
INVARIANTS
  ManifestTypeOK
  CurrentIsLastActive
  PreviousIsActiveBefore
  TargetsAreActive
