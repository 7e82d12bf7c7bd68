CONSTANTS
  r1 = r1
  r2 = r2
  u1 = u1
  u2 = u2
  None = None
  Torn = Torn
  Requests = {r1, r2}
  Commits = {}
  Uploads = {u1, u2}
  Shas <- MCShas
  Sound = {u1, u2, Torn}
  MaxHistory = 1
  MaxProbes = 1
SPECIFICATION LiveSpec
VIEW ControlView
PROPERTIES
  EveryRequestAnswered
  ProgressEnds
