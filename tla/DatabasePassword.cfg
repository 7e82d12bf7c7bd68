\* One operation at a time, two secrets: enough for a provision and a rotation.
SPECIFICATION Spec
CONSTANTS
  Requests = {r1}
  Engines <- MCEngines
  Secrets = {s1, s2}
  Files = {f1}
  None = None
INVARIANT StoredPasswordOpens
