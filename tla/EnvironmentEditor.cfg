\* One tab and one variable are enough: enter it, save it, reload, save again.
SPECIFICATION EnvironmentSpec
CONSTANTS
  Requests = {r1, r2}
  None = None
  Tabs = {t1}
  Variables = {x}
  Values = {v1}
  Passwords = {p1}
INVARIANT
  ValuesAsEntered
