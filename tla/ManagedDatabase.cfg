\* Two operations at a time, with up to three accounts or passwords and one
\* backup name, or one account and two names (NamesOrSecrets); everything
\* may overlap, fail, be lost or crash, and a name may come again at any time.
SPECIFICATION Spec
CONSTANTS
  Requests = {r1, r2}
  Engines <- MCEngines
  Secrets = {s1, s2, s3}
  Files = {f1, f2}
  None = None
SYMMETRY InstanceSymmetry
CONSTRAINT NamesOrSecrets
INVARIANTS
  DatabaseTypeOK
  RecordNotAhead
  NoForgottenDatabase
  RecordedAccountWasMade
  ReportedBackupsComplete
