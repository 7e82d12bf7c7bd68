\* Two threads, so that every pair of requests overlaps; three users, so that
\* two can change a third; two files of one chunk each, which fill the quota;
\* one tab, one variable, and a database that comes and goes.
SPECIFICATION PanelSpec
CONSTANTS
  Requests = {r1, r2}
  None = None
  Urls = {web, ssh}
  SshUrls = {ssh}
  HostKeys = {h1, h2}
  DeployKeys = {k1, k2}
  Cut = Cut
  Users = {u1, u2, u3}
  Names <- MCNames
  Folder <- MCFolder
  Quota = 2
  MaxUpload = 1
  Tabs = {t1}
  Variables = {x}
  Values = {v1}
  Passwords = {p1}
SYMMETRY PanelSymmetry
VIEW PanelView
INVARIANTS
  PanelTypeOK
  ConfirmedHasKnownHosts
  SshIsStrict
  ShownKeyIsTrusted
  PublicKeyMatches
  FilesAreWhole
  QuotaBounded
  
  SavedChangesReachTheApp
PROPERTIES
  LastAdministratorByOwnHand
  ChangesByAdministrators
  ReplacedOnPurpose
