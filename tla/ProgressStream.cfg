\* Two threads for four clients: one log stream, which need not end, and two
\* progress streams and a deploy that compete for what is left.
SPECIFICATION FairStreamSpec
CONSTANTS
  Threads = 2
  Watchers = {w1, w2}
  LogReaders = {l1}
  Deployer = d
  MaxDeploys = 1
  MaxLogs = 1
  MaxCrashes = 1
INVARIANTS
  StreamTypeOK
  NoThreadAfterTheEnd
PROPERTIES
  DeployGetsThread
  TabsCatchUp
