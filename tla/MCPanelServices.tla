---------------------------- MODULE MCPanelServices ----------------------------
(* Two threads; keys of a kind are interchangeable.                        *)
EXTENDS PanelServices, TLC

(* One name is a file of the directory that has the other name.            *)
MCNames == {"n", "n/m"}
MCFolder == [n \in MCNames |-> IF n = "n/m" THEN "n" ELSE None]

PanelSymmetry ==
  Permutations(Requests) \cup Permutations(HostKeys) \cup Permutations(DeployKeys)

(* What is in a file of a name that uploads clashed over is looked at by   *)
(* no guard and no property: only whether it is there, and its size.  The  *)
(* account the panel starts with matters to the accounts alone.            *)
Bare(content) == <<content.there, content.size>>
Seen(f) == [n \in Names |-> IF n \in clash THEN Bare(f[n]) ELSE f[n]]
PanelView ==
  <<workerVars, config, held, privateKey, knownHosts, transport, halfway,
    IF part = "users" THEN account ELSE None, cookie, grant,
    Seen(files), Seen(parts), folders, upload, clash, undeclared, cut,
    envFile, page, db, read, swap, app, pending, covering, raced, part>>
=============================================================================
