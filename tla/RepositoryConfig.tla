--------------------------- MODULE RepositoryConfig ---------------------------
(***************************************************************************)
(* The Repository tab: URL and ref, the deploy key and the confirmation of *)
(* the SSH host key (dashboard/app/services/repository_state.py,           *)
(* blueprints/repository.py, services/git_repository.py).                  *)
(*                                                                         *)
(* repository.json is loaded, changed and saved as a whole, without a      *)
(* lock, and some operations talk to the network in between (15 s for a    *)
(* scan, 120 s for git).  The two files ssh uses, deploy_key and           *)
(* known_hosts, are written on their own.  The refs and the last checked   *)
(* commit are left out: they are saved and overwritten like the URL.       *)
(***************************************************************************)
EXTENDS Workers

CONSTANTS
  Urls,        \* repository URLs that pass parse_and_validate_url
  SshUrls,     \* those reached over ssh
  HostKeys,    \* answers of ssh-keyscan
  DeployKeys,  \* deploy keys
  Cut          \* a file whose writing was interrupted

ASSUME RepositoryAssumption ==
  /\ SshUrls \subseteq Urls
  /\ None \notin Urls \cup HostKeys \cup DeployKeys
  /\ Cut \notin HostKeys \cup DeployKeys \cup {None}

VARIABLES
  config,      \* repository.json
  held,        \* the configuration each thread has loaded and changed
  privateKey,  \* secrets/deploy_key
  knownHosts,  \* secrets/known_hosts
  transport,   \* how git of each thread authenticates the host
  halfway      \* history: a key generation ended before its save

repositoryVars == <<workerVars, config, held, privateKey, knownHosts, transport, halfway>>

Configs == [url : Urls \cup {None}, pending : HostKeys \cup {None},
            confirmed : BOOLEAN, publicKey : DeployKeys \cup {None}]
Defaults == [url |-> None, pending |-> None, confirmed |-> FALSE, publicKey |-> None]

IsSsh(c) == c.url \in SshUrls

RepositoryPcs ==
  {"idle", "set_save", "key_write", "key_load", "key_save", "scanning",
   "trust_write", "trust_save", "git_paths", "git_running"}

RepositoryTypeOK ==
  /\ pc \in [Requests -> RepositoryPcs]
  /\ overlapped \in BOOLEAN
  /\ config \in Configs
  /\ held \in [Requests -> Configs]
  /\ privateKey \in DeployKeys \cup {None, Cut}
  /\ knownHosts \in HostKeys \cup {None, Cut}
  /\ transport \in [Requests -> {"none", "strict", "no_key", "no_known_hosts"}]
  /\ halfway \in BOOLEAN

RepositoryInit ==
  /\ WorkersInit
  /\ config = Defaults
  /\ held = [r \in Requests |-> Defaults]
  /\ privateKey = None
  /\ knownHosts = None
  /\ transport = [r \in Requests |-> "none"]
  /\ halfway = FALSE

-----------------------------------------------------------------------------
(* load(): a file that cannot be read counts as one that is not there.     *)
Loaded == {config, Defaults}

Hold(r, c) == held' = [held EXCEPT ![r] = c]
Release(r) == held' = [held EXCEPT ![r] = Defaults]

(* save(): the file is replaced as a whole, or the error ends the request  *)
(* and leaves it as it was.                                                *)
Save(c) == config' \in {c, config}

FilesUnchanged == UNCHANGED <<privateKey, knownHosts>>

(* PUT /api/repository; only https forgets the host key.                   *)
Configured(c, url) ==
  IF url \in SshUrls THEN [c EXCEPT !.url = url]
  ELSE [c EXCEPT !.url = url, !.pending = None, !.confirmed = FALSE]

SetLoad(r) ==
  /\ Enter(r, "set_save")
  /\ \E c \in Loaded, url \in Urls : Hold(r, Configured(c, url))
  /\ FilesUnchanged /\ UNCHANGED <<config, transport, halfway>>

SetSave(r) ==
  /\ Leave(r, "set_save")
  /\ Save(held[r])
  /\ Release(r)
  /\ FilesUnchanged /\ UNCHANGED <<transport, halfway>>

(* POST /deploy-key: the private half is written in place before the       *)
(* configuration is loaded.                                                *)
KeyBegin(r) ==
  /\ Enter(r, "key_write")
  /\ \E k \in DeployKeys \ {privateKey} : Hold(r, [Defaults EXCEPT !.publicKey = k])
  /\ FilesUnchanged /\ UNCHANGED <<config, transport, halfway>>

(* Mutant of KeyWrite: a key that is there already is kept.                *)
KeyWriteOnce(r) ==
  /\ Goto(r, "key_write", "key_load")
  /\ privateKey' = IF privateKey = None THEN held[r].publicKey ELSE privateKey
  /\ UNCHANGED <<config, held, knownHosts, transport, halfway>>

KeyWrite(r) ==
  /\ Goto(r, "key_write", "key_load")
  /\ privateKey' = held[r].publicKey
  /\ UNCHANGED <<config, held, knownHosts, transport, halfway>>

KeyWriteFails(r) ==
  /\ Leave(r, "key_write")
  /\ privateKey' \in {privateKey, Cut}
  /\ halfway' = TRUE
  /\ Release(r)
  /\ UNCHANGED <<config, knownHosts, transport>>

KeyLoad(r) ==
  /\ Goto(r, "key_load", "key_save")
  /\ \E c \in Loaded : Hold(r, [c EXCEPT !.publicKey = held[r].publicKey])
  /\ FilesUnchanged /\ UNCHANGED <<config, transport, halfway>>

KeySave(r) ==
  /\ Leave(r, "key_save")
  /\ \/ config' = held[r] /\ UNCHANGED halfway
     \/ halfway' = TRUE /\ UNCHANGED config
  /\ Release(r)
  /\ FilesUnchanged /\ UNCHANGED transport

(* POST /host-key/scan                                                     *)
ScanLoad(r) ==
  /\ Enter(r, "scanning")
  /\ \E c \in Loaded : c.url # None /\ Hold(r, c)
  /\ FilesUnchanged /\ UNCHANGED <<config, transport, halfway>>

(* Mutant of ScanSave: an earlier confirmation is kept.                    *)
ScanSaveKeeping(r) ==
  /\ Leave(r, "scanning")
  /\ \E k \in HostKeys : Save([held[r] EXCEPT !.pending = k])
  /\ Release(r)
  /\ FilesUnchanged /\ UNCHANGED <<transport, halfway>>

(* The host answers with the key it has by now, and what was loaded before *)
(* the scan is saved with it.                                              *)
ScanSave(r) ==
  /\ Leave(r, "scanning")
  /\ \E k \in HostKeys : Save([held[r] EXCEPT !.pending = k, !.confirmed = FALSE])
  /\ Release(r)
  /\ FilesUnchanged /\ UNCHANGED <<transport, halfway>>

(* POST /host-key/trust: what is trusted is what was loaded, whichever     *)
(* fingerprint the operator was shown.                                     *)
TrustLoad(r) ==
  /\ Enter(r, "trust_write")
  /\ \E c \in Loaded : c.pending # None /\ Hold(r, c)
  /\ FilesUnchanged /\ UNCHANGED <<config, transport, halfway>>

(* Mutant of TrustWrite: an error while writing known_hosts is ignored.    *)
TrustWriteAnyhow(r) ==
  /\ Goto(r, "trust_write", "trust_save")
  /\ knownHosts' \in {held[r].pending, knownHosts}
  /\ UNCHANGED <<config, held, privateKey, transport, halfway>>

TrustWrite(r) ==
  /\ Goto(r, "trust_write", "trust_save")
  /\ knownHosts' = held[r].pending
  /\ UNCHANGED <<config, held, privateKey, transport, halfway>>

TrustWriteFails(r) ==
  /\ Leave(r, "trust_write")
  /\ knownHosts' \in {knownHosts, Cut}
  /\ Release(r)
  /\ UNCHANGED <<config, privateKey, transport, halfway>>

TrustSave(r) ==
  /\ Leave(r, "trust_save")
  /\ Save([held[r] EXCEPT !.confirmed = TRUE])
  /\ Release(r)
  /\ FilesUnchanged /\ UNCHANGED <<transport, halfway>>

-----------------------------------------------------------------------------
(* /refs, /check and /deploy run git against the configured URL.           *)

(* Mutant of GitLoad: the confirmation is not asked for.                   *)
GitLoadUnconfirmed(r) ==
  /\ Enter(r, "git_paths")
  /\ \E c \in Loaded : c.url # None /\ Hold(r, c)
  /\ FilesUnchanged /\ UNCHANGED <<config, transport, halfway>>

GitLoad(r) ==
  /\ Enter(r, "git_paths")
  /\ \E c \in Loaded :
       /\ c.url # None
       /\ IsSsh(c) => c.confirmed
       /\ Hold(r, c)
  /\ FilesUnchanged /\ UNCHANGED <<config, transport, halfway>>

(* _ssh_paths: with both files there, git is given ssh with                *)
(* StrictHostKeyChecking=yes; otherwise ssh is left to its defaults.       *)
GitPaths(r) ==
  /\ Goto(r, "git_paths", "git_running")
  /\ transport' = [transport EXCEPT ![r] =
       CASE privateKey = None -> "no_key"
         [] privateKey # None /\ knownHosts = None -> "no_known_hosts"
         [] OTHER -> "strict"]
  /\ FilesUnchanged /\ UNCHANGED <<config, held, halfway>>

(* Git ended, or failed; a check for updates then saves what it loaded.    *)
GitEnd(r) ==
  /\ Leave(r, "git_running")
  /\ Save(held[r])
  /\ Release(r)
  /\ transport' = [transport EXCEPT ![r] = "none"]
  /\ FilesUnchanged /\ UNCHANGED halfway

CutIfIn(step) == IF \E r \in Requests : pc[r] = step THEN {Cut} ELSE {}

(* The process dies: a file that was being written may be cut off.         *)
RepositoryCrash ==
  /\ AllStop
  /\ held' = [r \in Requests |-> Defaults]
  /\ transport' = [r \in Requests |-> "none"]
  /\ privateKey' \in {privateKey} \cup CutIfIn("key_write")
  /\ knownHosts' \in {knownHosts} \cup CutIfIn("trust_write")
  /\ halfway' = (halfway \/ \E r \in Requests : pc[r] \in {"key_write", "key_load", "key_save"})
  /\ UNCHANGED config

RepositoryStep(r) ==
  \/ SetLoad(r) \/ SetSave(r)
  \/ KeyBegin(r) \/ KeyWrite(r) \/ KeyWriteFails(r) \/ KeyLoad(r) \/ KeySave(r)
  \/ ScanLoad(r) \/ ScanSave(r)
  \/ TrustLoad(r) \/ TrustWrite(r) \/ TrustWriteFails(r) \/ TrustSave(r)
  \/ GitLoad(r) \/ GitPaths(r) \/ GitEnd(r)

RepositoryNext == (\E r \in Requests : RepositoryStep(r)) \/ RepositoryCrash

RepositorySpec == RepositoryInit /\ [][RepositoryNext]_repositoryVars

-----------------------------------------------------------------------------
(* Properties.                                                             *)

(* A configuration that says "confirmed" was preceded by a known_hosts     *)
(* file, whatever overlaps, fails or crashes, and however stale the        *)
(* configurations are that get saved.                                      *)
ConfirmedHasKnownHosts == config.confirmed => knownHosts # None

(* A git operation over ssh that has a deploy key is never left to ssh's   *)
(* own host key policy for want of a known_hosts file.                     *)
SshIsStrict ==
  \A r \in Requests :
    pc[r] = "git_running" /\ IsSsh(held[r]) => transport[r] # "no_known_hosts"

(* The key shown as confirmed is the one ssh trusts (or the write of it    *)
(* was cut off), as long as requests did not overlap: a new scan always    *)
(* asks for a new confirmation.                                            *)
ShownKeyIsTrusted ==
  ~overlapped /\ config.confirmed => knownHosts \in {config.pending, Cut}

(* The public key the operator copies to the provider belongs to the       *)
(* private key git uses, unless a generation broke off or two overlapped.  *)
PublicKeyMatches ==
  ~overlapped /\ ~halfway /\ pc = [r \in Requests |-> "idle"]
    => config.publicKey \in {None, privateKey}
=============================================================================
