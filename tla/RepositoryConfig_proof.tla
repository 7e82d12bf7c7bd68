------------------------ MODULE RepositoryConfig_proof ------------------------
(***************************************************************************)
(* Proofs about the repository configuration, for any number of threads,   *)
(* URLs and keys.                                                          *)
(*                                                                         *)
(* The configuration is saved by threads that loaded it long before.  What *)
(* keeps "confirmed" true to the files is that known_hosts is written      *)
(* before the flag and never removed: every copy of the configuration, in  *)
(* the file or in a thread, that says "confirmed" is as good as another.   *)
(***************************************************************************)
EXTENDS RepositoryConfig, TLAPS

KnownHostsWritten == knownHosts # None

(* A copy a thread holds tells no more than the file does.                 *)
HeldConfirmed == \A r \in Requests : held[r].confirmed => KnownHostsWritten

(* Where a thread is in the confirmation of a host key.                    *)
TrustOrdered ==
  \A r \in Requests :
    /\ pc[r] = "trust_write" => held[r].pending # None
    /\ pc[r] = "trust_save" => KnownHostsWritten

(* Git over ssh was let through with a confirmed key.                      *)
GitConfirmed ==
  \A r \in Requests :
    pc[r] \in {"git_paths", "git_running"} /\ IsSsh(held[r]) => held[r].confirmed

RepositoryInv ==
  /\ RepositoryTypeOK
  /\ ConfirmedHasKnownHosts
  /\ SshIsStrict
  /\ HeldConfirmed
  /\ TrustOrdered
  /\ GitConfirmed

LEMMA DefaultsTyped == Defaults \in Configs /\ ~Defaults.confirmed /\ Defaults.url = None
  BY DEF Defaults, Configs

LEMMA NoneIsNoSshUrl == ~IsSsh(Defaults)
  BY DefaultsTyped, RepositoryAssumption DEF IsSsh

LEMMA LoadedTyped == RepositoryTypeOK => Loaded \subseteq Configs
  BY DefaultsTyped DEF RepositoryTypeOK, Loaded

LEMMA RepositoryInit_Type == RepositoryInit => RepositoryTypeOK
  BY DefaultsTyped DEF RepositoryInit, WorkersInit, RepositoryTypeOK, RepositoryPcs

(* Every step keeps the types.                                             *)
LEMMA RepositoryStep_Type ==
  RepositoryTypeOK /\ [RepositoryNext]_repositoryVars => RepositoryTypeOK'
<1> SUFFICES ASSUME RepositoryTypeOK, [RepositoryNext]_repositoryVars
             PROVE  RepositoryTypeOK'
  OBVIOUS
<1> USE DefaultsTyped, LoadedTyped DEF RepositoryTypeOK, RepositoryPcs
<1>1. ASSUME NEW r \in Requests, SetLoad(r)
      PROVE  RepositoryTypeOK'
  <2>1. PICK c \in Loaded, url \in Urls : Hold(r, Configured(c, url))
    BY <1>1 DEF SetLoad
  <2>2. Configured(c, url) \in Configs
    BY DEF Configured, Configs
  <2>3. QED
    BY <1>1, <2>1, <2>2 DEF SetLoad, Enter, Hold, FilesUnchanged
<1>2. ASSUME NEW r \in Requests, SetSave(r)
      PROVE  RepositoryTypeOK'
  BY <1>2 DEF SetSave, Leave, Goto, Save, Release, FilesUnchanged
<1>3. ASSUME NEW r \in Requests, KeyBegin(r)
      PROVE  RepositoryTypeOK'
  <2>1. PICK k \in DeployKeys : Hold(r, [Defaults EXCEPT !.publicKey = k])
    BY <1>3 DEF KeyBegin
  <2>2. [Defaults EXCEPT !.publicKey = k] \in Configs
    BY DEF Configs
  <2>3. QED
    BY <1>3, <2>1, <2>2 DEF KeyBegin, Enter, Hold, FilesUnchanged
<1>4. ASSUME NEW r \in Requests, KeyWrite(r)
      PROVE  RepositoryTypeOK'
  BY <1>4 DEF KeyWrite, Goto, Configs
<1>5. ASSUME NEW r \in Requests, KeyWriteFails(r)
      PROVE  RepositoryTypeOK'
  BY <1>5 DEF KeyWriteFails, Leave, Goto, Release
<1>6. ASSUME NEW r \in Requests, KeyLoad(r)
      PROVE  RepositoryTypeOK'
  <2>1. PICK c \in Loaded : Hold(r, [c EXCEPT !.publicKey = held[r].publicKey])
    BY <1>6 DEF KeyLoad
  <2>2. [c EXCEPT !.publicKey = held[r].publicKey] \in Configs
    BY DEF Configs
  <2>3. QED
    BY <1>6, <2>1, <2>2 DEF KeyLoad, Goto, Hold, FilesUnchanged
<1>7. ASSUME NEW r \in Requests, KeySave(r)
      PROVE  RepositoryTypeOK'
  BY <1>7 DEF KeySave, Leave, Goto, Release, FilesUnchanged
<1>8. ASSUME NEW r \in Requests, ScanLoad(r)
      PROVE  RepositoryTypeOK'
  BY <1>8 DEF ScanLoad, Enter, Hold, FilesUnchanged
<1>9. ASSUME NEW r \in Requests, ScanSave(r)
      PROVE  RepositoryTypeOK'
  <2>1. PICK k \in HostKeys : Save([held[r] EXCEPT !.pending = k, !.confirmed = FALSE])
    BY <1>9 DEF ScanSave
  <2>2. [held[r] EXCEPT !.pending = k, !.confirmed = FALSE] \in Configs
    BY DEF Configs
  <2>3. QED
    BY <1>9, <2>1, <2>2 DEF ScanSave, Leave, Goto, Save, Release, FilesUnchanged
<1>10. ASSUME NEW r \in Requests, TrustLoad(r)
       PROVE  RepositoryTypeOK'
  BY <1>10 DEF TrustLoad, Enter, Hold, FilesUnchanged
<1>11. ASSUME NEW r \in Requests, TrustWrite(r)
       PROVE  RepositoryTypeOK'
  BY <1>11 DEF TrustWrite, Goto, Configs
<1>12. ASSUME NEW r \in Requests, TrustWriteFails(r)
       PROVE  RepositoryTypeOK'
  BY <1>12 DEF TrustWriteFails, Leave, Goto, Release
<1>13. ASSUME NEW r \in Requests, TrustSave(r)
       PROVE  RepositoryTypeOK'
  <2>1. [held[r] EXCEPT !.confirmed = TRUE] \in Configs
    BY DEF Configs
  <2>2. QED
    BY <1>13, <2>1 DEF TrustSave, Leave, Goto, Save, Release, FilesUnchanged
<1>14. ASSUME NEW r \in Requests, GitLoad(r)
       PROVE  RepositoryTypeOK'
  BY <1>14 DEF GitLoad, Enter, Hold, FilesUnchanged
<1>15. ASSUME NEW r \in Requests, GitPaths(r)
       PROVE  RepositoryTypeOK'
  BY <1>15 DEF GitPaths, Goto, FilesUnchanged
<1>16. ASSUME NEW r \in Requests, GitEnd(r)
       PROVE  RepositoryTypeOK'
  BY <1>16 DEF GitEnd, Leave, Goto, Save, Release, FilesUnchanged
<1>17. CASE RepositoryCrash
  BY <1>17 DEF RepositoryCrash, AllStop, CutIfIn
<1>18. CASE UNCHANGED repositoryVars
  BY <1>18 DEF repositoryVars, workerVars
<1>19. QED
  BY <1>1, <1>2, <1>3, <1>4, <1>5, <1>6, <1>7, <1>8, <1>9, <1>10, <1>11, <1>12,
     <1>13, <1>14, <1>15, <1>16, <1>17, <1>18 DEF RepositoryNext, RepositoryStep

-----------------------------------------------------------------------------
(* known_hosts, once written, is never taken away.                         *)
LEMMA KnownHostsStay ==
  RepositoryInv /\ [RepositoryNext]_repositoryVars /\ KnownHostsWritten
    => KnownHostsWritten'
<1> SUFFICES ASSUME RepositoryInv, [RepositoryNext]_repositoryVars, KnownHostsWritten
             PROVE  KnownHostsWritten'
  OBVIOUS
<1> USE DEF KnownHostsWritten
<1>1. ASSUME NEW r \in Requests, TrustWrite(r)
      PROVE  KnownHostsWritten'
  BY <1>1 DEF TrustWrite, Goto, RepositoryInv, TrustOrdered
<1>2. ASSUME NEW r \in Requests, TrustWriteFails(r)
      PROVE  KnownHostsWritten'
  BY <1>2, RepositoryAssumption DEF TrustWriteFails
<1>3. CASE RepositoryCrash
  BY <1>3, RepositoryAssumption DEF RepositoryCrash, CutIfIn
<1>4. CASE UNCHANGED knownHosts
  BY <1>4
<1>5. QED
  BY <1>1, <1>2, <1>3, <1>4
     DEF RepositoryNext, RepositoryStep, repositoryVars, FilesUnchanged, SetLoad, SetSave,
         KeyBegin, KeyWrite, KeyWriteFails, KeyLoad, KeySave, ScanLoad, ScanSave,
         TrustLoad, TrustSave, GitLoad, GitPaths, GitEnd

(* A loaded configuration that is confirmed has its known_hosts.           *)
LEMMA LoadedConfirmed ==
  ASSUME RepositoryInv, NEW c \in Loaded, c.confirmed
  PROVE  KnownHostsWritten
  BY DefaultsTyped DEF RepositoryInv, Loaded, ConfirmedHasKnownHosts, KnownHostsWritten

LEMMA RepositoryStep_Inv ==
  RepositoryInv /\ [RepositoryNext]_repositoryVars => RepositoryInv'
<1> SUFFICES ASSUME RepositoryInv, [RepositoryNext]_repositoryVars
             PROVE  RepositoryInv'
  OBVIOUS
<1>1. RepositoryTypeOK /\ RepositoryTypeOK' /\ Loaded \subseteq Configs
  BY RepositoryStep_Type, LoadedTyped DEF RepositoryInv
<1>2. KnownHostsWritten => KnownHostsWritten'
  BY KnownHostsStay
<1> DEFINE Rest == /\ ConfirmedHasKnownHosts /\ SshIsStrict /\ HeldConfirmed
                   /\ TrustOrdered /\ GitConfirmed
<1> SUFFICES Rest'
  BY <1>1 DEF RepositoryInv
<1>3. Rest
  BY DEF RepositoryInv
<1> USE <1>1, <1>2, <1>3, DefaultsTyped, NoneIsNoSshUrl
    DEF RepositoryTypeOK, RepositoryPcs, ConfirmedHasKnownHosts, SshIsStrict,
        HeldConfirmed, TrustOrdered, GitConfirmed, KnownHostsWritten, IsSsh
<1>4. ASSUME NEW r \in Requests, SetLoad(r)
      PROVE  Rest'
  <2>1. PICK c \in Loaded, url \in Urls : Hold(r, Configured(c, url))
    BY <1>4 DEF SetLoad
  <2>2. Configured(c, url).confirmed => KnownHostsWritten
    BY LoadedConfirmed DEF Configured, Configs
  <2>3. QED
    BY <1>4, <2>1, <2>2 DEF SetLoad, Enter, Hold, FilesUnchanged
<1>5. ASSUME NEW r \in Requests, SetSave(r)
      PROVE  Rest'
  BY <1>5 DEF SetSave, Leave, Goto, Save, Release, FilesUnchanged
<1>6. ASSUME NEW r \in Requests, KeyBegin(r)
      PROVE  Rest'
  <2>1. PICK k \in DeployKeys : Hold(r, [Defaults EXCEPT !.publicKey = k])
    BY <1>6 DEF KeyBegin
  <2>2. ~[Defaults EXCEPT !.publicKey = k].confirmed
    BY DEF Configs
  <2>3. QED
    BY <1>6, <2>1, <2>2 DEF KeyBegin, Enter, Hold, FilesUnchanged
<1>7. ASSUME NEW r \in Requests, KeyWrite(r)
      PROVE  Rest'
  BY <1>7 DEF KeyWrite, Goto
<1>8. ASSUME NEW r \in Requests, KeyWriteFails(r)
      PROVE  Rest'
  BY <1>8 DEF KeyWriteFails, Leave, Goto, Release
<1>9. ASSUME NEW r \in Requests, KeyLoad(r)
      PROVE  Rest'
  <2>1. PICK c \in Loaded : Hold(r, [c EXCEPT !.publicKey = held[r].publicKey])
    BY <1>9 DEF KeyLoad
  <2>2. [c EXCEPT !.publicKey = held[r].publicKey].confirmed => KnownHostsWritten
    BY LoadedConfirmed DEF Configs
  <2>3. QED
    BY <1>9, <2>1, <2>2 DEF KeyLoad, Goto, Hold, FilesUnchanged
<1>10. ASSUME NEW r \in Requests, KeySave(r)
       PROVE  Rest'
  BY <1>10 DEF KeySave, Leave, Goto, Release, FilesUnchanged
<1>11. ASSUME NEW r \in Requests, ScanLoad(r)
       PROVE  Rest'
  BY <1>11, LoadedConfirmed DEF ScanLoad, Enter, Hold, FilesUnchanged
<1>12. ASSUME NEW r \in Requests, ScanSave(r)
       PROVE  Rest'
  <2>1. PICK k \in HostKeys : Save([held[r] EXCEPT !.pending = k, !.confirmed = FALSE])
    BY <1>12 DEF ScanSave
  <2>2. ~[held[r] EXCEPT !.pending = k, !.confirmed = FALSE].confirmed
    BY DEF Configs
  <2>3. QED
    BY <1>12, <2>1, <2>2 DEF ScanSave, Leave, Goto, Save, Release, FilesUnchanged
<1>13. ASSUME NEW r \in Requests, TrustLoad(r)
       PROVE  Rest'
  BY <1>13, LoadedConfirmed DEF TrustLoad, Enter, Hold, FilesUnchanged
<1>14. ASSUME NEW r \in Requests, TrustWrite(r)
       PROVE  Rest'
  BY <1>14 DEF TrustWrite, Goto
<1>15. ASSUME NEW r \in Requests, TrustWriteFails(r)
       PROVE  Rest'
  BY <1>15 DEF TrustWriteFails, Leave, Goto, Release
<1>16. ASSUME NEW r \in Requests, TrustSave(r)
       PROVE  Rest'
  BY <1>16 DEF TrustSave, Leave, Goto, Save, Release, FilesUnchanged
<1>17. ASSUME NEW r \in Requests, GitLoad(r)
       PROVE  Rest'
  BY <1>17, LoadedConfirmed DEF GitLoad, Enter, Hold, FilesUnchanged
<1>18. ASSUME NEW r \in Requests, GitPaths(r)
       PROVE  Rest'
  BY <1>18 DEF GitPaths, Goto, FilesUnchanged
<1>19. ASSUME NEW r \in Requests, GitEnd(r)
       PROVE  Rest'
  BY <1>19 DEF GitEnd, Leave, Goto, Save, Release, FilesUnchanged
<1>20. CASE RepositoryCrash
  BY <1>20 DEF RepositoryCrash, AllStop
<1>21. CASE UNCHANGED repositoryVars
  BY <1>21 DEF repositoryVars, workerVars
<1>22. QED
  BY <1>4, <1>5, <1>6, <1>7, <1>8, <1>9, <1>10, <1>11, <1>12, <1>13, <1>14,
     <1>15, <1>16, <1>17, <1>18, <1>19, <1>20, <1>21 DEF RepositoryNext, RepositoryStep

LEMMA RepositoryInit_Inv == RepositoryInit => RepositoryInv
<1> SUFFICES ASSUME RepositoryInit
             PROVE  RepositoryInv
  OBVIOUS
<1>1. RepositoryTypeOK
  BY RepositoryInit_Type
<1>2. QED
  BY <1>1, DefaultsTyped
     DEF RepositoryInit, WorkersInit, RepositoryInv, ConfirmedHasKnownHosts, SshIsStrict,
         HeldConfirmed, TrustOrdered, GitConfirmed, IsSsh

-----------------------------------------------------------------------------
(* Every copy of the configuration that says "confirmed" has a known_hosts *)
(* file behind it.                                                         *)
THEOREM RepositoryAlwaysInv == RepositorySpec => []RepositoryInv
  BY RepositoryInit_Inv, RepositoryStep_Inv, PTL DEF RepositorySpec

(* A configuration that says "confirmed" has a known_hosts file, however   *)
(* many threads load and save stale copies, fail or crash.                 *)
THEOREM ConfirmedStaysTrue == RepositorySpec => []ConfirmedHasKnownHosts
<1>1. RepositoryInv => ConfirmedHasKnownHosts
  BY DEF RepositoryInv
<1>2. QED
  BY <1>1, RepositoryAlwaysInv, PTL

(* Git over ssh, once it has a key, is never run without the known_hosts   *)
(* file that StrictHostKeyChecking needs.                                  *)
THEOREM SshStaysStrict == RepositorySpec => []SshIsStrict
<1>1. RepositoryInv => SshIsStrict
  BY DEF RepositoryInv
<1>2. QED
  BY <1>1, RepositoryAlwaysInv, PTL

(* The configuration, its copies and the files of ssh keep their shape.    *)
THEOREM RepositoryStaysTyped == RepositorySpec => []RepositoryTypeOK
<1>1. RepositoryInv => RepositoryTypeOK
  BY DEF RepositoryInv
<1>2. QED
  BY <1>1, RepositoryAlwaysInv, PTL

-----------------------------------------------------------------------------
(* Requests one at a time.  What a thread holds agrees with the files as   *)
(* the configuration does, since nobody else moves meanwhile.              *)

(* What counts as confirmed is what ssh trusts, or was cut off.            *)
Trusted(c) == c.confirmed => knownHosts \in {c.pending, Cut}

(* The public half belongs to the private one, if there is any.            *)
OwnKey(c) == c.publicKey \in {None, privateKey}

Confirming == {"trust_write", "trust_save"}
NewKeyHeld == {"key_load", "key_save"}
Holding == {"set_save", "scanning", "trust_write", "trust_save", "git_paths", "git_running"}

Turns == \A r, q \in Requests : pc[r] # "idle" /\ pc[q] # "idle" => r = q

HostKeys_Serial ==
  /\ Trusted(config)
  /\ \A r \in Requests : pc[r] # "idle" => Trusted(held[r])
  /\ \A r \in Requests : pc[r] \in Confirming => held[r] = config
  /\ \A r \in Requests : pc[r] = "trust_save" => knownHosts = held[r].pending

DeployKeys_Serial ==
  /\ \A r \in Requests : pc[r] \in NewKeyHeld => held[r].publicKey = privateKey
  /\ \A r \in Requests : pc[r] \in Holding => OwnKey(held[r])
  /\ (\A r \in Requests : pc[r] \notin NewKeyHeld) => OwnKey(config)

SerialInv ==
  ~overlapped => Turns /\ HostKeys_Serial /\ (~halfway => DeployKeys_Serial)

(* A request begins while no other is under way.                           *)
LEMMA BeginsAlone ==
  ASSUME RepositoryTypeOK, NEW r \in Requests, NEW there, Enter(r, there), ~overlapped'
  PROVE  /\ ~overlapped
         /\ \A q \in Requests : pc[q] = "idle"
         /\ pc'[r] = there
         /\ \A q \in Requests \ {r} : pc'[q] = "idle"
  BY DEF Enter, RepositoryTypeOK

(* The thread that moves is the one that is under way.                     *)
LEMMA MovesAlone ==
  ASSUME RepositoryTypeOK, Turns, NEW r \in Requests, NEW here, NEW there,
         Goto(r, here, there), here # "idle"
  PROVE  /\ overlapped' = overlapped
         /\ pc[r] = here
         /\ pc'[r] = there
         /\ \A q \in Requests \ {r} : pc[q] = "idle" /\ pc'[q] = "idle"
  BY DEF Goto, RepositoryTypeOK, Turns

(* A load finds the configuration or the defaults, which claim nothing.    *)
LEMMA LoadedSound ==
  ASSUME NEW c \in Loaded
  PROVE  /\ Trusted(config) => Trusted(c)
         /\ OwnKey(config) => OwnKey(c)
         /\ c.pending # None => c = config
  BY DefaultsTyped DEF Loaded, Trusted, OwnKey, Defaults

LEMMA RepositoryInit_Serial == RepositoryInit => SerialInv
  BY DefaultsTyped DEF RepositoryInit, WorkersInit, SerialInv, Turns, HostKeys_Serial,
       DeployKeys_Serial, Trusted, OwnKey, Confirming, NewKeyHeld, Holding, Defaults

(* Every step keeps it.                                                    *)
LEMMA RepositoryStep_Serial ==
  RepositoryTypeOK /\ SerialInv /\ [RepositoryNext]_repositoryVars => SerialInv'
<1> SUFFICES ASSUME RepositoryTypeOK, SerialInv, [RepositoryNext]_repositoryVars, ~overlapped'
             PROVE  (Turns /\ HostKeys_Serial /\ (~halfway => DeployKeys_Serial))'
  BY DEF SerialInv
<1> DEFINE Goal == (Turns /\ HostKeys_Serial /\ (~halfway => DeployKeys_Serial))'
           Before == ~overlapped /\ Turns /\ HostKeys_Serial /\ (~halfway => DeployKeys_Serial)
<1> SUFFICES Goal
  OBVIOUS
<1>a. ~overlapped => Before
  BY DEF SerialInv
<1>b. Loaded \subseteq Configs
  BY LoadedTyped
<1> USE DEF HostKeys_Serial, DeployKeys_Serial, Trusted, OwnKey, Confirming, NewKeyHeld, Holding
<1>1. ASSUME NEW r \in Requests, SetLoad(r)
      PROVE  Goal
  <2>1. Enter(r, "set_save")
    BY <1>1 DEF SetLoad
  <2>2. Before /\ pc'[r] = "set_save" /\ \A q \in Requests : pc[q] = "idle"
    BY <2>1, <1>a, BeginsAlone
  <2>3. \A q \in Requests \ {r} : pc'[q] = "idle"
    BY <2>1, BeginsAlone
  <2>4. PICK c \in Loaded, url \in Urls : Hold(r, Configured(c, url))
    BY <1>1 DEF SetLoad
  <2>5. held'[r] = Configured(c, url)
    BY <2>4 DEF Hold, RepositoryTypeOK
  <2>6. UNCHANGED <<config, privateKey, knownHosts, halfway>>
    BY <1>1 DEF SetLoad, FilesUnchanged
  <2>7. Trusted(c) /\ (~halfway => OwnKey(c))
    BY <2>2, LoadedSound
  <2>8. (c.confirmed \/ ~Configured(c, url).confirmed)
        /\ (Configured(c, url).confirmed => Configured(c, url).pending = c.pending)
        /\ Configured(c, url).publicKey = c.publicKey
    BY <1>b DEF Configured, Configs
  <2>9. QED
    BY <2>2, <2>3, <2>5, <2>6, <2>7, <2>8 DEF Turns
<1>2. ASSUME NEW r \in Requests, SetSave(r)
      PROVE  Goal
  <2>1. Goto(r, "set_save", "idle")
    BY <1>2 DEF SetSave, Leave
  <2>2. Before
    BY <2>1, <1>a DEF Goto
  <2>3. /\ pc[r] = "set_save" /\ pc'[r] = "idle"
        /\ \A q \in Requests \ {r} : pc[q] = "idle" /\ pc'[q] = "idle"
    BY <2>1, <2>2, MovesAlone
  <2> USE <2>2, <2>3
  <2>4. QED
    BY <1>2 DEF SetSave, Save, FilesUnchanged, Turns
<1>3. ASSUME NEW r \in Requests, KeyBegin(r)
      PROVE  Goal
  <2>1. Enter(r, "key_write")
    BY <1>3 DEF KeyBegin
  <2>2. Before /\ pc'[r] = "key_write" /\ \A q \in Requests : pc[q] = "idle"
    BY <2>1, <1>a, BeginsAlone
  <2>3. \A q \in Requests \ {r} : pc'[q] = "idle"
    BY <2>1, BeginsAlone
  <2>4. PICK k \in DeployKeys : Hold(r, [Defaults EXCEPT !.publicKey = k])
    BY <1>3 DEF KeyBegin
  <2>5. held'[r] = [Defaults EXCEPT !.publicKey = k]
    BY <2>4 DEF Hold, RepositoryTypeOK
  <2>6. UNCHANGED <<config, privateKey, knownHosts, halfway>>
    BY <1>3 DEF KeyBegin, FilesUnchanged
  <2>7. ~[Defaults EXCEPT !.publicKey = k].confirmed
    BY DefaultsTyped DEF Configs
  <2>8. QED
    BY <2>2, <2>3, <2>5, <2>6, <2>7 DEF Turns
<1>4. ASSUME NEW r \in Requests, KeyWrite(r)
      PROVE  Goal
  <2>1. Goto(r, "key_write", "key_load")
    BY <1>4 DEF KeyWrite, Leave
  <2>2. Before
    BY <2>1, <1>a DEF Goto
  <2>3. /\ pc[r] = "key_write" /\ pc'[r] = "key_load"
        /\ \A q \in Requests \ {r} : pc[q] = "idle" /\ pc'[q] = "idle"
    BY <2>1, <2>2, MovesAlone
  <2> USE <2>2, <2>3
  <2>4. QED
    BY <1>4 DEF KeyWrite, Turns
<1>5. ASSUME NEW r \in Requests, KeyWriteFails(r)
      PROVE  Goal
  <2>1. Goto(r, "key_write", "idle")
    BY <1>5 DEF KeyWriteFails, Leave
  <2>2. Before
    BY <2>1, <1>a DEF Goto
  <2>3. /\ pc[r] = "key_write" /\ pc'[r] = "idle"
        /\ \A q \in Requests \ {r} : pc[q] = "idle" /\ pc'[q] = "idle"
    BY <2>1, <2>2, MovesAlone
  <2> USE <2>2, <2>3
  <2>4. QED
    BY <1>5 DEF KeyWriteFails, Turns
<1>6. ASSUME NEW r \in Requests, KeyLoad(r)
      PROVE  Goal
  <2>1. Goto(r, "key_load", "key_save")
    BY <1>6 DEF KeyLoad, Leave
  <2>2. Before
    BY <2>1, <1>a DEF Goto
  <2>3. /\ pc[r] = "key_load" /\ pc'[r] = "key_save"
        /\ \A q \in Requests \ {r} : pc[q] = "idle" /\ pc'[q] = "idle"
    BY <2>1, <2>2, MovesAlone
  <2> USE <2>2, <2>3
  <2>4. PICK c \in Loaded : Hold(r, [c EXCEPT !.publicKey = held[r].publicKey])
    BY <1>6 DEF KeyLoad
  <2>5. held'[r] = [c EXCEPT !.publicKey = held[r].publicKey]
    BY <2>4 DEF Hold, RepositoryTypeOK
  <2>6. held'[r].confirmed = c.confirmed /\ held'[r].pending = c.pending
        /\ held'[r].publicKey = held[r].publicKey
    BY <2>5, <1>b DEF Configs
  <2>7. Trusted(c)
    BY LoadedSound
  <2>8. UNCHANGED <<config, privateKey, knownHosts, halfway>>
    BY <1>6 DEF KeyLoad, FilesUnchanged
  <2>9. QED
    BY <2>6, <2>7, <2>8 DEF Turns
<1>7. ASSUME NEW r \in Requests, KeySave(r)
      PROVE  Goal
  <2>1. Goto(r, "key_save", "idle")
    BY <1>7 DEF KeySave, Leave
  <2>2. Before
    BY <2>1, <1>a DEF Goto
  <2>3. /\ pc[r] = "key_save" /\ pc'[r] = "idle"
        /\ \A q \in Requests \ {r} : pc[q] = "idle" /\ pc'[q] = "idle"
    BY <2>1, <2>2, MovesAlone
  <2> USE <2>2, <2>3
  <2>4. QED
    BY <1>7 DEF KeySave, FilesUnchanged, Turns
<1>8. ASSUME NEW r \in Requests, ScanLoad(r)
      PROVE  Goal
  <2>1. Enter(r, "scanning")
    BY <1>8 DEF ScanLoad
  <2>2. Before /\ pc'[r] = "scanning" /\ \A q \in Requests : pc[q] = "idle"
    BY <2>1, <1>a, BeginsAlone
  <2>3. \A q \in Requests \ {r} : pc'[q] = "idle"
    BY <2>1, BeginsAlone
  <2>4. PICK c \in Loaded : Hold(r, c)
    BY <1>8 DEF ScanLoad
  <2>5. held'[r] = c
    BY <2>4 DEF Hold, RepositoryTypeOK
  <2>6. UNCHANGED <<config, privateKey, knownHosts, halfway>>
    BY <1>8 DEF ScanLoad, FilesUnchanged
  <2>7. Trusted(c) /\ (~halfway => OwnKey(c))
    BY <2>2, LoadedSound
  <2>8. QED
    BY <2>2, <2>3, <2>5, <2>6, <2>7 DEF Turns
<1>9. ASSUME NEW r \in Requests, ScanSave(r)
      PROVE  Goal
  <2>1. Goto(r, "scanning", "idle")
    BY <1>9 DEF ScanSave, Leave
  <2>2. Before
    BY <2>1, <1>a DEF Goto
  <2>3. /\ pc[r] = "scanning" /\ pc'[r] = "idle"
        /\ \A q \in Requests \ {r} : pc[q] = "idle" /\ pc'[q] = "idle"
    BY <2>1, <2>2, MovesAlone
  <2> USE <2>2, <2>3
  <2>4. PICK k \in HostKeys : Save([held[r] EXCEPT !.pending = k, !.confirmed = FALSE])
    BY <1>9 DEF ScanSave
  <2>5. /\ ~[held[r] EXCEPT !.pending = k, !.confirmed = FALSE].confirmed
        /\ [held[r] EXCEPT !.pending = k, !.confirmed = FALSE].publicKey = held[r].publicKey
    BY DEF RepositoryTypeOK, Configs
  <2>6. QED
    BY <1>9, <2>4, <2>5 DEF ScanSave, Save, FilesUnchanged, Turns
<1>10. ASSUME NEW r \in Requests, TrustLoad(r)
       PROVE  Goal
  <2>1. Enter(r, "trust_write")
    BY <1>10 DEF TrustLoad
  <2>2. Before /\ pc'[r] = "trust_write" /\ \A q \in Requests : pc[q] = "idle"
    BY <2>1, <1>a, BeginsAlone
  <2>3. \A q \in Requests \ {r} : pc'[q] = "idle"
    BY <2>1, BeginsAlone
  <2>4. PICK c \in Loaded : c.pending # None /\ Hold(r, c)
    BY <1>10 DEF TrustLoad
  <2>5. held'[r] = c
    BY <2>4 DEF Hold, RepositoryTypeOK
  <2>6. UNCHANGED <<config, privateKey, knownHosts, halfway>>
    BY <1>10 DEF TrustLoad, FilesUnchanged
  <2>7. c = config /\ Trusted(c) /\ (~halfway => OwnKey(c))
    BY <2>2, <2>4, LoadedSound
  <2>8. QED
    BY <2>2, <2>3, <2>5, <2>6, <2>7 DEF Turns
<1>11. ASSUME NEW r \in Requests, TrustWrite(r)
       PROVE  Goal
  <2>1. Goto(r, "trust_write", "trust_save")
    BY <1>11 DEF TrustWrite, Leave
  <2>2. Before
    BY <2>1, <1>a DEF Goto
  <2>3. /\ pc[r] = "trust_write" /\ pc'[r] = "trust_save"
        /\ \A q \in Requests \ {r} : pc[q] = "idle" /\ pc'[q] = "idle"
    BY <2>1, <2>2, MovesAlone
  <2> USE <2>2, <2>3
  <2>4. QED
    BY <1>11 DEF TrustWrite, Turns
<1>12. ASSUME NEW r \in Requests, TrustWriteFails(r)
       PROVE  Goal
  <2>1. Goto(r, "trust_write", "idle")
    BY <1>12 DEF TrustWriteFails, Leave
  <2>2. Before
    BY <2>1, <1>a DEF Goto
  <2>3. /\ pc[r] = "trust_write" /\ pc'[r] = "idle"
        /\ \A q \in Requests \ {r} : pc[q] = "idle" /\ pc'[q] = "idle"
    BY <2>1, <2>2, MovesAlone
  <2> USE <2>2, <2>3
  <2>4. QED
    BY <1>12 DEF TrustWriteFails, Turns
<1>13. ASSUME NEW r \in Requests, TrustSave(r)
       PROVE  Goal
  <2>1. Goto(r, "trust_save", "idle")
    BY <1>13 DEF TrustSave, Leave
  <2>2. Before
    BY <2>1, <1>a DEF Goto
  <2>3. /\ pc[r] = "trust_save" /\ pc'[r] = "idle"
        /\ \A q \in Requests \ {r} : pc[q] = "idle" /\ pc'[q] = "idle"
    BY <2>1, <2>2, MovesAlone
  <2> USE <2>2, <2>3
  <2>4. /\ [held[r] EXCEPT !.confirmed = TRUE].pending = held[r].pending
        /\ [held[r] EXCEPT !.confirmed = TRUE].publicKey = held[r].publicKey
    BY DEF RepositoryTypeOK, Configs
  <2>5. QED
    BY <1>13, <2>4 DEF TrustSave, Save, FilesUnchanged, Turns
<1>14. ASSUME NEW r \in Requests, GitLoad(r)
       PROVE  Goal
  <2>1. Enter(r, "git_paths")
    BY <1>14 DEF GitLoad
  <2>2. Before /\ pc'[r] = "git_paths" /\ \A q \in Requests : pc[q] = "idle"
    BY <2>1, <1>a, BeginsAlone
  <2>3. \A q \in Requests \ {r} : pc'[q] = "idle"
    BY <2>1, BeginsAlone
  <2>4. PICK c \in Loaded : Hold(r, c)
    BY <1>14 DEF GitLoad
  <2>5. held'[r] = c
    BY <2>4 DEF Hold, RepositoryTypeOK
  <2>6. UNCHANGED <<config, privateKey, knownHosts, halfway>>
    BY <1>14 DEF GitLoad, FilesUnchanged
  <2>7. Trusted(c) /\ (~halfway => OwnKey(c))
    BY <2>2, LoadedSound
  <2>8. QED
    BY <2>2, <2>3, <2>5, <2>6, <2>7 DEF Turns
<1>15. ASSUME NEW r \in Requests, GitPaths(r)
       PROVE  Goal
  <2>1. Goto(r, "git_paths", "git_running")
    BY <1>15 DEF GitPaths, Leave
  <2>2. Before
    BY <2>1, <1>a DEF Goto
  <2>3. /\ pc[r] = "git_paths" /\ pc'[r] = "git_running"
        /\ \A q \in Requests \ {r} : pc[q] = "idle" /\ pc'[q] = "idle"
    BY <2>1, <2>2, MovesAlone
  <2> USE <2>2, <2>3
  <2>4. QED
    BY <1>15 DEF GitPaths, FilesUnchanged, Turns
<1>16. ASSUME NEW r \in Requests, GitEnd(r)
       PROVE  Goal
  <2>1. Goto(r, "git_running", "idle")
    BY <1>16 DEF GitEnd, Leave
  <2>2. Before
    BY <2>1, <1>a DEF Goto
  <2>3. /\ pc[r] = "git_running" /\ pc'[r] = "idle"
        /\ \A q \in Requests \ {r} : pc[q] = "idle" /\ pc'[q] = "idle"
    BY <2>1, <2>2, MovesAlone
  <2> USE <2>2, <2>3
  <2>4. QED
    BY <1>16 DEF GitEnd, Save, FilesUnchanged, Turns
<1>17. CASE RepositoryCrash
  <2>1. Before /\ \A q \in Requests : pc'[q] = "idle"
    BY <1>17, <1>a DEF RepositoryCrash, AllStop
  <2>2. Turns' /\ HostKeys_Serial'
    BY <1>17, <2>1 DEF RepositoryCrash, Turns, CutIfIn
  <2>3. ASSUME ~halfway'
        PROVE  /\ \A q \in Requests : pc[q] \notin NewKeyHeld
               /\ privateKey' = privateKey
               /\ ~halfway
    BY <1>17, <2>3 DEF RepositoryCrash, CutIfIn
  <2>4. QED
    BY <1>17, <2>1, <2>2, <2>3 DEF RepositoryCrash
<1>18. CASE UNCHANGED repositoryVars
  BY <1>18, <1>a DEF repositoryVars, workerVars, Turns
<1>19. QED
  BY <1>1, <1>2, <1>3, <1>4, <1>5, <1>6, <1>7, <1>8, <1>9, <1>10, <1>11, <1>12,
     <1>13, <1>14, <1>15, <1>16, <1>17, <1>18 DEF RepositoryNext, RepositoryStep

(* Requests one at a time leave files and configuration in agreement.      *)
THEOREM RepositorySerialInv == RepositorySpec => []SerialInv
  BY RepositoryInit_Serial, RepositoryStep_Serial, RepositoryStaysTyped, PTL
     DEF RepositorySpec

(* With requests one at a time, the host key shown as confirmed is the one *)
(* ssh trusts, whatever is cut off and whenever a load fails.              *)
THEOREM ConfirmedKeyIsTrusted == RepositorySpec => []ShownKeyIsTrusted
<1>1. SerialInv => ShownKeyIsTrusted
  BY DEF SerialInv, HostKeys_Serial, Trusted, ShownKeyIsTrusted
<1>2. QED
  BY <1>1, RepositorySerialInv, PTL

(* With requests one at a time, the public key shown belongs to the        *)
(* private key, unless a generation broke off.                             *)
THEOREM ShownKeyBelongs == RepositorySpec => []PublicKeyMatches
<1>1. SerialInv => PublicKeyMatches
  BY DEF SerialInv, DeployKeys_Serial, OwnKey, NewKeyHeld, PublicKeyMatches
<1>2. QED
  BY <1>1, RepositorySerialInv, PTL
=============================================================================
