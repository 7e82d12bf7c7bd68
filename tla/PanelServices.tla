----------------------------- MODULE PanelServices -----------------------------
(***************************************************************************)
(* The services of the panel that share threads and nothing else: the      *)
(* repository configuration, the accounts, the staging area and the        *)
(* environment of the application.  Since no step of one reads or writes   *)
(* what another keeps, interleaving them adds no behaviour to any; a       *)
(* behaviour here is one of the service "part".                            *)
(***************************************************************************)
EXTENDS RepositoryConfig, PanelUsers, StagingStorage, AppEnvironment

VARIABLE part   \* the service that is used

panelVars == <<repositoryVars, usersVars, storageVars, environmentVars, part>>

PanelInit ==
  /\ part \in {"repository", "users", "storage", "environment"}
  /\ RepositoryInit /\ UsersInit /\ StorageInit /\ EnvironmentInit

RepositoryUnchanged ==
  UNCHANGED <<config, held, privateKey, knownHosts, transport, halfway>>
UsersUnchanged == UNCHANGED <<account, cookie, grant>>
StorageUnchanged == UNCHANGED <<files, parts, folders, upload, clash, undeclared, cut>>
EnvironmentUnchanged ==
  UNCHANGED <<envFile, page, db, read, swap, app, pending, covering, raced>>

PanelNext ==
  /\ \/ /\ part = "repository" /\ RepositoryNext
        /\ UsersUnchanged /\ StorageUnchanged /\ EnvironmentUnchanged
     \/ /\ part = "users" /\ UsersNext
        /\ RepositoryUnchanged /\ StorageUnchanged /\ EnvironmentUnchanged
     \/ /\ part = "storage" /\ StorageNext
        /\ RepositoryUnchanged /\ UsersUnchanged /\ EnvironmentUnchanged
     \/ /\ part = "environment" /\ EnvironmentNext
        /\ RepositoryUnchanged /\ UsersUnchanged /\ StorageUnchanged
  /\ UNCHANGED part

PanelSpec == PanelInit /\ [][PanelNext]_panelVars

(* Every service keeps its state in shape.                                 *)
PanelTypeOK ==
  /\ part = "repository" => RepositoryTypeOK
  /\ part = "users" => UsersTypeOK
  /\ part = "storage" => StorageTypeOK
  /\ part = "environment" => EnvironmentTypeOK
=============================================================================
