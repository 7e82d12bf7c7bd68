--------------------------- MODULE MCDeployManifest ---------------------------
(***************************************************************************)
(* A small instance of DeployManifest for TLC: a history of a few records  *)
(* is enough for the cap to drop successful and failed attempts.           *)
(***************************************************************************)
EXTENDS DeployManifest
=============================================================================
