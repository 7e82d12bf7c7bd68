------------------------------ MODULE Revisions ------------------------------
(***************************************************************************)
(* What the modules of the deploy cycle have in common: the revisions      *)
(* that can be deployed, and a value for what is absent.                   *)
(***************************************************************************)
CONSTANTS
  Shas,   \* identifiers of revisions: commit ids and upload ids
  None    \* Python's None, a missing file, an empty directory or tag

ASSUME NoneAssumption == None \notin Shas
=============================================================================
