--------------------------- MODULE MCManagedDatabase ---------------------------
(* A small instance: the requests, the secrets and the files are           *)
(* interchangeable, the engines are not.                                   *)
EXTENDS ManagedDatabase, Naturals, FiniteSets, TLC

MCEngines == {"mysql", "postgres"}

InstanceSymmetry == Permutations(Requests) \cup Permutations(Secrets) \cup Permutations(Files)

(* Bound: a second backup name while one secret is used, more secrets only *)
(* with one name.                                                          *)
UsedFiles ==
  {f \in Files : backups[f] # "none" \/ \E r \in Requests : call[r].file = f}
NamesOrSecrets == Cardinality(UsedFiles) <= 1 \/ Cardinality(Secrets \ unused) <= 1
=============================================================================
