----------------------------- MODULE MCDeployment -----------------------------
(***************************************************************************)
(* Small instances of Deployment for TLC.                                  *)
(***************************************************************************)
EXTENDS DeploymentProperties, TLC

MCShas == Commits \cup Uploads

(* Requests play the same part, and so do uploads (safety runs only).      *)
Symmetry == Permutations(Requests) \cup Permutations(Uploads)

(* What the guards of Deployment read when every tree is sound, and what   *)
(* the properties of the concurrent runs read: states that agree on it     *)
(* have the same steps.  Left out are the history, the display part of     *)
(* the tracker, the content of directories, images and containers, and     *)
(* whose container it is except for the request about to start it.         *)
Present(x) == x # None
StartsOwn(step, container) ==
  {r \in Requests : call[r].at = step /\ container.by = r}
ControlView ==
  <<pc, job, [k \in Kinds |-> Present(stage[k])], fresh, probes,
    manifest.current, manifest.previous, tracker.active, call,
    Present(source), [s \in Shas |-> Present(images[s])],
    Present(app.by), StartsOwn("app_start", app),
    Present(candidate.by), candidate.running, StartsOwn("candidate_start", candidate)>>

(* Bound of the liveness run: deploys come from uploads.  It limits only   *)
(* who is let in, which no fairness condition asks for.                    *)
LiveNext ==
  \/ \E r \in Requests : Admit(r, "upload") \/ RollbackBegin(r)
  \/ Work
LiveSpec == Init /\ [][LiveNext]_vars /\ Fairness
=============================================================================
