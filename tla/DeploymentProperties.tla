------------------------- MODULE DeploymentProperties -------------------------
(***************************************************************************)
(* What the deploy cycle should guarantee.  The first group holds however  *)
(* requests, handlers and crashes interleave.  The second group relies on  *)
(* requests coming one at a time (SerialSpec): the code has no lock that   *)
(* would make it so, and the third group shows what is lost without it,    *)
(* and what is lost even then.                                             *)
(***************************************************************************)
EXTENDS Deployment

-----------------------------------------------------------------------------
(* Under every interleaving.                                               *)

(* The current record and the rollback target name images that were built: *)
(* rollback() passes previous.image_tag to the orchestrator unseen, and    *)
(* finding the image missing after the app container was removed would     *)
(* leave nothing running.                                                  *)
RollbackTargetBuilt ==
  \A record \in {manifest.current, manifest.previous} \ {None} :
    images[record.tag] # None

(* The tracker says "active" only while some request is between start and  *)
(* finish: no path out of deploy_from_staging, expected or not, leaves it  *)
(* raised, which would answer 409 to every later deploy.                   *)
TrackerSettles == tracker.active => \E r \in Requests : pc[r] \in InsideDeploy

(* Every request that was let in is answered, however its calls end.       *)
EveryRequestAnswered == \A r \in Requests : pc[r] # "idle" ~> pc[r] = "idle"

(* A deploy shown as running is shown as finished some time after, so that *)
(* the next one can be let in.                                             *)
ProgressEnds == tracker.active ~> ~tracker.active

-----------------------------------------------------------------------------
(* With requests one at a time.                                            *)

InActivate(r) == call[r].at \in {"app_remove", "app_create", "app_start", "app_clean"}

(* The swap as ReleaseSwap describes it.                                   *)
Incoming ==
  IF \E r \in Requests : InActivate(r)
    THEN images[call[CHOOSE r \in Requests : InActivate(r)].sha]
    ELSE None

Swap == INSTANCE ReleaseSwap WITH
          Versions <- Trees, placed <- app.tree, incoming <- Incoming, trusted <- proved

(* The deploy cycle and the rollback swap only versions that passed their  *)
(* health check (deployment.py:5-7, compose.yml:14-16).                    *)
ImplementsSwap == Swap!SwapSpec

(* What is reported as deployed, or recorded as rolled back to, is what    *)
(* runs: the container carries that revision, its tree answered a health   *)
(* check, the manifest names it, and no candidate is left beside it.       *)
SuccessMeansServed ==
  [][\A r \in Requests :
       \/ pc[r] = "finish" /\ EndProgress(r)
       \/ RollbackRecord(r) /\ manifest' # manifest
       => /\ app.sha = Sha(r)
          /\ app.tree = images[Sha(r)] /\ app.tree \in proved
          /\ manifest'.current = Active(Sha(r), Sha(r))
          /\ candidate = NoContainer]_vars

(* The image tagged with a revision holds that revision, however many      *)
(* deploys failed half way before ("build (tagged by SHA)").  The content  *)
(* passes through two directories that outlive a request; only an upload   *)
(* extracted over leftovers that could not be removed may be mixed.        *)
TagNamesItsTree ==
  \A s \in Shas : images[s] \in {s, None} \cup (IF s \in Uploads THEN {Torn} ELSE {})

(* The health check looks at the candidate this request started.           *)
OwnCandidateProbed ==
  \A r \in Requests : pc[r] = "probing" =>
    candidate.by = r /\ candidate.sha = Sha(r) /\ candidate.running

(* What a rollback would go back to passed a health check when it was      *)
(* deployed, and its tag was not rebuilt into something else since.        *)
RollbackTargetProved ==
  manifest.previous # None => images[manifest.previous.tag] \in proved

(* The progress bar never goes backwards while a deploy runs, and a        *)
(* failure leaves it where it was.                                         *)
BarNeverGoesBack ==
  [][tracker.active /\ tracker' # TrackerIdle => tracker'.percent >= tracker.percent]_vars

-----------------------------------------------------------------------------
(* What the documents say and the code does not keep.                      *)

(* deployment.py:5-6, "activate only if healthy": what is routed to has    *)
(* answered a health check.  Not so when two deploys overlap.              *)
OnlyHealthyServed == app.tree # None => app.tree \in proved

(* deploy_manifest.py:3-4, the manifest is the "source of truth for what   *)
(* is currently running".  Not so after a swap that failed, even with      *)
(* requests one at a time.                                                 *)
ManifestTellsWhatRuns ==
  (Quiet /\ manifest.current # None) => app.sha = manifest.current.sha

(* The same claim, for a rollback: the manifest records the version that   *)
(* was activated.  Not so when a deploy finishes between the two reads of  *)
(* rollback(): it reads its target (deployment.py:266), activates it, and  *)
(* has the manifest rolled back from a second read (line 282).             *)
RollbackRecordsItsTarget ==
  [][\A r \in Requests :
       RollbackRecord(r) /\ manifest' # manifest => manifest'.current.tag = Sha(r)]_vars
=============================================================================
