------------------------------ MODULE Deployment ------------------------------
(***************************************************************************)
(* The deploy cycle: the dashboard's request threads                       *)
(* (dashboard/app/services/deployment.py and the two deploy endpoints in   *)
(* blueprints/deployment.py and blueprints/repository.py) running against  *)
(* the manifest, the progress tracker and the orchestrator.                *)
(*                                                                         *)
(* One gunicorn process serves up to eight requests at a time.  A request  *)
(* here is such a thread; pc says where it is between two points at which  *)
(* other threads, handlers, or a crash can come in.  No lock covers a      *)
(* deploy: tracker.active is looked at once on admission, and raised only  *)
(* after the revision was fetched.                                         *)
(***************************************************************************)
EXTENDS DeployManifest, DeployProgress, Orchestrator

CONSTANTS
  Commits,    \* revisions of the configured repository
  Uploads,    \* identifiers of uploaded archives, one fresh one per upload
  MaxProbes   \* probes that fit in the 90 s a candidate is given

ASSUME DeploymentAssumption ==
  /\ Shas = Commits \cup Uploads
  /\ Commits \cap Uploads = {}
  /\ MaxProbes \in Nat \ {0}

VARIABLES
  pc,       \* where each request is
  job,      \* what it deploys: the kind of deploy and the revision
  stage,    \* content of the staging directory of each kind, shared by requests
  fresh,    \* upload identifiers not used yet
  probes    \* probes each request has made

ownVars == <<pc, job, stage, fresh, probes>>
vars == <<ownVars, manifest, tracker, call, source, dockerVars>>

(* Steps of deploy_from_staging, between start and finish of the tracker.  *)
InsideDeploy ==
  {"profile", "check", "wipe", "move", "env", "building", "starting", "probing",
   "discarding", "activating", "record", "finish", "record_failure", "fail"}
PcValues ==
  InsideDeploy \cup {"idle", "clear", "fill", "start", "rolling_back", "rollback_record"}

NoJob == [kind |-> "", sha |-> None]
Jobs == [kind : Kinds \cup {"", "rollback"}, sha : Shas \cup {None}]

TypeOK ==
  /\ ManifestTypeOK
  /\ tracker \in TrackerState
  /\ OrchestratorTypeOK
  /\ pc \in [Requests -> PcValues]
  /\ job \in [Requests -> Jobs]
  /\ stage \in [Kinds -> Trees \cup {None}]
  /\ fresh \subseteq Uploads
  /\ probes \in [Requests -> 0..MaxProbes]

Init ==
  /\ ManifestInit
  /\ TrackerInit
  /\ OrchestratorInit
  /\ pc = [r \in Requests |-> "idle"]
  /\ job = [r \in Requests |-> NoJob]
  /\ stage = [k \in Kinds |-> None]
  /\ fresh = Uploads
  /\ probes = [r \in Requests |-> 0]

-----------------------------------------------------------------------------
Sha(r) == job[r].sha
Kind(r) == job[r].kind

Goto(r, here, there) == pc[r] = here /\ pc' = [pc EXCEPT ![r] = there]

(* The request is answered and its thread is free again.                   *)
Return(r, here) ==
  /\ Goto(r, here, "idle")
  /\ job' = [job EXCEPT ![r] = NoJob]
  /\ probes' = [probes EXCEPT ![r] = 0]

StagingUnchanged == UNCHANGED <<stage, fresh>>
WorkUnchanged == UNCHANGED <<job, stage, fresh, probes>>
CallsUnchanged == UNCHANGED <<call, source, dockerVars>>

(* The endpoint lets a deploy in when the tracker says that none runs.     *)
Admit(r, kind) ==
  /\ ~IsActive
  /\ call[r] = NoCall
  /\ Goto(r, "idle", "clear")
  /\ job' = [job EXCEPT ![r] = [kind |-> kind, sha |-> None]]
  /\ StagingUnchanged
  /\ UNCHANGED <<probes, manifest, tracker>> /\ CallsUnchanged

(* shutil.rmtree(stage_dir, ignore_errors=True), which may leave the       *)
(* directory as it is, or part of it.                                      *)
Leftovers(kind) ==
  IF stage[kind] = None THEN {None} ELSE {None, stage[kind], Torn}

ClearStage(r) ==
  /\ Goto(r, "clear", "fill")
  /\ \E left \in Leftovers(Kind(r)) : stage' = [stage EXCEPT ![Kind(r)] = left]
  /\ UNCHANGED <<job, fresh, probes, manifest, tracker>> /\ CallsUnchanged

(* git clone of the configured ref; git refuses a directory that is not    *)
(* empty.  The commit found is what the ref points to by now.              *)
FillFromGit(r) ==
  /\ Kind(r) = "git"
  /\ stage["git"] = None
  /\ \E c \in Commits :
       /\ stage' = [stage EXCEPT !["git"] = c]
       /\ job' = [job EXCEPT ![r] = [kind |-> "git", sha |-> c]]
  /\ Goto(r, "fill", "start")
  /\ UNCHANGED <<fresh, probes, manifest, tracker>> /\ CallsUnchanged

(* The archive is extracted over whatever the directory holds.             *)
FillFromUpload(r) ==
  /\ Kind(r) = "upload"
  /\ \E u \in fresh :
       /\ stage' = [stage EXCEPT !["upload"] = IF @ = None THEN u ELSE Torn]
       /\ job' = [job EXCEPT ![r] = [kind |-> "upload", sha |-> u]]
       /\ fresh' = fresh \ {u}
  /\ Goto(r, "fill", "start")
  /\ UNCHANGED <<probes, manifest, tracker>> /\ CallsUnchanged

(* The clone or the extraction fails; what it left may stay, since only    *)
(* some of the errors reach the code that removes the directory.           *)
FillFails(r) ==
  /\ Return(r, "fill")
  /\ \E left \in {None, stage[Kind(r)], Torn} :
       stage' = [stage EXCEPT ![Kind(r)] = left]
  /\ UNCHANGED <<fresh, manifest, tracker>> /\ CallsUnchanged

BeginProgress(r) ==
  /\ Goto(r, "start", "profile")
  /\ Start(Kind(r))
  /\ WorkUnchanged
  /\ UNCHANGED manifest /\ CallsUnchanged

FindProfile(r) ==
  /\ \/ Goto(r, "profile", "check") /\ SetStage("validate")
     \/ Goto(r, "profile", "fail") /\ UNCHANGED tracker
  /\ WorkUnchanged
  /\ UNCHANGED manifest /\ CallsUnchanged

(* validate_tree and the Dockerfile policy                                 *)
Accept(r) ==
  /\ Goto(r, "check", "wipe")
  /\ stage[Kind(r)] # None
  /\ WorkUnchanged
  /\ UNCHANGED <<manifest, tracker>> /\ CallsUnchanged

(* A tree that breaks the policy, or has been removed meanwhile.           *)
Reject(r) ==
  /\ Goto(r, "check", "fail")
  /\ \E left \in Leftovers(Kind(r)) : stage' = [stage EXCEPT ![Kind(r)] = left]
  /\ UNCHANGED <<job, fresh, probes, manifest, tracker>> /\ CallsUnchanged

(* Mutant of WipeSource: what is in source/ stays there.                   *)
WipeNothing(r) ==
  /\ Goto(r, "wipe", "move")
  /\ WorkUnchanged
  /\ UNCHANGED <<manifest, tracker, source, call, dockerVars>>

(* _promote_staging_to_source: empty source/, then move the staged entries *)
(* into it.  Either loop can stop half way with an OSError.                *)
WipeSource(r) ==
  /\ \/ Goto(r, "wipe", "move") /\ source' = None
     \/ Goto(r, "wipe", "fail") /\ source' \in {source, Torn}
  /\ WorkUnchanged
  /\ UNCHANGED <<manifest, tracker, call, dockerVars>>

MoveStage(r) ==
  /\ Goto(r, "move", "env")
  /\ stage[Kind(r)] # None
  /\ source' = IF source = None THEN stage[Kind(r)] ELSE Torn
  /\ stage' = [stage EXCEPT ![Kind(r)] = None]
  /\ UNCHANGED <<job, fresh, probes, manifest, tracker, call, dockerVars>>

(* Mutant of MoveFails: the error leaves without telling the tracker.      *)
MoveEscapes(r) ==
  /\ Return(r, "move")
  /\ UNCHANGED <<source, stage, fresh, manifest, tracker, call, dockerVars>>

MoveFails(r) ==
  /\ Goto(r, "move", "fail")
  /\ \/ UNCHANGED <<source, stage>>
     \/ /\ stage[Kind(r)] # None
        /\ source' = Torn
        /\ stage' = [stage EXCEPT ![Kind(r)] = Torn]
  /\ UNCHANGED <<job, fresh, probes, manifest, tracker, call, dockerVars>>

(* app.env is read; an error there is not recorded in the manifest.        *)
RequestBuild(r) ==
  /\ \/ /\ Goto(r, "env", "building")
        /\ SetStage("build")
        /\ Open(r, "build", Sha(r))
     \/ Goto(r, "env", "fail") /\ UNCHANGED <<tracker, call>>
  /\ WorkUnchanged
  /\ UNCHANGED <<manifest, source, dockerVars>>

BuildDone(r) ==
  /\ \/ /\ Succeeded(r)
        /\ Goto(r, "building", "starting")
        /\ SetStage("candidate_start")
        /\ Open(r, "candidate_remove", Sha(r))
     \/ /\ Broken(r)
        /\ Goto(r, "building", "record_failure")
        /\ Consume(r)
        /\ UNCHANGED tracker
  /\ WorkUnchanged
  /\ UNCHANGED <<manifest, source, dockerVars>>

(* Mutant of CandidateDone: an error of the orchestrator is not looked at. *)
CandidateAnyhow(r) ==
  /\ Succeeded(r) \/ Broken(r)
  /\ Goto(r, "starting", "probing")
  /\ SetStage("health_check")
  /\ Open(r, "probe", Sha(r))
  /\ probes' = [probes EXCEPT ![r] = 1]
  /\ UNCHANGED <<job, stage, fresh, manifest, source, dockerVars>>

CandidateDone(r) ==
  /\ \/ /\ Succeeded(r)
        /\ Goto(r, "starting", "probing")
        /\ SetStage("health_check")
        /\ Open(r, "probe", Sha(r))
        /\ probes' = [probes EXCEPT ![r] = 1]
     \/ /\ Broken(r)
        /\ Goto(r, "starting", "record_failure")
        /\ Consume(r)
        /\ UNCHANGED <<tracker, probes>>
  /\ UNCHANGED <<job, stage, fresh, manifest, source, dockerVars>>

-----------------------------------------------------------------------------
(* _await_candidate_health                                                 *)

(* Mutant of Healthy: any answer of the probe will do.                     *)
HealthyAnyhow(r) ==
  /\ call[r].at \in {"healthy", "unhealthy"}
  /\ Goto(r, "probing", "activating")
  /\ SetStage("activate")
  /\ Open(r, "app_remove", Sha(r))
  /\ WorkUnchanged
  /\ UNCHANGED <<manifest, source, dockerVars>>

Healthy(r) ==
  /\ call[r].at = "healthy"
  /\ Goto(r, "probing", "activating")
  /\ SetStage("activate")
  /\ Open(r, "app_remove", Sha(r))
  /\ WorkUnchanged
  /\ UNCHANGED <<manifest, source, dockerVars>>

(* Mutant of ProbeAgain: one probe after the deadline.                     *)
ProbeOnceMore(r) ==
  /\ pc[r] = "probing"
  /\ call[r].at = "unhealthy"
  /\ probes[r] <= MaxProbes
  /\ probes' = [probes EXCEPT ![r] = @ + 1]
  /\ Open(r, "probe", Sha(r))
  /\ UNCHANGED <<pc, job, stage, fresh, manifest, tracker, source, dockerVars>>

ProbeAgain(r) ==
  /\ pc[r] = "probing"
  /\ call[r].at = "unhealthy"
  /\ probes[r] < MaxProbes
  /\ probes' = [probes EXCEPT ![r] = @ + 1]
  /\ Open(r, "probe", Sha(r))
  /\ UNCHANGED <<pc, job, stage, fresh, manifest, tracker, source, dockerVars>>

(* Mutant of Unhealthy: at the deadline the candidate is let through.      *)
UnhealthyFailsOpen(r) ==
  /\ call[r].at = "unhealthy" \/ Broken(r)
  /\ Goto(r, "probing", "activating")
  /\ Open(r, "app_remove", Sha(r))
  /\ WorkUnchanged
  /\ UNCHANGED <<manifest, tracker, source, dockerVars>>

(* The deadline passed, or a probe could not be made: the candidate is     *)
(* discarded.                                                              *)
Unhealthy(r) ==
  /\ call[r].at = "unhealthy" \/ Broken(r)
  /\ Goto(r, "probing", "discarding")
  /\ Open(r, "discard", Sha(r))
  /\ WorkUnchanged
  /\ UNCHANGED <<manifest, tracker, source, dockerVars>>

(* Mutant of Discarded: the discard has to work.                           *)
DiscardedOnlyIfOk(r) ==
  /\ Succeeded(r)
  /\ Goto(r, "discarding", "record_failure")
  /\ Consume(r)
  /\ WorkUnchanged
  /\ UNCHANGED <<manifest, tracker, source, dockerVars>>

(* Whether the discard worked is not looked at.                            *)
Discarded(r) ==
  /\ Succeeded(r) \/ Broken(r)
  /\ Goto(r, "discarding", "record_failure")
  /\ Consume(r)
  /\ WorkUnchanged
  /\ UNCHANGED <<manifest, tracker, source, dockerVars>>

(* Mutant of Activated: an error of the orchestrator is not looked at.     *)
ActivatedAnyhow(r) ==
  /\ Succeeded(r) \/ Broken(r)
  /\ Goto(r, "activating", "record")
  /\ Consume(r)
  /\ WorkUnchanged
  /\ UNCHANGED <<manifest, tracker, source, dockerVars>>

Activated(r) ==
  /\ \/ Succeeded(r) /\ Goto(r, "activating", "record")
     \/ Broken(r) /\ Goto(r, "activating", "record_failure")
  /\ Consume(r)
  /\ WorkUnchanged
  /\ UNCHANGED <<manifest, tracker, source, dockerVars>>

-----------------------------------------------------------------------------
(* Every exception ends in finish_failure; one raised while the manifest   *)
(* is written replaces the error that was being recorded.                  *)

Record(r) ==
  /\ \/ Goto(r, "record", "finish") /\ RecordSuccess(Sha(r), Sha(r))
     \/ Goto(r, "record", "fail") /\ UNCHANGED manifest
  /\ WorkUnchanged
  /\ UNCHANGED tracker /\ CallsUnchanged

NoteFailure(r) ==
  /\ Goto(r, "record_failure", "fail")
  /\ RecordFailure(Sha(r)) \/ UNCHANGED manifest
  /\ WorkUnchanged
  /\ UNCHANGED tracker /\ CallsUnchanged

EndProgress(r) ==
  /\ \/ Return(r, "finish") /\ FinishSuccess
     \/ Return(r, "fail") /\ FinishFailure
  /\ StagingUnchanged
  /\ UNCHANGED manifest /\ CallsUnchanged

-----------------------------------------------------------------------------
(* Rollback activates the previous image without looking at the tracker,   *)
(* and has the manifest rolled back after that.                            *)

RollbackBegin(r) ==
  /\ manifest.previous # None
  /\ call[r] = NoCall
  /\ Goto(r, "idle", "rolling_back")
  /\ job' = [job EXCEPT ![r] = [kind |-> "rollback", sha |-> manifest.previous.tag]]
  /\ Open(r, "app_remove", manifest.previous.tag)
  /\ StagingUnchanged
  /\ UNCHANGED <<probes, manifest, tracker, source, dockerVars>>

RollbackActivated(r) ==
  /\ Succeeded(r)
  /\ Goto(r, "rolling_back", "rollback_record")
  /\ Consume(r)
  /\ WorkUnchanged
  /\ UNCHANGED <<manifest, tracker, source, dockerVars>>

RollbackFails(r) ==
  /\ Broken(r)
  /\ Return(r, "rolling_back")
  /\ Consume(r)
  /\ StagingUnchanged
  /\ UNCHANGED <<manifest, tracker, source, dockerVars>>

RollbackRecord(r) ==
  /\ Return(r, "rollback_record")
  /\ RollbackToPrevious
  /\ StagingUnchanged
  /\ UNCHANGED tracker /\ CallsUnchanged

-----------------------------------------------------------------------------
(* The dashboard process dies (or gunicorn replaces its worker) and comes  *)
(* back: threads, tracker and answers are gone, handlers already running   *)
(* in the orchestrator go on, files and containers stay.                   *)
DashboardCrash ==
  /\ pc' = [r \in Requests |-> "idle"]
  /\ job' = [r \in Requests |-> NoJob]
  /\ probes' = [r \in Requests |-> 0]
  /\ tracker' = TrackerIdle
  /\ call' = [r \in Requests |->
                IF call[r].at \in HandlerSteps THEN [call[r] EXCEPT !.open = FALSE]
                                               ELSE NoCall]
  /\ StagingUnchanged
  /\ UNCHANGED <<manifest, source, dockerVars>>

(* What a thread does on its own once it was admitted.                     *)
RequestStep(r) ==
  \/ ClearStage(r) \/ FillFromGit(r) \/ FillFromUpload(r) \/ FillFails(r)
  \/ BeginProgress(r) \/ FindProfile(r) \/ Accept(r) \/ Reject(r)
  \/ WipeSource(r) \/ MoveStage(r) \/ MoveFails(r)
  \/ RequestBuild(r) \/ BuildDone(r) \/ CandidateDone(r)
  \/ Healthy(r) \/ ProbeAgain(r) \/ Unhealthy(r) \/ Discarded(r) \/ Activated(r)
  \/ Record(r) \/ NoteFailure(r) \/ EndProgress(r)
  \/ RollbackActivated(r) \/ RollbackFails(r) \/ RollbackRecord(r)

HandlerStep(r) == Handler(r) /\ UNCHANGED <<ownVars, manifest, tracker>>

(* A request comes in.                                                     *)
Arrival(r) == (\E kind \in Kinds : Admit(r, kind)) \/ RollbackBegin(r)

(* What happens once it is in, and around it.                              *)
Work ==
  \/ \E r \in Requests :
       \/ RequestStep(r)
       \/ HandlerStep(r)
       \/ GiveUp(r) /\ UNCHANGED <<ownVars, manifest, tracker>>
  \/ \E running \in BOOLEAN :
       OperateApp(running) /\ UNCHANGED <<ownVars, manifest, tracker>>
  \/ DashboardCrash

Next == (\E r \in Requests : Arrival(r)) \/ Work

Spec == Init /\ [][Next]_vars

(* A thread that can go on does, and a handler answers in the end (docker- *)
(* py and the build have timeouts): a request and its handler, taken       *)
(* together, never stop for good.  Nothing obliges anybody to deploy, to   *)
(* give up waiting, or the process to die.                                 *)
Fairness == \A r \in Requests : WF_vars(RequestStep(r) \/ HandlerStep(r))

FairSpec == Spec /\ Fairness

(* Requests one at a time: none is let in before everything is at rest,    *)
(* orphaned handlers included.                                             *)
Quiet == \A r \in Requests : pc[r] = "idle" /\ call[r] = NoCall

SerialNext == (Quiet /\ \E r \in Requests : Arrival(r)) \/ Work
SerialSpec == Init /\ [][SerialNext]_vars
=============================================================================
