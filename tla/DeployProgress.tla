---------------------------- MODULE DeployProgress ----------------------------
(***************************************************************************)
(* The in-memory tracker of the deploy that is running                     *)
(* (dashboard/app/services/deploy_progress.py).  One object per dashboard  *)
(* process, each method atomic under its own lock.  is_active is what      *)
(* admits a new deploy, the rest is what the progress bar shows.           *)
(***************************************************************************)
EXTENDS Integers

VARIABLE tracker

Kinds == {"git", "upload"}

(* Mutant of StagePercent: the weight of the stage itself.                 *)
StageOwnWeight ==
  [validate |-> 5, build |-> 55, candidate_start |-> 10,
   health_check |-> 20, activate |-> 10]

(* STAGES with their cumulative weight, _cumulative_percent_before.        *)
StagePercent ==
  [validate |-> 0, build |-> 5, candidate_start |-> 60,
   health_check |-> 70, activate |-> 90]
Stages == DOMAIN StagePercent

TrackerState ==
  [active : BOOLEAN, stage : Stages \cup {"", "done", "failed"},
   percent : 0..100, status : {"idle", "running", "success", "failed"},
   source_kind : Kinds \cup {""}]

TrackerIdle ==
  [active |-> FALSE, stage |-> "", percent |-> 0, status |-> "idle",
   source_kind |-> ""]

TrackerInit == tracker = TrackerIdle

IsActive == tracker.active

Start(kind) ==
  tracker' = [active |-> TRUE, stage |-> "", percent |-> 0,
              status |-> "running", source_kind |-> kind]

(* Raises active again whoever calls it; the kind is carried over from     *)
(* whatever the tracker showed before.                                     *)
SetStage(stage) ==
  tracker' = [active |-> TRUE, stage |-> stage,
              percent |-> StagePercent[stage],
              status |-> "running", source_kind |-> tracker.source_kind]

FinishSuccess ==
  tracker' = [active |-> FALSE, stage |-> "done", percent |-> 100,
              status |-> "success", source_kind |-> tracker.source_kind]

(* Mutant of FinishFailure: active is not lowered.                         *)
FinishFailureStaysActive ==
  tracker' = [tracker EXCEPT !.stage = "failed", !.status = "failed"]

FinishFailure ==
  tracker' = [active |-> FALSE, stage |-> "failed", percent |-> tracker.percent,
              status |-> "failed", source_kind |-> tracker.source_kind]
=============================================================================
