---------------------------- MODULE ProgressStream ----------------------------
(***************************************************************************)
(* The progress and log streams (dashboard/app/blueprints/deployment.py    *)
(* progress_stream, blueprints/console.py logs_stream), the browser tabs   *)
(* that keep them open (static/app.js), and the threads all requests wait  *)
(* for (dashboard/Dockerfile).                                             *)
(*                                                                         *)
(* A stream holds its thread from its first to its last byte.  A progress  *)
(* stream looks at the tracker twice a second and compares versions, so it *)
(* may skip states; it ends after a deploy it saw running has ended, or at *)
(* its deadline.  A log stream has no deadline.  Time is left out: a       *)
(* deadline is a step that comes in the end.                               *)
(***************************************************************************)
EXTENDS DeployProgress, Sequences, FiniteSets

CONSTANTS
  Threads,     \* threads of the worker
  Watchers,    \* tabs that follow the progress
  LogReaders,  \* tabs that follow the log
  Deployer,    \* whoever deploys
  MaxDeploys,  \* deploys asked for
  MaxLogs,     \* log lines of a health check
  MaxCrashes   \* restarts of the dashboard

ASSUME StreamAssumption ==
  /\ Threads \in Nat \ {0}
  /\ Watchers \cap LogReaders = {} /\ Deployer \notin Watchers \cup LogReaders
  /\ MaxDeploys \in Nat /\ MaxLogs \in Nat /\ MaxCrashes \in Nat

VARIABLES
  version,   \* counts the changes of the tracker
  logs,      \* log lines of the current stage
  queue,     \* requests that wait for a thread
  serving,   \* clients a thread works for
  stream,    \* what each progress stream remembers
  shown,     \* what each tab shows
  deploys,   \* deploys asked for so far
  crashes    \* restarts so far

streamVars == <<tracker, version, logs, queue, serving, stream, shown, deploys, crashes>>

Clients == Watchers \cup LogReaders \cup {Deployer}
(* Start, five stages and the end of a deploy, and its log lines.          *)
MaxVersion == MaxDeploys * (7 + MaxLogs)

NoStream == [last |-> 0, seen |-> FALSE]

StreamTypeOK ==
  /\ tracker \in TrackerState
  /\ version \in 0..MaxVersion
  /\ logs \in 0..MaxLogs
  /\ queue \in Seq(Clients)
  /\ serving \subseteq Clients
  /\ stream \in [Watchers -> [last : 0..MaxVersion, seen : BOOLEAN]]
  /\ shown \in [Watchers -> TrackerState]
  /\ deploys \in 0..MaxDeploys
  /\ crashes \in 0..MaxCrashes

StreamInit ==
  /\ TrackerInit
  /\ version = 0 /\ logs = 0
  /\ queue = <<>>
  /\ serving = {}
  /\ stream = [w \in Watchers |-> NoStream]
  /\ shown = [w \in Watchers |-> TrackerIdle]
  /\ deploys = 0 /\ crashes = 0

-----------------------------------------------------------------------------
Queued(c) == \E i \in DOMAIN queue : queue[i] = c
Away(c) == c \notin serving /\ ~Queued(c)

TrackerUnchanged == UNCHANGED <<tracker, version, logs>>

(* A request is accepted: a tab (re)connects its stream, 2.5 s after it    *)
(* was closed, or somebody deploys.                                        *)
Request(c) ==
  /\ Away(c)
  /\ c = Deployer => deploys < MaxDeploys
  /\ queue' = Append(queue, c)
  /\ deploys' = IF c = Deployer THEN deploys + 1 ELSE deploys
  /\ TrackerUnchanged /\ UNCHANGED <<serving, stream, shown, crashes>>

(* Mutant of FirstSnapshot: only changes are sent.                         *)
FirstSnapshotUnsent(c) ==
  /\ stream' = [stream EXCEPT ![c] = [last |-> version, seen |-> tracker.active]]
  /\ UNCHANGED shown

(* A new progress stream sends the state it finds.                         *)
FirstSnapshot(c) ==
  /\ stream' = [stream EXCEPT ![c] = [last |-> version, seen |-> tracker.active]]
  /\ shown' = [shown EXCEPT ![c] = tracker]

(* A free thread takes the request that waited longest.                    *)
Dispatch ==
  /\ queue # <<>>
  /\ Cardinality(serving) < Threads
  /\ serving' = serving \cup {Head(queue)}
  /\ queue' = Tail(queue)
  /\ IF Head(queue) \in Watchers THEN FirstSnapshot(Head(queue))
                                 ELSE UNCHANGED <<stream, shown>>
  /\ TrackerUnchanged /\ UNCHANGED <<deploys, crashes>>

Free(c) == serving' = serving \ {c}

(* Mutant of Over: only a success ends the stream.                         *)
OverOnSuccess(w) == ~tracker.active /\ stream[w].seen /\ tracker.status = "success"

(* The deploy this stream saw running has ended.                           *)
Over(w) == ~tracker.active /\ stream[w].seen /\ tracker.status \in {"success", "failed"}

Poll(w) ==
  /\ w \in serving
  /\ version # stream[w].last
  /\ shown' = [shown EXCEPT ![w] = tracker]
  /\ stream' = [stream EXCEPT ![w] =
                  [last |-> version, seen |-> stream[w].seen \/ tracker.active]]
  /\ IF Over(w) THEN Free(w) ELSE UNCHANGED serving
  /\ TrackerUnchanged /\ UNCHANGED <<queue, deploys, crashes>>

(* Mutant of Deadline: a stream that saw no deploy has none.               *)
DeadlineOfActive(w) ==
  /\ w \in serving
  /\ stream[w].seen
  /\ Free(w)
  /\ TrackerUnchanged /\ UNCHANGED <<queue, stream, shown, deploys, crashes>>

(* Forty minutes have passed; the tab is told, and closes the stream.      *)
Deadline(w) ==
  /\ w \in serving
  /\ Free(w)
  /\ TrackerUnchanged /\ UNCHANGED <<queue, stream, shown, deploys, crashes>>

(* The log ends with the container, or Docker fails.                       *)
LogEnds(l) ==
  /\ l \in serving
  /\ Free(l)
  /\ TrackerUnchanged /\ UNCHANGED <<queue, stream, shown, deploys, crashes>>

-----------------------------------------------------------------------------
(* The deploy that holds a thread, as the tracker sees it.  Its kind only  *)
(* decides which of two bars a tab draws.                                  *)

(* Which stage follows which.                                              *)
Follows ==
  {<<"", "validate">>, <<"validate", "build">>, <<"build", "candidate_start">>,
   <<"candidate_start", "health_check">>, <<"health_check", "activate">>}

Changed == version' = version + 1
DeployUnchanged == UNCHANGED <<queue, stream, shown, deploys, crashes>>

(* Mutant of BeginDeploy: nobody asks whether a deploy is under way.       *)
BeginDeployAnyhow ==
  /\ Start("git")
  /\ logs' = 0

BeginDeploy ==
  /\ ~IsActive
  /\ Start("git")
  /\ logs' = 0

NextStage ==
  /\ IsActive
  /\ \E stage \in Stages : <<tracker.stage, stage>> \in Follows /\ SetStage(stage)
  /\ logs' = 0

AppendLog ==
  /\ IsActive
  /\ tracker.stage = "health_check"
  /\ logs < MaxLogs
  /\ logs' = logs + 1
  /\ UNCHANGED tracker

EndDeploy ==
  /\ IsActive
  /\ \/ tracker.stage = "activate" /\ FinishSuccess /\ logs' = 0
     \/ FinishFailure /\ UNCHANGED logs
  /\ Free(Deployer)

DeployStep ==
  /\ Deployer \in serving
  /\ \/ (BeginDeploy \/ NextStage \/ AppendLog) /\ UNCHANGED serving
     \/ EndDeploy
  /\ Changed
  /\ DeployUnchanged

(* The dashboard restarts: connections break, the tracker starts anew.     *)
Restart ==
  /\ crashes < MaxCrashes
  /\ crashes' = crashes + 1
  /\ tracker' = TrackerIdle /\ version' = 0 /\ logs' = 0
  /\ queue' = <<>> /\ serving' = {}
  /\ stream' = [w \in Watchers |-> NoStream]
  /\ UNCHANGED <<shown, deploys>>

StreamNext ==
  \/ \E c \in Clients : Request(c)
  \/ Dispatch
  \/ \E w \in Watchers : Poll(w) \/ Deadline(w)
  \/ \E l \in LogReaders : LogEnds(l)
  \/ DeployStep
  \/ Restart

StreamSpec == StreamInit /\ [][StreamNext]_streamVars

(* Threads run, tabs reconnect and deadlines pass.  Nothing makes anybody  *)
(* deploy, a log end, or the dashboard restart.                            *)
StreamFairness ==
  /\ WF_streamVars(Dispatch)
  /\ WF_streamVars(DeployStep)
  /\ \A w \in Watchers :
       WF_streamVars(Request(w)) /\ WF_streamVars(Poll(w)) /\ WF_streamVars(Deadline(w))

FairStreamSpec == StreamSpec /\ StreamFairness

-----------------------------------------------------------------------------
(* Properties.                                                             *)

(* A stream that followed a deploy shows it running: the thread is not     *)
(* held once the tab was told how the deploy ended.                        *)
NoThreadAfterTheEnd ==
  \A w \in Watchers : w \in serving /\ stream[w].seen => shown[w].active

(* As long as log streams leave one thread, a deploy that is asked for     *)
(* while streams hold all the others gets a thread in the end.             *)
DeployGetsThread == Queued(Deployer) ~> ~Queued(Deployer)

(* Every tab shows the current state again and again, the result of the    *)
(* last deploy in the end, whatever it missed while disconnected.          *)
TabsCatchUp == \A w \in Watchers : []<>(shown[w] = tracker)
=============================================================================
