--------------------------- MODULE Deployment_proof ---------------------------
(***************************************************************************)
(* Proofs about the deploy cycle, for every set of requests and revisions, *)
(* every interleaving, failure and crash.                                  *)
(***************************************************************************)
EXTENDS DeploymentProperties, DeployManifest_proof

(* What a request is working on, by where it is.                           *)
NoKind == {"idle", "rolling_back", "rollback_record"}
NoSha == NoKind \cup {"clear", "fill"}
JobOK ==
  \A r \in Requests : /\ pc[r] \notin NoKind => Kind(r) \in Kinds
                      /\ pc[r] \notin NoSha => Sha(r) \in Shas

(* The image of a revision exists from the moment its build was answered,  *)
(* and images are never removed.                                           *)
PastBuild == {"starting", "probing", "discarding", "activating", "record", "finish"}
Built ==
  \A r \in Requests :
    \/ pc[r] \in PastBuild
    \/ pc[r] = "building" /\ call[r].open /\ call[r].at = "ok"
    => images[Sha(r)] # None

TypeInv == TypeOK /\ Coherent(manifest) /\ JobOK

(* The calls a request waits for at each place, and that the call it has   *)
(* open is one of them: by this an answer says where its handler got to.   *)
WaitsFor ==
  [building     |-> {"build", "build_tag"},
   starting     |-> {"candidate_remove", "candidate_create", "candidate_start"},
   probing      |-> {"probe", "healthy", "unhealthy"},
   discarding   |-> {"discard"},
   activating   |-> {"app_remove", "app_create", "app_start", "app_clean"},
   rolling_back |-> {"app_remove", "app_create", "app_start", "app_clean"}]
AnswersMatchCalls ==
  \A r \in Requests :
    call[r].open => /\ pc[r] \in DOMAIN WaitsFor
                    /\ call[r].at \in WaitsFor[pc[r]] \cup {"ok", "error"}
                    /\ call[r].sha = Sha(r)

-----------------------------------------------------------------------------
(* Calls stay well formed.                                                 *)

CallsOK == call \in [Requests -> Calls]

LEMMA OpenTyped ==
  ASSUME CallsOK, NEW r \in Requests, NEW step \in HandlerSteps, NEW sha \in Shas,
         Open(r, step, sha)
  PROVE  CallsOK'
<1>1. [at |-> step, sha |-> sha, open |-> TRUE] \in Calls
  BY DEF Calls
<1>2. QED
  BY <1>1 DEF CallsOK, Open

LEMMA ConsumeTyped ==
  ASSUME CallsOK, NEW r \in Requests, Consume(r)
  PROVE  CallsOK'
<1>1. NoCall \in Calls
  BY DEF Calls
<1>2. QED
  BY <1>1 DEF CallsOK, Consume

LEMMA HandlerCall ==
  ASSUME CallsOK, NEW r \in Requests, call[r].at \in HandlerSteps
  PROVE  call[r] \in [at : HandlerSteps, sha : Shas, open : BOOLEAN]
<1>1. call[r] \in Calls
  BY DEF CallsOK
<1>2. CASE call[r] \in [at : Answers, sha : Shas, open : {TRUE}]
  <2>1. call[r].at \in Answers
    BY <1>2
  <2>2. QED
    BY <2>1 DEF Answers, HandlerSteps
<1>3. CASE call[r] = NoCall
  BY <1>3 DEF NoCall, HandlerSteps
<1>4. QED
  BY <1>1, <1>2, <1>3 DEF Calls

LEMMA AdvanceTyped ==
  ASSUME CallsOK, NEW r \in Requests, call[r].at \in HandlerSteps,
         NEW step \in HandlerSteps, Advance(r, step)
  PROVE  CallsOK'
<1>1. [call[r] EXCEPT !.at = step] \in [at : HandlerSteps, sha : Shas, open : BOOLEAN]
  BY HandlerCall
<1>2. [call[r] EXCEPT !.at = step] \in Calls
  BY <1>1 DEF Calls
<1>3. QED
  BY <1>2 DEF CallsOK, Advance

LEMMA RespondTyped ==
  ASSUME CallsOK, NEW r \in Requests, call[r].at \in HandlerSteps,
         NEW answer \in Answers, Respond(r, answer)
  PROVE  CallsOK'
<1>1. call[r] \in [at : HandlerSteps, sha : Shas, open : BOOLEAN]
  BY HandlerCall
<1>2. CASE call[r].open
  <2>1. [call[r] EXCEPT !.at = answer] \in [at : Answers, sha : Shas, open : {TRUE}]
    BY <1>1, <1>2
  <2>2. [call[r] EXCEPT !.at = answer] \in Calls
    BY <2>1 DEF Calls
  <2>3. QED
    BY <1>2, <2>2 DEF CallsOK, Respond
<1>3. CASE ~call[r].open
  BY <1>3 DEF CallsOK, Respond, Calls
<1>4. QED
  BY <1>2, <1>3

LEMMA GiveUpTyped ==
  ASSUME CallsOK, NEW r \in Requests, GiveUp(r)
  PROVE  CallsOK'
<1>1. call[r].at \in HandlerSteps /\ call[r].open
  BY DEF GiveUp
<1>2. call[r] \in [at : HandlerSteps, sha : Shas, open : BOOLEAN]
  BY <1>1, HandlerCall
<1>3. [call[r] EXCEPT !.at = "error"] \in [at : Answers, sha : Shas, open : {TRUE}]
  BY <1>1, <1>2 DEF Answers
<1>4. [call[r] EXCEPT !.open = FALSE] \in [at : HandlerSteps, sha : Shas, open : BOOLEAN]
  BY <1>2
<1>5. QED
  BY <1>3, <1>4 DEF CallsOK, GiveUp, Calls

LEMMA CrashTyped ==
  ASSUME CallsOK, DashboardCrash
  PROVE  CallsOK'
<1>1. ASSUME NEW r \in Requests
      PROVE  (IF call[r].at \in HandlerSteps THEN [call[r] EXCEPT !.open = FALSE]
                                             ELSE NoCall) \in Calls
  <2>1. CASE call[r].at \in HandlerSteps
    <3>1. [call[r] EXCEPT !.open = FALSE] \in [at : HandlerSteps, sha : Shas, open : BOOLEAN]
      BY <2>1, HandlerCall
    <3>2. QED
      BY <2>1, <3>1 DEF Calls
  <2>2. CASE call[r].at \notin HandlerSteps
    BY <2>2 DEF Calls
  <2>3. QED
    BY <2>1, <2>2
<1>2. QED
  BY <1>1 DEF CallsOK, DashboardCrash

-----------------------------------------------------------------------------
(* Handlers keep the orchestrator's state well formed.                     *)

LEMMA NewContainerTyped ==
  ASSUME OrchestratorTypeOK, NEW r \in Requests,
         call[r].at \in HandlerSteps, images[call[r].sha] # None
  PROVE  NewContainer(r) \in Containers
<1>1. call[r].sha \in Shas
  BY HandlerCall DEF OrchestratorTypeOK, CallsOK
<1>2. images[call[r].sha] \in Trees
  BY <1>1 DEF OrchestratorTypeOK
<1>3. QED
  BY <1>1, <1>2 DEF NewContainer, Containers

LEMMA StartedTyped ==
  ASSUME NEW r \in Requests, NEW container \in Containers, container.by = r
  PROVE  [container EXCEPT !.running = TRUE] \in Containers
<1>1. container # NoContainer
  BY OrchestratorAssumption DEF NoContainer
<1>2. container \in [by : Requests, sha : Shas, tree : Trees, running : BOOLEAN]
  BY <1>1 DEF Containers
<1>3. QED
  BY <1>2 DEF Containers

LEMMA HandlerTyped ==
  ASSUME OrchestratorTypeOK, NEW r \in Requests, Handler(r)
  PROVE  OrchestratorTypeOK'
<1> USE DEF OrchestratorTypeOK, dockerVars, At
<1>0. CallsOK
  BY DEF CallsOK
<1>1. \A answer \in Answers : call[r].at \in HandlerSteps /\ Respond(r, answer) => CallsOK'
  BY <1>0, RespondTyped
<1>2. \A step \in HandlerSteps : call[r].at \in HandlerSteps /\ Advance(r, step) => CallsOK'
  BY <1>0, AdvanceTyped
<1>3. call[r].at \in HandlerSteps /\ Finish(r) => CallsOK'
  BY <1>1 DEF Finish, Answers
<1>4. NoContainer \in Containers
  BY DEF Containers
<1>5. CASE DockerFails(r)
  BY <1>1, <1>5 DEF DockerFails, CallsOK, Answers
<1>6. CASE BuildRead(r) \/ BuildTag(r)
  <2>1. CASE BuildRead(r)
    <3>1. CallsOK'
      BY <1>2, <2>1 DEF BuildRead, HandlerSteps
    <3>2. QED
      BY <2>1, <3>1 DEF BuildRead, CallsOK
  <2>2. CASE BuildTag(r)
    <3>1. CallsOK'
      BY <1>3, <2>2 DEF BuildTag, HandlerSteps
    <3>2. QED
      BY <2>2, <3>1 DEF BuildTag, CallsOK
  <2>3. QED
    BY <1>6, <2>1, <2>2
<1>7. CASE CandidateRemove(r)
  <2>1. CallsOK'
    BY <1>2, <1>7 DEF CandidateRemove, HandlerSteps
  <2>2. QED
    BY <1>4, <1>7, <2>1 DEF CandidateRemove, CallsOK
<1>8. CASE CandidateCreate(r)
  <2>1. call[r].at \in HandlerSteps
    BY <1>8 DEF CandidateCreate, HandlerSteps
  <2>2. CallsOK'
    BY <1>2, <1>8 DEF CandidateCreate, HandlerSteps
  <2>3. candidate' \in Containers
    BY <1>8, <2>1, NewContainerTyped DEF CandidateCreate
  <2>4. QED
    BY <1>8, <2>2, <2>3 DEF CandidateCreate, CallsOK
<1>9. CASE CandidateStart(r)
  <2>1. CallsOK'
    BY <1>3, <1>9 DEF CandidateStart, HandlerSteps
  <2>2. candidate' \in Containers
    BY <1>9, StartedTyped DEF CandidateStart
  <2>3. QED
    BY <1>9, <2>1, <2>2 DEF CandidateStart, CallsOK
<1>10. CASE ProbeHealthy(r)
  <2>1. CallsOK'
    BY <1>1, <1>10 DEF ProbeHealthy, HandlerSteps, Answers
  <2>2. proved' \subseteq Trees
    BY <1>10, OrchestratorAssumption DEF ProbeHealthy
  <2>3. QED
    BY <1>10, <2>1, <2>2 DEF ProbeHealthy, CallsOK
<1>11. CASE ProbeUnhealthy(r)
  <2>1. CallsOK'
    BY <1>1, <1>11 DEF ProbeUnhealthy, HandlerSteps, Answers
  <2>2. QED
    BY <1>11, <2>1 DEF ProbeUnhealthy, CallsOK
<1>12. CASE Discard(r)
  <2>1. CallsOK'
    BY <1>3, <1>12 DEF Discard, HandlerSteps
  <2>2. QED
    BY <1>4, <1>12, <2>1 DEF Discard, CallsOK
<1>13. CASE AppRemove(r)
  <2>1. CallsOK'
    BY <1>2, <1>13 DEF AppRemove, HandlerSteps
  <2>2. QED
    BY <1>4, <1>13, <2>1 DEF AppRemove, CallsOK
<1>14. CASE AppCreate(r)
  <2>1. call[r].at \in HandlerSteps
    BY <1>14 DEF AppCreate, HandlerSteps
  <2>2. CallsOK'
    BY <1>2, <1>14 DEF AppCreate, HandlerSteps
  <2>3. app' \in Containers
    BY <1>14, <2>1, NewContainerTyped DEF AppCreate
  <2>4. QED
    BY <1>14, <2>2, <2>3 DEF AppCreate, CallsOK
<1>15. CASE AppStart(r)
  <2>1. CallsOK'
    BY <1>2, <1>15 DEF AppStart, HandlerSteps
  <2>2. app' \in Containers
    BY <1>15, StartedTyped DEF AppStart
  <2>3. QED
    BY <1>15, <2>1, <2>2 DEF AppStart, CallsOK
<1>16. CASE AppClean(r)
  <2>1. CallsOK'
    BY <1>3, <1>16 DEF AppClean, HandlerSteps
  <2>2. QED
    BY <1>4, <1>16, <2>1 DEF AppClean, CallsOK
<1>17. QED
  BY <1>5, <1>6, <1>7, <1>8, <1>9, <1>10, <1>11, <1>12, <1>13, <1>14, <1>15, <1>16
     DEF Handler

-----------------------------------------------------------------------------
(* Requests keep everything well formed.                                   *)

OwnTyped ==
  /\ pc \in [Requests -> PcValues]
  /\ job \in [Requests -> Jobs]
  /\ probes \in [Requests -> 0..MaxProbes]
  /\ JobOK

LEMMA ReturnTyped ==
  ASSUME OwnTyped, NEW r \in Requests, NEW here, Return(r, here)
  PROVE  OwnTyped'
<1>1. NoJob \in Jobs
  BY DEF NoJob, Jobs
<1>2. 0 \in 0 .. MaxProbes
  BY DeploymentAssumption
<1>3. QED
  BY <1>1, <1>2 DEF OwnTyped, Return, Goto, PcValues, JobOK, NoKind, NoSha, Kind, Sha

LEMMA TrackerTyped ==
  ASSUME tracker \in TrackerState,
         \/ UNCHANGED tracker
         \/ \E kind \in Kinds : Start(kind)
         \/ \E step \in Stages : SetStage(step)
         \/ FinishSuccess
         \/ FinishFailure
         \/ tracker' = TrackerIdle
  PROVE  tracker' \in TrackerState
<1> DEFINE Percents == 0..100
<1>1. /\ \A step \in Stages : StagePercent[step] \in Percents
      /\ 0 \in Percents
      /\ 100 \in Percents
  BY DEF Stages, StagePercent
<1>0. TrackerState = [active : BOOLEAN, stage : Stages \cup {"", "done", "failed"},
                      percent : Percents, status : {"idle", "running", "success", "failed"},
                      source_kind : Kinds \cup {""}]
  BY DEF TrackerState
<1> HIDE DEF Percents
<1>2. ASSUME NEW step \in Stages, SetStage(step)
      PROVE  tracker' \in TrackerState
  BY <1>0, <1>1, <1>2 DEF SetStage
<1>3. ASSUME NEW kind \in Kinds, Start(kind)
      PROVE  tracker' \in TrackerState
  BY <1>0, <1>1, <1>3 DEF Start
<1>4. CASE FinishSuccess
  BY <1>0, <1>1, <1>4 DEF FinishSuccess
<1>5. CASE FinishFailure
  BY <1>0, <1>1, <1>5 DEF FinishFailure
<1>6. CASE tracker' = TrackerIdle
  BY <1>0, <1>1, <1>6 DEF TrackerIdle
<1>7. QED
  BY <1>2, <1>3, <1>4, <1>5, <1>6

LEMMA ProbesTyped ==
  ASSUME probes \in [Requests -> 0..MaxProbes], NEW r \in Requests,
         \/ probes' = [probes EXCEPT ![r] = 1]
         \/ probes[r] < MaxProbes /\ probes' = [probes EXCEPT ![r] = @ + 1]
  PROVE  probes' \in [Requests -> 0..MaxProbes]
<1>1. 1 \in 0..MaxProbes /\ (probes[r] < MaxProbes => probes[r] + 1 \in 0..MaxProbes)
  BY DeploymentAssumption
<1>2. QED
  BY <1>1

StagingTyped == stage \in [Kinds -> Trees \cup {None}]

LEMMA StageTyped ==
  ASSUME StagingTyped, NEW kind \in Kinds, NEW tree \in Trees \cup {None},
         stage' = [stage EXCEPT ![kind] = tree]
  PROVE  StagingTyped'
  BY DEF StagingTyped

LEMMA JobTyped ==
  ASSUME OwnTyped, NEW r \in Requests, NEW kind \in Kinds, NEW sha \in Shas,
         pc[r] = "fill", pc' = [pc EXCEPT ![r] = "start"], UNCHANGED probes,
         job' = [job EXCEPT ![r] = [kind |-> kind, sha |-> sha]]
  PROVE  OwnTyped'
<1>1. [kind |-> kind, sha |-> sha] \in Jobs
  BY DEF Jobs
<1>2. job' \in [Requests -> Jobs]
  BY <1>1 DEF OwnTyped
<1>3. pc' \in [Requests -> PcValues]
  BY DEF OwnTyped, PcValues
<1>4. JobOK'
  BY DEF OwnTyped, JobOK, Kind, Sha, NoKind, NoSha
<1>5. QED
  BY <1>2, <1>3, <1>4 DEF OwnTyped

LEMMA RequestTyped ==
  ASSUME TypeInv, NEW r \in Requests, RequestStep(r)
  PROVE  TypeInv'
<1> USE DEF TypeInv, TypeOK, OrchestratorTypeOK, JobOK, Kind, Sha, Jobs, NoJob, PcValues,
            InsideDeploy, NoKind, NoSha, Kinds, StagingUnchanged, WorkUnchanged,
            CallsUnchanged, dockerVars, Trees, ManifestTypeOK
<1>1. CallsOK /\ OwnTyped /\ (UNCHANGED call => CallsOK')
  BY DEF CallsOK, OwnTyped
<1>2. StagingTyped
  BY DEF StagingTyped
<1>3. CASE ClearStage(r)
  <2>1. PICK left \in Leftovers(Kind(r)) : stage' = [stage EXCEPT ![Kind(r)] = left]
    BY <1>3 DEF ClearStage
  <2>2. Kind(r) \in Kinds
    BY <1>3 DEF ClearStage, Goto
  <2>3. left \in Trees \cup {None}
    <3>1. stage[Kind(r)] \in Trees \cup {None}
      BY <1>2, <2>2 DEF StagingTyped
    <3>2. left \in {None, stage[Kind(r)], Torn}
      BY <2>1 DEF Leftovers
    <3>3. QED
      BY <3>1, <3>2
  <2>4. StagingTyped'
    BY <1>2, <2>1, <2>2, <2>3, StageTyped
  <2>5. QED
    BY <1>3, <2>4 DEF ClearStage, Goto, StagingTyped
<1>4. CASE FillFromGit(r)
  <2>1. PICK c \in Commits :
          /\ stage' = [stage EXCEPT !["git"] = c]
          /\ job' = [job EXCEPT ![r] = [kind |-> "git", sha |-> c]]
    BY <1>4 DEF FillFromGit
  <2>2. c \in Shas /\ "git" \in Kinds
    BY DeploymentAssumption
  <2>3. OwnTyped'
    BY <1>1, <1>4, <2>1, <2>2, JobTyped DEF FillFromGit, Goto
  <2>4. StagingTyped'
    BY <1>2, <2>1, <2>2, StageTyped
  <2>5. QED
    BY <1>4, <2>3, <2>4 DEF FillFromGit, OwnTyped, StagingTyped
<1>5. CASE FillFromUpload(r)
  <2>1. PICK u \in fresh :
          /\ stage' = [stage EXCEPT !["upload"] = IF @ = None THEN u ELSE Torn]
          /\ job' = [job EXCEPT ![r] = [kind |-> "upload", sha |-> u]]
          /\ fresh' = fresh \ {u}
    BY <1>5 DEF FillFromUpload
  <2>2. u \in Shas /\ "upload" \in Kinds
    BY DeploymentAssumption
  <2>3. OwnTyped'
    BY <1>1, <1>5, <2>1, <2>2, JobTyped DEF FillFromUpload, Goto
  <2>4. StagingTyped'
    BY <1>2, <2>1, <2>2, StageTyped
  <2>5. QED
    BY <1>5, <2>1, <2>3, <2>4 DEF FillFromUpload, OwnTyped, StagingTyped
<1>6. CASE FillFails(r)
  <2>1. OwnTyped'
    BY <1>1, <1>6, ReturnTyped DEF FillFails
  <2>2. StagingTyped'
    BY <1>2, <1>6, StageTyped DEF FillFails, Return, Goto
  <2>3. QED
    BY <1>6, <2>1, <2>2 DEF FillFails, OwnTyped, StagingTyped
<1>7. CASE BeginProgress(r)
  BY <1>7, TrackerTyped DEF BeginProgress, Goto
<1>8. CASE FindProfile(r)
  BY <1>8, TrackerTyped DEF FindProfile, Goto, Stages, StagePercent
<1>9. CASE Accept(r)
  BY <1>9 DEF Accept, Goto
<1>10. CASE Reject(r)
  <2>1. PICK left \in Leftovers(Kind(r)) : stage' = [stage EXCEPT ![Kind(r)] = left]
    BY <1>10 DEF Reject
  <2>2. Kind(r) \in Kinds
    BY <1>10 DEF Reject, Goto
  <2>3. left \in Trees \cup {None}
    <3>1. stage[Kind(r)] \in Trees \cup {None}
      BY <1>2, <2>2 DEF StagingTyped
    <3>2. left \in {None, stage[Kind(r)], Torn}
      BY <2>1 DEF Leftovers
    <3>3. QED
      BY <3>1, <3>2
  <2>4. StagingTyped'
    BY <1>2, <2>1, <2>2, <2>3, StageTyped
  <2>5. QED
    BY <1>10, <2>4 DEF Reject, Goto, StagingTyped
<1>11. CASE WipeSource(r)
  BY <1>11 DEF WipeSource, Goto
<1>12. CASE MoveStage(r)
  BY <1>12 DEF MoveStage, Goto
<1>13. CASE MoveFails(r)
  <2>1. CASE UNCHANGED <<source, stage>>
    BY <1>13, <2>1 DEF MoveFails, Goto
  <2>2. CASE source' = Torn /\ stage' = [stage EXCEPT ![Kind(r)] = Torn]
    <3>1. StagingTyped'
      BY <1>2, <1>13, <2>2, StageTyped DEF MoveFails, Goto
    <3>2. QED
      BY <1>13, <2>2, <3>1 DEF MoveFails, Goto, StagingTyped
  <2>3. QED
    BY <1>13, <2>1, <2>2 DEF MoveFails
<1>14. CASE RequestBuild(r)
  <2>1. CallsOK'
    BY <1>1, <1>14, OpenTyped DEF RequestBuild, Goto, HandlerSteps
  <2>2. QED
    BY <1>14, TrackerTyped, <2>1 DEF RequestBuild, Goto, Stages, StagePercent, CallsOK
<1>15. CASE BuildDone(r)
  <2>1. CallsOK'
    BY <1>1, <1>15, OpenTyped, ConsumeTyped DEF BuildDone, Goto, HandlerSteps
  <2>2. QED
    BY <1>15, TrackerTyped, <2>1 DEF BuildDone, Goto, Stages, StagePercent, CallsOK
<1>16. CASE CandidateDone(r)
  <2>1. CallsOK'
    BY <1>1, <1>16, OpenTyped, ConsumeTyped DEF CandidateDone, Goto, HandlerSteps
  <2>2. probes' \in [Requests -> 0..MaxProbes]
    BY <1>16, ProbesTyped DEF CandidateDone
  <2>3. tracker' \in TrackerState
    BY <1>16, TrackerTyped DEF CandidateDone, Stages, StagePercent
  <2>4. QED
    BY <1>16, <2>1, <2>2, <2>3 DEF CandidateDone, Goto, CallsOK
<1>17. CASE Healthy(r)
  <2>1. CallsOK'
    BY <1>1, <1>17, OpenTyped DEF Healthy, Goto, HandlerSteps
  <2>2. QED
    BY <1>17, TrackerTyped, <2>1 DEF Healthy, Goto, Stages, StagePercent, CallsOK
<1>18. CASE ProbeAgain(r)
  <2>1. CallsOK'
    BY <1>1, <1>18, OpenTyped DEF ProbeAgain, HandlerSteps
  <2>2. probes' \in [Requests -> 0..MaxProbes]
    BY <1>18, ProbesTyped DEF ProbeAgain
  <2>3. QED
    BY <1>18, <2>1, <2>2 DEF ProbeAgain, CallsOK
<1>19. CASE Unhealthy(r)
  <2>1. CallsOK'
    BY <1>1, <1>19, OpenTyped DEF Unhealthy, Goto, HandlerSteps
  <2>2. QED
    BY <1>19, <2>1 DEF Unhealthy, Goto, CallsOK
<1>20. CASE Discarded(r)
  <2>1. CallsOK'
    BY <1>1, <1>20, ConsumeTyped DEF Discarded, Goto, HandlerSteps
  <2>2. QED
    BY <1>20, <2>1 DEF Discarded, Goto, CallsOK
<1>21. CASE Activated(r)
  <2>1. CallsOK'
    BY <1>1, <1>21, ConsumeTyped DEF Activated, Goto, HandlerSteps
  <2>2. QED
    BY <1>21, <2>1 DEF Activated, Goto, CallsOK
<1>22. CASE Record(r)
  <2>1. Coherent(manifest')
    BY <1>22, SuccessKeepsCoherent DEF Record, Goto, NoSha, NoKind
  <2>2. ManifestTypeOK'
    BY <2>1 DEF Coherent, ManifestTypeOK
  <2>3. QED
    BY <1>22, <2>1, <2>2 DEF Record, Goto
<1>23. CASE NoteFailure(r)
  <2>1. Coherent(manifest')
    BY <1>23, FailureKeepsCoherent DEF NoteFailure, Goto, NoSha, NoKind
  <2>2. ManifestTypeOK'
    BY <2>1 DEF Coherent, ManifestTypeOK
  <2>3. QED
    BY <1>23, <2>1, <2>2 DEF NoteFailure, Goto
<1>24. CASE EndProgress(r)
  <2>1. OwnTyped'
    BY <1>1, <1>24, ReturnTyped DEF EndProgress
  <2>2. QED
    BY <1>24, TrackerTyped, <2>1 DEF EndProgress, OwnTyped
<1>25. CASE RollbackActivated(r)
  <2>1. CallsOK'
    BY <1>1, <1>25, ConsumeTyped DEF RollbackActivated, Goto, HandlerSteps
  <2>2. QED
    BY <1>25, <2>1 DEF RollbackActivated, Goto, CallsOK
<1>26. CASE RollbackFails(r)
  <2>1. CallsOK'
    BY <1>1, <1>26, ConsumeTyped DEF RollbackFails
  <2>2. OwnTyped'
    BY <1>1, <1>26, ReturnTyped DEF RollbackFails
  <2>3. QED
    BY <1>26, <2>1, <2>2 DEF RollbackFails, OwnTyped, CallsOK
<1>27. CASE RollbackRecord(r)
  <2>1. Coherent(manifest')
    BY <1>27, RollbackKeepsCoherent DEF RollbackRecord, Goto, NoSha, NoKind
  <2>2. ManifestTypeOK'
    BY <2>1 DEF Coherent, ManifestTypeOK
  <2>3. OwnTyped'
    BY <1>1, <1>27, ReturnTyped DEF RollbackRecord
  <2>4. QED
    BY <1>27, <2>1, <2>2, <2>3 DEF RollbackRecord, OwnTyped
<1>28. QED
  BY <1>3, <1>4, <1>5, <1>6, <1>7, <1>8, <1>9, <1>10, <1>11, <1>12, <1>13, <1>14,
     <1>15, <1>16, <1>17, <1>18, <1>19, <1>20, <1>21, <1>22, <1>23, <1>24, <1>25,
     <1>26, <1>27 DEF RequestStep

-----------------------------------------------------------------------------
(* Every step keeps everything well formed.                                *)

LEMMA PreviousTag ==
  ASSUME Coherent(manifest), manifest.previous # None
  PROVE  manifest.previous.tag \in Shas
<1>1. manifest.previous \in DeploymentRecord /\ manifest.previous.tag = manifest.previous.sha
  BY DEF Coherent, TargetsActive, DeployState
<1>2. QED
  BY <1>1 DEF DeploymentRecord

LEMMA IdleTyped ==
  /\ NoJob \in Jobs
  /\ 0 \in 0..MaxProbes
  /\ "idle" \in PcValues \cap NoKind \cap NoSha
  /\ TrackerIdle \in TrackerState
<1>1. NoJob \in Jobs
  BY DEF NoJob, Jobs
<1>2. 0 \in 0..MaxProbes /\ 0 \in 0..100
  BY DeploymentAssumption
<1>3. TrackerIdle \in TrackerState
  BY <1>2 DEF TrackerIdle, TrackerState
<1>4. QED
  BY <1>1, <1>2, <1>3 DEF PcValues, NoKind, NoSha

LEMMA StepTyped ==
  ASSUME TypeInv, [Next]_vars
  PROVE  TypeInv'
<1> USE DEF TypeInv, TypeOK, dockerVars, ownVars
<1>1. CallsOK /\ OwnTyped
  BY DEF OrchestratorTypeOK, CallsOK, OwnTyped
<1>2. ASSUME NEW r \in Requests, NEW kind \in Kinds, Admit(r, kind)
      PROVE  TypeInv'
  <2>1. [kind |-> kind, sha |-> None] \in Jobs
    BY DEF Jobs
  <2>2. OwnTyped'
    BY <1>1, <1>2, <2>1 DEF Admit, Goto, OwnTyped, PcValues, JobOK, Kind, Sha, NoKind, NoSha
  <2>3. QED
    BY <1>2, <2>2 DEF Admit, OwnTyped, StagingUnchanged, CallsUnchanged,
                      OrchestratorTypeOK, ManifestTypeOK
<1>3. ASSUME NEW r \in Requests, RollbackBegin(r)
      PROVE  TypeInv'
  <2>1. manifest.previous.tag \in Shas
    BY <1>3, PreviousTag DEF RollbackBegin
  <2>2. CallsOK'
    BY <1>1, <1>3, <2>1, OpenTyped DEF RollbackBegin, HandlerSteps
  <2>3. [kind |-> "rollback", sha |-> manifest.previous.tag] \in Jobs
    BY <2>1 DEF Jobs
  <2>4. OwnTyped'
    BY <1>1, <1>3, <2>3 DEF RollbackBegin, Goto, OwnTyped, PcValues, JobOK, Kind, Sha,
                            NoKind, NoSha
  <2>5. QED
    BY <1>3, <2>2, <2>4 DEF RollbackBegin, OwnTyped, CallsOK, StagingUnchanged,
                            OrchestratorTypeOK, ManifestTypeOK
<1>4. ASSUME NEW r \in Requests, HandlerStep(r)
      PROVE  TypeInv'
  <2>1. OrchestratorTypeOK'
    BY <1>4, HandlerTyped DEF HandlerStep
  <2>2. QED
    BY <1>4, <2>1 DEF HandlerStep, ManifestTypeOK, JobOK, Kind, Sha
<1>5. ASSUME NEW r \in Requests, GiveUp(r), UNCHANGED <<ownVars, manifest, tracker>>
      PROVE  TypeInv'
  <2>1. CallsOK'
    BY <1>1, <1>5, GiveUpTyped
  <2>2. QED
    BY <1>5, <2>1 DEF GiveUp, CallsOK, OrchestratorTypeOK, ManifestTypeOK, JobOK, Kind, Sha
<1>6. ASSUME NEW running \in BOOLEAN, OperateApp(running),
             UNCHANGED <<ownVars, manifest, tracker>>
      PROVE  TypeInv'
  <2>1. app \in [by : Requests, sha : Shas, tree : Trees, running : BOOLEAN]
    BY <1>6 DEF OperateApp, OrchestratorTypeOK, Containers
  <2>2. app' \in Containers
    BY <1>6, <2>1 DEF OperateApp, Containers
  <2>3. QED
    BY <1>6, <2>2 DEF OperateApp, OrchestratorTypeOK, ManifestTypeOK, JobOK, Kind, Sha
<1>7. CASE DashboardCrash
  <2>1. CallsOK'
    BY <1>1, <1>7, CrashTyped
  <2>2. tracker' \in TrackerState
    BY <1>7, TrackerTyped DEF DashboardCrash
  <2>3. OwnTyped'
    BY <1>7, IdleTyped DEF DashboardCrash, OwnTyped, JobOK
  <2>4. QED
    BY <1>7, <2>1, <2>2, <2>3 DEF DashboardCrash, CallsOK, OwnTyped, StagingUnchanged,
                                  OrchestratorTypeOK, ManifestTypeOK
<1>8. CASE UNCHANGED vars
  BY <1>8 DEF vars, OrchestratorTypeOK, ManifestTypeOK, JobOK, Kind, Sha
<1>9. QED
  BY <1>2, <1>3, <1>4, <1>5, <1>6, <1>7, <1>8, RequestTyped DEF Next, Arrival, Work

LEMMA InitTyped == Init => TypeInv
<1> SUFFICES ASSUME Init PROVE TypeInv
  OBVIOUS
<1>1. Coherent(manifest) /\ ManifestTypeOK
  BY EmptyCoherent DEF Init, ManifestInit, Coherent, ManifestTypeOK
<1>2. tracker \in TrackerState
  BY IdleTyped DEF Init, TrackerInit
<1>3. OrchestratorTypeOK
  BY DEF Init, OrchestratorInit, OrchestratorTypeOK, Calls, Containers
<1>4. OwnTyped
  BY IdleTyped DEF Init, OwnTyped, JobOK
<1>5. QED
  BY <1>1, <1>2, <1>3, <1>4 DEF Init, TypeInv, TypeOK, OwnTyped

(* Every variable keeps its type, for any number of requests, revisions,   *)
(* probes and history entries.                                             *)
THEOREM DeploymentTyped == Spec => []TypeOK
<1>1. Init => TypeInv
  BY InitTyped
<1>2. TypeInv /\ [Next]_vars => TypeInv'
  BY StepTyped
<1>3. TypeInv => TypeOK
  BY DEF TypeInv
<1>4. QED
  BY <1>1, <1>2, <1>3, PTL DEF Spec

(* What the manifest module promises of the document alone survives the    *)
(* deploys that write it: overlapping ones, and ones cut off by a crash.   *)
THEOREM ManifestCoherentUnderDeploys ==
  Spec => [](CurrentIsLastActive /\ PreviousIsActiveBefore /\ TargetsAreActive)
<1>1. Init => TypeInv
  BY InitTyped
<1>2. TypeInv /\ [Next]_vars => TypeInv'
  BY StepTyped
<1>3. TypeInv => CurrentIsLastActive /\ PreviousIsActiveBefore /\ TargetsAreActive
  BY DEF TypeInv, Coherent, CurrentIsLastActive, PreviousIsActiveBefore, TargetsAreActive
<1>4. QED
  BY <1>1, <1>2, <1>3, PTL DEF Spec

-----------------------------------------------------------------------------
(* A request waits for the answer of its own call.                         *)

Matched(r) ==
  call[r].open => /\ pc[r] \in DOMAIN WaitsFor
                  /\ call[r].at \in WaitsFor[pc[r]] \cup {"ok", "error"}
                  /\ call[r].sha = Sha(r)

(* It is enough to look at the request that takes the step.                *)
LEMMA OthersMatched ==
  ASSUME TypeInv, AnswersMatchCalls, NEW r \in Requests, Matched(r)',
         \A q \in Requests \ {r} : call'[q] = call[q] /\ pc'[q] = pc[q] /\ job'[q] = job[q]
  PROVE  AnswersMatchCalls'
  BY DEF AnswersMatchCalls, Matched, Sha

(* A request between calls has none open.                                  *)
LEMMA MatchedAside ==
  ASSUME TypeInv, AnswersMatchCalls, NEW r \in Requests, pc[r] \notin DOMAIN WaitsFor,
         UNCHANGED call,
         \A q \in Requests \ {r} : pc'[q] = pc[q] /\ job'[q] = job[q]
  PROVE  AnswersMatchCalls'
<1>1. ~call[r].open
  BY DEF AnswersMatchCalls
<1>2. Matched(r)'
  BY <1>1 DEF Matched
<1>3. QED
  BY <1>2, OthersMatched

LEMMA MatchedOpen ==
  ASSUME TypeInv, AnswersMatchCalls, NEW r \in Requests, NEW step, NEW sha,
         Open(r, step, sha), job'[r].sha = sha,
         pc'[r] \in DOMAIN WaitsFor, step \in WaitsFor[pc'[r]],
         \A q \in Requests \ {r} : pc'[q] = pc[q] /\ job'[q] = job[q]
  PROVE  AnswersMatchCalls'
<1>1. call \in [Requests -> Calls]
  BY DEF TypeInv, TypeOK, OrchestratorTypeOK
<1>2. call'[r] = [at |-> step, sha |-> sha, open |-> TRUE]
  BY <1>1 DEF Open
<1>3. \A q \in Requests \ {r} : call'[q] = call[q]
  BY <1>1 DEF Open
<1>4. Matched(r)'
  BY <1>2 DEF Matched, Sha
<1>5. QED
  BY <1>3, <1>4, OthersMatched

LEMMA MatchedConsumed ==
  ASSUME TypeInv, AnswersMatchCalls, NEW r \in Requests, Consume(r),
         \A q \in Requests \ {r} : pc'[q] = pc[q] /\ job'[q] = job[q]
  PROVE  AnswersMatchCalls'
<1>1. call \in [Requests -> Calls]
  BY DEF TypeInv, TypeOK, OrchestratorTypeOK
<1>2. ~call'[r].open
  BY <1>1 DEF Consume, NoCall
<1>3. \A q \in Requests \ {r} : call'[q] = call[q]
  BY <1>1 DEF Consume
<1>4. Matched(r)'
  BY <1>2 DEF Matched
<1>5. QED
  BY <1>3, <1>4, OthersMatched

(* A handler moves on within what its caller waits for.                    *)
LEMMA MatchedHandled ==
  ASSUME TypeInv, AnswersMatchCalls, NEW r \in Requests, HandlerStep(r)
  PROVE  AnswersMatchCalls'
<1>1. call \in [Requests -> Calls]
  BY DEF TypeInv, TypeOK, OrchestratorTypeOK
<1>2. UNCHANGED <<pc, job>>
  BY DEF HandlerStep, ownVars
<1>3. call[r].at \in HandlerSteps
  BY DEF HandlerStep, Handler, DockerFails, BuildRead, BuildTag, CandidateRemove, CandidateCreate,
         CandidateStart, ProbeHealthy, ProbeUnhealthy, Discard, AppRemove, AppCreate,
         AppStart, AppClean, At, HandlerSteps
<1>4. Matched(r)
  BY DEF Matched, AnswersMatchCalls
<1>5. \E x : /\ \/ Advance(r, x)
                \/ Respond(r, x)
             /\ call[r].open => x \in WaitsFor[pc[r]] \cup {"ok", "error"}
  <2>1. CASE DockerFails(r)
    BY <2>1 DEF DockerFails
  <2>2. CASE BuildRead(r) \/ BuildTag(r)
    BY <2>2, <1>4 DEF BuildRead, BuildTag, Finish, At, Matched, WaitsFor
  <2>3. CASE CandidateRemove(r)
    BY <2>3, <1>4 DEF CandidateRemove, At, Matched, WaitsFor
  <2>4. CASE CandidateCreate(r)
    BY <2>4, <1>4 DEF CandidateCreate, At, Matched, WaitsFor
  <2>5. CASE CandidateStart(r)
    BY <2>5 DEF CandidateStart, Finish
  <2>6. CASE ProbeHealthy(r)
    BY <2>6, <1>4 DEF ProbeHealthy, At, Matched, WaitsFor
  <2>7. CASE ProbeUnhealthy(r)
    BY <2>7, <1>4 DEF ProbeUnhealthy, At, Matched, WaitsFor
  <2>8. CASE Discard(r)
    BY <2>8 DEF Discard, Finish
  <2>9. CASE AppRemove(r)
    BY <2>9, <1>4 DEF AppRemove, At, Matched, WaitsFor
  <2>10. CASE AppCreate(r)
    BY <2>10, <1>4 DEF AppCreate, At, Matched, WaitsFor
  <2>11. CASE AppStart(r)
    BY <2>11, <1>4 DEF AppStart, At, Matched, WaitsFor
  <2>12. CASE AppClean(r)
    BY <2>12 DEF AppClean, Finish
  <2>13. QED
    BY <2>1, <2>2, <2>3, <2>4, <2>5, <2>6, <2>7, <2>8, <2>9, <2>10, <2>11, <2>12
       DEF HandlerStep, Handler
<1>6. PICK x : /\ Advance(r, x) \/ Respond(r, x)
               /\ call[r].open => x \in WaitsFor[pc[r]] \cup {"ok", "error"}
  BY <1>5
<1>7. \A q \in Requests \ {r} : call'[q] = call[q]
  BY <1>1, <1>6 DEF Advance, Respond
<1>8. call[r] \in [at : HandlerSteps, sha : Shas, open : BOOLEAN]
  BY <1>1, <1>3, HandlerCall DEF CallsOK
<1>9. \/ call'[r] = NoCall
      \/ /\ call'[r].at = x
         /\ call'[r].sha = call[r].sha
         /\ call'[r].open = call[r].open
  BY <1>1, <1>6, <1>8 DEF Advance, Respond
<1>10. Matched(r)'
  <2>1. CASE call'[r] = NoCall
    BY <2>1 DEF Matched, NoCall
  <2>2. CASE call'[r].at = x /\ call'[r].sha = call[r].sha /\ call'[r].open = call[r].open
    <3>1. pc'[r] = pc[r] /\ Sha(r)' = Sha(r)
      BY <1>2 DEF Sha
    <3>2. QED
      BY <1>4, <1>6, <2>2, <3>1 DEF Matched
  <2>3. QED
    BY <1>9, <2>1, <2>2
<1>11. QED
  BY <1>2, <1>7, <1>10, OthersMatched

LEMMA GotoFrame ==
  ASSUME TypeInv, NEW r \in Requests, NEW here, NEW there, Goto(r, here, there)
  PROVE  /\ pc[r] = here
         /\ pc'[r] = there
         /\ \A q \in Requests \ {r} : pc'[q] = pc[q]
  BY DEF TypeInv, TypeOK, Goto

LEMMA ReturnFrame ==
  ASSUME TypeInv, NEW r \in Requests, NEW here, Return(r, here)
  PROVE  /\ pc[r] = here
         /\ pc'[r] = "idle"
         /\ \A q \in Requests \ {r} : pc'[q] = pc[q] /\ job'[q] = job[q]
  BY GotoFrame DEF TypeInv, TypeOK, Return

LEMMA RequestMatched ==
  ASSUME TypeInv, AnswersMatchCalls, NEW r \in Requests, RequestStep(r)
  PROVE  AnswersMatchCalls'
<1> USE DEF WorkUnchanged, StagingUnchanged, CallsUnchanged
<1>1. job \in [Requests -> Jobs]
  BY DEF TypeInv, TypeOK
<1>2. CASE ClearStage(r)
  BY <1>1, <1>2, GotoFrame, MatchedAside DEF ClearStage, WaitsFor
<1>3. CASE FillFromGit(r)
  BY <1>1, <1>3, GotoFrame, MatchedAside DEF FillFromGit, WaitsFor
<1>4. CASE FillFromUpload(r)
  BY <1>1, <1>4, GotoFrame, MatchedAside DEF FillFromUpload, WaitsFor
<1>5. CASE FillFails(r)
  BY <1>1, <1>5, ReturnFrame, MatchedAside DEF FillFails, WaitsFor
<1>6. CASE BeginProgress(r)
  BY <1>1, <1>6, GotoFrame, MatchedAside DEF BeginProgress, WaitsFor
<1>7. CASE FindProfile(r)
  BY <1>1, <1>7, GotoFrame, MatchedAside DEF FindProfile, WaitsFor
<1>8. CASE Accept(r)
  BY <1>1, <1>8, GotoFrame, MatchedAside DEF Accept, WaitsFor
<1>9. CASE Reject(r)
  BY <1>1, <1>9, GotoFrame, MatchedAside DEF Reject, WaitsFor
<1>10. CASE WipeSource(r)
  BY <1>1, <1>10, GotoFrame, MatchedAside DEF WipeSource, WaitsFor
<1>11. CASE MoveStage(r)
  BY <1>1, <1>11, GotoFrame, MatchedAside DEF MoveStage, WaitsFor
<1>12. CASE MoveFails(r)
  BY <1>1, <1>12, GotoFrame, MatchedAside DEF MoveFails, WaitsFor
<1>13. CASE RequestBuild(r)
  <2>1. CASE Goto(r, "env", "building") /\ Open(r, "build", Sha(r))
    BY <1>13, <2>1, GotoFrame, MatchedOpen DEF RequestBuild, WaitsFor, Sha
  <2>2. CASE Goto(r, "env", "fail") /\ UNCHANGED call
    BY <1>13, <2>2, GotoFrame, MatchedAside DEF RequestBuild, WaitsFor
  <2>3. QED
    BY <1>13, <2>1, <2>2 DEF RequestBuild
<1>14. CASE BuildDone(r)
  <2>1. CASE Goto(r, "building", "starting") /\ Open(r, "candidate_remove", Sha(r))
    BY <1>14, <2>1, GotoFrame, MatchedOpen DEF BuildDone, WaitsFor, Sha
  <2>2. CASE Goto(r, "building", "record_failure") /\ Consume(r)
    BY <1>14, <2>2, GotoFrame, MatchedConsumed DEF BuildDone
  <2>3. QED
    BY <1>14, <2>1, <2>2 DEF BuildDone
<1>15. CASE CandidateDone(r)
  <2>1. CASE Goto(r, "starting", "probing") /\ Open(r, "probe", Sha(r))
    BY <1>15, <2>1, GotoFrame, MatchedOpen DEF CandidateDone, WaitsFor, Sha
  <2>2. CASE Goto(r, "starting", "record_failure") /\ Consume(r)
    BY <1>15, <2>2, GotoFrame, MatchedConsumed DEF CandidateDone
  <2>3. QED
    BY <1>15, <2>1, <2>2 DEF CandidateDone
<1>16. CASE Healthy(r)
  BY <1>16, GotoFrame, MatchedOpen DEF Healthy, WaitsFor, Sha
<1>17. CASE ProbeAgain(r)
  BY <1>17, MatchedOpen DEF ProbeAgain, WaitsFor, Sha
<1>18. CASE Unhealthy(r)
  BY <1>18, GotoFrame, MatchedOpen DEF Unhealthy, WaitsFor, Sha
<1>19. CASE Discarded(r)
  BY <1>19, GotoFrame, MatchedConsumed DEF Discarded
<1>20. CASE Activated(r)
  BY <1>20, GotoFrame, MatchedConsumed DEF Activated
<1>21. CASE Record(r)
  BY <1>1, <1>21, GotoFrame, MatchedAside DEF Record, WaitsFor
<1>22. CASE NoteFailure(r)
  BY <1>1, <1>22, GotoFrame, MatchedAside DEF NoteFailure, WaitsFor
<1>23. CASE EndProgress(r)
  BY <1>1, <1>23, ReturnFrame, MatchedAside DEF EndProgress, WaitsFor
<1>24. CASE RollbackActivated(r)
  BY <1>24, GotoFrame, MatchedConsumed DEF RollbackActivated
<1>25. CASE RollbackFails(r)
  BY <1>25, ReturnFrame, MatchedConsumed DEF RollbackFails
<1>26. CASE RollbackRecord(r)
  BY <1>1, <1>26, ReturnFrame, MatchedAside DEF RollbackRecord, WaitsFor
<1>27. QED
  BY <1>2, <1>3, <1>4, <1>5, <1>6, <1>7, <1>8, <1>9, <1>10, <1>11, <1>12, <1>13, <1>14,
     <1>15, <1>16, <1>17, <1>18, <1>19, <1>20, <1>21, <1>22, <1>23, <1>24, <1>25, <1>26
     DEF RequestStep

LEMMA StepMatched ==
  ASSUME TypeInv, AnswersMatchCalls, [Next]_vars
  PROVE  AnswersMatchCalls'
<1>1. call \in [Requests -> Calls] /\ job \in [Requests -> Jobs]
  BY DEF TypeInv, TypeOK, OrchestratorTypeOK
<1>2. ASSUME NEW r \in Requests, NEW kind \in Kinds, Admit(r, kind)
      PROVE  AnswersMatchCalls'
  BY <1>1, <1>2, GotoFrame, MatchedAside DEF Admit, WaitsFor, CallsUnchanged
<1>3. ASSUME NEW r \in Requests, RollbackBegin(r)
      PROVE  AnswersMatchCalls'
  BY <1>1, <1>3, GotoFrame, MatchedOpen DEF RollbackBegin, WaitsFor
<1>4. ASSUME NEW r \in Requests, GiveUp(r), UNCHANGED ownVars
      PROVE  AnswersMatchCalls'
  <2>1. Matched(r)' /\ UNCHANGED <<pc, job>>
    BY <1>1, <1>4 DEF GiveUp, ownVars, AnswersMatchCalls, Matched, Sha
  <2>2. \A q \in Requests \ {r} : call'[q] = call[q]
    BY <1>1, <1>4 DEF GiveUp
  <2>3. QED
    BY <2>1, <2>2, OthersMatched
<1>5. CASE DashboardCrash
  <2>1. \A r \in Requests : ~call'[r].open
    <3>1. SUFFICES ASSUME NEW r \in Requests PROVE ~call'[r].open
      OBVIOUS
    <3>2. CASE call[r].at \in HandlerSteps
      <4>1. call[r] \in [at : HandlerSteps, sha : Shas, open : BOOLEAN]
        BY <1>1, <3>2, HandlerCall DEF CallsOK
      <4>2. QED
        BY <1>5, <3>2, <4>1 DEF DashboardCrash
    <3>3. CASE call[r].at \notin HandlerSteps
      BY <1>5, <3>3 DEF DashboardCrash, NoCall
    <3>4. QED
      BY <3>2, <3>3
  <2>2. QED
    BY <2>1 DEF AnswersMatchCalls
<1>6. CASE UNCHANGED <<pc, job, call>>
  BY <1>6 DEF AnswersMatchCalls, Sha
<1>7. QED
  BY <1>2, <1>3, <1>4, <1>5, <1>6, RequestMatched, MatchedHandled
     DEF Next, Arrival, Work, vars, ownVars, OperateApp

-----------------------------------------------------------------------------
(* What the manifest names has been built.                                 *)

AwaitsNothingBuilt(r) ==
  ~(pc[r] \in PastBuild \/ (pc[r] = "building" /\ call[r].open /\ call[r].at = "ok"))

BuiltAt(r) == AwaitsNothingBuilt(r) \/ images[Sha(r)] # None

LEMMA BuiltForAll == Built <=> \A r \in Requests : BuiltAt(r)
  BY DEF Built, BuiltAt, AwaitsNothingBuilt

(* A build that has read its context has one.                              *)
ContextRead == \A r \in Requests : call[r].at = "build_tag" => context[r] # None

LEMMA ContextAside ==
  ASSUME TypeInv, ContextRead, UNCHANGED context, NEW r \in Requests,
         NEW step, step # "build_tag", NEW sha,
         Open(r, step, sha) \/ Consume(r) \/ UNCHANGED call
  PROVE  ContextRead'
<1>1. call \in [Requests -> Calls]
  BY DEF TypeInv, TypeOK, OrchestratorTypeOK
<1>2. CASE Open(r, step, sha)
  BY <1>1, <1>2 DEF Open, ContextRead
<1>3. CASE Consume(r)
  BY <1>1, <1>3 DEF Consume, ContextRead, NoCall
<1>4. CASE UNCHANGED call
  BY <1>4 DEF ContextRead
<1>5. QED
  BY <1>2, <1>3, <1>4

LEMMA HandlerContext ==
  ASSUME TypeInv, ContextRead, NEW r \in Requests, HandlerStep(r)
  PROVE  ContextRead'
<1>1. call \in [Requests -> Calls] /\ context \in [Requests -> Trees \cup {None}]
  BY DEF TypeInv, TypeOK, OrchestratorTypeOK
<1>2. CASE BuildRead(r)
  <2>1. context'[r] # None /\ \A q \in Requests \ {r} : context'[q] = context[q]
    BY <1>1, <1>2 DEF BuildRead
  <2>2. \A q \in Requests \ {r} : call'[q] = call[q]
    BY <1>1, <1>2 DEF BuildRead, Advance
  <2>3. QED
    BY <2>1, <2>2 DEF ContextRead
<1>3. ASSUME NEW x, x # "build_tag", Advance(r, x) \/ Respond(r, x),
             \A q \in Requests \ {r} : context'[q] = context[q]
      PROVE  ContextRead'
  <2>1. call'[r].at # "build_tag"
    <3>1. call'[r] = [call[r] EXCEPT !.at = x] \/ call'[r] = NoCall
      BY <1>1, <1>3 DEF Advance, Respond
    <3>2. CASE call'[r] = [call[r] EXCEPT !.at = x]
      <4>1. call[r] \in Calls
        BY <1>1
      <4>2. call'[r].at = x
        BY <3>2, <4>1 DEF Calls, NoCall
      <4>3. QED
        BY <1>3, <4>2
    <3>3. CASE call'[r] = NoCall
      BY <3>3 DEF NoCall
    <3>4. QED
      BY <3>1, <3>2, <3>3
  <2>2. \A q \in Requests \ {r} : call'[q] = call[q]
    BY <1>1, <1>3 DEF Advance, Respond
  <2>3. QED
    BY <1>3, <2>1, <2>2 DEF ContextRead
<1>4. CASE DockerFails(r) \/ BuildTag(r)
  BY <1>1, <1>3, <1>4 DEF DockerFails, BuildTag, Finish
<1>5. CASE CandidateRemove(r) \/ CandidateCreate(r) \/ CandidateStart(r)
  BY <1>3, <1>5 DEF CandidateRemove, CandidateCreate, CandidateStart, Finish
<1>6. CASE ProbeHealthy(r) \/ ProbeUnhealthy(r) \/ Discard(r)
  BY <1>3, <1>6 DEF ProbeHealthy, ProbeUnhealthy, Discard, Finish, dockerVars
<1>7. CASE AppRemove(r) \/ AppCreate(r) \/ AppStart(r) \/ AppClean(r)
  BY <1>3, <1>7 DEF AppRemove, AppCreate, AppStart, AppClean, Finish
<1>8. QED
  BY <1>2, <1>4, <1>5, <1>6, <1>7 DEF HandlerStep, Handler

LEMMA StepContext ==
  ASSUME TypeInv, ContextRead, [Next]_vars
  PROVE  ContextRead'
<1>1. ASSUME NEW r \in Requests, RequestStep(r)
      PROVE  ContextRead'
  BY <1>1, ContextAside
     DEF RequestStep, dockerVars, CallsUnchanged, ClearStage, FillFromGit, FillFromUpload,
         FillFails, BeginProgress, FindProfile, Accept, Reject, WipeSource, MoveStage,
         MoveFails, RequestBuild, BuildDone, CandidateDone, Healthy, ProbeAgain, Unhealthy,
         Discarded, Activated, Record, NoteFailure, EndProgress, RollbackActivated,
         RollbackFails, RollbackRecord
<1>2. ASSUME NEW r \in Requests, RollbackBegin(r)
      PROVE  ContextRead'
  BY <1>2, ContextAside DEF RollbackBegin, dockerVars
<1>3. ASSUME NEW r \in Requests, GiveUp(r)
      PROVE  ContextRead'
  <2>1. call \in [Requests -> Calls]
    BY DEF TypeInv, TypeOK, OrchestratorTypeOK
  <2>2. UNCHANGED context
    BY <1>3 DEF GiveUp, dockerVars
  <2>3. \A q \in Requests : call'[q].at = "build_tag" => call[q].at = "build_tag"
    BY <1>3, <2>1 DEF GiveUp, Calls, NoCall
  <2>4. QED
    BY <2>2, <2>3 DEF ContextRead
<1>4. CASE DashboardCrash
  <2>1. call \in [Requests -> Calls]
    BY DEF TypeInv, TypeOK, OrchestratorTypeOK
  <2>2. UNCHANGED context
    BY <1>4 DEF DashboardCrash, dockerVars
  <2>3. \A q \in Requests : call'[q].at = "build_tag" => call[q].at = "build_tag"
    BY <1>4, <2>1 DEF DashboardCrash, Calls, NoCall
  <2>4. QED
    BY <2>2, <2>3 DEF ContextRead
<1>5. CASE UNCHANGED <<call, context>>
  BY <1>5 DEF ContextRead
<1>6. QED
  BY <1>1, <1>2, <1>3, <1>4, <1>5, HandlerContext
     DEF Next, Arrival, Work, vars, Admit, OperateApp, CallsUnchanged, dockerVars

(* No step takes an image away.                                            *)
LEMMA ImagesKept ==
  ASSUME TypeInv, ContextRead, [Next]_vars, NEW sha \in Shas, images[sha] # None
  PROVE  images'[sha] # None
<1>1. images \in [Shas -> Trees \cup {None}]
  BY DEF TypeInv, TypeOK, OrchestratorTypeOK
<1>2. ASSUME NEW r \in Requests, HandlerStep(r)
      PROVE  images'[sha] # None
  <2>1. CASE BuildTag(r)
    BY <1>1, <2>1 DEF BuildTag, At, ContextRead
  <2>2. CASE UNCHANGED images
    BY <2>2
  <2>3. QED
    BY <1>2, <2>1, <2>2
       DEF HandlerStep, Handler, dockerVars, DockerFails, BuildRead, CandidateRemove,
           CandidateCreate,
           CandidateStart, ProbeHealthy, ProbeUnhealthy, Discard, AppRemove, AppCreate,
           AppStart, AppClean
<1>3. ASSUME NEW r \in Requests, RequestStep(r)
      PROVE  UNCHANGED images
  BY <1>3
     DEF RequestStep, dockerVars, CallsUnchanged, ClearStage, FillFromGit, FillFromUpload,
         FillFails, BeginProgress, FindProfile, Accept, Reject, WipeSource, MoveStage,
         MoveFails, RequestBuild, BuildDone, CandidateDone, Healthy, ProbeAgain, Unhealthy,
         Discarded, Activated, Record, NoteFailure, EndProgress, RollbackActivated,
         RollbackFails, RollbackRecord
<1>4. QED
  BY <1>2, <1>3 DEF Next, Arrival, Work, vars, dockerVars, Admit, CallsUnchanged, RollbackBegin, GiveUp,
                    OperateApp, DashboardCrash

LEMMA OthersBuilt ==
  ASSUME TypeInv, ContextRead, Built, [Next]_vars, NEW r \in Requests, BuiltAt(r)',
         \A q \in Requests \ {r} : call'[q] = call[q] /\ pc'[q] = pc[q] /\ job'[q] = job[q]
  PROVE  Built'
<1>1. ASSUME NEW q \in Requests \ {r}
      PROVE  BuiltAt(q)'
  <2>1. BuiltAt(q)
    BY BuiltForAll
  <2>2. CASE AwaitsNothingBuilt(q)
    BY <2>2 DEF AwaitsNothingBuilt, BuiltAt
  <2>3. CASE ~AwaitsNothingBuilt(q)
    <3>1. Sha(q) \in Shas /\ images[Sha(q)] # None
      BY <2>1, <2>3
         DEF TypeInv, JobOK, BuiltAt, AwaitsNothingBuilt, PastBuild, NoKind, NoSha
    <3>2. images'[Sha(q)] # None
      BY <3>1, ImagesKept
    <3>3. QED
      BY <3>2 DEF BuiltAt, Sha
  <2>4. QED
    BY <2>2, <2>3
<1>2. \A q \in Requests : BuiltAt(q)'
  BY <1>1
<1>3. QED
  BY <1>2 DEF Built, BuiltAt, AwaitsNothingBuilt

LEMMA CallsFrame ==
  ASSUME TypeInv, NEW r \in Requests, NEW step, NEW sha,
         Open(r, step, sha) \/ Consume(r) \/ UNCHANGED call
  PROVE  \A q \in Requests \ {r} : call'[q] = call[q]
  BY DEF TypeInv, TypeOK, OrchestratorTypeOK, Open, Consume

(* Before its build was answered, and after it gave up, a request needs no *)
(* image.                                                                  *)
LEMMA BuiltOutside ==
  ASSUME TypeInv, ContextRead, Built, [Next]_vars, NEW r \in Requests,
         pc'[r] \notin PastBuild \cup {"building"},
         NEW step, NEW sha, Open(r, step, sha) \/ Consume(r) \/ UNCHANGED call,
         \A q \in Requests \ {r} : pc'[q] = pc[q] /\ job'[q] = job[q]
  PROVE  Built'
<1>1. BuiltAt(r)'
  BY DEF BuiltAt, AwaitsNothingBuilt
<1>2. QED
  BY <1>1, CallsFrame, OthersBuilt

(* From the answer of the build on it has one, and keeps it.               *)
LEMMA BuiltInside ==
  ASSUME TypeInv, ContextRead, Built, [Next]_vars, NEW r \in Requests, ~AwaitsNothingBuilt(r),
         NEW step, NEW sha, Open(r, step, sha) \/ Consume(r) \/ UNCHANGED call,
         UNCHANGED job, \A q \in Requests \ {r} : pc'[q] = pc[q]
  PROVE  Built'
<1>1. Sha(r) \in Shas /\ images[Sha(r)] # None
  BY BuiltForAll DEF BuiltAt, AwaitsNothingBuilt, TypeInv, JobOK, PastBuild, NoKind, NoSha
<1>2. images'[Sha(r)] # None
  BY <1>1, ImagesKept
<1>3. BuiltAt(r)'
  BY <1>2 DEF BuiltAt, Sha
<1>4. QED
  BY <1>3, CallsFrame, OthersBuilt

(* A handler moves its own call along or answers it.                       *)
LEMMA HandlerMoves ==
  ASSUME TypeInv, NEW r \in Requests, HandlerStep(r)
  PROVE  \E x : Advance(r, x) \/ Respond(r, x)
<1>1. CASE DockerFails(r) \/ BuildRead(r) \/ BuildTag(r) \/ CandidateRemove(r)
  BY <1>1 DEF DockerFails, BuildRead, BuildTag, CandidateRemove, Finish
<1>2. CASE \/ CandidateCreate(r) \/ CandidateStart(r)
           \/ ProbeHealthy(r) \/ ProbeUnhealthy(r) \/ Discard(r)
  BY <1>2 DEF CandidateCreate, CandidateStart, ProbeHealthy, ProbeUnhealthy, Discard,
              Finish
<1>3. CASE AppRemove(r) \/ AppCreate(r) \/ AppStart(r) \/ AppClean(r)
  BY <1>3 DEF AppRemove, AppCreate, AppStart, AppClean, Finish
<1>4. QED
  BY <1>1, <1>2, <1>3 DEF HandlerStep, Handler

LEMMA HandlerBuilt ==
  ASSUME TypeInv, ContextRead, AnswersMatchCalls, Built, [Next]_vars,
         NEW r \in Requests, HandlerStep(r)
  PROVE  Built'
<1>1. call \in [Requests -> Calls] /\ images \in [Shas -> Trees \cup {None}]
  BY DEF TypeInv, TypeOK, OrchestratorTypeOK
<1>2. UNCHANGED <<pc, job>>
  BY DEF HandlerStep, ownVars
<1>3. \A q \in Requests \ {r} : call'[q] = call[q]
  BY <1>1 DEF HandlerStep, Handler, DockerFails, BuildRead, BuildTag, CandidateRemove,
         CandidateCreate,
         CandidateStart, ProbeHealthy, ProbeUnhealthy, Discard, AppRemove, AppCreate,
         AppStart, AppClean, Finish, Advance, Respond
<1>4. CASE ~AwaitsNothingBuilt(r)
  <2>1. Sha(r) \in Shas /\ images[Sha(r)] # None
    BY <1>4, BuiltForAll
       DEF BuiltAt, AwaitsNothingBuilt, TypeInv, JobOK, PastBuild, NoKind, NoSha
  <2>2. images'[Sha(r)] # None
    BY <2>1, ImagesKept
  <2>3. BuiltAt(r)'
    BY <1>2, <2>2 DEF BuiltAt, Sha
  <2>4. QED
    BY <1>2, <1>3, <2>3, OthersBuilt
<1>5. CASE AwaitsNothingBuilt(r) /\ pc[r] # "building"
  <2>1. AwaitsNothingBuilt(r)'
    BY <1>2, <1>5 DEF AwaitsNothingBuilt
  <2>2. QED
    BY <1>2, <1>3, <2>1, OthersBuilt DEF BuiltAt
<1>6. CASE AwaitsNothingBuilt(r) /\ pc[r] = "building" /\ ~call[r].open
  <2>1. PICK x : Advance(r, x) \/ Respond(r, x)
    BY HandlerMoves
  <2>2. call[r] \in Calls
    BY <1>1
  <2>3. ~call'[r].open
    <3>1. call'[r] = [call[r] EXCEPT !.at = x] \/ call'[r] = NoCall
      BY <1>1, <2>1 DEF Advance, Respond
    <3>2. [call[r] EXCEPT !.at = x].open = call[r].open
      BY <2>2 DEF Calls, NoCall
    <3>3. CASE call'[r] = [call[r] EXCEPT !.at = x]
      BY <1>6, <3>2, <3>3, Zenon
    <3>4. CASE call'[r] = NoCall
      BY <3>4 DEF NoCall
    <3>5. QED
      BY <3>1, <3>3, <3>4
  <2>4. AwaitsNothingBuilt(r)'
    BY <1>2, <1>6, <2>3 DEF AwaitsNothingBuilt, PastBuild
  <2>5. QED
    BY <1>2, <1>3, <2>4, OthersBuilt DEF BuiltAt
<1>7. CASE AwaitsNothingBuilt(r) /\ pc[r] = "building" /\ call[r].open
  <2>1. /\ call[r].at \in {"build", "build_tag", "ok", "error"}
        /\ call[r].sha = Sha(r)
    BY <1>7 DEF AnswersMatchCalls, WaitsFor
  <2>2. DockerFails(r) \/ BuildRead(r) \/ BuildTag(r)
    BY <2>1 DEF HandlerStep, Handler, CandidateRemove, CandidateCreate, CandidateStart,
         ProbeHealthy, ProbeUnhealthy, Discard, AppRemove, AppCreate, AppStart, AppClean, At
  <2>3. CASE DockerFails(r) \/ BuildRead(r)
    <3>1. call'[r].at \in {"error", "build_tag"}
      <4>1. call[r] \in [at : HandlerSteps, sha : Shas, open : BOOLEAN]
        BY <1>1, <2>3, HandlerCall
           DEF CallsOK, DockerFails, BuildRead, At, HandlerSteps
      <4>2. CASE DockerFails(r)
        <5>1. call'[r] = [call[r] EXCEPT !.at = "error"]
          BY <1>1, <1>7, <4>2 DEF DockerFails, Respond
        <5>2. QED
          BY <4>1, <5>1
      <4>3. CASE BuildRead(r)
        <5>1. call'[r] = [call[r] EXCEPT !.at = "build_tag"]
          BY <1>1, <4>3 DEF BuildRead, Advance
        <5>2. QED
          BY <4>1, <5>1
      <4>4. QED
        BY <2>3, <4>2, <4>3
    <3>2. AwaitsNothingBuilt(r)'
      BY <1>2, <1>7, <3>1 DEF AwaitsNothingBuilt, PastBuild
    <3>3. QED
      BY <1>2, <1>3, <3>2, OthersBuilt DEF BuiltAt
  <2>4. CASE BuildTag(r)
    <3>1. Sha(r) \in Shas
      BY <1>7 DEF TypeInv, JobOK, NoKind, NoSha
    <3>2. images'[Sha(r)] # None
      BY <1>1, <2>1, <2>4, <3>1 DEF BuildTag, At, ContextRead
    <3>3. BuiltAt(r)'
      BY <1>2, <3>2 DEF BuiltAt, Sha
    <3>4. QED
      BY <1>2, <1>3, <3>3, OthersBuilt
  <2>5. QED
    BY <2>2, <2>3, <2>4
<1>8. QED
  BY <1>4, <1>5, <1>6, <1>7

LEMMA RequestBuilt ==
  ASSUME TypeInv, ContextRead, Built, [Next]_vars, NEW r \in Requests, RequestStep(r)
  PROVE  Built'
<1> USE DEF WorkUnchanged, StagingUnchanged, CallsUnchanged
<1>1. job \in [Requests -> Jobs]
  BY DEF TypeInv, TypeOK
<1>2. CASE ClearStage(r)
  BY <1>1, <1>2, GotoFrame, BuiltOutside DEF ClearStage, PastBuild
<1>3. CASE FillFromGit(r)
  BY <1>1, <1>3, GotoFrame, BuiltOutside DEF FillFromGit, PastBuild
<1>4. CASE FillFromUpload(r)
  BY <1>1, <1>4, GotoFrame, BuiltOutside DEF FillFromUpload, PastBuild
<1>5. CASE FillFails(r)
  BY <1>1, <1>5, ReturnFrame, BuiltOutside DEF FillFails, PastBuild
<1>6. CASE BeginProgress(r)
  BY <1>1, <1>6, GotoFrame, BuiltOutside DEF BeginProgress, PastBuild
<1>7. CASE FindProfile(r)
  BY <1>1, <1>7, GotoFrame, BuiltOutside DEF FindProfile, PastBuild
<1>8. CASE Accept(r)
  BY <1>1, <1>8, GotoFrame, BuiltOutside DEF Accept, PastBuild
<1>9. CASE Reject(r)
  BY <1>1, <1>9, GotoFrame, BuiltOutside DEF Reject, PastBuild
<1>10. CASE WipeSource(r)
  BY <1>1, <1>10, GotoFrame, BuiltOutside DEF WipeSource, PastBuild
<1>11. CASE MoveStage(r)
  BY <1>1, <1>11, GotoFrame, BuiltOutside DEF MoveStage, PastBuild
<1>12. CASE MoveFails(r)
  BY <1>1, <1>12, GotoFrame, BuiltOutside DEF MoveFails, PastBuild
<1>13. CASE RequestBuild(r)
  <2>1. CASE Goto(r, "env", "building") /\ Open(r, "build", Sha(r))
    <3>1. call'[r].at = "build" /\ pc'[r] = "building"
      BY <2>1, GotoFrame DEF Open, TypeInv, TypeOK, OrchestratorTypeOK
    <3>2. BuiltAt(r)'
      BY <3>1 DEF BuiltAt, AwaitsNothingBuilt, PastBuild
    <3>3. QED
      BY <1>13, <2>1, <3>2, GotoFrame, CallsFrame, OthersBuilt DEF RequestBuild
  <2>2. CASE Goto(r, "env", "fail") /\ UNCHANGED call
    BY <1>13, <2>2, GotoFrame, BuiltOutside DEF RequestBuild, PastBuild
  <2>3. QED
    BY <1>13, <2>1, <2>2 DEF RequestBuild
<1>14. CASE BuildDone(r)
  <2>1. CASE Succeeded(r)
    BY <1>14, <2>1, GotoFrame, BuiltInside DEF BuildDone, Succeeded, AwaitsNothingBuilt
  <2>2. CASE Goto(r, "building", "record_failure") /\ Consume(r)
    BY <1>14, <2>2, GotoFrame, BuiltOutside DEF BuildDone, PastBuild
  <2>3. QED
    BY <1>14, <2>1, <2>2 DEF BuildDone
<1>15. CASE CandidateDone(r)
  BY <1>15, GotoFrame, BuiltInside DEF CandidateDone, AwaitsNothingBuilt, PastBuild
<1>16. CASE Healthy(r)
  BY <1>16, GotoFrame, BuiltInside DEF Healthy, AwaitsNothingBuilt, PastBuild
<1>17. CASE ProbeAgain(r)
  BY <1>17, BuiltInside DEF ProbeAgain, AwaitsNothingBuilt, PastBuild
<1>18. CASE Unhealthy(r)
  BY <1>18, GotoFrame, BuiltInside DEF Unhealthy, AwaitsNothingBuilt, PastBuild
<1>19. CASE Discarded(r)
  BY <1>19, GotoFrame, BuiltInside DEF Discarded, AwaitsNothingBuilt, PastBuild
<1>20. CASE Activated(r)
  BY <1>20, GotoFrame, BuiltInside DEF Activated, AwaitsNothingBuilt, PastBuild
<1>21. CASE Record(r)
  BY <1>21, GotoFrame, BuiltInside DEF Record, AwaitsNothingBuilt, PastBuild
<1>22. CASE NoteFailure(r)
  BY <1>1, <1>22, GotoFrame, BuiltOutside DEF NoteFailure, PastBuild
<1>23. CASE EndProgress(r)
  BY <1>1, <1>23, ReturnFrame, BuiltOutside DEF EndProgress, PastBuild
<1>24. CASE RollbackActivated(r)
  BY <1>1, <1>24, GotoFrame, BuiltOutside DEF RollbackActivated, PastBuild
<1>25. CASE RollbackFails(r)
  BY <1>1, <1>25, ReturnFrame, BuiltOutside DEF RollbackFails, PastBuild
<1>26. CASE RollbackRecord(r)
  BY <1>1, <1>26, ReturnFrame, BuiltOutside DEF RollbackRecord, PastBuild
<1>27. QED
  BY <1>2, <1>3, <1>4, <1>5, <1>6, <1>7, <1>8, <1>9, <1>10, <1>11, <1>12, <1>13, <1>14,
     <1>15, <1>16, <1>17, <1>18, <1>19, <1>20, <1>21, <1>22, <1>23, <1>24, <1>25, <1>26
     DEF RequestStep

LEMMA StepBuilt ==
  ASSUME TypeInv, ContextRead, AnswersMatchCalls, Built, [Next]_vars
  PROVE  Built'
<1>1. call \in [Requests -> Calls] /\ job \in [Requests -> Jobs]
  BY DEF TypeInv, TypeOK, OrchestratorTypeOK
<1>2. ASSUME NEW r \in Requests, NEW kind \in Kinds, Admit(r, kind)
      PROVE  Built'
  BY <1>1, <1>2, GotoFrame, BuiltOutside DEF Admit, PastBuild, CallsUnchanged
<1>3. ASSUME NEW r \in Requests, RollbackBegin(r)
      PROVE  Built'
  BY <1>1, <1>3, GotoFrame, BuiltOutside DEF RollbackBegin, PastBuild
<1>4. ASSUME NEW r \in Requests, GiveUp(r), UNCHANGED ownVars
      PROVE  Built'
  <2>1. UNCHANGED <<pc, job, images>>
    BY <1>4 DEF ownVars, GiveUp, dockerVars
  <2>2. BuiltAt(r)
    BY BuiltForAll
  <2>3. call'[r].open /\ call'[r].at = "ok" => FALSE
    BY <1>1, <1>4 DEF GiveUp, HandlerSteps
  <2>4. BuiltAt(r)'
    BY <2>1, <2>2, <2>3 DEF BuiltAt, AwaitsNothingBuilt, Sha
  <2>5. \A q \in Requests \ {r} : call'[q] = call[q]
    BY <1>1, <1>4 DEF GiveUp
  <2>6. QED
    BY <2>1, <2>4, <2>5, OthersBuilt
<1>5. CASE DashboardCrash
  <2>1. \A r \in Requests : pc'[r] = "idle"
    BY <1>5 DEF DashboardCrash
  <2>2. QED
    BY <2>1 DEF Built, PastBuild
<1>6. CASE UNCHANGED <<pc, job, call, images>>
  BY <1>6 DEF Built, Sha
<1>7. QED
  BY <1>2, <1>3, <1>4, <1>5, <1>6, RequestBuilt, HandlerBuilt
     DEF Next, Arrival, Work, vars, ownVars, OperateApp, dockerVars


(* A manifest that only names records it named, or built revisions, keeps  *)
(* its promise.                                                            *)
Fine(record) ==
  \/ record \in {manifest.current, manifest.previous, None}
  \/ record.tag \in Shas /\ images[record.tag] # None

LEMMA TargetsKept ==
  ASSUME TypeInv, ContextRead, RollbackTargetBuilt, [Next]_vars,
         Fine(manifest'.current), Fine(manifest'.previous)
  PROVE  RollbackTargetBuilt'
<1>1. ASSUME NEW record, Fine(record), record # None
      PROVE  images'[record.tag] # None
  <2>1. CASE record.tag \in Shas /\ images[record.tag] # None
    BY <2>1, ImagesKept
  <2>2. CASE record \in {manifest.current, manifest.previous}
    <3>1. images[record.tag] # None
      BY <1>1, <2>2 DEF RollbackTargetBuilt
    <3>2. record \in DeploymentRecord /\ record.tag = record.sha
      BY <1>1, <2>2
         DEF TypeInv, TypeOK, ManifestTypeOK, DeployState, Coherent, TargetsActive
    <3>3. record.tag \in Shas
      BY <3>2 DEF DeploymentRecord
    <3>4. QED
      BY <3>1, <3>3, ImagesKept
  <2>3. QED
    BY <1>1, <2>1, <2>2 DEF Fine
<1>2. QED
  BY <1>1 DEF RollbackTargetBuilt

LEMMA StepTargets ==
  ASSUME TypeInv, ContextRead, Built, RollbackTargetBuilt, [Next]_vars
  PROVE  RollbackTargetBuilt'
<1>1. ASSUME NEW r \in Requests, Record(r)
      PROVE  RollbackTargetBuilt'
  <2>1. CASE UNCHANGED manifest
    BY <2>1, TargetsKept DEF Fine
  <2>2. CASE Goto(r, "record", "finish") /\ RecordSuccess(Sha(r), Sha(r))
    <3>1. pc[r] = "record"
      BY <2>2 DEF Goto
    <3>2. Sha(r) \in Shas /\ images[Sha(r)] # None
      BY <3>1 DEF TypeInv, JobOK, NoSha, NoKind, Built, PastBuild
    <3>3. PICK state \in Reads :
            /\ manifest'.current = Active(Sha(r), Sha(r))
            /\ manifest'.previous = state.current
      BY <2>2 DEF RecordSuccess
    <3>4. Fine(manifest'.current)
      BY <3>2, <3>3 DEF Fine, Active
    <3>5. Fine(manifest'.previous)
      BY <3>3 DEF Fine, Reads, EmptyState
    <3>6. QED
      BY <3>4, <3>5, TargetsKept
  <2>3. QED
    BY <1>1, <2>1, <2>2 DEF Record
<1>2. ASSUME NEW r \in Requests, NoteFailure(r)
      PROVE  RollbackTargetBuilt'
  <2>1. CASE UNCHANGED manifest
    BY <2>1, TargetsKept DEF Fine
  <2>2. CASE RecordFailure(Sha(r))
    <3>1. PICK state \in Reads :
            manifest' = [state EXCEPT !.history = Remember(@, Failed(Sha(r)))]
      BY <2>2 DEF RecordFailure
    <3>2. state \in DeployState
      <4>1. EmptyState \in DeployState
        BY DEF EmptyState, DeployState
      <4>2. QED
        BY <4>1 DEF Reads, TypeInv, TypeOK, ManifestTypeOK
    <3>3. manifest'.current = state.current /\ manifest'.previous = state.previous
      BY <3>1, <3>2 DEF DeployState
    <3>4. QED
      BY <3>3, TargetsKept DEF Fine, Reads, EmptyState
  <2>3. QED
    BY <1>2, <2>1, <2>2 DEF NoteFailure
<1>3. ASSUME NEW r \in Requests, RollbackRecord(r)
      PROVE  RollbackTargetBuilt'
  <2>1. CASE UNCHANGED manifest
    BY <2>1, TargetsKept DEF Fine
  <2>2. CASE /\ manifest.previous # None
             /\ manifest'.current = Active(manifest.previous.sha, manifest.previous.tag)
             /\ manifest'.previous = None
    <3>1. images[manifest.previous.tag] # None
      BY <2>2 DEF RollbackTargetBuilt
    <3>2. manifest.previous \in DeploymentRecord
      BY <2>2 DEF TypeInv, TypeOK, ManifestTypeOK, DeployState
    <3>3. manifest.previous.tag = manifest.previous.sha
      BY <2>2 DEF TypeInv, Coherent, TargetsActive
    <3>4. manifest.previous.tag \in Shas
      BY <3>2, <3>3 DEF DeploymentRecord
    <3>5. Fine(manifest'.current) /\ Fine(manifest'.previous)
      BY <2>2, <3>1, <3>4 DEF Fine, Active
    <3>6. QED
      BY <3>5, TargetsKept
  <2>3. QED
    BY <1>3, <2>1, <2>2 DEF RollbackRecord, RollbackToPrevious
<1>4. CASE UNCHANGED manifest
  BY <1>4, TargetsKept DEF Fine
<1>5. ASSUME NEW r \in Requests, RequestStep(r)
      PROVE  RollbackTargetBuilt'
  BY <1>1, <1>2, <1>3, <1>4, <1>5
     DEF RequestStep, ClearStage, FillFromGit, FillFromUpload, FillFails, BeginProgress,
         FindProfile, Accept, Reject, WipeSource, MoveStage, MoveFails, RequestBuild,
         BuildDone, CandidateDone, Healthy, ProbeAgain, Unhealthy, Discarded, Activated,
         EndProgress, RollbackActivated, RollbackFails
<1>6. QED
  BY <1>4, <1>5 DEF Next, Arrival, Work, vars, Admit, RollbackBegin, HandlerStep, OperateApp, DashboardCrash

BuiltInv == TypeInv /\ ContextRead /\ AnswersMatchCalls /\ Built /\ RollbackTargetBuilt

LEMMA BuiltInit == Init => BuiltInv
<1> SUFFICES ASSUME Init PROVE BuiltInv
  OBVIOUS
<1>1. TypeInv
  BY InitTyped
<1>2. \A r \in Requests : pc[r] = "idle" /\ call[r] = NoCall
  BY DEF Init, OrchestratorInit
<1>3. ContextRead /\ AnswersMatchCalls /\ Built
  BY <1>2 DEF ContextRead, AnswersMatchCalls, Built, PastBuild, NoCall
<1>4. RollbackTargetBuilt
  BY DEF Init, ManifestInit, EmptyState, RollbackTargetBuilt
<1>5. QED
  BY <1>1, <1>3, <1>4 DEF BuiltInv

LEMMA BuiltStep == BuiltInv /\ [Next]_vars => BuiltInv'
  BY StepTyped, StepContext, StepMatched, StepBuilt, StepTargets DEF BuiltInv

(* Whatever a rollback would activate has been built, under any            *)
(* interleaving of requests, handlers that outlive their caller, failures  *)
(* and crashes: images are tagged before a deploy goes on, and never       *)
(* removed.                                                                *)
THEOREM RollbackTargetsAreBuilt == Spec => []RollbackTargetBuilt
<1>1. BuiltInv => RollbackTargetBuilt
  BY DEF BuiltInv
<1>2. QED
  BY <1>1, BuiltInit, BuiltStep, PTL DEF Spec

-----------------------------------------------------------------------------
(* The tracker does not stay raised.                                       *)

LEMMA SettlesAround ==
  ASSUME TrackerSettles, NEW r \in Requests,
         \A q \in Requests \ {r} : pc'[q] = pc[q],
         tracker'.active => \/ pc'[r] \in InsideDeploy
                            \/ tracker.active /\ pc[r] \notin InsideDeploy
  PROVE  TrackerSettles'
<1>1. CASE tracker'.active /\ pc'[r] \notin InsideDeploy
  <2>1. PICK q \in Requests : pc[q] \in InsideDeploy
    BY <1>1 DEF TrackerSettles
  <2>2. q # r
    BY <1>1, <2>1
  <2>3. pc'[q] \in InsideDeploy
    BY <2>1, <2>2
  <2>4. QED
    BY <2>3 DEF TrackerSettles
<1>2. CASE ~tracker'.active \/ pc'[r] \in InsideDeploy
  BY <1>2 DEF TrackerSettles
<1>3. QED
  BY <1>1, <1>2

(* Only the end of a deploy leaves deploy_from_staging, and it lowers the  *)
(* tracker.                                                                *)
LEMMA RequestSettles ==
  ASSUME TypeInv, TrackerSettles, NEW r \in Requests, RequestStep(r)
  PROVE  TrackerSettles'
<1>1. CASE ClearStage(r) \/ FillFromGit(r) \/ FillFromUpload(r)
  BY <1>1, GotoFrame, SettlesAround
     DEF ClearStage, FillFromGit, FillFromUpload, InsideDeploy
<1>2. CASE FillFails(r)
  BY <1>2, ReturnFrame, SettlesAround DEF FillFails, InsideDeploy
<1>3. CASE BeginProgress(r) \/ FindProfile(r) \/ Accept(r) \/ Reject(r)
  BY <1>3, GotoFrame, SettlesAround
     DEF BeginProgress, FindProfile, Accept, Reject, InsideDeploy
<1>4. CASE WipeSource(r) \/ MoveStage(r) \/ MoveFails(r) \/ RequestBuild(r)
  BY <1>4, GotoFrame, SettlesAround
     DEF WipeSource, MoveStage, MoveFails, RequestBuild, InsideDeploy
<1>5. CASE BuildDone(r) \/ CandidateDone(r) \/ Healthy(r)
  BY <1>5, GotoFrame, SettlesAround DEF BuildDone, CandidateDone, Healthy, InsideDeploy
<1>6. CASE ProbeAgain(r)
  BY <1>6, SettlesAround DEF ProbeAgain, InsideDeploy
<1>7. CASE Unhealthy(r) \/ Discarded(r) \/ Activated(r)
  BY <1>7, GotoFrame, SettlesAround DEF Unhealthy, Discarded, Activated, InsideDeploy
<1>8. CASE Record(r) \/ NoteFailure(r)
  BY <1>8, GotoFrame, SettlesAround DEF Record, NoteFailure, InsideDeploy
<1>9. CASE EndProgress(r)
  <2>1. ~tracker'.active
    BY <1>9 DEF EndProgress, FinishSuccess, FinishFailure
  <2>2. QED
    BY <2>1 DEF TrackerSettles
<1>10. CASE RollbackActivated(r)
  BY <1>10, GotoFrame, SettlesAround DEF RollbackActivated, InsideDeploy
<1>11. CASE RollbackFails(r) \/ RollbackRecord(r)
  BY <1>11, ReturnFrame, SettlesAround DEF RollbackFails, RollbackRecord, InsideDeploy
<1>12. QED
  BY <1>1, <1>2, <1>3, <1>4, <1>5, <1>6, <1>7, <1>8, <1>9, <1>10, <1>11 DEF RequestStep

LEMMA StepSettles ==
  ASSUME TypeInv, TrackerSettles, [Next]_vars
  PROVE  TrackerSettles'
<1>1. ASSUME NEW r \in Requests, NEW kind \in Kinds, Admit(r, kind)
      PROVE  TrackerSettles'
  BY <1>1, GotoFrame, SettlesAround DEF Admit, IsActive
<1>2. ASSUME NEW r \in Requests, RollbackBegin(r)
      PROVE  TrackerSettles'
  BY <1>2, GotoFrame, SettlesAround DEF RollbackBegin, InsideDeploy
<1>3. CASE DashboardCrash
  BY <1>3 DEF DashboardCrash, TrackerIdle, TrackerSettles
<1>4. CASE UNCHANGED <<pc, tracker>>
  BY <1>4 DEF TrackerSettles
<1>5. QED
  BY <1>1, <1>2, <1>3, <1>4, RequestSettles DEF Next, Arrival, Work, vars, ownVars, HandlerStep

(* However a deploy ends, the panel does not go on saying that one is in   *)
(* progress when none is.                                                  *)
THEOREM TrackerDoesNotStick == Spec => []TrackerSettles
<1>1. Init => TypeInv /\ TrackerSettles
  <2>1. Init => TrackerSettles
    <3>1. Init => tracker = TrackerIdle
      BY DEF Init, TrackerInit
    <3>2. TrackerIdle.active = FALSE
      BY DEF TrackerIdle
    <3>3. QED
      BY <3>1, <3>2, Zenon DEF TrackerSettles
  <2>2. QED
    BY <2>1, InitTyped
<1>2. TypeInv /\ TrackerSettles /\ [Next]_vars => (TypeInv /\ TrackerSettles)'
  BY StepTyped, StepSettles
<1>3. QED
  BY <1>1, <1>2, PTL DEF Spec
=============================================================================
