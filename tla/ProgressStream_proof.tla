------------------------- MODULE ProgressStream_proof -------------------------
(***************************************************************************)
(* Proofs about the progress streams, for any number of threads and tabs   *)
(* and any number of deploys and restarts.                                 *)
(*                                                                         *)
(* A stream compares versions twice a second and may miss every state of a *)
(* deploy but the last.  It cannot miss the end: a tracker that was ever   *)
(* raised is either active or says how the deploy ended.                   *)
(***************************************************************************)
EXTENDS ProgressStream, TLAPS

(* The tracker is active exactly while its status is "running".            *)
TrackerSound ==
  /\ tracker \in TrackerState
  /\ tracker.active <=> tracker.status = "running"

StreamsTyped ==
  /\ version \in Nat
  /\ stream \in [Watchers -> [last : Nat, seen : BOOLEAN]]
  /\ shown \in [Watchers -> TrackerState]

(* A stream that saw a deploy lives in a process that had one.             *)
SeenWasRaised == \A w \in Watchers : stream[w].seen => tracker.status # "idle"

StreamInv ==
  /\ TrackerSound
  /\ StreamsTyped
  /\ SeenWasRaised
  /\ NoThreadAfterTheEnd

LEMMA PercentOfStage == \A stage \in Stages : StagePercent[stage] \in 0..100
  BY DEF Stages, StagePercent

LEMMA IdleSound ==
  TrackerIdle \in TrackerState /\ TrackerIdle.status = "idle" /\ ~TrackerIdle.active
<1>1. 0 \in 0..100
  OBVIOUS
<1>2. QED
  BY <1>1 DEF TrackerIdle, TrackerState

LEMMA StreamInit_Inv == StreamInit => StreamInv
  BY IdleSound
     DEF StreamInit, TrackerInit, StreamInv, TrackerSound, StreamsTyped, SeenWasRaised,
         NoThreadAfterTheEnd, NoStream

LEMMA PercentEnds == 0 \in 0..100 /\ 100 \in 0..100
  OBVIOUS

(* The tracker stays sound, and does not become idle again.                *)
LEMMA DeployStep_Tracker ==
  ASSUME TrackerSound, DeployStep
  PROVE  /\ TrackerSound'
         /\ tracker'.status # "idle"
<1> USE DEF TrackerSound, TrackerState
<1>1. CASE BeginDeploy
  BY <1>1, PercentEnds DEF BeginDeploy, Start, Kinds
<1>2. CASE NextStage
  <2>1. PICK stage \in Stages : SetStage(stage)
    BY <1>2 DEF NextStage
  <2>2. QED
    BY <2>1, PercentOfStage DEF SetStage
<1>3. CASE AppendLog
  BY <1>3 DEF AppendLog, IsActive
<1>4. CASE EndDeploy
  <2>1. CASE FinishSuccess
    BY <2>1, PercentEnds DEF FinishSuccess
  <2>2. CASE FinishFailure
    BY <2>2 DEF FinishFailure
  <2>3. QED
    BY <1>4, <2>1, <2>2 DEF EndDeploy
<1>5. QED
  BY <1>1, <1>2, <1>3, <1>4 DEF DeployStep

LEMMA StreamStep_Inv == StreamInv /\ [StreamNext]_streamVars => StreamInv'
<1> SUFFICES ASSUME StreamInv, [StreamNext]_streamVars
             PROVE  StreamInv'
  OBVIOUS
<1> USE DEF StreamInv, StreamsTyped, SeenWasRaised, NoThreadAfterTheEnd
<1>1. ASSUME NEW c \in Clients, Request(c)
      PROVE  StreamInv'
  BY <1>1 DEF Request, TrackerUnchanged, TrackerSound
<1>2. CASE Dispatch
  <2> DEFINE c == Head(queue)
  <2>1. CASE c \in Watchers
    <3>1. FirstSnapshot(c) /\ serving' = serving \cup {c} /\ TrackerUnchanged
      BY <1>2, <2>1 DEF Dispatch
    <3> HIDE DEF c
    <3>2. /\ shown' = [shown EXCEPT ![c] = tracker]
          /\ stream' = [stream EXCEPT ![c] = [last |-> version, seen |-> tracker.active]]
      BY <3>1 DEF FirstSnapshot
    <3>3. StreamsTyped'
      BY <2>1, <3>1, <3>2 DEF TrackerUnchanged, TrackerSound, TrackerState
    <3>4. QED
      BY <2>1, <3>1, <3>2, <3>3 DEF TrackerUnchanged, TrackerSound
  <2>2. CASE c \notin Watchers
    BY <1>2, <2>2 DEF Dispatch, TrackerUnchanged, TrackerSound
  <2>3. QED
    BY <2>1, <2>2
<1>3. ASSUME NEW w \in Watchers, Poll(w)
      PROVE  StreamInv'
  <2>1. /\ shown' = [shown EXCEPT ![w] = tracker]
        /\ stream' = [stream EXCEPT ![w] =
             [last |-> version, seen |-> stream[w].seen \/ tracker.active]]
        /\ TrackerUnchanged
    BY <1>3 DEF Poll
  <2>2. StreamsTyped' /\ TrackerSound'
    BY <2>1 DEF TrackerUnchanged, TrackerSound, TrackerState
  <2>3. SeenWasRaised'
    BY <2>1 DEF TrackerUnchanged, TrackerSound
  <2>4. ~tracker.active /\ stream[w].seen => Over(w)
    BY DEF TrackerSound, TrackerState, Over
  <2>5. Over(w) => w \notin serving'
    BY <1>3 DEF Poll, Free
  <2>6. serving' \subseteq serving
    BY <1>3 DEF Poll, Free
  <2>7. NoThreadAfterTheEnd'
    BY <2>1, <2>4, <2>5, <2>6
  <2>8. QED
    BY <2>2, <2>3, <2>7
<1>4. ASSUME NEW c \in Clients, Deadline(c) \/ LogEnds(c)
      PROVE  StreamInv'
  BY <1>4 DEF Deadline, LogEnds, Free, TrackerUnchanged, TrackerSound
<1>5. CASE DeployStep
  <2>1. serving' \subseteq serving /\ version' \in Nat /\ UNCHANGED <<stream, shown>>
    BY <1>5 DEF DeployStep, EndDeploy, Free, Changed, DeployUnchanged
  <2>2. QED
    BY <1>5, <2>1, DeployStep_Tracker
<1>6. CASE Restart
  BY <1>6, IdleSound DEF Restart, TrackerSound, NoStream
<1>7. CASE UNCHANGED streamVars
  BY <1>7 DEF streamVars, TrackerSound
<1>8. QED
  BY <1>1, <1>2, <1>3, <1>4, <1>5, <1>6, <1>7 DEF StreamNext, Clients

-----------------------------------------------------------------------------
(* A stream that saw a deploy and still has its thread shows it running.   *)
THEOREM StreamAlwaysInv == StreamSpec => []StreamInv
  BY StreamInit_Inv, StreamStep_Inv, PTL DEF StreamSpec

(* A progress stream gives its thread back when it tells the end, however  *)
(* much of the deploy it missed.                                           *)
THEOREM StreamsEndWithTheDeploy == StreamSpec => []NoThreadAfterTheEnd
<1>1. StreamInv => NoThreadAfterTheEnd
  BY DEF StreamInv
<1>2. QED
  BY <1>1, StreamAlwaysInv, PTL

-----------------------------------------------------------------------------
(* How far versions go.  A request to deploy is waited for once, makes one *)
(* deploy, and a deploy changes the tracker a bounded number of times.     *)

Waiting == IF Deployer \in serving \/ Queued(Deployer) THEN 1 ELSE 0

(* Changes of the tracker, from the start of a deploy to where it is.      *)
Reached ==
  CASE tracker.stage = "validate" -> 2
    [] tracker.stage = "build" -> 3
    [] tracker.stage = "candidate_start" -> 4
    [] tracker.stage = "health_check" -> 5 + logs
    [] tracker.stage = "activate" -> 6 + MaxLogs
    [] OTHER -> 1

Steps == 7 + MaxLogs

(* Deploys that are over: done, or lost with the process.                  *)
Spent == deploys - Waiting

(* A deploy asks for one thread, and keeps it while the tracker is active. *)
OneRequest ==
  /\ \A i, j \in DOMAIN queue : queue[i] = Deployer /\ queue[j] = Deployer => i = j
  /\ Deployer \in serving => ~Queued(Deployer)
  /\ IsActive => Deployer \in serving

Accounted ==
  /\ Waiting <= deploys
  /\ version <= Spent * Steps + (IF IsActive THEN Reached ELSE 0)

CountersTyped ==
  /\ version \in Nat
  /\ logs \in 0..MaxLogs
  /\ queue \in Seq(Clients)
  /\ serving \subseteq Clients
  /\ deploys \in 0..MaxDeploys
  /\ crashes \in 0..MaxCrashes

CountInv == TrackerSound /\ CountersTyped /\ OneRequest /\ Accounted

LEMMA Products ==
  ASSUME NEW d \in Nat, NEW e \in Nat
  PROVE  /\ Steps \in Nat /\ d * Steps \in Nat
         /\ (d + 1) * Steps = d * Steps + Steps
         /\ d <= e => d * Steps <= e * Steps
<1>1. Steps \in Nat
  BY StreamAssumption DEF Steps
<1> HIDE DEF Steps
<1>2. d * Steps \in Nat /\ (d + 1) * Steps = d * Steps + Steps
  BY <1>1
<1>3. ASSUME d <= e
      PROVE  d * Steps <= e * Steps
  <2>1. PICK k \in Nat : e = d + k
    <3>1. e - d \in Nat /\ e = d + (e - d)
      BY <1>3
    <3>2. QED
      BY <3>1
  <2>2. e * Steps = d * Steps + k * Steps /\ k * Steps \in Nat
    BY <1>1, <2>1
  <2>3. QED
    BY <1>2, <2>2
<1>4. QED
  BY <1>1, <1>2, <1>3

LEMMA ReachedBounds ==
  ASSUME CountersTyped
  PROVE  Reached \in 1..(6 + MaxLogs)
<1>1. logs \in Nat /\ logs <= MaxLogs /\ MaxLogs \in Nat
  BY StreamAssumption DEF CountersTyped
<1>2. Reached \in {1, 2, 3, 4, 5 + logs, 6 + MaxLogs}
  BY DEF Reached
<1>3. QED
  BY <1>1, <1>2

LEMMA StreamInit_Count == StreamInit => CountInv
<1> SUFFICES ASSUME StreamInit
             PROVE  CountInv
  OBVIOUS
<1>1. ~Queued(Deployer) /\ Deployer \notin serving /\ ~IsActive
  BY IdleSound DEF StreamInit, TrackerInit, Queued, IsActive
<1>2. Waiting = 0
  BY <1>1 DEF Waiting
<1>3. Spent = 0 /\ 0 <= 0 * Steps + 0
  BY <1>2, Products DEF StreamInit, Spent
<1>4. Accounted
  BY <1>1, <1>2, <1>3 DEF StreamInit, Accounted
<1>5. CountersTyped
  BY StreamAssumption DEF StreamInit, CountersTyped
<1>6. OneRequest
  BY <1>1 DEF StreamInit, OneRequest
<1>7. QED
  BY <1>4, <1>5, <1>6, IdleSound DEF StreamInit, TrackerInit, CountInv, TrackerSound

(* A step that leaves the tracker and the requests to deploy alone.        *)
LEMMA Accounted_Unchanged ==
  ASSUME Accounted, UNCHANGED <<tracker, version, logs, deploys, Waiting>>
  PROVE  Accounted'
  BY DEF Accounted, Spent, Reached, IsActive

LEMMA Request_Count ==
  ASSUME CountInv, NEW c \in Clients, Request(c)
  PROVE  CountInv'
<1> USE DEF CountInv, CountersTyped
<1>1. /\ queue' = Append(queue, c) /\ c \notin serving /\ ~Queued(c)
      /\ UNCHANGED <<tracker, version, logs, serving, crashes>>
      /\ deploys' = IF c = Deployer THEN deploys + 1 ELSE deploys
      /\ c = Deployer => deploys < MaxDeploys
  BY DEF Request, Away, TrackerUnchanged
<1>2. /\ queue' \in Seq(Clients) /\ DOMAIN queue' = 1..(Len(queue) + 1)
      /\ DOMAIN queue = 1..Len(queue) /\ Len(queue) \in Nat
      /\ queue'[Len(queue) + 1] = c /\ \A i \in DOMAIN queue : queue'[i] = queue[i]
  BY <1>1
<1>3. TrackerSound' /\ CountersTyped'
  BY <1>1, <1>2, StreamAssumption DEF TrackerSound
<1>4. CASE c = Deployer
  <2>1. Queued(Deployer)' /\ ~Queued(Deployer) /\ Deployer \notin serving
    BY <1>1, <1>2, <1>4 DEF Queued
  <2>2. Waiting = 0 /\ Waiting' = 1 /\ ~IsActive /\ ~IsActive'
    BY <1>1, <2>1 DEF Waiting, OneRequest, IsActive
  <2>3. deploys \in Nat /\ deploys' = deploys + 1
    BY <1>1, <1>4, StreamAssumption
  <2>4. Spent' = Spent /\ Waiting' <= deploys'
    BY <2>2, <2>3 DEF Spent
  <2>5. Accounted'
    <3>1. version <= Spent * Steps + 0
      BY <2>2 DEF Accounted
    <3>2. version' <= Spent' * Steps + 0
      BY <1>1, <2>4, <3>1
    <3>3. QED
      BY <2>2, <2>4, <3>2 DEF Accounted
  <2>6. \A i \in DOMAIN queue' : queue'[i] = Deployer => i = Len(queue) + 1
    BY <1>2, <2>1 DEF Queued
  <2>7. OneRequest'
    BY <1>1, <2>1, <2>2, <2>6 DEF OneRequest
  <2>8. QED
    BY <1>3, <2>5, <2>7
<1>5. CASE c # Deployer
  <2>1. Queued(Deployer)' <=> Queued(Deployer)
    BY <1>1, <1>2, <1>5 DEF Queued
  <2>2. Waiting' = Waiting /\ deploys' = deploys
    BY <1>1, <1>5, <2>1 DEF Waiting
  <2>3. Accounted'
    BY <1>1, <2>2, Accounted_Unchanged
  <2>4. \A i \in DOMAIN queue' :
          queue'[i] = Deployer => i \in DOMAIN queue /\ queue[i] = Deployer
    BY <1>2, <1>5
  <2>5. OneRequest'
    BY <1>1, <2>1, <2>4 DEF OneRequest, IsActive
  <2>6. QED
    BY <1>3, <2>3, <2>5
<1>6. QED
  BY <1>4, <1>5

LEMMA Dispatch_Count ==
  ASSUME CountInv, Dispatch
  PROVE  CountInv'
<1> USE DEF CountInv, CountersTyped
<1> DEFINE c == Head(queue)
<1>1. /\ queue # <<>> /\ queue' = Tail(queue) /\ serving' = serving \cup {c}
      /\ UNCHANGED <<tracker, version, logs, deploys, crashes>>
  BY DEF Dispatch, TrackerUnchanged
<1>2. /\ queue' \in Seq(Clients) /\ c \in Clients /\ Len(queue) \in Nat \ {0}
      /\ DOMAIN queue = 1..Len(queue) /\ DOMAIN queue' = 1..(Len(queue) - 1)
      /\ c = queue[1] /\ \A i \in DOMAIN queue' : queue'[i] = queue[i + 1]
  BY <1>1
<1> HIDE DEF c
<1>3. TrackerSound' /\ CountersTyped'
  BY <1>1, <1>2 DEF TrackerSound
<1>4. Queued(Deployer) <=> c = Deployer \/ Queued(Deployer)'
  <2>1. ASSUME NEW i \in DOMAIN queue, queue[i] = Deployer, i # 1
        PROVE  Queued(Deployer)'
    <3>1. i - 1 \in DOMAIN queue' /\ queue'[i - 1] = Deployer
      BY <1>2, <2>1
    <3>2. QED
      BY <3>1 DEF Queued
  <2>2. ASSUME NEW i \in DOMAIN queue', queue'[i] = Deployer
        PROVE  Queued(Deployer)
    <3>1. i + 1 \in DOMAIN queue /\ queue[i + 1] = Deployer
      BY <1>2, <2>2
    <3>2. QED
      BY <3>1 DEF Queued
  <2>3. QED
    BY <1>2, <2>1, <2>2 DEF Queued
<1>5. Waiting' = Waiting
  BY <1>1, <1>4 DEF Waiting
<1>6. Accounted'
  BY <1>1, <1>5, Accounted_Unchanged
<1>7. \A i, j \in DOMAIN queue' : queue'[i] = Deployer /\ queue'[j] = Deployer => i = j
  <2> SUFFICES ASSUME NEW i \in DOMAIN queue', NEW k \in DOMAIN queue',
                      queue'[i] = Deployer, queue'[k] = Deployer
               PROVE  i = k
    OBVIOUS
  <2>1. i + 1 \in DOMAIN queue /\ k + 1 \in DOMAIN queue
    BY <1>2
  <2>2. i + 1 = k + 1
    BY <1>2, <2>1 DEF OneRequest
  <2>3. QED
    BY <1>2, <2>2
<1>8. c = Deployer => ~Queued(Deployer)'
  <2> SUFFICES ASSUME c = Deployer, NEW i \in DOMAIN queue', queue'[i] = Deployer
               PROVE  FALSE
    BY DEF Queued
  <2>1. i + 1 \in DOMAIN queue /\ 1 \in DOMAIN queue /\ i + 1 # 1
    BY <1>2
  <2>2. QED
    BY <1>2, <2>1 DEF OneRequest
<1>9. Deployer \in serving' => ~Queued(Deployer)'
  BY <1>1, <1>4, <1>8 DEF OneRequest
<1>10. OneRequest'
  BY <1>1, <1>7, <1>9 DEF OneRequest, IsActive
<1>11. QED
  BY <1>3, <1>6, <1>10

(* A tab or a log reader gives its thread back, or keeps it.               *)
LEMMA Reader_Count ==
  ASSUME CountInv, NEW c \in Clients, c # Deployer,
         serving' \in {serving, serving \ {c}},
         UNCHANGED <<tracker, version, logs, queue, deploys, crashes>>
  PROVE  CountInv'
<1>1. (Deployer \in serving' <=> Deployer \in serving) /\ serving' \subseteq serving
  OBVIOUS
<1>2. Queued(Deployer)' <=> Queued(Deployer)
  BY DEF Queued
<1>3. Waiting' = Waiting
  BY <1>1, <1>2 DEF Waiting
<1>4. Accounted'
  BY <1>3, Accounted_Unchanged DEF CountInv
<1>5. OneRequest'
  BY <1>1, <1>2 DEF CountInv, OneRequest, IsActive
<1>6. QED
  BY <1>1, <1>4, <1>5 DEF CountInv, TrackerSound, CountersTyped


LEMMA NextStage_Reached ==
  ASSUME CountersTyped, NextStage
  PROVE  IsActive' /\ logs' = 0 /\ Reached' >= Reached + 1
<1>1. PICK stage \in Stages : <<tracker.stage, stage>> \in Follows /\ SetStage(stage)
  BY DEF NextStage
<1>2. tracker'.stage = stage /\ IsActive' /\ logs' = 0
  BY <1>1 DEF SetStage, IsActive, NextStage
<1> DEFINE named == {"validate", "build", "candidate_start", "health_check", "activate"}
<1>3. logs \in Nat /\ logs <= MaxLogs /\ MaxLogs \in Nat
  BY StreamAssumption DEF CountersTyped
<1>4. CASE tracker.stage \notin named /\ stage = "validate"
  BY <1>2, <1>4 DEF Reached
<1>5. CASE tracker.stage = "validate" /\ stage = "build"
  BY <1>2, <1>5 DEF Reached
<1>6. CASE tracker.stage = "build" /\ stage = "candidate_start"
  BY <1>2, <1>6 DEF Reached
<1>7. CASE tracker.stage = "candidate_start" /\ stage = "health_check"
  BY <1>2, <1>7 DEF Reached
<1>8. CASE tracker.stage = "health_check" /\ stage = "activate"
  BY <1>2, <1>3, <1>8 DEF Reached
<1>9. \/ tracker.stage \notin named /\ stage = "validate"
      \/ tracker.stage = "validate" /\ stage = "build"
      \/ tracker.stage = "build" /\ stage = "candidate_start"
      \/ tracker.stage = "candidate_start" /\ stage = "health_check"
      \/ tracker.stage = "health_check" /\ stage = "activate"
  BY <1>1, Zenon DEF Follows
<1>10. QED
  BY <1>2, <1>4, <1>5, <1>6, <1>7, <1>8, <1>9

LEMMA DeployStep_Count ==
  ASSUME CountInv, DeployStep
  PROVE  CountInv'
<1>1. /\ Deployer \in serving /\ version' = version + 1
      /\ UNCHANGED <<queue, deploys, crashes>>
  BY DEF DeployStep, Changed, DeployUnchanged
<1>2. /\ ~Queued(Deployer) /\ ~Queued(Deployer)'
      /\ Waiting = 1 /\ version \in Nat /\ deploys \in Nat /\ MaxLogs \in Nat
      /\ logs \in Nat /\ logs <= MaxLogs
  BY <1>1, StreamAssumption DEF CountInv, CountersTyped, OneRequest, Waiting, Queued
<1>3. Spent \in Nat /\ deploys = Spent + 1 /\ Spent * Steps \in Nat
  <2>1. Spent \in Nat /\ deploys = Spent + 1
    BY <1>2 DEF CountInv, Accounted, Spent
  <2>2. QED
    BY <2>1, Products
<1>4. TrackerSound'
  BY DeployStep_Tracker DEF CountInv
<1>5. Reached \in 1..(6 + MaxLogs)
  BY ReachedBounds DEF CountInv
<1>6. version <= Spent * Steps + (IF IsActive THEN Reached ELSE 0)
  BY DEF CountInv, Accounted
<1> HIDE DEF Steps
<1>7. ASSUME UNCHANGED serving, logs' \in 0..MaxLogs, IsActive',
             Reached' \in Nat, version + 1 <= Spent * Steps + Reached'
      PROVE  CountInv'
  <2>1. Waiting' = 1 /\ Spent' = Spent
    BY <1>1, <1>2, <1>7 DEF Waiting, Spent
  <2>2. Accounted'
    <3>1. version' <= Spent' * Steps + Reached'
      BY <1>1, <1>7, <2>1
    <3>2. Waiting' <= deploys'
      BY <1>1, <1>3, <2>1
    <3>3. QED
      BY <1>7, <3>1, <3>2 DEF Accounted
  <2>3. OneRequest'
    BY <1>1, <1>2, <1>7 DEF CountInv, OneRequest
  <2>4. CountersTyped'
    BY <1>1, <1>2, <1>7 DEF CountInv, CountersTyped
  <2>5. QED
    BY <1>4, <2>2, <2>3, <2>4 DEF CountInv
<1>8. CASE BeginDeploy /\ UNCHANGED serving
  <2>1. IsActive' /\ ~IsActive /\ logs' = 0
    BY <1>8 DEF BeginDeploy, Start, IsActive
  <2>2. Reached' = 1
    <3>1. tracker'.stage \notin {"validate", "build", "candidate_start", "health_check", "activate"}
      BY <1>8, Zenon DEF BeginDeploy, Start
    <3>2. QED
      BY <3>1 DEF Reached
  <2>3. version + 1 <= Spent * Steps + 1
    BY <1>2, <1>3, <1>6, <2>1
  <2>4. logs' \in 0..MaxLogs
    BY <1>2, <2>1
  <2>5. QED
    BY <1>7, <1>8, <2>1, <2>2, <2>3, <2>4
<1>9. CASE NextStage /\ UNCHANGED serving
  <2>1. /\ IsActive /\ IsActive' /\ logs' = 0
        /\ Reached' >= Reached + 1
    BY <1>9, NextStage_Reached DEF CountInv, NextStage
  <2>2. logs' \in 0..MaxLogs
    BY <1>2, <2>1
  <2>3. Reached' \in Nat
    <3>1. Reached' \in {2, 3, 4, 5 + logs', 6 + MaxLogs, 1}
      BY DEF Reached
    <3>2. QED
      BY <1>2, <2>1, <3>1
  <2>4. version + 1 <= Spent * Steps + Reached'
    BY <1>2, <1>3, <1>5, <1>6, <2>1, <2>3
  <2>5. QED
    BY <1>7, <1>9, <2>1, <2>2, <2>3, <2>4
<1>10. CASE AppendLog /\ UNCHANGED serving
  <2>1. /\ IsActive /\ IsActive' /\ tracker' = tracker /\ tracker.stage = "health_check"
        /\ logs' = logs + 1 /\ logs' <= MaxLogs
    BY <1>2, <1>10 DEF AppendLog, IsActive
  <2>2. Reached = 5 + logs /\ Reached' = 5 + logs'
    BY <2>1 DEF Reached
  <2>3. version + 1 <= Spent * Steps + Reached'
    BY <1>2, <1>3, <1>6, <2>1, <2>2
  <2>4. logs' \in 0..MaxLogs /\ Reached' \in Nat
    BY <1>2, <2>1, <2>2
  <2>5. QED
    BY <1>7, <1>10, <2>1, <2>3, <2>4
<1>11. CASE EndDeploy
  <2>1. /\ serving' = serving \ {Deployer} /\ logs' \in {0, logs} /\ ~IsActive' /\ IsActive
    BY <1>11 DEF EndDeploy, Free, FinishSuccess, FinishFailure, IsActive
  <2>2. Waiting' = 0 /\ Spent' = Spent + 1
    BY <1>1, <1>2, <1>3, <2>1 DEF Waiting, Spent
  <2>3. Reached + 1 <= Steps /\ Steps \in Nat
    BY <1>2, <1>5 DEF Steps
  <2>4. (Spent + 1) * Steps = Spent * Steps + Steps
    BY <1>3, Products
  <2>5. version + 1 <= (Spent + 1) * Steps
    BY <1>2, <1>3, <1>5, <1>6, <2>1, <2>3, <2>4
  <2>6. Accounted'
    <3>1. version' <= Spent' * Steps + 0
      BY <1>1, <1>3, <2>2, <2>3, <2>4, <2>5
    <3>2. Waiting' <= deploys'
      BY <1>1, <1>2, <2>2
    <3>3. QED
      BY <2>1, <3>1, <3>2 DEF Accounted
  <2>7. OneRequest'
    BY <1>1, <1>2, <2>1 DEF CountInv, OneRequest
  <2>8. CountersTyped'
    BY <1>1, <1>2, <2>1 DEF CountInv, CountersTyped
  <2>9. QED
    BY <1>4, <2>6, <2>7, <2>8 DEF CountInv
<1>12. QED
  BY <1>8, <1>9, <1>10, <1>11 DEF DeployStep

LEMMA Restart_Count ==
  ASSUME CountInv, Restart
  PROVE  CountInv'
<1>1. /\ tracker' = TrackerIdle /\ version' = 0 /\ logs' = 0 /\ queue' = <<>> /\ serving' = {}
      /\ deploys' = deploys /\ crashes < MaxCrashes /\ crashes' = crashes + 1
  BY DEF Restart
<1>2. ~Queued(Deployer)' /\ Deployer \notin serving' /\ ~IsActive'
  BY <1>1, IdleSound DEF Queued, IsActive
<1>3. Waiting' = 0 /\ deploys \in Nat
  BY <1>2, StreamAssumption DEF Waiting, CountInv, CountersTyped
<1>4. Spent' = deploys /\ 0 <= deploys * Steps + 0
  BY <1>1, <1>3, Products DEF Spent
<1>5. Accounted'
  BY <1>1, <1>2, <1>3, <1>4 DEF Accounted
<1>6. OneRequest'
  BY <1>1, <1>2 DEF OneRequest
<1>7. CountersTyped'
  BY <1>1, StreamAssumption DEF CountInv, CountersTyped
<1>8. QED
  BY <1>1, <1>5, <1>6, <1>7, IdleSound DEF CountInv, TrackerSound

LEMMA StreamStep_Count == CountInv /\ [StreamNext]_streamVars => CountInv'
<1> SUFFICES ASSUME CountInv, [StreamNext]_streamVars
             PROVE  CountInv'
  OBVIOUS
<1>1. ASSUME NEW c \in Clients, Request(c)
      PROVE  CountInv'
  BY <1>1, Request_Count
<1>2. CASE Dispatch
  BY <1>2, Dispatch_Count
<1>3. ASSUME NEW c \in Watchers \cup LogReaders, Poll(c) \/ Deadline(c) \/ LogEnds(c)
      PROVE  CountInv'
  <2>1. c \in Clients /\ c # Deployer
    BY StreamAssumption DEF Clients
  <2>2. /\ serving' \in {serving, serving \ {c}}
        /\ UNCHANGED <<tracker, version, logs, queue, deploys, crashes>>
    BY <1>3 DEF Poll, Deadline, LogEnds, Free, TrackerUnchanged
  <2>3. QED
    BY <2>1, <2>2, Reader_Count
<1>4. CASE DeployStep
  BY <1>4, DeployStep_Count
<1>5. CASE Restart
  BY <1>5, Restart_Count
<1>6. CASE UNCHANGED streamVars
  BY <1>6 DEF streamVars, CountInv, TrackerSound, CountersTyped, OneRequest, Accounted,
              Spent, Waiting, Reached, Queued, IsActive
<1>7. QED
  BY <1>1, <1>2, <1>3, <1>4, <1>5, <1>6 DEF StreamNext

(* However requests, deploys and restarts interleave, versions stay within *)
(* what the deploys that were asked for can account for.                   *)
LEMMA VersionBounded ==
  ASSUME CountInv
  PROVE  version \in 0..MaxVersion
<1>1. /\ deploys \in Nat /\ deploys <= MaxDeploys /\ MaxDeploys \in Nat /\ MaxLogs \in Nat
      /\ version \in Nat
  BY StreamAssumption DEF CountInv, CountersTyped
<1>2. deploys * Steps <= MaxDeploys * Steps /\ Steps \in Nat
  BY <1>1, Products
<1>3. CASE IsActive
  <2>1. Waiting = 1
    BY <1>3 DEF CountInv, OneRequest, Waiting
  <2>2. Spent \in Nat /\ deploys = Spent + 1
    BY <1>1, <2>1 DEF CountInv, Accounted, Spent
  <2>3. version <= Spent * Steps + Reached /\ Reached <= Steps /\ Reached \in Nat
    BY <1>1, <1>3, ReachedBounds DEF CountInv, Accounted, Steps
  <2>4. deploys * Steps = Spent * Steps + Steps /\ Spent * Steps \in Nat
    BY <2>2, Products
  <2>5. version <= deploys * Steps
    BY <1>1, <1>2, <2>3, <2>4
  <2>6. version <= MaxDeploys * Steps
    BY <1>1, <1>2, <2>4, <2>5, Products
  <2>7. QED
    BY <1>1, <2>6, Products DEF MaxVersion, Steps
<1>4. CASE ~IsActive
  <2>1. Waiting \in {0, 1}
    BY DEF Waiting
  <2>2. Spent \in Nat /\ Spent <= deploys
    BY <1>1, <2>1 DEF CountInv, Accounted, Spent
  <2>3. version <= Spent * Steps + 0
    BY <1>4 DEF CountInv, Accounted
  <2>4. Spent * Steps <= MaxDeploys * Steps /\ Spent * Steps \in Nat /\ MaxDeploys * Steps \in Nat
    <3>1. Spent <= MaxDeploys
      BY <1>1, <2>2
    <3>2. QED
      BY <1>1, <2>2, <3>1, Products
  <2>5. version <= MaxDeploys * Steps
    BY <1>1, <2>3, <2>4
  <2>6. QED
    BY <1>1, <2>4, <2>5 DEF MaxVersion, Steps
<1>5. QED
  BY <1>3, <1>4

(* What streams remember is a version there was.                           *)
StreamsRemember ==
  /\ stream \in [Watchers -> [last : 0..MaxVersion, seen : BOOLEAN]]
  /\ shown \in [Watchers -> TrackerState]

(* Queue, threads, counters and what tabs show keep their shape, and       *)
(* versions their bound.                                                   *)
THEOREM StreamStaysTyped == StreamSpec => []StreamTypeOK
<1>1. StreamInit => CountInv /\ StreamsRemember
  <2> SUFFICES ASSUME StreamInit
               PROVE  CountInv /\ StreamsRemember
    OBVIOUS
  <2>1. CountInv
    BY StreamInit_Count
  <2>2. 0 \in 0..MaxVersion
    BY <2>1, VersionBounded DEF StreamInit
  <2>3. QED
    BY <2>1, <2>2, IdleSound DEF StreamInit, NoStream, StreamsRemember
<1>2. CountInv /\ StreamsRemember /\ [StreamNext]_streamVars => CountInv' /\ StreamsRemember'
  <2> SUFFICES ASSUME CountInv, StreamsRemember, [StreamNext]_streamVars
               PROVE  CountInv' /\ StreamsRemember'
    OBVIOUS
  <2>1. CountInv'
    BY StreamStep_Count
  <2>2. version \in 0..MaxVersion /\ 0 \in 0..MaxVersion
    <3>1. version \in 0..MaxVersion
      BY VersionBounded
    <3>2. MaxVersion \in Nat
      BY Products, StreamAssumption DEF MaxVersion, Steps
    <3>3. QED
      BY <3>1, <3>2
  <2>3. tracker \in TrackerState /\ tracker.active \in BOOLEAN
    BY DEF CountInv, TrackerSound, TrackerState
  <2>4. ASSUME NEW c, FirstSnapshot(c)
        PROVE  StreamsRemember'
    BY <2>2, <2>3, <2>4 DEF FirstSnapshot, StreamsRemember
  <2>5. ASSUME NEW w \in Watchers, Poll(w)
        PROVE  StreamsRemember'
    BY <2>2, <2>3, <2>5 DEF Poll, StreamsRemember
  <2>6. ASSUME UNCHANGED <<stream, shown>>
        PROVE  StreamsRemember'
    BY <2>6 DEF StreamsRemember
  <2>7. CASE Dispatch
    BY <2>1, <2>4, <2>6, <2>7 DEF Dispatch
  <2>8. CASE Restart
    BY <2>1, <2>2, <2>8 DEF Restart, NoStream, StreamsRemember
  <2>9. QED
    BY <2>1, <2>5, <2>6, <2>7, <2>8
       DEF StreamNext, Request, Deadline, LogEnds, DeployStep, DeployUnchanged, streamVars
<1>3. CountInv /\ StreamsRemember => StreamTypeOK
  BY VersionBounded DEF CountInv, TrackerSound, CountersTyped, StreamsRemember, StreamTypeOK
<1>4. QED
  BY <1>1, <1>2, <1>3, PTL DEF StreamSpec
=============================================================================
