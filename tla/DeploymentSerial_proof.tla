------------------------ MODULE DeploymentSerial_proof ------------------------
(***************************************************************************)
(* Proofs about the deploy cycle when requests come one at a time          *)
(* (SerialSpec), whatever fails, gives up or crashes on the way.           *)
(***************************************************************************)
EXTENDS Deployment_proof

(* At most one request is under way, its orphaned handler included.        *)
Resting(r) == pc[r] = "idle" /\ call[r] = NoCall
Alone == \A r, q \in Requests : Resting(r) \/ Resting(q) \/ r = q

(* What a directory or image may hold for a revision.                      *)
Holds(s) == {s} \cup (IF s \in Uploads THEN {Torn} ELSE {})

(* An upload that was taken up, and of which there is no image yet.        *)
Unbuilt(s) == s \in Uploads => s \notin fresh /\ images[s] = None

Proved(s) == images[s] \in proved

(* A request between two calls has none, and a probe is waited for.        *)
BetweenCalls ==
  {"clear", "fill", "start", "profile", "check", "wipe", "move", "env",
   "record", "finish", "rollback_record"}
CallSettled(r) ==
  /\ pc[r] \in BetweenCalls => call[r] = NoCall
  /\ pc[r] = "probing" => call[r].open

(* The revision on its way from the staging directory to the image.        *)
Staged(r) ==
  pc[r] \in {"start", "profile", "check", "wipe", "move"} =>
    stage[Kind(r)] \in Holds(Sha(r))
Sourced(r) ==
  /\ pc[r] = "move" => source = None
  /\ pc[r] = "env" => source \in Holds(Sha(r))
  /\ call[r].at = "build" => source \in Holds(call[r].sha)
  /\ call[r].at = "build_tag" => context[r] \in Holds(call[r].sha)
OfOneUpload(r) ==
  /\ pc[r] \in {"start", "profile", "check", "wipe", "move", "env"} => Unbuilt(Sha(r))
  /\ call[r].at \in {"build", "build_tag"} => Unbuilt(call[r].sha)

(* The candidate from its creation to the verdict on it.                   *)
Shows(container, s) == container.sha = s /\ container.tree = images[s]
Probed(r) ==
  /\ call[r].at = "candidate_start" => Shows(candidate, call[r].sha)
  /\ \/ pc[r] = "starting" /\ call[r].at = "ok"
     \/ pc[r] = "probing"
     => candidate.by = r /\ candidate.running /\ Shows(candidate, Sha(r))
  /\ call[r].at = "healthy" => Proved(Sha(r))

(* The swap, and what is left of it when it is reported.                   *)
Swapped(r) ==
  /\ InActivate(r) => Proved(call[r].sha)
  /\ call[r].at \in {"app_start", "app_clean"} => Shows(app, call[r].sha)
  /\ pc[r] \in {"activating", "record", "finish"} => Proved(Sha(r))
  /\ \/ pc[r] = "activating" /\ call[r].at = "ok"
     \/ pc[r] \in {"record", "finish"}
     => Shows(app, Sha(r)) /\ candidate = NoContainer
  /\ pc[r] = "finish" => manifest.current = Active(Sha(r), Sha(r))

(* The same of a rollback, which looked its target up before.              *)
RolledBack(r) ==
  /\ pc[r] \in {"rolling_back", "rollback_record"} =>
       manifest.previous # None /\ Sha(r) = manifest.previous.tag
  /\ \/ pc[r] = "rolling_back" /\ call[r].at = "ok"
     \/ pc[r] = "rollback_record"
     => Shows(app, Sha(r)) /\ candidate = NoContainer

(* What the bar shows before each of its advances.                         *)
BarAt(r) ==
  /\ pc[r] \in {"profile", "check", "wipe", "move", "env"} => tracker.percent = 0
  /\ pc[r] = "building" => tracker.percent = StagePercent["build"]
  /\ pc[r] = "starting" => tracker.percent = StagePercent["candidate_start"]
  /\ pc[r] = "probing" => tracker.percent = StagePercent["health_check"]

OnCourse(r) ==
  /\ CallSettled(r)
  /\ Staged(r) /\ Sourced(r) /\ OfOneUpload(r)
  /\ Probed(r) /\ Swapped(r) /\ RolledBack(r)
  /\ BarAt(r)

FreshUnbuilt == \A u \in fresh : images[u] = None
TargetsProved ==
  \A record \in {manifest.current, manifest.previous} \ {None} : Proved(record.tag)

SerialInv ==
  /\ Alone
  /\ \A r \in Requests : OnCourse(r)
  /\ FreshUnbuilt /\ TagNamesItsTree
  /\ TargetsProved

-----------------------------------------------------------------------------
(* What a step does to the request that takes it.                          *)

LEMMA OpenFrame ==
  ASSUME TypeInv, NEW r \in Requests, NEW step, NEW sha, Open(r, step, sha)
  PROVE  /\ call'[r].at = step /\ call'[r].sha = sha /\ call'[r].open
         /\ \A q \in Requests \ {r} : call'[q] = call[q]
  BY DEF TypeInv, TypeOK, OrchestratorTypeOK, Open

LEMMA ConsumeFrame ==
  ASSUME TypeInv, NEW r \in Requests, Consume(r)
  PROVE  /\ call'[r] = IF call[r].open THEN NoCall ELSE call[r]
         /\ \A q \in Requests \ {r} : call'[q] = call[q]
  BY DEF TypeInv, TypeOK, OrchestratorTypeOK, Consume

(* Away from the containers, a request has little to keep.                 *)
LEMMA AsideOnCourse ==
  ASSUME NEW r \in Requests, call'[r] = NoCall,
         pc'[r] \in {"idle", "fail", "clear", "fill", "start", "profile", "check",
                     "wipe", "move", "env"},
         Staged(r)', BarAt(r)',
         pc'[r] = "move" => source' = None,
         pc'[r] = "env" => source' \in Holds(Sha(r)'),
         pc'[r] \notin {"idle", "fail", "clear", "fill"} => Unbuilt(Sha(r))'
  PROVE  OnCourse(r)'
<1>1. call'[r].at = "none"
  BY DEF NoCall
<1>2. CallSettled(r)'
  BY DEF CallSettled
<1>3. Sourced(r)' /\ OfOneUpload(r)'
  BY <1>1 DEF Sourced, OfOneUpload
<1>4. Probed(r)' /\ Swapped(r)' /\ RolledBack(r)'
  BY <1>1 DEF Probed, Swapped, RolledBack, InActivate
<1>5. QED
  BY <1>2, <1>3, <1>4 DEF OnCourse

(* A request on its way through the directories.                           *)
LEMMA PrepareOnCourse ==
  ASSUME TypeInv, NEW r \in Requests, OnCourse(r), FreshUnbuilt,
         \/ ClearStage(r) \/ FillFromGit(r) \/ FillFromUpload(r) \/ FillFails(r)
         \/ BeginProgress(r) \/ FindProfile(r) \/ Accept(r) \/ Reject(r)
         \/ WipeSource(r) \/ MoveStage(r) \/ MoveFails(r)
  PROVE  OnCourse(r)'
<1> USE DEF WorkUnchanged, StagingUnchanged, CallsUnchanged, dockerVars, Sha, Kind
<1>1. /\ job \in [Requests -> Jobs]
      /\ stage \in [Kinds -> Trees \cup {None}]
      /\ pc[r] \notin NoKind => Kind(r) \in Kinds
  BY DEF TypeInv, TypeOK, JobOK
<1>2. /\ pc[r] \in BetweenCalls => call[r] = NoCall
      /\ Staged(r) /\ Sourced(r) /\ OfOneUpload(r) /\ BarAt(r)
  BY DEF OnCourse, CallSettled
<1>3. CASE ClearStage(r)
  <2>1. pc'[r] = "fill" /\ call'[r] = NoCall
    BY <1>2, <1>3, GotoFrame DEF ClearStage, BetweenCalls
  <2>2. QED
    BY <2>1, AsideOnCourse DEF Staged, BarAt
<1>4. CASE FillFromGit(r)
  <2>1. pc'[r] = "start" /\ call'[r] = NoCall
    BY <1>2, <1>4, GotoFrame DEF FillFromGit, BetweenCalls
  <2>2. PICK c \in Commits : stage'["git"] = c /\ job'[r] = [kind |-> "git", sha |-> c]
    BY <1>1, <1>4 DEF FillFromGit, Kinds
  <2>3. Staged(r)' /\ Unbuilt(Sha(r))'
    BY <2>2, DeploymentAssumption DEF Staged, Holds, Unbuilt
  <2>4. QED
    BY <2>1, <2>3, AsideOnCourse DEF BarAt
<1>5. CASE FillFromUpload(r)
  <2>1. pc'[r] = "start" /\ call'[r] = NoCall
    BY <1>2, <1>5, GotoFrame DEF FillFromUpload, BetweenCalls
  <2>2. PICK u \in fresh :
          /\ stage'["upload"] \in {u, Torn}
          /\ job'[r] = [kind |-> "upload", sha |-> u]
          /\ fresh' = fresh \ {u}
    BY <1>1, <1>5 DEF FillFromUpload, Kinds
  <2>3. u \in Uploads /\ images'[u] = None
    BY <1>5 DEF FillFromUpload, FreshUnbuilt, TypeInv, TypeOK
  <2>4. Staged(r)' /\ Unbuilt(Sha(r))'
    BY <2>2, <2>3 DEF Staged, Holds, Unbuilt
  <2>5. QED
    BY <2>1, <2>4, AsideOnCourse DEF BarAt
<1>6. CASE FillFails(r)
  <2>1. pc'[r] = "idle" /\ call'[r] = NoCall
    BY <1>2, <1>6, ReturnFrame DEF FillFails, BetweenCalls
  <2>2. QED
    BY <2>1, AsideOnCourse DEF Staged, BarAt
<1>7. CASE BeginProgress(r)
  <2>1. pc[r] = "start" /\ pc'[r] = "profile" /\ call'[r] = NoCall
    BY <1>2, <1>7, GotoFrame DEF BeginProgress, BetweenCalls
  <2>2. Staged(r)' /\ Unbuilt(Sha(r))'
    BY <1>2, <1>7, <2>1 DEF BeginProgress, Staged, OfOneUpload, Unbuilt
  <2>3. BarAt(r)'
    BY <1>7, <2>1 DEF BeginProgress, Start, BarAt
  <2>4. QED
    BY <2>1, <2>2, <2>3, AsideOnCourse
<1>8. CASE FindProfile(r)
  <2>1. pc[r] = "profile" /\ pc'[r] \in {"check", "fail"} /\ call'[r] = NoCall
    BY <1>2, <1>8, GotoFrame DEF FindProfile, BetweenCalls
  <2>2. Staged(r)' /\ Unbuilt(Sha(r))'
    BY <1>2, <1>8, <2>1 DEF FindProfile, Staged, OfOneUpload, Unbuilt
  <2>3. tracker'.percent = tracker.percent \/ tracker'.percent = StagePercent["validate"]
    BY <1>8 DEF FindProfile, SetStage
  <2>4. BarAt(r)'
    BY <1>2, <2>1, <2>3 DEF BarAt, StagePercent
  <2>5. QED
    BY <2>1, <2>2, <2>4, AsideOnCourse
<1>9. CASE Accept(r)
  <2>1. pc[r] = "check" /\ pc'[r] = "wipe" /\ call'[r] = NoCall
    BY <1>2, <1>9, GotoFrame DEF Accept, BetweenCalls
  <2>2. Staged(r)' /\ Unbuilt(Sha(r))' /\ BarAt(r)'
    BY <1>2, <1>9, <2>1 DEF Accept, Staged, OfOneUpload, Unbuilt, BarAt
  <2>3. QED
    BY <2>1, <2>2, AsideOnCourse
<1>10. CASE Reject(r)
  <2>1. pc'[r] = "fail" /\ call'[r] = NoCall
    BY <1>2, <1>10, GotoFrame DEF Reject, BetweenCalls
  <2>2. QED
    BY <2>1, AsideOnCourse DEF Staged, BarAt
<1>11. CASE WipeSource(r)
  <2>1. /\ pc[r] = "wipe" /\ call'[r] = NoCall
        /\ \/ pc'[r] = "move" /\ source' = None
           \/ pc'[r] = "fail"
    BY <1>2, <1>11, GotoFrame DEF WipeSource, BetweenCalls
  <2>2. Staged(r)' /\ Unbuilt(Sha(r))' /\ BarAt(r)'
    BY <1>2, <1>11, <2>1 DEF WipeSource, Staged, OfOneUpload, Unbuilt, BarAt
  <2>3. QED
    BY <2>1, <2>2, AsideOnCourse
<1>12. CASE MoveStage(r)
  <2>1. pc[r] = "move" /\ pc'[r] = "env" /\ call'[r] = NoCall
    BY <1>2, <1>12, GotoFrame DEF MoveStage, BetweenCalls
  <2>2. source' \in Holds(Sha(r)')
    BY <1>2, <1>12, <2>1 DEF MoveStage, Sourced, Staged
  <2>3. Unbuilt(Sha(r))' /\ BarAt(r)' /\ Staged(r)'
    BY <1>2, <1>12, <2>1 DEF MoveStage, Staged, OfOneUpload, Unbuilt, BarAt
  <2>4. QED
    BY <2>1, <2>2, <2>3, AsideOnCourse
<1>13. CASE MoveFails(r)
  <2>1. pc'[r] = "fail" /\ call'[r] = NoCall
    BY <1>2, <1>13, GotoFrame DEF MoveFails, BetweenCalls
  <2>2. QED
    BY <2>1, AsideOnCourse DEF Staged, BarAt
<1>14. QED
  BY <1>3, <1>4, <1>5, <1>6, <1>7, <1>8, <1>9, <1>10, <1>11, <1>12, <1>13

(* A request that is done, or broke off, leaves at most a running handler. *)
LEMMA LeftOnCourse ==
  ASSUME TypeInv, NEW r \in Requests, OnCourse(r),
         UNCHANGED <<source, fresh, dockerVars>>,
         pc'[r] \in {"idle", "fail", "record_failure"},
         \/ call'[r] = NoCall
         \/ /\ call'[r].at = call[r].at /\ call'[r].sha = call[r].sha
            /\ call[r].at \in HandlerSteps
  PROVE  OnCourse(r)'
<1> USE DEF dockerVars
<1>1. CallSettled(r)' /\ Staged(r)' /\ RolledBack(r)' /\ BarAt(r)'
  BY DEF CallSettled, Staged, RolledBack, BarAt, BetweenCalls
<1>2. CASE call'[r] = NoCall
  <2>1. call'[r].at = "none"
    BY <1>2 DEF NoCall
  <2>2. QED
    BY <1>1, <2>1 DEF OnCourse, Sourced, OfOneUpload, Probed, Swapped, InActivate
<1>3. CASE /\ call'[r].at = call[r].at /\ call'[r].sha = call[r].sha
           /\ call[r].at \in HandlerSteps
  <2>1. Sourced(r)' /\ OfOneUpload(r)'
    BY <1>3 DEF OnCourse, Sourced, OfOneUpload, Unbuilt
  <2>2. call[r].at \notin {"ok", "healthy"}
    BY <1>3 DEF HandlerSteps
  <2>3. Probed(r)' /\ Swapped(r)'
    BY <1>3, <2>2 DEF OnCourse, Probed, Swapped, InActivate, Shows, Proved
  <2>4. QED
    BY <1>1, <2>1, <2>3 DEF OnCourse
<1>4. QED
  BY <1>2, <1>3

(* What nobody waits for any more is a handler still running, or nothing.  *)
LEMMA OrphanRuns ==
  ASSUME TypeInv, NEW r \in Requests, ~call[r].open
  PROVE  call[r] = NoCall \/ call[r].at \in HandlerSteps
  BY DEF TypeInv, TypeOK, OrchestratorTypeOK, Calls

(* A request in the middle of its calls.                                   *)
LEMMA CallOnCourse ==
  ASSUME TypeInv, AnswersMatchCalls, NEW r \in Requests, OnCourse(r),
         \/ RequestBuild(r) \/ BuildDone(r) \/ CandidateDone(r)
         \/ Healthy(r) \/ ProbeAgain(r) \/ Unhealthy(r) \/ Discarded(r) \/ Activated(r)
  PROVE  OnCourse(r)'
<1> USE DEF WorkUnchanged, StagingUnchanged, CallsUnchanged, dockerVars, Sha, Kind
<1>1. /\ pc[r] \in BetweenCalls => call[r] = NoCall
      /\ Staged(r) /\ Sourced(r) /\ OfOneUpload(r) /\ Probed(r) /\ Swapped(r) /\ BarAt(r)
  BY DEF OnCourse, CallSettled
<1>2. ASSUME Consume(r), Goto(r, pc[r], "record_failure"),
             UNCHANGED <<source, fresh, dockerVars>>
      PROVE  OnCourse(r)'
  BY <1>2, ConsumeFrame, GotoFrame, LeftOnCourse, OrphanRuns
<1>3. CASE RequestBuild(r)
  <2>1. CASE Goto(r, "env", "building") /\ SetStage("build") /\ Open(r, "build", Sha(r))
    <3>1. /\ pc[r] = "env" /\ pc'[r] = "building"
          /\ call'[r].at = "build" /\ call'[r].sha = Sha(r)
      BY <2>1, GotoFrame, OpenFrame
    <3>2. Sourced(r)' /\ OfOneUpload(r)'
      BY <1>1, <1>3, <3>1 DEF RequestBuild, Sourced, OfOneUpload, Unbuilt
    <3>3. BarAt(r)'
      BY <2>1, <3>1 DEF BarAt, SetStage
    <3>4. QED
      BY <3>1, <3>2, <3>3 DEF OnCourse, CallSettled, RolledBack, Staged, Probed, Swapped, InActivate,
                              BetweenCalls
  <2>2. CASE Goto(r, "env", "fail") /\ UNCHANGED call
    BY <1>1, <1>3, <2>2, GotoFrame, LeftOnCourse DEF RequestBuild, BetweenCalls
  <2>3. QED
    BY <1>3, <2>1, <2>2 DEF RequestBuild
<1>4. CASE BuildDone(r)
  <2>1. CASE /\ Goto(r, "building", "starting")
             /\ SetStage("candidate_start")
             /\ Open(r, "candidate_remove", Sha(r))
    <3>1. pc'[r] = "starting" /\ call'[r].at = "candidate_remove"
      BY <2>1, GotoFrame, OpenFrame
    <3>2. BarAt(r)'
      BY <2>1, <3>1 DEF BarAt, SetStage
    <3>3. QED
      BY <3>1, <3>2 DEF OnCourse, CallSettled, RolledBack, Staged, Sourced, OfOneUpload, Probed, Swapped,
                        InActivate, BetweenCalls
  <2>2. CASE Goto(r, "building", "record_failure") /\ Consume(r)
    BY <1>2, <1>4, <2>2 DEF BuildDone, Goto
  <2>3. QED
    BY <1>4, <2>1, <2>2 DEF BuildDone
<1>5. CASE CandidateDone(r)
  <2>1. CASE /\ Succeeded(r) /\ Goto(r, "starting", "probing")
             /\ SetStage("health_check") /\ Open(r, "probe", Sha(r))
    <3>1. /\ pc[r] = "starting" /\ call[r].at = "ok"
          /\ pc'[r] = "probing" /\ call'[r].at = "probe" /\ call'[r].open
      BY <2>1, GotoFrame, OpenFrame DEF Succeeded
    <3>2. BarAt(r)'
      BY <2>1, <3>1 DEF BarAt, SetStage
    <3>3. Probed(r)'
      BY <1>1, <1>5, <3>1 DEF CandidateDone, Probed, Shows
    <3>4. QED
      BY <3>1, <3>2, <3>3 DEF OnCourse, CallSettled, RolledBack, Staged, Sourced, OfOneUpload, Swapped,
                              InActivate, BetweenCalls
  <2>2. CASE Goto(r, "starting", "record_failure") /\ Consume(r)
    BY <1>2, <1>5, <2>2 DEF CandidateDone, Goto
  <2>3. QED
    BY <1>5, <2>1, <2>2 DEF CandidateDone
<1>6. CASE Healthy(r)
  <2>1. /\ pc'[r] = "activating" /\ call'[r].at = "app_remove" /\ call'[r].sha = Sha(r)
        /\ call[r].at = "healthy"
    BY <1>6, GotoFrame, OpenFrame DEF Healthy
  <2>2. Swapped(r)'
    BY <1>1, <1>6, <2>1 DEF Healthy, Probed, Swapped, Proved
  <2>3. QED
    BY <2>1, <2>2 DEF OnCourse, CallSettled, RolledBack, Staged, Sourced, OfOneUpload, Probed, BarAt,
                      BetweenCalls
<1>7. CASE ProbeAgain(r)
  <2>1. /\ pc[r] = "probing" /\ pc'[r] = "probing"
        /\ call'[r].at = "probe" /\ call'[r].open
    BY <1>7, OpenFrame DEF ProbeAgain
  <2>2. Probed(r)' /\ BarAt(r)'
    BY <1>1, <1>7, <2>1 DEF ProbeAgain, Probed, Shows, BarAt
  <2>3. QED
    BY <2>1, <2>2 DEF OnCourse, CallSettled, RolledBack, Staged, Sourced, OfOneUpload, Swapped,
                      InActivate, BetweenCalls
<1>8. CASE Unhealthy(r)
  <2>1. pc'[r] = "discarding" /\ call'[r].at = "discard"
    BY <1>8, GotoFrame, OpenFrame DEF Unhealthy
  <2>2. QED
    BY <2>1 DEF OnCourse, CallSettled, RolledBack, Staged, Sourced, OfOneUpload, Probed, Swapped,
                InActivate, BarAt, BetweenCalls
<1>9. CASE Discarded(r)
  BY <1>2, <1>9 DEF Discarded, Goto
<1>10. CASE Activated(r)
  <2>1. CASE Succeeded(r) /\ Goto(r, "activating", "record")
    <3>1. pc[r] = "activating" /\ call[r].at = "ok" /\ pc'[r] = "record"
      BY <2>1, GotoFrame DEF Succeeded
    <3>2. call'[r] = NoCall
      BY <1>10, <2>1, ConsumeFrame DEF Activated, Succeeded
    <3>3. call'[r].at = "none"
      BY <3>2 DEF NoCall
    <3>4. Swapped(r)'
      BY <1>1, <1>10, <3>1, <3>3 DEF Activated, Swapped, Shows, Proved, InActivate
    <3>5. QED
      BY <3>1, <3>2, <3>3, <3>4
         DEF OnCourse, CallSettled, RolledBack, Staged, Sourced, OfOneUpload, Probed, BarAt
  <2>2. CASE Goto(r, "activating", "record_failure")
    BY <1>2, <1>10, <2>2 DEF Activated, Goto
  <2>3. QED
    BY <1>10, <2>1, <2>2 DEF Activated
<1>11. QED
  BY <1>3, <1>4, <1>5, <1>6, <1>7, <1>8, <1>9, <1>10

(* A request at the end of its way.                                        *)
LEMMA EndOnCourse ==
  ASSUME TypeInv, AnswersMatchCalls, NEW r \in Requests, OnCourse(r),
         \/ Record(r) \/ NoteFailure(r) \/ EndProgress(r)
         \/ RollbackActivated(r) \/ RollbackFails(r) \/ RollbackRecord(r)
  PROVE  OnCourse(r)'
<1> USE DEF WorkUnchanged, StagingUnchanged, CallsUnchanged, dockerVars, Sha, Kind
<1>1. /\ pc[r] \in BetweenCalls => call[r] = NoCall
      /\ pc[r] \notin DOMAIN WaitsFor => ~call[r].open
      /\ Swapped(r) /\ RolledBack(r)
  BY DEF OnCourse, CallSettled, AnswersMatchCalls
<1>2. CASE Record(r)
  <2>1. pc[r] = "record" /\ call'[r] = NoCall
    BY <1>1, <1>2, GotoFrame DEF Record, BetweenCalls
  <2>2. call'[r].at = "none"
    BY <2>1 DEF NoCall
  <2>3. CASE Goto(r, "record", "finish") /\ RecordSuccess(Sha(r), Sha(r))
    <3>1. pc'[r] = "finish"
      BY <2>3, GotoFrame
    <3>2. manifest'.current = Active(Sha(r), Sha(r))
      BY <2>3 DEF RecordSuccess
    <3>3. Swapped(r)'
      BY <1>1, <1>2, <2>1, <2>2, <3>1, <3>2 DEF Record, Swapped, Shows, Proved, InActivate
    <3>4. QED
      BY <2>1, <2>2, <3>1, <3>3
         DEF OnCourse, CallSettled, RolledBack, Staged, Sourced, OfOneUpload, Probed, BarAt
  <2>4. CASE Goto(r, "record", "fail")
    BY <1>2, <2>1, <2>4, GotoFrame, LeftOnCourse DEF Record
  <2>5. QED
    BY <1>2, <2>3, <2>4 DEF Record
<1>3. CASE NoteFailure(r)
  BY <1>1, <1>3, GotoFrame, OrphanRuns, LeftOnCourse DEF NoteFailure, WaitsFor
<1>4. CASE EndProgress(r)
  BY <1>1, <1>4, ReturnFrame, OrphanRuns, LeftOnCourse DEF EndProgress, WaitsFor
<1>5. CASE RollbackActivated(r)
  <2>1. pc[r] = "rolling_back" /\ pc'[r] = "rollback_record"
    BY <1>5, GotoFrame DEF RollbackActivated
  <2>2. call[r].at = "ok" /\ call'[r] = NoCall
    BY <1>5, ConsumeFrame DEF RollbackActivated, Succeeded
  <2>3. call'[r].at = "none"
    BY <2>2 DEF NoCall
  <2>4. RolledBack(r)'
    BY <1>1, <1>5, <2>1, <2>2, <2>3 DEF RollbackActivated, RolledBack, Shows
  <2>5. QED
    BY <2>1, <2>2, <2>3, <2>4 DEF OnCourse, CallSettled, Staged, Sourced, OfOneUpload, Probed,
                                  Swapped, BarAt, InActivate
<1>6. CASE RollbackFails(r)
  BY <1>6, ReturnFrame, ConsumeFrame, OrphanRuns, LeftOnCourse DEF RollbackFails
<1>7. CASE RollbackRecord(r)
  BY <1>1, <1>7, ReturnFrame, OrphanRuns, LeftOnCourse DEF RollbackRecord, WaitsFor
<1>8. QED
  BY <1>2, <1>3, <1>4, <1>5, <1>6, <1>7

-----------------------------------------------------------------------------
(* Handlers.                                                               *)

LEMMA HandlerBusy ==
  ASSUME NEW r \in Requests, Handler(r)
  PROVE  call[r].at \in HandlerSteps
  BY DEF Handler, DockerFails, BuildRead, BuildTag, CandidateRemove, CandidateCreate,
         CandidateStart, ProbeHealthy, ProbeUnhealthy, Discard, AppRemove, AppCreate,
         AppStart, AppClean, At, HandlerSteps

(* Moved on, answered, or over with nobody to hear the answer.             *)
LEMMA HandledFrame ==
  ASSUME TypeInv, NEW r \in Requests, call[r].at \in HandlerSteps, NEW x
  PROVE  /\ Advance(r, x) =>
              /\ call'[r].at = x /\ call'[r].sha = call[r].sha
              /\ call'[r].open = call[r].open
         /\ Respond(r, x) =>
              \/ /\ call'[r].at = x /\ call'[r].sha = call[r].sha
                 /\ call'[r].open /\ call[r].open
              \/ call'[r] = NoCall /\ call'[r].at = "none" /\ ~call[r].open
         /\ Advance(r, x) \/ Respond(r, x) => \A q \in Requests \ {r} : call'[q] = call[q]
<1>1. call \in [Requests -> Calls]
  BY DEF TypeInv, TypeOK, OrchestratorTypeOK
<1>2. call[r] \in [at : HandlerSteps, sha : Shas, open : BOOLEAN]
  BY <1>1, HandlerCall DEF CallsOK
<1>3. NoCall.at = "none"
  BY DEF NoCall
<1>4. QED
  BY <1>1, <1>2, <1>3 DEF Advance, Respond

(* Where the caller of a handler is, if it still waits.                    *)
LEMMA WaitingPlace ==
  ASSUME AnswersMatchCalls, NEW r \in Requests, call[r].open, call[r].at \in HandlerSteps
  PROVE  /\ call[r].sha = Sha(r)
         /\ call[r].at \in {"build", "build_tag"} <=> pc[r] = "building"
         /\ call[r].at \in {"candidate_remove", "candidate_create", "candidate_start"}
              <=> pc[r] = "starting"
         /\ call[r].at = "probe" <=> pc[r] = "probing"
         /\ call[r].at = "discard" <=> pc[r] = "discarding"
         /\ InActivate(r) <=> pc[r] \in {"activating", "rolling_back"}
<1>1. /\ pc[r] \in DOMAIN WaitsFor
      /\ call[r].at \in WaitsFor[pc[r]] \cup {"ok", "error"}
      /\ call[r].sha = Sha(r)
  BY DEF AnswersMatchCalls
<1>2. pc[r] \in {"building", "starting", "probing", "discarding", "activating", "rolling_back"}
  BY <1>1 DEF WaitsFor
<1>3. call[r].at \in WaitsFor[pc[r]]
  BY <1>1 DEF HandlerSteps
<1>4. CASE pc[r] = "building"
  BY <1>1, <1>3, <1>4 DEF WaitsFor, InActivate
<1>5. CASE pc[r] = "starting"
  BY <1>1, <1>3, <1>5 DEF WaitsFor, InActivate
<1>6. CASE pc[r] = "probing"
  BY <1>1, <1>3, <1>6 DEF WaitsFor, HandlerSteps, InActivate
<1>7. CASE pc[r] = "discarding"
  BY <1>1, <1>3, <1>7 DEF WaitsFor, InActivate
<1>8. CASE pc[r] \in {"activating", "rolling_back"}
  BY <1>1, <1>3, <1>8 DEF WaitsFor, InActivate
<1>9. QED
  BY <1>2, <1>4, <1>5, <1>6, <1>7, <1>8

(* One revision, one content: an image that is there is not replaced by    *)
(* another, even if its revision is built again.                           *)
LEMMA ImagesFixed ==
  ASSUME TypeInv, TagNamesItsTree, NEW r \in Requests, Sourced(r), OfOneUpload(r),
         Handler(r), NEW s \in Shas, images[s] # None
  PROVE  images'[s] = images[s]
<1>1. images \in [Shas -> Trees \cup {None}]
  BY DEF TypeInv, TypeOK, OrchestratorTypeOK
<1>2. CASE BuildTag(r)
  <2>1. images' = [images EXCEPT ![call[r].sha] = context[r]]
    BY <1>2 DEF BuildTag
  <2>2. context[r] \in Holds(call[r].sha) /\ Unbuilt(call[r].sha)
    BY <1>2 DEF BuildTag, At, Sourced, OfOneUpload
  <2>3. CASE s = call[r].sha
    <3>1. s \notin Uploads
      BY <2>2, <2>3 DEF Unbuilt
    <3>2. context[r] = s /\ images[s] = s
      BY <2>2, <2>3, <3>1 DEF Holds, TagNamesItsTree
    <3>3. QED
      BY <1>1, <2>1, <2>3, <3>2
  <2>4. CASE s # call[r].sha
    BY <1>1, <2>1, <2>4
  <2>5. QED
    BY <2>3, <2>4
<1>3. CASE UNCHANGED images
  BY <1>3
<1>4. QED
  BY <1>2, <1>3
     DEF Handler, dockerVars, DockerFails, BuildRead, CandidateRemove, CandidateCreate,
         CandidateStart, ProbeHealthy, ProbeUnhealthy, Discard, AppRemove, AppCreate,
         AppStart, AppClean

LEMMA TrustKept ==
  ASSUME TypeInv, TagNamesItsTree, NEW r \in Requests, Sourced(r), OfOneUpload(r),
         Handler(r), NEW s \in Shas, Proved(s)
  PROVE  Proved(s)'
<1>1. images[s] # None
  BY OrchestratorAssumption DEF Proved, TypeInv, TypeOK, OrchestratorTypeOK
<1>2. images'[s] = images[s]
  BY <1>1, ImagesFixed
<1>3. proved \subseteq proved'
  BY DEF Handler, dockerVars, DockerFails, BuildRead, BuildTag, CandidateRemove,
         CandidateCreate, CandidateStart, ProbeHealthy, ProbeUnhealthy, Discard,
         AppRemove, AppCreate, AppStart, AppClean
<1>4. QED
  BY <1>2, <1>3 DEF Proved

LEMMA HandlerOnCourse ==
  ASSUME TypeInv, AnswersMatchCalls, TagNamesItsTree, NEW r \in Requests, OnCourse(r),
         HandlerStep(r)
  PROVE  OnCourse(r)'
<1> DEFINE step == call[r].at
           sha == call[r].sha
<1>0. /\ CallSettled(r) /\ Staged(r) /\ Sourced(r) /\ OfOneUpload(r)
      /\ Probed(r) /\ Swapped(r) /\ RolledBack(r) /\ BarAt(r)
  BY DEF OnCourse
<1>1. Handler(r) /\ UNCHANGED <<pc, job, stage, fresh, manifest, tracker>>
  BY DEF HandlerStep, ownVars
<1>2. step \in HandlerSteps /\ pc[r] \notin BetweenCalls
  <2>1. step \in HandlerSteps
    BY <1>1, HandlerBusy
  <2>2. call[r] # NoCall
    BY <2>1 DEF NoCall, HandlerSteps
  <2>3. QED
    BY <1>0, <2>1, <2>2 DEF CallSettled
<1>3. /\ \A x : Advance(r, x) =>
           /\ call'[r].at = x /\ call'[r].sha = sha /\ call'[r].open = call[r].open
      /\ \A x : Respond(r, x) =>
           \/ /\ call'[r].at = x /\ call'[r].sha = sha /\ call'[r].open
              /\ call[r].open
           \/ call'[r] = NoCall /\ call'[r].at = "none" /\ ~call[r].open
  BY <1>2, HandledFrame
<1>4. \E x : Advance(r, x) \/ Respond(r, x)
  BY HandlerMoves
<1>5. call[r].open =>
        /\ sha = Sha(r)
        /\ step \in {"build", "build_tag"} <=> pc[r] = "building"
        /\ step \in {"candidate_remove", "candidate_create", "candidate_start"}
             <=> pc[r] = "starting"
        /\ step = "probe" <=> pc[r] = "probing"
        /\ step = "discard" <=> pc[r] = "discarding"
        /\ InActivate(r) <=> pc[r] \in {"activating", "rolling_back"}
  BY <1>2, WaitingPlace
<1>6. CallSettled(r)' /\ Staged(r)' /\ RolledBack(r)' /\ BarAt(r)'
  <2>1. CallSettled(r)' /\ Staged(r)' /\ BarAt(r)'
    BY <1>0, <1>1, <1>2, <1>3, <1>4 DEF CallSettled, Staged, BarAt, Sha, Kind
  <2>2. ASSUME pc[r] = "rolling_back", call'[r].at = "ok"
        PROVE  AppClean(r) /\ step = "app_clean" /\ sha = Sha(r)
    <3>1. CASE Respond(r, "ok")
      <4>1. call[r].open
        BY <1>3, <2>2, <3>1
      <4>2. InActivate(r) /\ sha = Sha(r)
        BY <1>5, <2>2, <4>1
      <4>3. QED
        BY <1>1, <1>3, <2>2, <4>2
           DEF Handler, DockerFails, BuildRead, BuildTag, CandidateRemove, CandidateCreate,
               CandidateStart, ProbeHealthy, ProbeUnhealthy, Discard, AppRemove, AppCreate,
               AppStart, AppClean, At, InActivate
    <3>2. CASE ~Respond(r, "ok")
      BY <1>1, <1>3, <2>2, <3>2
         DEF Handler, DockerFails, BuildRead, BuildTag, CandidateRemove, CandidateCreate,
             CandidateStart, ProbeHealthy, ProbeUnhealthy, Discard, AppRemove, AppCreate,
             AppStart, AppClean, Finish
    <3>3. QED
      BY <3>1, <3>2
  <2>3. RolledBack(r)'
    BY <1>0, <1>1, <1>2, <2>2 DEF RolledBack, Swapped, Shows, AppClean, BetweenCalls, Sha
  <2>4. QED
    BY <2>1, <2>3
<1>7. pc[r] = "probing" => call[r].open /\ step = "probe"
  BY <1>0, <1>5 DEF CallSettled
<1>8. /\ pc[r] \notin {"start", "profile", "check", "wipe", "move", "env", "record", "finish"}
      /\ Sha(r)' = Sha(r)
  BY <1>1, <1>2 DEF BetweenCalls, Sha
<1>9. pc[r] = "activating" => Proved(Sha(r))'
  <2>1. pc[r] = "activating" => Sha(r) \in Shas /\ Proved(Sha(r))
    BY <1>0 DEF Swapped, TypeInv, JobOK, NoSha, NoKind
  <2>2. QED
    BY <1>0, <1>1, <1>8, <2>1, TrustKept DEF Proved
<1>10. ASSUME \E x \in {"ok", "unhealthy", "error"} : Respond(r, x)
       PROVE  Sourced(r)' /\ OfOneUpload(r)' /\ ~InActivate(r)'
  BY <1>1, <1>3, <1>8, <1>10 DEF Sourced, OfOneUpload, InActivate
<1>11. CASE DockerFails(r)
  <2>1. call'[r].at \in {"error", "none"}
    BY <1>3, <1>11 DEF DockerFails
  <2>2. Probed(r)'
    BY <1>0, <1>1, <1>8, <1>11, <2>1 DEF DockerFails, Probed, Shows, Proved
  <2>3. Swapped(r)'
    BY <1>1, <1>8, <1>9, <2>1 DEF Swapped, InActivate
  <2>4. QED
    BY <1>6, <1>10, <1>11, <2>2, <2>3 DEF OnCourse, DockerFails
<1>12. CASE BuildRead(r)
  <2>1. call'[r].at = "build_tag" /\ call'[r].sha = sha
    BY <1>3, <1>12 DEF BuildRead
  <2>2. context'[r] = source
    BY <1>12 DEF BuildRead, TypeInv, TypeOK, OrchestratorTypeOK
  <2>3. Sourced(r)' /\ OfOneUpload(r)'
    BY <1>0, <1>1, <1>8, <1>12, <2>1, <2>2 DEF BuildRead, At, Sourced, OfOneUpload, Unbuilt
  <2>4. Probed(r)'
    BY <1>0, <1>1, <1>8, <1>12, <2>1 DEF BuildRead, Probed, Shows
  <2>5. Swapped(r)'
    BY <1>1, <1>8, <1>9, <2>1 DEF Swapped, InActivate
  <2>6. QED
    BY <1>6, <2>3, <2>4, <2>5 DEF OnCourse
<1>13. CASE BuildTag(r)
  <2>1. call'[r].at \in {"ok", "error", "none"} /\ step = "build_tag"
    BY <1>3, <1>13 DEF BuildTag, Finish, At
  <2>2. pc[r] # "probing" /\ (call'[r].at = "ok" => pc[r] = "building")
    BY <1>3, <1>5, <1>7, <1>13, <2>1 DEF BuildTag, Finish
  <2>3. Probed(r)'
    BY <1>1, <2>1, <2>2 DEF Probed
  <2>4. Swapped(r)'
    BY <1>1, <1>8, <1>9, <2>1, <2>2 DEF Swapped, InActivate
  <2>5. QED
    BY <1>6, <1>10, <1>13, <2>3, <2>4 DEF OnCourse, BuildTag, Finish
<1>14. CASE CandidateRemove(r) \/ CandidateCreate(r)
  <2>1. /\ step \in {"candidate_remove", "candidate_create"}
        /\ call'[r].at \in {"candidate_create", "candidate_start"} /\ call'[r].sha = sha
        /\ call'[r].at = "candidate_start" => CandidateCreate(r)
    BY <1>3, <1>14 DEF CandidateRemove, CandidateCreate, At
  <2>2. pc[r] # "probing"
    BY <1>7, <2>1
  <2>3. Sourced(r)' /\ OfOneUpload(r)'
    BY <1>1, <1>8, <2>1 DEF Sourced, OfOneUpload
  <2>4. Probed(r)'
    BY <1>1, <2>1, <2>2 DEF Probed, Shows, CandidateCreate, NewContainer
  <2>5. Swapped(r)'
    BY <1>1, <1>8, <1>9, <2>1 DEF Swapped, InActivate
  <2>6. QED
    BY <1>6, <2>3, <2>4, <2>5 DEF OnCourse
<1>15. CASE CandidateStart(r)
  <2>1. call'[r].at \in {"ok", "error", "none"} /\ step = "candidate_start"
    BY <1>3, <1>15 DEF CandidateStart, Finish, At
  <2>2. /\ pc[r] # "probing"
        /\ call'[r].at = "ok" => sha = Sha(r) /\ pc[r] = "starting"
    BY <1>3, <1>5, <1>7, <1>15, <2>1 DEF CandidateStart, Finish
  <2>3. candidate'.by = r /\ candidate'.running /\ Shows(candidate', sha)
    <3>1. candidate # NoContainer /\ candidate \in Containers /\ candidate.by = r
      BY <1>15, OrchestratorAssumption
         DEF CandidateStart, NoContainer, TypeInv, TypeOK, OrchestratorTypeOK
    <3>2. candidate \in [by : Requests, sha : Shas, tree : Trees, running : BOOLEAN]
      BY <3>1 DEF Containers
    <3>3. Shows(candidate, sha)
      BY <1>0, <2>1 DEF Probed
    <3>4. QED
      BY <1>15, <3>1, <3>2, <3>3 DEF CandidateStart, Shows
  <2>4. Probed(r)'
    BY <1>1, <1>8, <1>15, <2>1, <2>2, <2>3 DEF Probed, Shows, CandidateStart
  <2>5. Swapped(r)'
    BY <1>1, <1>8, <1>9, <2>1, <2>2 DEF Swapped, InActivate
  <2>6. QED
    BY <1>6, <1>10, <1>15, <2>4, <2>5 DEF OnCourse, CandidateStart, Finish
<1>16. CASE ProbeHealthy(r)
  <2>1. step = "probe" /\ call'[r].at \in {"healthy", "none"}
    BY <1>3, <1>16 DEF ProbeHealthy, At
  <2>2. call'[r].at = "healthy" => pc[r] = "probing"
    BY <1>3, <1>5, <1>16, <2>1 DEF ProbeHealthy
  <2>3. call'[r].at = "healthy" => Proved(Sha(r))'
    BY <1>0, <1>8, <1>16, <2>2 DEF ProbeHealthy, Probed, Shows, Proved
  <2>4. Sourced(r)' /\ OfOneUpload(r)'
    BY <1>1, <1>8, <2>1 DEF Sourced, OfOneUpload
  <2>5. Probed(r)'
    BY <1>0, <1>1, <1>8, <1>16, <2>1, <2>3 DEF Probed, Shows, ProbeHealthy
  <2>6. Swapped(r)'
    BY <1>1, <1>8, <1>9, <2>1, <2>2 DEF Swapped, InActivate
  <2>7. QED
    BY <1>6, <2>4, <2>5, <2>6 DEF OnCourse
<1>17. CASE ProbeUnhealthy(r)
  <2>1. call'[r].at \in {"unhealthy", "none"}
    BY <1>3, <1>17 DEF ProbeUnhealthy
  <2>2. Probed(r)'
    BY <1>0, <1>1, <1>8, <1>17, <2>1 DEF ProbeUnhealthy, Probed, Shows, Proved, dockerVars
  <2>3. Swapped(r)'
    BY <1>1, <1>8, <1>9, <2>1 DEF Swapped, InActivate
  <2>4. QED
    BY <1>6, <1>10, <1>17, <2>2, <2>3 DEF OnCourse, ProbeUnhealthy
<1>18. CASE Discard(r)
  <2>1. step = "discard" /\ call'[r].at \in {"ok", "error", "none"}
    BY <1>3, <1>18 DEF Discard, At, Finish
  <2>2. pc[r] # "probing" /\ (call'[r].at = "ok" => pc[r] = "discarding")
    BY <1>3, <1>5, <1>7, <1>18, <2>1 DEF Discard, Finish
  <2>3. Probed(r)'
    BY <1>1, <2>1, <2>2 DEF Probed
  <2>4. Swapped(r)'
    BY <1>1, <1>8, <1>9, <2>1, <2>2 DEF Swapped, InActivate
  <2>5. QED
    BY <1>6, <1>10, <1>18, <2>3, <2>4 DEF OnCourse, Discard, Finish
<1>19. CASE AppRemove(r) \/ AppCreate(r) \/ AppStart(r)
  <2>1. /\ step \in {"app_remove", "app_create", "app_start"}
        /\ call'[r].at \in {"app_create", "app_start", "app_clean"}
        /\ call'[r].sha = sha
        /\ UNCHANGED <<images, proved, candidate>>
    BY <1>3, <1>19 DEF AppRemove, AppCreate, AppStart, At
  <2>2. call'[r].at \in {"app_start", "app_clean"} => Shows(app, sha)'
    <3>1. CASE AppCreate(r)
      BY <3>1, <2>1 DEF AppCreate, NewContainer, Shows
    <3>2. CASE AppStart(r)
      <4>1. app # NoContainer /\ app \in Containers
        BY <3>2, OrchestratorAssumption
           DEF AppStart, NoContainer, TypeInv, TypeOK, OrchestratorTypeOK
      <4>2. app \in [by : Requests, sha : Shas, tree : Trees, running : BOOLEAN]
        BY <4>1 DEF Containers
      <4>3. Shows(app, sha)
        BY <1>0, <3>2 DEF Swapped, AppStart, At
      <4>4. QED
        BY <2>1, <3>2, <4>2, <4>3 DEF AppStart, Shows
    <3>3. CASE AppRemove(r)
      BY <1>3, <3>3 DEF AppRemove
    <3>4. QED
      BY <1>19, <3>1, <3>2, <3>3
  <2>3. Sourced(r)' /\ OfOneUpload(r)'
    BY <1>1, <1>8, <2>1 DEF Sourced, OfOneUpload
  <2>4. Probed(r)'
    BY <1>1, <1>7, <2>1 DEF Probed
  <2>5. Swapped(r)'
    BY <1>0, <1>1, <1>8, <1>9, <2>1, <2>2 DEF Swapped, InActivate, Proved, Shows
  <2>6. QED
    BY <1>6, <2>3, <2>4, <2>5 DEF OnCourse
<1>20. CASE AppClean(r)
  <2>1. /\ step = "app_clean" /\ call'[r].at \in {"ok", "error", "none"}
        /\ UNCHANGED <<images, proved, app>> /\ candidate' = NoContainer
    BY <1>3, <1>20 DEF AppClean, At, Finish
  <2>2. /\ pc[r] # "probing"
        /\ call'[r].at = "ok" => pc[r] \in {"activating", "rolling_back"} /\ sha = Sha(r)
    BY <1>3, <1>5, <1>7, <1>20, <2>1 DEF AppClean, Finish, InActivate
  <2>3. Probed(r)'
    BY <1>1, <2>1, <2>2 DEF Probed
  <2>4. Swapped(r)'
    BY <1>0, <1>1, <1>8, <1>9, <2>1, <2>2 DEF Swapped, InActivate, Shows
  <2>5. QED
    BY <1>6, <1>10, <1>20, <2>3, <2>4 DEF OnCourse, AppClean, Finish
<1>21. QED
  BY <1>1, <1>11, <1>12, <1>13, <1>14, <1>15, <1>16, <1>17, <1>18, <1>19, <1>20 DEF Handler

-----------------------------------------------------------------------------
(* One at a time: who takes a step is the only one under way.              *)

LEMMA RequestFrame ==
  ASSUME TypeInv, NEW r \in Requests, RequestStep(r)
  PROVE  /\ pc[r] # "idle"
         /\ \A q \in Requests \ {r} : pc'[q] = pc[q] /\ call'[q] = call[q]
<1> USE DEF CallsUnchanged
<1>1. CASE \/ ClearStage(r) \/ FillFromGit(r) \/ FillFromUpload(r) \/ BeginProgress(r)
           \/ FindProfile(r) \/ Accept(r) \/ Reject(r)
  BY <1>1, GotoFrame DEF ClearStage, FillFromGit, FillFromUpload, BeginProgress,
                         FindProfile, Accept, Reject
<1>2. CASE WipeSource(r) \/ MoveStage(r) \/ MoveFails(r)
  BY <1>2, GotoFrame DEF WipeSource, MoveStage, MoveFails
<1>3. CASE FillFails(r) \/ EndProgress(r) \/ RollbackRecord(r)
  BY <1>3, ReturnFrame DEF FillFails, EndProgress, RollbackRecord
<1>4. CASE RequestBuild(r) \/ BuildDone(r) \/ CandidateDone(r)
  BY <1>4, GotoFrame, OpenFrame, ConsumeFrame DEF RequestBuild, BuildDone, CandidateDone
<1>5. CASE Healthy(r) \/ Unhealthy(r)
  BY <1>5, GotoFrame, OpenFrame DEF Healthy, Unhealthy
<1>6. CASE ProbeAgain(r)
  BY <1>6, OpenFrame DEF ProbeAgain
<1>7. CASE Discarded(r) \/ Activated(r) \/ RollbackActivated(r)
  BY <1>7, GotoFrame, ConsumeFrame DEF Discarded, Activated, RollbackActivated
<1>8. CASE RollbackFails(r)
  BY <1>8, ReturnFrame, ConsumeFrame DEF RollbackFails
<1>9. CASE Record(r) \/ NoteFailure(r)
  BY <1>9, GotoFrame DEF Record, NoteFailure
<1>10. QED
  BY <1>1, <1>2, <1>3, <1>4, <1>5, <1>6, <1>7, <1>8, <1>9 DEF RequestStep

(* The part of the invariant that speaks of the requests.                  *)
Courses == Alone /\ \A r \in Requests : OnCourse(r)

LEMMA CoursesKept ==
  ASSUME NEW r \in Requests, \A q \in Requests \ {r} : Resting(q), OnCourse(r)',
         \A q \in Requests \ {r} : pc'[q] = pc[q] /\ call'[q] = call[q]
  PROVE  Courses'
<1>1. \A q \in Requests \ {r} : Resting(q)'
  BY DEF Resting
<1>2. Alone'
  BY <1>1 DEF Alone
<1>3. ASSUME NEW q \in Requests \ {r}
      PROVE  OnCourse(q)'
  <2>1. Resting(q)'
    BY <1>1
  <2>2. pc'[q] = "idle" /\ call'[q].at = "none" /\ call'[q] = NoCall
    BY <2>1 DEF Resting, NoCall
  <2>3. QED
    BY <2>2 DEF OnCourse, CallSettled, Staged, Sourced, OfOneUpload, Probed, Swapped,
                RolledBack, BarAt, InActivate
<1>4. QED
  BY <1>2, <1>3 DEF Courses

LEMMA StepCourses ==
  ASSUME BuiltInv, SerialInv, [SerialNext]_vars
  PROVE  Courses'
<1>1. /\ TypeInv /\ AnswersMatchCalls
      /\ Alone /\ FreshUnbuilt /\ TagNamesItsTree /\ TargetsProved
      /\ \A r \in Requests : OnCourse(r)
      /\ call \in [Requests -> Calls]
  BY DEF BuiltInv, SerialInv, TypeInv, TypeOK, OrchestratorTypeOK
<1>2. ASSUME NEW r \in Requests, RequestStep(r)
      PROVE  Courses'
  <2>1. \A q \in Requests \ {r} : Resting(q)
    BY <1>1, <1>2, RequestFrame DEF Alone, Resting
  <2>2. OnCourse(r)'
    BY <1>1, <1>2, PrepareOnCourse, CallOnCourse, EndOnCourse DEF RequestStep
  <2>3. QED
    BY <1>1, <1>2, <2>1, <2>2, RequestFrame, CoursesKept
<1>3. ASSUME NEW r \in Requests, HandlerStep(r)
      PROVE  Courses'
  <2>1. call[r].at \in HandlerSteps
    BY <1>3, HandlerBusy DEF HandlerStep
  <2>2. \A q \in Requests \ {r} : Resting(q)
    BY <1>1, <2>1 DEF Alone, Resting, NoCall, HandlerSteps
  <2>3. UNCHANGED pc /\ \A q \in Requests \ {r} : call'[q] = call[q]
    BY <1>1, <1>3, <2>1, HandlerMoves, HandledFrame DEF HandlerStep, ownVars
  <2>4. OnCourse(r)'
    BY <1>1, <1>3, HandlerOnCourse
  <2>5. QED
    BY <2>2, <2>3, <2>4, CoursesKept
<1>4. ASSUME NEW r \in Requests, GiveUp(r), UNCHANGED <<ownVars, manifest, tracker>>
      PROVE  Courses'
  <2>1. call[r].at \in HandlerSteps /\ call[r].open
    BY <1>4 DEF GiveUp
  <2>2. \A q \in Requests \ {r} : Resting(q)
    BY <1>1, <2>1 DEF Alone, Resting, NoCall, HandlerSteps
  <2>3. call[r] \in [at : HandlerSteps, sha : Shas, open : BOOLEAN]
    BY <1>1, <2>1, HandlerCall DEF CallsOK
  <2>4. /\ \A q \in Requests \ {r} : call'[q] = call[q]
        /\ \/ /\ call[r].at = "probe"
              /\ call'[r].at = "error" /\ call'[r].open
           \/ /\ call[r].at # "probe" /\ call'[r].at = call[r].at
              /\ call'[r].sha = call[r].sha
    BY <1>1, <1>4, <2>1, <2>3 DEF GiveUp
  <2>5. OnCourse(r)'
    <3>1. /\ UNCHANGED <<pc, job, stage, fresh, manifest, tracker>>
          /\ UNCHANGED <<source, context, images, app, candidate, proved>>
      BY <1>4 DEF ownVars, GiveUp, dockerVars
    <3>2. pc[r] \notin BetweenCalls /\ (pc[r] = "probing" <=> call[r].at = "probe")
      <4>1. call[r] # NoCall
        BY <2>1 DEF NoCall
      <4>2. QED
        BY <1>1, <2>1, <4>1, WaitingPlace DEF OnCourse, CallSettled
    <3>3. call'[r].at # "ok" /\ call'[r].at # "healthy"
      BY <2>1, <2>4 DEF HandlerSteps
    <3>4. CallSettled(r)' /\ Staged(r)' /\ BarAt(r)'
      BY <1>1, <2>4, <3>1, <3>2 DEF OnCourse, CallSettled, Staged, BarAt, Sha, Kind
    <3>5. Sourced(r)' /\ OfOneUpload(r)'
      BY <1>1, <2>4, <3>1 DEF OnCourse, Sourced, OfOneUpload, Unbuilt, Sha
    <3>6. Probed(r)' /\ Swapped(r)'
      BY <1>1, <2>4, <3>1, <3>3 DEF OnCourse, Probed, Swapped, InActivate, Shows, Proved, Sha
    <3>7. RolledBack(r)'
      BY <1>1, <3>1, <3>3 DEF OnCourse, RolledBack, Shows, Sha
    <3>8. QED
      BY <3>4, <3>5, <3>6, <3>7 DEF OnCourse
  <2>6. QED
    BY <1>4, <2>2, <2>4, <2>5, CoursesKept DEF ownVars
<1>5. ASSUME NEW r \in Requests, Quiet, Arrival(r)
      PROVE  Courses'
  <2>1. \A q \in Requests : Resting(q)
    BY <1>5 DEF Quiet, Resting
  <2>2. CASE \E kind \in Kinds : Admit(r, kind)
    <3>1. /\ pc'[r] = "clear" /\ UNCHANGED call
          /\ \A q \in Requests \ {r} : pc'[q] = pc[q]
      BY <1>1, <2>2, GotoFrame DEF Admit, CallsUnchanged
    <3>2. OnCourse(r)'
      BY <2>1, <3>1, AsideOnCourse DEF Resting, Staged, BarAt
    <3>3. QED
      BY <2>1, <3>1, <3>2, CoursesKept
  <2>3. CASE RollbackBegin(r)
    <3>1. /\ pc'[r] = "rolling_back" /\ call'[r].at = "app_remove"
          /\ call'[r].sha = manifest.previous.tag
          /\ \A q \in Requests \ {r} : pc'[q] = pc[q] /\ call'[q] = call[q]
          /\ UNCHANGED <<images, proved>>
      BY <1>1, <2>3, GotoFrame, OpenFrame DEF RollbackBegin, dockerVars
    <3>2. Proved(call[r].sha)'
      BY <1>1, <2>3, <3>1 DEF RollbackBegin, TargetsProved, Proved
    <3>3. RolledBack(r)'
      <4>1. manifest.previous # None /\ manifest' = manifest
        BY <2>3 DEF RollbackBegin
      <4>2. Sha(r)' = manifest.previous.tag
        BY <1>1, <2>3 DEF RollbackBegin, Sha, TypeInv, TypeOK
      <4>3. QED
        BY <3>1, <4>1, <4>2 DEF RolledBack
    <3>4. OnCourse(r)'
      BY <3>1, <3>2, <3>3 DEF OnCourse, CallSettled, Staged, Sourced, OfOneUpload, Probed,
                              Swapped, BarAt, InActivate, BetweenCalls
    <3>5. QED
      BY <2>1, <3>1, <3>4, CoursesKept
  <2>4. QED
    BY <1>5, <2>2, <2>3 DEF Arrival
<1>6. ASSUME NEW running \in BOOLEAN, OperateApp(running),
             UNCHANGED <<ownVars, manifest, tracker>>
      PROVE  Courses'
  <2>1. app'.sha = app.sha /\ app'.tree = app.tree
    BY <1>1, <1>6 DEF OperateApp, TypeInv, TypeOK, OrchestratorTypeOK, Containers
  <2>2. /\ UNCHANGED <<pc, job, stage, fresh, manifest, tracker>>
        /\ UNCHANGED <<call, source, context, images, candidate, proved>>
    BY <1>6 DEF ownVars, OperateApp
  <2>3. ASSUME NEW r \in Requests
        PROVE  OnCourse(r)'
    <3>1. CallSettled(r)' /\ Staged(r)' /\ BarAt(r)' /\ Sourced(r)' /\ OfOneUpload(r)'
      BY <1>1, <2>2 DEF OnCourse, CallSettled, Staged, BarAt, Sourced, OfOneUpload, Unbuilt,
                        Sha, Kind
    <3>2. Probed(r)'
      BY <1>1, <2>2 DEF OnCourse, Probed, Shows, Proved, Sha
    <3>3. Swapped(r)'
      BY <1>1, <2>1, <2>2 DEF OnCourse, Swapped, InActivate, Shows, Proved, Sha
    <3>4. RolledBack(r)'
      BY <1>1, <2>1, <2>2 DEF OnCourse, RolledBack, Shows, Sha
    <3>5. QED
      BY <3>1, <3>2, <3>3, <3>4 DEF OnCourse
  <2>4. Alone'
    BY <1>1, <2>2 DEF Alone, Resting
  <2>5. QED
    BY <2>3, <2>4 DEF Courses
<1>7. CASE DashboardCrash
  <2>1. /\ \A r \in Requests : pc'[r] = "idle"
        /\ UNCHANGED <<source, fresh, dockerVars>>
    BY <1>7 DEF DashboardCrash, StagingUnchanged
  <2>2. ASSUME NEW r \in Requests
        PROVE  \/ call'[r] = NoCall
               \/ /\ call'[r].at = call[r].at /\ call'[r].sha = call[r].sha
                  /\ call[r].at \in HandlerSteps
    <3>1. CASE call[r].at \in HandlerSteps
      <4>1. call[r] \in [at : HandlerSteps, sha : Shas, open : BOOLEAN]
        BY <1>1, <3>1, HandlerCall DEF CallsOK
      <4>2. QED
        BY <1>7, <3>1, <4>1 DEF DashboardCrash
    <3>2. CASE call[r].at \notin HandlerSteps
      BY <1>7, <3>2 DEF DashboardCrash
    <3>3. QED
      BY <3>1, <3>2
  <2>3. \A r \in Requests : OnCourse(r)'
    BY <1>1, <2>1, <2>2, LeftOnCourse
  <2>4. \A r \in Requests : Resting(r) => Resting(r)'
    <3>1. NoCall.at \notin HandlerSteps
      BY DEF NoCall, HandlerSteps
    <3>2. QED
      BY <2>1, <2>2, <3>1 DEF Resting
  <2>5. Alone'
    BY <1>1, <2>4 DEF Alone
  <2>6. QED
    BY <2>3, <2>5 DEF Courses
<1>8. CASE UNCHANGED vars
  <2>1. /\ UNCHANGED <<pc, job, stage, fresh, manifest, tracker>>
        /\ UNCHANGED <<call, source, context, images, app, candidate, proved>>
    BY <1>8 DEF vars, ownVars, dockerVars
  <2>2. ASSUME NEW r \in Requests
        PROVE  OnCourse(r)'
    <3>1. CallSettled(r)' /\ Staged(r)' /\ BarAt(r)' /\ Sourced(r)' /\ OfOneUpload(r)'
      BY <1>1, <2>1 DEF OnCourse, CallSettled, Staged, BarAt, Sourced, OfOneUpload, Unbuilt,
                        Sha, Kind
    <3>2. Probed(r)' /\ Swapped(r)' /\ RolledBack(r)'
      BY <1>1, <2>1 DEF OnCourse, Probed, Swapped, RolledBack, InActivate, Shows, Proved, Sha
    <3>3. QED
      BY <3>1, <3>2 DEF OnCourse
  <2>3. QED
    BY <1>1, <2>1, <2>2 DEF Courses, Alone, Resting
<1>9. QED
  BY <1>2, <1>3, <1>4, <1>5, <1>6, <1>7, <1>8 DEF SerialNext, Work

-----------------------------------------------------------------------------
(* What images, manifest and traffic keep.                                 *)

(* Nothing but a handler touches images, containers and verdicts, save the *)
(* operator, who starts and stops the app container.                       *)
LEMMA DockerAside ==
  ASSUME TypeInv, [SerialNext]_vars, \A r \in Requests : ~HandlerStep(r)
  PROVE  UNCHANGED <<images, proved>> /\ app'.tree = app.tree /\ fresh' \subseteq fresh
<1>1. ASSUME NEW r \in Requests, RequestStep(r)
      PROVE  UNCHANGED <<images, proved, app>> /\ fresh' \subseteq fresh
  BY <1>1
     DEF RequestStep, dockerVars, CallsUnchanged, WorkUnchanged, StagingUnchanged,
         ClearStage, FillFromGit, FillFromUpload,
         FillFails, BeginProgress, FindProfile, Accept, Reject, WipeSource, MoveStage,
         MoveFails, RequestBuild, BuildDone, CandidateDone, Healthy, ProbeAgain, Unhealthy,
         Discarded, Activated, Record, NoteFailure, EndProgress, RollbackActivated,
         RollbackFails, RollbackRecord
<1>2. ASSUME NEW running \in BOOLEAN, OperateApp(running)
      PROVE  app'.tree = app.tree
  BY <1>2 DEF OperateApp, TypeInv, TypeOK, OrchestratorTypeOK, Containers
<1>3. QED
  BY <1>1, <1>2 DEF SerialNext, Work, Arrival, vars, ownVars, dockerVars, Admit, CallsUnchanged,
                    StagingUnchanged, RollbackBegin, GiveUp, OperateApp, DashboardCrash

LEMMA StepNames ==
  ASSUME TypeInv, SerialInv, [SerialNext]_vars
  PROVE  (FreshUnbuilt /\ TagNamesItsTree)'
<1>1. /\ images \in [Shas -> Trees \cup {None}] /\ fresh \subseteq Uploads
      /\ \A r \in Requests : Sourced(r) /\ OfOneUpload(r)
      /\ FreshUnbuilt /\ TagNamesItsTree
  BY DEF SerialInv, OnCourse, TypeInv, TypeOK, OrchestratorTypeOK
<1>2. CASE UNCHANGED images /\ fresh' \subseteq fresh
  BY <1>1, <1>2 DEF FreshUnbuilt, TagNamesItsTree
<1>3. ASSUME NEW r \in Requests, BuildTag(r), UNCHANGED fresh
      PROVE  (FreshUnbuilt /\ TagNamesItsTree)'
  <2>1. images' = [images EXCEPT ![call[r].sha] = context[r]]
    BY <1>3 DEF BuildTag
  <2>2. context[r] \in Holds(call[r].sha) /\ Unbuilt(call[r].sha)
    BY <1>1, <1>3 DEF BuildTag, At, Sourced, OfOneUpload
  <2>3. TagNamesItsTree'
    BY <1>1, <2>1, <2>2 DEF TagNamesItsTree, Holds
  <2>4. FreshUnbuilt'
    BY <1>1, <1>3, <2>1, <2>2, DeploymentAssumption DEF FreshUnbuilt, Unbuilt
  <2>5. QED
    BY <2>3, <2>4
<1>4. ASSUME NEW r \in Requests, HandlerStep(r)
      PROVE  UNCHANGED fresh /\ (BuildTag(r) \/ UNCHANGED images)
  BY <1>4
     DEF HandlerStep, ownVars, Handler, dockerVars, DockerFails, BuildRead, CandidateRemove,
         CandidateCreate, CandidateStart, ProbeHealthy, ProbeUnhealthy, Discard, AppRemove,
         AppCreate, AppStart, AppClean
<1>5. QED
  BY <1>2, <1>3, <1>4, DockerAside

(* Trust in a revision is never lost.                                      *)
LEMMA StepTrust ==
  ASSUME TypeInv, SerialInv, [SerialNext]_vars, NEW s \in Shas, Proved(s)
  PROVE  Proved(s)'
<1>1. ASSUME NEW r \in Requests, HandlerStep(r)
      PROVE  Proved(s)'
  BY <1>1, TrustKept DEF SerialInv, OnCourse, HandlerStep
<1>2. QED
  BY <1>1, DockerAside DEF Proved

LEMMA StepTargetsProved ==
  ASSUME TypeInv, SerialInv, [SerialNext]_vars
  PROVE  TargetsProved'
<1>1. /\ manifest \in DeployState /\ TargetsProved
      /\ \A r \in Requests : Swapped(r)
  BY DEF TypeInv, TypeOK, ManifestTypeOK, SerialInv, OnCourse
<1> DEFINE Trusted(record) == record.tag \in Shas /\ Proved(record.tag)
<1>2. \A record \in {manifest.current, manifest.previous} \ {None} : Trusted(record)
  <2>1. ASSUME NEW record \in {manifest.current, manifest.previous} \ {None}
        PROVE  record.tag \in Shas
    <3>1. record \in DeploymentRecord
      BY <1>1, <2>1 DEF DeployState
    <3>2. record.tag = record.sha
      BY <2>1 DEF TypeInv, Coherent, TargetsActive
    <3>3. QED
      BY <3>1, <3>2 DEF DeploymentRecord
  <2>2. QED
    BY <1>1, <2>1 DEF TargetsProved
<1>3. ASSUME \A record \in {manifest'.current, manifest'.previous} \ {None} : Trusted(record)
      PROVE  TargetsProved'
  BY <1>3, StepTrust DEF TargetsProved
<1>4. CASE UNCHANGED manifest
  BY <1>2, <1>3, <1>4
<1>5. ASSUME NEW r \in Requests, Record(r), manifest' # manifest
      PROVE  TargetsProved'
  <2>1. pc[r] = "record" /\ RecordSuccess(Sha(r), Sha(r))
    BY <1>5 DEF Record, Goto
  <2>2. Sha(r) \in Shas /\ Proved(Sha(r))
    BY <1>1, <2>1 DEF Swapped, TypeInv, JobOK, NoSha, NoKind
  <2>3. PICK state \in Reads :
          /\ manifest'.current = Active(Sha(r), Sha(r))
          /\ manifest'.previous = state.current
    BY <2>1 DEF RecordSuccess
  <2>4. manifest'.previous \in {manifest.current, None}
    BY <2>3 DEF Reads, EmptyState
  <2>5. Trusted(manifest'.current)
    BY <2>2, <2>3 DEF Active
  <2>6. QED
    BY <1>2, <1>3, <2>4, <2>5
<1>6. ASSUME NEW r \in Requests, NoteFailure(r), manifest' # manifest
      PROVE  TargetsProved'
  <2>1. PICK state \in Reads :
          manifest' = [state EXCEPT !.history = Remember(@, Failed(Sha(r)))]
    BY <1>6 DEF NoteFailure, RecordFailure
  <2>2. state = manifest \/ state = EmptyState
    BY DEF Reads
  <2>3. manifest'.current = state.current /\ manifest'.previous = state.previous
    BY <1>1, <2>1, <2>2 DEF DeployState, EmptyState
  <2>4. /\ manifest'.current \in {manifest.current, None}
        /\ manifest'.previous \in {manifest.previous, None}
    BY <2>2, <2>3 DEF EmptyState
  <2>5. QED
    BY <1>2, <1>3, <2>4
<1>7. ASSUME NEW r \in Requests, RollbackRecord(r), manifest' # manifest
      PROVE  TargetsProved'
  <2>1. /\ manifest.previous # None
        /\ manifest'.current = Active(manifest.previous.sha, manifest.previous.tag)
        /\ manifest'.previous = None
    BY <1>7 DEF RollbackRecord, RollbackToPrevious
  <2>2. Trusted(manifest'.current)
    BY <1>2, <2>1 DEF Active
  <2>3. QED
    BY <1>3, <2>1, <2>2
<1>8. ASSUME NEW r \in Requests, RequestStep(r)
      PROVE  TargetsProved'
  BY <1>4, <1>5, <1>6, <1>7, <1>8
     DEF RequestStep, ClearStage, FillFromGit, FillFromUpload, FillFails, BeginProgress,
         FindProfile, Accept, Reject, WipeSource, MoveStage, MoveFails, RequestBuild,
         BuildDone, CandidateDone, Healthy, ProbeAgain, Unhealthy, Discarded, Activated,
         EndProgress, RollbackActivated, RollbackFails
<1>9. QED
  BY <1>4, <1>8 DEF SerialNext, Work, Arrival, vars, Admit, RollbackBegin, HandlerStep,
                    OperateApp, DashboardCrash

-----------------------------------------------------------------------------
(* The invariant, and what it says.                                        *)

AloneInv == BuiltInv /\ TrackerSettles /\ SerialInv

LEMMA SerialStep == AloneInv /\ [SerialNext]_vars => AloneInv'
<1> SUFFICES ASSUME AloneInv, [SerialNext]_vars
             PROVE  AloneInv'
  OBVIOUS
<1>1. [Next]_vars
  BY DEF SerialNext, Next
<1>2. TypeInv /\ BuiltInv /\ TrackerSettles /\ SerialInv
  BY DEF AloneInv, BuiltInv
<1>3. BuiltInv' /\ TrackerSettles'
  BY <1>1, <1>2, BuiltStep, StepSettles
<1>4. SerialInv'
  BY <1>2, StepCourses, StepNames, StepTargetsProved DEF SerialInv, Courses
<1>5. QED
  BY <1>3, <1>4 DEF AloneInv

LEMMA SerialInit == Init => AloneInv
<1> SUFFICES ASSUME Init
             PROVE  AloneInv
  OBVIOUS
<1>1. \A r \in Requests : pc[r] = "idle" /\ call[r] = NoCall /\ call[r].at = "none"
  BY DEF Init, OrchestratorInit, NoCall
<1>2. Alone /\ \A r \in Requests : OnCourse(r)
  BY <1>1 DEF Alone, Resting, OnCourse, CallSettled, Staged, Sourced, OfOneUpload, Probed,
              Swapped, RolledBack, BarAt, InActivate
<1>3. \A s \in Shas : images[s] = None
  BY DEF Init, OrchestratorInit
<1>4. FreshUnbuilt /\ TagNamesItsTree
  BY <1>3, DeploymentAssumption DEF Init, FreshUnbuilt, TagNamesItsTree
<1>5. TargetsProved
  BY DEF Init, ManifestInit, EmptyState, TargetsProved
<1>6. TrackerSettles
  <2>1. tracker = TrackerIdle /\ TrackerIdle.active = FALSE
    BY DEF Init, TrackerInit, TrackerIdle
  <2>2. QED
    BY <2>1, Zenon DEF TrackerSettles
<1>7. QED
  BY <1>2, <1>4, <1>5, <1>6, BuiltInit DEF AloneInv, SerialInv

LEMMA SerialHolds == SerialSpec => []AloneInv
  BY SerialInit, SerialStep, PTL DEF SerialSpec

(* What is reported as deployed, or recorded as rolled back to, is what    *)
(* runs and what the manifest says, answered a health check, and has no    *)
(* candidate beside it: with requests one at a time the last page of a     *)
(* deploy tells the truth, whatever failed before and whoever operated the *)
(* app container meanwhile.                                                *)
THEOREM SuccessIsServed == SerialSpec => SuccessMeansServed
<1> DEFINE Served(r) == /\ app.sha = Sha(r)
                        /\ app.tree = images[Sha(r)] /\ app.tree \in proved
                        /\ manifest'.current = Active(Sha(r), Sha(r))
                        /\ candidate = NoContainer
           Reported(r) == \/ pc[r] = "finish" /\ EndProgress(r)
                          \/ RollbackRecord(r) /\ manifest' # manifest
<1>1. ASSUME AloneInv, NEW r \in Requests, Reported(r)
      PROVE  Served(r)
  <2>1. Swapped(r) /\ RolledBack(r)
    BY <1>1 DEF AloneInv, SerialInv, OnCourse
  <2>2. CASE pc[r] = "finish" /\ EndProgress(r)
    BY <2>1, <2>2 DEF EndProgress, Swapped, Shows, Proved
  <2>3. CASE RollbackRecord(r) /\ manifest' # manifest
    <3>1. pc[r] = "rollback_record"
      BY <2>3 DEF RollbackRecord, Return, Goto
    <3>2. /\ manifest.previous # None /\ Sha(r) = manifest.previous.tag
          /\ Shows(app, Sha(r)) /\ candidate = NoContainer
      BY <2>1, <3>1 DEF RolledBack
    <3>3. manifest'.current = Active(manifest.previous.sha, manifest.previous.tag)
      BY <2>3 DEF RollbackRecord, RollbackToPrevious
    <3>4. manifest.previous.sha = manifest.previous.tag
      BY <1>1, <3>2 DEF AloneInv, BuiltInv, TypeInv, Coherent, TargetsActive
    <3>5. Proved(Sha(r))
      BY <1>1, <3>2 DEF AloneInv, SerialInv, TargetsProved
    <3>6. QED
      BY <3>2, <3>3, <3>4, <3>5 DEF Shows, Proved
  <2>4. QED
    BY <1>1, <2>2, <2>3
<1>2. AloneInv => [\A r \in Requests : Reported(r) => Served(r)]_vars
  BY <1>1
<1>3. QED
  BY <1>2, SerialHolds, PTL DEF SuccessMeansServed

(* The image of a revision holds that revision, whatever earlier deploys   *)
(* left in the staging and source directories: only an upload extracted    *)
(* over leftovers can be a mixture.                                        *)
THEOREM TagsNameTheirTree == SerialSpec => []TagNamesItsTree
<1>1. AloneInv => TagNamesItsTree
  BY DEF AloneInv, SerialInv
<1>2. QED
  BY <1>1, SerialHolds, PTL

(* The health check is asked of the candidate this deploy created, and of  *)
(* no leftover of another.                                                 *)
THEOREM CandidateIsOwn == SerialSpec => []OwnCandidateProbed
<1>1. AloneInv => OwnCandidateProbed
  BY DEF AloneInv, SerialInv, OnCourse, Probed, Shows, OwnCandidateProbed
<1>2. QED
  BY <1>1, SerialHolds, PTL

(* A rollback goes back to an image that answered a health check, and      *)
(* that is still the one that did.                                         *)
THEOREM RollbackTargetsAreProved == SerialSpec => []RollbackTargetProved
<1>1. AloneInv => RollbackTargetProved
  BY DEF AloneInv, SerialInv, TargetsProved, Proved, RollbackTargetProved
<1>2. QED
  BY <1>1, SerialHolds, PTL

-----------------------------------------------------------------------------
(* The progress bar.                                                       *)

(* A deploy that begins finds the tracker lowered.                         *)
LEMMA StartsLowered ==
  ASSUME AloneInv, NEW r \in Requests, pc[r] = "start"
  PROVE  ~tracker.active
<1>1. SUFFICES ASSUME tracker.active PROVE FALSE
  OBVIOUS
<1>2. PICK q \in Requests : pc[q] \in InsideDeploy
  BY <1>1 DEF AloneInv, TrackerSettles
<1>3. q # r /\ ~Resting(q) /\ ~Resting(r)
  BY <1>2 DEF InsideDeploy, Resting
<1>4. QED
  BY <1>3 DEF AloneInv, SerialInv, Alone

(* While a deploy runs, the bar only goes forward, and a failure leaves it *)
(* where it was.                                                           *)
THEOREM BarGoesForward == SerialSpec => BarNeverGoesBack
<1> DEFINE Forward == tracker.active /\ tracker' # TrackerIdle
                        => tracker'.percent >= tracker.percent
<1>1. AloneInv /\ [SerialNext]_vars => Forward
  <2>1. SUFFICES ASSUME AloneInv, [SerialNext]_vars, tracker.active, tracker' # TrackerIdle
                 PROVE  tracker'.percent >= tracker.percent
    OBVIOUS
  <2>2. tracker.percent \in 0..100
    BY <2>1 DEF AloneInv, BuiltInv, TypeInv, TypeOK, TrackerState
  <2>3. CASE UNCHANGED tracker
    BY <2>2, <2>3
  <2>4. ASSUME NEW r \in Requests, RequestStep(r), tracker' # tracker
        PROVE  tracker'.percent >= tracker.percent
    <3>1. BarAt(r)
      BY <2>1 DEF AloneInv, SerialInv, OnCourse
    <3>2. CASE BeginProgress(r)
      BY <2>1, <3>2, StartsLowered DEF BeginProgress, Goto
    <3>3. CASE FindProfile(r) \/ RequestBuild(r)
      BY <2>4, <3>1, <3>3 DEF FindProfile, RequestBuild, Goto, BarAt, SetStage, StagePercent
    <3>4. CASE BuildDone(r) \/ CandidateDone(r) \/ Healthy(r)
      BY <2>4, <3>1, <3>4
         DEF BuildDone, CandidateDone, Healthy, Goto, BarAt, SetStage, StagePercent
    <3>5. CASE EndProgress(r)
      BY <2>2, <3>5 DEF EndProgress, FinishSuccess, FinishFailure
    <3>6. QED
      BY <2>4, <3>2, <3>3, <3>4, <3>5
         DEF RequestStep, ClearStage, FillFromGit, FillFromUpload, FillFails, Accept, Reject,
             WipeSource, MoveStage, MoveFails, ProbeAgain, Unhealthy, Discarded, Activated,
             Record, NoteFailure, RollbackActivated, RollbackFails, RollbackRecord
  <2>5. QED
    BY <2>1, <2>3, <2>4
       DEF SerialNext, Work, Arrival, vars, Admit, RollbackBegin, HandlerStep, OperateApp,
           DashboardCrash
<1>2. QED
  BY <1>1, SerialHolds, PTL DEF SerialSpec, BarNeverGoesBack

-----------------------------------------------------------------------------
(* The deploy cycle implements the swap.                                   *)

LEMMA IncomingIs ==
  ASSUME NEW r \in Requests, \A q \in Requests \ {r} : ~InActivate(q)
  PROVE  Incoming = IF InActivate(r) THEN images[call[r].sha] ELSE None
<1>1. CASE InActivate(r)
  <2>1. \A q \in Requests : InActivate(q) <=> q = r
    BY <1>1
  <2>2. (CHOOSE q \in Requests : InActivate(q)) = r
    BY <2>1
  <2>3. QED
    BY <1>1, <2>2 DEF Incoming
<1>2. CASE ~InActivate(r)
  BY <1>2 DEF Incoming
<1>3. QED
  BY <1>1, <1>2

LEMMA IncomingWillBe ==
  ASSUME NEW r \in Requests, \A q \in Requests \ {r} : ~InActivate(q)'
  PROVE  Incoming' = IF InActivate(r)' THEN images'[call'[r].sha] ELSE None
<1>1. CASE InActivate(r)'
  <2>1. \A q \in Requests : InActivate(q)' <=> q = r
    BY <1>1
  <2>2. (CHOOSE q \in Requests : InActivate(q)') = r
    BY <2>1
  <2>3. QED
    BY <1>1, <2>2 DEF Incoming
<1>2. CASE ~InActivate(r)'
  BY <1>2 DEF Incoming
<1>3. QED
  BY <1>1, <1>2

LEMMA ActiveBusy ==
  ASSUME NEW r \in Requests, InActivate(r)
  PROVE  ~Resting(r) /\ call[r].at \in HandlerSteps
  BY DEF InActivate, Resting, NoCall, HandlerSteps

(* What is being swapped in stays as long as its handler goes on.          *)
LEMMA IncomingKept ==
  ASSUME Alone,
         \A q \in Requests : InActivate(q)' <=> InActivate(q),
         \A q \in Requests : InActivate(q) => call'[q].sha = call[q].sha /\ UNCHANGED images
  PROVE  UNCHANGED Incoming
<1>1. CASE \E r \in Requests : InActivate(r)
  <2>1. PICK r \in Requests : InActivate(r)
    BY <1>1
  <2>2. \A q \in Requests \ {r} : ~InActivate(q)
    BY <2>1, ActiveBusy DEF Alone
  <2>3. Incoming = images[call[r].sha] /\ Incoming' = images'[call'[r].sha]
    BY <2>1, <2>2, IncomingIs, IncomingWillBe
  <2>4. QED
    BY <2>1, <2>3
<1>2. CASE \A r \in Requests : ~InActivate(r)
  BY <1>2 DEF Incoming
<1>3. QED
  BY <1>1, <1>2

(* A thread starts no swap but by reporting a healthy candidate.           *)
LEMMA RequestSwapless ==
  ASSUME TypeInv, NEW r \in Requests, CallSettled(r), RequestStep(r), ~Healthy(r)
  PROVE  call'[r] = call[r] \/ (~InActivate(r) /\ ~InActivate(r)')
<1> USE DEF CallsUnchanged, InActivate
<1>0. NoCall.at = "none"
  BY DEF NoCall
<1>1. Consume(r) /\ (Succeeded(r) \/ Broken(r)) =>
        call'[r] = call[r] \/ (~InActivate(r) /\ ~InActivate(r)')
  BY <1>0, ConsumeFrame DEF Succeeded, Broken
<1>2. CASE RequestBuild(r)
  BY <1>0, <1>2, OpenFrame DEF RequestBuild, CallSettled, BetweenCalls, Goto
<1>3. CASE BuildDone(r) \/ CandidateDone(r)
  BY <1>1, <1>3, OpenFrame DEF BuildDone, CandidateDone, Succeeded
<1>4. CASE ProbeAgain(r)
  BY <1>4, OpenFrame DEF ProbeAgain
<1>5. CASE Unhealthy(r)
  BY <1>5, OpenFrame DEF Unhealthy, Broken, CallSettled, Goto
<1>6. CASE Discarded(r) \/ Activated(r) \/ RollbackActivated(r) \/ RollbackFails(r)
  BY <1>1, <1>6 DEF Discarded, Activated, RollbackActivated, RollbackFails
<1>7. CASE UNCHANGED call
  BY <1>7
<1>8. QED
  BY <1>2, <1>3, <1>4, <1>5, <1>6, <1>7
     DEF RequestStep, ClearStage, FillFromGit, FillFromUpload, FillFails, BeginProgress,
         FindProfile, Accept, Reject, WipeSource, MoveStage, MoveFails, Record, NoteFailure,
         EndProgress, RollbackRecord

LEMMA RequestSwaps ==
  ASSUME TypeInv, SerialInv, NEW r \in Requests, RequestStep(r)
  PROVE  [Swap!SwapNext]_(Swap!swapVars)
<1>1. /\ Alone /\ OnCourse(r) /\ call \in [Requests -> Calls]
      /\ images \in [Shas -> Trees \cup {None}] /\ proved \subseteq Trees
  BY DEF SerialInv, TypeInv, TypeOK, OrchestratorTypeOK
<1>2. /\ UNCHANGED <<images, app, proved>>
      /\ \A q \in Requests \ {r} : call'[q] = call[q] /\ Resting(q)
  <2>1. UNCHANGED <<images, app, proved>>
    BY DEF RequestStep, dockerVars, CallsUnchanged,
         ClearStage, FillFromGit, FillFromUpload, FillFails, BeginProgress, FindProfile,
         Accept, Reject, WipeSource, MoveStage, MoveFails, RequestBuild, BuildDone,
         CandidateDone, Healthy, ProbeAgain, Unhealthy, Discarded, Activated, Record,
         NoteFailure, EndProgress, RollbackActivated, RollbackFails, RollbackRecord
  <2>2. QED
    BY <1>1, <2>1, RequestFrame DEF Alone, Resting
<1>3. CASE Healthy(r)
  <2>1. /\ call[r].at = "healthy" /\ call'[r].at = "app_remove" /\ call'[r].sha = Sha(r)
        /\ pc[r] = "probing"
    BY <1>3, OpenFrame DEF Healthy, Goto
  <2>2. \A q \in Requests \ {r} : ~InActivate(q) /\ ~InActivate(q)'
    BY <1>2, ActiveBusy DEF InActivate
  <2>3. Incoming = None /\ Incoming' = images[Sha(r)]
    BY <1>2, <2>1, <2>2, IncomingIs, IncomingWillBe DEF InActivate
  <2>4. images[Sha(r)] \in proved
    BY <1>1, <2>1 DEF OnCourse, Probed, Proved
  <2>5. Swap!Accept(images[Sha(r)])
    BY <1>2, <2>3, <2>4 DEF Swap!Accept
  <2>6. QED
    BY <1>1, <2>4, <2>5 DEF Swap!SwapNext
<1>4. CASE ~Healthy(r)
  <2>1. call'[r] = call[r] \/ (~InActivate(r) /\ ~InActivate(r)')
    BY <1>1, <1>4, RequestSwapless DEF OnCourse
  <2>2. UNCHANGED Incoming
    BY <1>1, <1>2, <2>1, IncomingKept DEF InActivate
  <2>3. QED
    BY <1>2, <2>2 DEF Swap!swapVars
<1>5. QED
  BY <1>3, <1>4

LEMMA HandlerSwaps ==
  ASSUME TypeInv, SerialInv, NEW r \in Requests, HandlerStep(r)
  PROVE  [Swap!SwapNext]_(Swap!swapVars)
<1>1. /\ Alone /\ OnCourse(r) /\ call \in [Requests -> Calls]
      /\ images \in [Shas -> Trees \cup {None}] /\ proved \subseteq Trees
      /\ app \in Containers /\ candidate \in Containers
  BY DEF SerialInv, TypeInv, TypeOK, OrchestratorTypeOK
<1>2. call[r].at \in HandlerSteps
  BY HandlerBusy DEF HandlerStep
<1>3. \A x : /\ Advance(r, x) => call'[r].at = x /\ call'[r].sha = call[r].sha
             /\ Respond(r, x) => call'[r].at \in {x, "none"}
  BY <1>2, HandledFrame
<1>4. \A q \in Requests \ {r} : Resting(q) /\ call'[q] = call[q]
  BY <1>1, <1>2, HandlerMoves, HandledFrame DEF Alone, Resting, NoCall, HandlerSteps
<1>5. \A q \in Requests \ {r} : ~InActivate(q) /\ ~InActivate(q)'
  BY <1>4, ActiveBusy DEF InActivate
<1>6. /\ Incoming = IF InActivate(r) THEN images[call[r].sha] ELSE None
      /\ Incoming' = IF InActivate(r)' THEN images'[call'[r].sha] ELSE None
  BY <1>5, IncomingIs, IncomingWillBe
<1>7. CASE ~InActivate(r)
  <2>1. Incoming = None /\ app' = app /\ Incoming' = None
    <3>1. app' = app /\ ~InActivate(r)'
      BY <1>3, <1>7
         DEF HandlerStep, Handler, dockerVars, InActivate, At, Finish, DockerFails, BuildRead,
             BuildTag, CandidateRemove, CandidateCreate, CandidateStart, ProbeHealthy,
             ProbeUnhealthy, Discard, AppRemove, AppCreate, AppStart, AppClean
    <3>2. QED
      BY <1>6, <1>7, <3>1
  <2>2. CASE ProbeHealthy(r)
    <3>1. candidate # NoContainer
      BY <2>2 DEF ProbeHealthy, NoContainer
    <3>2. candidate.tree \in Trees
      BY <1>1, <3>1 DEF Containers
    <3>3. Swap!Prove(candidate.tree)
      BY <2>1, <2>2 DEF ProbeHealthy, Swap!Prove
    <3>4. QED
      BY <3>2, <3>3 DEF Swap!SwapNext
  <2>3. CASE UNCHANGED proved
    BY <2>1, <2>3 DEF Swap!swapVars
  <2>4. QED
    BY <2>2, <2>3
       DEF HandlerStep, Handler, dockerVars, DockerFails, BuildRead, BuildTag, CandidateRemove,
           CandidateCreate, CandidateStart, ProbeUnhealthy, Discard, AppRemove,
           AppCreate, AppStart, AppClean
<1>8. CASE InActivate(r)
  <2>1. Incoming = images[call[r].sha] /\ Incoming # None
    BY <1>1, <1>6, <1>8, OrchestratorAssumption DEF OnCourse, Swapped, Proved
  <2>2. CASE DockerFails(r) \/ AppClean(r)
    <3>1. ~InActivate(r)' /\ UNCHANGED <<app, proved>>
      BY <1>3, <2>2 DEF DockerFails, AppClean, Finish, InActivate
    <3>2. Swap!End
      BY <1>6, <2>1, <3>1 DEF Swap!End
    <3>3. QED
      BY <3>2 DEF Swap!SwapNext
  <2>3. CASE AppRemove(r)
    <3>1. Incoming' = Incoming
      BY <1>3, <1>6, <2>1, <2>3 DEF AppRemove, InActivate
    <3>2. Swap!Remove
      BY <2>1, <2>3, <3>1 DEF AppRemove, NoContainer, Swap!Remove
    <3>3. QED
      BY <3>2 DEF Swap!SwapNext
  <2>4. CASE AppCreate(r)
    <3>1. Incoming' = Incoming
      BY <1>3, <1>6, <2>1, <2>4 DEF AppCreate, InActivate
    <3>2. Swap!Place
      BY <2>1, <2>4, <3>1 DEF AppCreate, NewContainer, NoContainer, Swap!Place
    <3>3. QED
      BY <3>2 DEF Swap!SwapNext
  <2>5. CASE AppStart(r)
    <3>1. Incoming' = Incoming
      BY <1>3, <1>6, <2>1, <2>5 DEF AppStart, InActivate
    <3>2. app'.tree = app.tree
      BY <1>1, <2>5 DEF AppStart, Containers, NoContainer
    <3>3. QED
      BY <2>5, <3>1, <3>2 DEF AppStart, Swap!swapVars
  <2>6. QED
    BY <1>8, <2>2, <2>3, <2>4, <2>5
       DEF HandlerStep, Handler, InActivate, At, BuildRead, BuildTag, CandidateRemove,
           CandidateCreate, CandidateStart, ProbeHealthy, ProbeUnhealthy, Discard
<1>9. QED
  BY <1>7, <1>8

LEMMA StepSwaps ==
  ASSUME TypeInv, SerialInv, [SerialNext]_vars
  PROVE  [Swap!SwapNext]_(Swap!swapVars)
<1>1. /\ Alone /\ TargetsProved /\ call \in [Requests -> Calls]
      /\ images \in [Shas -> Trees \cup {None}] /\ proved \subseteq Trees
  BY DEF SerialInv, TypeInv, TypeOK, OrchestratorTypeOK
<1>2. ASSUME NEW r \in Requests, GiveUp(r), UNCHANGED <<ownVars, manifest, tracker>>
      PROVE  UNCHANGED Swap!swapVars
  <2>1. call[r] \in [at : HandlerSteps, sha : Shas, open : BOOLEAN]
    BY <1>1, <1>2, HandlerCall DEF CallsOK, GiveUp
  <2>2. /\ \A q \in Requests \ {r} : call'[q] = call[q]
        /\ InActivate(r)' <=> InActivate(r)
        /\ InActivate(r) => call'[r].sha = call[r].sha
    BY <1>1, <1>2, <2>1 DEF GiveUp, InActivate
  <2>3. UNCHANGED <<images, app, proved>>
    BY <1>2 DEF GiveUp, dockerVars
  <2>4. UNCHANGED Incoming
    BY <1>1, <2>2, <2>3, IncomingKept DEF InActivate
  <2>5. QED
    BY <2>3, <2>4 DEF Swap!swapVars
<1>3. ASSUME NEW r \in Requests, NEW kind \in Kinds, Admit(r, kind)
      PROVE  UNCHANGED Swap!swapVars
  <2>1. UNCHANGED <<call, images, app, proved>>
    BY <1>3 DEF Admit, CallsUnchanged, dockerVars
  <2>2. UNCHANGED Incoming
    BY <1>1, <2>1, IncomingKept DEF InActivate
  <2>3. QED
    BY <2>1, <2>2 DEF Swap!swapVars
<1>4. ASSUME NEW r \in Requests, Quiet, RollbackBegin(r)
      PROVE  Swap!SwapNext
  <2>1. /\ manifest.previous # None /\ UNCHANGED <<images, app, proved>>
        /\ call'[r].at = "app_remove" /\ call'[r].sha = manifest.previous.tag
        /\ \A q \in Requests \ {r} : call'[q] = call[q]
    BY <1>1, <1>4, OpenFrame DEF RollbackBegin, dockerVars
  <2>2. \A q \in Requests : ~InActivate(q) /\ (q # r => ~InActivate(q)')
    BY <1>4, <2>1 DEF Quiet, InActivate, NoCall
  <2>3. Incoming = None /\ Incoming' = images[manifest.previous.tag]
    BY <2>1, <2>2, IncomingIs, IncomingWillBe DEF InActivate
  <2>4. images[manifest.previous.tag] \in proved
    BY <1>1, <2>1 DEF TargetsProved, Proved
  <2>5. Swap!Accept(images[manifest.previous.tag])
    BY <2>1, <2>3, <2>4 DEF Swap!Accept
  <2>6. QED
    BY <1>1, <2>4, <2>5 DEF Swap!SwapNext
<1>5. ASSUME NEW running \in BOOLEAN, OperateApp(running)
      PROVE  UNCHANGED Swap!swapVars
  <2>1. UNCHANGED <<call, images, proved>> /\ app'.tree = app.tree
    BY <1>5 DEF OperateApp, TypeInv, TypeOK, OrchestratorTypeOK, Containers
  <2>2. UNCHANGED Incoming
    BY <1>1, <2>1, IncomingKept DEF InActivate
  <2>3. QED
    BY <2>1, <2>2 DEF Swap!swapVars
<1>6. CASE DashboardCrash
  <2>1. UNCHANGED <<images, app, proved>>
    BY <1>6 DEF DashboardCrash, dockerVars
  <2>2. ASSUME NEW q \in Requests
        PROVE  /\ InActivate(q)' <=> InActivate(q)
               /\ InActivate(q) => call'[q].sha = call[q].sha
    <3>1. CASE call[q].at \in HandlerSteps
      <4>1. call[q] \in [at : HandlerSteps, sha : Shas, open : BOOLEAN]
        BY <1>1, <3>1, HandlerCall DEF CallsOK
      <4>2. QED
        BY <1>6, <3>1, <4>1 DEF DashboardCrash, InActivate
    <3>2. CASE call[q].at \notin HandlerSteps
      <4>1. call'[q] = NoCall /\ NoCall.at = "none"
        BY <1>6, <3>2 DEF DashboardCrash, NoCall
      <4>2. QED
        BY <3>2, <4>1, ActiveBusy DEF InActivate
    <3>3. QED
      BY <3>1, <3>2
  <2>3. UNCHANGED Incoming
    BY <1>1, <2>1, <2>2, IncomingKept
  <2>4. QED
    BY <2>1, <2>3 DEF Swap!swapVars
<1>7. CASE UNCHANGED vars
  <2>1. UNCHANGED <<call, images, app, proved>>
    BY <1>7 DEF vars, dockerVars
  <2>2. UNCHANGED Incoming
    BY <1>1, <2>1, IncomingKept DEF InActivate
  <2>3. QED
    BY <2>1, <2>2 DEF Swap!swapVars
<1>8. QED
  BY <1>2, <1>3, <1>4, <1>5, <1>6, <1>7, RequestSwaps, HandlerSwaps
     DEF SerialNext, Work, Arrival

(* With requests one at a time, deploys and rollbacks swap what users see  *)
(* the way ReleaseSwap says: remove, place, and only what answered its     *)
(* health check, whatever fails, gives up or crashes half way.             *)
THEOREM DeploysSwapReleases == SerialSpec => ImplementsSwap
<1>1. Init => Swap!SwapInit
  <2>1. SUFFICES ASSUME Init PROVE Swap!SwapInit
    OBVIOUS
  <2>2. \A r \in Requests : ~InActivate(r)
    BY <2>1 DEF Init, OrchestratorInit, NoCall, InActivate
  <2>3. Incoming = None
    BY <2>2 DEF Incoming
  <2>4. app.tree = None /\ proved = {}
    BY <2>1 DEF Init, OrchestratorInit, NoContainer
  <2>5. QED
    BY <2>3, <2>4 DEF Swap!SwapInit
<1>2. AloneInv /\ [SerialNext]_vars => [Swap!SwapNext]_(Swap!swapVars)
  BY StepSwaps DEF AloneInv, BuiltInv
<1>3. QED
  BY <1>1, <1>2, SerialHolds, PTL DEF SerialSpec, ImplementsSwap, Swap!SwapSpec

(* Whatever swaps releases that way serves only what answered its health   *)
(* check.                                                                  *)
THEOREM SwapServesTrusted == Swap!SwapSpec => []Swap!OnlyTrustedPlaced
<1> DEFINE SwapInv == Swap!OnlyTrustedPlaced /\ (Incoming # None => Incoming \in proved)
<1>1. Swap!SwapInit => SwapInv
  BY DEF Swap!SwapInit, Swap!OnlyTrustedPlaced
<1>2. SwapInv /\ [Swap!SwapNext]_(Swap!swapVars) => SwapInv'
  BY DEF Swap!OnlyTrustedPlaced, Swap!SwapNext, Swap!swapVars, Swap!Prove, Swap!Accept,
         Swap!Remove, Swap!Place, Swap!End
<1>3. QED
  BY <1>1, <1>2, PTL DEF Swap!SwapSpec

(* "Activate only if healthy" (deployment.py) holds when requests come one *)
(* at a time; OverlappingDeploys shows it lost when they do not.           *)
THEOREM HealthyServedAlone == SerialSpec => []OnlyHealthyServed
<1>1. Swap!OnlyTrustedPlaced <=> OnlyHealthyServed
  BY DEF Swap!OnlyTrustedPlaced, OnlyHealthyServed
<1>2. QED
  BY <1>1, DeploysSwapReleases, SwapServesTrusted, PTL DEF ImplementsSwap
=============================================================================
