------------------------ MODULE ManagedDatabase_proof ------------------------
(***************************************************************************)
(* Proofs about the managed database, for any number of requests, secrets  *)
(* and backups.                                                            *)
(*                                                                         *)
(* Under every interleaving the record names a real account, although it   *)
(* is written from what a request remembers, long after it read it: a      *)
(* request writes the pair it had made, and an answer "ok" means that it   *)
(* was made, or that a provision found a volume with data.                 *)
(*                                                                         *)
(* A backup whose name nobody took keeps its file to itself from its first *)
(* step to its report, and the file is left alone afterwards.              *)
(*                                                                         *)
(* With operations one at a time more is true of the record and the data:  *)
(* the passwords the operation drew are new, and the record is still the   *)
(* one it read.                                                            *)
(***************************************************************************)
EXTENDS ManagedDatabase, TLAPS

ProvisionSteps == {"prov_remove", "prov_create", "prov_start"}

(* The handler that works for a call is the one the call asked for.        *)
StepsMatch ==
  \A r \in Requests :
    /\ call[r].at \in ProvisionSteps => call[r].op = "provision"
    /\ At(r, "rotate") => call[r].op = "rotate"
    /\ call[r].at \in {"dep_remove", "dep_volume"} => call[r].op = "deprovision"
    /\ call[r].at \in {"dump_open", "dump"} => call[r].op = "backup"
    /\ At(r, "restore") => call[r].op = "restore"

(* What an operation needs, it carries.                                    *)
CallsComplete ==
  \A r \in Requests :
    /\ call[r].op = "rotate" => call[r].new \in Secrets
    /\ call[r].op = "backup" => call[r].file \in Files

(* What is about to be recorded was made, or stands for leftover data.     *)
AnswersAreTrue ==
  \A r \in Requests :
    /\ call[r].op = "provision" /\ At(r, "ok")
         => \/ <<call[r].record.user, call[r].record.password>> \in made
            \/ call[r].record.user \in leftover
    /\ call[r].op = "rotate" /\ At(r, "ok")
         => <<call[r].record.user, call[r].new>> \in made

DatabaseInv ==
  /\ DatabaseTypeOK
  /\ StepsMatch
  /\ CallsComplete
  /\ AnswersAreTrue
  /\ RecordedAccountWasMade

LEMMA NoRecordFacts ==
  /\ NoRecord \notin Records
  /\ NoServer \notin Servers
  /\ NoServer.by \notin Requests
  /\ NoCall \notin Calls
  /\ NoCall.at = "none" /\ NoCall.op = "none" /\ NoCall.open = FALSE
  BY DatabaseAssumption DEF NoRecord, Records, NoServer, Servers, NoCall, Calls

LEMMA CallTyped ==
  ASSUME DatabaseTypeOK, NEW r \in Requests, call[r].at # "none"
  PROVE  call[r] \in Calls
  BY NoRecordFacts DEF DatabaseTypeOK

(* A call that goes on stays one.                                          *)
LEMMA CallAdvances ==
  ASSUME NEW c \in Calls, NEW step \in HandlerSteps \cup {"ok", "error"}, NEW b \in BOOLEAN
  PROVE  /\ [c EXCEPT !.at = step] \in Calls
         /\ [c EXCEPT !.open = b] \in Calls
  BY DEF Calls

LEMMA DatabaseInit_Inv == Init => DatabaseInv
  BY NoRecordFacts
     DEF Init, DatabaseInv, DatabaseTypeOK, StepsMatch, CallsComplete, AnswersAreTrue,
         RecordedAccountWasMade, At, ProvisionSteps

-----------------------------------------------------------------------------
(* The parts that speak of calls, for a call that came to another step.    *)
CallSound(c, m, l) ==
  /\ c.at \in ProvisionSteps => c.op = "provision"
  /\ c.at = "rotate" => c.op = "rotate"
  /\ c.at \in {"dep_remove", "dep_volume"} => c.op = "deprovision"
  /\ c.at \in {"dump_open", "dump"} => c.op = "backup"
  /\ c.at = "restore" => c.op = "restore"
  /\ c.op = "rotate" => c.new \in Secrets
  /\ c.op = "backup" => c.file \in Files
  /\ c.op = "provision" /\ c.at = "ok"
       => <<c.record.user, c.record.password>> \in m \/ c.record.user \in l
  /\ c.op = "rotate" /\ c.at = "ok" => <<c.record.user, c.new>> \in m

LEMMA InvByCalls ==
  DatabaseInv <=>
    /\ DatabaseTypeOK
    /\ \A r \in Requests : CallSound(call[r], made, leftover)
    /\ RecordedAccountWasMade
  BY DEF DatabaseInv, StepsMatch, CallsComplete, AnswersAreTrue, CallSound, At

LEMMA NoCallSound == ASSUME NEW m, NEW l PROVE CallSound(NoCall, m, l)
  BY NoRecordFacts DEF CallSound, ProvisionSteps

LEMMA SoundStays ==
  ASSUME NEW c, NEW m, NEW n, NEW l, NEW k, m \subseteq n, l \subseteq k, CallSound(c, m, l)
  PROVE  CallSound(c, n, k)
  BY DEF CallSound

(* A step that touches the call of one request only.                       *)
LEMMA OneCallChanges ==
  ASSUME DatabaseInv, NEW r \in Requests, NEW c \in Calls \cup {NoCall},
         call' = [call EXCEPT ![r] = c],
         made \subseteq made', leftover \subseteq leftover', CallSound(c, made', leftover')
  PROVE  /\ call' \in [Requests -> Calls \cup {NoCall}]
         /\ \A q \in Requests : CallSound(call[q], made, leftover)'
<1>1. call' \in [Requests -> Calls \cup {NoCall}] /\ call'[r] = c
  BY DEF DatabaseInv, DatabaseTypeOK
<1>2. ASSUME NEW q \in Requests
      PROVE  CallSound(call'[q], made', leftover')
  <2>1. CASE q = r
    BY <1>1, <2>1
  <2>2. CASE q # r
    <3>1. call'[q] = call[q]
      BY <2>2 DEF DatabaseInv, DatabaseTypeOK
    <3>2. CallSound(call[q], made, leftover)
      BY InvByCalls
    <3>3. QED
      BY <3>1, <3>2, SoundStays
  <2>3. QED
    BY <2>1, <2>2
<1>3. QED
  BY <1>1, <1>2

(* What an answer leaves of a call.                                        *)
LEMMA Responds ==
  ASSUME NEW r \in Requests, NEW answer, Respond(r, answer)
  PROVE  \E c \in {[call[r] EXCEPT !.at = answer], NoCall} : call' = [call EXCEPT ![r] = c]
<1>1. CASE call[r].open
  BY <1>1 DEF Respond
<1>2. CASE ~call[r].open
  BY <1>2 DEF Respond
<1>3. QED
  BY <1>1, <1>2

(* A call is answered: its handler had come to an end.                     *)
LEMMA AnswerKeepsCalls ==
  ASSUME DatabaseInv, NEW r \in Requests, NEW answer \in {"ok", "error"},
         call[r] \in Calls, Respond(r, answer),
         made \subseteq made', leftover \subseteq leftover',
         CallSound([call[r] EXCEPT !.at = answer], made', leftover')
  PROVE  /\ call' \in [Requests -> Calls \cup {NoCall}]
         /\ \A q \in Requests : CallSound(call[q], made, leftover)'
<1>1. PICK c \in {[call[r] EXCEPT !.at = answer], NoCall} : call' = [call EXCEPT ![r] = c]
  BY Responds
<1>2. c \in Calls \cup {NoCall} /\ CallSound(c, made', leftover')
  BY CallAdvances, NoCallSound
<1>3. QED
  BY <1>1, <1>2, OneCallChanges

(* Handlers keep the invariant.                                            *)
LEMMA Handler_Inv ==
  ASSUME DatabaseInv, NEW r \in Requests, Handler(r)
  PROVE  DatabaseInv'
<1>1. DatabaseTypeOK /\ CallSound(call[r], made, leftover) /\ RecordedAccountWasMade
  BY InvByCalls
<1> SUFFICES /\ DatabaseTypeOK'
             /\ \A q \in Requests : CallSound(call[q], made, leftover)'
             /\ RecordedAccountWasMade'
  BY InvByCalls DEF DatabaseInv, StepsMatch, CallsComplete, AnswersAreTrue, CallSound, At
<1>2. call[r] \in Calls
  <2>1. call[r].at # "none"
    BY DEF Handler, HandlerFails, ProvisionRemove, ProvisionCreate, ProvisionStart,
           DeprovisionRemove, DeprovisionVolume, Rotate, DumpOpen, Dump, Restore, At,
           HandlerSteps, HelperSteps
  <2>2. QED
    BY <1>1, <2>1, CallTyped
<1>3. /\ call[r].record \in Records
      /\ call[r].record.engine \in Engines
      /\ call[r].record.user \in Secrets
      /\ call[r].record.password \in Secrets
  BY <1>2 DEF Calls, Records
<1>4. ASSUME NEW step, step \in HandlerSteps,
             CallSound([call[r] EXCEPT !.at = step], made, leftover),
             Advance(r, step), UNCHANGED <<made, leftover>>
      PROVE  /\ call' \in [Requests -> Calls \cup {NoCall}]
             /\ \A q \in Requests : CallSound(call[q], made, leftover)'
  <2>1. call' = [call EXCEPT ![r] = [call[r] EXCEPT !.at = step]]
    BY <1>4 DEF Advance
  <2>2. QED
    BY <1>2, <1>4, <2>1, CallAdvances, OneCallChanges
<1>5. ASSUME NEW answer \in {"ok", "error"}, Respond(r, answer), UNCHANGED <<made, leftover>>,
             CallSound([call[r] EXCEPT !.at = answer], made, leftover)
      PROVE  /\ call' \in [Requests -> Calls \cup {NoCall}]
             /\ \A q \in Requests : CallSound(call[q], made, leftover)'
  BY <1>2, <1>5, AnswerKeepsCalls
<1> USE DEF DatabaseTypeOK, At
<1>6. CASE HandlerFails(r)
  <2>1. CallSound([call[r] EXCEPT !.at = "error"], made, leftover)
    BY <1>1, <1>2 DEF CallSound, Calls, ProvisionSteps
  <2>2. QED
    BY <1>1, <1>5, <1>6, <2>1 DEF HandlerFails, histories, RecordedAccountWasMade
<1>7. CASE ProvisionRemove(r)
  <2>1. CallSound([call[r] EXCEPT !.at = "prov_create"], made, leftover)
    BY <1>1, <1>2, <1>7 DEF ProvisionRemove, CallSound, Calls, ProvisionSteps
  <2>2. QED
    BY <1>1, <1>4, <1>7, <2>1
       DEF ProvisionRemove, histories, RecordedAccountWasMade, HandlerSteps
<1>8. CASE ProvisionCreate(r)
  <2>1. CallSound([call[r] EXCEPT !.at = "prov_start"], made, leftover)
    BY <1>1, <1>2, <1>8 DEF ProvisionCreate, CallSound, Calls, ProvisionSteps
  <2>2. server' \in Servers
    BY <1>3, <1>8 DEF ProvisionCreate, Servers
  <2>3. QED
    BY <1>1, <1>4, <1>8, <2>1, <2>2
       DEF ProvisionCreate, histories, RecordedAccountWasMade, HandlerSteps
<1>9. CASE ProvisionStart(r)
  <2>1. PICK answer \in {"ok", "error"} : Respond(r, answer)
    BY <1>9 DEF ProvisionStart, Finish
  <2>2. /\ made \subseteq made' /\ leftover \subseteq leftover'
        /\ made' \subseteq Secrets \X Secrets /\ leftover' \subseteq Secrets
        /\ volume' \in Records \cup {NoRecord}
        /\ \/ <<call[r].record.user, call[r].record.password>> \in made'
           \/ call[r].record.user \in leftover'
    BY <1>1, <1>3, <1>9 DEF ProvisionStart
  <2>3. CallSound([call[r] EXCEPT !.at = answer], made', leftover')
    BY <1>1, <1>2, <1>9, <2>2 DEF ProvisionStart, CallSound, Calls, ProvisionSteps
  <2>4. /\ call' \in [Requests -> Calls \cup {NoCall}]
        /\ \A q \in Requests : CallSound(call[q], made, leftover)'
    BY <1>2, <2>1, <2>2, <2>3, AnswerKeepsCalls
  <2>5. server \in Servers
    BY <1>1, <1>9, NoRecordFacts DEF ProvisionStart
  <2>6. server' \in Servers
    BY <1>9, <2>5 DEF ProvisionStart, Servers
  <2>7. QED
    BY <1>1, <1>9, <2>2, <2>4, <2>6 DEF ProvisionStart, RecordedAccountWasMade
<1>10. CASE DeprovisionRemove(r)
  <2>1. CallSound([call[r] EXCEPT !.at = "dep_volume"], made, leftover)
    BY <1>1, <1>2, <1>10 DEF DeprovisionRemove, CallSound, Calls, ProvisionSteps
  <2>2. QED
    BY <1>1, <1>4, <1>10, <2>1
       DEF DeprovisionRemove, histories, RecordedAccountWasMade, HandlerSteps
<1>11. CASE DeprovisionVolume(r)
  <2>1. PICK answer \in {"ok", "error"} : Respond(r, answer)
    BY <1>11 DEF DeprovisionVolume, Finish
  <2>2. CallSound([call[r] EXCEPT !.at = answer], made, leftover)
    BY <1>1, <1>2, <1>11 DEF DeprovisionVolume, CallSound, Calls, ProvisionSteps
  <2>3. QED
    BY <1>1, <1>5, <1>11, <2>1, <2>2
       DEF DeprovisionVolume, histories, RecordedAccountWasMade
<1>12. CASE Rotate(r)
  <2>1. PICK answer \in {"ok", "error"} : Respond(r, answer)
    BY <1>12 DEF Rotate, Finish
  <2>2. call[r].new \in Secrets /\ call[r].op = "rotate" /\ call[r].record = volume
    BY <1>1, <1>12 DEF Rotate, CallSound, LogsIn
  <2>3. /\ made \subseteq made'
        /\ <<call[r].record.user, call[r].new>> \in made'
        /\ made' \subseteq Secrets \X Secrets
    BY <1>1, <1>3, <1>12, <2>2 DEF Rotate
  <2>4. CallSound([call[r] EXCEPT !.at = answer], made', leftover')
    BY <1>1, <1>2, <2>2, <2>3 DEF CallSound, Calls, ProvisionSteps
  <2>5. volume' \in Records
    BY <1>3, <1>12, <2>2 DEF Rotate, Records
  <2>6. /\ call' \in [Requests -> Calls \cup {NoCall}]
        /\ \A q \in Requests : CallSound(call[q], made, leftover)'
    BY <1>2, <1>12, <2>1, <2>3, <2>4, AnswerKeepsCalls DEF Rotate
  <2>7. QED
    BY <1>1, <1>12, <2>3, <2>5, <2>6 DEF Rotate, RecordedAccountWasMade
<1>13. CASE DumpOpen(r)
  <2>1. CallSound([call[r] EXCEPT !.at = "dump"], made, leftover)
    BY <1>1, <1>2, <1>13 DEF DumpOpen, CallSound, Calls, ProvisionSteps
  <2>2. QED
    BY <1>1, <1>4, <1>13, <2>1
       DEF DumpOpen, histories, RecordedAccountWasMade, HandlerSteps, HelperSteps
<1>14. CASE Dump(r)
  <2>1. PICK answer \in {"ok", "error"} : Respond(r, answer)
    BY <1>14 DEF Dump, Finish
  <2>2. CallSound([call[r] EXCEPT !.at = answer], made, leftover)
    BY <1>1, <1>2, <1>14 DEF Dump, CallSound, Calls, ProvisionSteps
  <2>3. backups' \in [Files -> {"none", "torn", "mixed", "complete"}]
    BY <1>1, <1>14 DEF Dump
  <2>4. QED
    BY <1>1, <1>5, <1>14, <2>1, <2>2, <2>3 DEF Dump, histories, RecordedAccountWasMade
<1>15. CASE Restore(r)
  <2>1. PICK answer \in {"ok", "error"} : Respond(r, answer)
    BY <1>15 DEF Restore, Finish
  <2>2. CallSound([call[r] EXCEPT !.at = answer], made, leftover)
    BY <1>1, <1>2, <1>15 DEF Restore, CallSound, Calls, ProvisionSteps
  <2>3. QED
    BY <1>1, <1>5, <1>15, <2>1, <2>2 DEF Restore, histories, RecordedAccountWasMade
<1>16. QED
  BY <1>6, <1>7, <1>8, <1>9, <1>10, <1>11, <1>12, <1>13, <1>14, <1>15 DEF Handler

-----------------------------------------------------------------------------
(* Nobody answered yet: what a request begins with.                        *)
LEMMA Begins ==
  ASSUME DatabaseInv, NEW r \in Requests,
         NEW op, NEW step, NEW record \in Records, NEW new, NEW file,
         Begin(r, op, step, record, new, file),
         \/ op = "provision" /\ step = "prov_remove" /\ new = None /\ file = None
         \/ op = "deprovision" /\ step = "dep_remove" /\ new = None /\ file = None
         \/ op = "rotate" /\ step = "rotate" /\ new \in Secrets /\ file = None
         \/ op = "backup" /\ step = "dump_open" /\ new = None /\ file \in Files
         \/ op = "restore" /\ step = "restore" /\ new = None /\ file \in Files,
         unused' \subseteq Secrets, retaken' \subseteq Files
  PROVE  DatabaseInv'
<1> DEFINE c == [op |-> op, at |-> step, open |-> TRUE, record |-> record,
                 new |-> new, file |-> file]
<1>1. c \in Calls
  BY DEF Calls, HandlerSteps, HelperSteps
<1>2. CallSound(c, made', leftover')
  BY DEF CallSound, ProvisionSteps
<1>3. call' = [call EXCEPT ![r] = c] /\ UNCHANGED <<made, leftover>>
  BY DEF Begin
<1> HIDE DEF c
<1>4. /\ call' \in [Requests -> Calls \cup {NoCall}]
      /\ \A q \in Requests : CallSound(call[q], made, leftover)'
  BY <1>1, <1>2, <1>3, OneCallChanges
<1>5. overlapped' \in BOOLEAN
  BY DEF Begin, DatabaseInv, DatabaseTypeOK
<1>6. DatabaseTypeOK' /\ RecordedAccountWasMade'
  BY <1>4, <1>5 DEF Begin, DatabaseInv, DatabaseTypeOK, RecordedAccountWasMade
<1>7. QED
  BY <1>4, <1>6
     DEF DatabaseInv, StepsMatch, CallsComplete, AnswersAreTrue, CallSound, At

(* A request that comes in has made nothing yet.                           *)
LEMMA Arrival_Inv ==
  ASSUME DatabaseInv, NEW r \in Requests, Arrival(r)
  PROVE  DatabaseInv'
<1>1. /\ unused \subseteq Secrets /\ retaken \subseteq Files
      /\ stored # NoRecord => stored \in Records
  BY DEF DatabaseInv, DatabaseTypeOK
<1>2. CASE ProvisionBegin(r)
  <2>1. PICK engine \in Engines, s \in unused :
          /\ Begin(r, "provision", "prov_remove",
                   [engine |-> engine, user |-> s, password |-> s], None, None)
          /\ unused' = unused \ {s}
    BY <1>2 DEF ProvisionBegin
  <2>2. [engine |-> engine, user |-> s, password |-> s] \in Records
    BY <1>1 DEF Records
  <2>3. QED
    BY <1>1, <1>2, <2>1, <2>2, Begins DEF ProvisionBegin
<1>3. CASE DeprovisionBegin(r)
  BY <1>1, <1>3, Begins DEF DeprovisionBegin
<1>4. CASE RotateBegin(r)
  <2>1. PICK s \in unused :
          Begin(r, "rotate", "rotate", stored, s, None) /\ unused' = unused \ {s}
    BY <1>4 DEF RotateBegin
  <2>2. QED
    BY <1>1, <1>4, <2>1, Begins DEF RotateBegin
<1>5. CASE BackupBegin(r)
  <2>1. PICK f \in Files :
          /\ Begin(r, "backup", "dump_open", stored, None, f)
          /\ retaken' = IF Taken(f) THEN retaken \cup {f} ELSE retaken
    BY <1>5 DEF BackupBegin
  <2>2. QED
    BY <1>1, <1>5, <2>1, Begins DEF BackupBegin
<1>6. CASE RestoreBegin(r)
  <2>1. PICK f \in Files : Begin(r, "restore", "restore", stored, None, f)
    BY <1>6 DEF RestoreBegin
  <2>2. QED
    BY <1>1, <1>6, <2>1, Begins DEF RestoreBegin
<1>7. QED
  BY <1>2, <1>3, <1>4, <1>5, <1>6 DEF Arrival

(* A request that was answered records what it had made, and is over.      *)
LEMMA RequestStep_Inv ==
  ASSUME DatabaseInv, NEW r \in Requests, RequestStep(r)
  PROVE  DatabaseInv'
<1>1. DatabaseTypeOK /\ CallSound(call[r], made, leftover) /\ RecordedAccountWasMade
  BY InvByCalls
<1> USE DEF DatabaseTypeOK
<1>2. Return(r) /\ UNCHANGED <<made, leftover>>
  BY DEF RequestStep, ProvisionSave, RotateSave, DeprovisionForget, BackupReport,
         RestoreReport, Fail, histories
<1>3. /\ call' \in [Requests -> Calls \cup {NoCall}]
      /\ \A q \in Requests : CallSound(call[q], made, leftover)'
  BY <1>2, NoCallSound, OneCallChanges DEF Return
<1>4. call[r].op # "none" => call[r] \in Calls
  BY <1>1, NoRecordFacts
<1> SUFFICES DatabaseTypeOK' /\ RecordedAccountWasMade'
  BY <1>3 DEF DatabaseInv, StepsMatch, CallsComplete, AnswersAreTrue, CallSound, At
<1>5. CASE ProvisionSave(r)
  <2>1. /\ call[r].record \in Records /\ call[r].record.password \in Secrets
        /\ \/ <<call[r].record.user, call[r].record.password>> \in made
           \/ call[r].record.user \in leftover
    BY <1>1, <1>4, <1>5 DEF ProvisionSave, Answered, CallSound, Calls, Records
  <2>2. QED
    BY <1>1, <1>3, <1>5, <2>1 DEF ProvisionSave, Save, RecordedAccountWasMade
<1>6. CASE RotateSave(r)
  <2> DEFINE record == [call[r].record EXCEPT !.password = call[r].new]
  <2>1. /\ call[r].record \in Records /\ call[r].new \in Secrets
        /\ <<call[r].record.user, call[r].new>> \in made
    BY <1>1, <1>4, <1>6 DEF RotateSave, Answered, CallSound, Calls
  <2>2. /\ record \in Records
        /\ record.user = call[r].record.user /\ record.password = call[r].new
    BY <2>1 DEF Records
  <2> HIDE DEF record
  <2>3. Save(record) \/ UNCHANGED <<stored, everStored>>
    BY <1>6 DEF RotateSave, record
  <2>4. QED
    BY <1>1, <1>3, <1>6, <2>1, <2>2, <2>3 DEF RotateSave, Save, RecordedAccountWasMade
<1>7. CASE DeprovisionForget(r)
  BY <1>1, <1>3, <1>7 DEF DeprovisionForget, histories, RecordedAccountWasMade
<1>8. CASE BackupReport(r)
  <2>1. call[r].file \in Files
    BY <1>1, <1>8 DEF BackupReport, Answered, CallSound
  <2>2. QED
    BY <1>1, <1>3, <1>8, <2>1 DEF BackupReport, RecordedAccountWasMade
<1>9. CASE RestoreReport(r)
  BY <1>1, <1>3, <1>9 DEF RestoreReport, histories, RecordedAccountWasMade
<1>10. CASE Fail(r)
  BY <1>1, <1>3, <1>10 DEF Fail, histories, RecordedAccountWasMade
<1>11. QED
  BY <1>5, <1>6, <1>7, <1>8, <1>9, <1>10 DEF RequestStep

(* A request that timed out hears of no answer.                            *)
LEMMA GiveUp_Inv ==
  ASSUME DatabaseInv, NEW r \in Requests, GiveUp(r)
  PROVE  DatabaseInv'
<1>1. DatabaseTypeOK /\ CallSound(call[r], made, leftover) /\ RecordedAccountWasMade
  BY InvByCalls
<1>2. call[r] \in Calls
  BY <1>1, CallTyped DEF GiveUp, HandlerSteps, HelperSteps
<1>3. call' = [call EXCEPT ![r] = [call[r] EXCEPT !.open = FALSE]] /\ UNCHANGED <<made, leftover>>
  BY DEF GiveUp, histories
<1>4. [call[r] EXCEPT !.open = FALSE] \in Calls
  BY <1>2 DEF Calls
<1>5. CallSound([call[r] EXCEPT !.open = FALSE], made', leftover')
  BY <1>1, <1>2, <1>3 DEF CallSound, Calls
<1>6. /\ call' \in [Requests -> Calls \cup {NoCall}]
      /\ \A q \in Requests : CallSound(call[q], made, leftover)'
  BY <1>3, <1>4, <1>5, OneCallChanges
<1>7. DatabaseTypeOK' /\ RecordedAccountWasMade'
  BY <1>1, <1>6 DEF GiveUp, histories, DatabaseTypeOK, RecordedAccountWasMade
<1>8. QED
  BY <1>6, <1>7 DEF DatabaseInv, StepsMatch, CallsComplete, AnswersAreTrue, CallSound, At

(* A crash leaves the handlers to themselves and drops every answer.       *)
LEMMA Crash_Inv ==
  ASSUME DatabaseInv, DashboardCrash
  PROVE  DatabaseInv'
<1>1. DatabaseTypeOK /\ RecordedAccountWasMade /\ UNCHANGED <<made, leftover>>
  BY DEF DatabaseInv, DashboardCrash, histories
<1>2. ASSUME NEW q \in Requests
      PROVE  call'[q] \in Calls \cup {NoCall} /\ CallSound(call'[q], made', leftover')
  <2>1. CASE call[q].at \in HandlerSteps
    <3>1. call[q] \in Calls /\ CallSound(call[q], made, leftover)
      BY <1>1, <2>1, CallTyped, InvByCalls DEF HandlerSteps, HelperSteps
    <3>2. call'[q] = [call[q] EXCEPT !.open = FALSE]
      BY <2>1 DEF DashboardCrash
    <3>3. [call[q] EXCEPT !.open = FALSE] \in Calls
      BY <3>1 DEF Calls
    <3>4. QED
      BY <1>1, <3>1, <3>2, <3>3 DEF CallSound, Calls
  <2>2. CASE call[q].at \notin HandlerSteps
    BY <2>2, NoCallSound DEF DashboardCrash
  <2>3. QED
    BY <2>1, <2>2
<1>3. call' \in [Requests -> Calls \cup {NoCall}]
  BY <1>2 DEF DashboardCrash
<1>4. DatabaseTypeOK' /\ RecordedAccountWasMade'
  BY <1>1, <1>3 DEF DashboardCrash, histories, DatabaseTypeOK, RecordedAccountWasMade
<1>5. QED
  BY <1>2, <1>4 DEF DatabaseInv, StepsMatch, CallsComplete, AnswersAreTrue, CallSound, At

(* Every step of the database, its handlers and a crash keeps it.          *)
LEMMA DatabaseStep_Inv == DatabaseInv /\ [Next]_vars => DatabaseInv'
<1> SUFFICES ASSUME DatabaseInv, [Next]_vars
             PROVE  DatabaseInv'
  OBVIOUS
<1>1. CASE UNCHANGED vars
  BY <1>1 DEF vars, DatabaseInv, DatabaseTypeOK, StepsMatch, CallsComplete,
              AnswersAreTrue, RecordedAccountWasMade, At
<1>2. QED
  BY <1>1, Handler_Inv, Arrival_Inv, RequestStep_Inv, GiveUp_Inv, Crash_Inv DEF Next

-----------------------------------------------------------------------------
(* Backups under every interleaving.  A name that was not taken twice      *)
(* belongs to one backup, and no report of it was made before its end.     *)

Dumps(r) == call[r].op = "backup" /\ call[r].file \notin retaken

OwnFile(r) ==
  /\ call[r].file \notin vouched
  /\ \A q \in Requests \ {r} : call[q].op = "backup" => call[q].file # call[r].file
  /\ At(r, "dump") => backups[call[r].file] = "torn"
  /\ At(r, "ok") => backups[call[r].file] = "complete"

BackupInv == ReportedBackupsComplete /\ \A r \in Requests : Dumps(r) => OwnFile(r)

(* A backup under way stays the same one, and makes no progress.           *)
Stays(r) ==
  call'[r].op = "backup" =>
    /\ call[r].op = "backup" /\ call'[r].file = call[r].file
    /\ call'[r].at \in {call[r].at, "error"}

LEMMA BackupsUntouched ==
  ASSUME BackupInv, UNCHANGED <<backups, vouched, retaken>>,
         \A r \in Requests : Stays(r)
  PROVE  BackupInv'
<1>1. ReportedBackupsComplete'
  BY DEF BackupInv, ReportedBackupsComplete
<1>2. ASSUME NEW r \in Requests, Dumps(r)'
      PROVE  OwnFile(r)'
  BY <1>2 DEF BackupInv, Dumps, OwnFile, At, Stays
<1>3. QED
  BY <1>1, <1>2 DEF BackupInv

(* A step of one call that is no step of a dump.                           *)
LEMMA OneStays ==
  ASSUME DatabaseInv, BackupInv, UNCHANGED <<backups, vouched, retaken>>,
         NEW r \in Requests, NEW c, call' = [call EXCEPT ![r] = c],
         c.op = "backup" =>
           /\ call[r].op = "backup" /\ c.file = call[r].file
           /\ c.at \in {call[r].at, "error"}
  PROVE  BackupInv'
<1>1. \A q \in Requests : Stays(q)
  BY DEF Stays, DatabaseInv, DatabaseTypeOK
<1>2. QED
  BY <1>1, BackupsUntouched

(* A call that is answered or over.                                        *)
LEMMA AnswerStays ==
  ASSUME DatabaseInv, BackupInv, UNCHANGED <<backups, vouched, retaken>>,
         NEW r \in Requests, call[r] \in Calls, NEW answer, Respond(r, answer),
         call[r].op = "backup" => answer = "error"
  PROVE  BackupInv'
<1>1. PICK c \in {[call[r] EXCEPT !.at = answer], NoCall} : call' = [call EXCEPT ![r] = c]
  BY Responds
<1>2. c.op = "backup" =>
        /\ call[r].op = "backup" /\ c.file = call[r].file
        /\ c.at \in {call[r].at, "error"}
  BY <1>1, NoRecordFacts DEF Calls
<1>3. QED
  BY <1>1, <1>2, OneStays

(* The file of one backup changes: what is known of the others stands.     *)
LEMMA OneFileChanges ==
  ASSUME DatabaseInv, BackupInv, NEW r \in Requests, call[r].op = "backup",
         NEW c, call' = [call EXCEPT ![r] = c], c.op = "backup" => c.file = call[r].file,
         NEW content, backups' = [backups EXCEPT ![call[r].file] = content],
         UNCHANGED <<vouched, retaken>>,
         Dumps(r)' => OwnFile(r)'
  PROVE  BackupInv'
<1>1. /\ call'[r] = c
      /\ \A q \in Requests \ {r} : call'[q] = call[q]
      /\ call[r].file \in Files
      /\ \A f \in Files \ {call[r].file} : backups'[f] = backups[f]
  BY DEF DatabaseInv, DatabaseTypeOK, CallsComplete
<1>2. call[r].file \notin vouched \ retaken
  BY DEF BackupInv, Dumps, OwnFile
<1>3. ReportedBackupsComplete'
  BY <1>1, <1>2 DEF BackupInv, ReportedBackupsComplete, DatabaseInv, DatabaseTypeOK
<1>4. ASSUME NEW q \in Requests \ {r}, Dumps(q)'
      PROVE  OwnFile(q)'
  <2>1. Dumps(q) /\ OwnFile(q) /\ call[q].file \in Files
    BY <1>1, <1>4 DEF Dumps, BackupInv, DatabaseInv, CallsComplete
  <2>2. call[q].file # call[r].file
    BY <2>1 DEF OwnFile
  <2>3. QED
    BY <1>1, <2>1, <2>2 DEF OwnFile, At
<1>5. QED
  BY <1>3, <1>4 DEF BackupInv

LEMMA Handler_Backup ==
  ASSUME DatabaseInv, BackupInv, NEW r \in Requests, Handler(r)
  PROVE  BackupInv'
<1>1. DatabaseTypeOK /\ CallSound(call[r], made, leftover) /\ call[r] \in Calls
  <2>1. call[r].at # "none"
    BY DEF Handler, HandlerFails, ProvisionRemove, ProvisionCreate, ProvisionStart,
           DeprovisionRemove, DeprovisionVolume, Rotate, DumpOpen, Dump, Restore, At,
           HandlerSteps, HelperSteps
  <2>2. QED
    BY <2>1, InvByCalls, CallTyped
<1>2. ASSUME NEW step, Advance(r, step), call[r].op # "backup",
             UNCHANGED <<backups, vouched, retaken>>
      PROVE  BackupInv'
  <2>1. call' = [call EXCEPT ![r] = [call[r] EXCEPT !.at = step]]
    BY <1>2 DEF Advance
  <2>2. [call[r] EXCEPT !.at = step].op # "backup"
    BY <1>1, <1>2 DEF Calls
  <2>3. QED
    BY <1>2, <2>1, <2>2, OneStays
<1>3. CASE HandlerFails(r)
  BY <1>1, <1>3, AnswerStays DEF HandlerFails, histories
<1>4. CASE ProvisionRemove(r) \/ ProvisionCreate(r) \/ DeprovisionRemove(r)
  <2>1. call[r].op # "backup" /\ UNCHANGED <<backups, vouched, retaken>>
    BY <1>1, <1>4 DEF ProvisionRemove, ProvisionCreate, DeprovisionRemove, histories,
                      CallSound, ProvisionSteps, At
  <2>2. \E step : Advance(r, step)
    BY <1>4 DEF ProvisionRemove, ProvisionCreate, DeprovisionRemove
  <2>3. QED
    BY <1>2, <2>1, <2>2
<1>5. CASE ProvisionStart(r) \/ DeprovisionVolume(r) \/ Rotate(r) \/ Restore(r)
  <2>1. call[r].op # "backup" /\ UNCHANGED <<backups, vouched, retaken>>
    BY <1>1, <1>5 DEF ProvisionStart, DeprovisionVolume, Rotate, Restore, histories,
                      CallSound, ProvisionSteps, At
  <2>2. \E answer : Respond(r, answer)
    BY <1>5 DEF ProvisionStart, DeprovisionVolume, Rotate, Restore, Finish
  <2>3. QED
    BY <1>1, <2>1, <2>2, AnswerStays
<1>6. CASE DumpOpen(r)
  <2> DEFINE alone == \A q \in Requests : At(q, "dump") => call[q].file # call[r].file
             content == IF alone THEN "torn" ELSE "mixed"
             c == [call[r] EXCEPT !.at = "dump"]
  <2>1. /\ call' = [call EXCEPT ![r] = c]
        /\ backups' = [backups EXCEPT ![call[r].file] = content]
        /\ UNCHANGED <<vouched, retaken>>
    BY <1>6 DEF DumpOpen, Advance, histories
  <2>2. /\ call[r].op = "backup" /\ call[r].file \in Files
        /\ c.op = "backup" /\ c.file = call[r].file /\ c.at = "dump"
    BY <1>1, <1>6 DEF DumpOpen, CallSound, Calls, At
  <2>3. ASSUME Dumps(r)'
        PROVE  OwnFile(r)'
    <3>1. Dumps(r) /\ OwnFile(r)
      BY <1>1, <2>1, <2>2, <2>3 DEF Dumps, BackupInv, DatabaseTypeOK
    <3>2. ASSUME NEW q \in Requests, At(q, "dump")
          PROVE  call[q].file # call[r].file
      <4>1. q # r
        BY <1>6, <3>2 DEF DumpOpen, At
      <4>2. call[q].op = "backup"
        BY <3>2 DEF DatabaseInv, StepsMatch, At
      <4>3. QED
        BY <3>1, <4>1, <4>2 DEF OwnFile
    <3>3. backups'[call[r].file] = "torn"
      BY <1>1, <2>1, <2>2, <3>2 DEF DatabaseTypeOK
    <3>4. QED
      BY <1>1, <2>1, <2>2, <3>1, <3>3 DEF OwnFile, At, DatabaseTypeOK
  <2> HIDE DEF c, content
  <2>4. QED
    BY <2>1, <2>2, <2>3, OneFileChanges
<1>7. CASE Dump(r)
  <2> DEFINE content == IF backups[call[r].file] = "mixed"
                          THEN backups[call[r].file] ELSE "complete"
  <2>1. PICK answer \in {"ok", "error"} : Respond(r, answer)
    BY <1>7 DEF Dump, Finish
  <2>2. PICK c \in {[call[r] EXCEPT !.at = answer], NoCall} : call' = [call EXCEPT ![r] = c]
    BY <2>1, Responds
  <2>3. /\ backups' = [backups EXCEPT ![call[r].file] = content]
        /\ UNCHANGED <<vouched, retaken>>
    BY <1>7 DEF Dump, histories
  <2>4. /\ call[r].op = "backup" /\ call[r].file \in Files
        /\ c.op = "backup" => c.file = call[r].file /\ c.at = answer
    BY <1>1, <1>7, NoRecordFacts DEF Dump, CallSound, Calls, At
  <2>5. ASSUME Dumps(r)'
        PROVE  OwnFile(r)'
    <3>1. /\ call'[r].op = "backup" /\ call'[r].file = call[r].file /\ call'[r].at = answer
          /\ \A q \in Requests \ {r} : call'[q] = call[q]
      BY <1>1, <2>2, <2>4, <2>5 DEF Dumps, DatabaseTypeOK
    <3>2. Dumps(r) /\ OwnFile(r)
      BY <2>3, <2>4, <2>5, <3>1 DEF Dumps, BackupInv
    <3>3. backups[call[r].file] = "torn"
      BY <1>7, <3>2 DEF Dump, OwnFile
    <3>4. backups'[call[r].file] = "complete"
      BY <1>1, <2>3, <2>4, <3>3 DEF DatabaseTypeOK
    <3>5. QED
      BY <2>3, <3>1, <3>2, <3>4 DEF OwnFile, At
  <2> HIDE DEF content
  <2>6. QED
    BY <2>2, <2>3, <2>4, <2>5, OneFileChanges
<1>8. QED
  BY <1>3, <1>4, <1>5, <1>6, <1>7 DEF Handler

(* A backup that begins: its name is nobody's, or is taken from then on.   *)
LEMMA Arrival_Backup ==
  ASSUME DatabaseInv, BackupInv, NEW r \in Requests, Arrival(r)
  PROVE  BackupInv'
<1>1. ASSUME NEW op, NEW step, NEW record, NEW new, NEW file, op # "backup",
             Begin(r, op, step, record, new, file), UNCHANGED retaken
      PROVE  BackupInv'
  <2> DEFINE c == [op |-> op, at |-> step, open |-> TRUE, record |-> record,
                   new |-> new, file |-> file]
  <2>1. call' = [call EXCEPT ![r] = c] /\ UNCHANGED <<backups, vouched, retaken>>
    BY <1>1 DEF Begin
  <2>2. c.op # "backup"
    BY <1>1
  <2> HIDE DEF c
  <2>3. QED
    BY <2>1, <2>2, OneStays
<1>2. CASE ProvisionBegin(r)
  BY <1>1, <1>2 DEF ProvisionBegin
<1>3. CASE DeprovisionBegin(r)
  BY <1>1, <1>3 DEF DeprovisionBegin
<1>4. CASE RotateBegin(r)
  BY <1>1, <1>4 DEF RotateBegin
<1>5. CASE RestoreBegin(r)
  BY <1>1, <1>5 DEF RestoreBegin
<1>6. CASE BackupBegin(r)
  <2>1. PICK f \in Files :
          /\ Begin(r, "backup", "dump_open", stored, None, f)
          /\ retaken' = IF Taken(f) THEN retaken \cup {f} ELSE retaken
    BY <1>6 DEF BackupBegin
  <2>2. /\ call'[r].op = "backup" /\ call'[r].file = f /\ call'[r].at = "dump_open"
        /\ \A q \in Requests \ {r} : call'[q] = call[q]
        /\ UNCHANGED <<backups, vouched>>
        /\ retaken \subseteq retaken' /\ (Taken(f) => f \in retaken')
    BY <2>1 DEF Begin, DatabaseInv, DatabaseTypeOK
  <2>3. ReportedBackupsComplete'
    BY <2>2 DEF BackupInv, ReportedBackupsComplete
  <2>4. Dumps(r)' => OwnFile(r)'
    BY <2>2 DEF Dumps, OwnFile, At, Taken
  <2>5. ASSUME NEW q \in Requests \ {r}, Dumps(q)'
        PROVE  OwnFile(q)'
    <3>1. Dumps(q) /\ OwnFile(q)
      BY <2>2, <2>5 DEF Dumps, BackupInv
    <3>2. call[q].file # f
      BY <2>2, <2>5 DEF Dumps, Taken
    <3>3. QED
      BY <2>2, <3>1, <3>2 DEF OwnFile, At
  <2>6. QED
    BY <2>3, <2>4, <2>5 DEF BackupInv
<1>7. QED
  BY <1>2, <1>3, <1>4, <1>5, <1>6 DEF Arrival

(* A report: the file is complete, and nobody else has it.                 *)
LEMMA RequestStep_Backup ==
  ASSUME DatabaseInv, BackupInv, NEW r \in Requests, RequestStep(r)
  PROVE  BackupInv'
<1>1. call' = [call EXCEPT ![r] = NoCall] /\ NoCall.op # "backup"
  BY NoRecordFacts
     DEF RequestStep, ProvisionSave, RotateSave, DeprovisionForget, BackupReport,
         RestoreReport, Fail, Return
<1>2. CASE UNCHANGED <<backups, vouched, retaken>>
  BY <1>1, <1>2, OneStays
<1>3. CASE BackupReport(r)
  <2>1. /\ call[r].op = "backup" /\ At(r, "ok")
        /\ vouched' = vouched \cup {call[r].file} /\ UNCHANGED <<backups, retaken>>
    BY <1>3 DEF BackupReport, Answered, At
  <2>2. /\ call'[r].op # "backup"
        /\ \A q \in Requests \ {r} : call'[q] = call[q]
    BY <1>1 DEF DatabaseInv, DatabaseTypeOK
  <2>3. ReportedBackupsComplete'
    BY <2>1 DEF BackupInv, Dumps, OwnFile, ReportedBackupsComplete
  <2>4. ASSUME NEW q \in Requests, Dumps(q)'
        PROVE  OwnFile(q)'
    <3>1. q # r /\ Dumps(q) /\ OwnFile(q)
      BY <2>1, <2>2, <2>4 DEF Dumps, BackupInv
    <3>2. call[q].file # call[r].file
      BY <2>1, <3>1 DEF OwnFile
    <3>3. QED
      BY <2>1, <2>2, <3>1, <3>2 DEF OwnFile, At
  <2>5. QED
    BY <2>3, <2>4 DEF BackupInv
<1>4. QED
  BY <1>2, <1>3
     DEF RequestStep, ProvisionSave, RotateSave, DeprovisionForget, RestoreReport, Fail,
         histories

LEMMA GiveUp_Backup ==
  ASSUME DatabaseInv, BackupInv, NEW r \in Requests, GiveUp(r)
  PROVE  BackupInv'
<1>1. call[r] \in Calls
  BY CallTyped DEF GiveUp, HandlerSteps, HelperSteps, DatabaseInv
<1>2. /\ call' = [call EXCEPT ![r] = [call[r] EXCEPT !.open = FALSE]]
      /\ UNCHANGED <<backups, vouched, retaken>>
  BY DEF GiveUp, histories
<1> DEFINE c == [call[r] EXCEPT !.open = FALSE]
<1>3. c.op = call[r].op /\ c.file = call[r].file /\ c.at = call[r].at
  BY <1>1 DEF Calls
<1> HIDE DEF c
<1>4. QED
  BY <1>2, <1>3, OneStays DEF c

LEMMA Crash_Backup ==
  ASSUME DatabaseInv, BackupInv, DashboardCrash
  PROVE  BackupInv'
<1>1. ASSUME NEW q \in Requests
      PROVE  Stays(q)
  <2>1. CASE call[q].at \in HandlerSteps
    <3>1. call[q] \in Calls
      BY <2>1, CallTyped DEF HandlerSteps, HelperSteps, DatabaseInv
    <3>2. call'[q] = [call[q] EXCEPT !.open = FALSE]
      BY <2>1 DEF DashboardCrash
    <3>3. QED
      BY <3>1, <3>2 DEF Stays, Calls
  <2>2. CASE call[q].at \notin HandlerSteps
    <3>1. call'[q].op # "backup"
      BY <2>2, NoRecordFacts DEF DashboardCrash
    <3>2. QED
      BY <3>1 DEF Stays
  <2>3. QED
    BY <2>1, <2>2
<1>2. QED
  BY <1>1, BackupsUntouched DEF DashboardCrash, histories

LEMMA DatabaseStep_Backup == DatabaseInv /\ BackupInv /\ [Next]_vars => BackupInv'
<1> SUFFICES ASSUME DatabaseInv, BackupInv, [Next]_vars
             PROVE  BackupInv'
  OBVIOUS
<1>1. CASE UNCHANGED vars
  BY <1>1, BackupsUntouched DEF vars, Stays
<1>2. QED
  BY <1>1, Handler_Backup, Arrival_Backup, RequestStep_Backup, GiveUp_Backup, Crash_Backup
     DEF Next

LEMMA DatabaseInit_Backup == Init => BackupInv
  BY NoRecordFacts DEF Init, BackupInv, ReportedBackupsComplete, Dumps

-----------------------------------------------------------------------------
(* Operations one at a time.  What was promised of the record and the data *)
(* follows from what the one operation under way knows: passwords it drew  *)
(* are new, and the record is still the one it read.                       *)

Fresh(s) == s \notin everStored /\ s \notin unused

Work(r) ==
  /\ call[r].op = "provision" =>
       /\ stored = NoRecord
       /\ Fresh(call[r].record.password)
       /\ volume.password = call[r].record.password => volume = call[r].record
  /\ call[r].op \in {"deprovision", "rotate", "backup", "restore"} => stored = call[r].record
  /\ call[r].op = "deprovision" /\ At(r, "ok") => volume = NoRecord
  /\ call[r].op = "rotate" => Fresh(call[r].new)
  /\ call[r].op = "rotate" /\ At(r, "ok") =>
       volume = [call[r].record EXCEPT !.password = call[r].new]

Kept ==
  /\ stored # NoRecord /\ volume.password \in everStored => volume = stored
  /\ stored = NoRecord => volume.password \notin everStored
  /\ everStored \cap unused = {}
  /\ volume.password \notin unused

Alone == \A r, q \in Requests : call[r] # NoCall /\ call[q] # NoCall => r = q

SerialInv == ~overlapped => Kept /\ Alone /\ \A r \in Requests : Work(r)

LEMMA NoCallWorks == ASSUME NEW r, call[r] = NoCall PROVE Work(r)
  BY NoRecordFacts DEF Work, At

LEMMA DatabaseInit_Serial == Init => SerialInv
<1> SUFFICES ASSUME Init PROVE SerialInv
  OBVIOUS
<1>1. NoRecord.password = None /\ None \notin Secrets
  BY DatabaseAssumption DEF NoRecord
<1>2. Kept
  BY <1>1 DEF Init, Kept
<1>3. QED
  BY <1>2, NoCallWorks DEF Init, SerialInv, Alone

(* The step of the one request there is.                                   *)
LEMMA OneWorks ==
  ASSUME DatabaseInv, Alone, NEW r \in Requests, call[r] # NoCall,
         NEW c, call' = [call EXCEPT ![r] = c], Kept', Work(r)'
  PROVE  SerialInv'
<1>1. ASSUME NEW q \in Requests, q # r
      PROVE  call'[q] = NoCall
  BY <1>1 DEF DatabaseInv, DatabaseTypeOK, Alone
<1>2. ASSUME NEW q \in Requests
      PROVE  Work(q)'
  BY <1>1, <1>2, NoRecordFacts DEF Work, At
<1>3. Alone'
  BY <1>1 DEF Alone
<1>4. QED
  BY <1>2, <1>3 DEF SerialInv

LEMMA AtOnly ==
  ASSUME DatabaseInv, NEW r \in Requests, call[r] \in Calls, NEW step,
         call' = [call EXCEPT ![r] = [call[r] EXCEPT !.at = step]]
  PROVE  /\ call'[r].at = step
         /\ call'[r].op = call[r].op /\ call'[r].record = call[r].record
         /\ call'[r].new = call[r].new /\ call'[r].file = call[r].file
  BY DEF DatabaseInv, DatabaseTypeOK, Calls

LEMMA Handler_Serial ==
  ASSUME DatabaseInv, SerialInv, NEW r \in Requests, Handler(r), ~overlapped
  PROVE  SerialInv'
<1>1. Kept /\ Alone /\ Work(r) /\ DatabaseTypeOK /\ CallSound(call[r], made, leftover)
  BY InvByCalls DEF SerialInv
<1>2. call[r] \in Calls /\ call[r] # NoCall
  <2>1. call[r].at # "none"
    BY DEF Handler, HandlerFails, ProvisionRemove, ProvisionCreate, ProvisionStart,
           DeprovisionRemove, DeprovisionVolume, Rotate, DumpOpen, Dump, Restore, At,
           HandlerSteps, HelperSteps
  <2>2. QED
    BY <1>1, <2>1, CallTyped, NoRecordFacts
<1>3. ASSUME NEW step, call' = [call EXCEPT ![r].at = step], Kept', Work(r)'
      PROVE  SerialInv'
  BY <1>1, <1>2, <1>3, OneWorks
<1>4. ASSUME NEW step, call' = [call EXCEPT ![r].at = step]
      PROVE  /\ call'[r].at = step
             /\ call'[r].op = call[r].op /\ call'[r].record = call[r].record
             /\ call'[r].new = call[r].new /\ call'[r].file = call[r].file
  BY <1>2, <1>4, AtOnly
<1>5. ASSUME NEW answer, Respond(r, answer), Kept',
             call' = [call EXCEPT ![r].at = answer] => Work(r)'
      PROVE  SerialInv'
  <2>1. CASE call[r].open
    BY <1>1, <1>2, <1>5, <2>1, OneWorks DEF Respond
  <2>2. CASE ~call[r].open
    <3>1. call' = [call EXCEPT ![r] = NoCall] /\ call'[r] = NoCall
      BY <1>1, <1>5, <2>2 DEF Respond, DatabaseTypeOK
    <3>2. Work(r)'
      BY <3>1, NoRecordFacts DEF Work, At
    <3>3. QED
      BY <1>1, <1>2, <1>5, <3>1, <3>2, OneWorks
  <2>3. QED
    BY <2>1, <2>2
<1>6. CASE HandlerFails(r)
  <2>1. Kept'
    BY <1>1, <1>6 DEF HandlerFails, histories, Kept
  <2>2. ASSUME call' = [call EXCEPT ![r].at = "error"]
        PROVE  Work(r)'
    BY <1>1, <1>4, <1>6, <2>2 DEF HandlerFails, histories, Work, At, Fresh
  <2>3. QED
    BY <1>5, <1>6, <2>1, <2>2 DEF HandlerFails
<1>7. CASE ProvisionRemove(r)
  <2>1. Kept'
    BY <1>1, <1>7 DEF ProvisionRemove, histories, Kept
  <2>2. Work(r)'
    BY <1>1, <1>4, <1>7 DEF ProvisionRemove, Advance, histories, Work, At, Fresh
  <2>3. QED
    BY <1>3, <1>7, <2>1, <2>2 DEF ProvisionRemove, Advance
<1>8. CASE ProvisionCreate(r)
  <2>1. Kept'
    BY <1>1, <1>8 DEF ProvisionCreate, histories, Kept
  <2>2. Work(r)'
    BY <1>1, <1>4, <1>8 DEF ProvisionCreate, Advance, histories, Work, At, Fresh
  <2>3. QED
    BY <1>3, <1>8, <2>1, <2>2 DEF ProvisionCreate, Advance
<1>9. CASE ProvisionStart(r)
  <2>1. PICK answer \in {"ok", "error"} : Respond(r, answer)
    BY <1>9 DEF ProvisionStart, Finish
  <2>2. call[r].op = "provision" /\ volume' \in {volume, call[r].record}
    BY <1>1, <1>9 DEF ProvisionStart, CallSound, ProvisionSteps, Work, At
  <2>3. Kept'
    BY <1>1, <1>9, <2>2 DEF ProvisionStart, Kept, Work, Fresh
  <2>4. ASSUME call' = [call EXCEPT ![r].at = answer]
        PROVE  Work(r)'
    BY <1>1, <1>4, <1>9, <2>2, <2>4 DEF ProvisionStart, Work, At, Fresh
  <2>5. QED
    BY <1>5, <2>1, <2>3, <2>4
<1>10. CASE DeprovisionRemove(r)
  <2>1. Kept'
    BY <1>1, <1>10 DEF DeprovisionRemove, histories, Kept
  <2>2. Work(r)'
    BY <1>1, <1>4, <1>10 DEF DeprovisionRemove, Advance, histories, Work, At, Fresh
  <2>3. QED
    BY <1>3, <1>10, <2>1, <2>2 DEF DeprovisionRemove, Advance
<1>11. CASE DeprovisionVolume(r)
  <2>1. PICK answer \in {"ok", "error"} : Respond(r, answer)
    BY <1>11 DEF DeprovisionVolume, Finish
  <2>2. call[r].op = "deprovision" /\ volume' = NoRecord
    BY <1>1, <1>11 DEF DeprovisionVolume, CallSound, At
  <2>3. NoRecord.password = None /\ None \notin everStored /\ None \notin unused
    BY <1>1, DatabaseAssumption DEF NoRecord, DatabaseTypeOK
  <2>4. Kept'
    BY <1>1, <1>11, <2>2, <2>3 DEF DeprovisionVolume, histories, Kept
  <2>5. ASSUME call' = [call EXCEPT ![r].at = answer]
        PROVE  Work(r)'
    BY <1>1, <1>4, <1>11, <2>2, <2>5 DEF DeprovisionVolume, histories, Work, At, Fresh
  <2>6. QED
    BY <1>5, <2>1, <2>4, <2>5
<1>12. CASE Rotate(r)
  <2>1. PICK answer \in {"ok", "error"} : Respond(r, answer)
    BY <1>12 DEF Rotate, Finish
  <2>2. /\ call[r].op = "rotate" /\ call[r].record = volume /\ volume \in Records
        /\ volume' = [call[r].record EXCEPT !.password = call[r].new]
    BY <1>1, <1>2, <1>12 DEF Rotate, LogsIn, CallSound, At, Calls
  <2>3. volume'.password = call[r].new /\ Fresh(call[r].new) /\ stored # NoRecord
    BY <1>1, <2>2, NoRecordFacts DEF Work, Records
  <2>4. Kept'
    BY <1>1, <1>12, <2>3 DEF Rotate, Kept, Fresh
  <2>5. ASSUME call' = [call EXCEPT ![r].at = answer]
        PROVE  Work(r)'
    BY <1>1, <1>4, <1>12, <2>2, <2>5 DEF Rotate, Work, At, Fresh
  <2>6. QED
    BY <1>5, <2>1, <2>4, <2>5
<1>13. CASE DumpOpen(r)
  <2>1. Kept'
    BY <1>1, <1>13 DEF DumpOpen, histories, Kept
  <2>2. Work(r)'
    BY <1>1, <1>4, <1>13 DEF DumpOpen, Advance, histories, Work, At, Fresh
  <2>3. QED
    BY <1>3, <1>13, <2>1, <2>2 DEF DumpOpen, Advance
<1>14. CASE Dump(r)
  <2>1. PICK answer \in {"ok", "error"} : Respond(r, answer)
    BY <1>14 DEF Dump, Finish
  <2>2. call[r].op = "backup"
    BY <1>1, <1>14 DEF Dump, CallSound, At
  <2>3. Kept'
    BY <1>1, <1>14 DEF Dump, histories, Kept
  <2>4. ASSUME call' = [call EXCEPT ![r].at = answer]
        PROVE  Work(r)'
    BY <1>1, <1>4, <1>14, <2>2, <2>4 DEF Dump, histories, Work, At, Fresh
  <2>5. QED
    BY <1>5, <2>1, <2>3, <2>4
<1>15. CASE Restore(r)
  <2>1. PICK answer \in {"ok", "error"} : Respond(r, answer)
    BY <1>15 DEF Restore, Finish
  <2>2. call[r].op = "restore"
    BY <1>1, <1>15 DEF Restore, CallSound, At
  <2>3. Kept'
    BY <1>1, <1>15 DEF Restore, histories, Kept
  <2>4. ASSUME call' = [call EXCEPT ![r].at = answer]
        PROVE  Work(r)'
    BY <1>1, <1>4, <1>15, <2>2, <2>4 DEF Restore, histories, Work, At, Fresh
  <2>5. QED
    BY <1>5, <2>1, <2>3, <2>4
<1>16. QED
  BY <1>6, <1>7, <1>8, <1>9, <1>10, <1>11, <1>12, <1>13, <1>14, <1>15 DEF Handler

(* An operation that begins while none is under way.                       *)
LEMMA BeginsAlone ==
  ASSUME DatabaseInv, SerialInv, NEW r \in Requests,
         NEW op, NEW step, NEW record, NEW new, NEW file,
         Begin(r, op, step, record, new, file), ~overlapped',
         Kept', Work(r)'
  PROVE  SerialInv'
<1>1. /\ ~overlapped
      /\ \A q \in Requests \ {r} : call[q] = NoCall
      /\ \E c : call' = [call EXCEPT ![r] = c]
  BY DEF Begin
<1>2. \A q \in Requests \ {r} : call'[q] = NoCall
  BY <1>1 DEF DatabaseInv, DatabaseTypeOK
<1>3. ASSUME NEW q \in Requests
      PROVE  Work(q)'
  BY <1>2, <1>3, NoRecordFacts DEF Work, At
<1>4. Alone'
  BY <1>2 DEF Alone
<1>5. QED
  BY <1>3, <1>4 DEF SerialInv

LEMMA BeginsWith ==
  ASSUME DatabaseInv, NEW r \in Requests,
         NEW op, NEW step, NEW record, NEW new, NEW file,
         Begin(r, op, step, record, new, file)
  PROVE  /\ call'[r].op = op /\ call'[r].at = step /\ call'[r].record = record
         /\ call'[r].new = new /\ call'[r].file = file
         /\ UNCHANGED <<stored, server, volume, backups, everStored, made, vouched>>
  BY DEF Begin, DatabaseInv, DatabaseTypeOK

LEMMA Arrival_Serial ==
  ASSUME DatabaseInv, SerialInv, NEW r \in Requests, Arrival(r), ~overlapped'
  PROVE  SerialInv'
<1>1. Kept /\ ~overlapped /\ DatabaseTypeOK
  BY DEF Arrival, ProvisionBegin, DeprovisionBegin, RotateBegin, BackupBegin, RestoreBegin,
         Begin, SerialInv, DatabaseInv
<1>2. CASE ProvisionBegin(r)
  <2>1. PICK engine \in Engines, s \in unused :
          /\ Begin(r, "provision", "prov_remove",
                   [engine |-> engine, user |-> s, password |-> s], None, None)
          /\ unused' = unused \ {s}
    BY <1>2 DEF ProvisionBegin
  <2> DEFINE record == [engine |-> engine, user |-> s, password |-> s]
  <2>2. /\ call'[r].op = "provision" /\ call'[r].at = "prov_remove"
        /\ call'[r].record = record
        /\ UNCHANGED <<stored, server, volume, backups, everStored, made, vouched>>
    BY <2>1, BeginsWith
  <2>3. Kept'
    BY <1>1, <2>1, <2>2 DEF Kept
  <2>4. record.password = s /\ s \notin everStored /\ volume.password # s
    BY <1>1 DEF Kept
  <2>5. Work(r)'
    BY <1>2, <2>1, <2>2, <2>4 DEF ProvisionBegin, Work, At, Fresh
  <2>6. QED
    BY <2>1, <2>3, <2>5, BeginsAlone
<1>3. CASE DeprovisionBegin(r)
  <2>1. Begin(r, "deprovision", "dep_remove", stored, None, None) /\ UNCHANGED unused
    BY <1>3 DEF DeprovisionBegin
  <2>2. Kept' /\ Work(r)'
    BY <1>1, <2>1, BeginsWith DEF Kept, Work, At
  <2>3. QED
    BY <2>1, <2>2, BeginsAlone
<1>4. CASE RotateBegin(r)
  <2>1. PICK s \in unused :
          Begin(r, "rotate", "rotate", stored, s, None) /\ unused' = unused \ {s}
    BY <1>4 DEF RotateBegin
  <2>2. /\ call'[r].op = "rotate" /\ call'[r].at = "rotate"
        /\ call'[r].record = stored /\ call'[r].new = s
        /\ UNCHANGED <<stored, server, volume, backups, everStored, made, vouched>>
    BY <2>1, BeginsWith
  <2>3. Kept'
    BY <1>1, <2>1, <2>2 DEF Kept
  <2>4. Work(r)'
    BY <1>1, <2>1, <2>2 DEF Kept, Work, At, Fresh
  <2>5. QED
    BY <2>1, <2>3, <2>4, BeginsAlone
<1>5. CASE BackupBegin(r)
  <2>1. PICK f \in Files : Begin(r, "backup", "dump_open", stored, None, f)
    BY <1>5 DEF BackupBegin
  <2>2. Kept' /\ Work(r)'
    BY <1>1, <1>5, <2>1, BeginsWith DEF BackupBegin, Kept, Work, At
  <2>3. QED
    BY <2>1, <2>2, BeginsAlone
<1>6. CASE RestoreBegin(r)
  <2>1. PICK f \in Files : Begin(r, "restore", "restore", stored, None, f)
    BY <1>6 DEF RestoreBegin
  <2>2. Kept' /\ Work(r)'
    BY <1>1, <1>6, <2>1, BeginsWith DEF RestoreBegin, Kept, Work, At
  <2>3. QED
    BY <2>1, <2>2, BeginsAlone
<1>7. QED
  BY <1>2, <1>3, <1>4, <1>5, <1>6 DEF Arrival

LEMMA RequestStep_Serial ==
  ASSUME DatabaseInv, SerialInv, NEW r \in Requests, RequestStep(r), ~overlapped
  PROVE  SerialInv'
<1>1. Kept /\ Alone /\ Work(r) /\ DatabaseTypeOK /\ CallSound(call[r], made, leftover)
  BY InvByCalls DEF SerialInv
<1>2. Return(r) /\ call[r].open
  BY DEF RequestStep, ProvisionSave, RotateSave, DeprovisionForget, BackupReport,
         RestoreReport, Fail, Answered
<1>3. call[r] # NoCall /\ call[r] \in Calls
  BY <1>1, <1>2, NoRecordFacts DEF DatabaseTypeOK
<1>4. call' = [call EXCEPT ![r] = NoCall] /\ call'[r] = NoCall
  BY <1>1, <1>2 DEF Return, DatabaseTypeOK
<1>5. Work(r)'
  BY <1>4, NoRecordFacts DEF Work, At
<1> SUFFICES Kept'
  BY <1>1, <1>3, <1>4, <1>5, OneWorks
<1>6. CASE ProvisionSave(r)
  <2>1. /\ call[r].op = "provision" /\ call[r].record \in Records
    BY <1>3, <1>6 DEF ProvisionSave, Answered, Calls
  <2>2. CASE Save(call[r].record)
    BY <1>1, <1>6, <2>1, <2>2, NoRecordFacts DEF ProvisionSave, Save, Kept, Work, Fresh
  <2>3. CASE UNCHANGED <<stored, everStored>>
    BY <1>1, <1>6, <2>3 DEF ProvisionSave, Kept
  <2>4. QED
    BY <1>6, <2>2, <2>3 DEF ProvisionSave
<1>7. CASE RotateSave(r)
  <2> DEFINE record == [call[r].record EXCEPT !.password = call[r].new]
  <2>1. /\ call[r].op = "rotate" /\ At(r, "ok")
        /\ call[r].record \in Records /\ call[r].new \in Secrets
    BY <1>1, <1>3, <1>7 DEF RotateSave, Answered, Calls, CallSound, At
  <2>2. record \in Records /\ record.password = call[r].new
    BY <2>1 DEF Records
  <2>3. volume = record /\ Fresh(call[r].new)
    BY <1>1, <2>1 DEF Work
  <2> HIDE DEF record
  <2>4. CASE Save(record)
    BY <1>1, <1>7, <2>2, <2>3, <2>4, NoRecordFacts DEF RotateSave, Save, Kept, Fresh
  <2>5. CASE UNCHANGED <<stored, everStored>>
    BY <1>1, <1>7, <2>5 DEF RotateSave, Kept
  <2>6. QED
    BY <1>7, <2>4, <2>5 DEF RotateSave, record
<1>8. CASE DeprovisionForget(r)
  <2>1. call[r].op = "deprovision" /\ At(r, "ok")
    BY <1>8 DEF DeprovisionForget, Answered, At
  <2>2. volume = NoRecord /\ NoRecord.password = None /\ None \notin everStored
    BY <1>1, <2>1, DatabaseAssumption DEF Work, NoRecord, DatabaseTypeOK
  <2>3. QED
    BY <1>1, <1>8, <2>2 DEF DeprovisionForget, histories, Kept
<1>9. CASE BackupReport(r)
  BY <1>1, <1>9 DEF BackupReport, Kept
<1>10. CASE RestoreReport(r)
  BY <1>1, <1>10 DEF RestoreReport, histories, Kept
<1>11. CASE Fail(r)
  BY <1>1, <1>11 DEF Fail, histories, Kept
<1>12. QED
  BY <1>6, <1>7, <1>8, <1>9, <1>10, <1>11 DEF RequestStep

LEMMA GiveUp_Serial ==
  ASSUME DatabaseInv, SerialInv, NEW r \in Requests, GiveUp(r), ~overlapped
  PROVE  SerialInv'
<1>1. Kept /\ Alone /\ Work(r) /\ DatabaseTypeOK
  BY DEF SerialInv, DatabaseInv
<1>2. call[r] \in Calls /\ call[r] # NoCall
  BY <1>1, CallTyped, NoRecordFacts DEF GiveUp, HandlerSteps, HelperSteps
<1>3. /\ call' = [call EXCEPT ![r] = [call[r] EXCEPT !.open = FALSE]]
      /\ UNCHANGED <<stored, server, volume, backups, unused, everStored, vouched, overlapped>>
  BY DEF GiveUp, histories
<1>4. /\ call'[r].at = call[r].at
      /\ call'[r].op = call[r].op /\ call'[r].record = call[r].record
      /\ call'[r].new = call[r].new /\ call'[r].file = call[r].file
  BY <1>1, <1>2, <1>3 DEF Calls, DatabaseTypeOK
<1>5. Kept' /\ Work(r)'
  BY <1>1, <1>3, <1>4 DEF Kept, Work, At, Fresh
<1>6. QED
  BY <1>1, <1>2, <1>3, <1>5, OneWorks

LEMMA Crash_Serial ==
  ASSUME DatabaseInv, SerialInv, DashboardCrash, ~overlapped
  PROVE  SerialInv'
<1>1. Kept /\ Alone /\ DatabaseTypeOK /\ \A r \in Requests : Work(r)
  BY DEF SerialInv, DatabaseInv
<1>2. UNCHANGED <<stored, server, volume, backups, unused, everStored, vouched, overlapped>>
  BY DEF DashboardCrash, histories
<1>3. ASSUME NEW r \in Requests
      PROVE  /\ call'[r] # NoCall => call[r] # NoCall
             /\ Work(r)'
  <2>1. CASE call[r].at \in HandlerSteps
    <3>1. call[r] \in Calls /\ call[r] # NoCall
      BY <1>1, <2>1, CallTyped, NoRecordFacts DEF HandlerSteps, HelperSteps
    <3>2. call'[r] = [call[r] EXCEPT !.open = FALSE]
      BY <2>1 DEF DashboardCrash
    <3>3. /\ call'[r].at = call[r].at
          /\ call'[r].op = call[r].op /\ call'[r].record = call[r].record
          /\ call'[r].new = call[r].new /\ call'[r].file = call[r].file
      BY <3>1, <3>2 DEF Calls
    <3>4. QED
      BY <1>1, <1>2, <3>1, <3>3 DEF Work, At, Fresh
  <2>2. CASE call[r].at \notin HandlerSteps
    <3>1. call'[r] = NoCall
      BY <2>2 DEF DashboardCrash
    <3>2. QED
      BY <3>1, NoRecordFacts DEF Work, At
  <2>3. QED
    BY <2>1, <2>2
<1>4. Kept' /\ Alone'
  BY <1>1, <1>2, <1>3 DEF Kept, Alone
<1>5. QED
  BY <1>3, <1>4 DEF SerialInv

LEMMA DatabaseStep_Serial == DatabaseInv /\ SerialInv /\ [Next]_vars => SerialInv'
<1> SUFFICES ASSUME DatabaseInv, SerialInv, [Next]_vars, ~overlapped'
             PROVE  SerialInv'
  BY DEF SerialInv
<1>1. CASE UNCHANGED vars
  BY <1>1 DEF vars, SerialInv, Kept, Alone, Work, At, Fresh
<1>2. ASSUME NEW r \in Requests, Handler(r) \/ RequestStep(r) \/ GiveUp(r)
      PROVE  UNCHANGED overlapped
  BY <1>2 DEF Handler, HandlerFails, ProvisionRemove, ProvisionCreate, ProvisionStart,
         DeprovisionRemove, DeprovisionVolume, Rotate, DumpOpen, Dump, Restore,
         RequestStep, ProvisionSave, RotateSave, DeprovisionForget, BackupReport,
         RestoreReport, Fail, GiveUp, histories
<1>3. CASE DashboardCrash
  BY <1>3, Crash_Serial DEF DashboardCrash, histories
<1>4. QED
  BY <1>1, <1>2, <1>3, Handler_Serial, Arrival_Serial, RequestStep_Serial, GiveUp_Serial
     DEF Next

-----------------------------------------------------------------------------
(* The invariant of all interleavings: a record about to be written names  *)
(* an account that was made, unless the volume held leftover data.         *)
THEOREM DatabaseAlwaysInv == Spec => []DatabaseInv
  BY DatabaseInit_Inv, DatabaseStep_Inv, PTL DEF Spec

(* Whatever overlaps, crashes, times out or is not saved, the record names *)
(* an account that a database was given, unless its provision found data   *)
(* in the volume.                                                          *)
THEOREM RecordsNameRealAccounts == Spec => []RecordedAccountWasMade
<1>1. DatabaseInv => RecordedAccountWasMade
  BY DEF DatabaseInv
<1>2. QED
  BY <1>1, DatabaseAlwaysInv, PTL

(* Record, containers, volume, backups and calls keep their shape.         *)
THEOREM DatabaseStaysTyped == Spec => []DatabaseTypeOK
<1>1. DatabaseInv => DatabaseTypeOK
  BY DEF DatabaseInv
<1>2. QED
  BY <1>1, DatabaseAlwaysInv, PTL

(* The invariant of operations one at a time: their passwords are new, and *)
(* the record is the one they read.                                        *)
THEOREM SerialAlwaysInv == Spec => []SerialInv
<1>1. DatabaseInv /\ SerialInv /\ [Next]_vars => SerialInv'
  BY DatabaseStep_Serial
<1>2. QED
  BY <1>1, DatabaseInit_Serial, DatabaseAlwaysInv, PTL DEF Spec

(* With operations one at a time, a database whose password the record     *)
(* ever had has the one the record has now: refused, cut off and unsaved   *)
(* rotations included.                                                     *)
THEOREM RecordKeepsPace == Spec => []RecordNotAhead
<1>1. SerialInv => RecordNotAhead
  BY DEF SerialInv, Kept, RecordNotAhead
<1>2. QED
  BY <1>1, SerialAlwaysInv, PTL

(* With operations one at a time, the record of a database goes only after *)
(* the database.                                                           *)
THEOREM DatabasesAreRemembered == Spec => []NoForgottenDatabase
<1>1. SerialInv => NoForgottenDatabase
  BY DEF SerialInv, Kept, NoForgottenDatabase
<1>2. QED
  BY <1>1, SerialAlwaysInv, PTL

(* Under every interleaving, a reported backup whose name no other backup  *)
(* took is complete and stays so.                                          *)
THEOREM BackupsStayComplete == Spec => []ReportedBackupsComplete
<1>1. DatabaseInv /\ BackupInv /\ [Next]_vars => BackupInv'
  BY DatabaseStep_Backup
<1>2. BackupInv => ReportedBackupsComplete
  BY DEF BackupInv
<1>3. QED
  BY <1>1, <1>2, DatabaseInit_Backup, DatabaseAlwaysInv, PTL DEF Spec
=============================================================================
