---------------------------- MODULE ManagedDatabase ----------------------------
(***************************************************************************)
(* The managed database: the service and endpoints of the dashboard        *)
(* (dashboard/app/services/database.py, blueprints/database.py) and the    *)
(* /db handlers of the orchestrator (orchestrator/app.py).                 *)
(*                                                                         *)
(* Three things hold the credentials: the dashboard's encrypted record,    *)
(* the container's environment, and the accounts inside the volume.  An    *)
(* operation reads the record, has the orchestrator act, and writes the    *)
(* record when the answer arrived.  Nothing locks the record meanwhile,    *)
(* and an answer can be lost (timeout, crash) after the database changed.  *)
(*                                                                         *)
(* A secret stands for what one call of _random_token returns; the user    *)
(* goes by the first password it was created with.                         *)
(***************************************************************************)
CONSTANTS
  Requests,   \* dashboard threads, each with at most one operation
  Engines,    \* the allowed engines, among "mysql" and "postgres"
  Secrets,    \* random tokens, each generated once (bounds the operations)
  Files,      \* names of backup files, each that of a second
  None

ASSUME DatabaseAssumption ==
  /\ Engines \subseteq {"mysql", "postgres"}
  /\ None \notin Requests \cup Secrets \cup Files \cup Engines

VARIABLES
  stored,      \* the record in the state file
  server,      \* the database container
  volume,      \* what the data volume holds, shared by both engines
  backups,     \* content of each backup file
  call,        \* the operation of each request
  unused,      \* secrets not generated yet
  everStored,  \* history: passwords the record ever had
  made,        \* history: accounts <<user, password>> a database was given
  leftover,    \* history: users of a provision that found data in the volume
  vouched,     \* history: backups reported as done
  retaken,     \* history: names a backup took while another had them
  overlapped   \* history: an operation began while another was under way

vars == <<stored, server, volume, backups, call, unused,
          everStored, made, leftover, vouched, retaken, overlapped>>
histories == <<everStored, made, leftover, vouched, retaken, overlapped>>

NoRecord == [engine |-> None, user |-> None, password |-> None]
Records == [engine : Engines, user : Secrets, password : Secrets]
NoServer == [by |-> None, engine |-> None, user |-> None, password |-> None, running |-> FALSE]
Servers == [by : Requests, engine : Engines, user : Secrets, password : Secrets, running : BOOLEAN]

HelperSteps == {"rotate", "dump_open", "dump", "restore"}
HandlerSteps ==
  HelperSteps \cup {"prov_remove", "prov_create", "prov_start", "dep_remove", "dep_volume"}

NoCall == [op |-> "none", at |-> "none", open |-> FALSE, record |-> NoRecord, new |-> None, file |-> None]
Calls == [op : {"provision", "deprovision", "rotate", "backup", "restore"},
          at : HandlerSteps \cup {"ok", "error"}, open : BOOLEAN,
          record : Records, new : Secrets \cup {None}, file : Files \cup {None}]

DatabaseTypeOK ==
  /\ stored \in Records \cup {NoRecord}
  /\ server \in Servers \cup {NoServer}
  /\ volume \in Records \cup {NoRecord}
  /\ backups \in [Files -> {"none", "torn", "mixed", "complete"}]
  /\ call \in [Requests -> Calls \cup {NoCall}]
  /\ unused \subseteq Secrets
  /\ everStored \subseteq Secrets
  /\ made \subseteq Secrets \X Secrets
  /\ leftover \subseteq Secrets
  /\ vouched \subseteq Files
  /\ retaken \subseteq Files
  /\ overlapped \in BOOLEAN

Init ==
  /\ stored = NoRecord
  /\ server = NoServer
  /\ volume = NoRecord
  /\ backups = [f \in Files |-> "none"]
  /\ call = [r \in Requests |-> NoCall]
  /\ unused = Secrets
  /\ everStored = {} /\ made = {} /\ leftover = {}
  /\ vouched = {} /\ retaken = {} /\ overlapped = FALSE

-----------------------------------------------------------------------------
(* A request comes in: the record is read and the orchestrator asked.      *)

Begin(r, op, step, record, new, file) ==
  /\ call[r] = NoCall
  /\ call' = [call EXCEPT ![r] =
       [op |-> op, at |-> step, open |-> TRUE, record |-> record, new |-> new, file |-> file]]
  /\ overlapped' = (overlapped \/ \E q \in Requests \ {r} : call[q] # NoCall)
  /\ UNCHANGED <<stored, server, volume, backups, everStored, made, leftover, vouched>>

ProvisionBegin(r) ==
  /\ stored = NoRecord
  /\ \E engine \in Engines, s \in unused :
       /\ Begin(r, "provision", "prov_remove",
                [engine |-> engine, user |-> s, password |-> s], None, None)
       /\ unused' = unused \ {s}
  /\ UNCHANGED retaken

DeprovisionBegin(r) ==
  /\ stored # NoRecord
  /\ Begin(r, "deprovision", "dep_remove", stored, None, None)
  /\ UNCHANGED <<unused, retaken>>

RotateBegin(r) ==
  /\ stored # NoRecord
  /\ \E s \in unused :
       Begin(r, "rotate", "rotate", stored, s, None) /\ unused' = unused \ {s}
  /\ UNCHANGED retaken

(* The file is named after the second and the engine: the name of an       *)
(* earlier backup comes again when that one was within the same second, or *)
(* when the clock was set back.  Nothing looks whether the file exists.    *)
Taken(f) == f \in vouched \/ \E q \in Requests : call[q].op = "backup" /\ call[q].file = f

BackupBegin(r) ==
  /\ stored # NoRecord
  /\ \E f \in Files :
       /\ Begin(r, "backup", "dump_open", stored, None, f)
       /\ retaken' = IF Taken(f) THEN retaken \cup {f} ELSE retaken
  /\ UNCHANGED unused

(* Any file of the list can be named, whatever a dump left in it.          *)
RestoreBegin(r) ==
  /\ stored # NoRecord
  /\ \E f \in Files : backups[f] # "none" /\ Begin(r, "restore", "restore", stored, None, f)
  /\ UNCHANGED <<unused, retaken>>

-----------------------------------------------------------------------------
(* The handlers of the orchestrator.                                       *)

At(r, step) == call[r].at = step
Advance(r, step) == call' = [call EXCEPT ![r].at = step]
Respond(r, answer) ==
  call' = IF call[r].open THEN [call EXCEPT ![r].at = answer]
                          ELSE [call EXCEPT ![r] = NoCall]
(* The effect took place; the answer may be an error all the same.         *)
Finish(r) == \E answer \in {"ok", "error"} : Respond(r, answer)

(* A Docker call fails, or the database refuses the helper.                *)
HandlerFails(r) ==
  /\ call[r].at \in HandlerSteps
  /\ Respond(r, "error")
  /\ UNCHANGED <<stored, server, volume, backups, unused, histories>>

ProvisionRemove(r) ==
  /\ At(r, "prov_remove")
  /\ server' = NoServer
  /\ Advance(r, "prov_create")
  /\ UNCHANGED <<stored, volume, backups, unused, histories>>

ProvisionCreate(r) ==
  /\ At(r, "prov_create")
  /\ server = NoServer
  /\ server' = [by |-> r, engine |-> call[r].record.engine, user |-> call[r].record.user,
                password |-> call[r].record.password, running |-> FALSE]
  /\ Advance(r, "prov_start")
  /\ UNCHANGED <<stored, volume, backups, unused, histories>>

(* container.start() goes by id.  The image sets up the account of its     *)
(* environment on an empty volume only; a volume with data keeps its own,  *)
(* and the answer is "ok" all the same.                                    *)
ProvisionStart(r) ==
  /\ At(r, "prov_start")
  /\ server.by = r
  /\ server' = [server EXCEPT !.running = TRUE]
  /\ LET record == call[r].record
     IN IF volume = NoRecord
          THEN /\ volume' = record
               /\ made' = made \cup {<<record.user, record.password>>}
               /\ UNCHANGED leftover
          ELSE /\ leftover' = leftover \cup {record.user}
               /\ UNCHANGED <<volume, made>>
  /\ Finish(r)
  /\ UNCHANGED <<stored, backups, unused, everStored, vouched, retaken, overlapped>>

DeprovisionRemove(r) ==
  /\ At(r, "dep_remove")
  /\ server' = NoServer
  /\ Advance(r, "dep_volume")
  /\ UNCHANGED <<stored, volume, backups, unused, histories>>

(* A volume some container uses cannot be removed.                         *)
DeprovisionVolume(r) ==
  /\ At(r, "dep_volume")
  /\ server = NoServer
  /\ volume' = NoRecord
  /\ Finish(r)
  /\ UNCHANGED <<stored, server, backups, unused, histories>>

(* A helper container logs in to the server by name.  Only the database    *)
(* "app" was created (the name depends on the instance alone); mysql -e    *)
(* selects none, psql without an argument selects the one named after the  *)
(* user, so that a rotation of postgres is always refused.                 *)
LogsIn(r) ==
  /\ server.running
  /\ server.engine = volume.engine
  /\ call[r].record = volume
DatabaseOfRotation(record) == IF record.engine = "mysql" THEN None ELSE record.user
Exists(database) == database \in {None, "app"}

Rotate(r) ==
  /\ At(r, "rotate")
  /\ LogsIn(r)
  /\ Exists(DatabaseOfRotation(call[r].record))
  /\ volume' = [volume EXCEPT !.password = call[r].new]
  /\ made' = made \cup {<<volume.user, call[r].new>>}
  /\ Finish(r)
  /\ UNCHANGED <<stored, server, backups, unused, everStored, leftover, vouched, retaken,
                 overlapped>>

(* The shell of the helper opens, and so empties, the file first.  Two     *)
(* dumps that have one file open overwrite each other's bytes: what is in  *)
(* it then nobody can tell.                                                *)
DumpOpen(r) ==
  /\ At(r, "dump_open")
  /\ LET alone == \A q \in Requests : At(q, "dump") => call[q].file # call[r].file
     IN backups' = [backups EXCEPT ![call[r].file] = IF alone THEN "torn" ELSE "mixed"]
  /\ Advance(r, "dump")
  /\ UNCHANGED <<stored, server, volume, unused, histories>>

(* Mutant of Dump: the status of the helper is not looked at.              *)
DumpUnchecked(r) ==
  /\ At(r, "dump")
  /\ backups' = IF LogsIn(r) THEN [backups EXCEPT ![call[r].file] = "complete"] ELSE backups
  /\ Finish(r)
  /\ UNCHANGED <<stored, server, volume, unused, histories>>

Dump(r) ==
  /\ At(r, "dump")
  /\ LogsIn(r)
  /\ backups' = [backups EXCEPT ![call[r].file] = IF @ = "mixed" THEN @ ELSE "complete"]
  /\ Finish(r)
  /\ UNCHANGED <<stored, server, volume, unused, histories>>

(* What is restored is data, not accounts.                                 *)
Restore(r) ==
  /\ At(r, "restore")
  /\ LogsIn(r)
  /\ Finish(r)
  /\ UNCHANGED <<stored, server, volume, backups, unused, histories>>

Handler(r) ==
  \/ HandlerFails(r)
  \/ ProvisionRemove(r) \/ ProvisionCreate(r) \/ ProvisionStart(r)
  \/ DeprovisionRemove(r) \/ DeprovisionVolume(r)
  \/ Rotate(r) \/ DumpOpen(r) \/ Dump(r) \/ Restore(r)

-----------------------------------------------------------------------------
(* The request goes on with its answer.                                    *)

Answered(r, op, answers) == call[r].open /\ call[r].op = op /\ call[r].at \in answers
Return(r) == call' = [call EXCEPT ![r] = NoCall]

(* Mutant of Save: the user is not written along.                          *)
SaveWithoutUser(record) ==
  stored' = [record EXCEPT !.user = None] /\ everStored' = everStored \cup {record.password}

Save(record) == stored' = record /\ everStored' = everStored \cup {record.password}

(* The file is replaced as a whole, or the error leaves it as it was.      *)
ProvisionSave(r) ==
  /\ Answered(r, "provision", {"ok"})
  /\ Save(call[r].record) \/ UNCHANGED <<stored, everStored>>
  /\ Return(r)
  /\ UNCHANGED <<server, volume, backups, unused, made, leftover, vouched, retaken, overlapped>>

(* Mutant of RotateSave: the answer is not looked at.                      *)
RotateSaveAnyhow(r) ==
  /\ Answered(r, "rotate", {"ok", "error"})
  /\ Save([call[r].record EXCEPT !.password = call[r].new])
  /\ Return(r)
  /\ UNCHANGED <<server, volume, backups, unused, made, leftover, vouched, retaken, overlapped>>

(* Mutant of RotateSave: the record is read again before it is written.    *)
RotateSaveReloaded(r) ==
  /\ Answered(r, "rotate", {"ok"})
  /\ stored # NoRecord
  /\ Save([stored EXCEPT !.password = call[r].new])
  /\ Return(r)
  /\ UNCHANGED <<server, volume, backups, unused, made, leftover, vouched, retaken, overlapped>>

(* The record written is the one read at the start, whatever the file      *)
(* holds by now, or whether it still exists.                               *)
RotateSave(r) ==
  /\ Answered(r, "rotate", {"ok"})
  /\ \/ Save([call[r].record EXCEPT !.password = call[r].new])
     \/ UNCHANGED <<stored, everStored>>
  /\ Return(r)
  /\ UNCHANGED <<server, volume, backups, unused, made, leftover, vouched, retaken, overlapped>>

(* Mutant of DeprovisionForget: an error of the orchestrator is ignored.   *)
DeprovisionForgetAnyhow(r) ==
  /\ Answered(r, "deprovision", {"ok", "error"})
  /\ stored' = NoRecord
  /\ Return(r)
  /\ UNCHANGED <<server, volume, backups, unused, histories>>

DeprovisionForget(r) ==
  /\ Answered(r, "deprovision", {"ok"})
  /\ stored' \in {stored, NoRecord}
  /\ Return(r)
  /\ UNCHANGED <<server, volume, backups, unused, histories>>

BackupReport(r) ==
  /\ Answered(r, "backup", {"ok"})
  /\ vouched' = vouched \cup {call[r].file}
  /\ Return(r)
  /\ UNCHANGED <<stored, server, volume, backups, unused, everStored, made, leftover, retaken,
                 overlapped>>

RestoreReport(r) ==
  /\ Answered(r, "restore", {"ok"})
  /\ Return(r)
  /\ UNCHANGED <<stored, server, volume, backups, unused, histories>>

(* DatabaseError: the operation ends where it is, the record untouched.    *)
Fail(r) ==
  /\ call[r].open /\ At(r, "error")
  /\ Return(r)
  /\ UNCHANGED <<stored, server, volume, backups, unused, histories>>

(* The client's timeout, or docker-py's 180 s over a helper that still     *)
(* runs: an error for the request, while the work goes on.                 *)
GiveUp(r) ==
  /\ call[r].open /\ call[r].at \in HandlerSteps
  /\ call' = [call EXCEPT ![r].open = FALSE]
  /\ UNCHANGED <<stored, server, volume, backups, unused, histories>>

DashboardCrash ==
  /\ call' = [r \in Requests |->
                IF call[r].at \in HandlerSteps THEN [call[r] EXCEPT !.open = FALSE] ELSE NoCall]
  /\ UNCHANGED <<stored, server, volume, backups, unused, histories>>

-----------------------------------------------------------------------------
Arrival(r) ==
  \/ ProvisionBegin(r) \/ DeprovisionBegin(r) \/ RotateBegin(r)
  \/ BackupBegin(r) \/ RestoreBegin(r)

RequestStep(r) ==
  \/ ProvisionSave(r) \/ RotateSave(r) \/ DeprovisionForget(r)
  \/ BackupReport(r) \/ RestoreReport(r) \/ Fail(r)

Next ==
  \/ \E r \in Requests : Arrival(r) \/ Handler(r) \/ RequestStep(r) \/ GiveUp(r)
  \/ DashboardCrash

Spec == Init /\ [][Next]_vars

-----------------------------------------------------------------------------
(* Properties.                                                             *)

AtRest == \A r \in Requests : call[r] = NoCall

(* A refused rotation never reaches the record: while operations did not   *)
(* overlap, a database that still has a password the record once had, has  *)
(* the one the record has now.  Crashes, lost answers and failed saves     *)
(* included.                                                               *)
RecordNotAhead ==
  ~overlapped /\ stored # NoRecord /\ volume.password \in everStored
    => volume = stored

(* A database that was recorded is not left without its record: if the     *)
(* record is gone, so is the data, unless it belongs to a provision that   *)
(* was never recorded.                                                     *)
NoForgottenDatabase ==
  ~overlapped /\ stored = NoRecord => volume.password \notin everStored

(* A backup that was reported as done is complete and stays so, whatever   *)
(* overlaps, crashes, times out or fails afterwards, unless another backup *)
(* took its name.                                                          *)
ReportedBackupsComplete ==
  \A f \in vouched \ retaken : backups[f] = "complete"

(* Whatever overlaps, crashes or is lost, the record names an account that *)
(* a database was really given, never a user of one with the password of   *)
(* another, or a password that was refused.  Only a provision that found   *)
(* data in the volume records an account nobody was given.                 *)
RecordedAccountWasMade ==
  stored # NoRecord =>
    <<stored.user, stored.password>> \in made \/ stored.user \in leftover

(* What services/database.py promises: the record is that of the current   *)
(* account.  (Violated: the password changes before it is recorded.)       *)
StoredPasswordOpens ==
  ~overlapped /\ AtRest /\ stored # NoRecord /\ volume # NoRecord => volume = stored
=============================================================================
