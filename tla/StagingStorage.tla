---------------------------- MODULE StagingStorage ----------------------------
(***************************************************************************)
(* Uploads into the staging area (dashboard/app/services/storage.py,       *)
(* blueprints/files.py): one directory, in which an upload writes a hidden *)
(* ".<name>.part" file and renames it into place.                          *)
(*                                                                         *)
(* Uploads of the same name share the name of the temporary file but not   *)
(* always the file: each unlinks the name, then creates it.  Where the     *)
(* bytes of an upload go is therefore part of its state.  An upload makes  *)
(* the directory of its path, which then may stand where another upload    *)
(* puts a file.  The category of a path is left out; sizes count chunks of *)
(* 1 MiB.                                                                  *)
(***************************************************************************)
EXTENDS Workers, FiniteSets, FiniteSetsExt, Naturals

CONSTANTS
  Names,       \* paths of files, and of directories
  Folder,      \* the directory of each path, or None at the top
  Quota,       \* APP_STORAGE_LIMIT_GB
  MaxUpload    \* MAX_UPLOAD_MB

ASSUME StorageAssumption ==
  /\ Quota \in Nat /\ MaxUpload \in Nat
  /\ IsFiniteSet(Requests) /\ IsFiniteSet(Names)
  /\ None \notin Names /\ Folder \in [Names -> Names \cup {None}]
  /\ \A n \in Names : Folder[n] # None => Folder[Folder[n]] = None   \* one level

VARIABLES
  files,       \* the file of each name
  parts,       \* the temporary file of each name
  folders,     \* the paths that are directories
  upload,      \* the upload each thread serves
  clash,       \* history: names two uploads were under way for at once
  undeclared,  \* history: an upload came without Content-Length
  cut          \* history: names whose last upload ended without its cleanup

storageVars == <<workerVars, files, parts, folders, upload, clash, undeclared, cut>>

(* ended: its writer came to the end of the stream; mixed: it had another  *)
(* writer before.                                                          *)
NoFile == [size |-> 0, ended |-> FALSE, mixed |-> FALSE, there |-> FALSE]
Contents == [size : 0..MaxUpload, ended : BOOLEAN, mixed : BOOLEAN, there : {TRUE}]
NewFile == [size |-> 0, ended |-> FALSE, mixed |-> FALSE, there |-> TRUE]

(* place: the name its bytes are found under, if any.                      *)
NoUpload == [name |-> None, length |-> 0, declared |-> FALSE, overwrite |-> FALSE,
             written |-> 0, place |-> "nowhere"]
UploadRecords ==
  [name : Names, length : 0..(MaxUpload + 1), declared : BOOLEAN, overwrite : BOOLEAN,
   written : 0..MaxUpload, place : {"nowhere", "part", "file"}]

StoragePcs == {"idle", "unlink", "open", "copy", "recheck", "exists", "rename"}

StorageTypeOK ==
  /\ pc \in [Requests -> StoragePcs]
  /\ overlapped \in BOOLEAN
  /\ files \in [Names -> Contents \cup {NoFile}]
  /\ parts \in [Names -> Contents \cup {NoFile}]
  /\ folders \subseteq Names
  /\ upload \in [Requests -> UploadRecords \cup {NoUpload}]
  /\ clash \subseteq Names
  /\ undeclared \in BOOLEAN
  /\ cut \subseteq Names

StorageInit ==
  /\ WorkersInit
  /\ files = [n \in Names |-> NoFile]
  /\ parts = [n \in Names |-> NoFile]
  /\ upload = [r \in Requests |-> NoUpload]
  /\ folders = {} /\ clash = {} /\ undeclared = FALSE /\ cut = {}

-----------------------------------------------------------------------------
Name(r) == upload[r].name
OnSameName(r) == {q \in Requests \ {r} : Name(q) = Name(r)}

(* usage_bytes(): every file of the area, the temporary ones included.     *)
Usage == MapThenSumSet(LAMBDA n : files[n].size + parts[n].size, Names)

(* Mutant of CheckQuota: what is there already is not counted.             *)
CheckQuotaAlone(additional) == additional <= Quota

CheckQuota(additional) == Usage + additional <= Quota

(* The bytes of those that wrote under one name are found elsewhere now.   *)
Moved(name, from, to) ==
  [q \in Requests |-> IF Name(q) = name /\ upload[q].place = from
                        THEN [upload[q] EXCEPT !.place = to] ELSE upload[q]]

RestUnchanged == UNCHANGED <<folders, clash, undeclared, cut>>

Without(r, uploads) == [uploads EXCEPT ![r] = NoUpload]

(* The directory of the path is made if it is missing; a file of that name *)
(* ends the upload before it has changed anything.                         *)
UploadBegin(r) ==
  /\ Enter(r, "unlink")
  /\ \E n \in Names, length \in 1..(MaxUpload + 1), declared, overwrite \in BOOLEAN :
       /\ declared => length <= MaxUpload /\ CheckQuota(length)
       /\ Folder[n] # None => ~files[Folder[n]].there
       /\ folders' = folders \cup ({Folder[n]} \ {None})
       /\ upload' = [upload EXCEPT ![r] =
            [NoUpload EXCEPT !.name = n, !.length = length,
                             !.declared = declared, !.overwrite = overwrite]]
       /\ clash' = IF \E q \in Requests \ {r} : Name(q) = n THEN clash \cup {n} ELSE clash
       /\ undeclared' = (undeclared \/ ~declared)
  /\ UNCHANGED <<files, parts, cut>>

(* _unlink_if_exists: an upload still writing there goes on writing to a   *)
(* file without a name.                                                    *)
UnlinkPart(r) ==
  /\ Goto(r, "unlink", "open")
  /\ parts' = [parts EXCEPT ![Name(r)] = NoFile]
  /\ upload' = Moved(Name(r), "part", "nowhere")
  /\ cut' = cut \ {Name(r)}
  /\ UNCHANGED <<files, folders, clash, undeclared>>

(* O_CREAT | O_TRUNC: the file of another upload is taken over if one has  *)
(* been created meanwhile.  It fails in a directory that was deleted (one  *)
(* made anew since is not told from the first).                            *)
HasFolder(r) == Folder[Name(r)] # None => Folder[Name(r)] \in folders

OpenPart(r) ==
  /\ Goto(r, "open", "copy")
  /\ HasFolder(r)
  /\ parts' = [parts EXCEPT ![Name(r)] =
                 IF @.there THEN [NewFile EXCEPT !.mixed = TRUE] ELSE NewFile]
  /\ upload' = [upload EXCEPT ![r].place = "part"]
  /\ UNCHANGED files /\ RestUnchanged

OpenFails(r) ==
  /\ Leave(r, "open")
  /\ ~HasFolder(r)
  /\ upload' = Without(r, upload)
  /\ UNCHANGED <<files, parts>> /\ RestUnchanged

(* What upload r adds to the file its bytes go to.                         *)
Grown(content, size) == [content EXCEPT !.size = Max({@, size})]
Written(r, change(_)) ==
  /\ parts' = IF upload[r].place = "part"
                THEN [parts EXCEPT ![Name(r)] = change(@)] ELSE parts
  /\ files' = IF upload[r].place = "file"
                THEN [files EXCEPT ![Name(r)] = change(@)] ELSE files

(* Mutant of CopyChunk: the limit of an upload is forgotten.               *)
CopyChunkUnlimited(r) ==
  /\ pc[r] = "copy"
  /\ upload[r].written < upload[r].length
  /\ Written(r, LAMBDA c : Grown(c, upload[r].written + 1))
  /\ upload' = [upload EXCEPT ![r].written = @ + 1]
  /\ UNCHANGED workerVars /\ RestUnchanged

CopyChunk(r) ==
  /\ pc[r] = "copy"
  /\ upload[r].written < upload[r].length
  /\ upload[r].written < MaxUpload
  /\ Written(r, LAMBDA c : Grown(c, upload[r].written + 1))
  /\ upload' = [upload EXCEPT ![r].written = @ + 1]
  /\ UNCHANGED workerVars /\ RestUnchanged

EndOfStream(r) ==
  /\ Goto(r, "copy", IF upload[r].declared THEN "exists" ELSE "recheck")
  /\ upload[r].written = upload[r].length
  /\ Written(r, LAMBDA c : [c EXCEPT !.ended = TRUE])
  /\ UNCHANGED upload /\ RestUnchanged

(* Mutant of StreamFails: the temporary file is left where it is.          *)
StreamFailsLeaving(r) ==
  /\ Leave(r, "copy")
  /\ upload' = Without(r, upload)
  /\ UNCHANGED <<files, parts>> /\ RestUnchanged

(* Mutant of StreamFails: a broken stream is taken for its end.            *)
StreamFailsUnnoticed(r) ==
  /\ Goto(r, "copy", "exists")
  /\ UNCHANGED <<files, parts, upload>> /\ RestUnchanged

(* More than MaxUpload, or an error: the name of the temporary file is     *)
(* unlinked, whosever it is by now.                                        *)
StreamFails(r) ==
  /\ Leave(r, "copy")
  /\ parts' = [parts EXCEPT ![Name(r)] = NoFile]
  /\ upload' = Without(r, Moved(Name(r), "part", "nowhere"))
  /\ UNCHANGED files /\ RestUnchanged

(* Without a Content-Length the quota is asked for now: the temporary file *)
(* counts twice, and stays if the answer is no.                            *)
Recheck(r) ==
  /\ Goto(r, "recheck", "exists")
  /\ CheckQuota(upload[r].written)
  /\ UNCHANGED <<files, parts, upload>> /\ RestUnchanged

RecheckRefuses(r) ==
  /\ Leave(r, "recheck")
  /\ ~CheckQuota(upload[r].written)
  /\ upload' = Without(r, upload)
  /\ cut' = cut \cup {Name(r)}
  /\ UNCHANGED <<files, parts, folders, clash, undeclared>>

(* Mutant of MayReplace: nothing is asked.                                 *)
MayReplaceAnything(r) == TRUE

(* A directory of that name exists just as a file does.                    *)
MayReplace(r) ==
  files[Name(r)].there \/ Name(r) \in folders => upload[r].overwrite

LookForTarget(r) ==
  /\ Goto(r, "exists", "rename")
  /\ MayReplace(r)
  /\ UNCHANGED <<files, parts, upload>> /\ RestUnchanged

RefuseOverwrite(r) ==
  /\ Leave(r, "exists")
  /\ ~MayReplace(r)
  /\ parts' = [parts EXCEPT ![Name(r)] = NoFile]
  /\ upload' = Without(r, Moved(Name(r), "part", "nowhere"))
  /\ UNCHANGED files /\ RestUnchanged

(* os.rename moves whatever the temporary name stands for, but not over a  *)
(* directory.                                                              *)
RenameUpload(r) ==
  /\ Leave(r, "rename")
  /\ parts[Name(r)].there
  /\ Name(r) \notin folders
  /\ files' = [files EXCEPT ![Name(r)] = parts[Name(r)]]
  /\ parts' = [parts EXCEPT ![Name(r)] = NoFile]
  /\ upload' = [q \in Requests |->
       CASE q = r -> NoUpload
         [] q # r /\ Name(q) = Name(r) /\ upload[q].place = "part" ->
              [upload[q] EXCEPT !.place = "file"]
         [] q # r /\ Name(q) = Name(r) /\ upload[q].place = "file" ->
              [upload[q] EXCEPT !.place = "nowhere"]
         [] OTHER -> upload[q]]
  /\ RestUnchanged

(* It fails if another upload has moved or unlinked the temporary file, or *)
(* onto a directory.  Nothing cleans up then: the file stays.              *)
RenameFails(r) ==
  /\ Leave(r, "rename")
  /\ ~parts[Name(r)].there \/ Name(r) \in folders
  /\ upload' = Without(r, upload)
  /\ cut' = IF parts[Name(r)].there THEN cut \cup {Name(r)} ELSE cut
  /\ UNCHANGED <<files, parts, folders, clash, undeclared>>

(* POST delete, of a file or of a temporary file, which is listed too.     *)
DeleteFile(n) ==
  /\ files[n].there
  /\ files' = [files EXCEPT ![n] = NoFile]
  /\ upload' = Moved(n, "file", "nowhere")
  /\ UNCHANGED <<workerVars, parts>> /\ RestUnchanged

DeletePart(n) ==
  /\ parts[n].there
  /\ parts' = [parts EXCEPT ![n] = NoFile]
  /\ upload' = Moved(n, "part", "nowhere")
  /\ cut' = cut \ {n}
  /\ UNCHANGED <<workerVars, files, folders, clash, undeclared>>

(* A directory is deleted one entry after the other, and then itself.      *)
DeleteFolder(n) ==
  /\ n \in folders
  /\ \A m \in Names : Folder[m] = n => ~files[m].there /\ ~parts[m].there
  /\ folders' = folders \ {n}
  /\ UNCHANGED <<workerVars, files, parts, upload, clash, undeclared, cut>>

StorageCrash ==
  /\ AllStop
  /\ upload' = [r \in Requests |-> NoUpload]
  /\ cut' = cut \cup {n \in Names : \E r \in Requests : Name(r) = n}
  /\ UNCHANGED <<files, parts, folders, clash, undeclared>>

StorageNext ==
  \/ \E r \in Requests :
       \/ UploadBegin(r) \/ UnlinkPart(r) \/ OpenPart(r) \/ OpenFails(r)
       \/ CopyChunk(r) \/ EndOfStream(r) \/ StreamFails(r)
       \/ Recheck(r) \/ RecheckRefuses(r)
       \/ LookForTarget(r) \/ RefuseOverwrite(r) \/ RenameUpload(r) \/ RenameFails(r)
  \/ \E n \in Names : DeleteFile(n) \/ DeletePart(n) \/ DeleteFolder(n)
  \/ StorageCrash

StorageSpec == StorageInit /\ [][StorageNext]_storageVars

-----------------------------------------------------------------------------
(* Properties.                                                             *)

(* A file under its name is complete and the work of one upload, crashes   *)
(* and broken streams included, unless two uploads of that name overlapped.*)
FilesAreWhole ==
  \A n \in Names \ clash : files[n].there => files[n].ended /\ ~files[n].mixed

(* A file is replaced only by an upload that was told to, unless two       *)
(* uploads of that name overlapped.                                        *)
ReplacedOnPurpose ==
  [][\A r \in Requests :
       RenameUpload(r) /\ files[Name(r)].there =>
         upload[r].overwrite \/ Name(r) \in clash]_storageVars

(* Each upload is admitted against the usage at that time: with lengths    *)
(* declared, the area exceeds its quota by at most what the other threads  *)
(* had been admitted with, and not at all by uploads one at a time.        *)
QuotaBounded ==
  ~undeclared =>
    Usage <= IF overlapped THEN Quota + (Cardinality(Requests) - 1) * MaxUpload ELSE Quota

(* A temporary file belongs to an upload under way, unless two uploads of  *)
(* that name overlapped, or the last one ended at a place that cleans      *)
(* nothing up: a crash, the late quota check, or a rename that failed.     *)
(* The next upload of the name removes what such an end left.              *)
NoTemporaryLeft ==
  \A n \in Names \ (clash \cup cut) :
    parts[n].there => \E r \in Requests : Name(r) = n
=============================================================================
