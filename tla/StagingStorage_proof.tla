------------------------- MODULE StagingStorage_proof -------------------------
(***************************************************************************)
(* Proofs about the staging area, for any number of threads and names, any *)
(* quota and any upload limit.                                             *)
(*                                                                         *)
(* An upload holds on to its temporary file while others unlink, take over *)
(* and rename what they find under the same name.  For every upload it is  *)
(* settled where its bytes go (Sound); and as long as no two uploads of a  *)
(* name were under way at once, that is a file of its own, or none, which  *)
(* is complete before it gets its name (Whole).                            *)
(*                                                                         *)
(* The quota is argued with what the files may yet become (QuotaInv): an   *)
(* upload checks it once, before its bytes are there, and one that is cut  *)
(* off by another upload of the same name makes the size of a file jump    *)
(* when it writes its next chunk.  So every upload stands for its whole    *)
(* length, with the file it writes or on its own before there is one.      *)
(***************************************************************************)
EXTENDS StagingStorage, Folds, FiniteSetTheorems, WellFoundedInduction, TLAPS

Busy(r) == pc[r] # "idle"

UploadsTyped ==
  \A r \in Requests :
    /\ ~Busy(r) => upload[r] = NoUpload
    /\ Busy(r) => upload[r] \in UploadRecords /\ upload[r].written <= upload[r].length

(* The bytes of an upload go to a file that is there.                      *)
PlacesAreThere ==
  \A r \in Requests :
    /\ upload[r].place = "part" => parts[Name(r)].there
    /\ upload[r].place = "file" => files[Name(r)].there

(* Before its temporary file is there an upload has no place.              *)
Unplaced ==
  \A r \in Requests : pc[r] \in {"unlink", "open"} => upload[r].place = "nowhere"

Ended == {"recheck", "exists", "rename"}

(* What the upload of a name nobody clashed over finds there: a temporary  *)
(* file of its own, or none.                                               *)
OwnBytes(r) ==
  /\ upload[r].place # "file"
  /\ pc[r] = "open" => ~parts[Name(r)].there
  /\ pc[r] \in {"copy"} \cup Ended /\ parts[Name(r)].there =>
       upload[r].place = "part" /\ ~parts[Name(r)].mixed
  /\ pc[r] \in Ended /\ parts[Name(r)].there => parts[Name(r)].ended
  /\ pc[r] = "rename" /\ files[Name(r)].there => upload[r].overwrite

OwnPart ==
  \A r \in Requests : Busy(r) /\ Name(r) \notin clash =>
    /\ \A q \in Requests : Busy(q) /\ Name(q) = Name(r) => q = r
    /\ OwnBytes(r)

(* A temporary file has an upload that is under way, or is what one that   *)
(* ended without cleaning up has left.                                     *)
PartsAreNeeded ==
  \A n \in Names \ (clash \cup cut) :
    parts[n].there => \E r \in Requests : Busy(r) /\ Name(r) = n

(* The part of the invariant that holds of any uploads, clashing or not.   *)
Sound == StorageTypeOK /\ UploadsTyped /\ PlacesAreThere /\ Unplaced

(* The part that holds of names nobody clashed over.                       *)
Whole == OwnPart /\ PartsAreNeeded /\ FilesAreWhole

-----------------------------------------------------------------------------
(* The operators of the model.                                             *)
LEMMA MaxOfTwo ==
  ASSUME NEW a \in Nat, NEW b \in Nat
  PROVE  Max({a, b}) = IF a >= b THEN a ELSE b
<1>1. \E x \in {a, b} : \A y \in {a, b} : x >= y
  <2>1. CASE a >= b
    BY <2>1
  <2>2. CASE b >= a
    BY <2>2
  <2>3. QED
    BY <2>1, <2>2
<1>2. Max({a, b}) \in {a, b} /\ \A y \in {a, b} : Max({a, b}) >= y
  BY <1>1 DEF Max
<1>3. QED
  BY <1>2

LEMMA ContentFacts ==
  /\ NewFile \in Contents /\ [NewFile EXCEPT !.mixed = TRUE] \in Contents
  /\ ~NoFile.there /\ NewFile.there /\ ~NewFile.mixed
  /\ \A c \in Contents : c.there
<1>1. 0 \in 0..MaxUpload
  BY StorageAssumption
<1>2. QED
  BY <1>1 DEF NewFile, NoFile, Contents

LEMMA GrownContent ==
  ASSUME NEW c \in Contents, NEW size \in 0..MaxUpload
  PROVE  /\ Grown(c, size) \in Contents
         /\ Grown(c, size).ended = c.ended
         /\ Grown(c, size).mixed = c.mixed
         /\ Grown(c, size).there
<1>1. c.size \in Nat /\ size \in Nat /\ c.size <= MaxUpload /\ size <= MaxUpload
  BY StorageAssumption DEF Contents
<1>2. Max({c.size, size}) \in 0..MaxUpload
  BY <1>1, MaxOfTwo, StorageAssumption
<1>3. QED
  BY <1>2 DEF Grown, Contents

LEMMA EndedContent ==
  ASSUME NEW c \in Contents
  PROVE  /\ [c EXCEPT !.ended = TRUE] \in Contents
         /\ [c EXCEPT !.ended = TRUE].ended
         /\ [c EXCEPT !.ended = TRUE].mixed = c.mixed
         /\ [c EXCEPT !.ended = TRUE].there
         /\ [c EXCEPT !.ended = TRUE].size = c.size
  BY DEF Contents

(* An upload that loses its place keeps everything else.                   *)
Relocated(q, to) == [upload[q] EXCEPT !.place = to]

LEMMA RelocatedTyped ==
  ASSUME NEW u \in UploadRecords, NEW to \in {"nowhere", "part", "file"}
  PROVE  /\ [u EXCEPT !.place = to] \in UploadRecords
         /\ [u EXCEPT !.place = to].place = to
         /\ [u EXCEPT !.place = to].name = u.name
         /\ [u EXCEPT !.place = to].written = u.written
         /\ [u EXCEPT !.place = to].length = u.length
         /\ [u EXCEPT !.place = to].overwrite = u.overwrite
         /\ [u EXCEPT !.place = to].declared = u.declared
  BY DEF UploadRecords

LEMMA NoUploadFacts == NoUpload.place = "nowhere" /\ NoUpload.name = None
  BY DEF NoUpload

LEMMA PlacedIsBusy ==
  ASSUME Sound, NEW q \in Requests, upload[q].place # "nowhere"
  PROVE  Busy(q) /\ upload[q] \in UploadRecords
  BY NoUploadFacts DEF Sound, UploadsTyped

LEMMA MovedUploads ==
  ASSUME Sound, NEW n, NEW from \in {"part", "file"}, NEW q \in Requests
  PROVE  LET m == Moved(n, from, "nowhere")[q]
         IN  /\ Busy(q) => m \in UploadRecords
             /\ ~Busy(q) => m = NoUpload
             /\ m.name = Name(q) /\ m.written = upload[q].written
             /\ m.length = upload[q].length /\ m.overwrite = upload[q].overwrite
             /\ m.place = IF Name(q) = n /\ upload[q].place = from
                            THEN "nowhere" ELSE upload[q].place
<1>1. CASE Name(q) = n /\ upload[q].place = from
  <2>1. Moved(n, from, "nowhere")[q] = [upload[q] EXCEPT !.place = "nowhere"]
    BY <1>1 DEF Moved
  <2>2. Busy(q) /\ upload[q] \in UploadRecords
    BY <1>1, PlacedIsBusy
  <2> DEFINE m == [upload[q] EXCEPT !.place = "nowhere"]
  <2>3. /\ m \in UploadRecords /\ m.place = "nowhere" /\ m.name = upload[q].name
        /\ m.written = upload[q].written /\ m.length = upload[q].length
        /\ m.overwrite = upload[q].overwrite
    BY <2>2, RelocatedTyped
  <2> HIDE DEF m
  <2>4. Moved(n, from, "nowhere")[q] = m
    BY <2>1 DEF m
  <2>5. QED
    BY <1>1, <2>2, <2>3, <2>4 DEF Name
<1>2. CASE ~(Name(q) = n /\ upload[q].place = from)
  BY <1>2 DEF Moved, Sound, UploadsTyped, Name
<1>3. QED
  BY <1>1, <1>2

-----------------------------------------------------------------------------
(* Types and places.                                                       *)
LEMMA StorageInit_Sound == StorageInit => Sound
  BY NoUploadFacts, ContentFacts
     DEF StorageInit, WorkersInit, Sound, StorageTypeOK, StoragePcs, UploadsTyped,
         PlacesAreThere, Unplaced, Busy

LEMMA UploadBegin_Sound ==
  ASSUME Sound, NEW r \in Requests, UploadBegin(r)
  PROVE  Sound'
<1>1. PICK n \in Names, length \in 1..(MaxUpload + 1), declared \in BOOLEAN,
           overwrite \in BOOLEAN :
        /\ upload' = [upload EXCEPT ![r] =
             [NoUpload EXCEPT !.name = n, !.length = length,
                              !.declared = declared, !.overwrite = overwrite]]
        /\ clash' = IF \E q \in Requests \ {r} : Name(q) = n THEN clash \cup {n} ELSE clash
        /\ undeclared' = (undeclared \/ ~declared)
        /\ folders' = folders \cup ({Folder[n]} \ {None})
  BY Zenon DEF UploadBegin
<1> USE DEF Sound, StorageTypeOK, StoragePcs, UploadsTyped, PlacesAreThere, Unplaced, Busy, Name
<1>2. /\ upload'[r] \in UploadRecords
      /\ upload'[r].written <= upload'[r].length
      /\ upload'[r].place = "nowhere"
  <2>1. upload'[r] = [name |-> n, length |-> length, declared |-> declared,
                      overwrite |-> overwrite, written |-> 0, place |-> "nowhere"]
    BY <1>1 DEF NoUpload
  <2>2. 0 \in 0..MaxUpload /\ length \in 0..(MaxUpload + 1) /\ 0 <= length
    BY StorageAssumption
  <2>3. QED
    BY <2>1, <2>2 DEF UploadRecords
<1>3. /\ pc[r] = "idle" /\ pc' = [pc EXCEPT ![r] = "unlink"] /\ overlapped' \in BOOLEAN
      /\ UNCHANGED <<files, parts, cut>>
  BY DEF UploadBegin, Enter
<1>4. /\ upload' \in [Requests -> UploadRecords \cup {NoUpload}]
      /\ \A q \in Requests : q # r => upload'[q] = upload[q] /\ pc'[q] = pc[q]
  BY <1>1, <1>2, <1>3
<1>5. folders' \subseteq Names /\ clash' \subseteq Names
  BY <1>1, StorageAssumption
<1>6. QED
  BY <1>1, <1>2, <1>3, <1>4, <1>5

(* A temporary file is removed, by a request that goes on or ends or by    *)
(* one that deletes files.                                                 *)
Removed(n) ==
  /\ parts' = [parts EXCEPT ![n] = NoFile]
  /\ UNCHANGED <<files, folders, clash, undeclared, overlapped>>
  /\ cut' \in {cut, cut \ {n}}
  /\ pc' \in [Requests -> StoragePcs]
  /\ upload' = [q \in Requests |-> upload'[q]]
  /\ \A q \in Requests :
       \/ pc'[q] = "idle" /\ upload'[q] = NoUpload
       \/ /\ upload'[q] = Moved(n, "part", "nowhere")[q]
          /\ Busy(q)' <=> Busy(q)
          /\ pc'[q] \in {"unlink", "open"} => pc[q] \in {"unlink", "open"}

LEMMA Removed_Sound ==
  ASSUME Sound, NEW n, Removed(n)
  PROVE  Sound'
<1> USE DEF Removed
<1>1. \A q \in Requests :
        /\ Busy(q)' => upload'[q] \in UploadRecords /\ upload'[q].written <= upload'[q].length
        /\ ~Busy(q)' => upload'[q] = NoUpload
  BY MovedUploads DEF Busy, Sound, UploadsTyped
<1>2. \A q \in Requests :
        \/ upload'[q].place = "nowhere"
        \/ /\ upload'[q].place = upload[q].place /\ upload'[q].name = Name(q)
           /\ ~(Name(q) = n /\ upload[q].place = "part")
           /\ Busy(q)' /\ Busy(q)
  <2> SUFFICES ASSUME NEW q \in Requests, upload'[q].place # "nowhere"
               PROVE  /\ upload'[q].place = upload[q].place /\ upload'[q].name = Name(q)
                      /\ ~(Name(q) = n /\ upload[q].place = "part")
                      /\ Busy(q)' /\ Busy(q)
    OBVIOUS
  <2>1. /\ upload'[q] = Moved(n, "part", "nowhere")[q]
        /\ Busy(q)' <=> Busy(q)
    BY NoUploadFacts
  <2>2. /\ upload'[q].place = upload[q].place /\ upload'[q].name = Name(q)
        /\ ~(Name(q) = n /\ upload[q].place = "part")
    BY <2>1, MovedUploads
  <2>3. QED
    BY <2>1, <2>2, PlacedIsBusy
<1>3. parts' \in [Names -> Contents \cup {NoFile}]
  BY DEF Sound, StorageTypeOK
<1>4. StorageTypeOK'
  <2>1. \A q \in Requests : upload'[q] \in UploadRecords \cup {NoUpload}
    BY <1>1
  <2>2. upload' = [q \in Requests |-> upload'[q]]
    OBVIOUS
  <2>4. /\ UNCHANGED <<files, folders, clash, undeclared, overlapped>>
        /\ cut' \in {cut, cut \ {n}}
        /\ pc' \in [Requests -> StoragePcs]
    OBVIOUS
  <2> HIDE DEF Removed
  <2>3. upload' \in [Requests -> UploadRecords \cup {NoUpload}]
    BY <2>1, <2>2
  <2>5. overlapped' \in BOOLEAN /\ undeclared' \in BOOLEAN
    BY <2>4, Zenon DEF Sound, StorageTypeOK
  <2>6. /\ files' \in [Names -> Contents \cup {NoFile}]
        /\ folders' \subseteq Names /\ clash' \subseteq Names /\ cut' \subseteq Names
    BY <2>4 DEF Sound, StorageTypeOK
  <2>7. QED
    BY <1>3, <2>3, <2>4, <2>5, <2>6, Zenon DEF StorageTypeOK
<1>5. UploadsTyped'
  BY <1>1 DEF UploadsTyped
<1>6. PlacesAreThere'
  <2> SUFFICES ASSUME NEW q \in Requests, upload'[q].place # "nowhere"
               PROVE  /\ upload'[q].place = "part" => parts'[upload'[q].name].there
                      /\ upload'[q].place = "file" => files'[upload'[q].name].there
    BY DEF PlacesAreThere, Name
  <2>1. upload[q] \in UploadRecords /\ upload[q].name \in Names
    BY <1>2, PlacedIsBusy DEF UploadRecords
  <2>2. QED
    BY <1>2, <2>1 DEF Sound, PlacesAreThere, Name, StorageTypeOK
<1>7. Unplaced'
  <2> SUFFICES ASSUME NEW q \in Requests, pc'[q] \in {"unlink", "open"},
                      upload'[q].place # "nowhere"
               PROVE  FALSE
    BY DEF Unplaced
  <2>1. pc[q] \in {"unlink", "open"}
    BY NoUploadFacts
  <2>2. QED
    BY <1>2, <2>1 DEF Sound, Unplaced
<1>8. QED
  BY <1>4, <1>5, <1>6, <1>7 DEF Sound

LEMMA MovedFunction ==
  ASSUME NEW n, NEW from, NEW to, NEW r \in Requests
  PROVE  /\ Moved(n, from, to) = [q \in Requests |-> Moved(n, from, to)[q]]
         /\ Without(r, Moved(n, from, to)) =
              [q \in Requests |-> IF q = r THEN NoUpload ELSE Moved(n, from, to)[q]]
  BY DEF Moved, Without

LEMMA UnlinkPart_Removed ==
  ASSUME Sound, NEW r \in Requests, UnlinkPart(r)
  PROVE  Removed(Name(r))
<1>1. /\ pc[r] = "unlink" /\ pc' = [pc EXCEPT ![r] = "open"]
      /\ UNCHANGED <<files, folders, clash, undeclared, overlapped>>
      /\ cut' = cut \ {Name(r)}
      /\ parts' = [parts EXCEPT ![Name(r)] = NoFile]
      /\ upload' = Moved(Name(r), "part", "nowhere")
  BY DEF UnlinkPart, Goto, RestUnchanged
<1> DEFINE moved == Moved(Name(r), "part", "nowhere")
<1>2. upload' = [q \in Requests |-> moved[q]]
  BY <1>1 DEF Moved
<1>3. pc' \in [Requests -> StoragePcs]
  BY <1>1 DEF Sound, StorageTypeOK, StoragePcs
<1>4. ASSUME NEW q \in Requests
      PROVE  /\ upload'[q] = Moved(Name(r), "part", "nowhere")[q]
             /\ Busy(q)' <=> Busy(q)
             /\ pc'[q] \in {"unlink", "open"} => pc[q] \in {"unlink", "open"}
  BY <1>1, <1>2 DEF Busy, Sound, StorageTypeOK
<1>5. upload' = [q \in Requests |-> upload'[q]]
  BY <1>2
<1>6. QED
  BY <1>1, <1>3, <1>4, <1>5 DEF Removed

LEMMA EndsRemoving ==
  ASSUME Sound, NEW r \in Requests, StreamFails(r) \/ RefuseOverwrite(r)
  PROVE  Removed(Name(r))
<1>1. /\ pc' = [pc EXCEPT ![r] = "idle"]
      /\ UNCHANGED <<files, folders, clash, undeclared, cut, overlapped>>
      /\ parts' = [parts EXCEPT ![Name(r)] = NoFile]
      /\ upload' = Without(r, Moved(Name(r), "part", "nowhere"))
  BY DEF StreamFails, RefuseOverwrite, Leave, Goto, RestUnchanged
<1>2. QED
  BY <1>1, MovedFunction DEF Removed, Busy, Sound, StorageTypeOK, StoragePcs

LEMMA DeletePart_Removed ==
  ASSUME Sound, NEW n \in Names, DeletePart(n)
  PROVE  Removed(n)
<1>1. Moved(n, "part", "nowhere") = [q \in Requests |-> Moved(n, "part", "nowhere")[q]]
  BY DEF Moved
<1>2. QED
  BY <1>1 DEF DeletePart, workerVars, RestUnchanged, Removed, Busy, Sound, StorageTypeOK

LEMMA OpenPart_Sound ==
  ASSUME Sound, NEW r \in Requests, OpenPart(r)
  PROVE  Sound'
<1> USE DEF Sound, StorageTypeOK, UploadsTyped, PlacesAreThere, Unplaced, Busy, Name
<1>1. /\ pc[r] = "open" /\ pc' = [pc EXCEPT ![r] = "copy"]
      /\ UNCHANGED <<files, folders, clash, undeclared, cut, overlapped>>
  BY DEF OpenPart, Goto, RestUnchanged
<1>2. upload[r] \in UploadRecords /\ upload[r].name \in Names
  BY <1>1 DEF UploadRecords
<1>3. PICK new \in Contents : parts' = [parts EXCEPT ![Name(r)] = new]
  BY <1>2, ContentFacts DEF OpenPart
<1>4. /\ upload' = [upload EXCEPT ![r].place = "part"]
      /\ upload'[r] = [upload[r] EXCEPT !.place = "part"]
      /\ upload'[r] \in UploadRecords /\ upload'[r].place = "part"
      /\ upload'[r].name = upload[r].name
      /\ upload'[r].written = upload[r].written /\ upload'[r].length = upload[r].length
  BY <1>2, RelocatedTyped DEF OpenPart
<1>5. \A q \in Requests : q # r => upload'[q] = upload[q] /\ pc'[q] = pc[q]
  BY <1>1, <1>4
<1>6. pc' \in [Requests -> StoragePcs] /\ pc'[r] = "copy"
  BY <1>1 DEF StoragePcs
<1>7. parts' \in [Names -> Contents \cup {NoFile}] /\ parts'[Name(r)].there
  BY <1>2, <1>3, ContentFacts
<1>8. \A m \in Names : parts[m].there => parts'[m].there
  BY <1>2, <1>3, <1>7
<1>9. StorageTypeOK'
  BY <1>1, <1>4, <1>6, <1>7
<1>10. UploadsTyped'
  BY <1>1, <1>4, <1>5, <1>6
<1>11. PlacesAreThere'
  <2> SUFFICES ASSUME NEW q \in Requests, upload'[q].place # "nowhere"
               PROVE  /\ upload'[q].place = "part" => parts'[upload'[q].name].there
                      /\ upload'[q].place = "file" => files'[upload'[q].name].there
    OBVIOUS
  <2>1. CASE q = r
    BY <2>1, <1>4, <1>7
  <2>2. CASE q # r
    <3>1. upload[q].name \in Names
      BY <1>5, <2>2, PlacedIsBusy DEF UploadRecords
    <3>2. QED
      BY <1>1, <1>5, <1>8, <2>2, <3>1
  <2>3. QED
    BY <2>1, <2>2
<1>12. Unplaced'
  BY <1>5, <1>6
<1>13. QED
  BY <1>9, <1>10, <1>11, <1>12

(* Chunks go to the file of the upload, and leave it there.                *)
Wrote(r, p, f) ==
  /\ p \in [Names -> Contents \cup {NoFile}]
  /\ f \in [Names -> Contents \cup {NoFile}]
  /\ \A m \in Names : (p[m].there <=> parts[m].there) /\ (f[m].there <=> files[m].there)

LEMMA Wrote_Sound ==
  ASSUME Sound, NEW r \in Requests, Wrote(r, parts', files'),
         pc[r] = "copy", UNCHANGED <<overlapped, folders, clash, undeclared, cut>>,
         NEW there \in {"copy", "exists", "recheck"}, pc' = [pc EXCEPT ![r] = there],
         upload' \in [Requests -> UploadRecords \cup {NoUpload}],
         upload'[r] \in UploadRecords, upload'[r].written <= upload'[r].length,
         upload'[r].name = Name(r), upload'[r].place = upload[r].place,
         \A q \in Requests : q # r => upload'[q] = upload[q]
  PROVE  Sound'
<1> USE DEF Sound, StorageTypeOK, UploadsTyped, PlacesAreThere, Unplaced, Busy, Name
<1>1. StorageTypeOK'
  BY DEF StoragePcs, Wrote
<1>2. UploadsTyped'
  OBVIOUS
<1>3. PlacesAreThere'
  <2> SUFFICES ASSUME NEW q \in Requests, upload'[q].place # "nowhere"
               PROVE  /\ upload'[q].place = "part" => parts'[upload'[q].name].there
                      /\ upload'[q].place = "file" => files'[upload'[q].name].there
    OBVIOUS
  <2>1. upload'[q].place = upload[q].place /\ upload'[q].name = upload[q].name
    OBVIOUS
  <2>2. upload[q].name \in Names
    BY <2>1, PlacedIsBusy DEF UploadRecords
  <2>3. QED
    BY <2>1, <2>2 DEF Wrote
<1>4. Unplaced'
  OBVIOUS
<1>5. QED
  BY <1>1, <1>2, <1>3, <1>4

LEMMA CopyChunk_Wrote ==
  ASSUME Sound, NEW r \in Requests, CopyChunk(r)
  PROVE  /\ Wrote(r, parts', files')
         /\ upload[r] \in UploadRecords
         /\ \A m \in Names : /\ parts'[m].ended = parts[m].ended /\ parts'[m].mixed = parts[m].mixed
                             /\ files'[m].ended = files[m].ended /\ files'[m].mixed = files[m].mixed
<1> DEFINE size == upload[r].written + 1
           n == Name(r)
<1>1. /\ pc[r] = "copy" /\ upload[r].written < MaxUpload
      /\ parts' = IF upload[r].place = "part"
                    THEN [parts EXCEPT ![n] = Grown(@, size)] ELSE parts
      /\ files' = IF upload[r].place = "file"
                    THEN [files EXCEPT ![n] = Grown(@, size)] ELSE files
  BY DEF CopyChunk, Written
<1>2. upload[r] \in UploadRecords /\ n \in Names
  BY <1>1 DEF Sound, UploadsTyped, Busy, UploadRecords, Name
<1>3. size \in 0..MaxUpload
  BY <1>1, <1>2, StorageAssumption DEF UploadRecords
<1> HIDE DEF size
<1>4. ASSUME upload[r].place = "part"
      PROVE  parts[n] \in Contents
  BY <1>2, <1>4, ContentFacts DEF Sound, PlacesAreThere, StorageTypeOK
<1>5. ASSUME upload[r].place = "file"
      PROVE  files[n] \in Contents
  BY <1>2, <1>5, ContentFacts DEF Sound, PlacesAreThere, StorageTypeOK
<1> HIDE DEF n
<1>6. /\ parts' \in [Names -> Contents \cup {NoFile}]
      /\ \A m \in Names : /\ parts'[m].there <=> parts[m].there
                          /\ parts'[m].ended = parts[m].ended /\ parts'[m].mixed = parts[m].mixed
  BY <1>1, <1>2, <1>3, <1>4, GrownContent, ContentFacts DEF Sound, StorageTypeOK
<1>7. /\ files' \in [Names -> Contents \cup {NoFile}]
      /\ \A m \in Names : /\ files'[m].there <=> files[m].there
                          /\ files'[m].ended = files[m].ended /\ files'[m].mixed = files[m].mixed
  BY <1>1, <1>2, <1>3, <1>5, GrownContent, ContentFacts DEF Sound, StorageTypeOK
<1>8. QED
  BY <1>2, <1>6, <1>7 DEF Wrote

LEMMA CopyChunk_Upload ==
  ASSUME Sound, NEW r \in Requests, CopyChunk(r)
  PROVE  /\ pc[r] = "copy" /\ UNCHANGED <<pc, overlapped, folders, clash, undeclared, cut>>
         /\ upload' \in [Requests -> UploadRecords \cup {NoUpload}]
         /\ upload'[r] \in UploadRecords /\ upload'[r].written <= upload'[r].length
         /\ upload'[r].written = upload[r].written + 1
         /\ upload'[r].length = upload[r].length
         /\ upload'[r].name = Name(r) /\ upload'[r].place = upload[r].place
         /\ upload'[r].overwrite = upload[r].overwrite
         /\ \A q \in Requests : q # r => upload'[q] = upload[q]
<1> DEFINE u == upload[r]
<1>1. /\ pc[r] = "copy" /\ u.written < u.length /\ u.written < MaxUpload
      /\ upload' = [upload EXCEPT ![r].written = @ + 1]
      /\ UNCHANGED <<pc, overlapped, folders, clash, undeclared, cut>>
  BY DEF CopyChunk, workerVars, RestUnchanged
<1>2. u \in UploadRecords
  BY <1>1 DEF Sound, UploadsTyped, Busy
<1>3. u.written + 1 \in 0..MaxUpload /\ u.written + 1 <= u.length
  BY <1>1, <1>2, StorageAssumption DEF UploadRecords
<1>4. upload'[r] = [u EXCEPT !.written = u.written + 1]
  BY <1>1 DEF Sound, StorageTypeOK
<1>5. /\ upload'[r] \in UploadRecords
      /\ upload'[r].written = u.written + 1 /\ upload'[r].length = u.length
      /\ upload'[r].name = u.name /\ upload'[r].place = u.place
      /\ upload'[r].overwrite = u.overwrite
  BY <1>2, <1>3, <1>4 DEF UploadRecords
<1> HIDE DEF u
<1>6. /\ upload' \in [Requests -> UploadRecords \cup {NoUpload}]
      /\ \A q \in Requests : q # r => upload'[q] = upload[q]
  BY <1>1, <1>5 DEF Sound, StorageTypeOK
<1>7. QED
  BY <1>1, <1>3, <1>5, <1>6 DEF u, Name

LEMMA EndOfStream_Wrote ==
  ASSUME Sound, NEW r \in Requests, EndOfStream(r)
  PROVE  /\ Wrote(r, parts', files')
         /\ pc[r] = "copy" /\ upload[r] \in UploadRecords /\ Name(r) \in Names
         /\ \E there \in {"exists", "recheck"} : pc' = [pc EXCEPT ![r] = there]
         /\ UNCHANGED <<upload, overlapped, folders, clash, undeclared, cut>>
         /\ upload[r].place = "part" => parts'[Name(r)].ended
         /\ \A m \in Names :
              /\ parts'[m].mixed = parts[m].mixed /\ files'[m].mixed = files[m].mixed
              /\ parts'[m].size = parts[m].size /\ files'[m].size = files[m].size
              /\ files[m].ended => files'[m].ended
<1> DEFINE n == Name(r)
<1>1. /\ pc[r] = "copy"
      /\ parts' = IF upload[r].place = "part"
                    THEN [parts EXCEPT ![n] = [@ EXCEPT !.ended = TRUE]] ELSE parts
      /\ files' = IF upload[r].place = "file"
                    THEN [files EXCEPT ![n] = [@ EXCEPT !.ended = TRUE]] ELSE files
      /\ UNCHANGED <<upload, overlapped, folders, clash, undeclared, cut>>
  BY DEF EndOfStream, Goto, Written, RestUnchanged
<1>2. upload[r] \in UploadRecords /\ n \in Names
  BY <1>1 DEF Sound, UploadsTyped, Busy, UploadRecords, Name
<1>3. \E there \in {"exists", "recheck"} : pc' = [pc EXCEPT ![r] = there]
  BY DEF EndOfStream, Goto
<1>4. ASSUME upload[r].place = "part"
      PROVE  parts[n] \in Contents
  BY <1>2, <1>4, ContentFacts DEF Sound, PlacesAreThere, StorageTypeOK
<1>5. ASSUME upload[r].place = "file"
      PROVE  files[n] \in Contents
  BY <1>2, <1>5, ContentFacts DEF Sound, PlacesAreThere, StorageTypeOK
<1> HIDE DEF n
<1>6. /\ parts' \in [Names -> Contents \cup {NoFile}]
      /\ upload[r].place = "part" => parts'[n].ended
      /\ \A m \in Names : /\ parts'[m].there <=> parts[m].there
                          /\ parts'[m].mixed = parts[m].mixed
                          /\ parts'[m].size = parts[m].size
  <2>1. CASE upload[r].place = "part"
    <3> DEFINE new == [parts[n] EXCEPT !.ended = TRUE]
    <3>1. /\ new \in Contents /\ new.ended /\ new.mixed = parts[n].mixed /\ new.there
          /\ new.size = parts[n].size
          /\ parts[n].there
      BY <1>4, <2>1, EndedContent, ContentFacts
    <3>2. parts' = [parts EXCEPT ![n] = new]
      BY <1>1, <2>1
    <3> HIDE DEF new
    <3>3. QED
      BY <1>2, <3>1, <3>2 DEF Sound, StorageTypeOK
  <2>2. CASE upload[r].place # "part"
    BY <1>1, <2>2 DEF Sound, StorageTypeOK
  <2>3. QED
    BY <2>1, <2>2
<1>7. /\ files' \in [Names -> Contents \cup {NoFile}]
      /\ \A m \in Names : /\ files'[m].there <=> files[m].there
                          /\ files'[m].mixed = files[m].mixed
                          /\ files'[m].size = files[m].size
                          /\ files[m].ended => files'[m].ended
  <2>1. CASE upload[r].place = "file"
    <3> DEFINE new == [files[n] EXCEPT !.ended = TRUE]
    <3>1. /\ new \in Contents /\ new.ended /\ new.mixed = files[n].mixed /\ new.there
          /\ new.size = files[n].size
          /\ files[n].there
      BY <1>5, <2>1, EndedContent, ContentFacts
    <3>2. files' = [files EXCEPT ![n] = new]
      BY <1>1, <2>1
    <3> HIDE DEF new
    <3>3. QED
      BY <1>2, <3>1, <3>2 DEF Sound, StorageTypeOK
  <2>2. CASE upload[r].place # "file"
    BY <1>1, <2>2 DEF Sound, StorageTypeOK
  <2>3. QED
    BY <2>1, <2>2
<1>8. QED
  BY <1>1, <1>2, <1>3, <1>6, <1>7 DEF Wrote, n

(* Steps that touch no file.                                               *)
LEMMA Asking_Sound ==
  ASSUME Sound, NEW r \in Requests, Recheck(r) \/ LookForTarget(r)
  PROVE  Sound'
<1>1. /\ pc[r] \in {"recheck", "exists"}
      /\ pc' = [pc EXCEPT ![r] = "exists"] \/ pc' = [pc EXCEPT ![r] = "rename"]
      /\ UNCHANGED <<files, parts, upload, folders, clash, undeclared, cut, overlapped>>
  BY DEF Recheck, LookForTarget, Goto, RestUnchanged
<1>2. pc' \in [Requests -> StoragePcs]
  BY <1>1 DEF Sound, StorageTypeOK, StoragePcs
<1>3. QED
  BY <1>1, <1>2 DEF Sound, StorageTypeOK, UploadsTyped, PlacesAreThere, Unplaced, Busy, Name

LEMMA Ending_Sound ==
  ASSUME Sound, NEW r \in Requests, OpenFails(r) \/ RecheckRefuses(r) \/ RenameFails(r)
  PROVE  Sound'
<1>1. /\ pc[r] \in {"open", "recheck", "rename"}
      /\ pc' = [pc EXCEPT ![r] = "idle"]
      /\ upload' = [upload EXCEPT ![r] = NoUpload]
      /\ cut' \in {cut, cut \cup {Name(r)}}
      /\ UNCHANGED <<files, parts, folders, clash, undeclared, overlapped>>
  BY DEF OpenFails, RecheckRefuses, RenameFails, Leave, Goto, Without, RestUnchanged
<1>2. pc' \in [Requests -> StoragePcs]
  BY <1>1 DEF Sound, StorageTypeOK, StoragePcs
<1>3. Name(r) \in Names
  BY <1>1 DEF Sound, UploadsTyped, Busy, UploadRecords, Name
<1>4. cut' \subseteq Names
  BY <1>1, <1>3 DEF Sound, StorageTypeOK
<1>5. QED
  BY <1>1, <1>2, <1>4, NoUploadFacts
     DEF Sound, StorageTypeOK, UploadsTyped, PlacesAreThere, Unplaced, Busy, Name

LEMMA StorageCrash_Sound ==
  ASSUME Sound, StorageCrash
  PROVE  Sound'
<1>1. /\ pc' = [r \in Requests |-> "idle"] /\ upload' = [r \in Requests |-> NoUpload]
      /\ UNCHANGED <<files, parts, folders, clash, undeclared, overlapped>>
      /\ cut' \subseteq Names
  BY DEF StorageCrash, AllStop, Sound, StorageTypeOK
<1>2. pc' \in [Requests -> StoragePcs]
  BY <1>1 DEF StoragePcs
<1>3. QED
  BY <1>1, <1>2, NoUploadFacts
     DEF Sound, StorageTypeOK, UploadsTyped, PlacesAreThere, Unplaced, Busy

LEMMA DeleteFile_Sound ==
  ASSUME Sound, NEW n \in Names, DeleteFile(n)
  PROVE  /\ Sound'
         /\ \A q \in Requests :
              /\ upload'[q].name = Name(q) /\ upload'[q].overwrite = upload[q].overwrite
              /\ upload'[q].length = upload[q].length
              /\ upload'[q].place \in {upload[q].place, "nowhere"}
              /\ upload[q].place # "file" => upload'[q].place = upload[q].place
              /\ upload'[q].place # "file" \/ Name(q) # n
<1> DEFINE moved == Moved(n, "file", "nowhere")
<1>1. /\ files' = [files EXCEPT ![n] = NoFile]
      /\ UNCHANGED <<pc, overlapped, parts, folders, clash, undeclared, cut>>
      /\ upload' = [q \in Requests |-> moved[q]]
  BY DEF DeleteFile, workerVars, RestUnchanged, Moved
<1>2. \A q \in Requests : upload'[q] = moved[q]
  BY <1>1
<1>3. \A q \in Requests :
        /\ Busy(q) => upload'[q] \in UploadRecords
        /\ ~Busy(q) => upload'[q] = NoUpload
        /\ upload'[q].name = Name(q) /\ upload'[q].written = upload[q].written
        /\ upload'[q].length = upload[q].length /\ upload'[q].overwrite = upload[q].overwrite
        /\ upload'[q].place = IF Name(q) = n /\ upload[q].place = "file"
                                THEN "nowhere" ELSE upload[q].place
  BY <1>2, MovedUploads
<1> HIDE DEF moved
<1>4. upload' \in [Requests -> UploadRecords \cup {NoUpload}]
  BY <1>1, <1>3
<1>5. StorageTypeOK'
  BY <1>1, <1>4 DEF Sound, StorageTypeOK
<1>6. UploadsTyped'
  BY <1>1, <1>3 DEF Sound, UploadsTyped, Busy
<1>7. PlacesAreThere'
  <2> SUFFICES ASSUME NEW q \in Requests, upload'[q].place # "nowhere"
               PROVE  /\ upload'[q].place = "part" => parts'[upload'[q].name].there
                      /\ upload'[q].place = "file" => files'[upload'[q].name].there
    BY DEF PlacesAreThere, Name
  <2>1. upload'[q].place = upload[q].place /\ ~(Name(q) = n /\ upload[q].place = "file")
    BY <1>3
  <2>2. Name(q) \in Names
    BY <2>1, PlacedIsBusy DEF UploadRecords, Name
  <2>3. QED
    BY <1>1, <1>3, <2>1, <2>2 DEF Sound, PlacesAreThere, StorageTypeOK, Name
<1>8. Unplaced'
  BY <1>1, <1>3 DEF Sound, Unplaced
<1>9. QED
  BY <1>3, <1>5, <1>6, <1>7, <1>8 DEF Sound

(* The temporary file becomes the file; what had been the file has no name *)
(* any more.                                                               *)
LEMMA RenameUpload_Sound ==
  ASSUME Sound, NEW r \in Requests, RenameUpload(r)
  PROVE  /\ Sound'
         /\ pc[r] = "rename" /\ pc' = [pc EXCEPT ![r] = "idle"]
         /\ Name(r) \in Names /\ parts[Name(r)].there
         /\ files' = [files EXCEPT ![Name(r)] = parts[Name(r)]]
         /\ parts' = [parts EXCEPT ![Name(r)] = NoFile]
         /\ UNCHANGED <<folders, clash, undeclared, cut, overlapped>>
         /\ upload'[r] = NoUpload
         /\ \A q \in Requests \ {r} :
              /\ upload'[q].name = Name(q) /\ upload'[q].overwrite = upload[q].overwrite
              /\ upload'[q].length = upload[q].length
              /\ upload'[q].place = IF Name(q) # Name(r) THEN upload[q].place
                                    ELSE IF upload[q].place = "part" THEN "file" ELSE "nowhere"
<1> DEFINE n == Name(r)
<1>1. /\ pc[r] = "rename" /\ pc' = [pc EXCEPT ![r] = "idle"]
      /\ parts[n].there
      /\ files' = [files EXCEPT ![n] = parts[n]]
      /\ parts' = [parts EXCEPT ![n] = NoFile]
      /\ UNCHANGED <<folders, clash, undeclared, cut, overlapped>>
  BY DEF RenameUpload, Leave, Goto, RestUnchanged
<1>2. n \in Names
  BY <1>1 DEF Sound, UploadsTyped, Busy, UploadRecords, Name
<1>3. upload' = [q \in Requests |->
         CASE q = r -> NoUpload
           [] q # r /\ Name(q) = n /\ upload[q].place = "part" ->
                [upload[q] EXCEPT !.place = "file"]
           [] q # r /\ Name(q) = n /\ upload[q].place = "file" ->
                [upload[q] EXCEPT !.place = "nowhere"]
           [] OTHER -> upload[q]]
  BY DEF RenameUpload
<1>4. upload'[r] = NoUpload
  BY <1>3
<1>5. ASSUME NEW q \in Requests \ {r}
      PROVE  /\ Busy(q) => upload'[q] \in UploadRecords /\ upload'[q].written <= upload'[q].length
             /\ ~Busy(q) => upload'[q] = NoUpload
             /\ upload'[q].name = Name(q) /\ upload'[q].overwrite = upload[q].overwrite
             /\ upload'[q].length = upload[q].length
             /\ Name(q) = n => upload'[q].place = IF upload[q].place = "part"
                                                    THEN "file" ELSE "nowhere"
             /\ Name(q) # n => upload'[q].place = upload[q].place
  <2>1. CASE Name(q) = n /\ upload[q].place = "part"
    <3> DEFINE new == [upload[q] EXCEPT !.place = "file"]
    <3>1. Busy(q) /\ upload[q] \in UploadRecords
      BY <2>1, PlacedIsBusy
    <3>2. /\ new \in UploadRecords /\ new.place = "file" /\ new.name = upload[q].name
          /\ new.written = upload[q].written /\ new.length = upload[q].length
          /\ new.overwrite = upload[q].overwrite
      BY <3>1, RelocatedTyped
    <3>3. upload'[q] = new
      BY <1>3, <2>1
    <3> HIDE DEF new
    <3>4. QED
      BY <2>1, <3>1, <3>2, <3>3 DEF Sound, UploadsTyped, Name
  <2>2. CASE Name(q) = n /\ upload[q].place = "file"
    <3> DEFINE new == [upload[q] EXCEPT !.place = "nowhere"]
    <3>1. Busy(q) /\ upload[q] \in UploadRecords
      BY <2>2, PlacedIsBusy
    <3>2. /\ new \in UploadRecords /\ new.place = "nowhere" /\ new.name = upload[q].name
          /\ new.written = upload[q].written /\ new.length = upload[q].length
          /\ new.overwrite = upload[q].overwrite
      BY <3>1, RelocatedTyped
    <3>3. upload'[q] = new
      BY <1>3, <2>2
    <3> HIDE DEF new
    <3>4. QED
      BY <2>2, <3>1, <3>2, <3>3 DEF Sound, UploadsTyped, Name
  <2>3. CASE ~(Name(q) = n /\ upload[q].place \in {"part", "file"})
    <3>1. upload'[q] = upload[q]
      BY <1>3, <2>3
    <3>2. upload[q].place \in {"nowhere", "part", "file"}
      BY NoUploadFacts DEF Sound, UploadsTyped, UploadRecords
    <3>3. QED
      BY <2>3, <3>1, <3>2 DEF Sound, UploadsTyped, Name
  <2>4. QED
    BY <2>1, <2>2, <2>3
<1> HIDE DEF n
<1>6. upload' \in [Requests -> UploadRecords \cup {NoUpload}]
  <2>1. \A q \in Requests : upload'[q] \in UploadRecords \cup {NoUpload}
    BY <1>4, <1>5
  <2>2. upload' = [q \in Requests |-> upload'[q]]
    BY <1>3
  <2>3. QED
    BY <2>1, <2>2
<1>7. StorageTypeOK'
  <2>1. pc' \in [Requests -> StoragePcs]
    BY <1>1 DEF Sound, StorageTypeOK, StoragePcs
  <2>2. QED
    BY <1>1, <1>2, <1>6, <2>1 DEF Sound, StorageTypeOK
<1>8. \A q \in Requests : pc'[q] = IF q = r THEN "idle" ELSE pc[q]
  BY <1>1 DEF Sound, StorageTypeOK
<1>9. UploadsTyped'
  BY <1>4, <1>5, <1>8 DEF UploadsTyped, Busy
<1>10. PlacesAreThere'
  <2> SUFFICES ASSUME NEW q \in Requests, upload'[q].place # "nowhere"
               PROVE  /\ upload'[q].place = "part" => parts'[upload'[q].name].there
                      /\ upload'[q].place = "file" => files'[upload'[q].name].there
    BY DEF PlacesAreThere, Name
  <2>1. q # r
    BY <1>4, NoUploadFacts
  <2>2. CASE Name(q) = n
    BY <1>1, <1>2, <1>5, <2>1, <2>2 DEF Sound, StorageTypeOK
  <2>3. CASE Name(q) # n
    <3>1. upload[q].place = upload'[q].place
      BY <1>5, <2>1, <2>3
    <3>2. Name(q) \in Names
      BY <3>1, PlacedIsBusy DEF UploadRecords, Name
    <3>3. QED
      BY <1>1, <1>2, <1>5, <2>1, <2>3, <3>1, <3>2 DEF Sound, StorageTypeOK, PlacesAreThere
  <2>4. QED
    BY <2>2, <2>3
<1>11. Unplaced'
  <2> SUFFICES ASSUME NEW q \in Requests, pc'[q] \in {"unlink", "open"}
               PROVE  upload'[q].place = "nowhere"
    BY DEF Unplaced
  <2>1. q # r /\ upload[q].place = "nowhere"
    BY <1>8 DEF Sound, Unplaced
  <2>2. QED
    BY <1>5, <2>1
<1>12. QED
  BY <1>1, <1>2, <1>4, <1>5, <1>7, <1>9, <1>10, <1>11 DEF Sound, n

-----------------------------------------------------------------------------
(* Names nobody clashed over.                                              *)
LEMMA StorageInit_Whole == StorageInit => Whole
  BY ContentFacts
     DEF StorageInit, WorkersInit, Whole, OwnPart, PartsAreNeeded, FilesAreWhole, Busy

(* A step of one upload needs to be looked at for its own name only.       *)
OtherNames(r) ==
  /\ \A q \in Requests \ {r} :
       /\ pc'[q] = pc[q]
       /\ upload'[q].name = Name(q) /\ upload'[q].overwrite = upload[q].overwrite
       /\ Name(q) # Name(r) => upload'[q].place = upload[q].place
  /\ \A m \in Names \ {Name(r)} : parts'[m] = parts[m] /\ files'[m] = files[m]
  /\ Busy(r)' => upload'[r].name = Name(r)
  /\ clash' = clash

IsWhole(content) == content.there => content.ended /\ ~content.mixed

LEMMA UploadStep_Whole ==
  ASSUME Sound, Whole, NEW r \in Requests, Busy(r), OtherNames(r),
         cut \ {Name(r)} \subseteq cut',
         Name(r) \notin clash =>
           /\ Busy(r)' => OwnBytes(r)'
           /\ IsWhole(files'[Name(r)])
           /\ Name(r) \notin cut' /\ ~Busy(r)' => ~parts'[Name(r)].there
  PROVE  Whole'
<1>1. \A q \in Requests : Busy(q) => Name(q) \in Names
  BY DEF Sound, UploadsTyped, UploadRecords, Name
<1>2. \A q \in Requests : Busy(q)' => Busy(q) /\ upload'[q].name = Name(q)
  BY DEF OtherNames, Busy
<1>3. OwnPart'
  <2> SUFFICES ASSUME NEW q \in Requests, Busy(q)', upload'[q].name \notin clash'
               PROVE  /\ \A p \in Requests : Busy(p)' /\ upload'[p].name = upload'[q].name => p = q
                      /\ OwnBytes(q)'
    BY DEF OwnPart, Name
  <2>1. Busy(q) /\ Name(q) \notin clash /\ upload'[q].name = Name(q)
    BY <1>2 DEF OtherNames
  <2>2. \A p \in Requests : Busy(p)' /\ upload'[p].name = upload'[q].name => p = q
    BY <1>2, <2>1 DEF Whole, OwnPart
  <2>3. CASE q = r
    BY <2>1, <2>2, <2>3
  <2>4. CASE q # r
    <3>1. Name(q) # Name(r) /\ Name(q) \in Names
      BY <1>1, <2>1, <2>4 DEF Whole, OwnPart
    <3>2. OwnBytes(q)
      BY <2>1 DEF Whole, OwnPart
    <3>3. /\ pc'[q] = pc[q] /\ upload'[q].name = Name(q)
          /\ upload'[q].overwrite = upload[q].overwrite /\ upload'[q].place = upload[q].place
          /\ parts'[Name(q)] = parts[Name(q)] /\ files'[Name(q)] = files[Name(q)]
      BY <2>4, <3>1 DEF OtherNames
    <3>4. OwnBytes(q)'
      BY <3>2, <3>3 DEF OwnBytes, Name
    <3>5. QED
      BY <2>2, <3>4
  <2>5. QED
    BY <2>3, <2>4
<1>4. PartsAreNeeded'
  <2> SUFFICES ASSUME NEW m \in Names, m \notin clash', m \notin cut', parts'[m].there
               PROVE  \E q \in Requests : Busy(q)' /\ upload'[q].name = m
    BY DEF PartsAreNeeded, Name
  <2>1. CASE m = Name(r)
    BY <2>1 DEF OtherNames
  <2>2. CASE m # Name(r)
    <3>1. PICK q \in Requests : Busy(q) /\ Name(q) = m
      BY <2>2 DEF Whole, PartsAreNeeded, OtherNames
    <3>2. q # r
      BY <2>2, <3>1
    <3>3. QED
      BY <3>1, <3>2 DEF OtherNames, Busy
  <2>3. QED
    BY <2>1, <2>2
<1>5. FilesAreWhole'
  <2> SUFFICES ASSUME NEW m \in Names, m \notin clash', files'[m].there
               PROVE  files'[m].ended /\ ~files'[m].mixed
    BY DEF FilesAreWhole
  <2>1. CASE m = Name(r)
    BY <2>1 DEF OtherNames, IsWhole
  <2>2. CASE m # Name(r)
    BY <2>2 DEF Whole, FilesAreWhole, OtherNames
  <2>3. QED
    BY <2>1, <2>2
<1>6. QED
  BY <1>3, <1>4, <1>5 DEF Whole

LEMMA BusyName ==
  ASSUME Sound, NEW r \in Requests, Busy(r)
  PROVE  /\ upload[r] \in UploadRecords /\ Name(r) \in Names
         /\ upload[r].place \in {"nowhere", "part", "file"}
  BY DEF Sound, UploadsTyped, UploadRecords, Name

LEMMA Remover_OtherNames ==
  ASSUME Sound, NEW r \in Requests, Busy(r), NEW there,
         pc' = [pc EXCEPT ![r] = there],
         parts' = [parts EXCEPT ![Name(r)] = NoFile], UNCHANGED <<files, clash>>,
         \A q \in Requests \ {r} : upload'[q] = Moved(Name(r), "part", "nowhere")[q],
         Busy(r)' => upload'[r].name = Name(r)
  PROVE  OtherNames(r) /\ ~parts'[Name(r)].there
<1>1. \A q \in Requests \ {r} :
        /\ upload'[q].name = Name(q) /\ upload'[q].overwrite = upload[q].overwrite
        /\ Name(q) # Name(r) => upload'[q].place = upload[q].place
  BY MovedUploads
<1>2. \A q \in Requests \ {r} : pc'[q] = pc[q]
  BY DEF Sound, StorageTypeOK
<1>3. \A m \in Names \ {Name(r)} : parts'[m] = parts[m] /\ files'[m] = files[m]
  BY DEF Sound, StorageTypeOK
<1>4. ~parts'[Name(r)].there
  BY BusyName, ContentFacts DEF Sound, StorageTypeOK
<1>5. QED
  BY <1>1, <1>2, <1>3, <1>4 DEF OtherNames

LEMMA UnlinkPart_Whole ==
  ASSUME Sound, Whole, NEW r \in Requests, UnlinkPart(r)
  PROVE  Whole'
<1> DEFINE moved == Moved(Name(r), "part", "nowhere")
<1>1. /\ pc[r] = "unlink" /\ pc' = [pc EXCEPT ![r] = "open"]
      /\ UNCHANGED <<files, folders, clash, undeclared, overlapped>>
      /\ cut' = cut \ {Name(r)}
      /\ parts' = [parts EXCEPT ![Name(r)] = NoFile]
      /\ upload' = [q \in Requests |-> moved[q]]
  BY DEF UnlinkPart, Goto, RestUnchanged, Moved
<1>2. upload'[r].name = Name(r) /\ Busy(r) /\ pc'[r] = "open"
  BY <1>1, MovedUploads DEF Busy, Sound, StorageTypeOK
<1>3. OtherNames(r) /\ ~parts'[Name(r)].there
  BY <1>1, <1>2, Remover_OtherNames
<1>4. upload'[r].place = "nowhere"
  BY <1>1, MovedUploads DEF Sound, Unplaced
<1>5. OwnBytes(r)'
  BY <1>2, <1>3, <1>4 DEF OwnBytes, Ended, Name
<1>6. Name(r) \notin clash => IsWhole(files'[Name(r)])
  BY <1>1, <1>2, BusyName DEF IsWhole, Whole, FilesAreWhole
<1>7. QED
  BY <1>1, <1>2, <1>3, <1>5, <1>6, UploadStep_Whole DEF IsWhole, Busy

LEMMA EndsRemoving_Whole ==
  ASSUME Sound, Whole, NEW r \in Requests, StreamFails(r) \/ RefuseOverwrite(r)
  PROVE  Whole'
<1> DEFINE moved == Moved(Name(r), "part", "nowhere")
<1>1. /\ pc[r] \in {"copy", "exists"} /\ pc' = [pc EXCEPT ![r] = "idle"]
      /\ UNCHANGED <<files, folders, clash, undeclared, cut, overlapped>>
      /\ parts' = [parts EXCEPT ![Name(r)] = NoFile]
      /\ upload' = [q \in Requests |-> IF q = r THEN NoUpload ELSE moved[q]]
  BY DEF StreamFails, RefuseOverwrite, Leave, Goto, RestUnchanged, Moved, Without
<1>2. Busy(r) /\ ~Busy(r)'
  BY <1>1 DEF Busy, Sound, StorageTypeOK
<1>3. OtherNames(r) /\ ~parts'[Name(r)].there
  BY <1>1, <1>2, Remover_OtherNames
<1>4. Name(r) \notin clash => IsWhole(files'[Name(r)])
  BY <1>1, <1>2, BusyName DEF IsWhole, Whole, FilesAreWhole
<1>5. QED
  BY <1>1, <1>2, <1>3, <1>4, UploadStep_Whole DEF IsWhole

LEMMA OpenPart_Whole ==
  ASSUME Sound, Whole, NEW r \in Requests, OpenPart(r)
  PROVE  Whole'
<1> DEFINE n == Name(r)
<1>1. /\ pc[r] = "open" /\ pc' = [pc EXCEPT ![r] = "copy"]
      /\ UNCHANGED <<files, folders, clash, undeclared, cut, overlapped>>
      /\ parts' = [parts EXCEPT ![n] =
                     IF @.there THEN [NewFile EXCEPT !.mixed = TRUE] ELSE NewFile]
      /\ upload' = [upload EXCEPT ![r].place = "part"]
  BY DEF OpenPart, Goto, RestUnchanged
<1>2. Busy(r) /\ upload[r] \in UploadRecords /\ n \in Names
  BY <1>1, BusyName DEF Busy
<1>3. upload'[r].name = n /\ upload'[r].place = "part"
  BY <1>1, <1>2, RelocatedTyped DEF Sound, StorageTypeOK, Name
<1>4. pc'[r] = "copy" /\ \A q \in Requests \ {r} : pc'[q] = pc[q] /\ upload'[q] = upload[q]
  BY <1>1 DEF Sound, StorageTypeOK
<1>5. \A m \in Names \ {n} : parts'[m] = parts[m] /\ files'[m] = files[m]
  BY <1>1 DEF Sound, StorageTypeOK
<1>6. OtherNames(r)
  BY <1>1, <1>3, <1>4, <1>5 DEF OtherNames, Name
<1>7. ASSUME n \notin clash
      PROVE  OwnBytes(r)' /\ IsWhole(files'[n])
  <2>1. ~parts[n].there
    BY <1>1, <1>2, <1>7 DEF Whole, OwnPart, OwnBytes
  <2>2. parts'[n] = NewFile
    BY <1>1, <1>2, <2>1 DEF Sound, StorageTypeOK
  <2>3. OwnBytes(r)'
    BY <1>3, <1>4, <2>2, ContentFacts DEF OwnBytes, Ended, Name
  <2>4. QED
    BY <1>1, <1>2, <1>7, <2>3 DEF IsWhole, Whole, FilesAreWhole
<1>8. QED
  BY <1>1, <1>2, <1>4, <1>6, <1>7, UploadStep_Whole DEF IsWhole, Busy

LEMMA CopyChunk_Whole ==
  ASSUME Sound, Whole, NEW r \in Requests, CopyChunk(r)
  PROVE  Whole'
<1> DEFINE n == Name(r)
<1>1. /\ Wrote(r, parts', files')
      /\ \A m \in Names : /\ parts'[m].mixed = parts[m].mixed
                          /\ files'[m].ended = files[m].ended /\ files'[m].mixed = files[m].mixed
  BY CopyChunk_Wrote
<1>2. /\ pc[r] = "copy" /\ UNCHANGED <<pc, clash, cut>>
      /\ upload'[r].name = n /\ upload'[r].place = upload[r].place
      /\ upload'[r].overwrite = upload[r].overwrite
      /\ \A q \in Requests : q # r => upload'[q] = upload[q]
  BY CopyChunk_Upload
<1>3. Busy(r) /\ n \in Names
  BY <1>2, BusyName DEF Busy
<1>4. \A m \in Names \ {n} : parts'[m] = parts[m] /\ files'[m] = files[m]
  BY DEF CopyChunk, Written, Sound, StorageTypeOK
<1>5. OtherNames(r)
  BY <1>2, <1>4 DEF OtherNames, Name
<1>6. n \notin clash => OwnBytes(r)'
  BY <1>1, <1>2, <1>3 DEF Whole, OwnPart, OwnBytes, Ended, Wrote, Name
<1>7. n \notin clash => IsWhole(files'[n])
  BY <1>1, <1>2, <1>3 DEF Whole, FilesAreWhole, IsWhole, Wrote
<1>8. QED
  BY <1>2, <1>3, <1>5, <1>6, <1>7, UploadStep_Whole DEF IsWhole, Busy

LEMMA EndOfStream_Whole ==
  ASSUME Sound, Whole, NEW r \in Requests, EndOfStream(r)
  PROVE  Whole'
<1> DEFINE n == Name(r)
<1>1. /\ Wrote(r, parts', files') /\ n \in Names
      /\ pc[r] = "copy" /\ UNCHANGED <<upload, clash, cut>>
      /\ upload[r].place = "part" => parts'[n].ended
      /\ \A m \in Names :
           /\ parts'[m].mixed = parts[m].mixed /\ files'[m].mixed = files[m].mixed
           /\ files[m].ended => files'[m].ended
  BY EndOfStream_Wrote
<1>2. PICK there \in {"exists", "recheck"} : pc' = [pc EXCEPT ![r] = there]
  BY EndOfStream_Wrote
<1>3. Busy(r) /\ Busy(r)' /\ pc'[r] = there
      /\ \A q \in Requests \ {r} : pc'[q] = pc[q]
  BY <1>1, <1>2 DEF Busy, Sound, StorageTypeOK
<1>4. \A m \in Names \ {n} : parts'[m] = parts[m] /\ files'[m] = files[m]
  BY DEF EndOfStream, Written, Sound, StorageTypeOK
<1>5. OtherNames(r)
  BY <1>1, <1>3, <1>4 DEF OtherNames, Name
<1>6. n \notin clash => OwnBytes(r)'
  BY <1>1, <1>3 DEF Whole, OwnPart, OwnBytes, Ended, Wrote, Name
<1>7. n \notin clash => IsWhole(files'[n])
  BY <1>1 DEF Whole, FilesAreWhole, IsWhole, Wrote
<1>8. QED
  BY <1>1, <1>3, <1>5, <1>6, <1>7, UploadStep_Whole DEF IsWhole

LEMMA Asking_Whole ==
  ASSUME Sound, Whole, NEW r \in Requests, Recheck(r) \/ LookForTarget(r)
  PROVE  Whole'
<1>1. /\ \/ pc[r] = "recheck" /\ pc' = [pc EXCEPT ![r] = "exists"]
         \/ pc[r] = "exists" /\ pc' = [pc EXCEPT ![r] = "rename"] /\ MayReplace(r)
      /\ UNCHANGED <<files, parts, upload, clash, cut>>
  BY DEF Recheck, LookForTarget, Goto, RestUnchanged
<1>2. Busy(r) /\ Busy(r)' /\ \A q \in Requests \ {r} : pc'[q] = pc[q]
  BY <1>1 DEF Busy, Sound, StorageTypeOK
<1>3. OtherNames(r)
  BY <1>1, <1>2 DEF OtherNames, Name
<1>4. \/ pc'[r] = "exists"
      \/ pc'[r] = "rename" /\ (files[Name(r)].there => upload[r].overwrite)
  BY <1>1 DEF Sound, StorageTypeOK, MayReplace
<1>5. Name(r) \notin clash => OwnBytes(r)'
  BY <1>1, <1>2, <1>4 DEF Whole, OwnPart, OwnBytes, Ended, Name
<1>6. Name(r) \notin clash => IsWhole(files'[Name(r)])
  BY <1>1, <1>2, BusyName DEF IsWhole, Whole, FilesAreWhole
<1>7. QED
  BY <1>1, <1>2, <1>3, <1>5, <1>6, UploadStep_Whole DEF IsWhole

LEMMA Ending_Whole ==
  ASSUME Sound, Whole, NEW r \in Requests, OpenFails(r) \/ RecheckRefuses(r) \/ RenameFails(r)
  PROVE  Whole'
<1>1. /\ pc[r] \in {"open", "recheck", "rename"} /\ pc' = [pc EXCEPT ![r] = "idle"]
      /\ upload' = [upload EXCEPT ![r] = NoUpload]
      /\ UNCHANGED <<files, parts, clash>>
      /\ \/ cut' = cut \cup {Name(r)}
         \/ cut' = cut /\ (pc[r] = "open" \/ ~parts[Name(r)].there)
  BY DEF OpenFails, RecheckRefuses, RenameFails, Leave, Goto, Without, RestUnchanged
<1>2. /\ Busy(r) /\ ~Busy(r)'
      /\ \A q \in Requests \ {r} : pc'[q] = pc[q] /\ upload'[q] = upload[q]
  BY <1>1 DEF Busy, Sound, StorageTypeOK
<1>3. OtherNames(r)
  BY <1>1, <1>2 DEF OtherNames, Name
<1>4. Name(r) \notin clash => IsWhole(files'[Name(r)])
  BY <1>1, <1>2, BusyName DEF IsWhole, Whole, FilesAreWhole
<1>5. Name(r) \notin clash /\ Name(r) \notin cut' => ~parts'[Name(r)].there
  BY <1>1, <1>2 DEF Whole, OwnPart, OwnBytes
<1>6. QED
  BY <1>1, <1>2, <1>3, <1>4, <1>5, UploadStep_Whole DEF IsWhole

LEMMA RenameUpload_Whole ==
  ASSUME Sound, Whole, NEW r \in Requests, RenameUpload(r)
  PROVE  Whole'
<1> DEFINE n == Name(r)
<1>1. /\ pc[r] = "rename" /\ pc' = [pc EXCEPT ![r] = "idle"]
      /\ n \in Names /\ parts[n].there
      /\ files' = [files EXCEPT ![n] = parts[n]]
      /\ parts' = [parts EXCEPT ![n] = NoFile]
      /\ UNCHANGED <<clash, cut>>
      /\ \A q \in Requests \ {r} :
           /\ upload'[q].name = Name(q) /\ upload'[q].overwrite = upload[q].overwrite
           /\ Name(q) # n => upload'[q].place = upload[q].place
  BY RenameUpload_Sound
<1>2. Busy(r) /\ ~Busy(r)' /\ \A q \in Requests \ {r} : pc'[q] = pc[q]
  BY <1>1 DEF Busy, Sound, StorageTypeOK
<1>3. /\ \A m \in Names \ {n} : parts'[m] = parts[m] /\ files'[m] = files[m]
      /\ parts'[n] = NoFile /\ files'[n] = parts[n]
  BY <1>1 DEF Sound, StorageTypeOK
<1>4. OtherNames(r)
  BY <1>1, <1>2, <1>3 DEF OtherNames
<1>5. n \notin clash => IsWhole(files'[n])
  BY <1>1, <1>2, <1>3 DEF IsWhole, Whole, OwnPart, OwnBytes, Ended
<1>6. QED
  BY <1>1, <1>2, <1>3, <1>4, <1>5, ContentFacts, UploadStep_Whole

(* A new upload: the name is nobody else's, or is clashed over from now on.*)
LEMMA UploadBegin_Whole ==
  ASSUME Sound, Whole, NEW r \in Requests, UploadBegin(r)
  PROVE  Whole'
<1>1. PICK n \in Names, length \in 1..(MaxUpload + 1), declared \in BOOLEAN,
           overwrite \in BOOLEAN :
        /\ upload' = [upload EXCEPT ![r] =
             [NoUpload EXCEPT !.name = n, !.length = length,
                              !.declared = declared, !.overwrite = overwrite]]
        /\ clash' = IF \E q \in Requests \ {r} : Name(q) = n THEN clash \cup {n} ELSE clash
  BY Zenon DEF UploadBegin
<1>2. /\ pc[r] = "idle" /\ pc' = [pc EXCEPT ![r] = "unlink"]
      /\ UNCHANGED <<files, parts, cut>>
  BY DEF UploadBegin, Enter
<1>3. /\ pc'[r] = "unlink" /\ upload'[r].name = n
      /\ \A q \in Requests \ {r} : pc'[q] = pc[q] /\ upload'[q] = upload[q]
  BY <1>1, <1>2 DEF Sound, StorageTypeOK, NoUpload
<1>4. upload'[r].place = "nowhere"
  <2>1. UploadBegin(r) => Sound'
    BY UploadBegin_Sound
  <2>2. QED
    BY <1>3, <2>1 DEF Sound, Unplaced
<1>5. /\ clash \subseteq clash'
      /\ n \notin clash' => \A q \in Requests \ {r} : Name(q) # n
  BY <1>1
<1>6. OwnPart'
  <2> SUFFICES ASSUME NEW q \in Requests, Busy(q)', upload'[q].name \notin clash'
               PROVE  /\ \A p \in Requests : Busy(p)' /\ upload'[p].name = upload'[q].name => p = q
                      /\ OwnBytes(q)'
    BY DEF OwnPart, Name
  <2>1. CASE q = r
    BY <1>3, <1>4, <1>5, <2>1 DEF OwnBytes, Ended, Name
  <2>2. CASE q # r
    <3>1. Busy(q) /\ Name(q) \notin clash /\ upload'[q] = upload[q] /\ pc'[q] = pc[q]
      BY <1>3, <1>5, <2>2 DEF Busy, Name
    <3>2. Name(q) # n
      BY <1>5, <2>2, <3>1 DEF Name
    <3>3. \A p \in Requests : Busy(p)' /\ upload'[p].name = Name(q) => p = q
      BY <1>3, <3>1, <3>2 DEF Whole, OwnPart, Busy, Name
    <3>4. OwnBytes(q)'
      BY <1>2, <3>1 DEF Whole, OwnPart, OwnBytes, Name
    <3>5. QED
      BY <3>1, <3>3, <3>4 DEF Name
  <2>3. QED
    BY <2>1, <2>2
<1>7. PartsAreNeeded'
  <2> SUFFICES ASSUME NEW m \in Names, m \notin clash', m \notin cut', parts'[m].there
               PROVE  \E q \in Requests : Busy(q)' /\ upload'[q].name = m
    BY DEF PartsAreNeeded, Name
  <2>1. PICK q \in Requests : Busy(q) /\ Name(q) = m
    BY <1>2, <1>5 DEF Whole, PartsAreNeeded
  <2>2. q # r
    BY <1>2, <2>1 DEF Busy
  <2>3. QED
    BY <1>3, <2>1, <2>2 DEF Busy, Name
<1>8. FilesAreWhole'
  BY <1>2, <1>5 DEF Whole, FilesAreWhole
<1>9. QED
  BY <1>6, <1>7, <1>8 DEF Whole

(* What is deleted is not there any more.                                  *)
LEMMA Deleted_Whole ==
  ASSUME Sound, Whole, NEW n \in Names, DeleteFile(n) \/ DeletePart(n)
  PROVE  Whole'
<1>1. /\ UNCHANGED <<pc, clash>>
      /\ \A m \in cut : m \in cut' \/ ~parts'[m].there
      /\ \A m \in Names :
           /\ files'[m] = files[m] \/ ~files'[m].there
           /\ parts'[m] = parts[m] \/ ~parts'[m].there
  BY ContentFacts
     DEF DeleteFile, DeletePart, workerVars, RestUnchanged, Sound, StorageTypeOK
<1>2. ASSUME NEW q \in Requests
      PROVE  /\ upload'[q].name = Name(q) /\ upload'[q].overwrite = upload[q].overwrite
             /\ upload[q].place # "file" => upload'[q].place # "file"
             /\ parts[Name(q)].there /\ parts'[Name(q)].there /\ Name(q) \in Names
                  /\ upload[q].place = "part" => upload'[q].place = "part"
  <2>1. CASE DeleteFile(n)
    <3>1. UNCHANGED parts
      BY <2>1 DEF DeleteFile
    <3>2. QED
      BY <2>1, <3>1, DeleteFile_Sound
  <2>2. CASE DeletePart(n)
    <3> DEFINE moved == Moved(n, "part", "nowhere")
    <3>1. upload' = [p \in Requests |-> moved[p]] /\ parts' = [parts EXCEPT ![n] = NoFile]
      BY <2>2 DEF DeletePart, Moved
    <3>2. upload'[q] = moved[q]
      BY <3>1
    <3>3. Name(q) = n => ~parts'[Name(q)].there
      BY <3>1, ContentFacts DEF Sound, StorageTypeOK
    <3>4. QED
      BY <3>2, <3>3, MovedUploads
  <2>3. QED
    BY <2>1, <2>2
<1>3. OwnPart'
  <2> SUFFICES ASSUME NEW q \in Requests, Busy(q)', upload'[q].name \notin clash'
               PROVE  /\ \A p \in Requests : Busy(p)' /\ upload'[p].name = upload'[q].name => p = q
                      /\ OwnBytes(q)'
    BY DEF OwnPart, Name
  <2>1. Busy(q) /\ Name(q) \notin clash /\ Name(q) \in Names
    BY <1>1, <1>2, BusyName DEF Busy
  <2>2. \A p \in Requests : Busy(p)' /\ upload'[p].name = upload'[q].name => p = q
    BY <1>1, <1>2, <2>1 DEF Whole, OwnPart, Busy
  <2>3. OwnBytes(q)
    BY <2>1 DEF Whole, OwnPart
  <2>4. upload'[q].place # "file" /\ pc'[q] = pc[q]
    BY <1>1, <1>2, <2>3 DEF OwnBytes
  <2>5. pc'[q] = "open" => ~parts'[Name(q)].there
    BY <1>1, <2>1, <2>3 DEF OwnBytes
  <2>6. /\ pc'[q] \in {"copy"} \cup Ended /\ parts'[Name(q)].there =>
             upload'[q].place = "part" /\ ~parts'[Name(q)].mixed
        /\ pc'[q] \in Ended /\ parts'[Name(q)].there => parts'[Name(q)].ended
    BY <1>1, <1>2, <2>1, <2>3 DEF OwnBytes
  <2>7. pc'[q] = "rename" /\ files'[Name(q)].there => upload'[q].overwrite
    BY <1>1, <1>2, <2>1, <2>3 DEF OwnBytes
  <2>8. QED
    BY <1>2, <2>2, <2>4, <2>5, <2>6, <2>7 DEF OwnBytes, Name
<1>4. PartsAreNeeded'
  <2> SUFFICES ASSUME NEW m \in Names, m \notin clash', m \notin cut', parts'[m].there
               PROVE  \E q \in Requests : Busy(q)' /\ upload'[q].name = m
    BY DEF PartsAreNeeded, Name
  <2>1. PICK q \in Requests : Busy(q) /\ Name(q) = m
    BY <1>1 DEF Whole, PartsAreNeeded
  <2>2. QED
    BY <1>1, <1>2, <2>1 DEF Busy
<1>5. FilesAreWhole'
  BY <1>1 DEF Whole, FilesAreWhole
<1>6. QED
  BY <1>3, <1>4, <1>5 DEF Whole

LEMMA StorageCrash_Whole ==
  ASSUME Sound, Whole, StorageCrash
  PROVE  Whole'
<1>1. /\ pc' = [r \in Requests |-> "idle"]
      /\ UNCHANGED <<files, parts, clash>>
      /\ cut' = cut \cup {n \in Names : \E r \in Requests : Name(r) = n}
  BY DEF StorageCrash, AllStop
<1>2. OwnPart'
  BY <1>1 DEF OwnPart, Busy
<1>3. PartsAreNeeded'
  BY <1>1 DEF Whole, PartsAreNeeded, Busy
<1>4. FilesAreWhole'
  BY <1>1 DEF Whole, FilesAreWhole
<1>5. QED
  BY <1>2, <1>3, <1>4 DEF Whole

-----------------------------------------------------------------------------
StorageInv == Sound /\ Whole

LEMMA StorageStep_Inv == StorageInv /\ [StorageNext]_storageVars => StorageInv'
<1> SUFFICES ASSUME Sound, Whole, [StorageNext]_storageVars
             PROVE  Sound' /\ Whole'
  BY DEF StorageInv
<1>1. ASSUME NEW r \in Requests, UploadBegin(r)
      PROVE  Sound' /\ Whole'
  BY <1>1, UploadBegin_Sound, UploadBegin_Whole
<1>2. ASSUME NEW r \in Requests, UnlinkPart(r)
      PROVE  Sound' /\ Whole'
  BY <1>2, UnlinkPart_Removed, Removed_Sound, UnlinkPart_Whole
<1>3. ASSUME NEW r \in Requests, OpenPart(r)
      PROVE  Sound' /\ Whole'
  BY <1>3, OpenPart_Sound, OpenPart_Whole
<1>4. ASSUME NEW r \in Requests, CopyChunk(r)
      PROVE  Sound' /\ Whole'
  <2>1. pc' = [pc EXCEPT ![r] = "copy"]
    BY <1>4, CopyChunk_Upload DEF Sound, StorageTypeOK
  <2>2. Sound'
    BY <1>4, <2>1, CopyChunk_Wrote, CopyChunk_Upload, Wrote_Sound
  <2>3. QED
    BY <1>4, <2>2, CopyChunk_Whole
<1>5. ASSUME NEW r \in Requests, EndOfStream(r)
      PROVE  Sound' /\ Whole'
  <2>1. Sound'
    <3>1. upload[r].written <= upload[r].length /\ upload' = upload
      BY <1>5, EndOfStream_Wrote DEF Sound, UploadsTyped, Busy
    <3>2. QED
      BY <1>5, <3>1, EndOfStream_Wrote, Wrote_Sound DEF Sound, StorageTypeOK, Name
  <2>2. QED
    BY <1>5, <2>1, EndOfStream_Whole
<1>6. ASSUME NEW r \in Requests, StreamFails(r) \/ RefuseOverwrite(r)
      PROVE  Sound' /\ Whole'
  BY <1>6, EndsRemoving, Removed_Sound, EndsRemoving_Whole
<1>7. ASSUME NEW r \in Requests, Recheck(r) \/ LookForTarget(r)
      PROVE  Sound' /\ Whole'
  BY <1>7, Asking_Sound, Asking_Whole
<1>8. ASSUME NEW r \in Requests, OpenFails(r) \/ RecheckRefuses(r) \/ RenameFails(r)
      PROVE  Sound' /\ Whole'
  BY <1>8, Ending_Sound, Ending_Whole
<1>9. ASSUME NEW r \in Requests, RenameUpload(r)
      PROVE  Sound' /\ Whole'
  BY <1>9, RenameUpload_Sound, RenameUpload_Whole
<1>10. ASSUME NEW n \in Names, DeleteFile(n) \/ DeletePart(n)
       PROVE  Sound' /\ Whole'
  BY <1>10, DeleteFile_Sound, DeletePart_Removed, Removed_Sound, Deleted_Whole
<1>11. CASE StorageCrash
  BY <1>11, StorageCrash_Sound, StorageCrash_Whole
<1>12. CASE UNCHANGED storageVars \/ \E n \in Names : DeleteFolder(n)
  <2>1. /\ UNCHANGED <<pc, overlapped, files, parts, upload, clash, undeclared, cut>>
        /\ folders' \subseteq folders
    BY <1>12 DEF storageVars, workerVars, DeleteFolder
  <2>2. Sound'
    BY <2>1 DEF Sound, StorageTypeOK, UploadsTyped, PlacesAreThere, Unplaced, Busy, Name
  <2>3. Whole'
    BY <2>1 DEF Whole, OwnPart, OwnBytes, PartsAreNeeded, FilesAreWhole, Busy, Name
  <2>4. QED
    BY <2>2, <2>3
<1>13. QED
  BY <1>1, <1>2, <1>3, <1>4, <1>5, <1>6, <1>7, <1>8, <1>9, <1>10, <1>11, <1>12
     DEF StorageNext

-----------------------------------------------------------------------------
(* Sums over finite sets, by induction on a set of counterexamples.        *)
(* A set of numbers that has 0, and with a number the next one.            *)
LEMMA NatInduct ==
  ASSUME NEW T, 0 \in T, \A n \in Nat : n \in T => n + 1 \in T
  PROVE  Nat \subseteq T
<1>1. SUFFICES ASSUME Nat \ T # {} PROVE FALSE
  OBVIOUS
<1>2. PICK m \in Nat \ T : \A k \in Nat \ T : <<k, m>> \notin OpToRel(<, Nat)
  BY <1>1, NatLessThanWellFounded, WFMin, Zenon
<1>3. m # 0 /\ m - 1 \in Nat /\ m = (m - 1) + 1
  OBVIOUS
<1>4. <<m - 1, m>> \in OpToRel(<, Nat)
  BY <1>2, <1>3 DEF OpToRel
<1>5. m - 1 \in T
  BY <1>2, <1>3, <1>4
<1>6. QED
  BY <1>2, <1>3, <1>5

(* A set of subsets that has a set whenever it has what is left of it      *)
(* without any one of its elements.                                        *)
LEMMA SubsetInduct ==
  ASSUME NEW S, IsFiniteSet(S), NEW T,
         \A s \in SUBSET S : (\A x \in s : s \ {x} \in T) => s \in T
  PROVE  \A s \in SUBSET S : s \in T
<1>1. SUFFICES ASSUME (SUBSET S) \ T # {} PROVE FALSE
  OBVIOUS
<1>2. IsWellFoundedOn(StrictSubsetOrdering(S), SUBSET S)
  BY FS_StrictSubsetOrderingWellFounded, FS_FiniteSubsetsOfFinite
<1>3. PICK m \in (SUBSET S) \ T :
        \A k \in (SUBSET S) \ T : <<k, m>> \notin StrictSubsetOrdering(S)
  BY <1>1, <1>2, WFMin, Zenon
<1>4. ASSUME NEW x \in m
      PROVE  m \ {x} \in T
  <2>1. <<m \ {x}, m>> \in StrictSubsetOrdering(S)
    BY <1>3, <1>4 DEF StrictSubsetOrdering
  <2>2. QED
    BY <1>3, <2>1
<1>5. QED
  BY <1>3, <1>4

SumOf(h, S) == MapThenSumSet(LAMBDA x : h[x], S)

Pick(s) == CHOOSE x \in s : TRUE

(* g sums up h over the sets it is given.                                  *)
SumsUp(g, h, D) ==
  g = [s \in D |-> IF s = {} THEN 0 ELSE h[Pick(s)] + g[s \ {Pick(s)}]]

Sums(h, S) == CHOOSE g : SumsUp(g, h, SUBSET S)

LEMMA SumIsLast == ASSUME NEW h, NEW S PROVE SumOf(h, S) = Sums(h, S)[S]
  BY DEF SumOf, MapThenSumSet, MapThenFoldSet, Sums, SumsUp, Pick

LEMMA Picked ==
  ASSUME NEW S, IsFiniteSet(S), NEW s \in SUBSET S, s # {}
  PROVE  /\ Pick(s) \in s /\ s \ {Pick(s)} \in SUBSET S
         /\ IsFiniteSet(s) /\ IsFiniteSet(s \ {Pick(s)})
         /\ Cardinality(s) \in Nat
         /\ Cardinality(s \ {Pick(s)}) = Cardinality(s) - 1
<1>1. Pick(s) \in s
  BY DEF Pick
<1>2. IsFiniteSet(s)
  BY FS_Subset
<1>3. QED
  BY <1>1, <1>2, FS_RemoveElement, FS_CardinalityType

(* There is a function that sums up h over all subsets: over those of at   *)
(* most n elements there is, for every n.                                  *)
LEMMA SumsExist ==
  ASSUME NEW S, IsFiniteSet(S), NEW h \in [S -> Nat]
  PROVE  /\ Sums(h, S) \in [SUBSET S -> Nat]
         /\ SumsUp(Sums(h, S), h, SUBSET S)
<1> DEFINE Small(n) == {s \in SUBSET S : Cardinality(s) <= n}
           Have == {n \in Nat : \E g \in [Small(n) -> Nat] : SumsUp(g, h, Small(n))}
<1>1. \A s \in SUBSET S : Cardinality(s) \in Nat /\ Cardinality(s) <= Cardinality(S)
  BY FS_Subset, FS_CardinalityType
<1>2. 0 \in Have
  <2>1. Small(0) = {{}}
    <3>1. \A s \in SUBSET S : Cardinality(s) <= 0 <=> s = {}
      BY <1>1, FS_EmptySet, FS_Subset
    <3>2. QED
      BY <3>1
  <2> DEFINE g == [s \in Small(0) |-> 0]
  <2>2. g \in [Small(0) -> Nat] /\ SumsUp(g, h, Small(0))
    BY <2>1 DEF SumsUp
  <2>3. QED
    BY <2>2
<1>3. ASSUME NEW n \in Nat, n \in Have
      PROVE  n + 1 \in Have
  <2>1. PICK g \in [Small(n) -> Nat] : SumsUp(g, h, Small(n))
    BY <1>3
  <2> DEFINE k == [s \in Small(n + 1) |->
                     IF s = {} THEN 0 ELSE h[Pick(s)] + g[s \ {Pick(s)}]]
  <2>2. ASSUME NEW s \in Small(n + 1), s # {}
        PROVE  /\ Pick(s) \in S
               /\ s \ {Pick(s)} \in Small(n)
               /\ s \ {Pick(s)} \in Small(n + 1)
    <3>1. s \in SUBSET S /\ Cardinality(s) <= n + 1
      OBVIOUS
    <3>2. /\ Pick(s) \in s /\ s \ {Pick(s)} \in SUBSET S
          /\ Cardinality(s) \in Nat
          /\ Cardinality(s \ {Pick(s)}) = Cardinality(s) - 1
      BY <2>2, <3>1, Picked
    <3>3. Cardinality(s \ {Pick(s)}) <= n /\ Cardinality(s \ {Pick(s)}) <= n + 1
      BY <1>3, <3>1, <3>2
    <3>4. QED
      BY <3>1, <3>2, <3>3
  <2>3. k \in [Small(n + 1) -> Nat]
    BY <2>2
  <2>4. ASSUME NEW s \in Small(n)
        PROVE  s \in Small(n + 1) /\ k[s] = g[s]
    <3>1. s \in Small(n + 1)
      BY <1>1, <1>3
    <3>2. g[s] = IF s = {} THEN 0 ELSE h[Pick(s)] + g[s \ {Pick(s)}]
      BY <2>1 DEF SumsUp
    <3>3. QED
      BY <3>1, <3>2
  <2>5. \A s \in Small(n + 1) :
          k[s] = IF s = {} THEN 0 ELSE h[Pick(s)] + k[s \ {Pick(s)}]
    BY <2>2, <2>4
  <2>6. SumsUp(k, h, Small(n + 1))
    BY <2>5 DEF SumsUp
  <2>7. \E f \in [Small(n + 1) -> Nat] : SumsUp(f, h, Small(n + 1))
    BY <2>3, <2>6, Zenon
  <2>8. n + 1 \in Nat
    BY <1>3
  <2>9. QED
    BY <2>7, <2>8, Zenon
<1>4. Cardinality(S) \in Have
  BY <1>2, <1>3, NatInduct, FS_CardinalityType
<1>5. Small(Cardinality(S)) = SUBSET S
  BY <1>1
<1>6. \E g : SumsUp(g, h, SUBSET S)
  BY <1>4, <1>5
<1>7. SumsUp(Sums(h, S), h, SUBSET S)
  BY <1>6 DEF Sums
<1> DEFINE Natural == {s \in SUBSET S : Sums(h, S)[s] \in Nat}
<1>8. ASSUME NEW s \in SUBSET S, \A x \in s : s \ {x} \in Natural
      PROVE  s \in Natural
  <2>1. Sums(h, S)[s] = IF s = {} THEN 0 ELSE h[Pick(s)] + Sums(h, S)[s \ {Pick(s)}]
    BY <1>7 DEF SumsUp
  <2>2. CASE s = {}
    BY <2>1, <2>2
  <2>3. CASE s # {}
    <3>1. Pick(s) \in s
      BY <2>3, Picked
    <3>2. h[Pick(s)] \in Nat /\ Sums(h, S)[s \ {Pick(s)}] \in Nat
      BY <1>8, <3>1
    <3>3. QED
      BY <2>1, <2>3, <3>2
  <2>4. QED
    BY <2>2, <2>3
<1>9. \A s \in SUBSET S : s \in Natural
  <2> HIDE DEF Natural
  <2>1. QED
    BY <1>8, SubsetInduct
<1>10. QED
  BY <1>7, <1>9 DEF SumsUp

LEMMA SumIsNat ==
  ASSUME NEW S, IsFiniteSet(S), NEW h \in [S -> Nat]
  PROVE  SumOf(h, S) \in Nat
<1>1. Sums(h, S) \in [SUBSET S -> Nat]
  BY SumsExist
<1>2. Sums(h, S)[S] \in Nat
  BY <1>1
<1>3. QED
  BY <1>2, SumIsLast

LEMMA SumStep ==
  ASSUME NEW S, IsFiniteSet(S), NEW h \in [S -> Nat], NEW s \in SUBSET S
  PROVE  /\ Sums(h, S)[s] \in Nat
         /\ s = {} => Sums(h, S)[s] = 0
         /\ s # {} => /\ Pick(s) \in s /\ h[Pick(s)] \in Nat
                      /\ Sums(h, S)[s \ {Pick(s)}] \in Nat
                      /\ Sums(h, S)[s] = h[Pick(s)] + Sums(h, S)[s \ {Pick(s)}]
<1>1. s # {} => Pick(s) \in s
  BY DEF Pick
<1>2. /\ Sums(h, S) \in [SUBSET S -> Nat]
      /\ SumsUp(Sums(h, S), h, SUBSET S)
  BY SumsExist
<1>3. Sums(h, S)[s] = IF s = {} THEN 0 ELSE h[Pick(s)] + Sums(h, S)[s \ {Pick(s)}]
  BY <1>2 DEF SumsUp
<1>4. Sums(h, S)[s] \in Nat /\ (s # {} => Sums(h, S)[s \ {Pick(s)}] \in Nat)
  BY <1>2
<1>5. QED
  BY <1>1, <1>3, <1>4

(* Larger summands, a larger sum.                                          *)
LEMMA SumMonotone ==
  ASSUME NEW S, IsFiniteSet(S), NEW h \in [S -> Nat], NEW k \in [S -> Nat],
         \A x \in S : h[x] <= k[x]
  PROVE  SumOf(h, S) <= SumOf(k, S)
<1> DEFINE T == {s \in SUBSET S : Sums(h, S)[s] <= Sums(k, S)[s]}
<1>1. ASSUME NEW s \in SUBSET S, \A x \in s : s \ {x} \in T
      PROVE  s \in T
  <2>1. CASE s = {}
    <3>1. Sums(h, S)[s] = 0 /\ Sums(k, S)[s] = 0
      BY <2>1, SumStep
    <3>2. QED
      BY <2>1, <3>1
  <2>2. CASE s # {}
    <3>1. Pick(s) \in s /\ h[Pick(s)] <= k[Pick(s)]
      BY <2>2, SumStep
    <3>2. Sums(h, S)[s \ {Pick(s)}] <= Sums(k, S)[s \ {Pick(s)}]
      BY <1>1, <3>1
    <3>3. /\ Sums(h, S)[s \ {Pick(s)}] \in Nat /\ Sums(k, S)[s \ {Pick(s)}] \in Nat
          /\ h[Pick(s)] \in Nat /\ k[Pick(s)] \in Nat
          /\ Sums(h, S)[s] = h[Pick(s)] + Sums(h, S)[s \ {Pick(s)}]
          /\ Sums(k, S)[s] = k[Pick(s)] + Sums(k, S)[s \ {Pick(s)}]
      BY <2>2, SumStep
    <3>4. QED
      BY <3>1, <3>2, <3>3
  <2>3. QED
    BY <2>1, <2>2
<1>2. \A s \in SUBSET S : s \in T
  <2> HIDE DEF T
  <2>1. QED
    BY <1>1, SubsetInduct
<1>3. QED
  BY <1>2, SumIsLast

(* One summand changes, and the sum by as much.                            *)
LEMMA SumChanges ==
  ASSUME NEW S, IsFiniteSet(S), NEW h \in [S -> Nat], NEW k \in [S -> Nat],
         NEW y \in S, \A x \in S \ {y} : k[x] = h[x]
  PROVE  SumOf(k, S) + h[y] = SumOf(h, S) + k[y]
<1> DEFINE At(f, s) == IF y \in s THEN f[y] ELSE 0
           T == {s \in SUBSET S : Sums(k, S)[s] + At(h, s) = Sums(h, S)[s] + At(k, s)}
<1>1. ASSUME NEW s \in SUBSET S, \A x \in s : s \ {x} \in T
      PROVE  s \in T
  <2>1. CASE s = {}
    BY <2>1, SumStep
  <2>2. CASE s # {}
    <3> DEFINE rest == s \ {Pick(s)}
    <3>1. /\ Pick(s) \in s
          /\ Sums(h, S)[rest] \in Nat /\ Sums(k, S)[rest] \in Nat
          /\ h[Pick(s)] \in Nat /\ k[Pick(s)] \in Nat
          /\ Sums(h, S)[s] = h[Pick(s)] + Sums(h, S)[rest]
          /\ Sums(k, S)[s] = k[Pick(s)] + Sums(k, S)[rest]
      BY <2>2, SumStep
    <3>2. Sums(k, S)[rest] + At(h, rest) = Sums(h, S)[rest] + At(k, rest)
      BY <1>1, <3>1
    <3>3. h[y] \in Nat /\ k[y] \in Nat
      OBVIOUS
    <3>4. CASE Pick(s) = y
      <4>1. At(h, rest) = 0 /\ At(k, rest) = 0 /\ At(h, s) = h[y] /\ At(k, s) = k[y]
        BY <3>1, <3>4
      <4>2. QED
        BY <3>1, <3>2, <3>3, <3>4, <4>1
    <3>5. CASE Pick(s) # y
      <4>1. At(h, rest) = At(h, s) /\ At(k, rest) = At(k, s)
        BY <3>5
      <4>2. k[Pick(s)] = h[Pick(s)]
        BY <3>1, <3>5
      <4>3. At(h, s) \in Nat /\ At(k, s) \in Nat
        BY <3>3
      <4>4. QED
        BY <3>1, <3>2, <4>1, <4>2, <4>3
    <3>6. QED
      BY <3>4, <3>5
  <2>3. QED
    BY <2>1, <2>2
<1>2. \A s \in SUBSET S : s \in T
  <2> HIDE DEF T
  <2>1. QED
    BY <1>1, SubsetInduct
<1>3. QED
  BY <1>2, SumIsLast

(* Nothing but zeros.                                                      *)
LEMMA SumOfZeros ==
  ASSUME NEW S, IsFiniteSet(S), NEW h \in [S -> Nat], \A x \in S : h[x] = 0
  PROVE  SumOf(h, S) = 0
<1> DEFINE T == {s \in SUBSET S : Sums(h, S)[s] = 0}
<1>1. ASSUME NEW s \in SUBSET S, \A x \in s : s \ {x} \in T
      PROVE  s \in T
  <2>1. CASE s = {}
    BY <2>1, SumStep
  <2>2. CASE s # {}
    <3>1. Pick(s) \in s /\ h[Pick(s)] = 0
      BY <2>2, SumStep
    <3>2. Sums(h, S)[s \ {Pick(s)}] = 0
      BY <1>1, <3>1
    <3>3. QED
      BY <2>2, <3>1, <3>2, SumStep
  <2>3. QED
    BY <2>1, <2>2
<1>2. \A s \in SUBSET S : s \in T
  <2> HIDE DEF T
  <2>1. QED
    BY <1>1, SubsetInduct
<1>3. QED
  BY <1>2, SumIsLast

-----------------------------------------------------------------------------
(* The quota.  An upload is admitted against what is there when it comes,  *)
(* and the sizes change in between: a temporary file is cut short by the   *)
(* next upload of its name and jumps back when the first one writes on.    *)
(* What does not jump is how large the files may yet become: p bounds the  *)
(* temporary file and f the file of each name, uploads that write there    *)
(* included, and c is what an upload not yet writing will add.             *)
Pending(r) == pc[r] \in {"unlink", "open"}

(* The uploads in S are accounted for.                                     *)
Foreseen(S, p, f, c) ==
  /\ p \in [Names -> Nat] /\ f \in [Names -> Nat] /\ c \in [Requests -> Nat]
  /\ \A n \in Names : parts[n].size <= p[n] /\ files[n].size <= f[n]
  /\ \A q \in S :
       /\ Pending(q) => upload[q].length <= c[q]
       /\ upload[q].place = "part" => upload[q].length <= p[Name(q)]
       /\ upload[q].place = "file" => upload[q].length <= f[Name(q)]

Total(p, f, c) == SumOf([n \in Names |-> p[n] + f[n]], Names) + SumOf(c, Requests)

Allowed ==
  IF overlapped THEN Quota + (Cardinality(Requests) - 1) * MaxUpload ELSE Quota

LengthsLimited == \A r \in Requests : upload[r].length <= MaxUpload

QuotaInv ==
  ~undeclared =>
    /\ LengthsLimited
    /\ \E p, f, c : Foreseen(Requests, p, f, c) /\ Total(p, f, c) <= Allowed

LEMMA SizeIsNat ==
  ASSUME NEW x \in Contents \cup {NoFile}
  PROVE  x.size \in Nat
<1>1. CASE x \in Contents
  <2>1. x.size \in 0..MaxUpload
    BY <1>1 DEF Contents
  <2>2. QED
    BY <2>1, StorageAssumption
<1>2. CASE x = NoFile
  BY <1>2 DEF NoFile
<1>3. QED
  BY <1>1, <1>2

LEMMA LengthIsNat ==
  ASSUME NEW u \in UploadRecords \cup {NoUpload}
  PROVE  u.length \in Nat
<1>1. CASE u \in UploadRecords
  <2>1. u.length \in 0..(MaxUpload + 1)
    BY <1>1 DEF UploadRecords
  <2>2. QED
    BY <2>1, StorageAssumption
<1>2. CASE u = NoUpload
  BY <1>2 DEF NoUpload
<1>3. QED
  BY <1>1, <1>2

LEMMA SizesAreNat ==
  /\ Sound => /\ \A n \in Names : parts[n].size \in Nat /\ files[n].size \in Nat
              /\ \A q \in Requests : upload[q].length \in Nat
  /\ Sound' => /\ \A n \in Names : parts'[n].size \in Nat /\ files'[n].size \in Nat
               /\ \A q \in Requests : upload'[q].length \in Nat
  BY SizeIsNat, LengthIsNat DEF Sound, StorageTypeOK

LEMMA UsageIsSum == Usage = SumOf([n \in Names |-> files[n].size + parts[n].size], Names)
  BY DEF Usage, SumOf, MapThenSumSet, MapThenFoldSet

LEMMA TotalIsNat ==
  ASSUME NEW p \in [Names -> Nat], NEW f \in [Names -> Nat], NEW c \in [Requests -> Nat]
  PROVE  /\ SumOf([n \in Names |-> p[n] + f[n]], Names) \in Nat
         /\ SumOf(c, Requests) \in Nat
         /\ Total(p, f, c) \in Nat
<1>1. [n \in Names |-> p[n] + f[n]] \in [Names -> Nat]
  OBVIOUS
<1>2. /\ SumOf([n \in Names |-> p[n] + f[n]], Names) \in Nat
      /\ SumOf(c, Requests) \in Nat
  BY <1>1, SumIsNat, StorageAssumption
<1>3. QED
  BY <1>2 DEF Total

(* What is there now is no more than what is foreseen.                     *)
LEMMA UsageForeseen ==
  ASSUME Sound, NEW S, NEW p, NEW f, NEW c, Foreseen(S, p, f, c)
  PROVE  Usage \in Nat /\ Usage <= Total(p, f, c)
<1> DEFINE now == [n \in Names |-> files[n].size + parts[n].size]
           then == [n \in Names |-> p[n] + f[n]]
<1>1. p \in [Names -> Nat] /\ f \in [Names -> Nat] /\ c \in [Requests -> Nat]
  BY DEF Foreseen
<1>2. \A n \in Names : /\ parts[n].size \in Nat /\ files[n].size \in Nat
                       /\ parts[n].size <= p[n] /\ files[n].size <= f[n]
                       /\ p[n] \in Nat /\ f[n] \in Nat
  BY <1>1, SizesAreNat DEF Foreseen
<1>3. now \in [Names -> Nat] /\ then \in [Names -> Nat] /\ \A n \in Names : now[n] <= then[n]
  BY <1>2
<1> HIDE DEF now, then
<1>4. SumOf(now, Names) \in Nat /\ SumOf(now, Names) <= SumOf(then, Names)
  BY <1>3, SumIsNat, SumMonotone, StorageAssumption
<1>5. Usage = SumOf(now, Names)
  BY UsageIsSum DEF now
<1>6. SumOf(then, Names) \in Nat /\ SumOf(c, Requests) \in Nat
  BY <1>1, TotalIsNat DEF then
<1>7. Total(p, f, c) = SumOf(then, Names) + SumOf(c, Requests)
  BY DEF Total, then
<1>8. QED
  BY <1>4, <1>5, <1>6, <1>7

(* Steps that add nothing to any file and admit no upload.                 *)
Lesser ==
  /\ UNCHANGED <<undeclared, overlapped>>
  /\ \A n \in Names : parts'[n].size <= parts[n].size /\ files'[n].size <= files[n].size
  /\ \A q \in Requests :
       /\ Pending(q)' => Pending(q)
       /\ upload'[q].length <= upload[q].length
       /\ upload'[q].place # "nowhere" =>
            upload'[q].place = upload[q].place /\ upload'[q].name = Name(q)

LEMMA Lesser_Quota ==
  ASSUME Sound, Sound', QuotaInv, Lesser
  PROVE  QuotaInv'
<1> SUFFICES ASSUME ~undeclared'
             PROVE  /\ LengthsLimited'
                    /\ \E p, f, c : Foreseen(Requests, p, f, c)' /\ Total(p, f, c) <= Allowed'
  BY DEF QuotaInv, Total
<1>1. PICK p, f, c : Foreseen(Requests, p, f, c) /\ Total(p, f, c) <= Allowed
  BY DEF QuotaInv, Lesser
<1>2. \A q \in Requests : upload[q].length \in Nat /\ upload'[q].length \in Nat
  BY SizesAreNat
<1>3. LengthsLimited'
  BY <1>2, StorageAssumption DEF QuotaInv, Lesser, LengthsLimited
<1>4. Allowed' = Allowed
  BY DEF Allowed, Lesser
<1>5. ASSUME NEW n \in Names
      PROVE  parts'[n].size <= p[n] /\ files'[n].size <= f[n]
  <2>1. /\ parts[n].size \in Nat /\ files[n].size \in Nat
        /\ parts'[n].size \in Nat /\ files'[n].size \in Nat
    BY SizesAreNat
  <2>2. p[n] \in Nat /\ f[n] \in Nat /\ parts[n].size <= p[n] /\ files[n].size <= f[n]
    BY <1>1 DEF Foreseen
  <2>3. parts'[n].size <= parts[n].size /\ files'[n].size <= files[n].size
    BY DEF Lesser
  <2>4. QED
    BY <2>1, <2>2, <2>3
<1>6. ASSUME NEW q \in Requests
      PROVE  /\ Pending(q)' => upload'[q].length <= c[q]
             /\ upload'[q].place = "part" => upload'[q].length <= p[upload'[q].name]
             /\ upload'[q].place = "file" => upload'[q].length <= f[upload'[q].name]
  <2>1. /\ upload[q].length \in Nat /\ upload'[q].length \in Nat
        /\ upload'[q].length <= upload[q].length
    BY <1>2 DEF Lesser
  <2>2. ASSUME NEW b \in Nat, upload[q].length <= b
        PROVE  upload'[q].length <= b
    BY <2>1, <2>2
  <2>3. Pending(q)' => upload'[q].length <= c[q]
    <3>1. c[q] \in Nat /\ (Pending(q)' => upload[q].length <= c[q])
      BY <1>1 DEF Foreseen, Lesser
    <3>2. QED
      BY <2>2, <3>1
  <2>4. ASSUME upload'[q].place # "nowhere"
        PROVE  /\ upload[q].place = upload'[q].place /\ upload'[q].name = Name(q)
               /\ Name(q) \in Names
    <3>1. upload[q].place = upload'[q].place /\ upload'[q].name = Name(q)
      BY <2>4 DEF Lesser
    <3>2. QED
      BY <2>4, <3>1, PlacedIsBusy DEF UploadRecords, Name
  <2>5. upload'[q].place = "part" => upload'[q].length <= p[upload'[q].name]
    BY <1>1, <2>2, <2>4 DEF Foreseen
  <2>6. upload'[q].place = "file" => upload'[q].length <= f[upload'[q].name]
    BY <1>1, <2>2, <2>4 DEF Foreseen
  <2>7. QED
    BY <2>3, <2>5, <2>6
<1>7. Foreseen(Requests, p, f, c)'
  BY <1>1, <1>5, <1>6 DEF Foreseen, Name
<1>8. QED
  BY <1>1, <1>3, <1>4, <1>7

LEMMA Removed_Lesser ==
  ASSUME Sound, NEW n, Removed(n)
  PROVE  Lesser
<1>1. \A m \in Names : parts'[m].size <= parts[m].size /\ files'[m].size <= files[m].size
  <2> SUFFICES ASSUME NEW m \in Names
               PROVE  parts'[m].size <= parts[m].size /\ files'[m].size <= files[m].size
    OBVIOUS
  <2>1. parts[m].size \in Nat /\ files[m].size \in Nat
    BY SizesAreNat
  <2>2. parts'[m] = IF m = n THEN NoFile ELSE parts[m]
    BY DEF Removed, Sound, StorageTypeOK
  <2>3. NoFile.size = 0 /\ files' = files
    BY DEF Removed, NoFile
  <2>4. QED
    BY <2>1, <2>2, <2>3
<1>2. ASSUME NEW q \in Requests
      PROVE  /\ Pending(q)' => Pending(q)
             /\ upload'[q].length <= upload[q].length
             /\ upload'[q].place # "nowhere" =>
                  upload'[q].place = upload[q].place /\ upload'[q].name = Name(q)
  <2>1. upload[q].length \in Nat
    BY SizesAreNat
  <2>2. CASE pc'[q] = "idle" /\ upload'[q] = NoUpload
    BY <2>1, <2>2, NoUploadFacts DEF NoUpload, Pending
  <2>3. CASE /\ upload'[q] = Moved(n, "part", "nowhere")[q]
             /\ pc'[q] \in {"unlink", "open"} => pc[q] \in {"unlink", "open"}
    <3>1. /\ upload'[q].name = Name(q) /\ upload'[q].length = upload[q].length
          /\ upload'[q].place = IF Name(q) = n /\ upload[q].place = "part"
                                  THEN "nowhere" ELSE upload[q].place
      BY <2>3, MovedUploads
    <3>2. upload'[q].length <= upload[q].length
      BY <2>1, <3>1
    <3>3. QED
      BY <2>3, <3>1, <3>2, Zenon DEF Pending
  <2>4. QED
    BY <2>2, <2>3 DEF Removed
<1>3. QED
  BY <1>1, <1>2 DEF Lesser, Removed

LEMMA DeleteFile_Lesser ==
  ASSUME Sound, NEW n \in Names, DeleteFile(n)
  PROVE  Lesser
<1>1. /\ files' = [files EXCEPT ![n] = NoFile]
      /\ UNCHANGED <<pc, overlapped, parts, undeclared>>
  BY DEF DeleteFile, workerVars, RestUnchanged
<1>2. \A m \in Names : parts'[m].size <= parts[m].size /\ files'[m].size <= files[m].size
  BY <1>1, SizesAreNat DEF NoFile, Sound, StorageTypeOK
<1>3. ASSUME NEW q \in Requests
      PROVE  /\ upload'[q].length <= upload[q].length
             /\ upload'[q].place # "nowhere" =>
                  upload'[q].place = upload[q].place /\ upload'[q].name = Name(q)
  BY DeleteFile_Sound, SizesAreNat
<1>4. QED
  BY <1>1, <1>2, <1>3 DEF Lesser, Pending

(* Steps that change no size and no upload, but where a request is.        *)
LEMMA Ends_Lesser ==
  ASSUME Sound, NEW r \in Requests,
         \/ EndOfStream(r) \/ Recheck(r) \/ LookForTarget(r)
         \/ OpenFails(r) \/ RecheckRefuses(r) \/ RenameFails(r)
  PROVE  Lesser
<1>1. /\ UNCHANGED <<undeclared, overlapped>>
      /\ \E there \in {"idle", "recheck", "exists", "rename"} : pc' = [pc EXCEPT ![r] = there]
      /\ upload' = upload \/ upload' = [upload EXCEPT ![r] = NoUpload]
  BY DEF EndOfStream, Recheck, LookForTarget, OpenFails, RecheckRefuses, RenameFails,
         Leave, Goto, Without, RestUnchanged
<1>2. \A m \in Names : parts'[m].size = parts[m].size /\ files'[m].size = files[m].size
  <2>1. CASE EndOfStream(r)
    BY <2>1, EndOfStream_Wrote
  <2>2. CASE \/ Recheck(r) \/ LookForTarget(r)
             \/ OpenFails(r) \/ RecheckRefuses(r) \/ RenameFails(r)
    BY <2>2 DEF Recheck, LookForTarget, OpenFails, RecheckRefuses, RenameFails
  <2>3. QED
    BY <2>1, <2>2
<1>3. \A m \in Names : parts'[m].size <= parts[m].size /\ files'[m].size <= files[m].size
  BY <1>2, SizesAreNat
<1>4. ASSUME NEW q \in Requests
      PROVE  /\ Pending(q)' => Pending(q)
             /\ upload'[q].length <= upload[q].length
             /\ upload'[q].place # "nowhere" =>
                  upload'[q].place = upload[q].place /\ upload'[q].name = Name(q)
  <2>1. Pending(q)' => Pending(q)
    BY <1>1 DEF Pending, Sound, StorageTypeOK
  <2>2. upload'[q] = upload[q] \/ upload'[q] = NoUpload
    BY <1>1 DEF Sound, StorageTypeOK
  <2>3. upload[q].length \in Nat /\ NoUpload.length = 0
    BY SizesAreNat DEF NoUpload
  <2>4. upload'[q].length <= upload[q].length
    BY <2>2, <2>3
  <2>5. QED
    BY <2>1, <2>2, <2>4, NoUploadFacts, Zenon DEF Name
<1>5. QED
  BY <1>1, <1>3, <1>4 DEF Lesser

LEMMA Stops_Lesser ==
  ASSUME Sound,
         StorageCrash \/ UNCHANGED storageVars \/ \E n \in Names : DeleteFolder(n)
  PROVE  Lesser
<1>1. /\ UNCHANGED <<files, parts, undeclared, overlapped>>
      /\ \/ pc' = pc /\ upload' = upload
         \/ /\ pc' = [q \in Requests |-> "idle"]
            /\ upload' = [q \in Requests |-> NoUpload]
  BY DEF StorageCrash, AllStop, DeleteFolder, storageVars, workerVars
<1>2. \A m \in Names : parts'[m].size <= parts[m].size /\ files'[m].size <= files[m].size
  BY <1>1, SizesAreNat
<1>3. ASSUME NEW q \in Requests
      PROVE  /\ Pending(q)' => Pending(q)
             /\ upload'[q].length <= upload[q].length
             /\ upload'[q].place # "nowhere" =>
                  upload'[q].place = upload[q].place /\ upload'[q].name = Name(q)
  <2>1. Pending(q)' => Pending(q)
    BY <1>1 DEF Pending
  <2>2. upload'[q] = upload[q] \/ upload'[q] = NoUpload
    BY <1>1
  <2>3. upload[q].length \in Nat /\ NoUpload.length = 0
    BY SizesAreNat DEF NoUpload
  <2>4. upload'[q].length <= upload[q].length
    BY <2>2, <2>3
  <2>5. QED
    BY <2>1, <2>2, <2>4, NoUploadFacts, Zenon DEF Name
<1>4. QED
  BY <1>1, <1>2, <1>3 DEF Lesser

(* What is foreseen changes for one name and one upload.                   *)
ShareMoved(n, r, p, f, c, p2, f2, c2) ==
  /\ n \in Names /\ r \in Requests
  /\ p \in [Names -> Nat] /\ f \in [Names -> Nat] /\ c \in [Requests -> Nat]
  /\ p2 \in [Names -> Nat] /\ f2 \in [Names -> Nat] /\ c2 \in [Requests -> Nat]
  /\ \A m \in Names \ {n} : p2[m] = p[m] /\ f2[m] = f[m]
  /\ \A q \in Requests \ {r} : c2[q] = c[q]

LEMMA TotalMoves ==
  ASSUME NEW n, NEW r, NEW p, NEW f, NEW c, NEW p2, NEW f2, NEW c2,
         ShareMoved(n, r, p, f, c, p2, f2, c2)
  PROVE  /\ Total(p2, f2, c2) \in Nat /\ Total(p, f, c) \in Nat
         /\ Total(p2, f2, c2) + p[n] + f[n] + c[r] = Total(p, f, c) + p2[n] + f2[n] + c2[r]
<1>0. /\ n \in Names /\ r \in Requests
      /\ p \in [Names -> Nat] /\ f \in [Names -> Nat] /\ c \in [Requests -> Nat]
      /\ p2 \in [Names -> Nat] /\ f2 \in [Names -> Nat] /\ c2 \in [Requests -> Nat]
      /\ \A m \in Names \ {n} : p2[m] = p[m] /\ f2[m] = f[m]
      /\ \A q \in Requests \ {r} : c2[q] = c[q]
  BY DEF ShareMoved
<1> DEFINE h == [m \in Names |-> p[m] + f[m]]
           k == [m \in Names |-> p2[m] + f2[m]]
<1>1. h \in [Names -> Nat] /\ k \in [Names -> Nat]
  BY <1>0
<1>2. h[n] = p[n] + f[n] /\ k[n] = p2[n] + f2[n] /\ \A m \in Names \ {n} : k[m] = h[m]
  BY <1>0
<1>3. /\ p[n] \in Nat /\ f[n] \in Nat /\ c[r] \in Nat
      /\ p2[n] \in Nat /\ f2[n] \in Nat /\ c2[r] \in Nat
  BY <1>0
<1>4. /\ Total(p2, f2, c2) = SumOf(k, Names) + SumOf(c2, Requests)
      /\ Total(p, f, c) = SumOf(h, Names) + SumOf(c, Requests)
  BY DEF Total
<1> HIDE DEF h, k
<1>5. SumOf(k, Names) + h[n] = SumOf(h, Names) + k[n]
  BY <1>0, <1>1, <1>2, SumChanges, StorageAssumption
<1>6. SumOf(c2, Requests) + c[r] = SumOf(c, Requests) + c2[r]
  BY <1>0, SumChanges, StorageAssumption
<1>7. /\ SumOf(k, Names) \in Nat /\ SumOf(h, Names) \in Nat
      /\ SumOf(c2, Requests) \in Nat /\ SumOf(c, Requests) \in Nat
  BY <1>0, <1>1, SumIsNat, StorageAssumption
<1>8. /\ SumOf(k, Names) + (p[n] + f[n]) = SumOf(h, Names) + (p2[n] + f2[n])
      /\ Total(p2, f2, c2) \in Nat /\ Total(p, f, c) \in Nat
  BY <1>2, <1>4, <1>5, <1>7
<1>9. Total(p2, f2, c2) + ((p[n] + f[n]) + c[r]) = Total(p, f, c) + ((p2[n] + f2[n]) + c2[r])
  <2> DEFINE x == p[n] + f[n]
             y == p2[n] + f2[n]
  <2>1. x \in Nat /\ y \in Nat
    BY <1>3
  <2>2. SumOf(k, Names) + x = SumOf(h, Names) + y
    BY <1>8
  <2> HIDE DEF x, y
  <2>3. Total(p2, f2, c2) + (x + c[r]) = Total(p, f, c) + (y + c2[r])
    BY <1>3, <1>4, <1>6, <1>7, <2>1, <2>2
  <2>4. QED
    BY <2>3 DEF x, y
<1>10. QED
  BY <1>3, <1>8, <1>9

(* The uploads in S can be accounted for on top of what is there now, at   *)
(* the price of the longest upload for each of them.                       *)
LEMMA SomeForeseen ==
  ASSUME Sound, LengthsLimited, NEW S \in SUBSET Requests
  PROVE  \E p, f, c : /\ Foreseen(S, p, f, c)
                      /\ Total(p, f, c) <= Usage + Cardinality(S) * MaxUpload
<1> DEFINE Price(s) == Usage + Cardinality(s) * MaxUpload
           T == {s \in SUBSET Requests :
                   \E p, f, c : Foreseen(s, p, f, c) /\ Total(p, f, c) <= Price(s)}
<1>1. MaxUpload \in Nat /\ IsFiniteSet(Requests) /\ IsFiniteSet(Names)
  BY StorageAssumption
<1>2. {} \in T
  <2> DEFINE p == [n \in Names |-> parts[n].size]
             f == [n \in Names |-> files[n].size]
             c == [q \in Requests |-> 0]
  <2>1. p \in [Names -> Nat] /\ f \in [Names -> Nat] /\ c \in [Requests -> Nat]
    BY SizesAreNat
  <2>2. \A n \in Names : parts[n].size <= p[n] /\ files[n].size <= f[n]
    BY SizesAreNat
  <2>3. Foreseen({}, p, f, c)
    BY <2>1, <2>2 DEF Foreseen
  <2>4. [n \in Names |-> p[n] + f[n]] = [n \in Names |-> files[n].size + parts[n].size]
    BY SizesAreNat
  <2>5. SumOf(c, Requests) = 0
    BY <1>1, <2>1, SumOfZeros
  <2> HIDE DEF p, f, c
  <2>6. Usage \in Nat
    BY <2>3, UsageForeseen
  <2>7. Total(p, f, c) = Usage + SumOf(c, Requests)
    BY <2>4, UsageIsSum DEF Total
  <2>8. Cardinality({}) = 0
    BY FS_EmptySet
  <2>9. Total(p, f, c) <= Price({})
    BY <1>1, <2>5, <2>6, <2>7, <2>8
  <2>10. QED
    BY <2>3, <2>9
<1>3. ASSUME NEW s \in SUBSET Requests, NEW x \in Requests, x \in s, s \ {x} \in T
      PROVE  s \in T
  <2>1. PICK p, f, c : Foreseen(s \ {x}, p, f, c) /\ Total(p, f, c) <= Price(s \ {x})
    BY <1>3
  <2>2. p \in [Names -> Nat] /\ f \in [Names -> Nat] /\ c \in [Requests -> Nat]
    BY <2>1 DEF Foreseen
  <2>3. Price(s) = Price(s \ {x}) + MaxUpload /\ Price(s \ {x}) \in Nat
    <3>1. /\ Cardinality(s) = Cardinality(s \ {x}) + 1
          /\ Cardinality(s \ {x}) \in Nat
      BY <1>1, <1>3, FS_Subset, FS_RemoveElement, FS_CardinalityType
    <3>2. Usage \in Nat
      BY <2>1, UsageForeseen
    <3>3. \A i, m \in Nat : (i + 1) * m = i * m + m /\ i * m \in Nat
      OBVIOUS
    <3>4. /\ Cardinality(s) * MaxUpload = Cardinality(s \ {x}) * MaxUpload + MaxUpload
          /\ Cardinality(s \ {x}) * MaxUpload \in Nat
      BY <1>1, <3>1, <3>3
    <3>5. QED
      BY <1>1, <3>2, <3>4
  <2>4. Total(p, f, c) \in Nat
    BY <2>2, TotalIsNat
  <2>5. upload[x].length \in Nat /\ upload[x].length <= MaxUpload
    BY <1>3, SizesAreNat DEF LengthsLimited
  <2>6. \A q \in s : q = x \/ q \in s \ {x}
    OBVIOUS
  <2>7. \A q \in s : upload[q].place # "nowhere" => Name(q) \in Names
    BY <1>3, PlacedIsBusy DEF UploadRecords, Name
  <2>8. Pending(x) => upload[x].place = "nowhere"
    BY <1>3 DEF Pending, Sound, Unplaced
  <2>9. CASE Name(x) \in Names
    <3> PICK y \in Names : y = Name(x)
      BY <2>9
    <3> DEFINE pp == [p EXCEPT ![y] = IF upload[x].place = "part" THEN @ + MaxUpload ELSE @]
               ff == [f EXCEPT ![y] = IF upload[x].place = "file" THEN @ + MaxUpload ELSE @]
               cc == [c EXCEPT ![x] = IF Pending(x) THEN @ + MaxUpload ELSE @]
    <3>1. /\ p[y] \in Nat /\ f[y] \in Nat /\ c[x] \in Nat
          /\ pp \in [Names -> Nat] /\ ff \in [Names -> Nat] /\ cc \in [Requests -> Nat]
      BY <1>1, <1>3, <2>2, <2>9
    <3>2. PICK p2 \in [Names -> Nat], f2 \in [Names -> Nat], c2 \in [Requests -> Nat] :
            /\ p2[y] = IF upload[x].place = "part" THEN p[y] + MaxUpload ELSE p[y]
            /\ f2[y] = IF upload[x].place = "file" THEN f[y] + MaxUpload ELSE f[y]
            /\ c2[x] = IF Pending(x) THEN c[x] + MaxUpload ELSE c[x]
            /\ \A n \in Names \ {y} : p2[n] = p[n] /\ f2[n] = f[n]
            /\ \A q \in Requests \ {x} : c2[q] = c[q]
      <4>1. /\ pp[y] = IF upload[x].place = "part" THEN p[y] + MaxUpload ELSE p[y]
            /\ ff[y] = IF upload[x].place = "file" THEN f[y] + MaxUpload ELSE f[y]
            /\ cc[x] = IF Pending(x) THEN c[x] + MaxUpload ELSE c[x]
            /\ \A n \in Names \ {y} : pp[n] = p[n] /\ ff[n] = f[n]
            /\ \A q \in Requests \ {x} : cc[q] = c[q]
        BY <1>3, <2>2, <2>9
      <4> HIDE DEF pp, ff, cc
      <4>2. QED
        BY <3>1, <4>1
    <3>3. /\ \A n \in Names : /\ p[n] \in Nat /\ p2[n] \in Nat /\ p[n] <= p2[n]
                             /\ f[n] \in Nat /\ f2[n] \in Nat /\ f[n] <= f2[n]
          /\ \A q \in Requests : c[q] \in Nat /\ c2[q] \in Nat /\ c[q] <= c2[q]
      BY <1>1, <2>2, <3>1, <3>2
    <3>4. Total(p2, f2, c2) <= Price(s)
      <4>1. /\ Total(p2, f2, c2) \in Nat
            /\ Total(p2, f2, c2) + p[y] + f[y] + c[x] = Total(p, f, c) + p2[y] + f2[y] + c2[x]
        <5>1. ShareMoved(y, x, p, f, c, p2, f2, c2)
          BY <2>2, <3>2 DEF ShareMoved
        <5> HIDE DEF pp, ff, cc, T, Price
        <5>2. QED
          BY <5>1, TotalMoves
      <4>2. p2[y] + f2[y] + c2[x] <= p[y] + f[y] + c[x] + MaxUpload
        <5>1. CASE Pending(x)
          BY <1>1, <2>8, <3>1, <3>2, <5>1
        <5>2. CASE ~Pending(x)
          BY <1>1, <3>1, <3>2, <5>2
        <5>3. QED
          BY <5>1, <5>2
      <4>3. p2[y] \in Nat /\ f2[y] \in Nat /\ c2[x] \in Nat
        BY <1>3, <2>9, <3>3
      <4> HIDE DEF Price
      <4>4. QED
        BY <1>1, <2>1, <2>3, <2>4, <3>1, <4>1, <4>2, <4>3
    <3>5. ASSUME NEW n \in Names
          PROVE  parts[n].size <= p2[n] /\ files[n].size <= f2[n]
      <4>1. parts[n].size \in Nat /\ files[n].size \in Nat
        BY SizesAreNat
      <4>2. parts[n].size <= p[n] /\ files[n].size <= f[n]
        BY <2>1 DEF Foreseen
      <4>3. QED
        BY <3>3, <4>1, <4>2
    <3>6. ASSUME NEW q \in s
          PROVE  /\ Pending(q) => upload[q].length <= c2[q]
                 /\ upload[q].place = "part" => upload[q].length <= p2[Name(q)]
                 /\ upload[q].place = "file" => upload[q].length <= f2[Name(q)]
      <4>1. CASE q = x
        BY <1>1, <2>5, <2>9, <3>1, <3>2, <4>1
      <4>2. CASE q # x
        <5>1. /\ Pending(q) => upload[q].length <= c[q]
              /\ upload[q].place = "part" => upload[q].length <= p[Name(q)]
              /\ upload[q].place = "file" => upload[q].length <= f[Name(q)]
          BY <2>1, <4>2 DEF Foreseen
        <5>2. upload[q].length \in Nat
          BY <1>3, SizesAreNat
        <5>3. Pending(q) => upload[q].length <= c2[q]
          BY <1>3, <3>3, <5>1, <5>2
        <5>4. upload[q].place = "part" => upload[q].length <= p2[Name(q)]
          BY <2>7, <3>3, <5>1, <5>2
        <5>5. upload[q].place = "file" => upload[q].length <= f2[Name(q)]
          BY <2>7, <3>3, <5>1, <5>2
        <5>6. QED
          BY <5>3, <5>4, <5>5
      <4>3. QED
        BY <4>1, <4>2
    <3>7. Foreseen(s, p2, f2, c2)
      BY <3>1, <3>5, <3>6 DEF Foreseen
    <3>8. QED
      BY <1>3, <3>4, <3>7
  <2>10. CASE Name(x) \notin Names
    <3>1. upload[x].place \notin {"part", "file"}
      BY <1>3, <2>7, <2>10
    <3>2. ~Pending(x)
      BY <1>3, <2>10 DEF Pending, Sound, UploadsTyped, Busy, UploadRecords, Name
    <3>3. Foreseen(s, p, f, c)
      BY <2>1, <2>6, <3>1, <3>2 DEF Foreseen
    <3>4. Total(p, f, c) <= Price(s)
      BY <1>1, <2>1, <2>3, <2>4
    <3>5. QED
      BY <1>3, <3>3, <3>4
  <2>11. QED
    BY <2>9, <2>10
<1>4. ASSUME NEW s \in SUBSET Requests, \A x \in s : s \ {x} \in T
      PROVE  s \in T
  <2> HIDE DEF T
  <2>1. CASE s = {}
    BY <1>2, <2>1
  <2>2. CASE s # {}
    BY <1>3, <1>4, <2>2
  <2>3. QED
    BY <2>1, <2>2
<1>5. S \in T
  <2> HIDE DEF T
  <2>1. QED
    BY <1>1, <1>4, SubsetInduct
<1>6. QED
  BY <1>5

(* The upload gets its temporary file: what it will add counts there now.  *)
LEMMA OpenPart_Quota ==
  ASSUME Sound, Sound', QuotaInv, NEW r \in Requests, OpenPart(r)
  PROVE  QuotaInv'
<1>1. /\ pc[r] = "open" /\ pc' = [pc EXCEPT ![r] = "copy"]
      /\ UNCHANGED <<files, undeclared, overlapped>>
  BY DEF OpenPart, Goto, RestUnchanged
<1>2. upload[r] \in UploadRecords /\ Name(r) \in Names
  BY <1>1 DEF Sound, UploadsTyped, Busy, UploadRecords, Name
<1> PICK y \in Names : y = Name(r)
  BY <1>2
<1>3. /\ upload'[r].place = "part" /\ upload'[r].name = y
      /\ upload'[r].length = upload[r].length
      /\ \A q \in Requests \ {r} : upload'[q] = upload[q]
  <2>1. /\ upload'[r] = [upload[r] EXCEPT !.place = "part"]
        /\ \A q \in Requests \ {r} : upload'[q] = upload[q]
    BY DEF OpenPart, Sound, StorageTypeOK
  <2>2. QED
    BY <1>2, <2>1, RelocatedTyped DEF Name
<1>4. /\ parts'[y].size = 0
      /\ \A n \in Names \ {y} : parts'[n] = parts[n]
  BY <1>2 DEF OpenPart, NewFile, Sound, StorageTypeOK
<1>5. /\ Pending(r) /\ upload[r].place = "nowhere" /\ ~Pending(r)'
      /\ \A q \in Requests \ {r} : Pending(q)' <=> Pending(q)
  BY <1>1 DEF Pending, Sound, Unplaced, StorageTypeOK
<1> SUFFICES ASSUME ~undeclared'
             PROVE  /\ LengthsLimited'
                    /\ \E p, f, c : Foreseen(Requests, p, f, c)' /\ Total(p, f, c) <= Allowed'
  BY DEF QuotaInv, Total
<1>6. LengthsLimited'
  BY <1>1, <1>3 DEF QuotaInv, LengthsLimited
<1>7. PICK p, f, c : Foreseen(Requests, p, f, c) /\ Total(p, f, c) <= Allowed
  BY <1>1 DEF QuotaInv
<1>8. p \in [Names -> Nat] /\ f \in [Names -> Nat] /\ c \in [Requests -> Nat]
  BY <1>7 DEF Foreseen
<1>9. PICK p2 \in [Names -> Nat], c2 \in [Requests -> Nat] :
        /\ p[y] \in Nat /\ f[y] \in Nat /\ c[r] \in Nat
        /\ p2[y] = p[y] + c[r] /\ c2[r] = 0
        /\ \A n \in Names \ {y} : p2[n] = p[n]
        /\ \A q \in Requests \ {r} : c2[q] = c[q]
  <2> DEFINE p2 == [p EXCEPT ![y] = @ + c[r]]
             c2 == [c EXCEPT ![r] = 0]
  <2>1. /\ p2 \in [Names -> Nat] /\ c2 \in [Requests -> Nat]
        /\ p[y] \in Nat /\ f[y] \in Nat /\ c[r] \in Nat
        /\ p2[y] = p[y] + c[r] /\ c2[r] = 0
        /\ \A n \in Names \ {y} : p2[n] = p[n]
        /\ \A q \in Requests \ {r} : c2[q] = c[q]
    BY <1>8
  <2> HIDE DEF p2, c2
  <2>2. QED
    BY <2>1
<1>10. Total(p2, f, c2) = Total(p, f, c)
  <2>1. /\ Total(p2, f, c2) \in Nat /\ Total(p, f, c) \in Nat
        /\ Total(p2, f, c2) + p[y] + f[y] + c[r] = Total(p, f, c) + p2[y] + f[y] + c2[r]
    <3>1. ShareMoved(y, r, p, f, c, p2, f, c2)
      BY <1>8, <1>9 DEF ShareMoved
    <3>2. QED
      BY <3>1, TotalMoves
  <2>2. QED
    BY <1>9, <2>1
<1>11. ASSUME NEW n \in Names
       PROVE  parts'[n].size <= p2[n] /\ files'[n].size <= f[n]
  <2>1. parts[n].size <= p[n] /\ files[n].size <= f[n]
    BY <1>7 DEF Foreseen
  <2>2. CASE n = y
    BY <1>1, <1>4, <1>9, <2>1, <2>2
  <2>3. CASE n # y
    BY <1>1, <1>4, <1>9, <2>1, <2>3
  <2>4. QED
    BY <2>2, <2>3
<1>12. ASSUME NEW q \in Requests
       PROVE  /\ Pending(q)' => upload'[q].length <= c2[q]
              /\ upload'[q].place = "part" => upload'[q].length <= p2[upload'[q].name]
              /\ upload'[q].place = "file" => upload'[q].length <= f[upload'[q].name]
  <2>1. /\ Pending(q) => upload[q].length <= c[q]
        /\ upload[q].place = "part" => upload[q].length <= p[Name(q)]
        /\ upload[q].place = "file" => upload[q].length <= f[Name(q)]
        /\ upload[q].length \in Nat
    BY <1>7, SizesAreNat DEF Foreseen
  <2>2. CASE q = r
    <3>1. upload[r].length <= p2[y]
      BY <1>5, <1>9, <2>1, <2>2
    <3>2. QED
      BY <1>3, <1>5, <2>2, <3>1
  <2>3. CASE q # r
    <3>1. upload'[q] = upload[q] /\ (Pending(q)' <=> Pending(q)) /\ c2[q] = c[q]
      BY <1>3, <1>5, <1>9, <2>3
    <3>2. ASSUME upload[q].place = "part"
          PROVE  upload[q].length <= p2[Name(q)]
      <4>1. Name(q) \in Names
        BY <3>2, PlacedIsBusy DEF UploadRecords, Name
      <4>2. p[Name(q)] \in Nat
        BY <1>8, <4>1
      <4>3. QED
        BY <1>9, <2>1, <3>2, <4>1, <4>2
    <3>3. QED
      BY <2>1, <3>1, <3>2 DEF Name
  <2>4. QED
    BY <2>2, <2>3
<1>13. Foreseen(Requests, p2, f, c2)'
  BY <1>8, <1>9, <1>11, <1>12 DEF Foreseen, Name
<1>14. Allowed' = Allowed
  BY <1>1 DEF Allowed
<1>15. QED
  BY <1>6, <1>7, <1>10, <1>13, <1>14

(* A chunk stays within what the upload was admitted with.                 *)
LEMMA CopyChunk_Quota ==
  ASSUME Sound, Sound', QuotaInv, NEW r \in Requests, CopyChunk(r)
  PROVE  QuotaInv'
<1> DEFINE y == Name(r)
           size == upload[r].written + 1
<1>1. /\ pc[r] = "copy" /\ upload[r].written < upload[r].length
      /\ upload[r].written < MaxUpload
      /\ parts' = IF upload[r].place = "part"
                    THEN [parts EXCEPT ![y] = Grown(@, size)] ELSE parts
      /\ files' = IF upload[r].place = "file"
                    THEN [files EXCEPT ![y] = Grown(@, size)] ELSE files
  BY DEF CopyChunk, Written
<1>2. /\ UNCHANGED <<pc, overlapped, undeclared>>
      /\ \A q \in Requests : /\ upload'[q].length = upload[q].length
                             /\ upload'[q].name = Name(q) /\ upload'[q].place = upload[q].place
  BY CopyChunk_Upload DEF Name
<1>3. upload[r] \in UploadRecords /\ y \in Names
  BY <1>1 DEF Sound, UploadsTyped, Busy, UploadRecords, Name
<1>4. size \in Nat /\ upload[r].length \in Nat /\ size <= upload[r].length
  <2>1. upload[r].written \in Nat /\ upload[r].length \in Nat
    BY <1>3, StorageAssumption, SizesAreNat DEF UploadRecords
  <2>2. QED
    BY <1>1, <2>1
<1> HIDE DEF y, size
<1> SUFFICES ASSUME ~undeclared'
             PROVE  /\ LengthsLimited'
                    /\ \E p, f, c : Foreseen(Requests, p, f, c)' /\ Total(p, f, c) <= Allowed'
  BY DEF QuotaInv, Total
<1>5. LengthsLimited'
  BY <1>2 DEF QuotaInv, LengthsLimited
<1>6. PICK p, f, c : Foreseen(Requests, p, f, c) /\ Total(p, f, c) <= Allowed
  BY <1>2 DEF QuotaInv
<1>7. ASSUME NEW content, content.size \in Nat, NEW b \in Nat, content.size <= b,
             upload[r].length <= b
      PROVE  Grown(content, size).size <= b \/ Grown(content, size) = content
  <2>1. Max({content.size, size}) <= b
    BY <1>4, <1>7, MaxOfTwo
  <2>2. CASE Grown(content, size) # content
    BY <2>1, <2>2 DEF Grown
  <2>3. QED
    BY <2>2
<1>8. ASSUME NEW n \in Names
      PROVE  parts'[n].size <= p[n] /\ files'[n].size <= f[n]
  <2>1. /\ parts[n].size <= p[n] /\ files[n].size <= f[n]
        /\ parts[n].size \in Nat /\ files[n].size \in Nat
        /\ p[n] \in Nat /\ f[n] \in Nat
    BY <1>6, SizesAreNat DEF Foreseen
  <2>2. parts'[n].size <= p[n]
    <3>1. CASE upload[r].place = "part" /\ n = y
      <4>1. upload[r].length <= p[n]
        BY <1>6, <3>1 DEF Foreseen, y
      <4>2. parts'[n] = Grown(parts[n], size)
        BY <1>1, <3>1 DEF Sound, StorageTypeOK
      <4>3. QED
        BY <1>7, <2>1, <4>1, <4>2
    <3>2. CASE ~(upload[r].place = "part" /\ n = y)
      BY <1>1, <2>1, <3>2 DEF Sound, StorageTypeOK
    <3>3. QED
      BY <3>1, <3>2
  <2>3. files'[n].size <= f[n]
    <3>1. CASE upload[r].place = "file" /\ n = y
      <4>1. upload[r].length <= f[n]
        BY <1>6, <3>1 DEF Foreseen, y
      <4>2. files'[n] = Grown(files[n], size)
        BY <1>1, <3>1 DEF Sound, StorageTypeOK
      <4>3. QED
        BY <1>7, <2>1, <4>1, <4>2
    <3>2. CASE ~(upload[r].place = "file" /\ n = y)
      BY <1>1, <2>1, <3>2 DEF Sound, StorageTypeOK
    <3>3. QED
      BY <3>1, <3>2
  <2>4. QED
    BY <2>2, <2>3
<1>9. Foreseen(Requests, p, f, c)'
  BY <1>2, <1>6, <1>8 DEF Foreseen, Name, Pending
<1>10. Allowed' = Allowed
  BY <1>2 DEF Allowed
<1>11. QED
  BY <1>5, <1>6, <1>9, <1>10

(* What is foreseen for the temporary file is now foreseen for the file,   *)
(* and what was foreseen for the file that is gone is foreseen no more.    *)
LEMMA RenameUpload_Quota ==
  ASSUME Sound, Sound', QuotaInv, NEW r \in Requests, RenameUpload(r)
  PROVE  QuotaInv'
<1>1. /\ pc[r] = "rename" /\ pc' = [pc EXCEPT ![r] = "idle"]
      /\ Name(r) \in Names
      /\ files' = [files EXCEPT ![Name(r)] = parts[Name(r)]]
      /\ parts' = [parts EXCEPT ![Name(r)] = NoFile]
      /\ UNCHANGED <<undeclared, overlapped>>
      /\ upload'[r] = NoUpload
      /\ \A q \in Requests \ {r} :
           /\ upload'[q].name = Name(q) /\ upload'[q].length = upload[q].length
           /\ upload'[q].place = IF Name(q) # Name(r) THEN upload[q].place
                                 ELSE IF upload[q].place = "part" THEN "file" ELSE "nowhere"
  BY RenameUpload_Sound
<1> PICK y \in Names : y = Name(r)
  BY <1>1
<1> SUFFICES ASSUME ~undeclared'
             PROVE  /\ LengthsLimited'
                    /\ \E p, f, c : Foreseen(Requests, p, f, c)' /\ Total(p, f, c) <= Allowed'
  BY DEF QuotaInv, Total
<1>2. LengthsLimited'
  <2>1. NoUpload.length <= MaxUpload
    BY StorageAssumption DEF NoUpload
  <2>2. QED
    BY <1>1, <2>1 DEF QuotaInv, LengthsLimited
<1>3. PICK p, f, c : Foreseen(Requests, p, f, c) /\ Total(p, f, c) <= Allowed
  BY <1>1 DEF QuotaInv
<1>4. p \in [Names -> Nat] /\ f \in [Names -> Nat] /\ c \in [Requests -> Nat]
  BY <1>3 DEF Foreseen
<1>5. PICK p2 \in [Names -> Nat], f2 \in [Names -> Nat] :
        /\ p[y] \in Nat /\ f[y] \in Nat
        /\ p2[y] = 0 /\ f2[y] = p[y]
        /\ \A n \in Names \ {y} : p2[n] = p[n] /\ f2[n] = f[n]
  <2> DEFINE pp == [p EXCEPT ![y] = 0]
             ff == [f EXCEPT ![y] = p[y]]
  <2>1. /\ pp \in [Names -> Nat] /\ ff \in [Names -> Nat]
        /\ p[y] \in Nat /\ f[y] \in Nat
        /\ pp[y] = 0 /\ ff[y] = p[y]
        /\ \A n \in Names \ {y} : pp[n] = p[n] /\ ff[n] = f[n]
    BY <1>4
  <2> HIDE DEF pp, ff
  <2>2. QED
    BY <2>1
<1>6. Total(p2, f2, c) <= Total(p, f, c)
  <2>1. /\ Total(p2, f2, c) \in Nat /\ Total(p, f, c) \in Nat
        /\ Total(p2, f2, c) + p[y] + f[y] + c[r] = Total(p, f, c) + p2[y] + f2[y] + c[r]
    <3>1. ShareMoved(y, r, p, f, c, p2, f2, c)
      BY <1>4, <1>5 DEF ShareMoved
    <3>2. QED
      BY <3>1, TotalMoves
  <2>2. c[r] \in Nat
    BY <1>4
  <2>3. QED
    BY <1>5, <2>1, <2>2
<1>7. ASSUME NEW n \in Names
      PROVE  parts'[n].size <= p2[n] /\ files'[n].size <= f2[n]
  <2>1. parts[n].size <= p[n] /\ files[n].size <= f[n]
    BY <1>3 DEF Foreseen
  <2>2. CASE n = y
    <3>1. parts'[n] = NoFile /\ files'[n] = parts[n] /\ NoFile.size = 0
      BY <1>1, <2>2 DEF NoFile, Sound, StorageTypeOK
    <3>2. QED
      BY <1>5, <2>1, <2>2, <3>1
  <2>3. CASE n # y
    <3>1. parts'[n] = parts[n] /\ files'[n] = files[n]
      BY <1>1, <2>3 DEF Sound, StorageTypeOK
    <3>2. QED
      BY <1>5, <2>1, <2>3, <3>1
  <2>4. QED
    BY <2>2, <2>3
<1>8. ASSUME NEW q \in Requests
      PROVE  /\ Pending(q)' => upload'[q].length <= c[q]
             /\ upload'[q].place = "part" => upload'[q].length <= p2[upload'[q].name]
             /\ upload'[q].place = "file" => upload'[q].length <= f2[upload'[q].name]
  <2>1. /\ Pending(q) => upload[q].length <= c[q]
        /\ upload[q].place = "part" => upload[q].length <= p[Name(q)]
        /\ upload[q].place = "file" => upload[q].length <= f[Name(q)]
    BY <1>3 DEF Foreseen
  <2>2. CASE q = r
    BY <1>1, <2>2, NoUploadFacts DEF Pending, Sound, StorageTypeOK
  <2>3. CASE q # r
    <3>1. /\ upload'[q].name = Name(q) /\ upload'[q].length = upload[q].length
          /\ Pending(q)' <=> Pending(q)
      BY <1>1, <2>3 DEF Pending, Sound, StorageTypeOK
    <3>2. Pending(q)' => upload'[q].length <= c[q]
      BY <2>1, <3>1, Zenon
    <3>3. CASE Name(q) = y
      <4>1. upload'[q].place = IF upload[q].place = "part" THEN "file" ELSE "nowhere"
        BY <1>1, <2>3, <3>3
      <4>2. QED
        BY <1>5, <2>1, <3>1, <3>2, <3>3, <4>1
    <3>4. CASE Name(q) # y
      <4>1. upload'[q].place = upload[q].place
        BY <1>1, <2>3, <3>4
      <4>2. upload[q].place # "nowhere" => Name(q) \in Names
        BY PlacedIsBusy DEF UploadRecords, Name
      <4>3. QED
        BY <1>5, <2>1, <3>1, <3>2, <3>4, <4>1, <4>2
    <3>5. QED
      BY <3>3, <3>4
  <2>4. QED
    BY <2>2, <2>3
<1>9. Foreseen(Requests, p2, f2, c)'
  BY <1>4, <1>5, <1>7, <1>8 DEF Foreseen, Name
<1>10. Allowed' = Allowed /\ Allowed \in Int
  <2>1. Cardinality(Requests) \in Nat /\ Quota \in Nat /\ MaxUpload \in Nat
    BY FS_CardinalityType, StorageAssumption
  <2>2. QED
    BY <1>1, <2>1 DEF Allowed
<1>11. Total(p2, f2, c) <= Allowed'
  <2>1. Total(p2, f2, c) \in Nat /\ Total(p, f, c) \in Nat
    BY <1>4, TotalIsNat
  <2>2. QED
    BY <1>3, <1>6, <1>10, <2>1
<1>12. QED
  BY <1>2, <1>9, <1>11

(* An upload is admitted for what is there now; those under way may have   *)
(* to be accounted for anew.                                               *)
LEMMA UploadBegin_Quota ==
  ASSUME Sound, Sound', QuotaInv, NEW r \in Requests, UploadBegin(r)
  PROVE  QuotaInv'
<1> SUFFICES ASSUME ~undeclared'
             PROVE  /\ LengthsLimited'
                    /\ \E p, f, c : Foreseen(Requests, p, f, c)' /\ Total(p, f, c) <= Allowed'
  BY DEF QuotaInv, Total
<1>1. PICK n \in Names, length \in 1..(MaxUpload + 1), declared \in BOOLEAN,
           overwrite \in BOOLEAN :
        /\ declared => length <= MaxUpload /\ CheckQuota(length)
        /\ upload' = [upload EXCEPT ![r] =
             [NoUpload EXCEPT !.name = n, !.length = length,
                              !.declared = declared, !.overwrite = overwrite]]
        /\ undeclared' = (undeclared \/ ~declared)
  BY Zenon DEF UploadBegin
<1>2. ~undeclared /\ declared
  BY <1>1, Zenon
<1>3. length \in Nat /\ length <= MaxUpload /\ Usage + length <= Quota
  BY <1>1, <1>2, StorageAssumption DEF CheckQuota
<1>4. /\ pc[r] = "idle" /\ pc' = [pc EXCEPT ![r] = "unlink"]
      /\ overlapped' = (overlapped \/ \E q \in Requests \ {r} : pc[q] # "idle")
      /\ UNCHANGED <<files, parts>>
  BY DEF UploadBegin, Enter
<1>5. /\ upload'[r].length = length /\ upload'[r].place = "nowhere"
      /\ \A q \in Requests \ {r} : upload'[q] = upload[q] /\ (Pending(q)' <=> Pending(q))
  BY <1>1, <1>4 DEF NoUpload, Pending, Sound, StorageTypeOK
<1>6. /\ Quota \in Nat /\ MaxUpload \in Nat
      /\ IsFiniteSet(Requests) /\ Cardinality(Requests) \in Nat
  BY StorageAssumption, FS_CardinalityType
<1>7. LengthsLimited
  BY <1>2 DEF QuotaInv
<1>8. LengthsLimited'
  BY <1>3, <1>5, <1>7 DEF LengthsLimited
<1>9. PICK p, f, c : /\ Foreseen(Requests \ {r}, p, f, c)
                     /\ Total(p, f, c) + length <= Allowed'
  <2>1. CASE overlapped'
    <3>1. PICK p, f, c :
            /\ Foreseen(Requests \ {r}, p, f, c)
            /\ Total(p, f, c) <= Usage + Cardinality(Requests \ {r}) * MaxUpload
      <4>1. Requests \ {r} \in SUBSET Requests
        OBVIOUS
      <4>2. QED
        BY <1>7, <4>1, SomeForeseen
    <3>2. Cardinality(Requests \ {r}) = Cardinality(Requests) - 1
      BY <1>6, FS_RemoveElement
    <3>3. Allowed' = Quota + (Cardinality(Requests) - 1) * MaxUpload
      BY <2>1 DEF Allowed
    <3>4. p \in [Names -> Nat] /\ f \in [Names -> Nat] /\ c \in [Requests -> Nat]
      BY <3>1 DEF Foreseen
    <3>5. Total(p, f, c) \in Nat /\ Usage \in Nat
      BY <3>1, <3>4, TotalIsNat, UsageForeseen
    <3>6. (Cardinality(Requests) - 1) * MaxUpload \in Int
      BY <1>6
    <3>7. Total(p, f, c) + length <= Allowed'
      BY <1>3, <1>6, <3>1, <3>2, <3>3, <3>5, <3>6
    <3>8. QED
      BY <3>1, <3>7
  <2>2. CASE ~overlapped'
    <3>1. PICK p, f, c :
            /\ Foreseen({}, p, f, c)
            /\ Total(p, f, c) <= Usage + Cardinality({}) * MaxUpload
      BY <1>7, SomeForeseen
    <3>2. Cardinality({}) = 0
      BY FS_EmptySet
    <3>3. Allowed' = Quota
      BY <2>2 DEF Allowed
    <3>4. p \in [Names -> Nat] /\ f \in [Names -> Nat] /\ c \in [Requests -> Nat]
      BY <3>1 DEF Foreseen
    <3>5. Total(p, f, c) \in Nat /\ Usage \in Nat
      BY <3>1, <3>4, TotalIsNat, UsageForeseen
    <3>6. Total(p, f, c) + length <= Allowed'
      BY <1>3, <1>6, <3>1, <3>2, <3>3, <3>5
    <3>7. \A q \in Requests \ {r} : ~Pending(q) /\ upload[q].place = "nowhere"
      BY <1>4, <2>2, NoUploadFacts DEF Pending, Sound, UploadsTyped, Busy
    <3>8. Foreseen(Requests \ {r}, p, f, c)
      BY <3>1, <3>7 DEF Foreseen
    <3>9. QED
      BY <3>6, <3>8
  <2>3. QED
    BY <2>1, <2>2
<1>10. p \in [Names -> Nat] /\ f \in [Names -> Nat] /\ c \in [Requests -> Nat]
  BY <1>9 DEF Foreseen
<1>11. PICK c2 \in [Requests -> Nat] :
         /\ c[r] \in Nat /\ c2[r] = c[r] + length
         /\ \A q \in Requests \ {r} : c2[q] = c[q]
  <2> DEFINE cc == [c EXCEPT ![r] = @ + length]
  <2>1. /\ cc \in [Requests -> Nat]
        /\ c[r] \in Nat /\ cc[r] = c[r] + length
        /\ \A q \in Requests \ {r} : cc[q] = c[q]
    BY <1>3, <1>10
  <2> HIDE DEF cc
  <2>2. QED
    BY <2>1
<1>12. Total(p, f, c2) = Total(p, f, c) + length
  <2>1. /\ Total(p, f, c2) \in Nat /\ Total(p, f, c) \in Nat
        /\ Total(p, f, c2) + p[n] + f[n] + c[r] = Total(p, f, c) + p[n] + f[n] + c2[r]
    <3>1. ShareMoved(n, r, p, f, c, p, f, c2)
      BY <1>10, <1>11 DEF ShareMoved
    <3>2. QED
      BY <3>1, TotalMoves
  <2>2. p[n] \in Nat /\ f[n] \in Nat
    BY <1>10
  <2>3. QED
    BY <1>3, <1>11, <2>1, <2>2
<1>13. \A m \in Names : parts'[m].size <= p[m] /\ files'[m].size <= f[m]
  BY <1>4, <1>9 DEF Foreseen
<1>14. ASSUME NEW q \in Requests
       PROVE  /\ Pending(q)' => upload'[q].length <= c2[q]
              /\ upload'[q].place = "part" => upload'[q].length <= p[upload'[q].name]
              /\ upload'[q].place = "file" => upload'[q].length <= f[upload'[q].name]
  <2>1. CASE q = r
    <3>1. length <= c2[r]
      BY <1>3, <1>11
    <3>2. QED
      BY <1>5, <2>1, <3>1
  <2>2. CASE q # r
    <3>1. upload'[q] = upload[q] /\ (Pending(q)' <=> Pending(q)) /\ c2[q] = c[q]
      BY <1>5, <1>11, <2>2
    <3>2. /\ Pending(q) => upload[q].length <= c[q]
          /\ upload[q].place = "part" => upload[q].length <= p[Name(q)]
          /\ upload[q].place = "file" => upload[q].length <= f[Name(q)]
      BY <1>9, <2>2 DEF Foreseen
    <3>3. QED
      BY <3>1, <3>2, Zenon DEF Name
  <2>3. QED
    BY <2>1, <2>2
<1>15. Foreseen(Requests, p, f, c2)'
  BY <1>10, <1>11, <1>13, <1>14 DEF Foreseen, Name
<1>16. QED
  BY <1>8, <1>9, <1>12, <1>15

LEMMA StorageInit_Quota == StorageInit => QuotaInv
<1> SUFFICES ASSUME StorageInit
             PROVE  QuotaInv
  OBVIOUS
<1>1. Sound
  BY StorageInit_Sound
<1>2. LengthsLimited
  <2>1. ASSUME NEW r \in Requests
        PROVE  upload[r].length = 0
    BY DEF StorageInit, NoUpload
  <2>2. 0 <= MaxUpload
    BY StorageAssumption
  <2>3. QED
    BY <2>1, <2>2 DEF LengthsLimited
<1>3. PICK p, f, c : /\ Foreseen({}, p, f, c)
                     /\ Total(p, f, c) <= Usage + Cardinality({}) * MaxUpload
  BY <1>1, <1>2, SomeForeseen
<1>4. Usage = 0
  <2> DEFINE h == [n \in Names |-> files[n].size + parts[n].size]
  <2>1. h \in [Names -> Nat] /\ \A n \in Names : h[n] = 0
    BY DEF StorageInit, NoFile
  <2>2. Usage = SumOf(h, Names)
    BY UsageIsSum
  <2> HIDE DEF h
  <2>3. QED
    BY <2>1, <2>2, SumOfZeros, StorageAssumption
<1>5. Total(p, f, c) \in Nat
  BY <1>3, TotalIsNat DEF Foreseen
<1>6. Total(p, f, c) <= Allowed
  <2>1. Allowed = Quota
    BY DEF Allowed, StorageInit, WorkersInit
  <2>2. Cardinality({}) = 0
    BY FS_EmptySet
  <2>3. QED
    BY <1>3, <1>4, <1>5, <2>1, <2>2, StorageAssumption
<1>7. Foreseen(Requests, p, f, c)
  BY <1>3, NoUploadFacts DEF StorageInit, WorkersInit, Foreseen, Pending
<1>8. QED
  BY <1>2, <1>6, <1>7 DEF QuotaInv

LEMMA StorageStep_Quota ==
  ASSUME Sound, Sound', QuotaInv, [StorageNext]_storageVars
  PROVE  QuotaInv'
<1>1. ASSUME NEW r \in Requests, UploadBegin(r) PROVE QuotaInv'
  BY <1>1, UploadBegin_Quota
<1>2. ASSUME NEW r \in Requests, OpenPart(r) PROVE QuotaInv'
  BY <1>2, OpenPart_Quota
<1>3. ASSUME NEW r \in Requests, CopyChunk(r) PROVE QuotaInv'
  BY <1>3, CopyChunk_Quota
<1>4. ASSUME NEW r \in Requests, RenameUpload(r) PROVE QuotaInv'
  BY <1>4, RenameUpload_Quota
<1>5. ASSUME NEW r \in Requests, UnlinkPart(r) \/ StreamFails(r) \/ RefuseOverwrite(r)
      PROVE  QuotaInv'
  BY <1>5, UnlinkPart_Removed, EndsRemoving, Removed_Lesser, Lesser_Quota
<1>6. ASSUME NEW r \in Requests,
             \/ EndOfStream(r) \/ Recheck(r) \/ LookForTarget(r)
             \/ OpenFails(r) \/ RecheckRefuses(r) \/ RenameFails(r)
      PROVE  QuotaInv'
  BY <1>6, Ends_Lesser, Lesser_Quota
<1>7. ASSUME NEW n \in Names, DeleteFile(n) \/ DeletePart(n)
      PROVE  QuotaInv'
  BY <1>7, DeleteFile_Lesser, DeletePart_Removed, Removed_Lesser, Lesser_Quota
<1>8. CASE StorageCrash \/ UNCHANGED storageVars \/ \E n \in Names : DeleteFolder(n)
  BY <1>8, Stops_Lesser, Lesser_Quota
<1>9. QED
  BY <1>1, <1>2, <1>3, <1>4, <1>5, <1>6, <1>7, <1>8 DEF StorageNext

-----------------------------------------------------------------------------
(* Types, places and the files of names nobody clashed over.               *)
THEOREM StorageAlwaysInv == StorageSpec => []StorageInv
<1>1. StorageInit => StorageInv
  BY StorageInit_Sound, StorageInit_Whole DEF StorageInv
<1>2. QED
  BY <1>1, StorageStep_Inv, PTL DEF StorageSpec

(* Whatever uploads, deletes, errors and crashes do to the staging area,   *)
(* a file under its name is the whole of one upload.                       *)
THEOREM FilesStayWhole == StorageSpec => []FilesAreWhole
<1>1. StorageInv => FilesAreWhole
  BY DEF StorageInv, Whole
<1>2. QED
  BY <1>1, StorageAlwaysInv, PTL

(* An upload takes its temporary file along, unless it ends in a crash, at *)
(* the late quota check or in a rename that fails; then the file is gone   *)
(* once the next upload of the name has begun.                             *)
THEOREM TemporariesGo == StorageSpec => []NoTemporaryLeft
<1>1. StorageInv => NoTemporaryLeft
  BY DEF StorageInv, Whole, PartsAreNeeded, NoTemporaryLeft
<1>2. QED
  BY <1>1, StorageAlwaysInv, PTL

(* A file that is replaced was to be replaced: the answer to the question  *)
(* whether there is one is still right when the upload is renamed.         *)
THEOREM UploadsAskBeforeReplacing == StorageSpec => ReplacedOnPurpose
<1>1. ASSUME StorageInv, NEW r \in Requests, RenameUpload(r), files[Name(r)].there
      PROVE  upload[r].overwrite \/ Name(r) \in clash
  <2>1. pc[r] = "rename" /\ Busy(r)
    BY <1>1, RenameUpload_Sound DEF StorageInv, Busy
  <2>2. QED
    BY <1>1, <2>1 DEF StorageInv, Whole, OwnPart, OwnBytes
<1>2. StorageInv =>
        \A r \in Requests :
          RenameUpload(r) /\ files[Name(r)].there =>
            upload[r].overwrite \/ Name(r) \in clash
  BY <1>1
<1>3. QED
  BY <1>2, StorageAlwaysInv, PTL DEF ReplacedOnPurpose

(* With lengths declared the area never holds more than its quota while    *)
(* uploads come one at a time, and with overlapping ones at most as much   *)
(* more as the other threads can have been admitted with.                  *)
THEOREM QuotaHolds == StorageSpec => []QuotaBounded
<1>1. StorageInit => QuotaInv
  BY StorageInit_Quota
<1>2. StorageInv /\ StorageInv' /\ QuotaInv /\ [StorageNext]_storageVars => QuotaInv'
  BY StorageStep_Quota DEF StorageInv
<1>3. StorageInv /\ QuotaInv => QuotaBounded
  <2> SUFFICES ASSUME Sound, QuotaInv, ~undeclared
               PROVE  Usage <= Allowed
    BY DEF StorageInv, QuotaBounded, Allowed
  <2>1. PICK p, f, c : Foreseen(Requests, p, f, c) /\ Total(p, f, c) <= Allowed
    BY DEF QuotaInv
  <2>2. Usage \in Nat /\ Usage <= Total(p, f, c) /\ Total(p, f, c) \in Nat
    BY <2>1, UsageForeseen, TotalIsNat DEF Foreseen
  <2>3. Allowed \in Int
    BY StorageAssumption, FS_CardinalityType DEF Allowed
  <2>4. QED
    BY <2>1, <2>2, <2>3
<1>4. QED
  BY <1>1, <1>2, <1>3, StorageAlwaysInv, PTL DEF StorageSpec
=============================================================================
