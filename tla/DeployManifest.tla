---------------------------- MODULE DeployManifest ----------------------------
(***************************************************************************)
(* The deployment manifest, state/deploy.json                              *)
(* (dashboard/app/services/deploy_manifest.py).  It is one JSON document   *)
(* holding the current record, the previous one (the rollback target) and  *)
(* a capped history.  Every operation is load, modify, replace under one   *)
(* lock, so each is a single action; a load that fails with OSError or     *)
(* ValueError silently yields the empty state, and a write that fails      *)
(* leaves the file as it was.                                              *)
(***************************************************************************)
EXTENDS Revisions, Integers, Sequences

CONSTANT MaxHistory   \* how many records the history keeps (50 in the code)
ASSUME MaxHistoryAssumption == MaxHistory \in Nat \ {0}

VARIABLE manifest

(* A record of one attempt.  tag is the image tag, which the code builds   *)
(* from the sha, and is empty on a failed attempt.                         *)
DeploymentRecord ==
  [sha : Shas, tag : Shas \cup {None}, status : {"active", "failed"}]

ASSUME NoRecordAssumption == None \notin DeploymentRecord

Active(sha, tag) == [sha |-> sha, tag |-> tag, status |-> "active"]
Failed(sha) == [sha |-> sha, tag |-> None, status |-> "failed"]

DeployState ==
  [current : DeploymentRecord \cup {None},
   previous : DeploymentRecord \cup {None},
   history : Seq(DeploymentRecord)]

EmptyState == [current |-> None, previous |-> None, history |-> << >>]

(* What a load can return: the document, or the empty state when the file  *)
(* cannot be read at that moment.                                          *)
Reads == {manifest, EmptyState}

(* Mutant of Remember: the cap lets one record too many through.           *)
RememberOneMore(history, record) ==
  LET all == Append(history, record)
  IN IF Len(all) > MaxHistory + 1 THEN Tail(all) ELSE all

(* state.history.append(record); state.history = state.history[-50:]       *)
Remember(history, record) ==
  LET all == Append(history, record)
  IN IF Len(all) > MaxHistory THEN Tail(all) ELSE all

ManifestInit == manifest = EmptyState

(* record_success: what was current becomes the rollback target.           *)
RecordSuccess(sha, tag) ==
  \E state \in Reads :
    manifest' = [current  |-> Active(sha, tag),
                 previous |-> state.current,
                 history  |-> Remember(state.history, Active(sha, tag))]

(* Mutant of RecordFailure: a failed attempt becomes current.              *)
RecordFailureAsCurrent(sha) ==
  \E state \in Reads :
    manifest' = [state EXCEPT !.current = Failed(sha),
                              !.history = Remember(@, Failed(sha))]

(* Mutant of RecordFailure: the attempt is written as a success.           *)
RecordFailureAsSuccess(sha) == RecordSuccess(sha, sha)

(* record_failure only appends to the history.                             *)
RecordFailure(sha) ==
  \E state \in Reads :
    manifest' = [state EXCEPT !.history = Remember(@, Failed(sha))]

(* Mutant of RollbackToPrevious: the history does not learn of it.         *)
RollbackUnremembered ==
  \/ /\ manifest.previous # None
     /\ manifest' = [manifest EXCEPT
          !.current = Active(manifest.previous.sha, manifest.previous.tag),
          !.previous = None]
  \/ UNCHANGED manifest

(* Mutant of RollbackToPrevious: the rollback target is not used up.       *)
RollbackKeepsTarget ==
  \/ /\ manifest.previous # None
     /\ LET again == Active(manifest.previous.sha, manifest.previous.tag)
        IN manifest' = [manifest EXCEPT !.current = again, !.history = Remember(@, again)]
  \/ UNCHANGED manifest

(* rollback_to_previous: the previous record becomes current under a new   *)
(* date, and there is nothing left to roll back to.  It loads the document *)
(* again, and returns None, writing nothing, when no previous is found.    *)
RollbackToPrevious ==
  \/ /\ manifest.previous # None
     /\ LET again == Active(manifest.previous.sha, manifest.previous.tag)
        IN manifest' = [current  |-> again,
                        previous |-> None,
                        history  |-> Remember(manifest.history, again)]
  \/ \* nothing to roll back to, the load failed, or the write failed
     UNCHANGED manifest

ManifestNext ==
  \/ \E sha \in Shas : RecordSuccess(sha, sha)
  \/ \E sha \in Shas : RecordFailure(sha)
  \/ RollbackToPrevious

ManifestSpec == ManifestInit /\ [][ManifestNext]_manifest

-----------------------------------------------------------------------------
ManifestTypeOK ==
  /\ manifest \in DeployState
  /\ Len(manifest.history) <= MaxHistory

IsLastActive(history, i) ==
  /\ i \in DOMAIN history
  /\ history[i].status = "active"
  /\ \A j \in DOMAIN history : j > i => history[j].status # "active"

CurrentMatches(state) ==
  \A i \in DOMAIN state.history :
    IsLastActive(state.history, i) => state.history[i] = state.current

PreviousMatches(state) ==
  \A i, j \in DOMAIN state.history :
    (/\ state.previous # None
     /\ IsLastActive(state.history, i)
     /\ j < i
     /\ state.history[j].status = "active"
     /\ \A k \in DOMAIN state.history : j < k /\ k < i => state.history[k].status # "active")
    => state.history[j] = state.previous

TargetsActive(state) ==
  /\ state.previous # None => state.current # None
  /\ \A record \in {state.current, state.previous} \ {None} :
       record.status = "active" /\ record.tag = record.sha

(* "Current" and the history never tell different stories, whichever of    *)
(* the three operations wrote last and whatever the cap dropped: the last  *)
(* successful attempt the history keeps is the current record.  (The page  *)
(* of /api/deployment/status shows both.)                                  *)
CurrentIsLastActive == CurrentMatches(manifest)

(* The rollback target is the successful attempt before the current one,   *)
(* not some older one, unless it was already used or forgotten.            *)
PreviousIsActiveBefore == PreviousMatches(manifest)

(* There is a rollback target only while something is current, and both    *)
(* are successful attempts that name the image of their own revision.      *)
TargetsAreActive == TargetsActive(manifest)
=============================================================================
