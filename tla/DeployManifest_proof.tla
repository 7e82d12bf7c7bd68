------------------------- MODULE DeployManifest_proof -------------------------
(***************************************************************************)
(* Proofs about the deployment manifest, for every set of revisions and    *)
(* every size of the history.                                              *)
(***************************************************************************)
EXTENDS DeployManifest, SequenceTheorems, TLAPS

(* What the capped append returns: the new record last, and before it the  *)
(* old records in order, the oldest one left out when the cap is reached.  *)
LEMMA RememberProperties ==
  ASSUME NEW history \in Seq(DeploymentRecord), Len(history) <= MaxHistory,
         NEW record \in DeploymentRecord
  PROVE  \E drop \in {0, 1} :
           LET out == Remember(history, record) IN
           /\ out \in Seq(DeploymentRecord)
           /\ Len(out) = Len(history) + 1 - drop
           /\ Len(out) \in 1 .. MaxHistory
           /\ out[Len(out)] = record
           /\ \A i \in 1 .. Len(out) - 1 :
                i + drop \in 1 .. Len(history) /\ out[i] = history[i + drop]
           /\ \A k \in 1 .. Len(history) : k > drop =>
                k - drop \in 1 .. Len(out) - 1 /\ out[k - drop] = history[k]
<1> DEFINE all == Append(history, record)
<1>1. /\ all \in Seq(DeploymentRecord)
      /\ all # << >>
      /\ Len(all) = Len(history) + 1
      /\ all[Len(history) + 1] = record
      /\ \A i \in 1 .. Len(history) : all[i] = history[i]
  OBVIOUS
<1>2. Len(history) \in Nat
  OBVIOUS
<1>3. CASE Len(all) > MaxHistory
  <2>1. /\ Tail(all) \in Seq(DeploymentRecord)
        /\ Len(Tail(all)) = Len(all) - 1
        /\ \A i \in 1 .. Len(Tail(all)) : Tail(all)[i] = all[i + 1]
    BY <1>1, HeadTailProperties
  <2>2. Remember(history, record) = Tail(all)
    BY <1>3 DEF Remember
  <2>3. Len(Tail(all)) = Len(history) /\ Len(history) = MaxHistory
    BY <1>1, <1>2, <1>3, <2>1, MaxHistoryAssumption
  <2> HIDE DEF all
  <2>4. WITNESS 1 \in {0, 1}
  <2>5. QED
    BY <1>1, <1>2, <2>1, <2>2, <2>3, MaxHistoryAssumption
<1>4. CASE Len(all) <= MaxHistory
  <2>1. Remember(history, record) = all
    BY <1>1, <1>2, <1>4, MaxHistoryAssumption DEF Remember
  <2> HIDE DEF all
  <2>2. WITNESS 0 \in {0, 1}
  <2>3. QED
    BY <1>1, <1>2, <1>4, <2>1, MaxHistoryAssumption
<1>5. QED
  BY <1>1, <1>2, <1>3, <1>4, MaxHistoryAssumption

-----------------------------------------------------------------------------
(* The invariant of a state, which every load and every operation keeps.   *)
Coherent(state) ==
  /\ state \in DeployState
  /\ Len(state.history) <= MaxHistory
  /\ CurrentMatches(state)
  /\ PreviousMatches(state)
  /\ TargetsActive(state)

(* A load that fails yields the empty state, which is coherent.            *)
LEMMA EmptyCoherent == Coherent(EmptyState)
<1>1. EmptyState.history \in Seq(DeploymentRecord) /\ Len(EmptyState.history) = 0
      /\ DOMAIN EmptyState.history = {}
  BY DEF EmptyState
<1>2. EmptyState \in DeployState
  BY DEF EmptyState, DeployState
<1>3. QED
  BY <1>1, <1>2, MaxHistoryAssumption
     DEF Coherent, CurrentMatches, PreviousMatches, TargetsActive, EmptyState

(* Appending a successful attempt that becomes current keeps a state       *)
(* coherent, when the rollback target becomes what was current, or none.   *)
LEMMA SuccessCoherent ==
  ASSUME NEW state, Coherent(state), NEW sha \in Shas, NEW previous,
         previous = state.current \/ previous = None
  PROVE  Coherent([current  |-> Active(sha, sha),
                   previous |-> previous,
                   history  |-> Remember(state.history, Active(sha, sha))])
<1> DEFINE record == Active(sha, sha)
           old == state.history
           new == Remember(old, record)
           after == [current |-> record, previous |-> previous, history |-> new]
<1>1. record \in DeploymentRecord /\ record.status = "active" /\ record.tag = record.sha
  BY DEF Active, DeploymentRecord
<1>2. old \in Seq(DeploymentRecord) /\ Len(old) <= MaxHistory /\ Len(old) \in Nat
  BY DEF Coherent, DeployState
<1> HIDE DEF record
<1>3. PICK drop \in {0, 1} :
        /\ new \in Seq(DeploymentRecord)
        /\ Len(new) = Len(old) + 1 - drop
        /\ Len(new) \in 1 .. MaxHistory
        /\ new[Len(new)] = record
        /\ \A i \in 1 .. Len(new) - 1 :
             i + drop \in 1 .. Len(old) /\ new[i] = old[i + drop]
        /\ \A k \in 1 .. Len(old) : k > drop =>
             k - drop \in 1 .. Len(new) - 1 /\ new[k - drop] = old[k]
  BY <1>1, <1>2, RememberProperties
<1> HIDE DEF old, new
<1>4. DOMAIN new = 1 .. Len(new) /\ DOMAIN old = 1 .. Len(old)
  BY <1>2, <1>3
<1>5. after \in DeployState
  BY <1>1, <1>3 DEF Coherent, DeployState
<1>6. ASSUME NEW i \in DOMAIN new, IsLastActive(new, i)
      PROVE  i = Len(new)
  BY <1>1, <1>3, <1>4, <1>6 DEF IsLastActive
<1>7. CurrentMatches(after)
  BY <1>3, <1>6 DEF CurrentMatches
<1>8. PreviousMatches(after)
  <2> SUFFICES ASSUME NEW i \in DOMAIN new, NEW j \in DOMAIN new,
                      previous # None, IsLastActive(new, i), j < i,
                      new[j].status = "active",
                      \A k \in DOMAIN new : j < k /\ k < i => new[k].status # "active"
               PROVE  new[j] = previous
    BY DEF PreviousMatches
  <2>1. i = Len(new) /\ j \in 1 .. Len(new) - 1
    BY <1>3, <1>4, <1>6
  <2>2. j + drop \in DOMAIN old /\ old[j + drop] = new[j]
    BY <1>2, <1>3, <1>4, <2>1
  <2>3. ASSUME NEW k \in DOMAIN old, k > j + drop
        PROVE  old[k].status # "active"
    <3>1. k - drop \in 1 .. Len(new) - 1 /\ j < k - drop /\ (k - drop) + drop = k
      BY <1>2, <1>3, <1>4, <2>1, <2>3
    <3>2. new[k - drop] = old[k]
      BY <1>3, <3>1
    <3>3. k - drop \in DOMAIN new /\ k - drop < i
      BY <1>3, <1>4, <2>1, <3>1
    <3>4. QED
      BY <3>1, <3>2, <3>3
  <2>4. IsLastActive(old, j + drop)
    BY <2>2, <2>3 DEF IsLastActive
  <2>5. old[j + drop] = state.current
    BY <2>2, <2>4 DEF Coherent, CurrentMatches, old
  <2>6. QED
    BY <2>2, <2>5
<1>9. TargetsActive(after)
  BY <1>1, NoRecordAssumption DEF Coherent, TargetsActive
<1>10. QED
  BY <1>3, <1>5, <1>7, <1>8, <1>9 DEF Coherent, record, old, new

(* Appending a failed attempt keeps a state coherent.                      *)
LEMMA FailureCoherent ==
  ASSUME NEW state, Coherent(state), NEW sha \in Shas
  PROVE  Coherent([state EXCEPT !.history = Remember(@, Failed(sha))])
<1> DEFINE record == Failed(sha)
           old == state.history
           new == Remember(old, record)
           after == [state EXCEPT !.history = new]
<1>1. record \in DeploymentRecord /\ record.status # "active"
  BY DEF Failed, DeploymentRecord
<1>2. old \in Seq(DeploymentRecord) /\ Len(old) <= MaxHistory /\ Len(old) \in Nat
  BY DEF Coherent, DeployState
<1> HIDE DEF record
<1>3. PICK drop \in {0, 1} :
        /\ new \in Seq(DeploymentRecord)
        /\ Len(new) = Len(old) + 1 - drop
        /\ Len(new) \in 1 .. MaxHistory
        /\ new[Len(new)] = record
        /\ \A i \in 1 .. Len(new) - 1 :
             i + drop \in 1 .. Len(old) /\ new[i] = old[i + drop]
        /\ \A k \in 1 .. Len(old) : k > drop =>
             k - drop \in 1 .. Len(new) - 1 /\ new[k - drop] = old[k]
  BY <1>1, <1>2, RememberProperties
<1> HIDE DEF new
<1>4. /\ after \in DeployState
      /\ after.history = new
      /\ after.current = state.current
      /\ after.previous = state.previous
  BY <1>3 DEF Coherent, DeployState
<1> HIDE DEF old, after
<1>5. DOMAIN new = 1 .. Len(new) /\ DOMAIN old = 1 .. Len(old)
  BY <1>2, <1>3
<1>6. ASSUME NEW i \in DOMAIN new, IsLastActive(new, i)
      PROVE  /\ i \in 1 .. Len(new) - 1
             /\ new[i] = old[i + drop]
             /\ IsLastActive(old, i + drop)
  <2>1. i \in 1 .. Len(new) - 1
    BY <1>1, <1>3, <1>5, <1>6 DEF IsLastActive
  <2>2. new[i] = old[i + drop] /\ i + drop \in DOMAIN old
    BY <1>2, <1>3, <1>5, <2>1
  <2>3. ASSUME NEW k \in DOMAIN old, k > i + drop
        PROVE  old[k].status # "active"
    <3>1. k - drop \in 1 .. Len(new) - 1 /\ i < k - drop /\ (k - drop) + drop = k
      BY <1>2, <1>3, <1>5, <2>1, <2>3
    <3>2. new[k - drop] = old[k] /\ k - drop \in DOMAIN new
      BY <1>3, <1>5, <3>1
    <3>3. QED
      BY <1>6, <3>1, <3>2 DEF IsLastActive
  <2>4. QED
    BY <1>6, <2>1, <2>2, <2>3 DEF IsLastActive
<1>7. CurrentMatches(after)
  <2>1. ASSUME NEW i \in DOMAIN new, IsLastActive(new, i)
        PROVE  new[i] = state.current
    BY <1>6, <2>1 DEF Coherent, CurrentMatches, IsLastActive, old
  <2>2. QED
    BY <1>4, <2>1 DEF CurrentMatches
<1>8. PreviousMatches(after)
  <2> SUFFICES ASSUME NEW i \in DOMAIN new, NEW j \in DOMAIN new,
                      state.previous # None, IsLastActive(new, i), j < i,
                      new[j].status = "active",
                      \A k \in DOMAIN new : j < k /\ k < i => new[k].status # "active"
               PROVE  new[j] = state.previous
    BY <1>4 DEF PreviousMatches
  <2>1. /\ i \in 1 .. Len(new) - 1
        /\ IsLastActive(old, i + drop)
    BY <1>6
  <2>2. /\ j + drop \in DOMAIN old
        /\ j + drop < i + drop
        /\ i + drop \in DOMAIN old
        /\ old[j + drop] = new[j]
    <3>1. j \in 1 .. Len(new) - 1 /\ i \in 1 .. Len(new) - 1 /\ j + drop < i + drop
      BY <1>3, <1>5, <2>1
    <3>2. QED
      BY <1>3, <1>5, <3>1
  <2>3. ASSUME NEW k \in DOMAIN old, j + drop < k, k < i + drop
        PROVE  old[k].status # "active"
    <3>1. k - drop \in 1 .. Len(new) - 1 /\ j < k - drop /\ k - drop < i
          /\ (k - drop) + drop = k
      BY <1>2, <1>3, <1>5, <2>1, <2>3
    <3>2. new[k - drop] = old[k] /\ k - drop \in DOMAIN new
      BY <1>3, <1>5, <3>1
    <3>3. QED
      BY <3>1, <3>2
  <2>4. PreviousMatches(state)
    BY DEF Coherent
  <2>5. old[j + drop] = state.previous
    BY <2>1, <2>2, <2>3, <2>4 DEF PreviousMatches, old
  <2>6. QED
    BY <2>2, <2>5
<1>9. TargetsActive(after)
  BY <1>4 DEF Coherent, TargetsActive
<1>10. QED
  BY <1>3, <1>4, <1>7, <1>8, <1>9 DEF Coherent, old, new, after, record

-----------------------------------------------------------------------------
(* The three operations, wherever they are called from.                    *)
LEMMA SuccessKeepsCoherent ==
  ASSUME Coherent(manifest), NEW sha \in Shas, RecordSuccess(sha, sha)
  PROVE  Coherent(manifest')
  BY EmptyCoherent, SuccessCoherent DEF RecordSuccess, Reads

LEMMA FailureKeepsCoherent ==
  ASSUME Coherent(manifest), NEW sha \in Shas, RecordFailure(sha)
  PROVE  Coherent(manifest')
  BY EmptyCoherent, FailureCoherent DEF RecordFailure, Reads

LEMMA RollbackKeepsCoherent ==
  ASSUME Coherent(manifest), RollbackToPrevious
  PROVE  Coherent(manifest')
<1>1. CASE UNCHANGED manifest
  BY <1>1
<1>2. CASE manifest.previous # None
  <2> DEFINE sha == manifest.previous.sha
  <2>1. sha \in Shas /\ manifest.previous.tag = sha
    BY <1>2 DEF Coherent, TargetsActive, DeployState, DeploymentRecord
  <2>2. Coherent([current |-> Active(sha, sha), previous |-> None,
                  history |-> Remember(manifest.history, Active(sha, sha))])
    BY <2>1, SuccessCoherent
  <2>3. QED
    BY <1>1, <2>1, <2>2 DEF RollbackToPrevious
<1>3. QED
  BY <1>1, <1>2 DEF RollbackToPrevious

(* For every sequence of operations, loads that fail included: the         *)
(* manifest is well formed, within its cap, and its current record, its    *)
(* rollback target and its history agree.                                  *)
THEOREM ManifestStaysCoherent ==
  ManifestSpec => [](ManifestTypeOK /\ CurrentIsLastActive /\ PreviousIsActiveBefore
                       /\ TargetsAreActive)
<1>1. ManifestInit => Coherent(manifest)
  BY EmptyCoherent DEF ManifestInit
<1>2. Coherent(manifest) /\ [ManifestNext]_manifest => Coherent(manifest)'
  <2> SUFFICES ASSUME Coherent(manifest), [ManifestNext]_manifest
               PROVE  Coherent(manifest')
    OBVIOUS
  <2>1. ASSUME NEW sha \in Shas, RecordSuccess(sha, sha) PROVE Coherent(manifest')
    BY <2>1, SuccessKeepsCoherent
  <2>2. ASSUME NEW sha \in Shas, RecordFailure(sha) PROVE Coherent(manifest')
    BY <2>2, FailureKeepsCoherent
  <2>3. CASE RollbackToPrevious
    BY <2>3, RollbackKeepsCoherent
  <2>4. CASE UNCHANGED manifest
    BY <2>4
  <2>5. QED
    BY <2>1, <2>2, <2>3, <2>4 DEF ManifestNext
<1>3. Coherent(manifest) => /\ ManifestTypeOK /\ CurrentIsLastActive
                           /\ PreviousIsActiveBefore /\ TargetsAreActive
  BY DEF Coherent, ManifestTypeOK, CurrentIsLastActive, PreviousIsActiveBefore,
         TargetsAreActive
<1>4. QED
  BY <1>1, <1>2, <1>3, PTL DEF ManifestSpec

(* The manifest stays well formed and its history within its cap.          *)
THEOREM ManifestStaysTyped == ManifestSpec => []ManifestTypeOK
  BY ManifestStaysCoherent, PTL

(* There is a rollback target only while something is current, and both    *)
(* name the image of their own revision.                                   *)
THEOREM TargetsStayActive == ManifestSpec => []TargetsAreActive
  BY ManifestStaysCoherent, PTL
=============================================================================
