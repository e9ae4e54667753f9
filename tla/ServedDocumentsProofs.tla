----------------------- MODULE ServedDocumentsProofs -----------------------
(* Proofs about the way from approval to store, for all tables and documents. *)
EXTENDS ServedDocuments, CandidateSyncProofs

(* What holds of the tree holds of it in the pipeline: its steps are its own. *)
LEMMA TreeSteps == [PipelineNext]_pipeline => [Next]_vars
BY DEF PipelineNext, pipeline, Prepare, Publish, Apply

LEMMA TreeInvariant == PipelineSpec => [](PromotionInv /\ SyncInv)
<1>1. PipelineInit => PromotionInv /\ SyncInv
  BY InitPromotionInv, InitSyncInv DEF PipelineInit
<1>2. PromotionInv /\ SyncInv /\ [PipelineNext]_pipeline => (PromotionInv /\ SyncInv)'
  BY TreeSteps, NextPromotionInv, NextSyncInv
<1>. QED
  BY <1>1, <1>2, PTL DEF PipelineSpec

-----------------------------------------------------------------------------
(* Manifests.  All that a run, a queue, a request or the store can hold comes *)
(* from a manifest main has had, and those were earned when they came.        *)

WarrantedManifest(m) == \A t \in Tables : m[t] # Index!Absent => Warranted(t, m[t])

WorkInHand ==
    /\ latest \in published
    /\ target \in published
    /\ queue \subseteq published
    /\ \A r \in late : r.to \in published

ServedInv ==
    /\ WorkInHand
    /\ \A m \in published : WarrantedManifest(m)
    /\ ServedWasApproved

(* What has been earned stays earned: the history only grows.                 *)
LEMMA WarrantStays ==
    ASSUME PromotionInv, [Next]_vars, unchecked \subseteq unchecked',
           NEW t \in Tables, NEW body, Warranted(t, body)
    PROVE  Warranted(t, body)'
<1>1. shown[t] \subseteq shown'[t] /\ approvals[t] \subseteq approvals'[t]
  <2>1. CASE Next
    BY <2>1, HistoryGrows DEF PromotionInv
  <2>2. CASE UNCHANGED vars
    BY <2>2 DEF vars
  <2>. QED
    BY <2>1, <2>2
<1>. QED
  BY <1>1 DEF Warranted

(* A candidate that goes to the index was shown, and its approval saved - by   *)
(* the reviewer whose run promoted it, or by the one whose YAML the check saw - *)
(* or else the merge is remembered as one that no check has seen.             *)
LEMMA DesiredIsWarranted ==
    ASSUME PromotionInv, SyncInv, Buildable, NEW t \in Indexed
    PROVE  \E evidence \in shown[t] :
               /\ evidence[2] = candidates[t].body
               /\ evidence[1].content \in approvals[t] \/ t \in Unchecked
<1>1. t \in Tables /\ candidates[t].state = "promoted"
  BY DEF Indexed
<1>2. Intact(candidates[t])
  BY <1>1 DEF Buildable, NoFile
<1>3. /\ <<candidates[t].fingerprint, candidates[t].body>> \in shown[t]
      /\ t \notin setByHand => candidates[t].fingerprint.content \in approvals[t]
  BY <1>1, <1>2, ReviewedInv DEF PromotedWasReviewed
<1>4. ASSUME t \in setByHand, t \notin Unchecked
      PROVE  candidates[t].fingerprint.content \in approvals[t]
  <2>1. Gated /\ t \in Reviewed
    BY <1>4 DEF Unchecked
  <2>2. reviews[t].state = "approved" /\ ValidCandidate(t)
    BY <2>1, PassedIsApproved DEF Gated, IndexedIsApproved
  <2>. QED
    BY <1>1, <2>2 DEF ValidCandidate, Current, PromotionInv, ApprovalsWereSaved,
       Approved
<1>. QED
  BY <1>3, <1>4

(* A step of the apply leaves the store alone or executes a request for a     *)
(* manifest that main has had.                                                *)
LEMMA ApplyStep ==
    ASSUME WorkInHand, Apply
    PROVE  /\ WorkInHand'
           /\ UNCHANGED published
           /\ \/ UNCHANGED store
              \/ \E chunks : \E m \in published : store' = Index!Executed(chunks, m)
<1>. USE DEF WorkInHand, Index!repository, Index!points, Index!plan, Index!run,
             Index!message
<1>1. ASSUME NEW m \in published, Index!Rerun(m)
      PROVE  WorkInHand' /\ UNCHANGED <<published, store>>
  BY <1>1 DEF Index!Rerun
<1>2. ASSUME NEW m \in queue, Index!Start(m)
      PROVE  WorkInHand' /\ UNCHANGED <<published, store>>
  BY <1>2 DEF Index!Start
<1>3. ASSUME \/ Index!Disabled \/ Index!Bootstrap \/ Index!Read \/ Index!Verify
             \/ Index!Retrieve \/ Index!Notify \/ Index!Fail \/ Index!Refused
             \/ Index!NotifyUnheard
      PROVE  WorkInHand' /\ UNCHANGED <<published, store>>
  BY <1>3 DEF Index!Disabled, Index!Bootstrap, Index!Read, Index!Verify, Index!Retrieve,
              Index!Notify, Index!Fail, Index!Refused, Index!NotifyUnheard, Index!Stop
<1>4. ASSUME NEW batch \in SUBSET Tables, Index!Upsert(batch) \/ Index!Delete(batch)
      PROVE  WorkInHand' /\ UNCHANGED published /\ store' = Index!Executed(batch, target)
  BY <1>4 DEF Index!Upsert, Index!Delete, Index!Mutate
<1>5. ASSUME NEW batch \in SUBSET Tables, Index!RequestFails(batch)
      PROVE  /\ WorkInHand' /\ UNCHANGED published
             /\ UNCHANGED store \/ store' = Index!Executed(batch, target)
  BY <1>5 DEF Index!RequestFails, Index!Stop, Index!Mutate
<1>6. ASSUME NEW r \in late, Index!Land(r)
      PROVE  WorkInHand' /\ UNCHANGED published /\ store' = Index!Executed(r.chunks, r.to)
  BY <1>6 DEF Index!Land
<1>. QED
  BY <1>1, <1>2, <1>3, <1>4, <1>5, <1>6 DEF Apply, Index!Steps, Index!Faults

(* A merge brings the manifest of the tree, or none. *)
LEMMA PublishStep ==
    ASSUME WorkInHand, Publish
    PROVE  \/ UNCHANGED <<index, unchecked>>
           \/ /\ Buildable
              /\ WorkInHand'
              /\ published' = published \union {Desired}
              /\ unchecked' = unchecked \union {<<t, candidates[t].body>> : t \in Unchecked}
              /\ UNCHANGED <<store, vars>>
BY DEF Publish, Index!Push, WorkInHand, Index!points, Index!run, Index!plan

LEMMA NextServedInv ==
    ASSUME PromotionInv, SyncInv, ServedInv, [PipelineNext]_pipeline
    PROVE  ServedInv'
<1>0. unchecked \subseteq unchecked'
  BY DEF PipelineNext, pipeline, Prepare, Publish, Apply
<1>1. \A t \in Tables : \A body : Warranted(t, body) => Warranted(t, body)'
  BY <1>0, TreeSteps, WarrantStays
<1>2. \A m : WarrantedManifest(m) => WarrantedManifest(m)'
  BY <1>1 DEF WarrantedManifest
<1>3. CASE UNCHANGED index
  BY <1>1, <1>2, <1>3 DEF ServedInv, WorkInHand, ServedWasApproved, index
<1>4. CASE Publish /\ ~UNCHANGED <<index, unchecked>>
  <2>1. /\ Buildable /\ WorkInHand'
        /\ published' = published \union {Desired}
        /\ unchecked' = unchecked \union {<<t, candidates[t].body>> : t \in Unchecked}
        /\ UNCHANGED <<store, vars>>
    BY <1>4, PublishStep DEF ServedInv
  <2>2. ASSUME NEW t \in Tables, Desired[t] # Index!Absent
        PROVE  Warranted(t, Desired[t])'
    <3>1. t \in Indexed /\ Desired[t] = candidates[t].body
      BY <2>2 DEF Desired
    <3>2. PICK evidence \in shown[t] :
             /\ evidence[2] = candidates[t].body
             /\ evidence[1].content \in approvals[t] \/ t \in Unchecked
      BY <2>1, <3>1, DesiredIsWarranted
    <3>3. shown' = shown /\ approvals' = approvals /\ Desired' = Desired
      BY <2>1 DEF vars, tree, Desired, Indexed
    <3>. QED
      BY <2>1, <3>1, <3>2, <3>3 DEF Warranted
  <2>3. \A m \in published' : WarrantedManifest(m)'
    <3>1. WarrantedManifest(Desired)'
      BY <2>1, <2>2 DEF WarrantedManifest, Desired, Indexed, vars, tree
    <3>2. Desired' = Desired
      BY <2>1 DEF vars, tree, Desired, Indexed
    <3>. QED
      BY <1>2, <2>1, <3>1, <3>2 DEF ServedInv
  <2>4. ServedWasApproved'
    BY <1>1, <2>1 DEF ServedInv, ServedWasApproved
  <2>. QED
    BY <2>1, <2>3, <2>4 DEF ServedInv
<1>5. CASE Apply
  <2>1. WorkInHand' /\ UNCHANGED published
    BY <1>5, ApplyStep DEF ServedInv
  <2>2. \A m \in published' : WarrantedManifest(m)'
    BY <1>2, <2>1 DEF ServedInv
  <2>3. ASSUME NEW t \in Tables, NEW body, body = store'[t], body # Index!Absent
        PROVE  Warranted(t, body)'
    <3>1. CASE UNCHANGED store
      BY <1>1, <2>3, <3>1 DEF ServedInv, ServedWasApproved
    <3>2. ASSUME NEW chunks, NEW m \in published, store' = Index!Executed(chunks, m)
          PROVE  Warranted(t, body)'
      <4>1. store'[t] = m[t] \/ store'[t] = store[t]
        BY <3>2 DEF Index!Executed
      <4>. QED
        BY <1>1, <2>3, <4>1 DEF ServedInv, ServedWasApproved, WarrantedManifest
    <3>. QED
      BY <1>5, <3>1, <3>2, ApplyStep DEF ServedInv
  <2>4. ServedWasApproved'
    BY <2>3 DEF ServedWasApproved
  <2>. QED
    BY <2>1, <2>2, <2>4 DEF ServedInv
<1>. QED
  BY <1>3, <1>4, <1>5 DEF PipelineNext, pipeline, Prepare

(* Every point that is served says what was shown for review, from content    *)
(* that was approved by a person unless a status set by hand was merged       *)
(* unchecked, for any tables and documents, through failed, late and repeated *)
(* requests and runs.                                                         *)
THEOREM OnlyApprovedIsServed == PipelineSpec => []ServedWasApproved
<1>1. PipelineInit => ServedInv
  BY DEF PipelineInit, Index!Init, ServedInv, WorkInHand, WarrantedManifest, ServedWasApproved,
         Index!Nothing
<1>2. ServedInv => ServedWasApproved
  BY DEF ServedInv
<1>. QED
  BY <1>1, <1>2, NextServedInv, TreeInvariant, PTL DEF PipelineSpec

-----------------------------------------------------------------------------
(* The pipeline applies the index as VectorApply does: all that was proved of  *)
(* an apply, for any manifests, holds of the runs for what main has.           *)

IndexProofs == INSTANCE VectorApplyProofs
                 WITH Chunks <- Tables, Hashes <- Bodies, phase <- applying, outcome <- result

(* What is built from candidates that can be read is a manifest. *)
LEMMA DesiredIsManifest ==
    ASSUME TypeOK
    PROVE  Desired \in IndexProofs!Manifest
<1>1. ASSUME NEW t \in Indexed PROVE candidates[t].body \in Bodies
  <2>1. t \in Tables /\ candidates[t] \in CandidateFile /\ candidates[t].state = "promoted"
    BY DEF Indexed, TypeOK
  <2>2. candidates[t] \in Candidate
    BY <2>1, ReadableIsCandidate DEF Readable
  <2>. QED
    BY <2>2 DEF Candidate
<1>. QED
  BY <1>1 DEF Desired, IndexProofs!Manifest, IndexProofs!Absent, Index!Absent

(* A size is a size, and a batch a batch, under either name. *)
LEMMA SameSize ==
    ASSUME NEW S
    PROVE  Index!Cardinality(S) = IndexProofs!Cardinality(S)
BY DEF Index!Cardinality, IndexProofs!Cardinality

LEMMA SameBatches ==
    ASSUME NEW left
    PROVE  Index!Batches(left) = IndexProofs!Batches(left)
BY SameSize DEF Index!Batches, IndexProofs!Batches

(* The steps of a run in the pipeline are those of an apply. *)
LEMMA ApplyIsApply ==
    ASSUME Apply
    PROVE  IndexProofs!Next
<1>. USE DEF Index!repository, IndexProofs!repository, Index!points, IndexProofs!points,
             Index!plan, IndexProofs!plan, Index!run, IndexProofs!run,
             Index!message, IndexProofs!message
<1>1. ASSUME NEW m, Index!Rerun(m) PROVE IndexProofs!Rerun(m)
  BY <1>1 DEF Index!Rerun, IndexProofs!Rerun
<1>2. ASSUME NEW m, Index!Start(m) PROVE IndexProofs!Start(m)
  BY <1>2 DEF Index!Start, IndexProofs!Start
<1>3. Index!Disabled => IndexProofs!Disabled
  BY DEF Index!Disabled, IndexProofs!Disabled
<1>4. Index!Bootstrap => IndexProofs!Bootstrap
  BY DEF Index!Bootstrap, IndexProofs!Bootstrap
<1>. USE DEF Index!Absent, IndexProofs!Absent, Index!Stage, IndexProofs!Stage,
             Index!Upserts, IndexProofs!Upserts, Index!Deletes, IndexProofs!Deletes,
             Index!Executed, IndexProofs!Executed,
             Index!Mutate, IndexProofs!Mutate, Index!Stop, IndexProofs!Stop
<1>5. Index!Read => IndexProofs!Read
  BY DEF Index!Read, IndexProofs!Read
<1>6. ASSUME NEW batch, Index!Upsert(batch) PROVE IndexProofs!Upsert(batch)
  BY <1>6, SameBatches DEF Index!Upsert, IndexProofs!Upsert
<1>7. ASSUME NEW batch, Index!Delete(batch) PROVE IndexProofs!Delete(batch)
  BY <1>7, SameBatches DEF Index!Delete, IndexProofs!Delete
<1>8. Index!Verify => IndexProofs!Verify
  BY DEF Index!Verify, IndexProofs!Verify
<1>9. Index!Retrieve => IndexProofs!Retrieve
  BY DEF Index!Retrieve, IndexProofs!Retrieve
<1>10. Index!Notify => IndexProofs!Notify
  BY DEF Index!Notify, IndexProofs!Notify, Index!Delivered, IndexProofs!Delivered
<1>11. Index!Fail => IndexProofs!Fail
  BY DEF Index!Fail, IndexProofs!Fail
<1>12. Index!Refused => IndexProofs!Refused
  BY DEF Index!Refused, IndexProofs!Refused
<1>13. ASSUME NEW batch, Index!RequestFails(batch) PROVE IndexProofs!RequestFails(batch)
  BY <1>13, SameSize, SameBatches DEF Index!RequestFails, IndexProofs!RequestFails
<1>14. Index!NotifyUnheard => IndexProofs!NotifyUnheard
  BY DEF Index!NotifyUnheard, IndexProofs!NotifyUnheard, Index!Delivered,
         IndexProofs!Delivered
<1>15. ASSUME NEW r, Index!Land(r) PROVE IndexProofs!Land(r)
  BY <1>15 DEF Index!Land, IndexProofs!Land
<1>. HIDE DEF Index!Absent, IndexProofs!Absent, Index!Stage, IndexProofs!Stage,
             Index!Upserts, IndexProofs!Upserts, Index!Deletes, IndexProofs!Deletes,
             Index!Executed, IndexProofs!Executed,
             Index!Mutate, IndexProofs!Mutate, Index!Stop, IndexProofs!Stop
<1>. QED
  BY <1>1, <1>2, <1>3, <1>4, <1>5, <1>6, <1>7, <1>8, <1>9, <1>10, <1>11, <1>12, <1>13, <1>14,
     <1>15
  DEF Apply, Index!Steps, Index!Faults, IndexProofs!Next, IndexProofs!Steps, IndexProofs!Faults

(* A merge is a push of what the tree says, if that is news to the index. *)
LEMMA PublishIsPush ==
    ASSUME TypeOK, Publish
    PROVE  IndexProofs!Next \/ UNCHANGED index
<1>1. CASE Index!Push(Desired)
  <2>1. IndexProofs!Push(Desired)
    BY <1>1 DEF Index!Push, IndexProofs!Push, Index!points, IndexProofs!points, Index!run,
           IndexProofs!run, Index!plan, IndexProofs!plan, Index!message, IndexProofs!message
  <2>. QED
    BY <2>1, DesiredIsManifest DEF IndexProofs!Next
<1>. QED
  BY <1>1 DEF Publish

LEMMA PipelineApplies == PipelineSpec => IndexProofs!Spec
<1>1. PipelineInit => IndexProofs!Init
  BY DEF PipelineInit, Index!Init, IndexProofs!Init, Index!Nothing, IndexProofs!Nothing,
         Index!Absent, IndexProofs!Absent
<1>2. SyncInv /\ [PipelineNext]_pipeline => [IndexProofs!Next]_(IndexProofs!vars)
  <2> SUFFICES ASSUME SyncInv, [PipelineNext]_pipeline
               PROVE  IndexProofs!Next \/ UNCHANGED IndexProofs!vars
    OBVIOUS
  <2>1. TypeOK
    BY DEF SyncInv, TypeInv
  <2>2. CASE UNCHANGED index
    BY <2>2 DEF index, IndexProofs!vars, IndexProofs!repository, IndexProofs!points,
                IndexProofs!run, IndexProofs!plan, IndexProofs!message
  <2>. QED
    BY <2>1, <2>2, PublishIsPush, ApplyIsApply DEF PipelineNext, pipeline, Prepare
<1>. QED
  BY <1>1, <1>2, TreeInvariant, PTL DEF PipelineSpec, IndexProofs!Spec

(* Whatever the tree has become meanwhile: what a run of the pipeline reports *)
(* is what the store says, for any number of tables, documents and batches.   *)
LEMMA ReportsAreTrue == PipelineSpec => []IndexProofs!PlanReachesTarget
<1>1. /\ IndexProofs!BatchSizeAssumption
      /\ IndexProofs!RetriesAssumption
      /\ IndexProofs!BoundsAssumption
  BY BatchAssumption, AttemptsAssumption, FaultsAssumption
  DEF IndexProofs!BatchSizeAssumption, IndexProofs!RetriesAssumption,
      IndexProofs!BoundsAssumption
<1>2. IndexProofs!Spec => []IndexProofs!PlanReachesTarget
  BY <1>1, IndexProofs!PlanIsSufficient
<1>. QED
  BY <1>2, PipelineApplies

(* A tree that was synchronised, and whose manifest was applied, is served:   *)
(* every approved table with its document, and no other table of the tree.    *)
THEOREM ApprovedIsServed == PipelineSpec => []ServedIsTheTree
<1>1. SyncInv /\ IndexProofs!PlanReachesTarget => ServedIsTheTree
  <2> SUFFICES ASSUME SyncInv, IndexProofs!PlanReachesTarget,
                      outcome = "synced", chosen = Reviewed,
                      result \in {"noop", "applied"}, ~interfered,
                      target = latest, latest = Desired,
                      NEW t \in Reviewed
               PROVE  IF reviews[t].state = "approved"
                      THEN ValidCandidate(t) /\ store[t] = candidates[t].sealed
                      ELSE store[t] = Index!Absent
    BY DEF ServedIsTheTree
  <2>1. store = Desired
    BY DEF IndexProofs!PlanReachesTarget
  <2>2. Kept(t, FALSE)
    BY DEF SyncInv, RerunIsUnchanged
  <2>3. t \in Tables
    BY DEF Reviewed
  <2>4. CASE reviews[t].state = "approved"
    <3>1. candidates[t].state = "promoted" /\ ValidCandidate(t)
      BY <2>2, <2>4 DEF Kept
    <3>2. Desired[t] = candidates[t].body
      BY <2>3, <3>1 DEF Desired, Indexed
    <3>. QED
      BY <2>1, <2>4, <3>1, <3>2 DEF ValidCandidate, Intact
  <2>5. CASE reviews[t].state # "approved"
    <3>1. candidates[t].state = "review"
      BY <2>2, <2>5 DEF Kept
    <3>. QED
      BY <2>1, <2>3, <2>5, <3>1 DEF Desired, Indexed
  <2>. QED
    BY <2>4, <2>5
<1>. QED
  BY <1>1, TreeInvariant, ReportsAreTrue, PTL

(* A merged manifest replaces what is served without a gap: no document goes  *)
(* before all that is approved in its place is there.                         *)
THEOREM MergesLeaveNoGap == PipelineSpec => Index!NoGap
<1>1. /\ IndexProofs!BatchSizeAssumption
      /\ IndexProofs!RetriesAssumption
      /\ IndexProofs!BoundsAssumption
  BY BatchAssumption, AttemptsAssumption, FaultsAssumption
  DEF IndexProofs!BatchSizeAssumption, IndexProofs!RetriesAssumption,
      IndexProofs!BoundsAssumption
<1>2. IndexProofs!Spec => IndexProofs!NoGap
  BY <1>1, IndexProofs!NeverAGap
<1>3. IndexProofs!NoGap => Index!NoGap
  BY PTL DEF IndexProofs!NoGap, Index!NoGap, IndexProofs!Disappears, Index!Disappears,
         IndexProofs!Complete, Index!Complete, IndexProofs!Absent, Index!Absent,
         IndexProofs!vars, Index!vars, IndexProofs!repository, Index!repository,
         IndexProofs!points, Index!points, IndexProofs!run, Index!run,
         IndexProofs!plan, Index!plan, IndexProofs!message, Index!message
<1>. QED
  BY <1>2, <1>3, PipelineApplies

(* What VectorApply is shown to implement for manifests that come from        *)
(* anywhere holds for those of checked trees: the store is brought to one     *)
(* merged manifest at a time.                                                 *)
THEOREM MergesKeepPromise == PipelineSpec => IndexProofs!KeepsPromise
<1>1. /\ IndexProofs!BatchSizeAssumption
      /\ IndexProofs!RetriesAssumption
      /\ IndexProofs!BoundsAssumption
  BY BatchAssumption, AttemptsAssumption, FaultsAssumption
  DEF IndexProofs!BatchSizeAssumption, IndexProofs!RetriesAssumption,
      IndexProofs!BoundsAssumption
<1>2. IndexProofs!Spec => IndexProofs!KeepsPromise
  BY <1>1, IndexProofs!ImplementsPromise
<1>. QED
  BY <1>2, PipelineApplies
=============================================================================
