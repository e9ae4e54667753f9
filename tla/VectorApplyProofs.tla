------------------------- MODULE VectorApplyProofs -------------------------
(* Proofs about applying a manifest, for every set of chunks, every batch    *)
(* size and every number of pushes, failures and requests on their way.      *)
EXTENDS VectorApply, FiniteSetTheorems, TLAPS

(* Executing a request on the store gives a manifest again. *)
LEMMA ExecutedTyped ==
    ASSUME store \in Manifest, NEW m \in Manifest, NEW chunks
    PROVE  Executed(chunks, m) \in Manifest
BY DEF Executed, Manifest

(* The stage is the one the work that is left calls for. *)
LEMMA StageOf ==
    ASSUME NEW ups, NEW dels
    PROVE  /\ Stage(ups, dels) \in {"upserting", "deleting", "verifying"}
           /\ Stage(ups, dels) = "upserting" <=> ups # {}
           /\ Stage(ups, dels) = "deleting" <=> ups = {} /\ dels # {}
           /\ Stage(ups, dels) = "verifying" <=> ups = {} /\ dels = {}
BY DEF Stage

(* A batch is a non-empty part of what is left. *)
LEMMA BatchIsPart ==
    ASSUME NEW left, NEW batch \in Batches(left)
    PROVE  batch \subseteq left /\ batch # {}
BY DEF Batches

-----------------------------------------------------------------------------
(* Type correctness.                                                         *)

(* The initial state is well typed. *)
LEMMA InitTypeOK == Init => TypeOK
<1>1. Nothing \in Manifest
  BY DEF Nothing, Manifest
<1>2. Init => pushes \in Nat /\ faults \in Nat
  BY DEF Init
<1>3. Init => interfered \in BOOLEAN /\ unannounced \in BOOLEAN /\ touched \in BOOLEAN
  BY DEF Init
<1>4. Init => attempts \in 0 .. MaxRetries /\ told \in Nat
  BY RetriesAssumption DEF Init
<1>. QED
  BY <1>1, <1>2, <1>3, <1>4 DEF Init, TypeOK, Phases

(* Every step keeps the types. *)
LEMMA NextTypeOK == TypeOK /\ [Next]_vars => TypeOK'
<1> SUFFICES ASSUME TypeOK, [Next]_vars PROVE TypeOK'
  OBVIOUS
<1>. USE DEF repository, points, plan, run, message
<1>0. latest \in Manifest /\ target \in Manifest
  BY DEF TypeOK
<1>1. ASSUME NEW m \in Manifest, Push(m)
      PROVE TypeOK'
  BY <1>1 DEF Push, TypeOK
<1>2. ASSUME NEW m \in published, Rerun(m)
      PROVE TypeOK'
  <2>1. faults' \in Nat
    BY <1>2 DEF Rerun, TypeOK
  <2>. QED
    BY <1>2, <2>1 DEF Rerun, TypeOK
<1>3. ASSUME NEW m \in queue, Start(m)
      PROVE TypeOK'
  <2>1. attempts' \in 0 .. MaxRetries /\ told' \in Nat
    BY <1>3, RetriesAssumption DEF Start
  <2>. QED
    BY <1>3, <2>1 DEF Start, TypeOK, Phases
<1>4. CASE Disabled
  BY <1>4 DEF Disabled, TypeOK, Phases
<1>5. CASE Bootstrap
  BY <1>5 DEF Bootstrap, TypeOK
<1>6. CASE Read
  BY <1>6, StageOf DEF Read, TypeOK, Phases, Upserts, Deletes
<1>7. ASSUME NEW batch \in SUBSET Chunks, Upsert(batch)
      PROVE TypeOK'
  BY <1>0, <1>7, ExecutedTyped, StageOf DEF Upsert, Mutate, TypeOK, Phases
<1>8. ASSUME NEW batch \in SUBSET Chunks, Delete(batch)
      PROVE TypeOK'
  BY <1>0, <1>8, ExecutedTyped, StageOf DEF Delete, Mutate, TypeOK, Phases
<1>9. CASE Verify
  BY <1>9 DEF Verify, TypeOK, Phases
<1>10. CASE Retrieve \/ Notify \/ NotifyUnheard
  <2>1. CASE Retrieve
    BY <2>1 DEF Retrieve, TypeOK, Phases
  <2>2. CASE Notify
    <3>1. told' \in Nat
      BY <2>2 DEF Notify, Delivered, TypeOK
    <3>2. unannounced' \in BOOLEAN
      BY <2>2 DEF Notify, Delivered
    <3>. QED
      BY <2>2, <3>1, <3>2 DEF Notify, TypeOK, Phases
  <2>3. CASE NotifyUnheard
    <3>1. faults' \in Nat
      BY <2>3 DEF NotifyUnheard, Stop, TypeOK
    <3>2. told' \in Nat
      BY <2>3 DEF NotifyUnheard, Delivered, TypeOK
    <3>5. unannounced' \in BOOLEAN
      BY <2>3 DEF NotifyUnheard, Delivered, TypeOK
    <3>3. attempts' \in 0 .. MaxRetries
      BY <2>3, RetriesAssumption DEF NotifyUnheard, TypeOK
    <3>4. /\ phase' \in Phases
          /\ outcome' \in {"none", "failed", "disabled", "noop", "applied"}
      BY <2>3 DEF NotifyUnheard, Stop, TypeOK, Phases
    <3>. QED
      BY <2>3, <3>1, <3>2, <3>3, <3>4, <3>5 DEF NotifyUnheard, TypeOK
  <2>. QED
    BY <1>10, <2>1, <2>2, <2>3
<1>11. CASE Fail \/ Refused
  BY <1>11 DEF Fail, Refused, Stop, TypeOK, Phases
<1>12. ASSUME NEW batch \in SUBSET Chunks, RequestFails(batch)
       PROVE TypeOK'
  <2>1. store' \in Manifest
    BY <1>0, <1>12, ExecutedTyped DEF RequestFails, Mutate, TypeOK
  <2>2. unannounced' \in BOOLEAN
    BY <1>12 DEF RequestFails, Mutate, TypeOK
  <2>3. late' \subseteq Request
    BY <1>0, <1>12 DEF RequestFails, TypeOK, Request
  <2>4. faults' \in Nat
    BY <1>12 DEF RequestFails, Stop, TypeOK
  <2>. QED
    BY <1>12, <2>1, <2>2, <2>3, <2>4 DEF RequestFails, Stop, TypeOK, Phases
<1>13. ASSUME NEW r \in late, Land(r)
       PROVE TypeOK'
  BY <1>13, ExecutedTyped DEF Land, TypeOK, Request
<1>14. CASE UNCHANGED vars
  BY <1>14 DEF vars, TypeOK
<1>. QED
  BY <1>1, <1>2, <1>3, <1>4, <1>5, <1>6, <1>7, <1>8, <1>9, <1>10, <1>11, <1>12, <1>13,
     <1>14 DEF Next, Steps, Faults

(* Every variable of the run, the store and the queue is of its kind, always. *)
THEOREM ApplyTypeCorrect == Spec => []TypeOK
BY InitTypeOK, NextTypeOK, PTL DEF Spec

-----------------------------------------------------------------------------
(* The plan is the diff.  What a run still has to send is at every moment the *)
(* difference between the store and its manifest: that is what makes a plan   *)
(* from one look at the store right to the end.  A late request can break it, *)
(* but not silently: it changes the store, and that is a change to announce.  *)

Running == phase \in {"upserting", "deleting", "verifying", "checking", "notifying"}

PlanIsDiff ==
    /\ upserts = Upserts(store, target)
    /\ deletes = Deletes(store, target)

StageIsDue ==
    /\ phase = "upserting" => upserts # {}
    /\ phase = "deleting" => upserts = {}
    /\ phase \in {"verifying", "checking", "notifying"} => upserts = {} /\ deletes = {}

ChangeIsNews ==
    /\ Running /\ touched /\ upserts = {} /\ deletes = {} => unannounced \/ told > 0
    /\ phase = "notifying" => touched

MessagesAreAttempts ==
    /\ phase \notin {"idle", "notifying"} => attempts = 0 /\ told = 0
    /\ phase = "notifying" => told <= attempts

\* Neither an earlier run nor a message has put the change to be told of in doubt.
Undisturbed == ~interfered \/ (~unannounced /\ told = 0)

ApplyInv ==
    /\ TypeOK
    /\ Running /\ Undisturbed => PlanIsDiff
    /\ StageIsDue
    /\ ChangeIsNews
    /\ MessagesAreAttempts

(* A request brings its chunks to what the manifest says; the rest of the diff *)
(* is still to do.                                                             *)
LEMMA UpsertLeaves ==
    ASSUME TypeOK, PlanIsDiff, NEW batch \in SUBSET upserts, batch # {},
           store' = Executed(batch, target), target' = target
    PROVE  /\ upserts \ batch = Upserts(store', target')
           /\ deletes = Deletes(store', target')
           /\ store' # store
BY DEF TypeOK, Manifest, PlanIsDiff, Upserts, Deletes, Executed

(* The same of a batch of deletes. *)
LEMMA DeleteLeaves ==
    ASSUME TypeOK, PlanIsDiff, NEW batch \in SUBSET deletes, batch # {},
           store' = Executed(batch, target), target' = target
    PROVE  /\ upserts = Upserts(store', target')
           /\ deletes \ batch = Deletes(store', target')
           /\ store' # store
BY DEF TypeOK, Manifest, PlanIsDiff, Upserts, Deletes, Executed

(* When nothing is left of the diff, the store is the manifest. *)
LEMMA NoDiffIsTarget ==
    ASSUME TypeOK, PlanIsDiff, upserts = {}, deletes = {}
    PROVE  store = target
<1>1. ASSUME NEW c \in Chunks PROVE store[c] = target[c]
  BY DEF PlanIsDiff, Upserts, Deletes
<1>. QED
  BY <1>1 DEF TypeOK, Manifest

(* The initial state has no run. *)
LEMMA InitApplyInv == Init => ApplyInv
BY InitTypeOK DEF Init, ApplyInv, Running, StageIsDue, ChangeIsNews, MessagesAreAttempts

(* Steps that leave the run and the store alone. *)
LEMMA AsideStep ==
    ASSUME ApplyInv, TypeOK', UNCHANGED <<store, run, message, interfered, unannounced>>
    PROVE  ApplyInv'
BY DEF ApplyInv, PlanIsDiff, StageIsDue, ChangeIsNews, MessagesAreAttempts, Undisturbed,
   Running, run, plan, message

(* Steps that end the run, or begin a new one. *)
LEMMA IdleStep ==
    ASSUME TypeOK',
           phase' = "idle" \/ (phase' = "reading" /\ attempts' = 0 /\ told' = 0)
    PROVE  ApplyInv'
BY DEF ApplyInv, StageIsDue, ChangeIsNews, MessagesAreAttempts, Running

(* Steps of a run that has done all it planned. *)
LEMMA DoneStep ==
    ASSUME ApplyInv, TypeOK', phase \in {"verifying", "checking"},
           phase' \in {"checking", "notifying"}, phase' = "notifying" => touched,
           UNCHANGED <<store, plan, message, interfered, unannounced>>
    PROVE  ApplyInv'
BY DEF ApplyInv, PlanIsDiff, StageIsDue, ChangeIsNews, MessagesAreAttempts, Undisturbed,
   Running, plan, message

(* Another attempt to send the message of a run. *)
LEMMA AttemptStep ==
    ASSUME ApplyInv, TypeOK', NotifyUnheard, phase' = phase
    PROVE  ApplyInv'
<1>1. /\ phase = "notifying" /\ phase' = "notifying" /\ attempts < MaxRetries
      /\ UNCHANGED <<store, plan, interfered>>
      /\ attempts' = attempts + 1
      /\ (told' = told + 1 /\ ~unannounced') \/ UNCHANGED <<told, unannounced>>
  BY DEF NotifyUnheard, Stop, Delivered, points
<1>2. told \in Nat /\ attempts \in Nat
  BY RetriesAssumption DEF ApplyInv, TypeOK
<1>3. Undisturbed' => Undisturbed
  BY <1>1, <1>2 DEF Undisturbed
<1>4. Running' /\ Undisturbed' => PlanIsDiff'
  BY <1>1, <1>3 DEF ApplyInv, PlanIsDiff, Running, plan
<1>5. StageIsDue'
  BY <1>1 DEF ApplyInv, StageIsDue, plan
<1>6. ChangeIsNews'
  BY <1>1, <1>2 DEF ApplyInv, ChangeIsNews, Running, plan
<1>7. MessagesAreAttempts'
  BY <1>1, <1>2 DEF ApplyInv, MessagesAreAttempts
<1>. QED
  BY <1>4, <1>5, <1>6, <1>7 DEF ApplyInv

(* Every step keeps the invariant. *)
LEMMA NextApplyInv == ApplyInv /\ [Next]_vars => ApplyInv'
<1> SUFFICES ASSUME ApplyInv, [Next]_vars PROVE ApplyInv'
  OBVIOUS
<1>0. TypeOK /\ TypeOK'
  BY NextTypeOK DEF ApplyInv
<1>1. ASSUME NEW m \in Manifest, Push(m)
      PROVE ApplyInv'
  BY <1>0, <1>1, AsideStep DEF Push, points
<1>2. ASSUME NEW m \in published, Rerun(m)
      PROVE ApplyInv'
  BY <1>0, <1>2, AsideStep DEF Rerun, points
<1>3. ASSUME NEW m \in queue, Start(m)
      PROVE ApplyInv'
  BY <1>0, <1>3, IdleStep DEF Start
<1>4. CASE Disabled \/ Fail \/ Refused \/ Notify \/ NotifyUnheard
  <2>1. CASE Disabled \/ Fail \/ Refused \/ Notify
    BY <1>0, <2>1, IdleStep DEF Disabled, Fail, Refused, Notify, Stop
  <2>2. CASE NotifyUnheard
    BY <1>0, <2>2, IdleStep, AttemptStep DEF NotifyUnheard, Stop
  <2>. QED
    BY <1>4, <2>1, <2>2
<1>5. CASE Bootstrap
  BY <1>0, <1>5, AsideStep DEF Bootstrap
<1>6. CASE Read
  <2>1. PlanIsDiff'
    BY <1>6 DEF Read, PlanIsDiff, points
  <2>2. StageIsDue'
    BY <1>6, StageOf DEF Read, StageIsDue
  <2>3. ChangeIsNews'
    BY <1>6, StageOf DEF Read, ChangeIsNews
  <2>4. MessagesAreAttempts'
    BY <1>6, StageOf DEF Read, ApplyInv, MessagesAreAttempts, message
  <2>. QED
    BY <1>0, <2>1, <2>2, <2>3, <2>4 DEF ApplyInv
<1>7. ASSUME NEW batch \in SUBSET Chunks, Upsert(batch)
      PROVE ApplyInv'
  <2>1. batch \in SUBSET upserts /\ batch # {}
    BY <1>7, BatchIsPart DEF Upsert
  <2>2. /\ UNCHANGED <<target, deletes, touched, interfered, attempts, told>>
        /\ attempts = 0 /\ told = 0
    BY <1>7 DEF Upsert, message, ApplyInv, MessagesAreAttempts
  <2>3. store' = Executed(batch, target) /\ upserts' = upserts \ batch
    BY <1>7 DEF Upsert, Mutate
  <2>4. PlanIsDiff => PlanIsDiff' /\ store' # store
    BY <1>0, <2>1, <2>2, <2>3, UpsertLeaves DEF PlanIsDiff
  <2>5. unannounced' = (unannounced \/ store' # store)
    BY <1>7 DEF Upsert, Mutate
  <2>6. Running
    BY <1>7 DEF Upsert, Running
  <2>7. Undisturbed' => PlanIsDiff'
    BY <2>2, <2>4, <2>5, <2>6 DEF ApplyInv, Undisturbed
  <2>8. StageIsDue'
    BY <1>7, <2>2, StageOf DEF Upsert, StageIsDue
  <2>9. ChangeIsNews'
    <3>1. phase' # "notifying"
      BY <1>7, StageOf DEF Upsert
    <3>2. unannounced'
      BY <2>2, <2>4, <2>5, <2>6 DEF ApplyInv, Undisturbed
    <3>. QED
      BY <3>1, <3>2 DEF ChangeIsNews
  <2>10. MessagesAreAttempts'
    BY <1>7, <2>2, StageOf DEF Upsert, MessagesAreAttempts
  <2>. QED
    BY <1>0, <2>7, <2>8, <2>9, <2>10 DEF ApplyInv
<1>8. ASSUME NEW batch \in SUBSET Chunks, Delete(batch)
      PROVE ApplyInv'
  <2>1. batch \in SUBSET deletes /\ batch # {}
    BY <1>8, BatchIsPart DEF Delete
  <2>2. /\ UNCHANGED <<target, upserts, touched, interfered, attempts, told>>
        /\ attempts = 0 /\ told = 0
    BY <1>8 DEF Delete, message, ApplyInv, MessagesAreAttempts
  <2>3. store' = Executed(batch, target) /\ deletes' = deletes \ batch
    BY <1>8 DEF Delete, Mutate
  <2>4. PlanIsDiff => PlanIsDiff' /\ store' # store
    BY <1>0, <2>1, <2>2, <2>3, DeleteLeaves DEF PlanIsDiff
  <2>5. unannounced' = (unannounced \/ store' # store)
    BY <1>8 DEF Delete, Mutate
  <2>6. Running
    BY <1>8 DEF Delete, Running
  <2>7. Undisturbed' => PlanIsDiff'
    BY <2>2, <2>4, <2>5, <2>6 DEF ApplyInv, Undisturbed
  <2>8. StageIsDue'
    BY <1>8, <2>2, StageOf DEF Delete, StageIsDue, ApplyInv
  <2>9. ChangeIsNews'
    <3>1. phase' # "notifying"
      BY <1>8, StageOf DEF Delete
    <3>2. unannounced'
      BY <2>2, <2>4, <2>5, <2>6 DEF ApplyInv, Undisturbed
    <3>. QED
      BY <3>1, <3>2 DEF ChangeIsNews
  <2>10. MessagesAreAttempts'
    BY <1>8, <2>2, StageOf DEF Delete, MessagesAreAttempts
  <2>. QED
    BY <1>0, <2>7, <2>8, <2>9, <2>10 DEF ApplyInv
<1>9. CASE Verify
  BY <1>0, <1>9, IdleStep, DoneStep DEF Verify, points, ApplyInv
<1>10. CASE Retrieve
  BY <1>0, <1>10, IdleStep, DoneStep DEF Retrieve, points
<1>11. ASSUME NEW batch \in SUBSET Chunks, RequestFails(batch)
       PROVE ApplyInv'
  BY <1>0, <1>11, IdleStep DEF RequestFails, Stop
<1>12. ASSUME NEW r \in late, Land(r)
       PROVE ApplyInv'
  <2>1. UNCHANGED <<run, message>>
    BY <1>12 DEF Land
  <2>2. unannounced' = (unannounced \/ store' # store) /\ interfered' = TRUE
    BY <1>12 DEF Land
  <2>3. ~unannounced' => store' = store /\ ~unannounced
    BY <2>2
  <2>4. Running' /\ Undisturbed' => PlanIsDiff'
    BY <2>1, <2>2, <2>3 DEF ApplyInv, Undisturbed, Running, PlanIsDiff, run, plan, message
  <2>5. StageIsDue' /\ ChangeIsNews' /\ MessagesAreAttempts'
    BY <2>1, <2>2 DEF ApplyInv, StageIsDue, ChangeIsNews, MessagesAreAttempts, Running, run,
       plan, message
  <2>. QED
    BY <1>0, <2>4, <2>5 DEF ApplyInv
<1>13. CASE UNCHANGED vars
  BY <1>0, <1>13, AsideStep DEF vars, points
<1>. QED
  BY <1>1, <1>2, <1>3, <1>4, <1>5, <1>6, <1>7, <1>8, <1>9, <1>10, <1>11, <1>12, <1>13
  DEF Next, Steps, Faults

(* The invariant holds of every reachable state. *)
LEMMA ApplyInvariant == Spec => []ApplyInv
BY InitApplyInv, NextApplyInv, PTL DEF Spec

(* A run that has reported success has ended at its manifest. *)
ReportIsTrue ==
    /\ outcome # "none" => phase = "idle"
    /\ outcome \in {"noop", "applied"} /\ ~interfered => store = target

(* A report is made at the end of a run, of what was verified; it is withdrawn *)
(* by the next run and spoilt only by a late request.                          *)
LEMMA NextReportIsTrue == ApplyInv /\ ReportIsTrue /\ [Next]_vars => ReportIsTrue'
<1> SUFFICES ASSUME ApplyInv, ReportIsTrue, [Next]_vars PROVE ReportIsTrue'
  OBVIOUS
<1>. USE DEF points, plan, run
<1>1. CASE \/ \E m \in Manifest : Push(m)
           \/ \E m \in published : Rerun(m)
           \/ Bootstrap
           \/ UNCHANGED vars
  BY <1>1 DEF Push, Rerun, Bootstrap, vars, ReportIsTrue
<1>2. CASE \E m \in queue : Start(m)
  BY <1>2 DEF Start, ReportIsTrue
<1>3. CASE \/ Disabled \/ Fail \/ Refused \/ NotifyUnheard
           \/ \E batch \in SUBSET Chunks : RequestFails(batch)
  BY <1>3 DEF Disabled, Fail, Refused, NotifyUnheard, RequestFails, Stop, ReportIsTrue
<1>4. CASE Read \/ \E batch \in SUBSET Chunks : Upsert(batch) \/ Delete(batch)
  BY <1>4 DEF Read, Upsert, Delete, ReportIsTrue
<1>5. CASE Verify
  BY <1>5 DEF Verify, ReportIsTrue
<1>6. CASE Retrieve \/ Notify
  <2>1. ~interfered => store = target
    BY <1>6, NoDiffIsTarget DEF Retrieve, Notify, ApplyInv, Undisturbed, StageIsDue, Running
  <2>. QED
    BY <1>6, <2>1 DEF Retrieve, Notify, ReportIsTrue
<1>7. CASE \E r \in late : Land(r)
  BY <1>7 DEF Land, ReportIsTrue
<1>. QED
  BY <1>1, <1>2, <1>3, <1>4, <1>5, <1>6, <1>7 DEF Next, Steps, Faults

(* A run that plans from one look at the store, and sends the plan in batches *)
(* of any size, is at its manifest when it comes to verify it, whatever       *)
(* earlier runs left behind, and that is what its report of success means.    *)
THEOREM PlanIsSufficient == Spec => []PlanReachesTarget
<1>1. Init => ReportIsTrue
  BY DEF Init, ReportIsTrue
<1>2. ApplyInv /\ ReportIsTrue => PlanReachesTarget
  BY NoDiffIsTarget DEF ApplyInv, Undisturbed, PlanReachesTarget, StageIsDue, Running, ReportIsTrue
<1>. QED
  BY <1>1, <1>2, ApplyInvariant, NextReportIsTrue, PTL DEF Spec

(* What is told is true when it is told, of a run that changed something: the  *)
(* first message of a run is news, and every other of the same run is a retry  *)
(* after an answer that was lost.                                              *)
THEOREM NewsIsTrue == Spec => AnnouncedIsNews
<1>1. ASSUME ApplyInv, [Next]_vars, told' > told
      PROVE  /\ touched
             /\ ~interfered => store = target
             /\ unannounced \/ told > 0
             /\ told <= MaxRetries
  <2>1. phase = "notifying"
    <3>1. told \in Nat
      BY <1>1 DEF ApplyInv, TypeOK
    <3>2. told' # 0 /\ told' # told
      BY <1>1, <3>1
    <3>3. Notify \/ NotifyUnheard
      BY <1>1, <3>2 DEF Next, Steps, Faults, Push, Rerun, Start, Disabled, Bootstrap, Read,
         Upsert, Delete, Verify, Retrieve, Fail, Refused, RequestFails, Land, vars, message
    <3>. QED
      BY <3>3 DEF Notify, NotifyUnheard
  <2>2. /\ touched /\ upserts = {} /\ deletes = {} /\ Running
        /\ unannounced \/ told > 0
    BY <1>1, <2>1 DEF ApplyInv, StageIsDue, ChangeIsNews, Running
  <2>3. ~interfered => store = target
    BY <1>1, <2>2, NoDiffIsTarget DEF ApplyInv, Undisturbed
  <2>4. told <= MaxRetries
    BY <1>1, <2>1, RetriesAssumption DEF ApplyInv, TypeOK, MessagesAreAttempts
  <2>. QED
    BY <2>2, <2>3, <2>4
<1>2. ApplyInv /\ [Next]_vars
      => [told' > told => /\ touched
                          /\ ~interfered => store = target
                          /\ unannounced \/ told > 0
                          /\ told <= MaxRetries]_vars
  BY <1>1
<1>. QED
  BY <1>2, ApplyInvariant, PTL DEF Spec, AnnouncedIsNews

-----------------------------------------------------------------------------
(* What a step does to the store: nothing, or it executes one request of the  *)
(* run, or one that was late.                                                  *)

RunPuts == \E batch \in SUBSET upserts :
    store' = Executed(batch, target) /\ UNCHANGED <<published, target>>

RunDrops == \E batch \in SUBSET deletes :
    store' = Executed(batch, target) /\ upserts = {} /\ UNCHANGED <<published, target>>

(* Every step is one of these. *)
LEMMA StoreStep ==
    ASSUME ApplyInv, [Next]_vars
    PROVE  \/ UNCHANGED store
           \/ Running /\ UNCHANGED interfered /\ (RunPuts \/ RunDrops)
           \/ interfered' /\ \E r \in late : Land(r)
<1>1. ASSUME NEW batch \in SUBSET Chunks, Upsert(batch)
      PROVE  Running /\ UNCHANGED interfered /\ RunPuts
  <2>1. batch \in SUBSET upserts
    BY <1>1, BatchIsPart DEF Upsert
  <2>. QED
    BY <1>1, <2>1 DEF Upsert, Mutate, RunPuts, Running, repository
<1>2. ASSUME NEW batch \in SUBSET Chunks, Delete(batch)
      PROVE  Running /\ UNCHANGED interfered /\ RunDrops
  <2>1. batch \in SUBSET deletes
    BY <1>2, BatchIsPart DEF Delete
  <2>2. upserts = {}
    BY <1>2 DEF Delete, ApplyInv, StageIsDue
  <2>. QED
    BY <1>2, <2>1, <2>2 DEF Delete, Mutate, RunDrops, Running, repository
<1>3. ASSUME NEW batch \in SUBSET Chunks, RequestFails(batch)
      PROVE  \/ UNCHANGED store
             \/ Running /\ UNCHANGED interfered /\ (RunPuts \/ RunDrops)
  <2>1. CASE ~Mutate(batch)
    BY <1>3, <2>1 DEF RequestFails
  <2>2. CASE Mutate(batch) /\ phase = "upserting" /\ batch \in Batches(upserts)
    <3>1. batch \in SUBSET upserts
      BY <2>2, BatchIsPart
    <3>. QED
      BY <1>3, <2>2, <3>1 DEF RequestFails, Mutate, RunPuts, Running, repository, plan
  <2>3. CASE Mutate(batch) /\ phase = "deleting" /\ batch \in Batches(deletes)
    <3>1. batch \in SUBSET deletes /\ upserts = {}
      BY <2>3, BatchIsPart DEF ApplyInv, StageIsDue
    <3>. QED
      BY <1>3, <2>3, <3>1 DEF RequestFails, Mutate, RunDrops, Running, repository, plan
  <2>. QED
    BY <1>3, <2>1, <2>2, <2>3 DEF RequestFails
<1>4. ASSUME NEW r \in late, Land(r)
      PROVE  interfered'
  BY <1>4 DEF Land
<1>5. ASSUME \/ \E m \in Manifest : Push(m)
             \/ \E m \in published : Rerun(m)
             \/ \E m \in queue : Start(m)
      PROVE  UNCHANGED store
  BY <1>5 DEF Push, Rerun, Start, points
<1>6. ASSUME Disabled \/ Bootstrap \/ Read \/ Verify \/ Retrieve \/ Notify \/ Fail
             \/ Refused \/ NotifyUnheard
      PROVE  UNCHANGED store
  BY <1>6 DEF Disabled, Bootstrap, Read, Verify, Retrieve, Notify, Fail, Refused,
     NotifyUnheard, points
<1>7. CASE UNCHANGED vars
  BY <1>7 DEF vars, points
<1>. QED
  BY <1>1, <1>2, <1>3, <1>4, <1>5, <1>6, <1>7 DEF Next, Steps, Faults

(* While its plan is the diff, a run only replaces and adds what its manifest *)
(* has, and drops only what it does not have when the rest is in place.       *)
LEMMA RunStep ==
    ASSUME ApplyInv, Running, ~interfered
    PROVE  /\ \A c \in upserts : target[c] # Absent
           /\ \A c \in deletes : target[c] = Absent
           /\ upserts = {} => Complete(target)
BY DEF ApplyInv, Undisturbed, PlanIsDiff, Upserts, Deletes, Complete

(* PR_PLAN_PHASE_2.md:1071: "Delete stale points only after required upserts succeed",      *)
(* also when a batch is reported as failed and was executed all the same.      *)
THEOREM NeverAGap == Spec => NoGap
<1>1. ASSUME ApplyInv, [Next]_vars, Disappears, ~interfered'
      PROVE  Complete(target)
  <2>1. Running /\ ~interfered /\ (RunPuts \/ RunDrops)
    BY <1>1, StoreStep DEF Disappears
  <2>2. CASE RunPuts
    BY <1>1, <2>1, <2>2, RunStep DEF RunPuts, Disappears, Executed, ApplyInv, TypeOK, Manifest
  <2>3. CASE RunDrops
    BY <1>1, <2>1, <2>3, RunStep DEF RunDrops
  <2>. QED
    BY <2>1, <2>2, <2>3
<1>2. ApplyInv /\ [Next]_vars => [Disappears /\ ~interfered' => Complete(target)]_vars
  BY <1>1
<1>. QED
  BY <1>2, ApplyInvariant, PTL DEF Spec, NoGap

-----------------------------------------------------------------------------
(* The promise of an index.  Also a run that a late request has disturbed      *)
(* works for its manifest, and what is late was sent for a published one.      *)

WorkFollowsTarget ==
    /\ \A c \in upserts : target[c] # Absent
    /\ \A c \in deletes : target[c] = Absent

LateIsPublished == \A r \in late : r.to \in published

(* What is left of a plan only gets less, and a request is sent for the target. *)
LEMMA WorkIsForPublished == Spec => [](WorkFollowsTarget /\ LateIsPublished)
<1>1. Init => WorkFollowsTarget /\ LateIsPublished
  BY DEF Init, WorkFollowsTarget, LateIsPublished
<1>2. TypeOK /\ WorkFollowsTarget /\ LateIsPublished /\ [Next]_vars
      => (WorkFollowsTarget /\ LateIsPublished)'
  <2> SUFFICES ASSUME TypeOK, WorkFollowsTarget, LateIsPublished, [Next]_vars
               PROVE  WorkFollowsTarget' /\ LateIsPublished'
    OBVIOUS
  <2>. USE DEF repository, points, plan, run, WorkFollowsTarget, LateIsPublished
  <2>1. ASSUME NEW m, Push(m) \/ Rerun(m) \/ Start(m)
        PROVE  WorkFollowsTarget' /\ LateIsPublished'
    BY <2>1 DEF Push, Rerun, Start
  <2>2. CASE Read
    BY <2>2 DEF Read, Upserts, Deletes
  <2>3. ASSUME NEW batch, Upsert(batch) \/ Delete(batch)
        PROVE  WorkFollowsTarget' /\ LateIsPublished'
    BY <2>3 DEF Upsert, Delete
  <2>4. ASSUME NEW batch, RequestFails(batch)
        PROVE  WorkFollowsTarget' /\ LateIsPublished'
    BY <2>4 DEF RequestFails, TypeOK
  <2>5. ASSUME NEW r \in late, Land(r)
        PROVE  WorkFollowsTarget' /\ LateIsPublished'
    BY <2>5 DEF Land
  <2>6. CASE Disabled \/ Bootstrap \/ Verify \/ Retrieve \/ Notify \/ Fail \/ Refused
             \/ NotifyUnheard
    BY <2>6 DEF Disabled, Bootstrap, Verify, Retrieve, Notify, Fail, Refused, NotifyUnheard
  <2>7. CASE UNCHANGED vars
    BY <2>7 DEF vars
  <2>. QED
    BY <2>1, <2>2, <2>3, <2>4, <2>5, <2>6, <2>7 DEF Next, Steps, Faults
<1>. QED
  BY <1>1, <1>2, ApplyTypeCorrect, PTL DEF Spec

(* Every step of an apply is a step of the promise, or none at all. *)
LEMMA StepKeepsPromise ==
    ASSUME ApplyInv, WorkFollowsTarget, LateIsPublished, [Next]_vars
    PROVE  [Promise!Next]_<<published, target, store, interfered>>
<1>. USE DEF Promise!Manifest, Promise!Absent, Manifest, Absent
<1>1. CASE Running /\ UNCHANGED interfered /\ RunPuts
  <2>1. PICK batch \in SUBSET upserts :
           store' = Executed(batch, target) /\ UNCHANGED <<published, target>>
    BY <1>1 DEF RunPuts
  <2>2. Promise!Put(batch)
    BY <1>1, <2>1 DEF WorkFollowsTarget, Promise!Put, Promise!Replaced, Executed
  <2>. QED
    BY <2>1, <2>2 DEF Promise!Next, ApplyInv, TypeOK
<1>2. CASE Running /\ UNCHANGED interfered /\ RunDrops
  <2>1. PICK batch \in SUBSET deletes :
           store' = Executed(batch, target) /\ UNCHANGED <<published, target>> /\ upserts = {}
    BY <1>2 DEF RunDrops
  <2>2. interfered \/ \A c \in Chunks : target[c] # Absent => store[c] = target[c]
    BY <1>2, <2>1, RunStep DEF Complete
  <2>3. Promise!Drop(batch)
    BY <1>2, <2>1, <2>2 DEF WorkFollowsTarget, Promise!Drop, Promise!Replaced, Executed
  <2>. QED
    BY <2>1, <2>3 DEF Promise!Next, ApplyInv, TypeOK
<1>3. ASSUME NEW r \in late, Land(r)
      PROVE  Promise!Next
  <2>1. r.chunks \in SUBSET Chunks /\ r.to \in published
    BY DEF ApplyInv, TypeOK, Request, LateIsPublished
  <2>2. Promise!Stray(r.chunks, r.to)
    BY <1>3 DEF Land, Promise!Stray, Promise!Replaced, Executed, repository, run, plan
  <2>. QED
    BY <2>1, <2>2 DEF Promise!Next
<1>4. CASE UNCHANGED store /\ ~(\E r \in late : Land(r))
  <2>1. ASSUME NEW m \in Manifest, Push(m)
        PROVE  Promise!Publish(m)
    BY <1>4, <2>1 DEF Push, Promise!Publish, run, plan
  <2>2. ASSUME NEW m \in queue, Start(m)
        PROVE  m \in published /\ Promise!Aim(m)
    BY <1>4, <2>2 DEF Start, Promise!Aim, ApplyInv, TypeOK
  <2>3. ASSUME ~(\E m \in Manifest : Push(m)), ~(\E m \in queue : Start(m))
        PROVE  UNCHANGED <<published, target, interfered>>
    BY <1>4, <2>3 DEF Next, Steps, Faults, Rerun, Disabled, Bootstrap, Read, Upsert, Delete,
       Verify, Retrieve, Notify, Fail, Refused, RequestFails, NotifyUnheard, vars,
       repository, run, plan
  <2>. QED
    BY <1>4, <2>1, <2>2, <2>3 DEF Promise!Next
<1>. QED
  BY <1>1, <1>2, <1>3, <1>4, StoreStep

(* An apply implements the promise of an index: it brings the points to one   *)
(* published manifest, none goes before all of that manifest is served, and a *)
(* request executed late does no more than it was once sent for.              *)
THEOREM ImplementsPromise == Spec => KeepsPromise
<1>1. Init => Promise!Init
  BY DEF Init, Promise!Init, Promise!Nothing, Promise!Absent, Nothing, Absent
<1>2. ApplyInv /\ WorkFollowsTarget /\ LateIsPublished /\ [Next]_vars
      => [Promise!Next]_<<published, target, store, interfered>>
  BY StepKeepsPromise
<1>. QED
  BY <1>1, <1>2, WorkIsForPublished, ApplyInvariant, PTL
  DEF Spec, KeepsPromise, Promise!Spec, Promise!vars
=============================================================================
