---------------------------- MODULE VectorApply ----------------------------
(***************************************************************************)
(* Applying the index manifest of main to the vector store:                *)
(*   application/apply_index.py          read, diff, upsert, delete, verify,*)
(*   adapters/index/qdrant.py            mutations in batches,             *)
(*   application/bootstrap_vector_index.py   the explicit first creation,   *)
(*   cli.py, .github/workflows/apply-index.yml   the run around them,      *)
(*   adapters/notification/telegram.py   the announcement and its retries. *)
(*                                                                         *)
(* A run reads the managed points once and plans from what it read; then it*)
(* sends one request per batch.  Any request can fail, having been executed*)
(* or not, or time out and be executed later; a run that fails stops, and  *)
(* somebody may start it again, for the newest commit or an older one.     *)
(***************************************************************************)
EXTENDS Naturals, FiniteSets

CONSTANTS
    Chunks,      \* stable chunk identifiers
    Hashes,      \* body hashes of chunks
    BatchSize,   \* points of one mutation request (128)
    MaxRetries,  \* further attempts to send a message (TELEGRAM_MAX_RETRIES)
    MaxPushes,   \* bound: pushes to main
    MaxFaults,   \* bound: failures and reruns of old commits
    MaxLate      \* bound: timed-out requests still on their way

ASSUME BatchSizeAssumption == BatchSize \in Nat \ {0}
ASSUME RetriesAssumption == MaxRetries \in Nat
ASSUME BoundsAssumption == MaxPushes \in Nat /\ MaxFaults \in Nat /\ MaxLate \in Nat

VARIABLES
    \* the repository and the workflow queue
    published,   \* manifests of the commits main has had
    latest,      \* manifest of the newest one
    queue,       \* the run that waits for the running one, if any
    \* the vector store
    collection,  \* "absent", "incompatible" or "ready"
    store,       \* managed points, by chunk
    late,        \* requests that timed out and may yet be executed
    \* the run
    phase, target, upserts, deletes, touched, outcome,
    attempts,      \* attempts to send index_done that have failed
    \* observation only: never read by an action of the program
    interfered,   \* a late request was executed since the run began
    unannounced,  \* the store changed since the last index_done
    told,         \* index_done messages of the run that were delivered
    pushes, faults

Absent == "absent"
Manifest == [Chunks -> Hashes \union {Absent}]
Nothing == [c \in Chunks |-> Absent]
Request == [chunks : SUBSET Chunks, to : Manifest]

repository == <<published, latest, queue, pushes>>
points == <<collection, store, late>>
plan == <<target, upserts, deletes, touched>>
run == <<phase, plan, outcome>>
message == <<attempts, told>>
vars == <<repository, points, run, message, interfered, unannounced, faults>>

Phases == {"idle", "reading", "upserting", "deleting", "verifying", "checking", "notifying"}

TypeOK ==
    /\ published \subseteq Manifest
    /\ latest \in published
    /\ queue \subseteq published
    /\ collection \in {"absent", "incompatible", "ready"}
    /\ store \in Manifest
    /\ late \subseteq Request
    /\ phase \in Phases
    /\ target \in published
    /\ upserts \subseteq Chunks
    /\ deletes \subseteq Chunks
    /\ touched \in BOOLEAN
    /\ outcome \in {"none", "failed", "disabled", "noop", "applied"}
    /\ attempts \in 0 .. MaxRetries
    /\ interfered \in BOOLEAN
    /\ unannounced \in BOOLEAN
    /\ told \in Nat
    /\ pushes \in Nat
    /\ faults \in Nat

Init ==
    /\ published = {Nothing}
    /\ latest = Nothing
    /\ queue = {}
    /\ collection \in {"absent", "incompatible"}
    /\ store = Nothing
    /\ late = {}
    /\ phase = "idle"
    /\ target = Nothing
    /\ upserts = {}
    /\ deletes = {}
    /\ touched = FALSE
    /\ outcome = "none"
    /\ attempts = 0
    /\ interfered = FALSE
    /\ unannounced = FALSE
    /\ told = 0
    /\ pushes = 0
    /\ faults = 0

-----------------------------------------------------------------------------
(* The diff and its requests.                                              *)

\* Mutant of Upserts: only the identifiers are compared, not the bodies.
UpsertsByIdentifier(actual, desired) ==
    {c \in Chunks : desired[c] # Absent /\ actual[c] = Absent}

\* Chunks missing from the managed points, or there with another body.
Upserts(actual, desired) == {c \in Chunks : desired[c] # Absent /\ actual[c] # desired[c]}

\* Mutant of Deletes: stale points are left to somebody else.
DeletesForgotten(actual, desired) == {}

\* Managed points whose chunk the manifest does not have.
Deletes(actual, desired) == {c \in Chunks : actual[c] # Absent /\ desired[c] = Absent}

\* Mutants of Stage: stale points are deleted first, or a stage nobody handles ends it.
StageDeletesFirst(ups, dels) ==
    IF dels # {} THEN "deleting" ELSE IF ups # {} THEN "upserting" ELSE "verifying"
StageUnknown(ups, dels) ==
    IF ups # {} THEN "upserting" ELSE IF dels # {} THEN "deleting" ELSE "verified"

\* What is left to do decides what comes next: every upsert before any delete.
Stage(ups, dels) ==
    IF ups # {} THEN "upserting" ELSE IF dels # {} THEN "deleting" ELSE "verifying"

\* A request is a full batch, or what is left when that is less.
Batches(left) ==
    {b \in SUBSET left : /\ b # {}
                         /\ Cardinality(b) <= BatchSize
                         /\ Cardinality(b) = BatchSize \/ b = left}

\* Executing a request: its points become what its manifest says of them.  Point
\* identifiers are a function of the chunk, so an upsert replaces and never adds
\* a second point.
Executed(chunks, manifest) ==
    [c \in Chunks |-> IF c \in chunks THEN manifest[c] ELSE store[c]]

-----------------------------------------------------------------------------
(* The repository.                                                         *)

\* A merge that changes candidates or Markdown queues a run; the concurrency
\* group keeps one run waiting, the newest.
Push(m) ==
    /\ pushes < MaxPushes
    /\ m # latest
    /\ published' = published \union {m}
    /\ latest' = m
    /\ queue' = {m}
    /\ pushes' = pushes + 1
    /\ UNCHANGED <<points, run, message, interfered, unannounced, faults>>

\* Somebody dispatches the workflow, or runs that of an older commit again.
Rerun(m) ==
    /\ m \in published
    /\ queue # {m}
    /\ IF m = latest
       THEN queue = {} /\ UNCHANGED faults
       ELSE faults < MaxFaults /\ faults' = faults + 1
    /\ queue' = {m}
    /\ UNCHANGED <<published, latest, pushes, points, run, message, interfered, unannounced>>

-----------------------------------------------------------------------------
(* The run.                                                                *)

Start(m) ==
    /\ phase = "idle"
    /\ m \in queue
    /\ queue' = {}
    /\ phase' = "reading"
    /\ target' = m
    /\ upserts' = {}
    /\ deletes' = {}
    /\ touched' = FALSE
    /\ outcome' = "none"
    /\ attempts' = 0
    /\ told' = 0
    /\ interfered' = FALSE
    /\ UNCHANGED <<published, latest, pushes, points, unannounced, faults>>

\* Apply is switched off: no client is built and nothing is claimed verified.
Disabled ==
    /\ phase = "reading"
    /\ faults < MaxFaults
    /\ faults' = faults + 1
    /\ phase' = "idle"
    /\ outcome' = "disabled"
    /\ UNCHANGED <<repository, points, plan, message, interfered, unannounced>>

\* Only on request, and only when there is none: one that exists is never remade.
Bootstrap ==
    /\ phase = "reading"
    /\ collection = "absent"
    /\ collection' = "ready"
    /\ UNCHANGED <<repository, store, late, run, message, interfered, unannounced, faults>>

\* The only look at the store before it is changed.
Read ==
    /\ phase = "reading"
    /\ collection = "ready"
    /\ upserts' = Upserts(store, target)
    /\ deletes' = Deletes(store, target)
    /\ touched' = (upserts' \union deletes' # {})
    /\ phase' = Stage(upserts', deletes')
    /\ UNCHANGED <<repository, points, target, outcome, message, interfered, unannounced,
                   faults>>

Mutate(chunks) ==
    /\ store' = Executed(chunks, target)
    /\ unannounced' = (unannounced \/ store' # store)

Upsert(batch) ==
    /\ phase = "upserting"
    /\ batch \in Batches(upserts)
    /\ Mutate(batch)
    /\ upserts' = upserts \ batch
    /\ phase' = Stage(upserts', deletes)
    /\ UNCHANGED <<repository, collection, late, target, deletes, touched, outcome,
                   message, interfered, faults>>

Delete(batch) ==
    /\ phase = "deleting"
    /\ batch \in Batches(deletes)
    /\ Mutate(batch)
    /\ deletes' = deletes \ batch
    /\ phase' = Stage(upserts, deletes')
    /\ UNCHANGED <<repository, collection, late, target, upserts, touched, outcome,
                   message, interfered, faults>>

\* Read again: exactly the desired chunks, each with the desired body.
Verify ==
    /\ phase = "verifying"
    /\ IF store = target
       THEN phase' = "checking" /\ UNCHANGED outcome
       ELSE phase' = "idle" /\ outcome' = "failed"
    /\ UNCHANGED <<repository, points, plan, message, interfered, unannounced, faults>>

\* Mutant of Retrieve: every verified run is announced.
RetrieveAndTell ==
    /\ phase = "checking"
    /\ phase' = "notifying"
    /\ UNCHANGED <<repository, points, plan, outcome, message, interfered, unannounced,
                   faults>>

\* The golden questions pass.  Only an apply that changed something is announced.
Retrieve ==
    /\ phase = "checking"
    /\ IF touched
       THEN phase' = "notifying" /\ UNCHANGED outcome
       ELSE phase' = "idle" /\ outcome' = "noop"
    /\ UNCHANGED <<repository, points, plan, message, interfered, unannounced, faults>>

Delivered ==
    /\ told' = told + 1
    /\ unannounced' = FALSE

\* An attempt to send index_done is answered with success.
Notify ==
    /\ phase = "notifying"
    /\ phase' = "idle"
    /\ outcome' = "applied"
    /\ Delivered
    /\ UNCHANGED <<repository, points, plan, attempts, interfered, faults>>

Stop ==
    /\ faults < MaxFaults
    /\ faults' = faults + 1
    /\ phase' = "idle"
    /\ outcome' = "failed"

\* Any step raises, the message is refused for good, or the job is killed: nothing is sent.
Fail ==
    /\ phase # "idle"
    /\ Stop
    /\ UNCHANGED <<repository, points, plan, message, interfered, unannounced>>

\* A collection that is missing or of another dimension stops every run.
Refused ==
    /\ phase = "reading"
    /\ collection # "ready"
    /\ phase' = "idle"
    /\ outcome' = "failed"
    /\ UNCHANGED <<repository, points, plan, message, interfered, unannounced, faults>>

\* A request is reported as failed although the store executed it, or will.
RequestFails(batch) ==
    /\ \/ phase = "upserting" /\ batch \in Batches(upserts)
       \/ phase = "deleting" /\ batch \in Batches(deletes)
    /\ Stop
    /\ \/ Mutate(batch) /\ UNCHANGED late
       \/ /\ Cardinality(late) < MaxLate
          /\ late' = late \union {[chunks |-> batch, to |-> target]}
          /\ UNCHANGED <<store, unannounced>>
    /\ UNCHANGED <<repository, collection, plan, message, interfered>>

\* An attempt ends without an answer of success, whether the message was delivered or
\* not.  It is made again until the attempts are used up, which fails the run.
NotifyUnheard ==
    /\ phase = "notifying"
    /\ Delivered \/ UNCHANGED <<told, unannounced>>
    /\ IF attempts < MaxRetries
       THEN attempts' = attempts + 1 /\ UNCHANGED <<phase, outcome, faults>>
       ELSE Stop /\ UNCHANGED attempts
    /\ UNCHANGED <<repository, points, plan, interfered>>

\* A request that timed out reaches the store at last.
Land(r) ==
    /\ r \in late
    /\ late' = late \ {r}
    /\ store' = Executed(r.chunks, r.to)
    /\ unannounced' = (unannounced \/ store' # store)
    /\ interfered' = TRUE
    /\ UNCHANGED <<repository, collection, run, message, faults>>

-----------------------------------------------------------------------------

Steps ==
    \/ \E m \in queue : Start(m)
    \/ Disabled
    \/ Bootstrap
    \/ Read
    \/ \E batch \in SUBSET Chunks : Upsert(batch) \/ Delete(batch)
    \/ Verify
    \/ Retrieve
    \/ Notify

Faults ==
    \/ Fail
    \/ Refused
    \/ \E batch \in SUBSET Chunks : RequestFails(batch)
    \/ NotifyUnheard
    \/ \E r \in late : Land(r)

Next ==
    \/ \E m \in Manifest : Push(m)
    \/ \E m \in published : Rerun(m)
    \/ Steps
    \/ Faults

Spec == Init /\ [][Next]_vars

\* A run goes on until it ends; a request on its way arrives; a run that waits
\* is started; and somebody dispatches the workflow again, asking for the
\* collection to be created when there is none.
Fairness ==
    /\ WF_vars(\E m \in queue : Start(m))
    /\ SF_vars(Bootstrap)
    /\ WF_vars(Read \/ Refused)
    /\ WF_vars(\E batch \in SUBSET Chunks : Upsert(batch) \/ Delete(batch))
    /\ WF_vars(Verify)
    /\ WF_vars(Retrieve)
    /\ WF_vars(Notify)
    /\ WF_vars(\E r \in late : Land(r))
    /\ WF_vars(Rerun(latest))

FairSpec == Spec /\ Fairness

-----------------------------------------------------------------------------
(* Properties.                                                             *)

\* What was read once and planned, batch after batch, leads from whatever an
\* earlier run left behind to exactly the manifest - before it is verified, and
\* still when the run is reported and for as long as that report is the last one -
\* unless a request of an earlier run was executed meanwhile.
PlanReachesTarget ==
    /\ \/ phase \in {"verifying", "checking", "notifying"}
       \/ outcome \in {"noop", "applied"}
    /\ ~interfered
    => store = target

\* PR_PLAN_PHASE_2.md:1071: "Delete stale points only after required upserts succeed".  A point
\* disappears, in whatever way its request ends, only when all that the manifest
\* of the run says is served - unless an earlier run's request came in between.
Complete(m) == \A c \in Chunks : m[c] # Absent => store[c] = m[c]
Disappears == \E c \in Chunks : store[c] # Absent /\ store'[c] = Absent
NoGap == [][Disappears /\ ~interfered' => Complete(target)]_vars

\* Every index_done that is delivered is of a run that changed something, and the store
\* says at that moment what the run was for, unless a request of an earlier run came in
\* between.  The first one of a run tells of a change nobody was told of - by this run, or
\* by an earlier one that failed after its announcement - and any other is a retry of it,
\* after an answer that was lost: delivery is at least once, never more than the retries.
AnnouncedIsNews ==
    [][told' > told =>
          /\ touched
          /\ ~interfered => store = target
          /\ unannounced \/ told > 0
          /\ told <= MaxRetries]_vars

\* Failed, repeated and overtaken runs heal: once failures stop and runs are
\* dispatched, the collection serves the manifest of the newest commit for good.
Heals == <>[](store = latest \/ collection = "incompatible")

\* An apply keeps the promise of an index: it works on one published manifest, drops
\* nothing before all of that one is served - until a request of an earlier run comes
\* in between - and never serves what no published manifest says.
Promise == INSTANCE IndexPromise WITH goal <- target, disturbed <- interfered
KeepsPromise == Promise!Spec
=============================================================================
