---------------------------- MODULE IndexPromise ----------------------------
(***************************************************************************)
(* What serving an index promises, whatever applies it: the points are      *)
(* brought to one published manifest at a time, chunk by chunk, and a point *)
(* is dropped only when the whole of that manifest is being served, so a    *)
(* replaced chunk never leaves a gap (PR_PLAN_PHASE_2.md, line 1071:        *)
(* "Delete stale points only after required upserts succeed").              *)
(* A request that went astray earlier may still be executed: it brings its  *)
(* chunks to what another published manifest says, and from then on until   *)
(* the next goal is taken up a gap is possible - but never a point that no  *)
(* published manifest had.                                                  *)
(***************************************************************************)
CONSTANTS
    Chunks,   \* stable chunk identifiers
    Hashes    \* body hashes: what a chunk can say

VARIABLES
    published,  \* the manifests main has had
    goal,       \* the one the points are being brought to
    store,      \* what the collection serves, by chunk
    disturbed   \* a stray request was executed since the goal was taken up

vars == <<published, goal, store, disturbed>>

Absent == "absent"
Manifest == [Chunks -> Hashes \union {Absent}]
Nothing == [c \in Chunks |-> Absent]

Replaced(old, chunks, manifest) ==
    [c \in Chunks |-> IF c \in chunks THEN manifest[c] ELSE old[c]]

Init ==
    /\ published = {Nothing}
    /\ goal = Nothing
    /\ store = Nothing
    /\ disturbed = FALSE

Publish(m) ==
    /\ published' = published \union {m}
    /\ UNCHANGED <<goal, store, disturbed>>

\* Any published manifest may be the next goal, also an older one.
Aim(m) ==
    /\ goal' = m
    /\ disturbed' = FALSE
    /\ UNCHANGED <<published, store>>

\* Chunks of the goal are brought to what it says.
Put(chunks) ==
    /\ \A c \in chunks : goal[c] # Absent
    /\ store' = Replaced(store, chunks, goal)
    /\ UNCHANGED <<published, goal, disturbed>>

\* Chunks that the goal does not have go when all that it has is served.
Drop(chunks) ==
    /\ \A c \in chunks : goal[c] = Absent
    /\ disturbed \/ \A c \in Chunks : goal[c] # Absent => store[c] = goal[c]
    /\ store' = Replaced(store, chunks, goal)
    /\ UNCHANGED <<published, goal, disturbed>>

\* A request of earlier, for whatever manifest was the goal then.
Stray(chunks, m) ==
    /\ store' = Replaced(store, chunks, m)
    /\ disturbed' = TRUE
    /\ UNCHANGED <<published, goal>>

Next ==
    \/ \E m \in Manifest : Publish(m)
    \/ \E m \in published : Aim(m)
    \/ \E chunks \in SUBSET Chunks : Put(chunks) \/ Drop(chunks)
    \/ \E chunks \in SUBSET Chunks, m \in published : Stray(chunks, m)

Spec == Init /\ [][Next]_vars
=============================================================================
