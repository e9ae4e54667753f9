-------------------------- MODULE ServedDocuments --------------------------
(***************************************************************************)
(* From a reviewer's approval to what is served: CandidateSync and         *)
(* VectorApply over one repository.                                        *)
(*   .github/workflows/metadata-pr.yml   what may come to main,            *)
(*   .github/workflows/apply-index.yml   what its arrival there starts,     *)
(*   Makefile index-build, application/catalog_chunks.py   the manifest.   *)
(*                                                                         *)
(* The working tree is that of the Pull Request that is merged next; the   *)
(* branch has to be up to date, so Pull Requests follow one another.  Each *)
(* table is one chunk, told from another by its document.  People edit and *)
(* synchronise the next tree while runs still apply the manifest of an     *)
(* earlier one, fail, are repeated, and have requests on their way.        *)
(***************************************************************************)
EXTENDS CandidateSync

CONSTANTS
    BatchSize,   \* as in VectorApply
    MaxRetries,  \* as in VectorApply
    MaxPushes,   \* bound: merges that change the manifest of main
    MaxFaults,   \* bound: failures and reruns of old commits
    MaxLate      \* bound: timed-out requests still on their way

ASSUME BatchAssumption == BatchSize \in Nat \ {0}
ASSUME AttemptsAssumption == MaxRetries \in Nat
ASSUME FaultsAssumption == MaxPushes \in Nat /\ MaxFaults \in Nat /\ MaxLate \in Nat

VARIABLES
    main,        \* what the last merge brought of the inputs of candidates
    \* observation only: never read by an action of the program
    unchecked,   \* documents merged for a status set by hand that no check has seen
    \* those of VectorApply; `applying` and `result` are its phase and outcome
    published, latest, queue,
    collection, store, late,
    applying, target, upserts, deletes, touched, result, attempts,
    interfered, unannounced, told, pushes, faults

Index == INSTANCE VectorApply
            WITH Chunks <- Tables, Hashes <- Bodies, phase <- applying, outcome <- result

index == <<published, latest, queue, collection, store, late, applying, target, upserts,
           deletes, touched, result, attempts, interfered, unannounced, told, pushes, faults>>
pipeline == <<vars, main, unchecked, index>>

-----------------------------------------------------------------------------
(* From the tree to the manifest.                                          *)

\* The files whose change makes a Pull Request one with inputs (the environment of the
\* generator is none).
Sources == [raw |-> raw, reviews |-> reviews, inputs |-> inputs]

\* The check of a Pull Request with inputs: every reviewed table was covered by a sync or
\* a validation that passed, and the tree has not been touched since.
Gated == outcome \in {"validated", "synced"} /\ chosen = Reviewed

\* One without inputs, whose newest commit brings no output: the check is green and has
\* looked at nothing, whatever output the commits before brought.
Noop == phase = "idle" /\ Sources = main

\* Every candidate there is can be read and is intact, whoever still reviews it.
Buildable == \A t \in Tables :
    candidates[t] # NoFile => Readable(candidates[t]) /\ Intact(candidates[t])

\* What the manifest says: the documents of the promoted candidates.
Desired == [t \in Tables |-> IF t \in Indexed THEN candidates[t].body ELSE Index!Absent]

-----------------------------------------------------------------------------

\* Tables that a merge would bring to the index for a status nobody approved and no run
\* wrote.  A table without a YAML is not looked at by the check either.
Unchecked == (Indexed \intersect setByHand) \ (IF Gated THEN Reviewed ELSE {})

-----------------------------------------------------------------------------

PipelineInit ==
    /\ Init
    /\ Index!Init
    /\ main = Sources
    /\ unchecked = {}

\* People and the sync go on with the tree.
Prepare ==
    /\ Next
    /\ UNCHANGED <<main, unchecked, index>>

\* The Pull Request is merged and, if that changes the manifest, a run queued for it.
\* One whose chunks cannot be built has none, and its run fails before it reads the store.
Publish ==
    /\ Gated \/ Noop
    /\ main' = Sources
    /\ IF Buildable /\ Desired # latest
       THEN /\ Index!Push(Desired)
            /\ unchecked' = unchecked \union {<<t, candidates[t].body>> : t \in Unchecked}
       ELSE UNCHANGED <<index, unchecked>>
    /\ UNCHANGED vars

\* The index is applied, with all that can go wrong.
Apply ==
    /\ \/ \E m \in published : Index!Rerun(m)
       \/ Index!Steps
       \/ Index!Faults
    /\ UNCHANGED <<vars, main, unchecked>>

PipelineNext == Prepare \/ Publish \/ Apply

PipelineSpec == PipelineInit /\ [][PipelineNext]_pipeline

-----------------------------------------------------------------------------
(* Properties.                                                             *)

\* A document is generated, shown for review, and the content it was made from is
\* approved by a person - or its status was set by hand and merged without a check ...
Warranted(t, body) ==
    \E evidence \in shown[t] :
        /\ evidence[2] = body
        /\ evidence[1].content \in approvals[t] \/ <<t, body>> \in unchecked

\* ... before it is served: whatever is merged unchecked, whatever runs are repeated for
\* old commits, whatever requests arrive late and whatever happens to the tree meanwhile,
\* every point of the store has such a document, and none of another text is ever served
\* (PRD.md:21: after a merge to main only approved documents are indexed).
ServedWasApproved == \A t \in Tables : store[t] # Index!Absent => Warranted(t, store[t])

\* From one end to the other: after a sync of the whole tree, and a reported run for the
\* manifest main has of that tree, a table is served exactly when its YAML is approved,
\* with the document that was sealed for what the YAML says - however many batches,
\* failures and runs for other manifests there were before, unless a late request came.
ServedIsTheTree ==
    /\ outcome = "synced" /\ chosen = Reviewed
    /\ result \in {"noop", "applied"} /\ ~interfered
    /\ target = latest /\ latest = Desired
    => \A t \in Reviewed :
          IF reviews[t].state = "approved"
          THEN ValidCandidate(t) /\ store[t] = candidates[t].sealed
          ELSE store[t] = Index!Absent
=============================================================================
