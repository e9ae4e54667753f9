---------------------------- MODULE SyncOutcome ----------------------------
(***************************************************************************)
(* What `metadata sync-candidates` makes of one table of a tree, seen from  *)
(* outside - application/sync_candidates.py without its steps: the required *)
(* check reasons with it (MetadataGate), and CandidateSync implements it    *)
(* file by file (GateSync).                                                 *)
(***************************************************************************)
CONSTANTS
    Contents,   \* what raw schema, review YAML, contract and guideline can say
    Inputs,     \* the contents and review statuses a tree can have
    Texts       \* wordings generators can answer, each with the name of its generator

ASSUME InputsAssumption == Inputs \subseteq [content : Contents, approved : BOOLEAN]

\* `content` is what the candidate was made from (a missing one is like one made from
\* something else), `intact` that its hashes match, `rendered` that the Markdown beside
\* it is what it renders to.
Output == [content : Contents, promoted : BOOLEAN, intact : BOOLEAN,
           rendered : BOOLEAN, text : Texts]

\* `source` is the code that generation depends on: that of main, or changed.
Tree == [input : Inputs, source : {"old", "new"}, output : Output]

-----------------------------------------------------------------------------
(* What a candidate is to its inputs.  `answers` are the texts of the       *)
(* generator that is configured for the sync.                              *)

Current(tree) == tree.output.content = tree.input.content
Valid(tree) == Current(tree) /\ tree.output.intact

\* Its status is that of the review.
Settled(tree) == Valid(tree) /\ tree.output.promoted = tree.input.approved

\* What is approved is kept whoever generated it.
Kept(tree, answers) ==
    Settled(tree) /\ (tree.input.approved \/ tree.output.text \in answers)

Promotable(tree) == Valid(tree) /\ tree.input.approved /\ ~tree.output.promoted

Regenerable(tree, answers) ==
    /\ ~tree.input.approved
    /\ \/ tree.output.promoted
       \/ ~Current(tree)
       \/ tree.output.intact /\ tree.output.text \notin answers

\* What a sync leaves behind: its candidate, and the Markdown rendered from it.
Synced(input, text) ==
    [content |-> input.content, promoted |-> input.approved, intact |-> TRUE,
     rendered |-> TRUE, text |-> text]

\* Mutant of Outcomes: every candidate that is not approved is generated again.
OutcomesEachTime(tree, answers) ==
    IF tree.input.approved
    THEN {Synced(tree.input, t) : t \in {u \in {tree.output.text} : Valid(tree)}}
    ELSE {Synced(tree.input, t) : t \in answers}

\* The outputs a sync can produce; none when it refuses.  A candidate that is kept or
\* promoted keeps its text.
Outcomes(tree, answers) ==
    {Synced(tree.input, t) :
        t \in {u \in Texts : \/ (Kept(tree, answers) \/ Promotable(tree)) /\ u = tree.output.text
                             \/ Regenerable(tree, answers) /\ u \in answers}}

\* Validation alone has no generator, and does not look at the Markdown.
Accepted(tree) == Settled(tree) \/ Promotable(tree)

\* Nothing is left for a sync to do.
Clean(tree, answers) == Kept(tree, answers) /\ tree.output.rendered
=============================================================================
