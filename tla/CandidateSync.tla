--------------------------- MODULE CandidateSync ---------------------------
(***************************************************************************)
(* The candidate lifecycle of one database: reviewer YAML is turned into a *)
(* generated candidate, a human approves it, and the approved candidate is *)
(* promoted and becomes indexable.  The module models                      *)
(*   application/candidate_state.py   what a candidate is bound to,        *)
(*   application/sync_candidates.py   plan, generate, write,               *)
(*   application/catalog_chunks.py    what the index is built from,        *)
(* over the working tree they share with the reviewer.                     *)
(*                                                                         *)
(* One run of `metadata sync-candidates` is Plan, possibly Generate, then  *)
(* one step per file.  Each file is replaced atomically, but the run as a  *)
(* whole is not: it can be interrupted between any two files, and the      *)
(* reviewer can save a file between any two of its steps.                  *)
(***************************************************************************)
EXTENDS Naturals, FiniteSets

CONSTANTS
    Tables,      \* tables of the database
    Contents,    \* what a reviewer YAML can say, document_status apart
    Blocked,     \* contents the review preflight refuses
    Inputs,      \* versions of the contract and guideline files
    Identities,  \* configured (generator model, prompt version) pairs
    Bodies,      \* documents a generator can answer, lifecycle fields apart
    MaxEdits     \* bound: edits of the working tree in one behaviour

ASSUME BlockedAssumption == Blocked \subseteq Contents
ASSUME MaxEditsAssumption == MaxEdits \in Nat

VARIABLES
    \* the working tree and the environment of the command
    raw,         \* tables in generated/raw/schema.json
    reviews,     \* review/<table>.yml
    inputs,      \* contracts/metadata_contract.yml and the guideline
    identity,    \* model and prompt version in the environment
    candidates,  \* generated/structured/<table>.json
    markdown,    \* generated/published/<table>.md
    \* the running command
    phase, chosen, items, pending, half, outcome,
    \* observation only: never read by an action of the program
    disturbed,   \* the tree was edited since the running command began
    setByHand,   \* tables whose candidate got its status from a hand edit, not from a run
    shown,       \* what has been on disk as a REVIEW candidate
    approvals,   \* contents of every saved approval
    edits        \* edits so far

tree == <<raw, reviews, inputs, identity, candidates, markdown>>
command == <<phase, chosen, items, pending, half, outcome>>
vars == <<tree, command, disturbed, setByHand, shown, approvals, edits>>

-----------------------------------------------------------------------------
(* Files.  An absent file is a record with no content, so that every file  *)
(* of a kind has a field telling what it is.                               *)

NoFile == [state |-> "absent"]
Unreadable == [state |-> "unreadable"]

Fingerprint == [content : Contents, inputs : Inputs, identity : Identities]

\* `body` is the document candidate_hash and reviewable_body_hash are taken
\* of, `sealed` the document they were taken of when it was generated.
Candidate == [state : {"review", "promoted"}, fingerprint : Fingerprint,
              body : Bodies, sealed : Bodies]
CandidateFile == Candidate \union {NoFile, Unreadable}

Review == [state : {"needs_review", "approved"}, content : Contents]
ReviewFile == Review \union {NoFile}

\* The front matter shows the status and the generator, the body the document.
Render(c) == [state |-> c.state, body |-> c.body, identity |-> c.fingerprint.identity]
Markdown == [state : {"review", "promoted"}, body : Bodies, identity : Identities]
MarkdownFile == Markdown \union {NoFile}

Readable(c) == c.state \in {"review", "promoted"}
Intact(c) == c.body = c.sealed
Evidence(c) == <<c.fingerprint, c.sealed>>

Reviewed == {t \in Tables : reviews[t].state # "absent"}

TypeOK ==
    /\ raw \subseteq Tables
    /\ reviews \in [Tables -> ReviewFile]
    /\ inputs \in Inputs
    /\ identity \in Identities
    /\ candidates \in [Tables -> CandidateFile]
    /\ markdown \in [Tables -> MarkdownFile]
    /\ phase \in {"idle", "planned", "writing"}
    /\ chosen \subseteq Tables
    /\ items \in [Tables -> Candidate \union {NoFile}]
    /\ pending \subseteq Tables
    /\ half \subseteq Tables
    /\ outcome \in {"none", "failed", "validated", "synced"}
    /\ disturbed \in BOOLEAN
    /\ setByHand \subseteq Tables
    /\ shown \in [Tables -> SUBSET (Fingerprint \X Bodies)]
    /\ approvals \in [Tables -> SUBSET Contents]
    /\ edits \in Nat

NoItems == [t \in Tables |-> NoFile]

Init ==
    /\ raw = Tables
    /\ reviews \in [Tables -> [state : {"needs_review"}, content : Contents]]
    /\ inputs \in Inputs
    /\ identity \in Identities
    /\ candidates = [t \in Tables |-> NoFile]
    /\ markdown = [t \in Tables |-> NoFile]
    /\ phase = "idle"
    /\ chosen = {}
    /\ items = NoItems
    /\ pending = {}
    /\ half = {}
    /\ outcome = "none"
    /\ disturbed = FALSE
    /\ setByHand = {}
    /\ shown = [t \in Tables |-> {}]
    /\ approvals = [t \in Tables |-> {}]
    /\ edits = 0

-----------------------------------------------------------------------------
(* Deciding what to do with one table.                                     *)

\* One YAML against the contract and the raw schema: versions, schema hash, columns,
\* relationships, evidence.  What it says decides, whatever its status.
ValidReview(t) == reviews[t].content \notin Blocked

\* Every raw table has a review file and every review file a raw table, all valid.
Preflight ==
    /\ raw = Reviewed
    /\ Reviewed # {}
    /\ \A t \in Reviewed : ValidReview(t)

\* The candidate was generated from today's review content, contract and
\* guideline.  Its own model and prompt version count, not the configured ones.
Current(t) ==
    /\ Readable(candidates[t])
    /\ candidates[t].fingerprint.content = reviews[t].content
    /\ candidates[t].fingerprint.inputs = inputs

ValidCandidate(t) == Current(t) /\ Intact(candidates[t])

\* Mutant of Kept: a candidate is kept whatever its YAML and its own status say.
KeptIfValid(t, validateOnly) == ValidCandidate(t)

\* Approved and already promoted, or still in review under the configured
\* generator.  A validate-only run has no generator to compare with.
Kept(t, validateOnly) ==
    /\ ValidCandidate(t)
    /\ \/ /\ reviews[t].state = "approved"
          /\ candidates[t].state = "promoted"
       \/ /\ reviews[t].state = "needs_review"
          /\ candidates[t].state = "review"
          /\ validateOnly \/ candidates[t].fingerprint.identity = identity

\* Mutant of Promotable: promote_candidate trusts the approval without validating
\* the candidate against the inputs of today.
PromotableUnchecked(t) ==
    reviews[t].state = "approved" /\ candidates[t].state = "review"

Promotable(t) ==
    /\ reviews[t].state = "approved"
    /\ candidates[t].state = "review"
    /\ ValidCandidate(t)

\* Missing, unreadable, promoted or stale under needs_review.  A tampered
\* candidate that is not also stale is refused, never regenerated.
Regenerable(t, validateOnly) ==
    /\ reviews[t].state = "needs_review"
    /\ \/ candidates[t].state # "review"
       \/ ~Current(t)
       \/ /\ Intact(candidates[t])
          /\ ~validateOnly
          /\ candidates[t].fingerprint.identity # identity

\* Mutants of Promotion: the reviewer's word for the status is copied over, or the
\* status is not rewritten at all.
PromotionCopiesStatus(c) == [c EXCEPT !.state = "approved"]
PromotionForgotten(c) == c

Promotion(c) == [c EXCEPT !.state = "promoted"]

\* Mutant of NewCandidate: the fingerprint records a default generator instead of
\* the configured one.
NewCandidateOfDefault(t, body) ==
    [state |-> "review",
     fingerprint |-> [content |-> reviews[t].content, inputs |-> inputs,
                      identity |-> CHOOSE m \in Identities : TRUE],
     body |-> body, sealed |-> body]

\* create_candidate: a new REVIEW candidate bound to all that it was made from.
NewCandidate(t, body) ==
    [state |-> "review",
     fingerprint |-> [content |-> reviews[t].content, inputs |-> inputs,
                      identity |-> identity],
     body |-> body, sealed |-> body]

\* No --table at all selects every reviewed table.
Chosen(selection) == IF selection = {} THEN Reviewed ELSE selection

-----------------------------------------------------------------------------
(* The command.                                                            *)

\* What the last run reported, and of which tables, is remembered until the
\* tree it reported about changes.
Report(result, tables) ==
    /\ outcome' = result
    /\ chosen' = tables

End(result) ==
    /\ phase' = "idle"
    /\ items' = NoItems
    /\ pending' = {}
    /\ half' = {}
    /\ disturbed' = FALSE
    /\ IF disturbed THEN Report("none", {}) ELSE Report(result, chosen)

Accepted(selection, validateOnly) ==
    /\ Preflight
    /\ Chosen(selection) \subseteq Reviewed
    /\ \A t \in Chosen(selection) :
          \/ Kept(t, validateOnly)
          \/ Promotable(t)
          \/ Regenerable(t, validateOnly) /\ ~validateOnly

\* prepare_candidate_sync up to the generator: one refused table fails the
\* run before anything is written.
Plan(selection, validateOnly) ==
    /\ phase = "idle"
    /\ IF ~Accepted(selection, validateOnly)
       THEN /\ Report("failed", Chosen(selection))
            /\ UNCHANGED <<phase, items, pending>>
       ELSE IF validateOnly
       THEN /\ Report("validated", Chosen(selection))
            /\ UNCHANGED <<phase, items, pending>>
       ELSE /\ Report("none", Chosen(selection))
            /\ pending' = {t \in Chosen(selection) : Regenerable(t, FALSE)}
            /\ items' = [t \in Tables |->
                  IF t \notin Chosen(selection) \ pending' THEN NoFile
                  ELSE IF Promotable(t) THEN Promotion(candidates[t])
                  ELSE candidates[t]]
            /\ phase' = IF pending' = {} THEN "writing" ELSE "planned"
    /\ UNCHANGED <<tree, half, disturbed, setByHand, shown, approvals, edits>>

\* prepare_publication reads the reviews again; create_candidate refuses one
\* that was approved in the meantime.
Generate ==
    /\ phase = "planned"
    /\ Preflight
    /\ \A t \in pending : reviews[t].state = "needs_review"
    /\ \E answer \in [pending -> Bodies] :
          items' = [t \in Tables |->
             IF t \in pending THEN NewCandidate(t, answer[t]) ELSE items[t]]
    /\ phase' = "writing"
    /\ pending' = {}
    /\ UNCHANGED <<tree, chosen, half, outcome, disturbed, setByHand, shown, approvals,
                   edits>>

\* The gateway, the published-document validation or the second preflight fails.
GenerationFails ==
    /\ phase = "planned"
    /\ End("failed")
    /\ UNCHANGED <<tree, setByHand, shown, approvals, edits>>

WriteCandidate(t) ==
    /\ phase = "writing"
    /\ half = {}
    /\ items[t] # NoFile
    /\ candidates' = [candidates EXCEPT ![t] = items[t]]
    /\ half' = {t}
    /\ setByHand' = setByHand \ {t}
    /\ shown' = IF items[t].state = "review"
                THEN [shown EXCEPT ![t] = @ \union {Evidence(items[t])}]
                ELSE shown
    /\ UNCHANGED <<raw, reviews, inputs, identity, markdown, phase, chosen, items,
                   pending, outcome, disturbed, approvals, edits>>

WriteMarkdown(t) ==
    /\ phase = "writing"
    /\ t \in half
    /\ markdown' = [markdown EXCEPT ![t] = Render(items[t])]
    /\ LET left == [items EXCEPT ![t] = NoFile] IN
       IF left = NoItems
       THEN End("synced")
       ELSE /\ items' = left
            /\ half' = {}
            /\ UNCHANGED <<phase, chosen, pending, outcome, disturbed>>
    /\ UNCHANGED <<raw, reviews, inputs, identity, candidates, setByHand, shown, approvals,
                   edits>>

\* The process dies, or a write raises: what was written stays written.
Interrupt ==
    /\ phase # "idle"
    /\ End("failed")
    /\ UNCHANGED <<tree, setByHand, shown, approvals, edits>>

-----------------------------------------------------------------------------
(* What people do to the working tree, at any moment.                      *)

Edit ==
    /\ edits < MaxEdits
    /\ edits' = edits + 1
    /\ disturbed' = (phase # "idle")
    /\ IF phase = "idle" THEN Report("none", {}) ELSE UNCHANGED <<outcome, chosen>>
    /\ UNCHANGED <<phase, items, pending, half>>

\* The reviewer saves a YAML: new content, a new status, or both at once.
SaveReview(t, review) ==
    /\ Edit
    /\ t \in raw \union Reviewed
    /\ review # reviews[t]
    /\ reviews' = [reviews EXCEPT ![t] = review]
    /\ approvals' = IF review.state = "approved"
                    THEN [approvals EXCEPT ![t] = @ \union {review.content}]
                    ELSE approvals
    /\ UNCHANGED <<raw, inputs, identity, candidates, markdown, setByHand, shown>>

\* A dropped table leaves the raw schema and its YAML is resolved by hand.
DropTable(t) ==
    /\ Edit
    /\ t \in raw
    /\ raw' = raw \ {t}
    /\ reviews' = [reviews EXCEPT ![t] = NoFile]
    /\ UNCHANGED <<inputs, identity, candidates, markdown, setByHand, shown, approvals>>

\* The contract or guideline text changes, or the model or prompt version.
ChangeInputs(i) ==
    /\ Edit
    /\ i # inputs
    /\ inputs' = i
    /\ UNCHANGED <<raw, reviews, identity, candidates, markdown, setByHand, shown,
                   approvals>>

ChangeIdentity(m) ==
    /\ Edit
    /\ phase = "idle"   \* the environment of a running process does not change
    /\ m # identity
    /\ identity' = m
    /\ UNCHANGED <<raw, reviews, inputs, candidates, markdown, setByHand, shown, approvals>>

\* The other status a readable candidate can have.
Restated(c) ==
    [c EXCEPT !.state = IF c.state = "review" THEN "promoted" ELSE "review"]

\* A generated file is edited by hand or merged as text: it cannot be read any more,
\* its document is another, or its status is.  The status fields have to agree with one
\* another to be read, but neither hash covers them.
DamageCandidate(t, file) ==
    /\ Edit
    /\ Readable(candidates[t])
    /\ \/ file = Unreadable /\ UNCHANGED setByHand
       \/ /\ \E b \in Bodies \ {candidates[t].body} :
                file = [candidates[t] EXCEPT !.body = b]
          /\ UNCHANGED setByHand
       \/ file = Restated(candidates[t]) /\ setByHand' = setByHand \union {t}
    /\ candidates' = [candidates EXCEPT ![t] = file]
    /\ UNCHANGED <<raw, reviews, inputs, identity, markdown, shown, approvals>>

DamageMarkdown(t) ==
    /\ Edit
    /\ markdown[t] # NoFile
    /\ markdown' = [markdown EXCEPT ![t] = NoFile]
    /\ UNCHANGED <<raw, reviews, inputs, identity, candidates, setByHand, shown, approvals>>

-----------------------------------------------------------------------------

Sync ==
    \/ \E selection \in SUBSET Tables, validateOnly \in BOOLEAN : Plan(selection, validateOnly)
    \/ Generate
    \/ GenerationFails
    \/ \E t \in Tables : WriteCandidate(t) \/ WriteMarkdown(t)
    \/ Interrupt

People ==
    \/ \E t \in Tables, review \in Review : SaveReview(t, review)
    \/ \E t \in Tables : DropTable(t)
    \/ \E i \in Inputs : ChangeInputs(i)
    \/ \E m \in Identities : ChangeIdentity(m)
    \/ \E t \in Tables, file \in CandidateFile : DamageCandidate(t, file)
    \/ \E t \in Tables : DamageMarkdown(t)

Next == Sync \/ People

Spec == Init /\ [][Next]_vars

\* A started generation ends one way or the other; somebody runs the full sync
\* again and again; the gateway, asked often enough, answers; and not every run
\* is interrupted at the same file.
Fairness ==
    /\ WF_vars(Generate \/ GenerationFails)
    /\ SF_vars(Plan({}, FALSE))
    /\ SF_vars(Generate)
    /\ \A t \in Tables : SF_vars(WriteCandidate(t)) /\ SF_vars(WriteMarkdown(t))

FairSpec == Spec /\ Fairness

-----------------------------------------------------------------------------
(* Properties.                                                             *)

\* A promoted candidate whose hashes match - the index is built from no other - carries a
\* document that was on disk as a REVIEW candidate generated from the same inputs, and a
\* reviewer saved an approval of exactly the content it was generated from, unless its
\* status was set by hand and no run has written it since.  Simultaneous business edits,
\* interrupted runs and saves made during a run do not get around it, and no run takes a
\* status set by hand for an approval.
PromotedWasReviewed ==
    \A t \in Tables : candidates[t].state = "promoted" /\ Intact(candidates[t]) =>
        /\ <<candidates[t].fingerprint, candidates[t].body>> \in shown[t]
        /\ t \notin setByHand => candidates[t].fingerprint.content \in approvals[t]

\* After a sync that nobody disturbed, running it again would change no file:
\* every table it covered has a candidate the next run keeps, and the Markdown
\* beside it is the rendering of that candidate.  Earlier interrupted runs may
\* have left the two files of a table disagreeing.
RerunIsUnchanged ==
    outcome = "synced" => \A t \in chosen :
        Kept(t, FALSE) /\ markdown[t] = Render(candidates[t])

\* prepare_catalog_chunks: the chunks of a table are built from its candidate.
Indexed == {t \in Tables : candidates[t].state = "promoted"}

\* When the sync or the validate-only gate has passed, a covered table is in the
\* index only with its YAML approved and with the document generated from that
\* YAML and today's contract: a reopened table has left the index, a stale or
\* tampered one has been refused.
IndexedIsApproved ==
    outcome \in {"validated", "synced"} => \A t \in chosen \intersect Indexed :
        reviews[t].state = "approved" /\ ValidCandidate(t)

\* Whatever was interrupted or edited, retried syncs bring every table to a
\* candidate that matches its inputs and to the Markdown that renders it,
\* unless the tree itself is one the preflight refuses.
Settled ==
    \A t \in Reviewed : Kept(t, FALSE) /\ markdown[t] = Render(candidates[t])
RetriesSettle == []<>(Settled \/ ~Accepted({}, FALSE))

-----------------------------------------------------------------------------
(* What the repository says and the code does not do.                      *)

\* llm_transformation_guideline.md: retrieval "must remove deleted ... chunks".
\* A passed full validation would mean that only reviewed tables are indexed.
IndexedIsReviewed ==
    (outcome = "validated" /\ chosen = Reviewed) => Indexed \subseteq Reviewed
=============================================================================
