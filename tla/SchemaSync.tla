----------------------------- MODULE SchemaSync -----------------------------
(***************************************************************************)
(* Bringing the schemas of live databases to main through one Pull Request: *)
(*   application/scheduled_schema_sync.py  stage every database, publish,   *)
(*   application/create_drafts.py          refresh the reviewer YAML,       *)
(*   application/schema_sync_pr.py, adapters/github/schema_sync_runtime.py, *)
(*   cli.py, .github/workflows/schema-sync.yml   the run around them.       *)
(*                                                                         *)
(* A run works in a checkout of its own, so a run that fails leaves nothing *)
(* behind but what it has pushed.  Between any two of its steps databases   *)
(* migrate and people commit to main or to the branch of the Pull Request,  *)
(* merge it or close it.                                                    *)
(***************************************************************************)
EXTENDS Naturals, FiniteSets

CONSTANTS
    Databases,    \* scheduled databases, each the set of its tables
    Versions,     \* what the schema of a table can be, relations included
    Texts,        \* what reviewers can write about a table
    MaxMigrations, \* bound: schema changes
    MaxSaves      \* bound: commits of reviewers

Tables == UNION Databases

ASSUME DatabasesAssumption ==
    /\ Databases # {}
    /\ \A d, e \in Databases : d # e => d \intersect e = {}
ASSUME BoundsAssumption == MaxMigrations \in Nat /\ MaxSaves \in Nat

VARIABLES
    live,        \* schemas of the databases
    \* the remote repository
    main,        \* tree of main
    branch,      \* tree of the branch last pushed
    base,        \* merge base of the two
    open,        \* there is an open Pull Request from branch to main
    \* the run and its checkout
    phase, active, seen, tree, unstaged, staged, outdated, outcome,
    \* observation only: never read by an action of the program
    approvals,   \* schemas for which a person saved an approval, by table
    untold,      \* a pushed commit has not been notified
    migrations, saves

Absent == "absent"
Drafted == "drafted"

Schemas == [Tables -> Versions \union {Absent}]

\* Reviewer YAML: the lines automation may rewrite, and the words people write.
Mark == [status : {"needs_review", "approved"}, hash : Versions]
Review == [mark : Mark, text : Texts \union {Drafted}]
NoReview == [mark |-> Absent]
Tree == [raw : Schemas, reviews : [Tables -> Review \union {NoReview}]]

remote == <<main, branch, base, open>>
checkout == <<active, seen, tree, unstaged, staged>>
run == <<phase, checkout, outdated, outcome>>
history == <<approvals, untold, migrations, saves>>
vars == <<live, remote, run, history>>

Phases == {"idle", "preparing", "staging", "committing", "pushing", "presenting", "notifying"}

TypeOK ==
    /\ live \in Schemas
    /\ main \in Tree /\ branch \in Tree /\ base \in Tree
    /\ open \in BOOLEAN
    /\ phase \in Phases
    /\ active \in BOOLEAN
    /\ seen \in Tree /\ tree \in Tree
    /\ unstaged \subseteq Databases
    /\ staged \in Schemas
    /\ outdated \in BOOLEAN
    /\ outcome \in {"none", "failed", "refused", "noop", "unsent", "published"}
    /\ approvals \in [Tables -> SUBSET Versions]
    /\ untold \in BOOLEAN
    /\ migrations \in Nat /\ saves \in Nat

-----------------------------------------------------------------------------
(* Reviewer drafts.                                                        *)

NewReview(version) ==
    [mark |-> [status |-> "needs_review", hash |-> version], text |-> Drafted]

\* Mutants of Refreshed: the status survives a new schema, an existing review is
\* taken to be up to date, or a table that is gone is not told apart.
RefreshedKeepsStatus(review, version) ==
    IF version = Absent \/ (review # NoReview /\ review.mark.hash = version) THEN review
    ELSE IF review = NoReview THEN NewReview(version)
    ELSE [review EXCEPT !.mark.hash = version]
RefreshedOnce(review, version) ==
    IF version = Absent \/ review # NoReview THEN review ELSE NewReview(version)
RefreshedOrphan(review, version) ==
    IF review = NoReview THEN NewReview(version)
    ELSE [review EXCEPT !.mark = [status |-> "needs_review", hash |-> version]]

\* A draft follows its schema and goes back to review; the words stay.  What has
\* no table any more is kept for a person to remove.
Refreshed(review, version) ==
    IF version = Absent THEN review
    ELSE IF review = NoReview THEN NewReview(version)
    ELSE IF review.mark.hash = version THEN review
    ELSE [review EXCEPT !.mark = [status |-> "needs_review", hash |-> version]]

\* Databases whose extracted schema differs from the one in the checkout.
Changed == {d \in Databases : \E t \in d : staged[t] # tree.raw[t]}

\* Mutant of Synchronized: files of tables that are gone stay (remove_orphans=False).
SynchronizedKeepsOrphans ==
    [raw |-> [t \in Tables |-> IF staged[t] = Absent THEN tree.raw[t] ELSE staged[t]],
     reviews |-> [t \in Tables |->
        IF t \in UNION Changed THEN Refreshed(tree.reviews[t], staged[t]) ELSE tree.reviews[t]]]

\* Raw output and drafts of every changed database; the others stay as they are.
Synchronized ==
    [raw |-> staged,
     reviews |-> [t \in Tables |->
        IF t \in UNION Changed THEN Refreshed(tree.reviews[t], staged[t]) ELSE tree.reviews[t]]]

\* What the review gate requires of a tree: a review of its schema for every
\* table, and none without a table.
Drafts(r) ==
    \A t \in Tables : r.raw[t] # Absent =>
        r.reviews[t] # NoReview /\ r.reviews[t].mark.hash = r.raw[t]
Orphans(r) == {t \in Tables : r.raw[t] = Absent /\ r.reviews[t] # NoReview}
Valid(r) == Drafts(r) /\ Orphans(r) = {}

-----------------------------------------------------------------------------
(* Merging two trees: adjacent lines are one hunk, so status and hash go    *)
(* together, and a hunk that both sides changed is a conflict.              *)

Hunk(old, ours, theirs) == IF ours = old THEN theirs ELSE ours
Clash(old, ours, theirs) == ours # old /\ theirs # old /\ ours # theirs

MergedReview(old, ours, theirs) ==
    IF NoReview \in {old, ours, theirs}
    THEN Hunk(old, ours, theirs)
    ELSE [mark |-> Hunk(old.mark, ours.mark, theirs.mark),
          text |-> Hunk(old.text, ours.text, theirs.text)]

ReviewsClash(old, ours, theirs) ==
    IF NoReview \in {old, ours, theirs}
    THEN Clash(old, ours, theirs)
    ELSE \/ Clash(old.mark, ours.mark, theirs.mark)
         \/ Clash(old.text, ours.text, theirs.text)

Merged ==
    [raw |-> [t \in Tables |-> Hunk(base.raw[t], branch.raw[t], main.raw[t])],
     reviews |-> [t \in Tables |->
        MergedReview(base.reviews[t], branch.reviews[t], main.reviews[t])]]

Conflict == \E t \in Tables :
    \/ Clash(base.raw[t], branch.raw[t], main.raw[t])
    \/ ReviewsClash(base.reviews[t], branch.reviews[t], main.reviews[t])

-----------------------------------------------------------------------------

Init ==
    /\ live \in Schemas
    /\ main = [raw |-> live,
               reviews |-> [t \in Tables |->
                  IF live[t] = Absent THEN NoReview ELSE NewReview(live[t])]]
    /\ branch = main
    /\ base = main
    /\ open = FALSE
    /\ phase = "idle"
    /\ active = FALSE
    /\ seen = main
    /\ tree = main
    /\ unstaged = {}
    /\ staged = live
    /\ outdated = FALSE
    /\ outcome = "none"
    /\ approvals = [t \in Tables |-> {}]
    /\ untold = FALSE
    /\ migrations = 0
    /\ saves = 0

-----------------------------------------------------------------------------
(* The run.                                                                *)

\* The checkout is thrown away with the run: the model forgets it.
End(result) ==
    /\ phase' = "idle"
    /\ active' = FALSE
    /\ seen' = main
    /\ tree' = main
    /\ unstaged' = {}
    /\ staged' = main.raw
    /\ outdated' = FALSE
    /\ outcome' = result

Checkout ==
    /\ phase = "idle"
    /\ phase' = "preparing"
    /\ seen' = main
    /\ tree' = main
    /\ outcome' = "none"
    /\ UNCHANGED <<live, remote, active, unstaged, staged, outdated, history>>

\* With an open Pull Request the run continues its branch, main merged into it.
Prepare ==
    /\ phase = "preparing"
    /\ IF open /\ Conflict
       THEN End("refused")
       ELSE /\ phase' = "staging"
            /\ active' = open
            /\ unstaged' = Databases
            /\ outdated' = FALSE
            /\ IF open THEN seen' = main /\ tree' = Merged ELSE UNCHANGED <<seen, tree>>
            /\ UNCHANGED <<staged, outcome>>
    /\ UNCHANGED <<live, remote, history>>

\* One database after the other is extracted, each as it is at that moment.
Stage(d) ==
    /\ phase = "staging"
    /\ d \in unstaged
    /\ unstaged' = unstaged \ {d}
    /\ staged' = [t \in Tables |-> IF t \in d THEN live[t] ELSE staged[t]]
    /\ UNCHANGED <<live, remote, phase, active, seen, tree, outdated, outcome, history>>

\* Only with every database staged is the checkout touched; without a change the
\* run ends and nothing is published, notified or even merged.
Synchronize ==
    /\ phase = "staging"
    /\ unstaged = {}
    /\ IF Changed = {}
       THEN End("noop")
       ELSE /\ phase' = "committing"
            /\ tree' = Synchronized
            /\ UNCHANGED <<active, seen, unstaged, staged, outdated, outcome>>
    /\ UNCHANGED <<live, remote, history>>

\* The commit must differ from main in some schema.
Commit ==
    /\ phase = "committing"
    /\ IF tree.raw = seen.raw
       THEN End("refused")
       ELSE /\ phase' = "pushing"
            /\ UNCHANGED <<checkout, outdated, outcome>>
    /\ UNCHANGED <<live, remote, history>>

\* Mutant of Push: a forced push.
PushForced ==
    /\ phase = "pushing"
    /\ phase' = "presenting"
    /\ untold' = TRUE
    /\ IF active /\ ~open
       THEN UNCHANGED <<branch, base>>
       ELSE branch' = tree /\ base' = seen
    /\ UNCHANGED <<live, main, open, checkout, outdated, outcome, approvals,
                   migrations, saves>>

\* Never forced: a branch that somebody pushed to since it was fetched refuses.
\* When the Pull Request was closed meanwhile its branch still takes the commit,
\* where nobody looks.
Push ==
    /\ phase = "pushing"
    /\ IF active /\ outdated
       THEN End("refused") /\ UNCHANGED <<branch, base, untold>>
       ELSE /\ phase' = "presenting"
            /\ untold' = TRUE
            /\ IF active /\ ~open
               THEN UNCHANGED <<branch, base>>
               ELSE branch' = tree /\ base' = seen
            /\ UNCHANGED <<checkout, outdated, outcome>>
    /\ UNCHANGED <<live, main, open, approvals, migrations, saves>>

\* A new Draft Pull Request, or a new body for the one there is.
Present ==
    /\ phase = "presenting"
    /\ phase' = "notifying"
    /\ open' = (open \/ ~active)
    /\ UNCHANGED <<live, main, branch, base, checkout, outdated, outcome, history>>

Notify ==
    /\ phase = "notifying"
    /\ End("published")
    /\ untold' = FALSE
    /\ UNCHANGED <<live, remote, approvals, migrations, saves>>

\* Any step raises or the job dies: all that is left is what was pushed.
Fail ==
    /\ phase # "idle"
    /\ End(IF phase = "notifying" THEN "unsent" ELSE "failed")
    /\ UNCHANGED <<live, remote, history>>

-----------------------------------------------------------------------------
(* Databases and people.                                                   *)

Migrate(t, version) ==
    /\ migrations < MaxMigrations
    /\ migrations' = migrations + 1
    /\ version # live[t]
    /\ live' = [live EXCEPT ![t] = version]
    /\ UNCHANGED <<remote, run, approvals, untold, saves>>

\* A person saves a status and words for a table; hash and schema are not theirs.
Saved(r, t, status, text) ==
    [r EXCEPT !.reviews[t] =
        [mark |-> [status |-> status, hash |-> r.reviews[t].mark.hash], text |-> text]]

Approve(t, r, status) ==
    approvals' = IF status = "approved"
                 THEN [approvals EXCEPT ![t] = @ \union {r.reviews[t].mark.hash}]
                 ELSE approvals

SaveOnBranch(t, status, text) ==
    /\ open
    /\ saves < MaxSaves
    /\ saves' = saves + 1
    /\ branch.reviews[t] # NoReview
    /\ branch' = Saved(branch, t, status, text)
    /\ branch' # branch
    /\ outdated' = (phase # "idle")
    /\ Approve(t, branch, status)
    /\ UNCHANGED <<live, main, base, open, phase, checkout, outcome, untold, migrations>>

\* A reviewer's own Pull Request, merged.
SaveOnMain(t, status, text) ==
    /\ saves < MaxSaves
    /\ saves' = saves + 1
    /\ main.reviews[t] # NoReview
    /\ main' = Saved(main, t, status, text)
    /\ main' # main
    /\ Approve(t, main, status)
    /\ UNCHANGED <<live, branch, base, open, run, untold, migrations>>

\* A person removes the review of a table that is gone.
RemoveOrphan(t) ==
    /\ open
    /\ t \in Orphans(branch)
    /\ branch' = [branch EXCEPT !.reviews[t] = NoReview]
    /\ outdated' = (phase # "idle")
    /\ UNCHANGED <<live, main, base, open, phase, checkout, outcome, history>>

\* A person merges main into the branch, choosing a side where they conflict, so
\* that every draft is that of its schema.
Resolve ==
    /\ open
    /\ Conflict
    /\ \E side \in [Tables -> {"ours", "theirs"}] :
          branch' = [raw |-> Merged.raw,
                     reviews |-> [t \in Tables |->
                        LET old == base.reviews[t]
                            ours == branch.reviews[t]
                            theirs == main.reviews[t] IN
                        IF ~ReviewsClash(old, ours, theirs) THEN MergedReview(old, ours, theirs)
                        ELSE IF side[t] = "ours" THEN ours ELSE theirs]]
    /\ Drafts(branch')
    /\ base' = main
    /\ outdated' = (phase # "idle")
    /\ UNCHANGED <<live, main, open, phase, checkout, outcome, history>>

Merge ==
    /\ open
    /\ Valid(branch)
    /\ ~Conflict
    /\ main' = Merged
    /\ open' = FALSE
    /\ UNCHANGED <<live, branch, base, run, history>>

Close ==
    /\ open
    /\ saves < MaxSaves
    /\ saves' = saves + 1
    /\ open' = FALSE
    /\ UNCHANGED <<live, main, branch, base, run, approvals, untold, migrations>>

-----------------------------------------------------------------------------

Run ==
    \/ Checkout
    \/ Prepare
    \/ \E d \in Databases : Stage(d)
    \/ Synchronize
    \/ Commit
    \/ Push
    \/ Present
    \/ Notify

People ==
    \/ \E t \in Tables, status \in {"needs_review", "approved"}, text \in Texts \union {Drafted} :
          SaveOnBranch(t, status, text) \/ SaveOnMain(t, status, text)
    \/ \E t \in Tables : RemoveOrphan(t)
    \/ Resolve
    \/ Merge
    \/ Close

Next ==
    \/ Run
    \/ Fail
    \/ \E t \in Tables, version \in Versions \union {Absent} : Migrate(t, version)
    \/ People

Spec == Init /\ [][Next]_vars

\* The schedule starts a run again and again, a run goes on until it ends, and
\* failures stop some day.  Reviewers remove orphans, resolve conflicts and merge
\* what can be merged.
RunFairness == WF_vars(Run) /\ <>[][~Fail]_vars
PeopleFairness ==
    /\ \A t \in Tables : SF_vars(RemoveOrphan(t))
    /\ SF_vars(Resolve)
    /\ SF_vars(Merge)

RunSpec == Spec /\ RunFairness
FairSpec == RunSpec /\ PeopleFairness

-----------------------------------------------------------------------------
(* Properties.                                                             *)

\* An approved review, wherever it is, is approved for the schema it names: no
\* migration, refresh, merge or resolved conflict turns an approval of one schema
\* into an approval of another (task 12.6: automation never sets "approved").
ApprovalIsForItsSchema ==
    \A t \in Tables, r \in {main, branch, tree} :
        (r.reviews[t] # NoReview /\ r.reviews[t].mark.status = "approved")
            => r.reviews[t].mark.hash \in approvals[t]

\* Raw output and drafts arrive together: on main and on the branch every table
\* has a draft of exactly its schema, also when a run dies between any two steps
\* or the branch is merged while a run works on it; and no text merge of two
\* valid trees leaves a review on main without its table.
DraftsFollowSchema == Valid(main) /\ Drafts(branch)

\* A run changes nobody's words: what it pushes to an open Pull Request has the
\* text each review had on the branch, or the one main had instead of what the
\* branch still had.  Words saved on the branch during the run make it fail.
WordsStay ==
    [][(open /\ branch' # branch /\ phase = "pushing" /\ phase' = "presenting") =>
       \A t \in Tables : branch.reviews[t] # NoReview =>
          \/ branch'.reviews[t] # NoReview /\ branch'.reviews[t].text = branch.reviews[t].text
          \/ branch.reviews[t] = base.reviews[t] /\ seen.reviews[t] = NoReview
          \/ /\ NoReview \notin {base.reviews[t], branch'.reviews[t], seen.reviews[t]}
             /\ branch.reviews[t].text = base.reviews[t].text
             /\ branch'.reviews[t].text = seen.reviews[t].text]_vars

\* Once the databases stop changing, main comes to describe them and stays so.
MainCatchesUp == <>[](main.raw = live)

-----------------------------------------------------------------------------
(* What the repository says and the code does not do.                      *)

\* The acceptance matrix: "Schema-sync PR already open | Push to the same
\* branch/PR".  An open Pull Request comes to show the schemas there are.
PullRequestFollows == [](open => <>(~open \/ branch.raw = live))

\* telegram-notifications.md: "a failed send remains retryable".
UnsentIsRetried == [](outcome = "unsent" => <>~untold)
=============================================================================
