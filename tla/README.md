# A TLA+ model of the metadata repository

This directory holds TLA+ specifications of the review loop in this repository, the TLC
configurations that model-check them on small instances, and theorems about them whose proofs the
TLAPS proof system checks. Every definition was translated from the code under
`src/metadata_pipeline` and `.github/workflows`; `PROJECT.json` maps each definition to its lines.

    tlc -config CandidatePair.cfg MCCandidateSync     # model-check one instance
    tlapm CandidateSyncProofs.tla                     # check the proofs of one component

## The system

Schemas of ClickHouse databases are extracted to `catalog/<db>/generated/raw`. For every table a
reviewer writes `review/<table>.yml`. A generator turns a review into a *candidate*
(`generated/structured/<table>.json`) and its Markdown. A person approves the YAML, the candidate is
*promoted*, promoted candidates are cut into chunks, the chunks make a manifest, and the manifest is
applied to a vector store. Each stage is a command of `cli.py`, run by people or by a GitHub
workflow; the stages share the git tree and nothing else.

| Component | State it keeps | Operations | What is hard | Modelled in |
|---|---|---|---|---|
| candidate lifecycle: `sync_candidates.py`, `candidate_state.py` | candidate and Markdown files, fingerprints and seals | plan, generate, promote, write two files per table, validate only | many files and no transaction, saves during a run, stale or damaged files, changed generator | `CandidateSync`, `SyncOutcome`, `GateSync` |
| publication and generator: `publish_metadata.py`, `adapters/generator` | none | second preflight, gateway call | a second read of the reviews; any answer | `CandidateSync` (`Generate`, `GenerationFails`) |
| review contract: `validation/review.py`, `review_contract.py` | none | validate YAML against schema | a document against another file | one operator in `CandidateSync`, drafts and orphans in `SchemaSync` |
| chunks: `catalog_chunks.py`, `build_chunks.py`, `validation/chunks.py` | `build/chunks` | choose promoted candidates, cut, validate, write | whatever is in the directory is indexed; one bad document stops all; names that normalise to one key | `IndexManifest`; `Indexed` in `CandidateSync` |
| manifest and diff: `index_changes.py`, `domain/index.py`, `adapters/index/manifest.py` | `build/index/manifest.json` | build, compare, save, report chunk actions | two commands and three files without a transaction; a manifest that is not versioned | `IndexManifest` |
| vector apply: `apply_index.py`, `qdrant.py`, `apply-index.yml` | the managed points, the workflow queue | read, upsert, delete in batches, verify, bootstrap, announce | partial failure, ambiguous requests, reruns of old commits | `VectorApply`, `IndexPromise` |
| retrieval evaluation | none | golden questions | numeric | as a step that passes or fails |
| scheduled schema sync: `scheduled_schema_sync.py` | staging directory, checkout | stage each database, compare, publish | all or nothing over many databases | `SchemaSync` |
| reviewer drafts: `create_drafts.py` | review YAML | create, refresh, keep | must neither keep an approval nor lose words | `SchemaSync` (`Refreshed`) |
| schema-sync Pull Request: `schema_sync_pr.py`, `schema_sync_runtime.py`, `schema-sync.yml` | branch, Pull Request | merge main, commit, push, create or update, notify | reviewers pushing, merging and closing meanwhile; text merges | `SchemaSync` |
| from approval to store: the above over one tree | the tree, main's manifests, the store | prepare, merge, apply | an old commit repeated or a late request while the tree moves on | `ServedDocuments` |
| metadata Pull Request gate: `metadata-pr.yml`, `classify_changes.py` | commits of a Pull Request, the state of the required check, the runs of its concurrency group | decide, generate, bot commit, validate | the bot's commit triggers the gate again; newer events cancel; a run works on the branch, not on the commit of its event | `MetadataGate`, `SyncOutcome` |
| notifications: `telegram.py`, `notify-failure.yml` | marker comments | send with retries | at least once, lost answers | the attempts of `index_done` in `VectorApply`, the outcome of `pr_review` in `SchemaSync` |
| configuration and CLI parsing | none | read files and environment | | not modelled |
| acceptance workflows | none | run the commands on fixtures | | not modelled |

Interaction: `SchemaSync` ends with a reviewed draft on main; people turn such drafts into Pull
Requests, which `MetadataGate` admits; inside that gate, and on people's machines, runs the
`sync-candidates` command that `CandidateSync` has in detail; the promoted candidates it leaves are
what `IndexManifest` cuts into a manifest, and a manifest is what `VectorApply` brings to the store.
They meet only in files on main. `ServedDocuments` puts `CandidateSync` and `VectorApply` together;
apart from it, each module leaves its neighbour's output nondeterministic: contents change at any
moment in `CandidateSync`, the catalog in `IndexManifest`, any manifest can be pushed in
`VectorApply`. `MetadataGate` has the sync as one step whose outcomes are those of `SyncOutcome`;
`GateSync` puts that step beside the many steps of `CandidateSync` and shows that they agree.

## The modules

### CandidateSync

One database. `reviews`, `candidates` and `markdown` are the three files of a table; an absent or
unparsable file is a record of its own. A candidate's `fingerprint` records what it was generated
from (review content; contract and guideline; model and prompt version) and `sealed` the document
its hashes were taken of, so `Intact` is the hash check and `Current` the fingerprint check.

| Code | Action |
|---|---|
| `prepare_candidate_sync` up to the generator, with its preflight | `Plan(selection, validateOnly)` |
| `prepare_publication`, the generator and `create_candidate` | `Generate`, or `GenerationFails` |
| `write_candidate_sync`, per table: JSON, then Markdown | `WriteCandidate(t)`, `WriteMarkdown(t)` |
| a killed process or a failing write | `Interrupt` |
| reviewers, the environment, hand edits, merge damage | `SaveReview`, `DropTable`, `ChangeInputs`, `ChangeIdentity`, `DamageCandidate`, `DamageMarkdown` |

The reviews are read once by `Plan` and once more by `Generate`, as in the code, and edits happen
between any two steps. `items` are the results held in memory: promotions are computed in `Plan` and
written later. A hand edit or a merge of a candidate file makes it unreadable, changes its document,
or changes its status: the three status fields have to agree to be read, but `candidate_hash` and
`reviewable_body_hash` leave them out, so the last passes the integrity check. `setByHand` has the
tables whose status came so and has not been written by a run since. It, `disturbed`, `shown`,
`approvals` and `edits` are history variables no action of the program reads. A test of the lifecycle has one edit and one run; the properties here are about
several of each:

- `PromotedWasReviewed`: a promoted candidate that passes the integrity check (the index is built
  from no other) carries a document that was on disk for review, and an approval of exactly the
  content it was generated from has been saved. The second half is not true of a status set by hand
  that no run has written since, and the property says so; it does say that no run takes such a
  status for an approval and writes it again. It does not say that the approval came *after* the
  candidate was shown: nothing in the code orders the two, and an approval saved while a run
  generates promotes that candidate in the next run. Where a hand-set status is stopped is
  `IndexedIsApproved`: both statuses are compared, so no sync and no validation passes with it.
- `RerunIsUnchanged`: after an undisturbed sync, everything it covered is something the next run
  keeps, Markdown included, whatever earlier runs left half-written.
- `IndexedIsApproved`: when the sync or the validate-only gate passed, covered tables are in the
  index only approved and with the document of that YAML.
- `RetriesSettle`: retried syncs settle, unless the preflight or an integrity check refuses the
  tree. A tree of the second kind needs a person, so "settled or refused" is what the code promises.

### SyncOutcome and GateSync

`SyncOutcome` is the same command seen from outside, as constant operators of one table's tree:
`Outcomes(tree, answers)` are the outputs a sync can leave when the configured generator can say
`answers` (none: it refuses), `Accepted` what validation alone passes, `Clean` what a sync would not
touch. `MetadataGate` reasons with these. `GateSync` records, in the variable `before`, what is seen
of every table when a command begins (`View`), and instantiates `SyncOutcome` with it. A candidate
is seen with what it was made from, its status, whether its hashes and its Markdown match, and its
text, which names its generator: what distinguishes the answers of the configured one.

- `ReportIsOutcome`: a command that reports success over many writes, with promotions planned before
  and generations made after a second read, leaves in each table one of the outcomes of the tree it
  began with; a validation that passes found an acceptable tree and changed nothing. It would fail
  if a step used something else than what the plan decided on, or if the gate's summary of the
  command were wrong.
- `RefusalIsNoOutcome`: a command that passes the preflight is refused exactly when some covered
  table has no outcome. A retry cannot help there, and by `GreenIsClean` the check of a Pull Request
  that changes inputs is not green for such a tree.

### VectorApply and IndexPromise

A run is `Start` (build the manifest of the commit), `Read`, one `Upsert` or `Delete` per request,
`Verify`, `Retrieve` (the golden questions) and `Notify`. `Bootstrap` is the explicitly requested
creation, `Refused` the collection check, `Disabled` the switched-off job. A request may fail
unexecuted (`Fail`), fail although executed, or time out and be executed later by `Land`, also
during another run (`RequestFails`). Sending `index_done` is one step per attempt: `Notify` is an
attempt that is answered with success, `NotifyUnheard` one that is not, whether the message was
posted or not; it is repeated `MaxRetries` times and then fails the run. `told` counts what was
posted. `queue` is the workflow's concurrency group: one run active,
the newest one waiting; `Rerun(m)` starts the workflow for the newest or for an older commit. The
store is a map from chunk to body hash, because point identifiers are a function of the chunk
identifier (`point_id_for_chunk`) and the diff reads nothing else.

- `PlanReachesTarget`: the diff of one read, executed batch by batch, ends in exactly the manifest,
  and what a run has reported stays so until the next run begins or a late request comes.
- `NoGap`: a point disappears only when the whole manifest of the run is served.
- `AnnouncedIsNews`: whenever a message is posted, the run has changed something, the store is at
  its manifest unless a late request came in between, and the message is the first since the store
  changed or a repetition by the same run after a lost answer. Repetitions are bounded by the
  retries but not excluded: delivery is at least once. A request that lands between the
  verification and the message is the case in which what is announced is not served.
- `Heals`: the newest manifest is served for good once failures stop.
- `KeepsPromise`: the apply implements `IndexPromise` (`goal <- target`, `disturbed <- interfered`):
  at every moment the points are being brought to one published manifest, and what that manifest
  lacks is dropped only when all it has is served. A request that is executed late is a `Stray` of
  the promise: it can only write what some published manifest says, and from then on until the next
  goal is taken up a gap is possible, which is exactly as much as the code can exclude.

### SchemaSync

All scheduled databases, the remote repository (main, the branch of the Pull Request, their merge
base), and one run in a checkout of its own. `Prepare` merges main into the branch when a Pull
Request is open; `Stage(d)` extracts one database as it is at that moment; `Synchronize` writes all
raw output and refreshed drafts, or ends as NOOP; `Commit` is refused without a cumulative change
against main; `Push` is not forced; `Present` and `Notify` follow. Databases migrate, reviewers push
to the branch or to main, remove orphans, resolve conflicts, merge and close at any moment, and
`Fail` ends a run at any step.

A review is its `mark` (status and schema hash, the adjacent lines automation rewrites) and its
`text`. git's three-way merge works by hunk: the mark is one hunk, the text another, and a hunk both
sides changed differently is a conflict. That is why a status and a hash never come from different
sides, and `ApprovalIsForItsSchema` depends on it.

- `ApprovalIsForItsSchema`: an approved review, on main, on the branch or in a checkout, was
  approved by a person for the schema it names.
- `DraftsFollowSchema`: main passes the review gate, and every table on the branch has the draft of
  its schema, however runs die and merges combine.
- `WordsStay`: a run pushes back the words it found, or words main has in their place.
- `MainCatchesUp`: when databases stop changing, main comes to describe them for good.

### MetadataGate

One Pull Request and its required check `Metadata PR / pr-gate`. A commit is a tree (inputs,
generating code, generated output of one table), where the branch left main, the paths the commit
itself touched, and its author. `Answers` are the texts of the generator configured for the
workflow, which stays the same while the Pull Request is open; people also bring output of other
generators, from a sync on their machine or from main, and the check regenerates what is not
approved.

| Code | Action |
|---|---|
| `on: pull_request` with its types; `concurrency` with `cancel-in-progress` | `Advance` and `Arrives`, part of every push; `Reopen`; `Rerun(e)` |
| a person's push, Update branch | `HumanPush(input, source, hidden)`, `UpdateBranch(input, text)` |
| the job starts, checks out the branch, decides | `Start(e)`, `Decide` with `Mode` |
| `make candidate-sync`, then `candidate-validate`; `candidate-validate` alone | `Generate`, `Validate` |
| `git commit`, `git push` of the bot | `Push` |
| a failing step, the end of the job, a cancellation that takes effect | `Fail`, `Finish`, `Kill` |

Three things about the workflow shape the model. A run's mode comes from the commits its event
names, but it works on the branch as it is when the job checks it out. A cancelled run is not gone:
it may still push, or even finish, before the signal reaches it. And the required check belongs to a
commit, so `check` is what is said of the newest one. `hidden` is a push of several commits, of
which only the last is asked for its paths. `setup` has the fork, the missing token and the missing
bot login.

- `GreenIsClean`: a green check of a Pull Request that changes inputs (and not the generating code)
  means that its output is what a sync makes of them: current, promoted exactly when approved, with
  hashes and Markdown that match, and of the configured generator unless it is approved. The mode
  alone does not give that: it also needs that a bot commit is always clean, and that a run which
  speaks for a commit has seen that commit or failed.
- `OneBotCommit`: one commit of a person is answered by at most one bot commit, also when the check
  is re-run or the Pull Request reopened: the bot's commit starts no loop.
- `BotKeepsInputs`: a bot commit changes generated output only, and sits on the newest commit.
- `PendingHasRun`: while the check of the newest commit is pending there is a run for it, waiting or
  working: no cancellation, by the bot's own push or the re-run of an older commit, leaves a
  required check that nobody is about to answer. It is the safety half of the next one.
- `GateAnswers`: the newest commit gets an answer, whatever is cancelled.

### IndexManifest

`make index-build`: `BuildChunks` is `chunk-catalog`, `Reconcile` and `WriteActions` are the two
writes of `index-manifest` (the manifest first), `Interrupt` a kill between any two, `FreshCheckout`
a runner without the unversioned build directory, and `ChangeCatalog` everything that happens to the
candidates meanwhile. A document is what its parts say; a part is a chunk under the semantic key its
name is normalised to (`KeyOf`), so different parts can collide, and the body hash covers the
document's version. `Buildable` is what `prepare_catalog_chunks` and the chunk validation refuse,
`Loadable` what the JSONL reader cannot read back.

- `ManifestIsWhole`: manifest and chunk file are each those of one whole, intact catalog: every part
  of every promoted document, nothing of another, no part lost to a colliding key.
- `ListsReplay`: `deleted_chunk_ids` and then `upserted_chunk_ids` turn the old manifest into the
  new.
- `MirrorFollows`: whoever applies the chunk actions of every run has the manifest, unless a run was
  killed after it saved the manifest, or the manifest was lost. The exception is real: the repeated
  command finds everything unchanged.

### ServedDocuments

The composition of `CandidateSync` and `VectorApply` over one repository, with a check of the Pull
Request and a merge between them. `ServedDocuments` extends the first and instantiates the second
(chunks are tables, body hashes are documents).

| Code | Definition |
|---|---|
| people, and `sync-candidates` in all its steps, on the tree that is merged next | `Prepare` |
| the check of a Pull Request with inputs: the sync or the validation passed on this tree | `Gated` |
| the check of a Pull Request without inputs whose latest commit brings no output: nothing runs | `Noop` |
| the chunk builder's refusal of unreadable and damaged candidates | `Buildable` |
| `make index-build`: the documents of promoted candidates | `Desired` |
| the merge to main, which queues a run of `apply-index.yml` if the manifest changes | `Publish` |
| every step, failure and rerun of `VectorApply` | `Apply` |

A branch has to be up to date before it is merged (`docs/runbooks/metadata-pr-bot.md:51`), so there
is one tree that matters: that of the Pull Request merged next. A document is one chunk. `main` has
the inputs of the last merge, against which the next Pull Request is classified. A merge is allowed
of a tree that was checked (`Gated`, which visits all tables) or that has the inputs of main
(`Noop`): there the check looks at nothing, and any output that earlier commits of the Pull Request
brought, by the bot or by hand, is merged. `unchecked` remembers the documents that were merged so
for a status set by hand.

- `ServedWasApproved`: every point of the store, at every moment, is a document that was shown for
  review, and a person approved the content it was made from, unless the very document was merged
  `unchecked`. Not one step but the whole way can break it: an approval that changes while a run
  generates, a damaged candidate, a merge no check has looked at, a run repeated for an old commit,
  a request executed late. That the approval is still there when the document is merged is not part
  of it, and is false: see below.
- `ServedIsTheTree`: from one end to the other. When a whole tree has been synchronised, main has
  its manifest and a run for it reported success, the store has for every approved table exactly the
  document sealed for its YAML, and nothing for a table in review, whatever runs, failures, batches
  and unchecked merges there were before.

### MC modules

`MCCandidateSync`, `MCSchemaSync`, `MCMetadataGate`, `MCIndexManifest` and `MCServedDocuments`
extend a component with what an instance needs: the symmetry of its model values, the inputs of a
Pull Request, the keys of parts. `GateSpec` (run `Gate`) begins with one of two interchangeable
texts only. The constraints `EverythingSet` and `InputEdits` (run `GateRevert`) leave out missing
credentials and hand-edited output, which would be another cause of a counterexample. Symmetry is
used by `CandidatePair`, `SchemaPair`, `Manifest` and `Served`, which check invariants and action
properties only; runs with liveness use none.

## The runs

| Run | Instance | Question | Result |
|---|---|---|---|
| `CandidatePair` | 2 tables, 2 contents, 2 inputs, 2 identities, 2 bodies, 2 edits | the three safety properties with tables interacting through the preflight and the selection | holds |
| `CandidateDeep` | 1 table, a blocked content, 2 inputs, 2 identities, 3 edits; module `GateSync` | approvals under a changed contract, changed generator, settling; is the command the sync the required check reasons with? | holds |
| `CandidateOrphan` | 2 tables, 2 edits | is only what is reviewed indexed? | violated, see below |
| `Vector` | 2 chunks, 2 hashes, batches of 1, 2 pushes, 3 faults, 1 late request, 1 retry of the message | the plan, the order, the promise, the announcement and healing under every failure | holds |
| `SchemaPair` | 2 databases, 2 versions, 2 migrations, 1 save | the safety properties over several databases | holds |
| `SchemaDeep` | 1 database, 2 versions, 2 migrations, 2 saves | the same with more commits of people, and catching up | holds |
| `SchemaFollows` | 1 database, 2 migrations | does an open Pull Request follow the database? | violated |
| `SchemaUnsent` | 1 database, 1 migration | is a failed notification retried? | violated |
| `Gate` | 3 inputs (two contents, one of them also approved), 2 texts of the configured generator and 1 of another, 2 pushes of people, 1 reopening or re-run | what a green check means, the bot, that a pending check has a run, and that there is an answer | holds |
| `GateRevert` | the same inputs, 1 text, an own branch with all credentials, people change inputs only | is a commit of inputs synchronised? | violated |
| `Manifest` | 2 documents, 3 parts with 2 keys, 2 contents of which one splits lines, 3 changes | is the manifest whole, and do its differences replay? | holds |
| `Served` | 1 table, 2 contents, 2 documents, 2 edits, 2 merges that change the manifest, 2 faults, 1 late request | is only what a person approved ever served, and what the tree says in the end? | holds |

Bounds and why they are enough. Candidates: three edits of one table are one that makes the tree
stale, one that approves or damages and one that happens during a run; two edits of two tables are
one at each, or one before and one during a run that covers both; runs are not bounded, so there are
always enough to write, interrupt and repeat. Two tables suffice because tables meet only in the
preflight, the selection and the writing order. Vector: with two chunks and batches of one a plan
can add, replace and delete and has several requests, so that it can end after any of them; two
pushes and three faults allow a failed run, a late request that lands in the next and a rerun of an
older commit; the safety properties are proved for every batch size, full batches and remainders
included. Schema: two migrations are a change and its reversal or a change of each database; one
save is a reviewer's commit during a run, two are an approval and a change of mind or a close. Gate:
two pushes are one that generates and one that happens while the run is on its way, or an input and
its reversal; re-runs of a cancelled newest check are not bounded; a second text lets a sync
generate again what it had, the text of another generator lets a stale identity come in. Manifest:
two documents, because documents meet only in the file and in the all-or-nothing build; three parts,
so that two collide and one does not; three changes, so that a document can be added, altered and
removed between builds. Served: the two edits are an approval and a reopening with
other content, or an approval with a damage or a status set by hand before or after it (`CandidateDeep`
has three edits of the tree alone);
two merges are one that brings a document and one that withdraws or replaces it, and merges that
leave the manifest as it is are not counted; the two faults are a failed run or a request that is
executed late, in the same run or a later one, and the rerun of an older commit (`Vector` has three);
the message is sent once; tables meet in the check only, which
`CandidatePair` and the proof cover. The proofs below have no bound at all.

Every property of a passing run has a mutant in `PROJECT.json`: a plausible bug in one definition
(the status is kept on refresh, the push is forced, deletes come first, only identifiers are
compared, ...) that makes TLC report that property violated on the same instance.

### Where the repository says something else

- `CandidateOrphan`: a dropped table's candidate stays in `generated/structured` and is indexed,
  while the guideline says retrieval "must remove deleted or renamed chunks".
- `SchemaFollows`: a reverted migration leaves the open Pull Request stale and every later run
  refused by the cumulative-change check, until a person closes it.
- `SchemaUnsent`: a failed `pr_review` is not sent by a later run, since that run publishes nothing.
  Re-running the same workflow run behaves alike: it is a new checkout that finds the branch
  current.
- `GateRevert`: the gate asks whether the whole Pull Request changes an input. A person changes an
  input, the bot commits the output generated from it, and the person takes the input back to what
  main has: no input differs then, nothing is synchronised, and the check is green beside the output
  the bot made of the other input. The runbook says of a latest commit of inputs that it is
  validated and synchronised. The next Pull Request that changes an input repairs it, since the sync
  visits all tables.

Met while modelling and shown by the models' behaviours, without a run of their own:

- `docs/runbooks/metadata-operations.md:67` says deletions are applied before upserts and that an
  adapter must preserve that; `apply_index.py:66` does the opposite on purpose, as
  `PR_PLAN_PHASE_2.md:1071` asks. `NoGap` is the reason the code's order is the better one. The
  lists of `index-manifest` are meant to be replayed deletes first, and `ListsReplay` holds for that
  order.
- An update whose run fails after the mutation is never announced: the next run finds nothing to do
  and is a NOOP (`apply_index.py:71`). `AnnouncedIsNews` is the side of the announcement that holds.
- The gap of `GateRevert` seen from the index, in `ServedDocuments`: a table is approved and promoted
  on the branch, the approval is taken back, and the Pull Request, which changes no input any more,
  is merged under `Noop`. The promoted candidate comes to main and into the manifest under a YAML in
  review, although `docs/runbooks/index-manifest.md:5` says the manifest "includes only chunks whose
  reviewer document is `approved`" and `PRD.md:932` agrees: the chunk builder looks at candidates
  only. What is served was shown and approved (`ServedWasApproved`), but the approval is withdrawn.
- A candidate's status can be changed by hand or by a text merge without a hash noticing
  (`candidate_state.py:167`). A sync or a validation refuses or regenerates such a file, since it
  compares both statuses; a merge without a check (`Noop`) indexes it.
- A Pull Request whose newest commit is the bot's is refused when a person reopens it or marks it
  ready: the actor of that event is not the bot. The next push of a person repairs it.
- The paths of a merge commit are empty for `git diff-tree`, although the docstring of
  `read_commit_changes` calls it merge-safe: main can be merged into the branch with a hand-resolved
  output, and the gate generates instead of refusing. `GreenIsClean` holds nevertheless.
- A hand-edited output in an earlier commit of a push is not seen by the latest-commit check. In a
  Pull Request with inputs the sync repairs or refuses it; in one without, it passes, and
  `ServedDocuments` merges it.
- A Pull Request that is merged between the checkout of a schema-sync run and its search for open
  Pull Requests (`schema-sync.yml:54` and `:65`, an installation apart) is missed by both: the run
  works from the main before the merge, finds no open Pull Request, and opens a second one with the
  schema main already has. `SchemaSync` has these behaviours (`Checkout`, `Merge`, `Prepare`); the
  properties hold through them, and a person resolves or closes the second Pull Request.
- A character like U+2028 in a description makes the chunk file unreadable (`Loadable`).
- The manifest is saved before its actions: a command killed in between and repeated reports that
  nothing changed (`MirrorFollows` exempts this case).
- `PR_PLAN_PHASE_2.md:918` says: "A fresh CI runner can compute before/after actions without relying
  on an ignored local manifest." The chunk actions are relative to `build/index/manifest.json`, which
  is not versioned: in a fresh checkout, and so in every run of `index.yml`, every chunk is reported
  as created and none as removed. `FreshCheckout` is that step, and `MirrorFollows` exempts what
  follows it. The vector apply is not affected: it compares the store.

## Fairness

- Candidates: weak fairness that a started generation ends; strong fairness of a full
  `sync-candidates` (people and the gate run it again and again), of a successful generation and of
  each write: an interruption or a gateway error does not hit the same point for ever. The gateway
  adapter retries, and the code can guarantee no more than that.
- Vector: weak fairness of each step of a run, of starting the waiting run, of a late request's
  arrival and of dispatching the newest commit; strong fairness of `Bootstrap`, because the operator
  asks for it and a run may be refused in between. Faults are bounded by `MaxFaults`: "failures
  stop".
- Schema: weak fairness of the run (a daily schedule, and a started job goes on) and `<>[][~Fail]`:
  failures stop some day. `PeopleFairness` is what `MainCatchesUp` needs of reviewers: they remove
  orphans, resolve conflicts and merge what can be merged. `SchemaFollows` assumes nothing of
  people, since it is about the automation.
- Served: none; its properties are about safety.
- Gate: weak fairness of the run (GitHub starts the run that waits and a started job goes on or is
  cancelled), and of somebody re-running the check of the newest commit once it was cancelled, which
  is what a person who wants to merge does. Pushes and other re-runs are bounded.

## What is proved

The proofs hold for every value of the constants: any number of tables, databases, documents,
chunks, contents, versions, batch size, pushes, edits and faults. The only assumptions are the named
`ASSUME`s of the modules (bounds and retries are naturals, batches are not empty, blocked contents are contents,
databases are disjoint sets of tables, inputs and keys have their types, the configured generator's
texts are texts, and there is a document a generator can answer).

| Theorem | Statement | Inductive invariant |
|---|---|---|
| `TypeCorrect` | `CandidateSync!TypeOK` | with `HalfWritten`: a table whose JSON is written still has its item, from which the Markdown is rendered |
| `NoPromotionWithoutReview` | `PromotedWasReviewed` | `PromotionInv`: every readable candidate on disk, with the document its hashes were taken of, was shown; every approved YAML was recorded as approved; every planned promotion is of a shown document and approved content, and every promotion on disk of approved content unless its status was set by hand. The part about planned ones is what carries the property over an edit between `Plan` and `WriteCandidate` |
| `SyncIsComplete`, `GateProtectsIndex` | `RerunIsUnchanged`, `IndexedIsApproved` | `SyncInv`: in an undisturbed run every chosen table is on its way: its planned result is one the next run keeps, or it waits for the generator, or both its files are already written so. Half-written tables have their item on disk. For the second, a passed validation found every chosen table kept or promotable |
| `SyncIsAsTheGateExpects` (`GateSyncProofs`) | `ReportIsOutcome` | `SeenSyncInv`: `SyncInv`, and of each covered table of an undisturbed run its promise: what waits for the generator was regenerable when the command began, what is planned is an outcome of what was found then, and so is what has been written. It rests on lemmas that the decisions inside are those seen from outside (`DecisionsSeen`, `KeptIsOutcome`, `NewIsOutcome`) |
| `RefusalIsExpected` | `RefusalIsNoOutcome` | types, `OutcomeExists` and that a generator can answer something |
| `SyncedIsClean` | a covered table of a reported sync is `Clean` | `SyncInv`: the state the gate promises with `GreenIsClean` is the one the command leaves |
| `ApplyTypeCorrect` | `VectorApply!TypeOK` | itself |
| `PlanIsSufficient`, `NewsIsTrue` | `PlanReachesTarget`, `AnnouncedIsNews` | `ApplyInv`: until a late request interferes, the remaining upserts and deletes are exactly the remaining difference, and the phase is the one that is due for them. For what stays true after the end: no run is at work then, and the points are the manifest. For the announcement: a plan that is at its end changed something, that change is news until a message of the run is posted (`ChangeIsNews`), and no more messages than failed attempts were posted (`MessagesAreAttempts`) |
| `NeverAGap` | `NoGap` | from `ApplyInv` and a lemma on what each step does to the store |
| `ImplementsPromise` | `KeepsPromise` | `ApplyInv`, and that every late request is for a published manifest; every step is a `Publish`, an `Aim`, a `Put`, a `Drop`, a `Stray` or a stutter |
| `SchemaTypeCorrect` | `SchemaSync!TypeOK` | itself, in three parts: remote, run, history |
| `DraftsAlwaysFollow` | `DraftsFollowSchema` | `DraftInv`: main, the merge base and the main the run has seen pass the gate, the branch and the checkout have their drafts. The merge base is needed because a text merge of two valid trees is valid only relative to a valid base (`MergedFollows`, `MergedValid`) |
| `ApprovalsStayTrue` | `ApprovalIsForItsSchema` | `ApprovalInv`: the property for main, branch and checkout, with types. No part about the base is needed: the merged mark is always that of one of the two sides |
| `WordsAlwaysStay` | `WordsStay` | `WordsInv`: a working run that meets an open Pull Request continues it, and as long as nobody has pushed meanwhile its checkout keeps the words of each review of the branch or has main's (`MergedKeeps`, `RefreshedKeeps`) |
| `MetadataGateProofs!TypeCorrect` | `TypeOK` | with `Answered`: a run that is done has an answer |
| `OneBot` | `OneBotCommit` | `RunInv` and `BotInv`. `RunInv`: a run's commit is at least as new as its event and not newer than the tip, equal to it when the number is; what waits to be pushed is an outcome that differs. `BotInv`: a bot commit is clean, and the bot has answered only when the tip is its own. A sync of a clean tree returns it (`SyncOfClean`), so the bot has nothing to add to itself |
| `BotKeeps` | `BotKeepsInputs` | from the same and the guard of `Push` |
| `Green` | `GreenIsClean` | `GreenInv`: of a newest commit that is not clean, every event is to be generated or refused, and no run of it has a green answer. It rests on `OneBot`'s invariant, since the mode `validate` is for bot commits |
| `NoPendingWithoutRun` | `PendingHasRun` | with `RunInv`: the events of a commit start or replace a run of it (`AdvancePends`), and a run that ends or is replaced has answered for the newest commit or leaves one that will (`PendingStays`) |
| `IndexManifestProofs!TypeCorrect` | `TypeOK` | itself |
| `Whole` | `ManifestIsWhole` | itself with types; the step is a lemma that the snapshot of a buildable catalog describes it, which needs that keys do not collide |
| `Replay` | `ListsReplay` | none: it holds of any two manifests |
| `Follows` | `MirrorFollows` | `FollowInv`: the actions not yet written are the difference between the manifest that was replaced and the one there is |
| `OnlyApprovedIsServed` | `ServedWasApproved` | `ServedInv`: every manifest main has had is of documents that were shown, and approved or else merged `unchecked`, and all that a run, the queue, a late request or the store holds comes from one of them. A merge adds such a manifest because of `PromotionInv` of the tree, and of `SyncInv` where a check has seen a status set by hand; the pipeline inherits both (`TreeSteps`) |
| `ApprovedIsServed` | `ServedIsTheTree` | `SyncInv` of the tree and `PlanReachesTarget` of the apply, which the pipeline inherits: its steps are steps of `VectorApply` pushing manifests (`PipelineApplies`), so the theorems proved there are cited, not proved again |
| `MergesLeaveNoGap`, `MergesKeepPromise` | `NoGap` and `KeepsPromise` of the pipeline | `PipelineApplies` |

Only model-checked: the liveness properties `RetriesSettle`, `Heals`, `MainCatchesUp` and
`GateAnswers`, since liveness under fairness is outside the prover's reach. Every other property of
a passing run is a theorem. The four violated properties need only their counterexample.

## Abstractions

- A review's content, a document and a schema are values with equality; hashes are taken to be
  injective. The two kinds of fingerprint comparison that the code treats differently (inputs
  against the tree, model and prompt against the environment) are kept apart.
- `validation/review.py` is a predicate of the content (`Blocked`), whatever the status says;
  validation that depends on another file (schema hash, orphans) is in `SchemaSync`.
- Files are replaced atomically, as `io/atomic_text.py` does; directories are not.
- The schema-sync workflow throws its checkout away when it fails. A run of the same command in a
  developer's checkout, where copying several directories can be interrupted, is not modelled.
- Telegram notifications are switched on. The attempts of `index_done` are steps of `VectorApply`;
  the send of `pr_review` has an outcome in `SchemaSync`, where its attempts and the marker comment
  (which only skips a second send for the same commit) are not separate steps.
- Hand edits of a candidate change its document, its status, or make it unreadable. A person who
  also recomputes the hashes or writes another fingerprint makes a new candidate, and what the tree
  says of its origin is then what that person wrote; this is outside.
- `SchemaSync` has the mark and the words of a review as a whole. The checks and the refresh of
  single columns (`validation/review.py:94-114`, `create_drafts.py:181`) are inside the words.
- `BuildChunks` reads all candidates at once, from one catalog of documents: a candidate saved while
  the files are read one after the other, and the check for chunk ids of two databases that are the
  same (their names are part of the id), are not told apart.
- The contract version is constant, and a schema sync never changes it.
- The gate's generated output is that of one table, and the retrieval smoke test and the review
  preflight are `Fail`. A push to a branch while GitHub has not yet delivered the event of an
  earlier one is not told apart from two pushes.
- A part of a document is a content under a key; that a chunk repeats the facts its validation asks
  for is a property of the builder's wording. `Difference` knows chunks by identifier and compares
  the whole chunk, which is what the body hash covers.
- Labels of Pull Requests, more than one open schema-sync Pull Request and the wording of bodies are
  left out.

## Not modelled

- `map_index_actions` of `index_changes.py` (document actions from Git paths): a report that no
  program reads. The workflow cancels older runs, so a lost report has no effect on the index.
- Notifications as a component of their own: a send is at least once by design and keeps no state
  but the marker comment. What the two other components see of it is in `VectorApply` and
  `SchemaSync`; `job_failed` is sent by a workflow that changes nothing.
- Configuration, catalog profiles and CLI parsing: pure functions of static files.
- Prompts, response parsing, ranking, embeddings and message layout: data the properties do not
  read. `Generate` writes any document a generator may answer.
- Acceptance and quality workflows: they run the commands above on fixtures.

## What could come next

1. `IndexManifest` and `MetadataGate` in `ServedDocuments`, in place of `Desired` and of `Gated` and
   `Noop`: documents of several chunks, and the commits of the Pull Request one by one. `GateSync` is
   the first half of the second.
2. The interrupted copy of `scheduled_schema_sync.py` in a developer's checkout.
3. Labels and several open Pull Requests in `SchemaSync`.
