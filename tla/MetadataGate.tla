---------------------------- MODULE MetadataGate ----------------------------
(***************************************************************************)
(* The required check of a metadata Pull Request, `Metadata PR / pr-gate`: *)
(*   .github/workflows/metadata-pr.yml       events, concurrency, steps,   *)
(*   application/classify_changes.py         what a changed path is,       *)
(*   adapters/git/changed_paths.py           which paths changed,          *)
(*   cli.py run_classify_changes, run_sync_candidates.                     *)
(*                                                                         *)
(* People push to the branch of the Pull Request, reopen it, merge main    *)
(* into it and re-run the check of any commit; every event starts a run and*)
(* cancels the one in progress.  A run decides by the commits of its event,*)
(* but it checks out the branch, works there, and may push a commit of its *)
(* own, which is an event again.  A cancelled run goes on for a while.     *)
(*                                                                         *)
(* The catalog is one table: what its reviewer files say, and the candidate*)
(* and Markdown generated from them.  What a sync makes of it is that of   *)
(* SyncOutcome; the generator configured for the workflow stays the same   *)
(* while the Pull Request is open.                                         *)
(***************************************************************************)
EXTENDS Naturals, SyncOutcome

CONSTANTS
    Answers,    \* texts of the generator configured for the workflow
    MaxEdits,   \* bound: pushes by people and merges of main
    MaxReruns   \* bound: reopened Pull Requests and re-run checks

ASSUME AnswersAssumption == Answers \subseteq Texts
ASSUME BoundsAssumption == MaxEdits \in Nat /\ MaxReruns \in Nat

VARIABLES
    setup,     \* is the branch of this repository and not of a fork, is there a
               \* bot token, is the bot's login configured
    tip,       \* the newest commit of the branch
    check,     \* what the required check says of it
    events,    \* the events there have been: each can be run again
    waiting,   \* the run that waits for the one in progress to end, if any
    \* the run in progress
    phase, running, killed, mode, work, result, verdict,
    \* observation only: never read by an action of the program
    bots,      \* bot commits since the last commit of a person
    edits, reruns

branch == <<setup, tip, edits>>
job == <<phase, running, mode, work, result, verdict>>
vars == <<branch, check, events, waiting, job, killed, bots, reruns>>

-----------------------------------------------------------------------------
(* Commits.                                                                *)

Kinds == {"input", "source", "output"}
Changed(old, new) == {k \in Kinds : old[k] # new[k]}

\* `base` is where the branch left main, `paths` what the commit itself touched.
Commit == [number : Nat, tree : Tree, base : Tree, paths : SUBSET Kinds,
           by : {"human", "bot"}]

\* What the three-dot diff of the Pull Request shows.
Touched(commit) == Changed(commit.base, commit.tree)

Modes == {"noop", "generate", "validate", "validate-migration", "reject-published"}

\* The commits an event names never change, so neither does what a run of it decides.
Event == [number : Nat, mode : Modes]

TypeOK ==
    /\ setup \in [own : BOOLEAN, token : BOOLEAN, login : BOOLEAN]
    /\ tip \in Commit
    /\ check \in {"none", "green", "red", "cancelled"}
    /\ events \subseteq Event
    /\ waiting \subseteq events
    /\ phase \in {"idle", "checkout", "working", "pushing", "done"}
    /\ running \subseteq events
    /\ killed \in BOOLEAN
    /\ mode \in Modes \union {"none"}
    /\ work \subseteq Commit
    /\ result \subseteq Output
    /\ verdict \in {"none", "green", "red"}
    /\ bots \in Nat
    /\ edits \in Nat
    /\ reruns \in Nat

-----------------------------------------------------------------------------
(* The decision.                                                           *)

\* Mutant of Mode: whatever touches generated output only is taken to be the bot's.
ModeByPaths(commit, actor) ==
    IF "output" \in commit.paths
    THEN IF setup.own /\ commit.paths = {"output"} THEN "validate"
         ELSE IF "source" \in Touched(commit) THEN "validate-migration"
         ELSE "reject-published"
    ELSE IF Touched(commit) \intersect {"input", "source"} # {} THEN "generate"
    ELSE "noop"

\* Mutant of Mode: a mode no step of the workflow knows.
ModeUnknown(commit, actor) == "skipped"

\* Generated output in the latest commit is the bot's, or part of a change of the
\* generating code, or refused.  Otherwise the whole Pull Request decides.
Mode(commit, actor) ==
    IF "output" \in commit.paths
    THEN IF setup.login /\ actor = "bot" /\ setup.own /\ commit.paths = {"output"}
         THEN "validate"
         ELSE IF "source" \in Touched(commit) THEN "validate-migration"
         ELSE "reject-published"
    ELSE IF Touched(commit) \intersect {"input", "source"} # {} THEN "generate"
    ELSE "noop"

-----------------------------------------------------------------------------
(* Events.                                                                 *)

OfTip(e) == e.number = tip.number
TipWaits == \E e \in waiting : OfTip(e)

\* Mutant of Arrives: an event finds no room while another run waits or goes on.
ArrivesIfFree(e) ==
    /\ events' = events \union {e}
    /\ waiting' = IF phase = "idle" /\ waiting = {} THEN {e} ELSE waiting
    /\ killed' = (phase # "idle")

\* A new run waits, in place of one that waited, and the one in progress is
\* cancelled - some time later.
Arrives(e) ==
    /\ events' = events \union {e}
    /\ waiting' = {e}
    /\ killed' = (phase # "idle")

\* A run speaks for the commit of its event, unless a newer run of it waits.
Concluded(answer) ==
    check' = IF (\E e \in running : OfTip(e)) /\ ~TipWaits THEN answer ELSE check

NextCommit(tree, base, paths, by) ==
    [number |-> tip.number + 1, tree |-> tree, base |-> base, paths |-> paths, by |-> by]

\* A commit arrives on the branch and with it an event; nothing is known of it yet.
Advance(commit) ==
    /\ tip' = commit
    /\ check' = "none"
    /\ Arrives([number |-> commit.number, mode |-> Mode(commit, commit.by)])

-----------------------------------------------------------------------------
(* People.                                                                 *)

Edit ==
    /\ edits < MaxEdits
    /\ edits' = edits + 1
    /\ UNCHANGED <<setup, job, reruns>>

\* What a person may have done to generated output: damage a candidate, set its status,
\* which no hash covers, edit its Markdown, or run the sync on their own machine, with the
\* generator of the workflow or another, and add what it made.
EditedOutputs(tree) ==
    {[tree.output EXCEPT !.intact = FALSE], [tree.output EXCEPT !.promoted = ~@],
     [tree.output EXCEPT !.rendered = FALSE]}
       \union Outcomes(tree, Answers)
       \union Outcomes(tree, Texts \ Answers)

\* A person pushes one commit or several, the last of which may leave alone the
\* generated output that an earlier one touched.
HumanPush(input, source, hidden) ==
    /\ Edit
    /\ \E output \in {tip.tree.output} \union
             EditedOutputs([tip.tree EXCEPT !.input = input]) :
          LET tree == [input |-> input, source |-> source, output |-> output] IN
          /\ tree # tip.tree
          /\ Advance(NextCommit(tree, tip.base, Changed(tip.tree, tree) \ hidden, "human"))
    /\ bots' = 0

\* Main, with what other Pull Requests have brought to it, is merged into the branch.
\* What only one side changed is taken from there, what both changed from either; a
\* merge commit shows no paths of its own.  Other Pull Requests have the same generator.
UpdateBranch(input, text) ==
    /\ Edit
    /\ text \in Answers \union {tip.base.output.text}
    /\ LET main == [tip.base EXCEPT !.input = input, !.output = Synced(input, text)] IN
       /\ main # tip.base
       /\ \E mine \in SUBSET (Changed(tip.base, tip.tree) \intersect Changed(tip.base, main)) :
             LET Merge(k) == IF k \in mine \/ main[k] = tip.base[k] THEN tip.tree[k] ELSE main[k]
                 tree == [input |-> Merge("input"), source |-> Merge("source"),
                          output |-> Merge("output")]
             IN Advance(NextCommit(tree, main, {}, "human"))
    /\ bots' = 0

\* The Pull Request is reopened, or marked ready for review, by a person.
Reopen ==
    /\ reruns < MaxReruns
    /\ reruns' = reruns + 1
    /\ tip.number > 0
    /\ check' = "none"
    /\ Arrives([number |-> tip.number, mode |-> Mode(tip, "human")])
    /\ UNCHANGED <<branch, job, bots>>

\* A run is started again with the event it had - also one of an older commit, which
\* cancels the run of the newest.
Rerun(e) ==
    /\ waiting # {e}
    /\ e \notin running
    /\ IF OfTip(e) /\ check = "cancelled"
       THEN UNCHANGED reruns
       ELSE reruns < MaxReruns /\ reruns' = reruns + 1
    /\ check' = IF OfTip(e) THEN "none" ELSE IF TipWaits THEN "cancelled" ELSE check
    /\ Arrives(e)
    /\ UNCHANGED <<branch, job, bots>>

-----------------------------------------------------------------------------
(* The run.                                                                *)

Start(e) ==
    /\ phase = "idle"
    /\ waiting' = waiting \ {e}
    /\ running' = {e}
    /\ phase' = "checkout"
    /\ UNCHANGED <<branch, check, events, killed, mode, work, result, verdict, bots, reruns>>

\* All that is left of the run is its answer.
Verdict(answer) ==
    /\ phase' = "done"
    /\ verdict' = answer
    /\ mode' = "none"
    /\ work' = {}
    /\ result' = {}

\* Check out the branch - which may be newer than the event - and decide by the event.
Decide ==
    /\ phase = "checkout"
    /\ \E e \in running :
          IF e.mode = "noop" THEN Verdict("green")
          ELSE IF e.mode = "reject-published" THEN Verdict("red")
          ELSE /\ phase' = "working"
               /\ mode' = e.mode
               /\ work' = {tip}
               /\ UNCHANGED <<result, verdict>>
    /\ UNCHANGED <<branch, check, events, waiting, killed, running, bots, reruns>>

Validate ==
    /\ phase = "working"
    /\ mode \in {"validate", "validate-migration"}
    /\ \E commit \in work : Verdict(IF Accepted(commit.tree) THEN "green" ELSE "red")
    /\ UNCHANGED <<branch, check, events, waiting, killed, running, bots, reruns>>

\* Sync and validate.  Without a difference there is nothing to commit; a fork, or
\* a repository without the bot's token, cannot commit one.
Generate ==
    /\ phase = "working"
    /\ mode = "generate"
    /\ \E commit \in work :
          IF Outcomes(commit.tree, Answers) = {}
          THEN Verdict("red")
          ELSE \E output \in Outcomes(commit.tree, Answers) :
                  IF output = commit.tree.output THEN Verdict("green")
                  ELSE IF ~setup.own \/ ~setup.token THEN Verdict("red")
                  ELSE /\ phase' = "pushing"
                       /\ result' = {output}
                       /\ UNCHANGED <<mode, work, verdict>>
    /\ UNCHANGED <<branch, check, events, waiting, killed, running, bots, reruns>>

BotCommit(commit, output) ==
    NextCommit([commit.tree EXCEPT !.output = output], commit.base, {"output"}, "bot")

\* Mutant of Push: the push is forced.
PushForced ==
    /\ phase = "pushing"
    /\ \E commit \in work, output \in result : Advance(BotCommit(commit, output))
    /\ bots' = bots + 1
    /\ Verdict("green")
    /\ UNCHANGED <<setup, edits, running, reruns>>

\* Commit and push; git refuses when the branch has moved on.
Push ==
    /\ phase = "pushing"
    /\ \E commit \in work, output \in result :
          IF tip = commit
          THEN /\ Advance(BotCommit(commit, output))
               /\ bots' = bots + 1
               /\ Verdict("green")
          ELSE /\ Verdict("red")
               /\ UNCHANGED <<tip, check, events, waiting, killed, bots>>
    /\ UNCHANGED <<setup, edits, running, reruns>>

\* Any step fails: the review preflight, the gateway, the retrieval smoke test, git.
Fail ==
    /\ phase \in {"checkout", "working", "pushing"}
    /\ Verdict("red")
    /\ UNCHANGED <<branch, check, events, waiting, killed, running, bots, reruns>>

End(answer) ==
    /\ Concluded(answer)
    /\ phase' = "idle"
    /\ running' = {}
    /\ killed' = FALSE
    /\ mode' = "none"
    /\ work' = {}
    /\ result' = {}
    /\ verdict' = "none"
    /\ UNCHANGED <<branch, events, waiting, bots, reruns>>

Finish == phase = "done" /\ End(verdict)

\* The cancellation gets through.
Kill == phase # "idle" /\ killed /\ End("cancelled")

-----------------------------------------------------------------------------

\* The branch has just left main, whose candidates are in order, whoever generated them.
Init ==
    /\ setup \in {[own |-> TRUE, token |-> TRUE, login |-> TRUE],
                  [own |-> FALSE, token |-> FALSE, login |-> TRUE],
                  [own |-> TRUE, token |-> TRUE, login |-> FALSE]}
    /\ \E input \in Inputs, text \in Texts :
          LET main == [input |-> input, source |-> "old", output |-> Synced(input, text)] IN
          tip = [number |-> 0, tree |-> main, base |-> main, paths |-> {}, by |-> "human"]
    /\ check = "none"
    /\ events = {}
    /\ waiting = {}
    /\ phase = "idle"
    /\ running = {}
    /\ killed = FALSE
    /\ mode = "none"
    /\ work = {}
    /\ result = {}
    /\ verdict = "none"
    /\ bots = 0
    /\ edits = 0
    /\ reruns = 0

People ==
    \/ \E input \in Inputs, source \in {"old", "new"}, hidden \in {{}, {"output"}} :
          HumanPush(input, source, hidden)
    \/ \E input \in Inputs, text \in Texts : UpdateBranch(input, text)
    \/ Reopen
    \/ \E e \in events : Rerun(e)

Run ==
    \/ \E e \in waiting : Start(e)
    \/ Decide
    \/ Validate
    \/ Generate
    \/ Push
    \/ Fail
    \/ Finish
    \/ Kill

Next == People \/ Run

Spec == Init /\ [][Next]_vars

\* A run that waits is started when it can be, and goes on to its end.  The check
\* of the newest commit, once cancelled, is run again by somebody who wants to merge.
Fairness ==
    /\ WF_vars(Run)
    /\ WF_vars(\E e \in events : OfTip(e) /\ check = "cancelled" /\ Rerun(e))

FairSpec == Spec /\ Fairness

-----------------------------------------------------------------------------
(* Properties.                                                             *)

\* Whoever pushed what and in whatever order runs were cancelled and repeated: when the
\* check of the newest commit is green and the Pull Request changes inputs, the generated
\* output is what a sync makes of them - current, promoted exactly when approved, with
\* hashes and Markdown that match.  (A change of the generating code is validated only.)
GreenIsClean ==
    check = "green" /\ "input" \in Touched(tip) /\ "source" \notin Touched(tip)
    => Clean(tip.tree, Answers)

\* PRD.md:1022: a human commit makes the bot commit once or not at all, also when its
\* check is run again, and the bot's commit is no reason for another.
OneBotCommit == bots <= 1

\* A bot commit builds on what people have pushed, also while its run was on its way.
BotKeepsInputs ==
    [][tip' # tip /\ tip'.by = "bot"
       => Changed(tip.tree, tip'.tree) \subseteq {"output"} /\ tip'.base = tip.base]_vars

\* While the check of the newest commit is pending there is a run that will decide it,
\* waiting or in progress: no event that is overtaken, repeated out of order or left by a
\* cancelled run makes the Pull Request wait for a check nobody is working on.
PendingHasRun ==
    tip.number > 0 /\ check = "none" => TipWaits \/ \E e \in running : OfTip(e)

\* PR_PLAN.md, PR-07: the gate always gives its answer and never stays pending.
GateAnswers == <>[](tip.number > 0 => check \in {"green", "red"})

-----------------------------------------------------------------------------
(* What the repository says and the code does not do.                      *)

\* metadata-pr-bot.md: for a latest commit of inputs "Validate, sync candidates, then bot
\* commit if needed".  A green one has candidates made from what it says.
InputCommitIsSynced == check = "green" /\ tip.paths = {"input"} => Current(tip.tree)
=============================================================================
