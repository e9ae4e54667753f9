-------------------------- MODULE MetadataGateProofs --------------------------
(* What the gate of a metadata Pull Request guarantees, for all contents and texts and *)
(* for any number of pushes, merges, reruns and cancellations.                         *)
EXTENDS MetadataGate, TLAPS

-----------------------------------------------------------------------------
(* What a sync does with a tree.                                           *)

LEMMA TreeParts ==
    ASSUME NEW tree \in Tree
    PROVE  /\ tree.input \in Inputs /\ tree.source \in {"old", "new"} /\ tree.output \in Output
           /\ tree.input.content \in Contents /\ tree.input.approved \in BOOLEAN
           /\ tree.output.content \in Contents /\ tree.output.promoted \in BOOLEAN
           /\ tree.output.intact \in BOOLEAN /\ tree.output.rendered \in BOOLEAN
           /\ tree.output.text \in Texts
BY InputsAssumption DEF Tree, Output

LEMMA SyncedType ==
    ASSUME NEW input \in Inputs, NEW text \in Texts
    PROVE  Synced(input, text) \in Output
BY InputsAssumption DEF Synced, Output

LEMMA OutcomesType ==
    ASSUME NEW tree \in Tree, NEW answers
    PROVE  Outcomes(tree, answers) \subseteq Output
BY TreeParts, SyncedType DEF Outcomes

LEMMA WithOutput ==
    ASSUME NEW tree \in Tree, NEW output \in Output
    PROVE  /\ [tree EXCEPT !.output = output] \in Tree
           /\ [tree EXCEPT !.output = output].input = tree.input
           /\ [tree EXCEPT !.output = output].source = tree.source
           /\ [tree EXCEPT !.output = output].output = output
BY DEF Tree

\* Why a sync leaves what it leaves.
LEMMA OutcomeOf ==
    ASSUME NEW tree \in Tree, NEW answers, NEW output \in Outcomes(tree, answers)
    PROVE  \E t \in Texts :
              /\ output = Synced(tree.input, t)
              /\ \/ (Kept(tree, answers) \/ Promotable(tree)) /\ t = tree.output.text
                 \/ Regenerable(tree, answers) /\ t \in answers
BY DEF Outcomes

\* What a sync leaves is in order.
LEMMA SyncCleans ==
    ASSUME NEW tree \in Tree, NEW answers, NEW output \in Outcomes(tree, answers)
    PROVE  Clean([tree EXCEPT !.output = output], answers)
<1>1. PICK t \in Texts :
         /\ output = Synced(tree.input, t)
         /\ \/ (Kept(tree, answers) \/ Promotable(tree)) /\ t = tree.output.text
            \/ Regenerable(tree, answers) /\ t \in answers
  BY OutcomeOf
<1>2. output \in Output
  BY OutcomesType
<1>3. tree.input.approved \/ t \in answers
  BY <1>1 DEF Kept, Promotable
<1>4. QED  BY <1>1, <1>2, <1>3, WithOutput DEF Synced, Clean, Kept, Settled, Valid, Current

\* And there a second sync finds nothing to do.
LEMMA SyncOfClean ==
    ASSUME NEW tree \in Tree, NEW answers, Clean(tree, answers),
           NEW output \in Outcomes(tree, answers)
    PROVE  output = tree.output
<1>1. PICK t \in Texts :
         /\ output = Synced(tree.input, t)
         /\ \/ (Kept(tree, answers) \/ Promotable(tree)) /\ t = tree.output.text
            \/ Regenerable(tree, answers)
  BY OutcomeOf
<1>2. ~Regenerable(tree, answers)
  BY TreeParts DEF Clean, Kept, Settled, Valid, Regenerable
<1>3. output = Synced(tree.input, tree.output.text)
  BY <1>1, <1>2
<1>4. tree.output = [content |-> tree.output.content, promoted |-> tree.output.promoted,
                     intact |-> tree.output.intact, rendered |-> tree.output.rendered,
                     text |-> tree.output.text]
  BY DEF Tree, Output
<1>5. /\ tree.output.content = tree.input.content
      /\ tree.output.promoted = tree.input.approved
      /\ tree.output.intact = TRUE
      /\ tree.output.rendered = TRUE
  BY TreeParts DEF Clean, Kept, Settled, Valid, Current
<1>6. QED  BY <1>3, <1>4, <1>5 DEF Synced

\* A sync that changes nothing has found nothing to change.
LEMMA SyncOfSynced ==
    ASSUME NEW tree \in Tree, NEW answers, tree.output \in Outcomes(tree, answers)
    PROVE  Clean(tree, answers)
<1>1. [tree EXCEPT !.output = tree.output] = tree
  BY DEF Tree
<1>2. QED  BY <1>1, SyncCleans

-----------------------------------------------------------------------------
(* Types.                                                                  *)

LEMMA ModeType ==
    ASSUME NEW commit, NEW actor
    PROVE  Mode(commit, actor) \in Modes
BY DEF Mode, Modes

LEMMA NextCommitType ==
    ASSUME tip.number \in Nat, NEW tree \in Tree, NEW base \in Tree,
           NEW paths \in SUBSET Kinds, NEW by \in {"human", "bot"}
    PROVE  NextCommit(tree, base, paths, by) \in Commit
BY DEF NextCommit, Commit

LEMMA ArrivesType ==
    ASSUME events \subseteq Event, phase \in {"idle", "checkout", "working", "pushing", "done"},
           NEW e \in Event, Arrives(e)
    PROVE  /\ events' \subseteq Event /\ events \subseteq events'
           /\ waiting' \subseteq events' /\ killed' \in BOOLEAN
BY DEF Arrives

LEMMA AdvanceType ==
    ASSUME events \subseteq Event, phase \in {"idle", "checkout", "working", "pushing", "done"},
           NEW commit \in Commit, Advance(commit)
    PROVE  /\ tip' \in Commit /\ check' = "none"
           /\ events' \subseteq Event /\ events \subseteq events'
           /\ waiting' \subseteq events' /\ killed' \in BOOLEAN
<1>1. [number |-> commit.number, mode |-> Mode(commit, commit.by)] \in Event
  BY ModeType DEF Commit, Event
<1>2. QED  BY <1>1, ArrivesType DEF Advance

LEMMA TypeInit == Init => TypeOK
<1> SUFFICES ASSUME Init PROVE TypeOK
  OBVIOUS
<1>1. PICK input \in Inputs, text \in Texts :
         tip = [number |-> 0,
                tree |-> [input |-> input, source |-> "old", output |-> Synced(input, text)],
                base |-> [input |-> input, source |-> "old", output |-> Synced(input, text)],
                paths |-> {}, by |-> "human"]
  BY DEF Init
<1>2. tip \in Commit
  BY <1>1, SyncedType DEF Commit, Tree
<1>3. setup \in [own : BOOLEAN, token : BOOLEAN, login : BOOLEAN]
  <2>1. \/ setup = [own |-> TRUE, token |-> TRUE, login |-> TRUE]
        \/ setup = [own |-> FALSE, token |-> FALSE, login |-> TRUE]
        \/ setup = [own |-> TRUE, token |-> TRUE, login |-> FALSE]
    BY DEF Init
  <2>2. \A x, y, z \in BOOLEAN : [own |-> x, token |-> y, login |-> z] \in
                                   [own : BOOLEAN, token : BOOLEAN, login : BOOLEAN]
    OBVIOUS
  <2>3. QED  BY <2>1, <2>2
<1>4. /\ check \in {"none", "green", "red", "cancelled"}
      /\ phase \in {"idle", "checkout", "working", "pushing", "done"}
      /\ mode \in Modes \union {"none"}
      /\ verdict \in {"none", "green", "red"}
  BY DEF Init
<1>5. events \subseteq Event /\ waiting \subseteq events /\ running \subseteq events
  BY DEF Init
<1>6. work \subseteq Commit /\ result \subseteq Output /\ killed \in BOOLEAN
  BY DEF Init
<1>7. bots \in Nat /\ edits \in Nat /\ reruns \in Nat
  BY DEF Init
<1>8. QED  BY <1>2, <1>3, <1>4, <1>5, <1>6, <1>7 DEF TypeOK

\* The tree somebody pushes or merges is a tree.
LEMMA PushedTree ==
    ASSUME TypeOK, NEW input \in Inputs, NEW source \in {"old", "new"},
           NEW output \in {tip.tree.output} \union EditedOutputs([tip.tree EXCEPT !.input = input])
    PROVE  [input |-> input, source |-> source, output |-> output] \in Tree
<1>1. tip.tree \in Tree /\ tip.tree.output \in Output
  BY DEF TypeOK, Commit, Tree
<1>2. [tip.tree EXCEPT !.input = input] \in Tree
  BY <1>1 DEF Tree
<1>3. [tip.tree EXCEPT !.input = input].output = tip.tree.output
  BY <1>1 DEF Tree
<1>4. /\ [tip.tree.output EXCEPT !.intact = FALSE] \in Output
      /\ [tip.tree.output EXCEPT !.promoted = ~tip.tree.output.promoted] \in Output
      /\ [tip.tree.output EXCEPT !.rendered = FALSE] \in Output
  BY <1>1 DEF Output
<1>5. output \in Output
  BY <1>1, <1>2, <1>3, <1>4, OutcomesType DEF EditedOutputs
<1>6. QED  BY <1>5 DEF Tree

LEMMA HumanPushAdvances ==
    ASSUME TypeOK, NEW input \in Inputs, NEW source \in {"old", "new"},
           NEW hidden \in {{}, {"output"}}, HumanPush(input, source, hidden)
    PROVE  /\ \E commit \in Commit :
                 commit.number = tip.number + 1 /\ commit.by = "human" /\ Advance(commit)
           /\ bots' = 0 /\ UNCHANGED <<setup, job, reruns>> /\ edits' = edits + 1
<1>1. PICK output \in {tip.tree.output} \union EditedOutputs([tip.tree EXCEPT !.input = input]) :
         LET tree == [input |-> input, source |-> source, output |-> output] IN
         Advance(NextCommit(tree, tip.base, Changed(tip.tree, tree) \ hidden, "human"))
  BY DEF HumanPush
<1> DEFINE tree == [input |-> input, source |-> source, output |-> output]
           paths == Changed(tip.tree, tree) \ hidden
<1>2. tree \in Tree
  BY PushedTree
<1>3. tip.number \in Nat /\ tip.base \in Tree
  BY DEF TypeOK, Commit
<1>4. paths \in SUBSET Kinds
  BY DEF Changed
<1>5. NextCommit(tree, tip.base, paths, "human") \in Commit
  BY <1>2, <1>3, <1>4, NextCommitType
<1>6. /\ NextCommit(tree, tip.base, paths, "human").number = tip.number + 1
      /\ NextCommit(tree, tip.base, paths, "human").by = "human"
  BY DEF NextCommit
<1>7. QED  BY <1>1, <1>5, <1>6 DEF HumanPush, Edit

LEMMA UpdateBranchAdvances ==
    ASSUME TypeOK, NEW input \in Inputs, NEW text \in Texts, UpdateBranch(input, text)
    PROVE  /\ \E commit \in Commit :
                 commit.number = tip.number + 1 /\ commit.by = "human" /\ Advance(commit)
           /\ bots' = 0 /\ UNCHANGED <<setup, job, reruns>> /\ edits' = edits + 1
<1> DEFINE main == [tip.base EXCEPT !.input = input, !.output = Synced(input, text)]
           Merge(k, mine) == IF k \in mine \/ main[k] = tip.base[k] THEN tip.tree[k] ELSE main[k]
           Merged(mine) == [input |-> Merge("input", mine), source |-> Merge("source", mine),
                            output |-> Merge("output", mine)]
<1>1. PICK mine : Advance(NextCommit(Merged(mine), main, {}, "human"))
  BY DEF UpdateBranch
<1>2. tip.tree \in Tree /\ tip.base \in Tree /\ tip.number \in Nat
  BY DEF TypeOK, Commit
<1>3. main \in Tree
  BY <1>2, SyncedType DEF Tree
<1>4. /\ tip.tree["input"] \in Inputs /\ main["input"] \in Inputs
      /\ tip.tree["source"] \in {"old", "new"} /\ main["source"] \in {"old", "new"}
      /\ tip.tree["output"] \in Output /\ main["output"] \in Output
  BY <1>2, <1>3, TreeParts
<1>5. Merged(mine) \in Tree
  BY <1>4 DEF Tree
<1>6. NextCommit(Merged(mine), main, {}, "human") \in Commit
  BY <1>2, <1>3, <1>5, NextCommitType
<1>7. /\ NextCommit(Merged(mine), main, {}, "human").number = tip.number + 1
      /\ NextCommit(Merged(mine), main, {}, "human").by = "human"
  BY DEF NextCommit
<1>8. QED  BY <1>1, <1>6, <1>7 DEF UpdateBranch, Edit

\* The steps of a run that push nothing leave the branch alone, and say at most one thing.
LEMMA VerdictType ==
    ASSUME NEW answer \in {"green", "red"}, Verdict(answer)
    PROVE  /\ phase' = "done" /\ verdict' = answer /\ mode' = "none"
           /\ work' = {} /\ result' = {}
BY DEF Verdict

LEMMA DecideType ==
    ASSUME TypeOK, Decide
    PROVE  /\ phase' \in {"done", "working"} /\ mode' \in Modes \union {"none"}
           /\ work' \subseteq Commit /\ result' \subseteq Output
           /\ verdict' \in {"none", "green", "red"}
<1>1. PICK e \in running :
         IF e.mode = "noop" THEN Verdict("green")
         ELSE IF e.mode = "reject-published" THEN Verdict("red")
         ELSE /\ phase' = "working"
              /\ mode' = e.mode
              /\ work' = {tip}
              /\ UNCHANGED <<result, verdict>>
  BY DEF Decide
<1>2. e.mode \in Modes
  BY DEF TypeOK, Event
<1>3. QED  BY <1>1, <1>2, VerdictType DEF TypeOK

LEMMA GenerateType ==
    ASSUME TypeOK, Generate
    PROVE  /\ phase' \in {"done", "pushing"} /\ mode' \in Modes \union {"none"}
           /\ work' \subseteq Commit /\ result' \subseteq Output
           /\ verdict' \in {"none", "green", "red"}
<1>1. PICK commit \in work :
         \/ Verdict("red")
         \/ Verdict("green")
         \/ \E output \in Outcomes(commit.tree, Answers) :
               phase' = "pushing" /\ result' = {output} /\ UNCHANGED <<mode, work, verdict>>
  BY DEF Generate
<1>2. commit.tree \in Tree
  BY DEF TypeOK, Commit
<1>3. QED  BY <1>1, <1>2, VerdictType, OutcomesType DEF TypeOK

\* A push either advances the branch by the bot's commit or says red.
LEMMA PushCases ==
    ASSUME TypeOK, Push
    PROVE  /\ phase = "pushing"
           /\ \/ /\ \E output \in result :
                       tip \in work /\ Advance(BotCommit(tip, output))
                 /\ bots' = bots + 1 /\ Verdict("green")
              \/ UNCHANGED <<tip, check, events, waiting, killed, bots>> /\ Verdict("red")
           /\ UNCHANGED <<setup, edits, running, reruns>>
BY DEF Push

LEMMA BotCommitType ==
    ASSUME TypeOK, NEW output \in result
    PROVE  /\ BotCommit(tip, output) \in Commit
           /\ BotCommit(tip, output).number = tip.number + 1
           /\ BotCommit(tip, output).tree = [tip.tree EXCEPT !.output = output]
           /\ BotCommit(tip, output).base = tip.base
           /\ BotCommit(tip, output).by = "bot"
<1>1. tip.tree \in Tree /\ tip.base \in Tree /\ tip.number \in Nat /\ output \in Output
  BY DEF TypeOK, Commit
<1>2. [tip.tree EXCEPT !.output = output] \in Tree
  BY <1>1, WithOutput
<1>3. BotCommit(tip, output) \in Commit
  BY <1>1, <1>2, NextCommitType DEF BotCommit, Kinds
<1>4. QED  BY <1>3 DEF BotCommit, NextCommit

LEMMA ConcludedType ==
    ASSUME check \in {"none", "green", "red", "cancelled"},
           NEW answer \in {"green", "red", "cancelled"}, Concluded(answer)
    PROVE  check' \in {"none", "green", "red", "cancelled"}
BY DEF Concluded

\* A run that is over has an answer.
Answered == phase = "done" => verdict \in {"green", "red"}

TypeInv == TypeOK /\ Answered

LEMMA TypeNext == TypeInv /\ [Next]_vars => TypeInv'
<1> SUFFICES ASSUME TypeInv, [Next]_vars PROVE TypeInv'
  OBVIOUS
<1>a. TypeOK /\ Answered
  BY DEF TypeInv
<1>1. ASSUME NEW commit \in Commit, Advance(commit), bots' = 0,
             UNCHANGED <<setup, job, reruns>>, edits' = edits + 1
      PROVE  TypeInv'
  <2>1. /\ tip' \in Commit /\ check' = "none" /\ events' \subseteq Event
        /\ events \subseteq events' /\ waiting' \subseteq events' /\ killed' \in BOOLEAN
    BY <1>a, <1>1, AdvanceType DEF TypeOK
  <2>2. QED  BY <1>a, <1>1, <2>1 DEF TypeInv, TypeOK, Answered, job
<1>2. ASSUME NEW input \in Inputs, NEW source \in {"old", "new"},
             NEW hidden \in {{}, {"output"}}, HumanPush(input, source, hidden)
      PROVE  TypeInv'
  BY <1>a, <1>1, <1>2, HumanPushAdvances
<1>3. ASSUME NEW input \in Inputs, NEW text \in Texts, UpdateBranch(input, text)
      PROVE  TypeInv'
  BY <1>a, <1>1, <1>3, UpdateBranchAdvances
<1>4. CASE Reopen
  <2>1. [number |-> tip.number, mode |-> Mode(tip, "human")] \in Event
    BY <1>a, ModeType DEF TypeOK, Commit, Event
  <2>2. /\ events' \subseteq Event /\ events \subseteq events'
        /\ waiting' \subseteq events' /\ killed' \in BOOLEAN
    BY <1>a, <1>4, <2>1, ArrivesType DEF Reopen, TypeOK
  <2>3. QED  BY <1>a, <1>4, <2>2 DEF Reopen, TypeInv, TypeOK, Answered, branch, job
<1>5. ASSUME NEW e \in events, Rerun(e) PROVE TypeInv'
  <2>1. /\ events' \subseteq Event /\ events \subseteq events'
        /\ waiting' \subseteq events' /\ killed' \in BOOLEAN
    BY <1>a, <1>5, ArrivesType DEF Rerun, TypeOK
  <2>2. check' \in {"none", "green", "red", "cancelled"} /\ reruns' \in Nat
    BY <1>a, <1>5 DEF Rerun, TypeOK
  <2>3. UNCHANGED <<branch, job, bots>>
    BY <1>5 DEF Rerun
  <2>4. QED  BY <1>a, <2>1, <2>2, <2>3 DEF TypeInv, TypeOK, Answered, branch, job
<1>6. ASSUME NEW e \in waiting, Start(e) PROVE TypeInv'
  BY <1>a, <1>6 DEF Start, TypeInv, TypeOK, Answered, branch
<1>7. CASE Decide
  <2>1. phase' = "done" => verdict' \in {"green", "red"}
    BY <1>7, VerdictType DEF Decide
  <2>2. QED  BY <1>a, <1>7, <2>1, DecideType DEF Decide, TypeInv, TypeOK, Answered, branch
<1>8. CASE Validate
  <2>1. Verdict("green") \/ Verdict("red")
    BY <1>8 DEF Validate
  <2>2. QED  BY <1>a, <1>8, <2>1, VerdictType DEF Validate, TypeInv, TypeOK, Answered, branch
<1>9. CASE Generate
  <2>1. phase' = "done" => verdict' \in {"green", "red"}
    BY <1>9, VerdictType DEF Generate
  <2>2. QED  BY <1>a, <1>9, <2>1, GenerateType DEF Generate, TypeInv, TypeOK, Answered, branch
<1>10. CASE Push
  <2>1. UNCHANGED <<setup, edits, running, reruns>>
    BY <1>a, <1>10, PushCases
  <2>2. CASE /\ \E output \in result : tip \in work /\ Advance(BotCommit(tip, output))
             /\ bots' = bots + 1 /\ Verdict("green")
    <3>1. PICK output \in result : Advance(BotCommit(tip, output))
      BY <2>2
    <3>2. /\ tip' \in Commit /\ check' = "none" /\ events' \subseteq Event
          /\ events \subseteq events' /\ waiting' \subseteq events' /\ killed' \in BOOLEAN
      BY <1>a, <3>1, BotCommitType, AdvanceType DEF TypeOK
    <3>3. QED  BY <1>a, <2>1, <2>2, <3>2, VerdictType DEF TypeInv, TypeOK, Answered
  <2>3. CASE UNCHANGED <<tip, check, events, waiting, killed, bots>> /\ Verdict("red")
    BY <1>a, <2>1, <2>3, VerdictType DEF TypeInv, TypeOK, Answered
  <2>4. QED  BY <1>a, <1>10, <2>2, <2>3, PushCases
<1>11. CASE Fail
  BY <1>a, <1>11, VerdictType DEF Fail, TypeInv, TypeOK, Answered, branch
<1>12. ASSUME NEW answer \in {"green", "red", "cancelled"}, End(answer) PROVE TypeInv'
  BY <1>a, <1>12, ConcludedType DEF End, TypeInv, TypeOK, Answered, branch
<1>13. CASE Finish
  BY <1>a, <1>12, <1>13 DEF Finish, Answered
<1>14. CASE Kill
  BY <1>12, <1>14 DEF Kill
<1>15. CASE UNCHANGED vars
  BY <1>a, <1>15 DEF vars, branch, job, TypeInv, TypeOK, Answered
<1>16. QED
  BY <1>2, <1>3, <1>4, <1>5, <1>6, <1>7, <1>8, <1>9, <1>10, <1>11, <1>13, <1>14, <1>15
  DEF Next, People, Run

LEMMA AnsweredInit == Init => Answered
BY DEF Init, Answered

\* The type invariant of the gate, for any contents and numbers of pushes and reruns.
THEOREM TypeCorrect == Spec => []TypeOK
<1>1. Init => TypeInv
  BY TypeInit, AnsweredInit DEF TypeInv
<1>2. TypeInv => TypeOK
  BY DEF TypeInv
<1>3. QED  BY <1>1, <1>2, TypeNext, PTL DEF Spec

-----------------------------------------------------------------------------
(* The run and the branch.                                                 *)

\* What a run of an older event checked out is not older than the event, and what it
\* pushes is a change its sync made to that.
RunInv ==
    /\ phase \notin {"working", "pushing"} => work = {}
    /\ phase = "idle" => running = {}
    /\ (\A c, d \in work : c = d) /\ (\A e, f \in running : e = f)
    /\ \A e \in events : e.number <= tip.number
    /\ \A c \in work : c.number <= tip.number /\ (c.number = tip.number => c = tip)
    /\ \A c \in work, e \in running : e.number <= c.number
    /\ phase \in {"working", "pushing"} => \A e \in running : e.mode = mode
    /\ phase = "pushing" =>
          \A c \in work : result \subseteq Outcomes(c.tree, Answers) \ {c.tree.output}

\* The branch moves on to a commit with the next number.
LEMMA RunAdvance ==
    ASSUME TypeOK, RunInv, NEW commit \in Commit, commit.number = tip.number + 1,
           Advance(commit)
    PROVE  /\ tip' = commit /\ tip'.number = tip.number + 1
           /\ \A e \in events' : e.number <= tip'.number
           /\ \A c \in work : c.number <= tip'.number /\ c.number # tip'.number
           /\ \A e \in running : ~(e.number = tip'.number)
<1> DEFINE new == [number |-> commit.number, mode |-> Mode(commit, commit.by)]
<1>1. tip' = commit /\ events' = events \union {new}
  BY DEF Advance, Arrives
<1>2. /\ tip.number \in Nat
      /\ \A e \in events : e.number \in Nat /\ e.number <= tip.number
      /\ \A c \in work : c.number \in Nat /\ c.number <= tip.number
  BY DEF TypeOK, RunInv, Commit, Event
<1>3. new.number = tip.number + 1
  OBVIOUS
<1>4. \A e \in events' : e.number <= tip'.number
  BY <1>1, <1>2, <1>3
<1>5. running \subseteq events
  BY DEF TypeOK
<1>6. QED  BY <1>1, <1>2, <1>4, <1>5

LEMMA RunNext == TypeInv /\ RunInv /\ [Next]_vars => RunInv'
<1> SUFFICES ASSUME TypeInv, RunInv, [Next]_vars PROVE RunInv'
  OBVIOUS
<1>a. TypeOK
  BY DEF TypeInv
<1>b. /\ tip.number \in Nat
      /\ \A e \in events : e.number \in Nat
      /\ running \subseteq events /\ waiting \subseteq events
  BY <1>a DEF TypeOK, Commit, Event
<1>1. ASSUME NEW commit \in Commit, commit.number = tip.number + 1, Advance(commit),
             UNCHANGED job
      PROVE  RunInv'
  BY <1>a, <1>1, RunAdvance DEF RunInv, job
<1>2. CASE \/ \E input \in Inputs, source \in {"old", "new"}, hidden \in {{}, {"output"}} :
                 HumanPush(input, source, hidden)
           \/ \E input \in Inputs, text \in Texts : UpdateBranch(input, text)
  BY <1>a, <1>1, <1>2, HumanPushAdvances, UpdateBranchAdvances
<1>3. CASE Reopen \/ \E e \in events : Rerun(e)
  <2>1. UNCHANGED <<tip, phase, running, mode, work, result>>
    BY <1>3 DEF Reopen, Rerun, branch, job
  <2>2. CASE Reopen
    <3> DEFINE new == [number |-> tip.number, mode |-> Mode(tip, "human")]
    <3>1. events' = events \union {new}
      BY <2>2 DEF Reopen, Arrives
    <3>2. new.number = tip.number
      OBVIOUS
    <3> HIDE DEF new
    <3>3. \A f \in events' : f.number <= tip.number
      BY <1>b, <3>1, <3>2 DEF RunInv
    <3>4. QED  BY <2>1, <3>3 DEF RunInv
  <2>3. CASE \E e \in events : Rerun(e)
    <3>1. events' = events
      BY <2>3 DEF Rerun, Arrives
    <3>2. QED  BY <2>1, <3>1 DEF RunInv
  <2>4. QED  BY <1>3, <2>2, <2>3
<1>4. ASSUME NEW e \in waiting, Start(e) PROVE RunInv'
  <2>1. work' = {} /\ phase' = "checkout" /\ running' = {e}
    BY <1>4 DEF Start, RunInv
  <2>2. UNCHANGED <<tip, events>>
    BY <1>4 DEF Start, branch
  <2>3. QED  BY <2>1, <2>2 DEF RunInv
<1>5. ASSUME Verdict("green") \/ Verdict("red"), UNCHANGED <<tip, events, running>>
      PROVE  RunInv'
  BY <1>5, VerdictType DEF RunInv
<1>6. CASE Decide
  <2>1. PICK e \in running :
           \/ Verdict("green") \/ Verdict("red")
           \/ phase' = "working" /\ mode' = e.mode /\ work' = {tip}
    BY <1>6 DEF Decide
  <2>2. UNCHANGED <<tip, events, running>>
    BY <1>6 DEF Decide, branch
  <2>3. CASE phase' = "working" /\ mode' = e.mode /\ work' = {tip}
    <3>1. \A f \in running : f = e
      BY DEF RunInv
    <3>2. QED  BY <1>b, <2>2, <2>3, <3>1 DEF RunInv
  <2>4. QED  BY <1>5, <2>1, <2>2, <2>3
<1>7. CASE Validate
  BY <1>5, <1>7 DEF Validate, branch
<1>8. CASE Generate
  <2>1. UNCHANGED <<tip, events, running>>
    BY <1>8 DEF Generate, branch
  <2>2. PICK c \in work :
           \/ Verdict("green") \/ Verdict("red")
           \/ \E output \in Outcomes(c.tree, Answers) :
                 /\ output # c.tree.output /\ phase' = "pushing" /\ result' = {output}
                 /\ UNCHANGED <<mode, work, verdict>>
    BY <1>8 DEF Generate
  <2>3. ASSUME NEW output \in Outcomes(c.tree, Answers), output # c.tree.output,
               phase' = "pushing", result' = {output}, UNCHANGED <<mode, work, verdict>>
        PROVE  RunInv'
    <3>1. phase = "working"
      BY <1>8 DEF Generate
    <3>2. \A d \in work : result' \subseteq Outcomes(d.tree, Answers) \ {d.tree.output}
      BY <2>3 DEF RunInv
    <3>3. QED  BY <2>1, <2>3, <3>1, <3>2 DEF RunInv
  <2>4. QED  BY <1>5, <2>1, <2>2, <2>3
<1>9. CASE Push
  <2>1. CASE \E output \in result : Advance(BotCommit(tip, output)) /\ Verdict("green")
    <3>1. PICK output \in result : Advance(BotCommit(tip, output)) /\ Verdict("green")
      BY <2>1
    <3>2. \A e \in events' : e.number <= tip'.number
      BY <1>a, <3>1, BotCommitType, RunAdvance
    <3>3. QED  BY <1>a, <1>9, <3>1, <3>2, PushCases, VerdictType DEF RunInv
  <2>2. QED  BY <1>a, <1>5, <1>9, <2>1, PushCases
<1>10. CASE Fail
  BY <1>5, <1>10 DEF Fail, branch
<1>11. CASE Finish \/ Kill
  BY <1>11 DEF Finish, Kill, End, RunInv, branch
<1>12. CASE UNCHANGED vars
  BY <1>12 DEF vars, branch, job, RunInv
<1>13. QED
  BY <1>2, <1>3, <1>4, <1>6, <1>7, <1>8, <1>9, <1>10, <1>11, <1>12 DEF Next, People, Run

-----------------------------------------------------------------------------
(* Bot commits.                                                            *)

\* A step leaves the branch alone, or a person advances it, or the bot does.
LEMMA BranchMoves ==
    ASSUME TypeOK, [Next]_vars
    PROVE  \/ UNCHANGED <<tip, bots>>
           \/ /\ \E commit \in Commit :
                     commit.number = tip.number + 1 /\ commit.by = "human" /\ Advance(commit)
              /\ bots' = 0
           \/ Push
<1>1. CASE \/ \E input \in Inputs, source \in {"old", "new"}, hidden \in {{}, {"output"}} :
                 HumanPush(input, source, hidden)
           \/ \E input \in Inputs, text \in Texts : UpdateBranch(input, text)
  BY <1>1, HumanPushAdvances, UpdateBranchAdvances
<1>2. CASE Reopen \/ (\E e \in events : Rerun(e)) \/ (\E e \in waiting : Start(e))
  BY <1>2 DEF Reopen, Rerun, Start, branch
<1>3. CASE Decide \/ Validate \/ Generate \/ Fail
  BY <1>3 DEF Decide, Validate, Generate, Fail, branch
<1>4. CASE Finish \/ Kill
  BY <1>4 DEF Finish, Kill, End, branch
<1>5. CASE UNCHANGED vars
  BY <1>5 DEF vars, branch
<1>6. QED  BY <1>1, <1>2, <1>3, <1>4, <1>5 DEF Next, People, Run

\* A push that succeeds puts what the sync made on the newest commit.
LEMMA PushMakes ==
    ASSUME TypeOK, RunInv, Push, tip' # tip
    PROVE  \E output \in Outcomes(tip.tree, Answers) \ {tip.tree.output} :
              /\ tip'.tree = [tip.tree EXCEPT !.output = output]
              /\ tip'.base = tip.base /\ tip'.by = "bot" /\ bots' = bots + 1
<1>1. PICK output \in result :
         tip \in work /\ Advance(BotCommit(tip, output)) /\ bots' = bots + 1
  BY PushCases
<1>2. phase = "pushing"
  BY PushCases
<1>3. output \in Outcomes(tip.tree, Answers) \ {tip.tree.output}
  BY <1>1, <1>2 DEF RunInv
<1>4. tip' = BotCommit(tip, output)
  BY <1>1 DEF Advance
<1>5. QED  BY <1>1, <1>3, <1>4, BotCommitType

\* What the bot has pushed is in order, so that there is nothing left for it to push.
BotInv == /\ tip.by = "bot" => Clean(tip.tree, Answers)
          /\ bots # 0 => bots = 1 /\ tip.by = "bot"

LEMMA BotNext == TypeInv /\ RunInv /\ BotInv /\ [Next]_vars => BotInv'
<1> SUFFICES ASSUME TypeInv, RunInv, BotInv, [Next]_vars PROVE BotInv'
  OBVIOUS
<1> TypeOK
  BY DEF TypeInv
<1>1. CASE UNCHANGED <<tip, bots>>
  BY <1>1 DEF BotInv
<1>2. CASE /\ \E commit \in Commit :
                 commit.number = tip.number + 1 /\ commit.by = "human" /\ Advance(commit)
           /\ bots' = 0
  BY <1>2 DEF Advance, BotInv
<1>3. CASE Push /\ tip' # tip
  <2>1. PICK output \in Outcomes(tip.tree, Answers) \ {tip.tree.output} :
           /\ tip'.tree = [tip.tree EXCEPT !.output = output]
           /\ tip'.by = "bot" /\ bots' = bots + 1
    BY <1>3, PushMakes
  <2>2. tip.tree \in Tree
    BY DEF TypeOK, Commit
  <2>3. ~Clean(tip.tree, Answers)
    BY <2>1, <2>2, SyncOfClean
  <2>4. Clean(tip'.tree, Answers)
    BY <2>1, <2>2, SyncCleans
  <2>5. QED  BY <2>1, <2>3, <2>4 DEF BotInv
<1>4. CASE Push /\ tip' = tip
  <2>1. tip.number \in Nat
    BY DEF TypeOK, Commit
  <2>2. ASSUME NEW output \in result, Advance(BotCommit(tip, output)) PROVE FALSE
    <3>1. tip' = BotCommit(tip, output)
      BY <2>2 DEF Advance
    <3>2. BotCommit(tip, output).number = tip.number + 1
      BY BotCommitType
    <3>3. tip.number = tip.number + 1
      BY <1>4, <3>1, <3>2
    <3>4. QED  BY <2>1, <3>3
  <2>3. QED  BY <1>1, <1>4, <2>2, PushCases
<1>5. QED  BY <1>1, <1>2, <1>3, <1>4, BranchMoves

LEMMA InvInit == Init => RunInv /\ BotInv
<1> SUFFICES ASSUME Init PROVE RunInv /\ BotInv
  OBVIOUS
<1>1. tip.by = "human" /\ bots = 0 /\ work = {} /\ events = {} /\ running = {} /\ phase = "idle"
  BY DEF Init
<1>2. QED  BY <1>1 DEF RunInv, BotInv

BotsInv == TypeInv /\ RunInv /\ BotInv

LEMMA BotsInvariant == Spec => []BotsInv
<1>1. Init => BotsInv
  BY TypeInit, AnsweredInit, InvInit DEF BotsInv, TypeInv
<1>2. BotsInv /\ [Next]_vars => BotsInv'
  BY TypeNext, RunNext, BotNext DEF BotsInv
<1>3. QED  BY <1>1, <1>2, PTL DEF Spec

\* The bot answers a commit of a person with at most one of its own, whatever is run
\* again, cancelled or pushed meanwhile: its own commit gives it nothing to do.
THEOREM OneBot == Spec => []OneBotCommit
<1>1. BotsInv => OneBotCommit
  BY DEF BotsInv, BotInv, OneBotCommit
<1>2. QED  BY <1>1, BotsInvariant, PTL

\* A bot commit changes generated output only, on the newest commit of the branch.
THEOREM BotKeeps == Spec => BotKeepsInputs
<1>1. BotsInv /\ [Next]_vars =>
         [tip' # tip /\ tip'.by = "bot"
            => Changed(tip.tree, tip'.tree) \subseteq {"output"} /\ tip'.base = tip.base]_vars
  <2> SUFFICES ASSUME BotsInv, [Next]_vars, tip' # tip, tip'.by = "bot"
               PROVE  Changed(tip.tree, tip'.tree) \subseteq {"output"} /\ tip'.base = tip.base
    OBVIOUS
  <2>1. TypeInv /\ TypeOK /\ RunInv
    BY DEF BotsInv, TypeInv
  <2>2. Push
    BY <2>1, BranchMoves DEF Advance
  <2>3. PICK output \in Outcomes(tip.tree, Answers) :
           tip'.tree = [tip.tree EXCEPT !.output = output] /\ tip'.base = tip.base
    BY <2>1, <2>2, PushMakes
  <2>4. tip.tree \in Tree /\ output \in Output
    BY <2>1, OutcomesType DEF TypeOK, Commit
  <2>5. tip'.tree["input"] = tip.tree["input"] /\ tip'.tree["source"] = tip.tree["source"]
    BY <2>3, <2>4, WithOutput
  <2>6. QED  BY <2>3, <2>5 DEF Changed, Kinds
<1>2. QED  BY <1>1, BotsInvariant, PTL DEF Spec, BotKeepsInputs

-----------------------------------------------------------------------------
(* A green check.                                                          *)

\* Inputs are changed, and the code that generates from them is not.
Needs(commit) == "input" \in Touched(commit) /\ "source" \notin Touched(commit)

\* Unless the newest commit is in order, an event of it - of any actor - leads to a sync or
\* to a refusal; and a run of it that has said green has seen that it is in order.
GreenInv ==
    /\ Needs(tip) /\ ~Clean(tip.tree, Answers) =>
          /\ \A e \in events : OfTip(e) => e.mode \in {"generate", "reject-published"}
          /\ phase = "done" /\ verdict = "green" => \A e \in running : ~OfTip(e)
    /\ GreenIsClean

\* The mode of an event of the newest commit.
LEMMA ModeOfTip ==
    ASSUME NEW commit, NEW actor, Needs(commit), ~Clean(commit.tree, Answers),
           actor = "bot" => Clean(commit.tree, Answers)
    PROVE  Mode(commit, actor) \in {"generate", "reject-published"}
BY DEF Mode, Needs

LEMMA GreenAdvance ==
    ASSUME TypeOK, RunInv, NEW commit \in Commit, commit.number = tip.number + 1,
           Advance(commit), commit.by = "bot" => Clean(commit.tree, Answers), running' = running
    PROVE  GreenInv'
<1>1. /\ tip' = commit /\ check' = "none"
      /\ \A e \in running : e.number # tip'.number
  BY RunAdvance DEF Advance
<1> DEFINE new == [number |-> commit.number, mode |-> Mode(commit, commit.by)]
<1>2. events' = events \union {new}
  BY DEF Advance, Arrives
<1>3. \A e \in events : e.number # commit.number
  BY DEF RunInv, TypeOK, Commit, Event
<1>4. Needs(commit) /\ ~Clean(commit.tree, Answers) => new.mode \in {"generate", "reject-published"}
  BY ModeOfTip
<1>5. GreenIsClean'
  BY <1>1 DEF GreenIsClean
<1> HIDE DEF new
<1>6. QED  BY <1>1, <1>2, <1>3, <1>4, <1>5 DEF GreenInv, OfTip

LEMMA GreenNext == BotsInv /\ GreenInv /\ [Next]_vars => GreenInv'
<1> SUFFICES ASSUME BotsInv, GreenInv, [Next]_vars PROVE GreenInv'
  OBVIOUS
<1>a. TypeInv /\ TypeOK /\ RunInv /\ BotInv
  BY DEF BotsInv, TypeInv
<1>b. running \subseteq events /\ waiting \subseteq events
  BY <1>a DEF TypeOK
<1>1. CASE /\ \E commit \in Commit :
                 commit.number = tip.number + 1 /\ commit.by = "human" /\ Advance(commit)
           /\ UNCHANGED job
  BY <1>a, <1>1, GreenAdvance DEF job
<1>2. CASE \/ \E input \in Inputs, source \in {"old", "new"}, hidden \in {{}, {"output"}} :
                 HumanPush(input, source, hidden)
           \/ \E input \in Inputs, text \in Texts : UpdateBranch(input, text)
  BY <1>a, <1>1, <1>2, HumanPushAdvances, UpdateBranchAdvances
<1>3. CASE Reopen
  <2> DEFINE new == [number |-> tip.number, mode |-> Mode(tip, "human")]
  <2>1. events' = events \union {new} /\ check' = "none"
        /\ UNCHANGED <<tip, phase, running, verdict>>
    BY <1>3 DEF Reopen, Arrives, branch, job
  <2>2. Needs(tip) /\ ~Clean(tip.tree, Answers) => new.mode \in {"generate", "reject-published"}
    BY ModeOfTip
  <2> HIDE DEF new
  <2>3. QED  BY <2>1, <2>2 DEF GreenInv, OfTip, GreenIsClean
<1>4. ASSUME NEW e \in events, Rerun(e) PROVE GreenInv'
  <2>1. events' = events /\ check' \in {check, "none", "cancelled"}
    BY <1>4 DEF Rerun, Arrives
  <2>2. UNCHANGED <<tip, phase, running, verdict>>
    BY <1>4 DEF Rerun, branch, job
  <2>3. QED  BY <2>1, <2>2 DEF GreenInv, OfTip, GreenIsClean
<1>5. ASSUME UNCHANGED <<tip, events, check>>, phase' # "done"
      PROVE  GreenInv'
  BY <1>5 DEF GreenInv, OfTip, GreenIsClean
<1>6. ASSUME UNCHANGED <<tip, events, check, running>>, Verdict("red")
      PROVE  GreenInv'
  BY <1>6, VerdictType DEF GreenInv, OfTip, GreenIsClean
<1>7. ASSUME UNCHANGED <<tip, events, check, running>>,
             Needs(tip) /\ ~Clean(tip.tree, Answers) => \A e \in running : ~OfTip(e)
      PROVE  GreenInv'
  BY <1>7 DEF GreenInv, OfTip, GreenIsClean
<1>8. ASSUME NEW e \in waiting, Start(e) PROVE GreenInv'
  BY <1>5, <1>8 DEF Start, branch
<1>9. CASE Decide
  <2>1. UNCHANGED <<tip, events, check, running>>
    BY <1>9 DEF Decide, branch
  <2>2. PICK e \in running :
           \/ e.mode = "noop" \/ Verdict("red") \/ phase' = "working"
    BY <1>9 DEF Decide
  <2>3. CASE e.mode = "noop"
    <3>1. \A f \in running : f = e
      BY <1>a DEF RunInv
    <3>2. QED  BY <1>b, <1>7, <2>1, <2>3, <3>1 DEF GreenInv
  <2>4. QED  BY <1>5, <1>6, <2>1, <2>2, <2>3
<1>10. CASE Validate
  <2>1. UNCHANGED <<tip, events, check, running>>
    BY <1>10 DEF Validate, branch
  <2>2. \A e \in running : e.mode \in {"validate", "validate-migration"}
    BY <1>a, <1>10 DEF Validate, RunInv
  <2>3. QED  BY <1>b, <1>7, <2>1, <2>2 DEF GreenInv
<1>11. CASE Generate
  <2>1. UNCHANGED <<tip, events, check, running>>
    BY <1>11 DEF Generate, branch
  <2>2. PICK c \in work :
           \/ Verdict("red") \/ phase' = "pushing"
           \/ c.tree.output \in Outcomes(c.tree, Answers)
    BY <1>11 DEF Generate
  <2>3. CASE c.tree.output \in Outcomes(c.tree, Answers)
    <3>1. Clean(c.tree, Answers)
      BY <1>a, <2>3, SyncOfSynced DEF TypeOK, Commit
    <3>2. \A e \in running : OfTip(e) => c = tip
      <4>1. /\ c.number \in Nat /\ tip.number \in Nat /\ c.number <= tip.number
            /\ c.number = tip.number => c = tip
        BY <1>a DEF TypeOK, RunInv, Commit
      <4>2. \A e \in running : e.number <= c.number
        BY <1>a DEF RunInv
      <4>3. QED  BY <4>1, <4>2 DEF OfTip
    <3>3. QED  BY <1>7, <2>1, <3>1, <3>2
  <2>4. QED  BY <1>5, <1>6, <2>1, <2>2, <2>3
<1>12. CASE Push
  <2>1. running' = running
    BY <1>a, <1>12, PushCases
  <2>2. CASE \E output \in result : tip \in work /\ Advance(BotCommit(tip, output))
    <3>1. PICK output \in result : tip \in work /\ Advance(BotCommit(tip, output))
      BY <2>2
    <3>2. output \in Outcomes(tip.tree, Answers)
      BY <1>a, <1>12, <3>1, PushCases DEF RunInv
    <3>3. Clean([tip.tree EXCEPT !.output = output], Answers)
      BY <1>a, <3>2, SyncCleans DEF TypeOK, Commit
    <3>4. QED  BY <1>a, <2>1, <3>1, <3>3, BotCommitType, GreenAdvance
  <2>3. CASE UNCHANGED <<tip, check, events>> /\ Verdict("red")
    BY <1>6, <2>1, <2>3
  <2>4. QED  BY <1>a, <1>12, <2>2, <2>3, PushCases
<1>13. CASE Fail
  BY <1>6, <1>13 DEF Fail, branch
<1>14. CASE Finish
  <2>1. UNCHANGED <<tip, events>> /\ phase' = "idle"
    BY <1>14 DEF Finish, End, branch
  <2>2. check' = check \/ (check' = verdict /\ \E e \in running : OfTip(e))
    BY <1>14 DEF Finish, End, Concluded
  <2>3. phase = "done"
    BY <1>14 DEF Finish
  <2>4. GreenIsClean'
    BY <2>1, <2>2, <2>3 DEF GreenInv, GreenIsClean, Needs
  <2>5. QED  BY <2>1, <2>4 DEF GreenInv, OfTip
<1>15. CASE Kill
  <2>1. UNCHANGED <<tip, events>> /\ phase' = "idle" /\ check' \in {check, "cancelled"}
    BY <1>15 DEF Kill, End, Concluded, branch
  <2>2. QED  BY <2>1 DEF GreenInv, GreenIsClean, OfTip
<1>16. CASE UNCHANGED vars
  BY <1>16 DEF vars, branch, job, GreenInv, GreenIsClean, OfTip
<1>17. QED
  BY <1>2, <1>3, <1>4, <1>8, <1>9, <1>10, <1>11, <1>12, <1>13, <1>14, <1>15, <1>16
  DEF Next, People, Run

\* A green check of a Pull Request that changes inputs means current, promoted when
\* approved, intact and rendered output, whoever pushed and in whatever order runs ended.
THEOREM Green == Spec => []GreenIsClean
<1>1. Init => GreenInv
  BY DEF Init, GreenInv, GreenIsClean
<1>2. GreenInv => GreenIsClean
  BY DEF GreenInv
<1>3. QED  BY <1>1, <1>2, BotsInvariant, GreenNext, PTL DEF Spec

-----------------------------------------------------------------------------
(* A pending check.                                                        *)

\* A commit brings its event, which waits.
LEMMA AdvancePends ==
    ASSUME NEW commit, Advance(commit)
    PROVE  PendingHasRun'
<1> DEFINE new == [number |-> commit.number, mode |-> Mode(commit, commit.by)]
<1>1. waiting' = {new} /\ tip' = commit
  BY DEF Advance, Arrives
<1>2. new.number = commit.number
  OBVIOUS
<1> HIDE DEF new
<1>3. QED  BY <1>1, <1>2 DEF PendingHasRun, TipWaits, OfTip

\* Without an event or the end of a run, what is waiting or in progress stays so.
LEMMA PendingStays ==
    ASSUME PendingHasRun, UNCHANGED <<tip, waiting, running>>, check' = check
    PROVE  PendingHasRun'
BY DEF PendingHasRun, TipWaits, OfTip

LEMMA PendingNext == TypeInv /\ RunInv /\ PendingHasRun /\ [Next]_vars => PendingHasRun'
<1> SUFFICES ASSUME TypeInv, RunInv, PendingHasRun, [Next]_vars PROVE PendingHasRun'
  OBVIOUS
<1>a. TypeOK
  BY DEF TypeInv
<1>1. CASE \/ \E input \in Inputs, source \in {"old", "new"}, hidden \in {{}, {"output"}} :
                 HumanPush(input, source, hidden)
           \/ \E input \in Inputs, text \in Texts : UpdateBranch(input, text)
  BY <1>a, <1>1, AdvancePends, HumanPushAdvances, UpdateBranchAdvances
<1>2. CASE Reopen
  <2> DEFINE new == [number |-> tip.number, mode |-> Mode(tip, "human")]
  <2>1. waiting' = {new} /\ tip' = tip
    BY <1>2 DEF Reopen, Arrives, branch
  <2>2. new.number = tip.number
    OBVIOUS
  <2> HIDE DEF new
  <2>3. QED  BY <2>1, <2>2 DEF PendingHasRun, TipWaits, OfTip
<1>3. ASSUME NEW e \in events, Rerun(e) PROVE PendingHasRun'
  <2>1. waiting' = {e} /\ UNCHANGED <<tip, running>>
    BY <1>3 DEF Rerun, Arrives, branch, job
  <2>2. check' = IF OfTip(e) THEN "none" ELSE IF TipWaits THEN "cancelled" ELSE check
    BY <1>3 DEF Rerun
  <2>3. QED  BY <2>1, <2>2 DEF PendingHasRun, TipWaits, OfTip
<1>4. ASSUME NEW e \in waiting, Start(e) PROVE PendingHasRun'
  <2>1. waiting' = waiting \ {e} /\ running' = {e} /\ UNCHANGED <<tip, check>>
    BY <1>4 DEF Start, branch
  <2>2. running = {}
    BY <1>4 DEF Start, RunInv
  <2>3. QED  BY <2>1, <2>2 DEF PendingHasRun, TipWaits, OfTip
<1>5. CASE Decide \/ Validate \/ Generate \/ Fail
  BY <1>5, PendingStays DEF Decide, Validate, Generate, Fail, branch
<1>6. CASE Push
  BY <1>a, <1>6, AdvancePends, PendingStays, PushCases
<1>7. ASSUME NEW answer \in {"green", "red", "cancelled"}, End(answer) PROVE PendingHasRun'
  <2>1. UNCHANGED <<tip, waiting>>
    BY <1>7 DEF End, branch
  <2>2. check' = IF (\E e \in running : OfTip(e)) /\ ~TipWaits THEN answer ELSE check
    BY <1>7 DEF End, Concluded
  <2>3. QED  BY <2>1, <2>2 DEF PendingHasRun, TipWaits, OfTip
<1>8. CASE Finish
  BY <1>7, <1>8 DEF Finish, TypeInv, Answered
<1>9. CASE Kill
  BY <1>7, <1>9 DEF Kill
<1>10. CASE UNCHANGED vars
  BY <1>10, PendingStays DEF vars, branch, job
<1>11. QED
  BY <1>1, <1>2, <1>3, <1>4, <1>5, <1>6, <1>8, <1>9, <1>10 DEF Next, People, Run

\* A check that is pending has a run that will decide it, however often the branch moved
\* on, runs were cancelled or events of older commits were run again.
THEOREM NoPendingWithoutRun == Spec => []PendingHasRun
<1>1. Init => PendingHasRun
  BY DEF Init, PendingHasRun
<1>2. BotsInv /\ PendingHasRun /\ [Next]_vars => PendingHasRun'
  BY PendingNext DEF BotsInv
<1>3. QED  BY <1>1, <1>2, BotsInvariant, PTL DEF Spec
=============================================================================
