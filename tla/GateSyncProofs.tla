--------------------------- MODULE GateSyncProofs ---------------------------
(* The sync that the required check reasons with is the one that runs, for   *)
(* all tables, contents, inputs, generators and documents.                   *)
EXTENDS GateSync, CandidateSyncProofs

-----------------------------------------------------------------------------
(* Seen from outside, a table is what it is inside.                          *)

(* A reviewed table has a review, and a file that is a candidate or nothing. *)
LEMMA ReviewedTyped ==
    ASSUME TypeOK, NEW t \in Reviewed
    PROVE  /\ t \in Tables
           /\ reviews[t] \in Review
           /\ reviews[t].state \in {"needs_review", "approved"}
           /\ candidates[t] \in CandidateFile
           /\ Readable(candidates[t]) => candidates[t] \in Candidate
<1>1. t \in Tables /\ reviews[t] \in ReviewFile /\ reviews[t].state # "absent"
  BY DEF Reviewed, TypeOK
<1>2. reviews[t] \in Review
  BY <1>1 DEF ReviewFile, NoFile
<1>3. candidates[t] \in CandidateFile
  BY <1>1 DEF TypeOK
<1>. QED
  BY <1>1, <1>2, <1>3, ReadableIsCandidate DEF Review

(* A file that is no candidate is nothing that could be current. *)
LEMMA NothingSeen ==
    ASSUME NEW a, NEW b
    PROVE  Nothing # <<a, b>>
BY DEF Nothing

LEMMA CurrentSeen ==
    ASSUME TypeOK, NEW t \in Reviewed
    PROVE  /\ Current(t) <=> Outside!Current(View(t))
           /\ ValidCandidate(t) <=> Outside!Valid(View(t))
<1>. DEFINE c == candidates[t]
<1>1. CASE Readable(c)
  <2>1. View(t).output.content = <<c.fingerprint.content, c.fingerprint.inputs>>
    BY <1>1 DEF View, OutputOf
  <2>2. View(t).input.content = <<reviews[t].content, inputs>>
    BY DEF View, InputOf
  <2>3. View(t).output.intact <=> Intact(c)
    BY <1>1 DEF View, OutputOf
  <2>. QED
    BY <1>1, <2>1, <2>2, <2>3 DEF Current, ValidCandidate, Outside!Current, Outside!Valid
<1>2. CASE ~Readable(c)
  <2>1. View(t).output.content = Nothing
    BY <1>2 DEF View, OutputOf
  <2>2. View(t).input.content = <<reviews[t].content, inputs>>
    BY DEF View, InputOf
  <2>. QED
    BY <1>2, <2>1, <2>2, NothingSeen DEF Current, ValidCandidate, Outside!Current, Outside!Valid
<1>. QED
  BY <1>1, <1>2

(* What a candidate says, and whose answer it is. *)
LEMMA TextSeen ==
    ASSUME TypeOK, NEW t \in Reviewed, Readable(candidates[t])
    PROVE  /\ View(t).output.text = <<candidates[t].body, candidates[t].fingerprint.identity>>
           /\ View(t).output.text \in Bodies \X Identities
           /\ View(t).output.text \in Answers <=> candidates[t].fingerprint.identity = identity
           /\ View(t).output.intact <=> Intact(candidates[t])
<1>1. candidates[t].body \in Bodies /\ candidates[t].fingerprint.identity \in Identities
  BY ReviewedTyped DEF Candidate, Fingerprint
<1>. QED
  BY <1>1 DEF View, OutputOf, Answers

(* The decisions about a table are those about what is seen of it. *)
LEMMA DecisionsSeen ==
    ASSUME TypeOK, NEW t \in Reviewed
    PROVE  /\ Kept(t, FALSE) <=> Outside!Kept(View(t), Answers)
           /\ Kept(t, TRUE) <=> Outside!Settled(View(t))
           /\ Promotable(t) <=> Outside!Promotable(View(t))
           /\ Regenerable(t, FALSE) <=> Outside!Regenerable(View(t), Answers)
<1>1. /\ View(t).input.approved = (reviews[t].state = "approved")
      /\ View(t).output.promoted = (candidates[t].state = "promoted")
  BY DEF View, InputOf, OutputOf
<1>2. reviews[t].state \in {"needs_review", "approved"}
  BY ReviewedTyped
<1>3. CASE Readable(candidates[t])
  <2>1. candidates[t].state \in {"review", "promoted"}
    BY <1>3 DEF Readable
  <2>2. /\ View(t).output.text \in Answers <=> candidates[t].fingerprint.identity = identity
        /\ View(t).output.intact <=> Intact(candidates[t])
    BY <1>3, TextSeen
  <2>. QED
    BY <1>1, <1>2, <2>1, <2>2, CurrentSeen
    DEF Kept, Promotable, Regenerable, Outside!Kept, Outside!Settled, Outside!Promotable,
        Outside!Regenerable
<1>4. CASE ~Readable(candidates[t])
  <2>1. ~Current(t) /\ ~ValidCandidate(t)
    BY <1>4 DEF Current, ValidCandidate
  <2>2. candidates[t].state # "review"
    BY <1>4 DEF Readable
  <2>. QED
    BY <1>1, <1>2, <2>1, <2>2, CurrentSeen
    DEF Kept, Promotable, Regenerable, Outside!Kept, Outside!Settled, Outside!Promotable,
        Outside!Regenerable
<1>. QED
  BY <1>3, <1>4

(* A validated table is acceptable, as the gate says. *)
LEMMA AcceptedSeen ==
    ASSUME TypeOK, NEW t \in Reviewed
    PROVE  Kept(t, TRUE) \/ Promotable(t) <=> Outside!Accepted(View(t))
BY DecisionsSeen DEF Outside!Accepted

-----------------------------------------------------------------------------
(* What a run has planned for a table is an outcome of what it found.        *)

(* A candidate that is right for the inputs of a table, with its Markdown.   *)
LEMMA FreshIsSynced ==
    ASSUME NEW t, NEW c, Fresh(t, c), reviews[t].state \in {"needs_review", "approved"}
    PROVE  OutputOf(c, Render(c)) = Outside!Synced(InputOf(t), <<c.body, c.fingerprint.identity>>)
<1>1. OutputOf(c, Render(c)) =
        [content |-> <<c.fingerprint.content, c.fingerprint.inputs>>,
         promoted |-> c.state = "promoted", intact |-> TRUE, rendered |-> TRUE,
         text |-> <<c.body, c.fingerprint.identity>>]
  BY DEF OutputOf, Fresh
<1>2. InputOf(t).approved = (c.state = "promoted")
  BY DEF InputOf, Fresh
<1>3. InputOf(t).content = <<c.fingerprint.content, c.fingerprint.inputs>>
  BY DEF InputOf, Fresh
<1>. QED
  BY <1>1, <1>2, <1>3 DEF Outside!Synced

(* What is kept or promoted keeps its text. *)
LEMMA KeptIsOutcome ==
    ASSUME TypeOK, NEW t \in Reviewed, Kept(t, FALSE) \/ Promotable(t),
           NEW c, c = IF Promotable(t) THEN Promotion(candidates[t]) ELSE candidates[t]
    PROVE  OutputOf(c, Render(c)) \in Outside!Outcomes(View(t), Answers)
<1>1. Readable(candidates[t]) /\ candidates[t] \in Candidate /\ t \in Tables
  BY ReviewedTyped DEF Kept, Promotable, ValidCandidate, Current
<1>2. Fresh(t, c)
  BY <1>1, PromotionIsFresh, KeptIsFresh
<1>3. c.body = candidates[t].body /\ c.fingerprint = candidates[t].fingerprint
  BY <1>1 DEF Promotion, Candidate
<1>4. OutputOf(c, Render(c)) = Outside!Synced(View(t).input, View(t).output.text)
  BY <1>1, <1>2, <1>3, ReviewedTyped, FreshIsSynced, TextSeen DEF View
<1>5. Outside!Kept(View(t), Answers) \/ Outside!Promotable(View(t))
  BY DecisionsSeen
<1>. QED
  BY <1>1, <1>4, <1>5, TextSeen DEF Outside!Outcomes

(* What is generated is an answer of the configured generator. *)
LEMMA NewIsOutcome ==
    ASSUME TypeOK, NEW t \in Tables, reviews[t].state = "needs_review", NEW body \in Bodies,
           NEW found, found.input = InputOf(t), Outside!Regenerable(found, Answers),
           NEW c, c = NewCandidate(t, body)
    PROVE  OutputOf(c, Render(c)) \in Outside!Outcomes(found, Answers)
<1>1. Fresh(t, c) /\ c.body = body /\ c.fingerprint.identity = identity
  BY NewCandidateIsFresh DEF NewCandidate
<1>2. OutputOf(c, Render(c)) = Outside!Synced(found.input, <<body, identity>>)
  BY <1>1, FreshIsSynced
<1>3. <<body, identity>> \in Answers /\ <<body, identity>> \in Bodies \X Identities
  BY DEF TypeOK, Answers
<1>. QED
  BY <1>2, <1>3 DEF Outside!Outcomes

(* The gate has an outcome for a table exactly when the run goes on with it. *)
LEMMA OutcomeExists ==
    ASSUME TypeOK, Bodies # {}, NEW t \in Reviewed
    PROVE  Outside!Outcomes(View(t), Answers) # {}
           <=> Kept(t, FALSE) \/ Promotable(t) \/ Regenerable(t, FALSE)
<1>1. ASSUME Kept(t, FALSE) \/ Promotable(t)
      PROVE  Outside!Outcomes(View(t), Answers) # {}
  BY <1>1, KeptIsOutcome
<1>2. ASSUME Regenerable(t, FALSE)
      PROVE  Outside!Outcomes(View(t), Answers) # {}
  <2>1. PICK body \in Bodies : TRUE
    OBVIOUS
  <2>2. reviews[t].state = "needs_review" /\ t \in Tables
    BY <1>2 DEF Regenerable, Reviewed
  <2>3. Outside!Regenerable(View(t), Answers) /\ View(t).input = InputOf(t)
    BY <1>2, DecisionsSeen DEF View
  <2>. QED
    BY <2>2, <2>3, NewIsOutcome
<1>3. ASSUME Outside!Outcomes(View(t), Answers) # {}
      PROVE  Kept(t, FALSE) \/ Promotable(t) \/ Regenerable(t, FALSE)
  BY <1>3, DecisionsSeen DEF Outside!Outcomes
<1>. QED
  BY <1>1, <1>2, <1>3

-----------------------------------------------------------------------------
(* A running command is on its way to an outcome of what it began with.       *)

Promised(t) ==
    /\ InputOf(t) = before[t].input
    /\ t \in pending => Outside!Regenerable(before[t], Answers)
    /\ t \notin pending =>
          IF items[t] # NoFile
          THEN OutputOf(items[t], Render(items[t])) \in Outside!Outcomes(before[t], Answers)
          ELSE View(t).output \in Outside!Outcomes(before[t], Answers)

SeenInv == phase # "idle" /\ ~disturbed => \A t \in chosen : Promised(t)

(* What is to be generated is generated before anything is written. *)
PendingInv == phase # "planned" => pending = {}

SeenSyncInv == SyncInv /\ PendingInv /\ SeenInv /\ ReportIsOutcome

(* Only a plan begins a command. *)
LEMMA OnlyPlansBegin ==
    ASSUME phase # "idle", SeenNext
    PROVE  UNCHANGED before
BY DEF SeenNext, Begins, Plan

(* A plan promises for each table it covers what the gate expects. *)
LEMMA PlanPromises ==
    ASSUME SeenSyncInv, SeenNext, NEW selection \in SUBSET Tables, NEW validateOnly \in BOOLEAN,
           Plan(selection, validateOnly)
    PROVE  SeenInv' /\ ReportIsOutcome'
<1>1. before' = Views
  BY DEF SeenNext, Begins
<1>2. TypeOK /\ phase = "idle" /\ UNCHANGED tree
  BY DEF SeenSyncInv, SyncInv, TypeInv, Plan
<1>3. UNCHANGED <<reviews, inputs, identity, candidates, markdown>>
  BY <1>2 DEF tree
<1>4. \A t : InputOf(t)' = InputOf(t) /\ View(t)' = View(t)
  BY <1>3 DEF InputOf, View
<1>5. Answers' = Answers
  BY <1>3 DEF Answers
<1>6. CASE ~Accepted(selection, validateOnly)
  BY <1>2, <1>6 DEF Plan, Report, SeenInv, ReportIsOutcome
<1>7. CASE Accepted(selection, validateOnly)
  <2>1. chosen' = Chosen(selection) /\ Chosen(selection) \subseteq Reviewed
    BY <1>7 DEF Plan, Report, Accepted
  <2>2. \A t \in chosen' : before'[t] = View(t)
    BY <1>1, <2>1 DEF Views
  <2>3. CASE validateOnly
    <3>1. phase' = "idle" /\ outcome' = "validated"
      BY <1>2, <1>7, <2>3 DEF Plan, Report
    <3>2. \A t \in chosen' : Outside!Accepted(View(t))
      BY <1>2, <1>7, <2>1, <2>3, AcceptedSeen DEF Accepted
    <3>. QED
      BY <1>4, <2>2, <3>1, <3>2 DEF SeenInv, ReportIsOutcome
  <2>4. CASE ~validateOnly
    <3>1. /\ outcome' = "none"
          /\ pending' = {t \in Chosen(selection) : Regenerable(t, FALSE)}
          /\ items' = [t \in Tables |->
                          IF t \notin Chosen(selection) \ pending' THEN NoFile
                          ELSE IF Promotable(t) THEN Promotion(candidates[t])
                          ELSE candidates[t]]
          /\ phase' = IF pending' = {} THEN "writing" ELSE "planned"
      BY <1>7, <2>4 DEF Plan, Report
    <3>2. ASSUME NEW t \in chosen' PROVE Promised(t)'
      <4>1. t \in Reviewed /\ t \in Tables
        BY <2>1 DEF Reviewed
      <4>2. InputOf(t)' = before'[t].input
        <5>1. View(t).input = InputOf(t) /\ InputOf(t)' = InputOf(t)
          BY <1>3 DEF View, InputOf
        <5>. QED
          BY <2>2, <5>1
      <4>3. CASE t \in pending'
        <5>1. Outside!Regenerable(before'[t], Answers')
          BY <1>2, <1>5, <2>2, <3>1, <4>1, <4>3, DecisionsSeen
        <5>. QED
          BY <4>2, <4>3, <5>1 DEF Promised
      <4>4. CASE t \notin pending'
        <5>1. Kept(t, FALSE) \/ Promotable(t)
          BY <1>7, <2>1, <2>4, <3>1, <4>4 DEF Accepted
        <5>2. items'[t] = IF Promotable(t) THEN Promotion(candidates[t]) ELSE candidates[t]
          BY <2>1, <3>1, <4>1, <4>4
        <5>3. OutputOf(items'[t], Render(items'[t])) \in Outside!Outcomes(before'[t], Answers')
          BY <1>2, <1>5, <2>2, <4>1, <5>1, <5>2, KeptIsOutcome
        <5>4. items'[t] # NoFile
          BY <1>2, <4>1, <5>1, <5>2, PlannedItem, CandidateTyped
        <5>. QED
          BY <4>2, <4>4, <5>3, <5>4 DEF Promised
      <4>. QED
        BY <4>3, <4>4
    <3>. QED
      BY <3>1, <3>2 DEF SeenInv, ReportIsOutcome
  <2>. QED
    BY <2>3, <2>4
<1>. QED
  BY <1>6, <1>7

(* What is generated keeps the promise. *)
LEMMA GenerateKeepsPromises ==
    ASSUME SeenSyncInv, SeenNext, Generate
    PROVE  SeenInv'
<1>1. /\ phase = "planned" /\ phase' = "writing" /\ TypeOK /\ pending' = {}
      /\ UNCHANGED <<reviews, inputs, identity, candidates, markdown, chosen, disturbed>>
  BY DEF Generate, SeenSyncInv, SyncInv, TypeInv, tree
<1>2. PICK answer \in [pending -> Bodies] :
         items' = [t \in Tables |->
                     IF t \in pending THEN NewCandidate(t, answer[t]) ELSE items[t]]
  BY DEF Generate
<1>3. before' = before /\ Answers' = Answers
  BY <1>1, OnlyPlansBegin DEF Answers
<1>4. ASSUME ~disturbed, NEW t \in chosen PROVE Promised(t)'
  <2>1. Promised(t) /\ t \in Tables
    BY <1>1, <1>4 DEF SeenSyncInv, SeenInv, TypeOK
  <2>2. InputOf(t)' = before'[t].input
    BY <1>1, <1>3, <2>1 DEF Promised, InputOf
  <2>3. CASE t \in pending
    <3>1. items'[t] = NewCandidate(t, answer[t]) /\ reviews[t].state = "needs_review"
      BY <1>2, <2>1, <2>3 DEF Generate
    <3>2. answer[t] \in Bodies
      BY <2>3
    <3>3. OutputOf(items'[t], Render(items'[t])) \in Outside!Outcomes(before'[t], Answers')
      BY <1>1, <1>3, <2>1, <2>3, <3>1, <3>2, NewIsOutcome DEF Promised
    <3>4. items'[t] # NoFile
      BY <3>1, NewCandidateIsFresh
    <3>. QED
      BY <1>1, <2>2, <3>3, <3>4 DEF Promised
  <2>4. CASE t \notin pending
    <3>1. items'[t] = items[t]
      BY <1>2, <2>1, <2>4
    <3>2. View(t)' = View(t)
      BY <1>1 DEF View, InputOf
    <3>. QED
      BY <1>1, <1>3, <2>1, <2>2, <2>4, <3>1, <3>2 DEF Promised
  <2>. QED
    BY <2>3, <2>4
<1>. QED
  BY <1>1, <1>4 DEF SeenInv

(* Writing a candidate leaves the promise about its item as it was. *)
LEMMA WriteCandidateKeepsPromises ==
    ASSUME SeenSyncInv, SeenNext, NEW u \in Tables, WriteCandidate(u)
    PROVE  SeenInv'
<1>1. /\ phase = "writing" /\ TypeOK /\ items[u] # NoFile
      /\ candidates' = [candidates EXCEPT ![u] = items[u]]
      /\ UNCHANGED <<reviews, inputs, identity, markdown, chosen, items, pending, disturbed>>
  BY DEF WriteCandidate, SeenSyncInv, SyncInv, TypeInv
<1>2. before' = before /\ Answers' = Answers
  BY <1>1, OnlyPlansBegin DEF Answers
<1>3. ASSUME ~disturbed, NEW t \in chosen PROVE Promised(t)'
  <2>1. Promised(t) /\ t \in Tables
    BY <1>1, <1>3 DEF SeenSyncInv, SeenInv, TypeOK
  <2>2. InputOf(t)' = InputOf(t)
    BY <1>1 DEF InputOf
  <2>3. items[t] = NoFile => View(t)' = View(t)
    <3>1. t # u => candidates'[t] = candidates[t]
      BY <1>1, <2>1 DEF TypeOK
    <3>. QED
      BY <1>1, <3>1 DEF View, InputOf
  <2>. QED
    BY <1>1, <1>2, <2>1, <2>2, <2>3 DEF Promised
<1>. QED
  BY <1>1, <1>3 DEF SeenInv

(* With its Markdown a table is what was promised; with the last one so are all. *)
LEMMA WriteMarkdownKeepsPromises ==
    ASSUME SeenSyncInv, SeenNext, NEW u \in Tables, WriteMarkdown(u)
    PROVE  SeenInv' /\ ReportIsOutcome'
<1>1. /\ phase = "writing" /\ outcome = "none" /\ u \in half /\ TypeOK
      /\ markdown' = [markdown EXCEPT ![u] = Render(items[u])]
      /\ UNCHANGED <<reviews, inputs, identity, candidates>>
  BY DEF WriteMarkdown, SeenSyncInv, SyncInv, WorkInv, TypeInv
<1>2. items[u] # NoFile
  BY <1>1 DEF SeenSyncInv, SyncInv, TypeInv, HalfWritten
<1>3. before' = before /\ Answers' = Answers
  BY <1>1, OnlyPlansBegin DEF Answers
<1>4. ASSUME ~disturbed, NEW t \in chosen
      PROVE  /\ InputOf(t)' = before'[t].input
             /\ t \notin pending /\ (t = u \/ items[t] = NoFile) =>
                   View(t)'.output \in Outside!Outcomes(before'[t], Answers')
             /\ t \notin pending /\ t # u /\ items[t] # NoFile =>
                   OutputOf(items[t], Render(items[t])) \in Outside!Outcomes(before'[t], Answers')
  <2>1. Promised(t) /\ OnItsWay(t) /\ t \in Tables
    BY <1>1, <1>4 DEF SeenSyncInv, SeenInv, SyncInv, WorkInv, TypeOK
  <2>2. InputOf(t)' = InputOf(t)
    BY <1>1 DEF InputOf
  <2>3. CASE t = u
    <3>1. candidates'[t] = items[t] /\ markdown'[t] = Render(items[t])
      BY <1>1, <2>1, <2>3 DEF OnItsWay, TypeOK
    <3>2. View(t)'.output = OutputOf(items[t], Render(items[t]))
      BY <3>1 DEF View
    <3>. QED
      BY <1>2, <1>3, <2>1, <2>2, <2>3, <3>2 DEF Promised
  <2>4. CASE t # u
    <3>1. markdown'[t] = markdown[t]
      BY <1>1, <2>1, <2>4 DEF TypeOK
    <3>2. View(t)' = View(t)
      BY <1>1, <3>1 DEF View, InputOf
    <3>. QED
      BY <1>3, <2>1, <2>2, <2>4, <3>2 DEF Promised
  <2>. QED
    BY <2>3, <2>4
<1>5. CASE [items EXCEPT ![u] = NoFile] = NoItems
  <2>1. End("synced")
    BY <1>5 DEF WriteMarkdown
  <2>2. ASSUME ~disturbed, NEW t \in chosen
        PROVE  /\ InputOf(t)' = before'[t].input
               /\ View(t)'.output \in Outside!Outcomes(before'[t], Answers')
    <3>1. t = u \/ items[t] = NoFile
      BY <1>1, <1>5, <2>2 DEF TypeOK, NoItems
    <3>2. t \notin pending
      BY <1>1 DEF SeenSyncInv, PendingInv
    <3>. QED
      BY <1>4, <2>2, <3>1, <3>2
  <2>. QED
    BY <2>1, <2>2 DEF End, Report, SeenInv, ReportIsOutcome
<1>6. CASE [items EXCEPT ![u] = NoFile] # NoItems
  <2>1. /\ items' = [items EXCEPT ![u] = NoFile]
        /\ UNCHANGED <<phase, chosen, pending, outcome, disturbed>>
    BY <1>6 DEF WriteMarkdown
  <2>2. ASSUME ~disturbed, NEW t \in chosen PROVE Promised(t)'
    <3>1. t \in Tables /\ t \notin pending
      BY <1>1, <2>2 DEF TypeOK, SeenSyncInv, PendingInv
    <3>2. items'[t] = IF t = u THEN NoFile ELSE items[t]
      BY <1>1, <2>1, <3>1 DEF TypeOK
    <3>. QED
      BY <1>4, <2>1, <2>2, <3>1, <3>2 DEF Promised
  <2>. QED
    BY <1>1, <2>1, <2>2 DEF SeenInv, ReportIsOutcome
<1>. QED
  BY <1>5, <1>6

(* A run that fails, and an edit of the tree, leave nothing that was promised. *)
LEMMA FailureBreaksNone ==
    ASSUME End("failed")
    PROVE  SeenInv' /\ PendingInv' /\ ReportIsOutcome'
BY DEF End, Report, SeenInv, PendingInv, ReportIsOutcome

LEMMA EditBreaksNone ==
    ASSUME SeenSyncInv, Edit
    PROVE  SeenInv' /\ PendingInv' /\ ReportIsOutcome'
<1>1. CASE phase = "idle"
  BY <1>1 DEF Edit, Report, SeenSyncInv, SeenInv, PendingInv, ReportIsOutcome
<1>2. CASE phase # "idle"
  BY <1>2 DEF Edit, SeenSyncInv, SyncInv, WorkInv, SeenInv, PendingInv, ReportIsOutcome
<1>. QED
  BY <1>1, <1>2

LEMMA NextSeenSyncInv == SeenSyncInv /\ [SeenNext]_seen => SeenSyncInv'
<1> SUFFICES ASSUME SeenSyncInv, [SeenNext]_seen PROVE SeenSyncInv'
  OBVIOUS
<1>0. SyncInv'
  BY NextSyncInv DEF SeenSyncInv, SeenNext, seen
<1>1. ASSUME SeenNext, NEW selection \in SUBSET Tables, NEW validateOnly \in BOOLEAN,
             Plan(selection, validateOnly)
      PROVE  SeenSyncInv'
  <2>1. PendingInv'
    BY <1>1 DEF Plan, SeenSyncInv, PendingInv
  <2>. QED
    BY <1>0, <1>1, <2>1, PlanPromises DEF SeenSyncInv
<1>2. CASE SeenNext /\ Generate
  <2>1. PendingInv' /\ ReportIsOutcome'
    BY <1>2 DEF Generate, SeenSyncInv, SyncInv, WorkInv, PendingInv, ReportIsOutcome
  <2>. QED
    BY <1>0, <1>2, <2>1, GenerateKeepsPromises DEF SeenSyncInv
<1>3. CASE SeenNext /\ (GenerationFails \/ Interrupt)
  BY <1>0, <1>3, FailureBreaksNone DEF SeenSyncInv, GenerationFails, Interrupt
<1>4. ASSUME SeenNext, NEW u \in Tables, WriteCandidate(u)
      PROVE  SeenSyncInv'
  <2>1. PendingInv' /\ ReportIsOutcome'
    BY <1>4 DEF WriteCandidate, SeenSyncInv, SyncInv, WorkInv, PendingInv, ReportIsOutcome
  <2>. QED
    BY <1>0, <1>4, <2>1, WriteCandidateKeepsPromises DEF SeenSyncInv
<1>5. ASSUME SeenNext, NEW u \in Tables, WriteMarkdown(u)
      PROVE  SeenSyncInv'
  <2>1. PendingInv'
    BY <1>5 DEF WriteMarkdown, End, SeenSyncInv, PendingInv
  <2>. QED
    BY <1>0, <1>5, <2>1, WriteMarkdownKeepsPromises DEF SeenSyncInv
<1>6. CASE SeenNext /\ People
  <2>1. Edit
    BY <1>6
    DEF People, SaveReview, DropTable, ChangeInputs, ChangeIdentity, DamageCandidate, DamageMarkdown
  <2>. QED
    BY <1>0, <2>1, EditBreaksNone DEF SeenSyncInv
<1>7. CASE UNCHANGED seen
  <2>1. UNCHANGED <<reviews, inputs, identity, candidates, markdown, phase, chosen, items,
                    pending, outcome, disturbed, before>>
    BY <1>7 DEF seen, vars, tree, command
  <2>2. \A t : InputOf(t)' = InputOf(t) /\ View(t)' = View(t)
    BY <2>1 DEF InputOf, View
  <2>3. Answers' = Answers
    BY <2>1 DEF Answers
  <2>4. SeenInv'
    BY <2>1, <2>2, <2>3 DEF SeenSyncInv, SeenInv, Promised
  <2>5. ReportIsOutcome'
    BY <2>1, <2>2, <2>3 DEF SeenSyncInv, ReportIsOutcome
  <2>. QED
    BY <1>0, <2>1, <2>4, <2>5 DEF SeenSyncInv, PendingInv
<1>. QED
  BY <1>1, <1>2, <1>3, <1>4, <1>5, <1>6, <1>7 DEF SeenNext, Next, Sync

LEMMA InitSeenSyncInv == SeenInit => SeenSyncInv
BY InitSyncInv DEF SeenInit, Init, SeenSyncInv, SeenInv, PendingInv, ReportIsOutcome

LEMMA SeenSyncInvariant == SeenSpec => []SeenSyncInv
BY InitSeenSyncInv, NextSeenSyncInv, PTL DEF SeenSpec

(* A sync that reports success has produced, file by file, an outcome the    *)
(* required check expects of the tree it began with; a validation that       *)
(* passes, an acceptable tree.                                               *)
THEOREM SyncIsAsTheGateExpects == SeenSpec => []ReportIsOutcome
<1>1. SeenSyncInv => ReportIsOutcome
  BY DEF SeenSyncInv
<1>. QED
  BY <1>1, SeenSyncInvariant, PTL

(* What the required check says of a green tree is what an undisturbed sync  *)
(* leaves of every table it covered: nothing for the next sync to do.        *)
THEOREM SyncedIsClean ==
    SeenSpec => [](outcome = "synced" => \A t \in chosen : Outside!Clean(View(t), Answers))
<1>1. SeenSyncInv
      => (outcome = "synced" => \A t \in chosen : Outside!Clean(View(t), Answers))
  <2> SUFFICES ASSUME SeenSyncInv, outcome = "synced", NEW t \in chosen
               PROVE  Outside!Clean(View(t), Answers)
    OBVIOUS
  <2>1. TypeOK /\ t \in Tables /\ Kept(t, FALSE) /\ markdown[t] = Render(candidates[t])
    BY DEF SeenSyncInv, SyncInv, TypeInv, TypeOK, RerunIsUnchanged
  <2>2. t \in Reviewed /\ Readable(candidates[t])
    BY <2>1 DEF Kept, ValidCandidate, Current, Reviewed
  <2>3. View(t).output.rendered
    BY <2>1, <2>2 DEF View, OutputOf
  <2>. QED
    BY <2>1, <2>2, <2>3, DecisionsSeen DEF Outside!Clean
<1>. QED
  BY <1>1, SeenSyncInvariant, PTL

-----------------------------------------------------------------------------
(* A command is refused exactly where the gate has no outcome.                *)

LEMMA RefusedSeen ==
    ASSUME TypeOK, NEW t \in Reviewed, NEW validateOnly \in BOOLEAN
    PROVE  Refused(t, validateOnly) <=>
              ~ (\/ Kept(t, validateOnly)
                 \/ Promotable(t)
                 \/ Regenerable(t, validateOnly) /\ ~validateOnly)
<1>1. CASE validateOnly = TRUE
  BY <1>1, AcceptedSeen DEF Refused
<1>2. CASE validateOnly = FALSE
  BY <1>2, OutcomeExists, BodiesAssumption DEF Refused
<1>. QED
  BY <1>1, <1>2

LEMMA NextRefusal ==
    ASSUME TypeOK, NEW selection \in SUBSET Reviewed, NEW validateOnly \in BOOLEAN,
           Preflight, Plan(selection, validateOnly)
    PROVE  outcome' = "failed" <=> \E t \in Chosen(selection) : Refused(t, validateOnly)
<1>1. Chosen(selection) \subseteq Reviewed
  BY DEF Chosen
<1>2. Accepted(selection, validateOnly) <=>
         ~ \E t \in Chosen(selection) : Refused(t, validateOnly)
  BY <1>1, RefusedSeen DEF Accepted
<1>3. outcome' = "failed" <=> ~Accepted(selection, validateOnly)
  BY DEF Plan, Report
<1>. QED
  BY <1>2, <1>3

(* prepare_candidate_sync fails before it writes anything exactly for a tree *)
(* of which the required check could not have been green either.             *)
THEOREM RefusalIsExpected == SeenSpec => RefusalIsNoOutcome
<1>1. SeenSyncInv => TypeOK
  BY DEF SeenSyncInv, SyncInv, TypeInv
<1>2. TypeOK /\ [SeenNext]_seen
      => [\A selection \in SUBSET Reviewed, validateOnly \in BOOLEAN :
             Preflight /\ Plan(selection, validateOnly)
             => (outcome' = "failed"
                 <=> \E t \in Chosen(selection) : Refused(t, validateOnly))]_vars
  BY NextRefusal
<1>. QED
  BY <1>1, <1>2, SeenSyncInvariant, PTL DEF SeenSpec, RefusalIsNoOutcome
=============================================================================
