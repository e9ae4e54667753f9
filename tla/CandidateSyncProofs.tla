------------------------ MODULE CandidateSyncProofs ------------------------
(* Proofs about the candidate lifecycle, for every database, every set of   *)
(* contents, inputs, identities and documents, and every number of edits.   *)
EXTENDS CandidateSync, TLAPS

(* Which kind of file a record is, told by its state. *)
LEMMA ReadableIsCandidate ==
    ASSUME NEW c \in CandidateFile, Readable(c)
    PROVE  c \in Candidate
BY DEF CandidateFile, NoFile, Unreadable, Readable

(* What is derived from a candidate is of its kind. *)
LEMMA CandidateTyped ==
    ASSUME NEW c \in Candidate
    PROVE  /\ c.state \in {"review", "promoted"}
           /\ c.fingerprint \in Fingerprint
           /\ c.sealed \in Bodies
           /\ Evidence(c) \in Fingerprint \X Bodies
           /\ Render(c) \in Markdown
           /\ Promotion(c) \in Candidate
           /\ Promotion(c).state = "promoted"
           /\ Evidence(Promotion(c)) = Evidence(c)
           /\ Promotion(c).fingerprint = c.fingerprint
           /\ c # NoFile
BY DEF Candidate, Evidence, Render, Markdown, Promotion, Fingerprint, NoFile

(* A generated candidate is a candidate, and intact. *)
LEMMA NewCandidateTyped ==
    ASSUME TypeOK, NEW t \in Tables, reviews[t].state = "needs_review", NEW body \in Bodies
    PROVE  NewCandidate(t, body) \in Candidate /\ NewCandidate(t, body).state = "review"
<1>1. reviews[t] \in Review
  BY DEF TypeOK, ReviewFile, NoFile
<1>. QED
  BY <1>1 DEF TypeOK, NewCandidate, Candidate, Fingerprint, Review

(* What a run plans for a table, whatever the selection. *)
LEMMA PlannedItem ==
    ASSUME TypeOK, NEW t \in Tables,
           Kept(t, FALSE) \/ Promotable(t)
    PROVE  candidates[t] \in Candidate
BY ReadableIsCandidate DEF TypeOK, Kept, Promotable, ValidCandidate, Current

-----------------------------------------------------------------------------
(* Type correctness.  It is not inductive by itself: the Markdown is rendered *)
(* from the planned item, so a half-written table must still have one.        *)

HalfWritten ==
    /\ \A t \in half : items[t] # NoFile
    /\ phase # "writing" => half = {}

TypeInv == TypeOK /\ HalfWritten

(* The initial state is well typed. *)
LEMMA InitTypeInv == Init => TypeInv
<1> SUFFICES ASSUME Init PROVE TypeInv
  OBVIOUS
<1>1. reviews \in [Tables -> ReviewFile]
  <2>1. ASSUME NEW t \in Tables PROVE reviews[t] \in ReviewFile
    <3>1. reviews[t] \in [state : {"needs_review"}, content : Contents]
      BY DEF Init
    <3>. QED
      BY <3>1 DEF ReviewFile, Review
  <2>2. reviews = [t \in Tables |-> reviews[t]]
    BY DEF Init
  <2>. QED
    BY <2>1, <2>2
<1>. QED
  BY <1>1 DEF Init, TypeInv, HalfWritten, TypeOK, CandidateFile, MarkdownFile, NoItems

(* Ending a run keeps the variables of the command well typed. *)
LEMMA EndTypeOK ==
    ASSUME TypeOK, NEW result \in {"failed", "synced"}, End(result)
    PROVE  /\ phase' \in {"idle"} /\ items' \in [Tables -> Candidate \union {NoFile}]
           /\ pending' \subseteq Tables /\ half' \subseteq Tables
           /\ disturbed' \in BOOLEAN /\ chosen' \subseteq Tables
           /\ outcome' \in {"none", "failed", "validated", "synced"}
BY DEF TypeOK, End, Report, NoItems

(* Recording an edit keeps the variables of the command well typed. *)
LEMMA EditTypeOK ==
    ASSUME TypeOK, Edit
    PROVE  /\ phase' = phase /\ items' = items /\ pending' = pending /\ half' = half
           /\ disturbed' \in BOOLEAN /\ chosen' \subseteq Tables /\ edits' \in Nat
           /\ outcome' \in {"none", "failed", "validated", "synced"}
BY DEF TypeOK, Edit, Report

(* Every step keeps the types. *)
LEMMA NextTypeInv == TypeInv /\ [Next]_vars => TypeInv'
<1> SUFFICES ASSUME TypeInv, [Next]_vars PROVE TypeInv'
  OBVIOUS
<1>1. ASSUME NEW selection \in SUBSET Tables, NEW validateOnly \in BOOLEAN,
             Plan(selection, validateOnly)
      PROVE TypeInv'
  <2>0. Chosen(selection) \subseteq Tables
    BY DEF Chosen, Reviewed
  <2>1. CASE ~Accepted(selection, validateOnly)
    BY <1>1, <2>0, <2>1 DEF TypeInv, HalfWritten, TypeOK, Plan, Report, tree
  <2>2. CASE Accepted(selection, validateOnly) /\ validateOnly
    BY <1>1, <2>0, <2>2 DEF TypeInv, HalfWritten, TypeOK, Plan, Report, tree
  <2>3. CASE Accepted(selection, validateOnly) /\ ~validateOnly
    <3>1. pending' \subseteq Tables
      BY <1>1, <2>0, <2>3 DEF Plan
    <3>2. validateOnly = FALSE
      BY <2>3
    <3>3. ASSUME NEW t \in Chosen(selection) \ pending'
          PROVE  candidates[t] \in Candidate
      <4>1. Kept(t, FALSE) \/ Promotable(t)
        BY <1>1, <2>3, <3>2, <3>3 DEF Plan, Accepted
      <4>. QED
        BY <2>0, <3>3, <4>1, PlannedItem DEF TypeInv
    <3>4. items' \in [Tables -> Candidate \union {NoFile}]
      <4>1. \A t \in Chosen(selection) \ pending' : Promotion(candidates[t]) \in Candidate
        BY <3>3, CandidateTyped
      <4>. QED
        BY <1>1, <2>3, <3>3, <4>1 DEF Plan
    <3>. QED
      BY <1>1, <2>0, <2>3, <3>1, <3>4 DEF TypeInv, HalfWritten, TypeOK, Plan, Report, tree
  <2>. QED
    BY <2>1, <2>2, <2>3
<1>2. CASE Generate
  <2>1. items' \in [Tables -> Candidate \union {NoFile}]
    BY <1>2, NewCandidateTyped DEF Generate, TypeInv, TypeOK
  <2>. QED
    BY <1>2, <2>1 DEF TypeInv, HalfWritten, TypeOK, Generate, tree
<1>3. CASE GenerationFails
  BY <1>3, EndTypeOK DEF TypeInv, HalfWritten, TypeOK, GenerationFails, End, tree
<1>4. ASSUME NEW t \in Tables, WriteCandidate(t)
      PROVE TypeInv'
  <2>1. items[t] \in Candidate
    BY <1>4 DEF WriteCandidate, TypeInv, TypeOK
  <2>2. shown' \in [Tables -> SUBSET (Fingerprint \X Bodies)]
    BY <1>4, <2>1, CandidateTyped DEF WriteCandidate, TypeInv, TypeOK
  <2>. QED
    BY <1>4, <2>1, <2>2 DEF TypeInv, HalfWritten, TypeOK, WriteCandidate, CandidateFile
<1>5. ASSUME NEW t \in Tables, WriteMarkdown(t)
      PROVE TypeInv'
  <2>1. markdown' \in [Tables -> MarkdownFile]
    BY <1>5, CandidateTyped DEF WriteMarkdown, TypeInv, HalfWritten, TypeOK, MarkdownFile
  <2>2. CASE [items EXCEPT ![t] = NoFile] = NoItems
    <3>1. End("synced")
      BY <1>5, <2>2 DEF WriteMarkdown
    <3>. QED
      BY <1>5, <2>1, <3>1, EndTypeOK DEF TypeInv, HalfWritten, TypeOK, WriteMarkdown, End
  <2>3. CASE [items EXCEPT ![t] = NoFile] # NoItems
    BY <1>5, <2>1, <2>3 DEF TypeInv, HalfWritten, TypeOK, WriteMarkdown
  <2>. QED
    BY <2>2, <2>3
<1>6. CASE Interrupt
  BY <1>6, EndTypeOK DEF TypeInv, HalfWritten, TypeOK, Interrupt, End, tree
<1>7. ASSUME NEW t \in Tables, NEW review \in Review, SaveReview(t, review)
      PROVE TypeInv'
  <2>1. approvals' \in [Tables -> SUBSET Contents]
    BY <1>7 DEF TypeInv, HalfWritten, TypeOK, SaveReview, Review
  <2>. QED
    BY <1>7, <2>1, EditTypeOK DEF TypeInv, HalfWritten, TypeOK, SaveReview, ReviewFile
<1>8. ASSUME NEW t \in Tables, DropTable(t)
      PROVE TypeInv'
  BY <1>8, EditTypeOK DEF TypeInv, HalfWritten, TypeOK, DropTable, ReviewFile
<1>9. ASSUME NEW i \in Inputs, ChangeInputs(i)
      PROVE TypeInv'
  BY <1>9, EditTypeOK DEF TypeInv, HalfWritten, TypeOK, ChangeInputs
<1>10. ASSUME NEW m \in Identities, ChangeIdentity(m)
       PROVE TypeInv'
  BY <1>10, EditTypeOK DEF TypeInv, HalfWritten, TypeOK, ChangeIdentity
<1>11. ASSUME NEW t \in Tables, NEW file \in CandidateFile, DamageCandidate(t, file)
       PROVE TypeInv'
  BY <1>11, EditTypeOK DEF TypeInv, HalfWritten, TypeOK, DamageCandidate
<1>12. ASSUME NEW t \in Tables, DamageMarkdown(t)
       PROVE TypeInv'
  BY <1>12, EditTypeOK DEF TypeInv, HalfWritten, TypeOK, DamageMarkdown, MarkdownFile
<1>13. CASE UNCHANGED vars
  BY <1>13 DEF TypeInv, HalfWritten, TypeOK, vars, tree, command
<1>. QED
  BY <1>1, <1>2, <1>3, <1>4, <1>5, <1>6, <1>7, <1>8, <1>9, <1>10, <1>11, <1>12, <1>13
  DEF Next, Sync, People

(* Every file and every variable of the command is of its kind, always. *)
THEOREM TypeCorrect == Spec => []TypeOK
<1>1. Init => TypeInv
  BY InitTypeInv
<1>2. TypeInv /\ [Next]_vars => TypeInv'
  BY NextTypeInv
<1>3. TypeInv => TypeOK
  BY DEF TypeInv
<1>. QED
  BY <1>1, <1>2, <1>3, PTL DEF Spec

-----------------------------------------------------------------------------
(* No promotion without review.  The property speaks of the files; to be     *)
(* inductive it must also follow a promotion from the moment it is planned   *)
(* (the item in memory) and remember that every candidate on disk, with the  *)
(* document its hashes were taken of, has been shown and every approved YAML *)
(* has been saved as such.  A status set by hand is planned to be kept only  *)
(* under an approved YAML, so that what is planned is earned all the same.   *)

Approved(t, content) == content \in approvals[t]

Earned(t, c) == Evidence(c) \in shown[t] /\ Approved(t, c.fingerprint.content)

FilesWereShown ==
    \A t \in Tables : Readable(candidates[t]) => Evidence(candidates[t]) \in shown[t]

ApprovalsWereSaved ==
    \A t \in Tables : reviews[t].state = "approved" => Approved(t, reviews[t].content)

PlannedPromotionsEarned ==
    \A t \in Tables : items[t].state = "promoted" => Earned(t, items[t])

WrittenPromotionsApproved ==
    \A t \in Tables \ setByHand :
        candidates[t].state = "promoted" => Approved(t, candidates[t].fingerprint.content)

PromotionInv ==
    /\ TypeInv
    /\ FilesWereShown
    /\ ApprovalsWereSaved
    /\ PlannedPromotionsEarned
    /\ WrittenPromotionsApproved

(* The history only grows, so what has been earned stays earned. *)
LEMMA HistoryGrows ==
    ASSUME TypeInv, Next, NEW t \in Tables
    PROVE  shown[t] \subseteq shown'[t] /\ approvals[t] \subseteq approvals'[t]
<1>1. \A u \in Tables : WriteCandidate(u) => shown[t] \subseteq shown'[t]
  BY DEF TypeInv, TypeOK, WriteCandidate
<1>2. \A u \in Tables, review \in Review :
         SaveReview(u, review) => approvals[t] \subseteq approvals'[t]
  BY DEF TypeInv, TypeOK, SaveReview
<1>. QED
  BY <1>1, <1>2 DEF Next, Sync, People, Plan, Generate, GenerationFails, WriteCandidate,
     WriteMarkdown, Interrupt, SaveReview, DropTable, ChangeInputs, ChangeIdentity,
     DamageCandidate, DamageMarkdown

(* A candidate that has earned promotion or approval does not lose it. *)
LEMMA EarnedStays ==
    ASSUME TypeInv, Next, NEW t \in Tables, NEW c, Earned(t, c)
    PROVE  Earned(t, c)'
BY HistoryGrows DEF Earned, Approved

(* Nothing is promoted initially. *)
LEMMA InitPromotionInv == Init => PromotionInv
BY InitTypeInv DEF Init, PromotionInv, FilesWereShown, ApprovalsWereSaved,
   PlannedPromotionsEarned, WrittenPromotionsApproved, NoItems, NoFile, Readable

(* Steps that plan nothing, write no candidate and save no approval. *)
LEMMA QuietStep ==
    ASSUME PromotionInv, Next, TypeInv', UNCHANGED setByHand,
           \A t \in Tables : candidates'[t] = candidates[t] \/ ~Readable(candidates'[t]),
           \A t \in Tables : reviews'[t] = reviews[t] \/ reviews'[t].state # "approved",
           \A t \in Tables : items'[t] = items[t] \/ items'[t].state # "promoted"
    PROVE  PromotionInv'
<1>1. FilesWereShown'
  BY HistoryGrows DEF PromotionInv, FilesWereShown
<1>2. ApprovalsWereSaved'
  BY HistoryGrows DEF PromotionInv, ApprovalsWereSaved, Approved
<1>3. PlannedPromotionsEarned'
  BY EarnedStays DEF PromotionInv, PlannedPromotionsEarned
<1>4. WrittenPromotionsApproved'
  BY HistoryGrows DEF PromotionInv, WrittenPromotionsApproved, Approved, Readable
<1>. QED
  BY <1>1, <1>2, <1>3, <1>4 DEF PromotionInv

(* A plan promotes, or keeps promoted, only what is on disk, intact, current and *)
(* approved, whoever set the status it finds.                                    *)
LEMMA PlanEarns ==
    ASSUME PromotionInv, NEW t \in Tables, Kept(t, FALSE) \/ Promotable(t)
    PROVE  /\ Promotable(t) => Earned(t, Promotion(candidates[t]))
           /\ ~Promotable(t) /\ candidates[t].state = "promoted" => Earned(t, candidates[t])
<1>1. candidates[t] \in Candidate /\ Readable(candidates[t])
  BY PlannedItem DEF PromotionInv, TypeInv, Kept, Promotable, ValidCandidate, Current
<1>2. Evidence(candidates[t]) \in shown[t]
  BY <1>1 DEF PromotionInv, FilesWereShown
<1>3. Promotable(t) \/ candidates[t].state = "promoted"
      => Approved(t, candidates[t].fingerprint.content)
  BY DEF PromotionInv, ApprovalsWereSaved, Kept, Promotable, ValidCandidate, Current
<1>. QED
  BY <1>1, <1>2, <1>3, CandidateTyped DEF Earned

(* Every step keeps the invariant of promotion. *)
LEMMA NextPromotionInv == PromotionInv /\ [Next]_vars => PromotionInv'
<1> SUFFICES ASSUME PromotionInv, [Next]_vars PROVE PromotionInv'
  OBVIOUS
<1>0. TypeInv'
  BY NextTypeInv DEF PromotionInv
<1>1. ASSUME Next, NEW selection \in SUBSET Tables, NEW validateOnly \in BOOLEAN,
             Plan(selection, validateOnly)
      PROVE PromotionInv'
  <2>1. CASE UNCHANGED items
    BY <1>0, <1>1, <2>1, QuietStep DEF Plan, tree
  <2>2. CASE ~UNCHANGED items
    <3>1. Accepted(selection, validateOnly) /\ validateOnly = FALSE
      BY <1>1, <2>2 DEF Plan
    <3>2. UNCHANGED <<candidates, reviews, setByHand, shown, approvals>>
      BY <1>1 DEF Plan, tree
    <3>3. ASSUME NEW t \in Tables, items'[t].state = "promoted"
          PROVE  Earned(t, items'[t])
      <4>1. t \in Chosen(selection) \ pending'
        BY <1>1, <2>2, <3>1, <3>3 DEF Plan, NoFile
      <4>2. Kept(t, FALSE) \/ Promotable(t)
        BY <1>1, <2>2, <3>1, <4>1 DEF Plan, Accepted
      <4>3. items'[t] = IF Promotable(t) THEN Promotion(candidates[t]) ELSE candidates[t]
        BY <1>1, <2>2, <3>1, <4>1 DEF Plan
      <4>. QED
        BY <3>3, <4>2, <4>3, PlanEarns
    <3>4. PlannedPromotionsEarned'
      BY <3>2, <3>3 DEF PlannedPromotionsEarned, Earned, Approved
    <3>5. FilesWereShown' /\ ApprovalsWereSaved' /\ WrittenPromotionsApproved'
      BY <3>2 DEF PromotionInv, FilesWereShown, ApprovalsWereSaved,
         WrittenPromotionsApproved, Approved
    <3>. QED
      BY <1>0, <3>4, <3>5 DEF PromotionInv
  <2>. QED
    BY <2>1, <2>2
<1>2. CASE Next /\ Generate
  <2>1. \A t \in Tables : items'[t] = items[t] \/ items'[t].state = "review"
    BY <1>2 DEF Generate, NewCandidate
  <2>. QED
    BY <1>0, <1>2, <2>1, QuietStep DEF Generate, tree
<1>3. CASE Next /\ (GenerationFails \/ Interrupt)
  BY <1>0, <1>3, QuietStep DEF GenerationFails, Interrupt, End, NoItems, NoFile, tree
<1>4. ASSUME Next, NEW t \in Tables, WriteCandidate(t)
      PROVE PromotionInv'
  <2>1. items[t] \in Candidate
    BY <1>4 DEF WriteCandidate, PromotionInv, TypeInv, TypeOK
  <2>2. candidates' = [candidates EXCEPT ![t] = items[t]]
    BY <1>4 DEF WriteCandidate
  <2>3. Evidence(items[t]) \in shown'[t]
    <3>1. CASE items[t].state = "review"
      BY <1>4, <3>1 DEF WriteCandidate, PromotionInv, TypeInv, TypeOK
    <3>2. CASE items[t].state = "promoted"
      BY <1>4, <3>2 DEF WriteCandidate, PromotionInv, PlannedPromotionsEarned, Earned
    <3>. QED
      BY <2>1, <3>1, <3>2, CandidateTyped
  <2>4. FilesWereShown'
    BY <1>4, <2>2, <2>3, HistoryGrows DEF PromotionInv, TypeInv, TypeOK, FilesWereShown
  <2>5. ApprovalsWereSaved' /\ PlannedPromotionsEarned'
    BY <1>4, EarnedStays DEF WriteCandidate, PromotionInv, ApprovalsWereSaved, Approved,
       PlannedPromotionsEarned
  <2>6. WrittenPromotionsApproved'
    <3>1. ASSUME NEW u \in Tables \ setByHand', candidates'[u].state = "promoted"
          PROVE  candidates'[u].fingerprint.content \in approvals[u]
      <4>1. CASE u = t
        BY <1>4, <2>2, <3>1, <4>1 DEF PromotionInv, TypeInv, TypeOK, PlannedPromotionsEarned,
           Earned, Approved
      <4>2. CASE u # t
        BY <1>4, <2>2, <3>1, <4>2 DEF WriteCandidate, PromotionInv, TypeInv, TypeOK,
           WrittenPromotionsApproved, Approved
      <4>. QED
        BY <4>1, <4>2
    <3>. QED
      BY <1>4, <3>1, HistoryGrows DEF WriteCandidate, WrittenPromotionsApproved, Approved
  <2>. QED
    BY <1>0, <2>4, <2>5, <2>6 DEF PromotionInv
<1>5. ASSUME Next, NEW t \in Tables, WriteMarkdown(t)
      PROVE PromotionInv'
  <2>1. \A u \in Tables : items'[u] = items[u] \/ items'[u].state # "promoted"
    BY <1>5 DEF WriteMarkdown, End, NoItems, NoFile, PromotionInv, TypeInv, TypeOK
  <2>. QED
    BY <1>0, <1>5, <2>1, QuietStep DEF WriteMarkdown
<1>6. ASSUME Next, NEW t \in Tables, NEW review \in Review, SaveReview(t, review)
      PROVE PromotionInv'
  <2>1. UNCHANGED <<candidates, items, setByHand, shown>>
    BY <1>6 DEF SaveReview, Edit
  <2>2. ApprovalsWereSaved'
    <3>1. ASSUME NEW u \in Tables, reviews'[u].state = "approved"
          PROVE  Approved(u, reviews[u].content)'
      <4>1. CASE u = t
        <5>1. review.state = "approved" /\ reviews'[u] = review
          BY <1>6, <3>1, <4>1 DEF SaveReview, PromotionInv, TypeInv, TypeOK
        <5>2. review.content \in approvals'[t]
          BY <1>6, <5>1 DEF SaveReview, PromotionInv, TypeInv, TypeOK
        <5>. QED
          BY <4>1, <5>1, <5>2 DEF Approved
      <4>2. CASE u # t
        BY <1>6, <3>1, <4>2 DEF SaveReview, PromotionInv, TypeInv, TypeOK, Approved,
           ApprovalsWereSaved
      <4>. QED
        BY <4>1, <4>2
    <3>. QED
      BY <3>1 DEF ApprovalsWereSaved
  <2>3. FilesWereShown' /\ PlannedPromotionsEarned' /\ WrittenPromotionsApproved'
    BY <1>6, <2>1, HistoryGrows DEF PromotionInv, FilesWereShown, PlannedPromotionsEarned,
       WrittenPromotionsApproved, Earned, Approved
  <2>. QED
    BY <1>0, <2>2, <2>3 DEF PromotionInv
<1>7. ASSUME Next, NEW t \in Tables, DropTable(t)
      PROVE PromotionInv'
  <2>1. \A u \in Tables : reviews'[u] = reviews[u] \/ reviews'[u].state # "approved"
    BY <1>7 DEF DropTable, NoFile, PromotionInv, TypeInv, TypeOK
  <2>. QED
    BY <1>0, <1>7, <2>1, QuietStep DEF DropTable, Edit
<1>8. ASSUME Next, \/ \E i \in Inputs : ChangeInputs(i)
                   \/ \E m \in Identities : ChangeIdentity(m)
                   \/ \E t \in Tables : DamageMarkdown(t)
      PROVE PromotionInv'
  <2>1. UNCHANGED <<reviews, candidates, items, setByHand>>
    BY <1>8 DEF ChangeInputs, ChangeIdentity, DamageMarkdown, Edit
  <2>. QED
    BY <1>0, <1>8, <2>1, QuietStep
<1>9. ASSUME Next, NEW t \in Tables, NEW file \in CandidateFile, DamageCandidate(t, file)
      PROVE PromotionInv'
  <2>1. UNCHANGED <<reviews, items, shown, approvals>>
    BY <1>9 DEF DamageCandidate, Edit
  <2>2. candidates' = [candidates EXCEPT ![t] = file] /\ Readable(candidates[t])
    BY <1>9 DEF DamageCandidate
  <2>3. \/ ~Readable(file) /\ UNCHANGED setByHand
        \/ /\ Evidence(file) = Evidence(candidates[t])
           /\ \/ /\ file.state = candidates[t].state
                 /\ file.fingerprint = candidates[t].fingerprint
                 /\ UNCHANGED setByHand
              \/ setByHand' = setByHand \union {t}
    <3>1. candidates[t] \in Candidate
      BY <2>2, ReadableIsCandidate DEF PromotionInv, TypeInv, TypeOK
    <3>2. CASE file = Unreadable /\ UNCHANGED setByHand
      BY <3>2 DEF Unreadable, Readable
    <3>3. ASSUME NEW b \in Bodies, file = [candidates[t] EXCEPT !.body = b]
          PROVE  Evidence(file) = Evidence(candidates[t]) /\ file.state = candidates[t].state
                 /\ file.fingerprint = candidates[t].fingerprint
      BY <3>1, <3>3 DEF Candidate, Evidence
    <3>4. Evidence(Restated(candidates[t])) = Evidence(candidates[t])
      BY <3>1 DEF Candidate, Evidence, Restated
    <3>. QED
      BY <1>9, <3>2, <3>3, <3>4 DEF DamageCandidate
  <2>4. FilesWereShown'
    BY <2>1, <2>2, <2>3 DEF PromotionInv, TypeInv, TypeOK, FilesWereShown
  <2>5. WrittenPromotionsApproved'
    BY <2>1, <2>2, <2>3 DEF PromotionInv, TypeInv, TypeOK, WrittenPromotionsApproved,
       Approved, Readable
  <2>6. ApprovalsWereSaved' /\ PlannedPromotionsEarned'
    BY <2>1 DEF PromotionInv, ApprovalsWereSaved, PlannedPromotionsEarned, Earned, Approved
  <2>. QED
    BY <1>0, <2>4, <2>5, <2>6 DEF PromotionInv
<1>10. CASE UNCHANGED vars
  <2>1. UNCHANGED <<reviews, candidates, items, setByHand, shown, approvals>>
    BY <1>10 DEF vars, tree, command
  <2>2. FilesWereShown' /\ ApprovalsWereSaved' /\ PlannedPromotionsEarned'
    BY <2>1 DEF PromotionInv, FilesWereShown, ApprovalsWereSaved, PlannedPromotionsEarned,
       Earned, Approved
  <2>3. WrittenPromotionsApproved'
    BY <2>1 DEF PromotionInv, WrittenPromotionsApproved, Approved
  <2>. QED
    BY <1>0, <2>2, <2>3 DEF PromotionInv
<1>11. CASE Next /\ Sync
  BY <1>1, <1>2, <1>3, <1>4, <1>5, <1>11 DEF Sync
<1>12. CASE Next /\ People
  BY <1>6, <1>7, <1>8, <1>9, <1>12 DEF People
<1>. QED
  BY <1>10, <1>11, <1>12 DEF Next

(* What the hashes seal is what was shown. *)
LEMMA ReviewedInv == PromotionInv => PromotedWasReviewed
<1> SUFFICES ASSUME PromotionInv, NEW t \in Tables,
                    candidates[t].state = "promoted", Intact(candidates[t])
             PROVE  /\ <<candidates[t].fingerprint, candidates[t].body>> \in shown[t]
                    /\ t \notin setByHand => candidates[t].fingerprint.content \in approvals[t]
  BY DEF PromotedWasReviewed
<1>1. Evidence(candidates[t]) \in shown[t]
  BY DEF PromotionInv, FilesWereShown, Readable
<1>2. t \notin setByHand => candidates[t].fingerprint.content \in approvals[t]
  BY DEF PromotionInv, WrittenPromotionsApproved, Approved
<1>. QED
  BY <1>1, <1>2 DEF Evidence, Intact

(* README: promotion "changes only approval metadata".  However runs,          *)
(* interruptions, hand edits and saves interleave, the document of a promoted   *)
(* candidate whose hashes match has been on disk as a REVIEW candidate; and its *)
(* content was approved, unless a hand edit outside the hashes set its status   *)
(* and no run has written it since: no run makes such a status its own.         *)
THEOREM NoPromotionWithoutReview == Spec => []PromotedWasReviewed
<1>1. Init => PromotionInv
  BY InitPromotionInv
<1>2. PromotionInv /\ [Next]_vars => PromotionInv'
  BY NextPromotionInv
<1>3. PromotionInv => PromotedWasReviewed
  BY ReviewedInv
<1>. QED
  BY <1>1, <1>2, <1>3, PTL DEF Spec

-----------------------------------------------------------------------------
(* A sync that nobody disturbs is complete.  While it runs, every table it    *)
(* covers is still to be generated, or has an item that a later run would     *)
(* keep, or has been written as such a run would find it.                     *)

\* c is what a run keeps for t.
Fresh(t, c) ==
    /\ Readable(c) /\ Intact(c)
    /\ c.fingerprint.content = reviews[t].content
    /\ c.fingerprint.inputs = inputs
    /\ \/ reviews[t].state = "approved" /\ c.state = "promoted"
       \/ /\ reviews[t].state = "needs_review"
          /\ c.state = "review"
          /\ c.fingerprint.identity = identity

Written(t) == Fresh(t, candidates[t]) /\ markdown[t] = Render(candidates[t])

OnItsWay(t) ==
    /\ items[t] # NoFile => Fresh(t, items[t])
    /\ items[t] = NoFile => (phase = "planned" /\ t \in pending) \/ Written(t)
    /\ t \in half => candidates[t] = items[t]

WorkInv ==
    phase # "idle" => outcome = "none" /\ (~disturbed => \A t \in chosen : OnItsWay(t))

ValidatedInv ==
    outcome = "validated" => \A t \in chosen : Kept(t, TRUE) \/ Promotable(t)

SyncInv == TypeInv /\ WorkInv /\ RerunIsUnchanged /\ ValidatedInv

(* Fresh is what Kept means for the candidate on disk. *)
LEMMA KeptIsFresh ==
    ASSUME NEW t
    PROVE  Kept(t, FALSE) <=> Fresh(t, candidates[t])
BY DEF Kept, Fresh, ValidCandidate, Current

(* What is promoted is kept by the next run. *)
LEMMA PromotionIsFresh ==
    ASSUME TypeOK, NEW t \in Tables, Promotable(t)
    PROVE  Fresh(t, Promotion(candidates[t]))
<1>1. candidates[t] \in Candidate
  BY PlannedItem
<1>2. /\ Promotion(candidates[t]).state = "promoted"
      /\ Promotion(candidates[t]).fingerprint = candidates[t].fingerprint
      /\ Promotion(candidates[t]).body = candidates[t].body
      /\ Promotion(candidates[t]).sealed = candidates[t].sealed
  BY <1>1 DEF Promotion, Candidate
<1>. QED
  BY <1>2 DEF Promotable, ValidCandidate, Current, Fresh, Intact, Readable

(* What is generated from a review that is not approved is kept by the next run. *)
LEMMA NewCandidateIsFresh ==
    ASSUME NEW t, NEW body, reviews[t].state = "needs_review"
    PROVE  Fresh(t, NewCandidate(t, body)) /\ NewCandidate(t, body) # NoFile
BY DEF NewCandidate, Fresh, Intact, Readable, NoFile

(* Edits make the running command disturbed and the last report void. *)
LEMMA EditKeepsSyncInv ==
    ASSUME SyncInv, TypeInv', Edit
    PROVE  SyncInv'
BY DEF Edit, Report, SyncInv, WorkInv, RerunIsUnchanged, ValidatedInv

(* So does a run that fails. *)
LEMMA FailureKeepsSyncInv ==
    ASSUME SyncInv, TypeInv', End("failed")
    PROVE  SyncInv'
BY DEF End, Report, SyncInv, WorkInv, RerunIsUnchanged, ValidatedInv

(* A plan that is accepted puts every chosen table on its way. *)
LEMMA PlanKeepsSyncInv ==
    ASSUME SyncInv, TypeInv', NEW selection \in SUBSET Tables, NEW validateOnly \in BOOLEAN,
           Plan(selection, validateOnly)
    PROVE  SyncInv'
<1>1. TypeOK /\ phase = "idle" /\ half = {} /\ UNCHANGED <<tree, half>>
  BY DEF SyncInv, TypeInv, HalfWritten, Plan
<1>2. Chosen(selection) \subseteq Tables
  BY DEF Chosen, Reviewed
<1>3. CASE ~Accepted(selection, validateOnly)
  BY <1>1, <1>3 DEF Plan, Report, SyncInv, WorkInv, RerunIsUnchanged, ValidatedInv
<1>4. CASE Accepted(selection, validateOnly) /\ validateOnly = TRUE
  <2>1. \A t \in Chosen(selection) : Kept(t, TRUE) \/ Promotable(t)
    BY <1>4 DEF Accepted
  <2>2. outcome' = "validated" /\ chosen' = Chosen(selection) /\ phase' = "idle"
    BY <1>1, <1>4 DEF Plan, Report
  <2>3. ValidatedInv'
    BY <1>1, <2>1, <2>2
    DEF ValidatedInv, Kept, Promotable, ValidCandidate, Current, tree
  <2>. QED
    BY <2>2, <2>3 DEF SyncInv, WorkInv, RerunIsUnchanged
<1>5. CASE Accepted(selection, validateOnly) /\ validateOnly = FALSE
  <2>1. /\ outcome' = "none" /\ chosen' = Chosen(selection)
        /\ pending' = {t \in Chosen(selection) : Regenerable(t, FALSE)}
        /\ items' = [t \in Tables |->
                        IF t \notin Chosen(selection) \ pending' THEN NoFile
                        ELSE IF Promotable(t) THEN Promotion(candidates[t])
                        ELSE candidates[t]]
        /\ phase' = IF pending' = {} THEN "writing" ELSE "planned"
    BY <1>5 DEF Plan, Report
  <2>2. ASSUME NEW t \in Chosen(selection) PROVE OnItsWay(t)'
    <3>1. t \in Tables /\ t \notin half'
      BY <1>1, <1>2
    <3>2. CASE t \in pending'
      BY <2>1, <3>1, <3>2 DEF OnItsWay
    <3>3. CASE t \notin pending'
      <4>1. Kept(t, FALSE) \/ Promotable(t)
        BY <1>5, <2>1, <3>3 DEF Accepted
      <4>2. items'[t] = IF Promotable(t) THEN Promotion(candidates[t]) ELSE candidates[t]
        BY <2>1, <2>2, <3>1, <3>3
      <4>3. candidates[t] \in Candidate
        BY <1>1, <3>1, <4>1, PlannedItem
      <4>4. items'[t] # NoFile
        BY <4>2, <4>3, CandidateTyped
      <4>5. Fresh(t, items'[t])
        BY <1>1, <3>1, <4>1, <4>2, PromotionIsFresh, KeptIsFresh
      <4>6. Fresh(t, items[t])'
        BY <1>1, <4>5 DEF Fresh, tree
      <4>. QED
        BY <3>1, <4>4, <4>6 DEF OnItsWay
    <3>. QED
      BY <3>2, <3>3
  <2>. QED
    BY <2>1, <2>2 DEF SyncInv, WorkInv, RerunIsUnchanged, ValidatedInv
<1>. QED
  BY <1>3, <1>4, <1>5

(* Generation puts what was pending among the items. *)
LEMMA GenerateKeepsSyncInv ==
    ASSUME SyncInv, TypeInv', Generate
    PROVE  SyncInv'
<1>1. /\ phase = "planned" /\ outcome' = "none" /\ half = {} /\ TypeOK
      /\ UNCHANGED <<tree, chosen, half, disturbed>>
  BY DEF Generate, SyncInv, WorkInv, TypeInv, HalfWritten
<1>2. PICK answer \in [pending -> Bodies] :
         items' = [t \in Tables |->
                     IF t \in pending THEN NewCandidate(t, answer[t]) ELSE items[t]]
  BY DEF Generate
<1>3. ASSUME ~disturbed, NEW t \in chosen PROVE OnItsWay(t)'
  <2>1. OnItsWay(t) /\ t \in Tables
    BY <1>1, <1>3 DEF SyncInv, WorkInv, TypeOK
  <2>2. CASE t \in pending
    <3>1. items'[t] = NewCandidate(t, answer[t]) /\ reviews[t].state = "needs_review"
      BY <1>2, <2>1, <2>2 DEF Generate
    <3>2. Fresh(t, items'[t]) /\ items'[t] # NoFile
      BY <3>1, NewCandidateIsFresh
    <3>3. Fresh(t, items[t])'
      BY <1>1, <3>2 DEF Fresh, tree
    <3>. QED
      BY <1>1, <3>2, <3>3 DEF OnItsWay
  <2>3. CASE t \notin pending
    <3>1. items'[t] = items[t]
      BY <1>2, <2>1, <2>3
    <3>. QED
      BY <1>1, <2>1, <2>3, <3>1 DEF OnItsWay, Written, Fresh, tree
  <2>. QED
    BY <2>2, <2>3
<1>. QED
  BY <1>1, <1>3 DEF SyncInv, WorkInv, RerunIsUnchanged, ValidatedInv

(* A candidate is written as its item. *)
LEMMA WriteCandidateKeepsSyncInv ==
    ASSUME SyncInv, TypeInv', NEW u \in Tables, WriteCandidate(u)
    PROVE  SyncInv'
<1>1. /\ phase = "writing" /\ phase' = "writing" /\ outcome' = "none" /\ half = {} /\ half' = {u}
      /\ items[u] # NoFile /\ TypeOK /\ candidates' = [candidates EXCEPT ![u] = items[u]]
      /\ UNCHANGED <<reviews, inputs, identity, markdown, chosen, items, disturbed>>
  BY DEF WriteCandidate, SyncInv, WorkInv, TypeInv
<1>2. ASSUME ~disturbed, NEW t \in chosen PROVE OnItsWay(t)'
  <2>1. OnItsWay(t) /\ t \in Tables
    BY <1>1, <1>2 DEF SyncInv, WorkInv, TypeOK
  <2>2. CASE t = u
    <3>1. candidates'[t] = items[t]
      BY <1>1, <2>1, <2>2 DEF TypeOK
    <3>. QED
      BY <1>1, <2>1, <2>2, <3>1 DEF OnItsWay, Fresh
  <2>3. CASE t # u
    <3>1. candidates'[t] = candidates[t]
      BY <1>1, <2>1, <2>3 DEF TypeOK
    <3>. QED
      BY <1>1, <2>1, <2>3, <3>1 DEF OnItsWay, Written, Fresh
  <2>. QED
    BY <2>2, <2>3
<1>. QED
  BY <1>1, <1>2 DEF SyncInv, WorkInv, RerunIsUnchanged, ValidatedInv

(* The Markdown follows, and with the last one the run is complete. *)
LEMMA WriteMarkdownKeepsSyncInv ==
    ASSUME SyncInv, TypeInv', NEW u \in Tables, WriteMarkdown(u)
    PROVE  SyncInv'
<1>1. /\ phase = "writing" /\ outcome = "none" /\ u \in half /\ TypeOK
      /\ markdown' = [markdown EXCEPT ![u] = Render(items[u])]
      /\ UNCHANGED <<reviews, inputs, identity, candidates>>
  BY DEF WriteMarkdown, SyncInv, WorkInv, TypeInv
<1>2. items[u] # NoFile
  BY <1>1 DEF SyncInv, TypeInv, HalfWritten
<1>3. ASSUME ~disturbed, NEW t \in chosen, t = u \/ items[t] = NoFile
      PROVE  Written(t)'
  <2>1. OnItsWay(t) /\ t \in Tables
    BY <1>1, <1>3 DEF SyncInv, WorkInv, TypeOK
  <2>2. CASE t = u
    <3>1. candidates[t] = items[t] /\ Fresh(t, items[t])
      BY <1>1, <1>2, <2>1, <2>2 DEF OnItsWay
    <3>2. markdown'[t] = Render(candidates[t])
      BY <1>1, <2>1, <2>2, <3>1 DEF TypeOK
    <3>. QED
      BY <1>1, <3>1, <3>2 DEF Written, Fresh
  <2>3. CASE t # u
    <3>1. Written(t)
      BY <1>1, <1>3, <2>1, <2>3 DEF OnItsWay
    <3>2. markdown'[t] = markdown[t]
      BY <1>1, <2>1, <2>3 DEF TypeOK
    <3>. QED
      BY <1>1, <3>1, <3>2 DEF Written, Fresh
  <2>. QED
    BY <2>2, <2>3
<1>4. CASE [items EXCEPT ![u] = NoFile] = NoItems
  <2>1. End("synced")
    BY <1>4 DEF WriteMarkdown
  <2>2. ASSUME ~disturbed PROVE RerunIsUnchanged'
    <3>1. \A t \in Tables : t # u => items[t] = NoFile
      BY <1>1, <1>4 DEF TypeOK, NoItems
    <3>2. chosen \subseteq Tables /\ chosen' = chosen
      BY <1>1, <2>1, <2>2 DEF TypeOK, End, Report
    <3>3. \A t \in chosen : Written(t)'
      BY <1>3, <2>2, <3>1, <3>2
    <3>4. \A t \in chosen : Kept(t, FALSE)' /\ markdown'[t] = Render(candidates[t])'
      BY <3>3 DEF Written, Fresh, Kept, ValidCandidate, Current
    <3>. QED
      BY <3>2, <3>4 DEF RerunIsUnchanged
  <2>3. ASSUME disturbed PROVE RerunIsUnchanged'
    BY <2>1, <2>3 DEF End, Report, RerunIsUnchanged
  <2>. QED
    BY <2>1, <2>2, <2>3 DEF SyncInv, WorkInv, ValidatedInv, End, Report
<1>5. CASE [items EXCEPT ![u] = NoFile] # NoItems
  <2>1. /\ items' = [items EXCEPT ![u] = NoFile] /\ half' = {}
        /\ UNCHANGED <<phase, chosen, pending, outcome, disturbed>>
    BY <1>5 DEF WriteMarkdown
  <2>2. ASSUME ~disturbed, NEW t \in chosen PROVE OnItsWay(t)'
    <3>1. OnItsWay(t) /\ t \in Tables
      BY <1>1, <2>2 DEF SyncInv, WorkInv, TypeOK
    <3>2. CASE t = u \/ items[t] = NoFile
      <4>1. items'[t] = NoFile
        BY <1>1, <2>1, <3>1, <3>2 DEF TypeOK
      <4>2. Written(t)'
        BY <1>3, <2>2, <3>2
      <4>. QED
        BY <2>1, <4>1, <4>2 DEF OnItsWay
    <3>3. CASE t # u /\ items[t] # NoFile
      <4>1. items'[t] = items[t]
        BY <1>1, <2>1, <3>1, <3>3 DEF TypeOK
      <4>. QED
        BY <1>1, <2>1, <3>1, <3>3, <4>1 DEF OnItsWay, Fresh
    <3>. QED
      BY <3>2, <3>3
  <2>. QED
    BY <1>1, <2>1, <2>2 DEF SyncInv, WorkInv, RerunIsUnchanged, ValidatedInv
<1>. QED
  BY <1>4, <1>5

LEMMA NextSyncInv == SyncInv /\ [Next]_vars => SyncInv'
<1> SUFFICES ASSUME SyncInv, [Next]_vars PROVE SyncInv'
  OBVIOUS
<1>0. TypeInv'
  BY NextTypeInv DEF SyncInv
<1>1. CASE Sync
  BY <1>0, <1>1, PlanKeepsSyncInv, GenerateKeepsSyncInv, WriteCandidateKeepsSyncInv,
     WriteMarkdownKeepsSyncInv, FailureKeepsSyncInv
  DEF Sync, GenerationFails, Interrupt
<1>2. CASE People
  <2>1. Edit
    BY <1>2
    DEF People, SaveReview, DropTable, ChangeInputs, ChangeIdentity, DamageCandidate, DamageMarkdown
  <2>. QED
    BY <1>0, <2>1, EditKeepsSyncInv
<1>3. CASE UNCHANGED vars
  <2>1. UNCHANGED <<reviews, inputs, identity, candidates, markdown, phase, chosen, items,
                    pending, half, outcome, disturbed>>
    BY <1>3 DEF vars, tree, command
  <2>2. WorkInv'
    BY <2>1 DEF SyncInv, WorkInv, OnItsWay, Written, Fresh
  <2>3. RerunIsUnchanged' /\ ValidatedInv'
    BY <2>1 DEF SyncInv, RerunIsUnchanged, ValidatedInv, Kept, Promotable, ValidCandidate, Current
  <2>. QED
    BY <1>0, <2>2, <2>3 DEF SyncInv
<1>. QED
  BY <1>1, <1>2, <1>3 DEF Next

LEMMA InitSyncInv == Init => SyncInv
BY InitTypeInv DEF Init, SyncInv, WorkInv, RerunIsUnchanged, ValidatedInv

LEMMA SyncInvariant == Spec => []SyncInv
BY InitSyncInv, NextSyncInv, PTL DEF Spec

(* After a sync that nobody disturbed the next run keeps everything, whatever *)
(* earlier runs left half-written, for any number of tables.                  *)
THEOREM SyncIsComplete == Spec => []RerunIsUnchanged
<1>1. SyncInv => RerunIsUnchanged
  BY DEF SyncInv
<1>. QED
  BY <1>1, SyncInvariant, PTL

(* A passed sync has kept what is promoted, a passed validation has found it so. *)
LEMMA PassedIsApproved == SyncInv => IndexedIsApproved
<1> SUFFICES ASSUME SyncInv, outcome \in {"validated", "synced"},
                    NEW t \in chosen, candidates[t].state = "promoted"
             PROVE  reviews[t].state = "approved" /\ ValidCandidate(t)
  BY DEF IndexedIsApproved, Indexed
<1>1. CASE outcome = "synced"
  BY <1>1 DEF SyncInv, RerunIsUnchanged, Kept
<1>2. CASE outcome = "validated"
  BY <1>2 DEF SyncInv, ValidatedInv, Kept, Promotable
<1>. QED
  BY <1>1, <1>2

(* What passes the sync or the validate-only gate is indexed only approved    *)
(* and as generated from its YAML and from today's contract.                  *)
THEOREM GateProtectsIndex == Spec => []IndexedIsApproved
BY PassedIsApproved, SyncInvariant, PTL
=============================================================================
