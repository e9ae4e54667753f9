-------------------------- MODULE SchemaSyncProofs --------------------------
(* Proofs about the schema synchronization, for all databases and versions. *)
EXTENDS SchemaSync, TLAPS

ReviewFile == Review \union {NoReview}

(* A review file with a draft in it is one, the other kind has no draft. *)
LEMMA ReviewKinds ==
    ASSUME NEW r \in ReviewFile
    PROVE  /\ r # NoReview <=> r \in Review
           /\ r # NoReview => /\ r.mark \in Mark
                              /\ r.mark.hash \in Versions
                              /\ r.text \in Texts \union {Drafted}
BY DEF ReviewFile, Review, NoReview, Mark

(* A refreshed draft follows its schema, and is approved only if it was. *)
LEMMA RefreshedFollows ==
    ASSUME NEW r \in ReviewFile, NEW v \in Versions \union {Absent}
    PROVE  /\ Refreshed(r, v) \in ReviewFile
           /\ v # Absent => Refreshed(r, v) # NoReview /\ Refreshed(r, v).mark.hash = v
           /\ Refreshed(r, v) = r \/ Refreshed(r, v).mark.status = "needs_review"
<1>1. CASE v = Absent
  BY <1>1 DEF Refreshed
<1>2. CASE v # Absent /\ r = NoReview
  BY <1>2 DEF Refreshed, NewReview, ReviewFile, Review, Mark, NoReview
<1>3. CASE v # Absent /\ r # NoReview /\ r.mark.hash = v
  BY <1>3 DEF Refreshed
<1>4. CASE v # Absent /\ r # NoReview /\ r.mark.hash # v
  <2>1. Refreshed(r, v) = [r EXCEPT !.mark = [status |-> "needs_review", hash |-> v]]
    BY <1>4 DEF Refreshed
  <2>2. r \in Review
    BY <1>4, ReviewKinds
  <2>. QED
    BY <1>4, <2>1, <2>2 DEF ReviewFile, Review, Mark, NoReview
<1>. QED
  BY <1>1, <1>2, <1>3, <1>4

(* A merged review is a review, and its mark is that of one of the three. *)
LEMMA MergedReviewTyped ==
    ASSUME NEW b \in ReviewFile, NEW x \in ReviewFile, NEW y \in ReviewFile
    PROVE  /\ MergedReview(b, x, y) \in ReviewFile
           /\ MergedReview(b, x, y) # NoReview =>
                 \E r \in {x, y} : r # NoReview /\ MergedReview(b, x, y).mark = r.mark
<1>1. CASE NoReview \in {b, x, y}
  BY <1>1 DEF MergedReview, Hunk
<1>2. CASE NoReview \notin {b, x, y}
  <2>1. MergedReview(b, x, y) =
           [mark |-> Hunk(b.mark, x.mark, y.mark), text |-> Hunk(b.text, x.text, y.text)]
    BY <1>2 DEF MergedReview
  <2>2. Hunk(b.mark, x.mark, y.mark) \in {x.mark, y.mark}
    BY DEF Hunk
  <2>3. Hunk(b.text, x.text, y.text) \in {x.text, y.text}
    BY DEF Hunk
  <2>4. x \in Review /\ y \in Review
    BY <1>2, ReviewKinds
  <2>5. MergedReview(b, x, y) \in Review
    BY <2>1, <2>2, <2>3, <2>4 DEF Review
  <2>. QED
    BY <1>2, <2>1, <2>2, <2>5 DEF ReviewFile
<1>. QED
  BY <1>1, <1>2

Follows(schema, r) == schema # Absent => r # NoReview /\ r.mark.hash = schema
Owned(schema, r) == schema = Absent => r = NoReview

(* Merging one table of which both sides and their base are as the gate wants *)
(* them gives one the gate accepts: status and hash are one hunk.              *)
LEMMA MergedFollows ==
    ASSUME NEW b, NEW x, NEW y,
           NEW rb \in ReviewFile, NEW rx \in ReviewFile, NEW ry \in ReviewFile,
           Follows(b, rb), Follows(x, rx), Follows(y, ry),
           Owned(b, rb), Owned(y, ry),
           ~Clash(b, x, y), ~ReviewsClash(rb, rx, ry)
    PROVE  /\ Follows(Hunk(b, x, y), MergedReview(rb, rx, ry))
           /\ Owned(x, rx) => Owned(Hunk(b, x, y), MergedReview(rb, rx, ry))
<1>1. CASE NoReview \in {rb, rx, ry}
  BY <1>1 DEF MergedReview, ReviewsClash, Hunk, Clash, Follows, Owned
<1>2. CASE NoReview \notin {rb, rx, ry}
  <2>1. MergedReview(rb, rx, ry).mark = Hunk(rb.mark, rx.mark, ry.mark)
    BY <1>2 DEF MergedReview
  <2>2. MergedReview(rb, rx, ry) # NoReview
    BY <1>2 DEF MergedReview, NoReview
  <2>3. ~Clash(rb.mark, rx.mark, ry.mark)
    BY <1>2 DEF ReviewsClash
  <2>4. b # Absent /\ y # Absent
    BY <1>2 DEF Owned
  <2>5. CASE x # Absent
    <3>1. rb.mark.hash = b /\ rx.mark.hash = x /\ ry.mark.hash = y
      BY <2>4, <2>5 DEF Follows
    <3>2. Hunk(b, x, y) = Hunk(rb.mark, rx.mark, ry.mark).hash
      BY <3>1, <2>3 DEF Hunk, Clash
    <3>3. Hunk(b, x, y) # Absent
      BY <2>4, <2>5 DEF Hunk
    <3>. QED
      BY <2>1, <2>2, <3>2, <3>3 DEF Follows, Owned
  <2>6. CASE x = Absent
    <3>1. Hunk(b, x, y) = Absent
      BY <2>4, <2>6 DEF Hunk
    <3>. QED
      BY <1>2, <2>6, <3>1 DEF Follows, Owned
  <2>. QED
    BY <2>5, <2>6
<1>. QED
  BY <1>1, <1>2

-----------------------------------------------------------------------------
(* Types.                                                                   *)

(* Merging main into the branch gives a tree. *)
LEMMA MergedTyped ==
    ASSUME TypeOK
    PROVE  /\ Merged \in Tree
           /\ \A t \in Tables :
                /\ Merged.raw[t] = Hunk(base.raw[t], branch.raw[t], main.raw[t])
                /\ Merged.reviews[t] =
                      MergedReview(base.reviews[t], branch.reviews[t], main.reviews[t])
<1>1. \A t \in Tables :
         Hunk(base.raw[t], branch.raw[t], main.raw[t]) \in Versions \union {Absent}
  BY DEF TypeOK, Tree, Schemas, Hunk
<1>2. \A t \in Tables :
         MergedReview(base.reviews[t], branch.reviews[t], main.reviews[t]) \in ReviewFile
  BY MergedReviewTyped DEF TypeOK, Tree, ReviewFile
<1>. QED
  BY <1>1, <1>2 DEF Merged, Tree, Schemas, ReviewFile

(* Synchronizing the checkout gives a tree. *)
LEMMA SynchronizedTyped ==
    ASSUME TypeOK
    PROVE  /\ Synchronized \in Tree
           /\ Synchronized.raw = staged
           /\ \A t \in Tables : Synchronized.reviews[t] =
                IF t \in UNION Changed THEN Refreshed(tree.reviews[t], staged[t])
                ELSE tree.reviews[t]
<1>1. \A t \in Tables : Refreshed(tree.reviews[t], staged[t]) \in ReviewFile
  BY RefreshedFollows DEF TypeOK, Tree, Schemas, ReviewFile
<1>. QED
  BY <1>1 DEF Synchronized, TypeOK, Tree, ReviewFile

(* Saving a review changes its status and words, not its hash, and nothing else. *)
LEMMA SavedTyped ==
    ASSUME NEW r \in Tree, NEW t \in Tables, r.reviews[t] # NoReview,
           NEW status \in {"needs_review", "approved"}, NEW text \in Texts \union {Drafted}
    PROVE  /\ Saved(r, t, status, text) \in Tree
           /\ Saved(r, t, status, text).raw = r.raw
           /\ \A u \in Tables : u # t =>
                 Saved(r, t, status, text).reviews[u] = r.reviews[u]
           /\ Saved(r, t, status, text).reviews[t] \in Review
           /\ Saved(r, t, status, text).reviews[t].mark =
                 [status |-> status, hash |-> r.reviews[t].mark.hash]
<1>1. r.reviews[t] \in Review
  BY ReviewKinds DEF Tree, ReviewFile
<1>2. [mark |-> [status |-> status, hash |-> r.reviews[t].mark.hash], text |-> text] \in Review
  BY <1>1 DEF Review, Mark
<1>. QED
  BY <1>1, <1>2 DEF Saved, Tree

Outcomes == {"none", "failed", "refused", "noop", "unsent", "published"}

RemoteTyped ==
    /\ live \in Schemas
    /\ main \in Tree /\ branch \in Tree /\ base \in Tree
    /\ open \in BOOLEAN

RunTyped ==
    /\ phase \in Phases
    /\ active \in BOOLEAN
    /\ seen \in Tree /\ tree \in Tree
    /\ unstaged \subseteq Databases
    /\ staged \in Schemas
    /\ outdated \in BOOLEAN
    /\ outcome \in Outcomes

HistoryTyped ==
    /\ approvals \in [Tables -> SUBSET Versions]
    /\ untold \in BOOLEAN
    /\ migrations \in Nat /\ saves \in Nat

(* The type invariant in three parts. *)
LEMMA TypeParts == TypeOK <=> RemoteTyped /\ RunTyped /\ HistoryTyped
BY DEF TypeOK, RemoteTyped, RunTyped, HistoryTyped, Outcomes

(* The initial state is well typed. *)
LEMMA InitTypeOK == Init => TypeOK
<1>. SUFFICES ASSUME Init PROVE TypeOK
  OBVIOUS
<1>1. \A t \in Tables : (IF live[t] = Absent THEN NoReview ELSE NewReview(live[t])) \in ReviewFile
  BY DEF Init, Schemas, NewReview, ReviewFile, Review, Mark
<1>2. main \in Tree
  BY <1>1 DEF Init, Tree, ReviewFile
<1>. QED
  BY <1>2 DEF Init, TypeOK, Phases

(* Ending a run leaves it well typed. *)
LEMMA EndTyped ==
    ASSUME TypeOK, NEW result \in Outcomes, End(result)
    PROVE  RunTyped'
BY DEF TypeOK, End, RunTyped, Phases, Tree

(* Every step of a run keeps the types. *)
LEMMA RunTypeOK == TypeOK /\ (Run \/ Fail) => TypeOK'
<1>. SUFFICES ASSUME TypeOK, Run \/ Fail PROVE TypeOK'
  OBVIOUS
<1>. USE DEF vars, remote, checkout, run, history
<1>1. CASE Checkout
  BY <1>1 DEF Checkout, TypeOK, Phases
<1>2. CASE Prepare
  <2>1. RunTyped'
    <3>1. CASE open /\ Conflict
      BY <1>2, <3>1, EndTyped DEF Prepare, Outcomes
    <3>2. CASE ~(open /\ Conflict)
      BY <1>2, <3>2, MergedTyped DEF Prepare, TypeOK, RunTyped, Phases, Outcomes
    <3>. QED
      BY <3>1, <3>2
  <2>2. RemoteTyped' /\ HistoryTyped'
    BY <1>2 DEF Prepare, TypeOK, RemoteTyped, HistoryTyped
  <2>. QED
    BY <2>1, <2>2 DEF TypeOK, RemoteTyped, RunTyped, HistoryTyped, Outcomes
<1>3. ASSUME NEW d \in Databases, Stage(d) PROVE TypeOK'
  BY <1>3 DEF Stage, TypeOK, Schemas
<1>4. CASE Synchronize
  <2>1. RunTyped'
    <3>1. CASE Changed = {}
      BY <1>4, <3>1, EndTyped DEF Synchronize, Outcomes
    <3>2. CASE Changed # {}
      BY <1>4, <3>2, SynchronizedTyped DEF Synchronize, TypeOK, RunTyped, Phases, Outcomes
    <3>. QED
      BY <3>1, <3>2
  <2>2. RemoteTyped' /\ HistoryTyped'
    BY <1>4 DEF Synchronize, TypeOK, RemoteTyped, HistoryTyped
  <2>. QED
    BY <2>1, <2>2 DEF TypeOK, RemoteTyped, RunTyped, HistoryTyped, Outcomes
<1>5. CASE Commit
  <2>1. RunTyped'
    <3>1. CASE tree.raw = seen.raw
      BY <1>5, <3>1, EndTyped DEF Commit, Outcomes
    <3>2. CASE tree.raw # seen.raw
      BY <1>5, <3>2 DEF Commit, TypeOK, RunTyped, Phases, Outcomes
    <3>. QED
      BY <3>1, <3>2
  <2>2. RemoteTyped' /\ HistoryTyped'
    BY <1>5 DEF Commit, TypeOK, RemoteTyped, HistoryTyped
  <2>. QED
    BY <2>1, <2>2 DEF TypeOK, RemoteTyped, RunTyped, HistoryTyped, Outcomes
<1>6. CASE Push
  <2>1. RunTyped'
    <3>1. CASE active /\ outdated
      BY <1>6, <3>1, EndTyped DEF Push, Outcomes
    <3>2. CASE ~(active /\ outdated)
      BY <1>6, <3>2 DEF Push, TypeOK, RunTyped, Phases, Outcomes
    <3>. QED
      BY <3>1, <3>2
  <2>2. RemoteTyped' /\ HistoryTyped'
    BY <1>6 DEF Push, TypeOK, RemoteTyped, HistoryTyped
  <2>. QED
    BY <2>1, <2>2 DEF TypeOK, RemoteTyped, RunTyped, HistoryTyped, Outcomes
<1>7. CASE Present
  BY <1>7 DEF Present, TypeOK, Phases
<1>8. CASE Notify
  <2>1. RunTyped'
    BY <1>8, EndTyped DEF Notify, Outcomes
  <2>2. RemoteTyped' /\ HistoryTyped'
    BY <1>8 DEF Notify, TypeOK, RemoteTyped, HistoryTyped
  <2>. QED
    BY <2>1, <2>2 DEF TypeOK, RemoteTyped, RunTyped, HistoryTyped, Outcomes
<1>9. CASE Fail
  <2>1. RunTyped'
    BY <1>9, EndTyped DEF Fail, Outcomes
  <2>2. RemoteTyped' /\ HistoryTyped'
    BY <1>9 DEF Fail, TypeOK, RemoteTyped, HistoryTyped
  <2>. QED
    BY <2>1, <2>2 DEF TypeOK, RemoteTyped, RunTyped, HistoryTyped, Outcomes
<1>. QED
  BY <1>1, <1>2, <1>3, <1>4, <1>5, <1>6, <1>7, <1>8, <1>9 DEF Run

(* Every step of a database or a person keeps the types. *)
LEMMA PeopleTypeOK ==
    ASSUME TypeOK,
           \/ \E t \in Tables, version \in Versions \union {Absent} : Migrate(t, version)
           \/ People
    PROVE  TypeOK'
<1>. USE DEF vars, remote, checkout, run, history
<1>1. ASSUME NEW t \in Tables, NEW version \in Versions \union {Absent}, Migrate(t, version)
      PROVE  TypeOK'
  BY <1>1 DEF Migrate, TypeOK, Schemas
<1>2. ASSUME NEW t \in Tables, NEW r \in Tree, r.reviews[t] # NoReview,
             NEW status \in {"needs_review", "approved"}, Approve(t, r, status)
      PROVE  approvals' \in [Tables -> SUBSET Versions]
  <2>1. r.reviews[t].mark.hash \in Versions
    BY <1>2, ReviewKinds DEF Tree, ReviewFile
  <2>. QED
    BY <1>2, <2>1 DEF Approve, TypeOK
<1>3. ASSUME NEW t \in Tables, NEW status \in {"needs_review", "approved"},
             NEW text \in Texts \union {Drafted}, SaveOnBranch(t, status, text)
      PROVE  TypeOK'
  <2>1. branch' \in Tree
    BY <1>3, SavedTyped DEF SaveOnBranch, TypeOK
  <2>2. approvals' \in [Tables -> SUBSET Versions]
    BY <1>2, <1>3 DEF SaveOnBranch, TypeOK
  <2>3. outdated' \in BOOLEAN
    BY <1>3 DEF SaveOnBranch
  <2>. QED
    BY <1>3, <2>1, <2>2, <2>3 DEF SaveOnBranch, TypeOK
<1>4. ASSUME NEW t \in Tables, NEW status \in {"needs_review", "approved"},
             NEW text \in Texts \union {Drafted}, SaveOnMain(t, status, text)
      PROVE  TypeOK'
  <2>1. main' \in Tree
    BY <1>4, SavedTyped DEF SaveOnMain, TypeOK
  <2>2. approvals' \in [Tables -> SUBSET Versions]
    BY <1>2, <1>4 DEF SaveOnMain, TypeOK
  <2>. QED
    BY <1>4, <2>1, <2>2 DEF SaveOnMain, TypeOK
<1>5. ASSUME NEW t \in Tables, RemoveOrphan(t) PROVE TypeOK'
  <2>1. branch' \in Tree
    BY <1>5 DEF RemoveOrphan, TypeOK, Tree
  <2>2. outdated' \in BOOLEAN
    BY <1>5 DEF RemoveOrphan
  <2>. QED
    BY <1>5, <2>1, <2>2 DEF RemoveOrphan, TypeOK
<1>6. CASE Resolve
  <2>1. branch' \in Tree
    <3>1. PICK side \in [Tables -> {"ours", "theirs"}] :
            branch' = [raw |-> Merged.raw,
                       reviews |-> [t \in Tables |->
                          IF ~ReviewsClash(base.reviews[t], branch.reviews[t], main.reviews[t])
                          THEN MergedReview(base.reviews[t], branch.reviews[t], main.reviews[t])
                          ELSE IF side[t] = "ours" THEN branch.reviews[t] ELSE main.reviews[t]]]
      BY <1>6 DEF Resolve
    <3>2. \A t \in Tables :
            MergedReview(base.reviews[t], branch.reviews[t], main.reviews[t]) \in ReviewFile
      BY MergedReviewTyped DEF TypeOK, Tree, ReviewFile
    <3>3. Merged.raw \in Schemas
      BY MergedTyped DEF Tree
    <3>. QED
      BY <3>1, <3>2, <3>3 DEF TypeOK, Tree, ReviewFile
  <2>2. outdated' \in BOOLEAN
    BY <1>6 DEF Resolve
  <2>. QED
    BY <1>6, <2>1, <2>2 DEF Resolve, TypeOK
<1>7. CASE Merge
  BY <1>7, MergedTyped DEF Merge, TypeOK
<1>8. CASE Close
  <2>1. RemoteTyped'
    BY <1>8 DEF Close, TypeOK, RemoteTyped
  <2>2. RunTyped'
    BY <1>8 DEF Close, TypeOK, RunTyped, Outcomes
  <2>3. HistoryTyped'
    BY <1>8 DEF Close, TypeOK, HistoryTyped
  <2>. QED
    BY <2>1, <2>2, <2>3 DEF TypeOK, RemoteTyped, RunTyped, HistoryTyped, Outcomes
<1>. QED
  BY <1>1, <1>3, <1>4, <1>5, <1>6, <1>7, <1>8 DEF People

(* Every step keeps the types. *)
LEMMA NextTypeOK == TypeOK /\ [Next]_vars => TypeOK'
<1>1. TypeOK /\ UNCHANGED vars => TypeOK'
  BY DEF vars, remote, checkout, run, history, TypeOK
<1>. QED
  BY <1>1, RunTypeOK, PeopleTypeOK DEF Next

(* Trees, schemas and the variables of the run are of their kinds, always. *)
THEOREM SchemaTypeCorrect == Spec => []TypeOK
BY InitTypeOK, NextTypeOK, PTL DEF Spec

-----------------------------------------------------------------------------
(* Drafts follow their schemas.  What a run takes from main is valid, what   *)
(* it works on has a draft of every schema, and so has what it pushes.       *)

DraftInv ==
    /\ TypeOK
    /\ Valid(main) /\ Valid(base) /\ Valid(seen)
    /\ Drafts(branch) /\ Drafts(tree)

(* The gate, table by table. *)
LEMMA ByTable ==
    ASSUME NEW r
    PROVE  /\ Drafts(r) <=> \A t \in Tables : Follows(r.raw[t], r.reviews[t])
           /\ Valid(r) <=> \A t \in Tables : Follows(r.raw[t], r.reviews[t])
                                           /\ Owned(r.raw[t], r.reviews[t])
BY DEF Drafts, Valid, Orphans, Follows, Owned

(* Merging main into the branch without a conflict keeps the drafts. *)
LEMMA MergedValid ==
    ASSUME DraftInv, ~Conflict
    PROVE  Drafts(Merged) /\ (Valid(branch) => Valid(Merged))
<1>1. ASSUME NEW t \in Tables
      PROVE  /\ Follows(Merged.raw[t], Merged.reviews[t])
             /\ Owned(branch.raw[t], branch.reviews[t]) =>
                   Owned(Merged.raw[t], Merged.reviews[t])
  <2>1. /\ base.reviews[t] \in ReviewFile
        /\ branch.reviews[t] \in ReviewFile
        /\ main.reviews[t] \in ReviewFile
    BY DEF DraftInv, TypeOK, Tree, ReviewFile
  <2>2. /\ Follows(base.raw[t], base.reviews[t]) /\ Owned(base.raw[t], base.reviews[t])
        /\ Follows(main.raw[t], main.reviews[t]) /\ Owned(main.raw[t], main.reviews[t])
        /\ Follows(branch.raw[t], branch.reviews[t])
    BY ByTable DEF DraftInv
  <2>3. /\ ~Clash(base.raw[t], branch.raw[t], main.raw[t])
        /\ ~ReviewsClash(base.reviews[t], branch.reviews[t], main.reviews[t])
    BY DEF Conflict
  <2>4. /\ Merged.raw[t] = Hunk(base.raw[t], branch.raw[t], main.raw[t])
        /\ Merged.reviews[t] =
              MergedReview(base.reviews[t], branch.reviews[t], main.reviews[t])
    BY MergedTyped DEF DraftInv
  <2>. QED
    BY <2>1, <2>2, <2>3, <2>4, MergedFollows
<1>. QED
  BY <1>1, ByTable

(* Publishing the staged databases keeps the drafts of those that did not     *)
(* change and refreshes those that did.                                       *)
LEMMA SynchronizedDrafts ==
    ASSUME DraftInv
    PROVE  Drafts(Synchronized)
<1>1. ASSUME NEW t \in Tables
      PROVE  Follows(Synchronized.raw[t], Synchronized.reviews[t])
  <2>1. tree.reviews[t] \in ReviewFile /\ staged[t] \in Versions \union {Absent}
    BY DEF DraftInv, TypeOK, Tree, Schemas, ReviewFile
  <2>2. CASE t \in UNION Changed
    BY <2>1, <2>2, SynchronizedTyped, RefreshedFollows DEF DraftInv, Follows
  <2>3. CASE t \notin UNION Changed
    <3>1. staged[t] = tree.raw[t]
      BY <2>3 DEF Changed, Tables
    <3>2. Follows(tree.raw[t], tree.reviews[t])
      BY ByTable DEF DraftInv
    <3>. QED
      BY <2>3, <3>1, <3>2, SynchronizedTyped DEF DraftInv
  <2>. QED
    BY <2>2, <2>3
<1>. QED
  BY <1>1, ByTable

(* Saving a status and words keeps the drafts. *)
LEMMA SavedValid ==
    ASSUME NEW r \in Tree, NEW t \in Tables, r.reviews[t] # NoReview,
           NEW status \in {"needs_review", "approved"}, NEW text \in Texts \union {Drafted}
    PROVE  /\ Drafts(r) => Drafts(Saved(r, t, status, text))
           /\ Valid(r) => Valid(Saved(r, t, status, text))
<1>1. ASSUME NEW u \in Tables
      PROVE  /\ Follows(r.raw[u], r.reviews[u]) =>
                   Follows(Saved(r, t, status, text).raw[u],
                           Saved(r, t, status, text).reviews[u])
             /\ Owned(r.raw[u], r.reviews[u]) =>
                   Owned(Saved(r, t, status, text).raw[u],
                         Saved(r, t, status, text).reviews[u])
  <2>1. CASE u # t
    BY <2>1, SavedTyped
  <2>2. CASE u = t
    <3>1. Saved(r, t, status, text).reviews[t] # NoReview
      BY SavedTyped, ReviewKinds DEF ReviewFile
    <3>2. Saved(r, t, status, text).reviews[t].mark =
             [status |-> status, hash |-> r.reviews[t].mark.hash]
      BY SavedTyped
    <3>3. Saved(r, t, status, text).reviews[t].mark.hash = r.reviews[t].mark.hash
      BY <3>2
    <3>4. Saved(r, t, status, text).raw = r.raw
      BY SavedTyped
    <3>. QED
      BY <2>2, <3>1, <3>3, <3>4 DEF Follows, Owned
  <2>. QED
    BY <2>1, <2>2
<1>. QED
  BY <1>1, ByTable

(* Initially main has the drafts of its schemas. *)
LEMMA InitDraftInv == Init => DraftInv
<1>. SUFFICES ASSUME Init PROVE DraftInv
  OBVIOUS
<1>1. TypeOK
  BY InitTypeOK
<1>2. ASSUME NEW t \in Tables
      PROVE  Follows(main.raw[t], main.reviews[t]) /\ Owned(main.raw[t], main.reviews[t])
  BY <1>2 DEF Init, Follows, Owned, NewReview, NoReview
<1>3. Valid(main)
  BY <1>2, ByTable
<1>. QED
  BY <1>1, <1>3 DEF Init, DraftInv, Valid

(* Steps that end the run leave it the trees of main. *)
LEMMA EndDrafts ==
    ASSUME DraftInv, NEW result, End(result), UNCHANGED <<main, branch, base>>, TypeOK'
    PROVE  DraftInv'
BY DEF DraftInv, End, Valid

(* Every step keeps the drafts. *)
LEMMA NextDraftInv == DraftInv /\ [Next]_vars => DraftInv'
<1>. SUFFICES ASSUME DraftInv, [Next]_vars PROVE DraftInv'
  OBVIOUS
<1>. USE DEF vars, remote, checkout, run, history
<1>0. TypeOK'
  BY NextTypeOK DEF DraftInv
<1>1. CASE UNCHANGED <<main, branch, base, seen, tree>>
  BY <1>0, <1>1 DEF DraftInv
<1>2. CASE Checkout
  BY <1>0, <1>2 DEF Checkout, DraftInv, Valid
<1>3. CASE Prepare
  <2>1. CASE open /\ Conflict
    BY <1>0, <1>3, <2>1, EndDrafts DEF Prepare
  <2>2. CASE open /\ ~Conflict
    BY <1>0, <1>3, <2>2, MergedValid DEF Prepare, DraftInv
  <2>3. CASE ~open
    BY <1>0, <1>1, <1>3, <2>3 DEF Prepare
  <2>. QED
    BY <2>1, <2>2, <2>3
<1>4. CASE \E d \in Databases : Stage(d)
  BY <1>1, <1>4 DEF Stage
<1>5. CASE Synchronize
  <2>1. CASE Changed = {}
    BY <1>0, <1>5, <2>1, EndDrafts DEF Synchronize
  <2>2. CASE Changed # {}
    BY <1>0, <1>5, <2>2, SynchronizedDrafts DEF Synchronize, DraftInv
  <2>. QED
    BY <2>1, <2>2
<1>6. CASE Commit
  <2>1. CASE tree.raw = seen.raw
    BY <1>0, <1>6, <2>1, EndDrafts DEF Commit
  <2>2. CASE tree.raw # seen.raw
    BY <1>1, <1>6, <2>2 DEF Commit
  <2>. QED
    BY <2>1, <2>2
<1>7. CASE Push
  <2>1. CASE active /\ outdated
    BY <1>0, <1>7, <2>1, EndDrafts DEF Push
  <2>2. CASE ~(active /\ outdated)
    BY <1>0, <1>7, <2>2 DEF Push, DraftInv, Valid
  <2>. QED
    BY <2>1, <2>2
<1>8. CASE Present
  BY <1>1, <1>8 DEF Present
<1>9. CASE Notify
  BY <1>0, <1>9, EndDrafts DEF Notify
<1>10. CASE Fail
  BY <1>0, <1>10, EndDrafts DEF Fail
<1>11. CASE \E t \in Tables, version \in Versions \union {Absent} : Migrate(t, version)
  BY <1>1, <1>11 DEF Migrate
<1>12. ASSUME NEW t \in Tables, NEW status \in {"needs_review", "approved"},
              NEW text \in Texts \union {Drafted}, SaveOnBranch(t, status, text)
       PROVE  DraftInv'
  <2>1. Drafts(branch')
    BY <1>12, SavedValid DEF SaveOnBranch, DraftInv, TypeOK
  <2>. QED
    BY <1>0, <1>12, <2>1 DEF SaveOnBranch, DraftInv
<1>13. ASSUME NEW t \in Tables, NEW status \in {"needs_review", "approved"},
              NEW text \in Texts \union {Drafted}, SaveOnMain(t, status, text)
       PROVE  DraftInv'
  <2>1. Valid(main')
    BY <1>13, SavedValid DEF SaveOnMain, DraftInv, TypeOK
  <2>. QED
    BY <1>0, <1>13, <2>1 DEF SaveOnMain, DraftInv
<1>14. ASSUME NEW t \in Tables, RemoveOrphan(t) PROVE DraftInv'
  <2>1. Drafts(branch')
    BY <1>14 DEF RemoveOrphan, DraftInv, TypeOK, Tree, Drafts, Orphans
  <2>. QED
    BY <1>0, <1>14, <2>1 DEF RemoveOrphan, DraftInv
<1>15. CASE Resolve
  BY <1>0, <1>15 DEF Resolve, DraftInv, Valid
<1>16. CASE Merge
  BY <1>0, <1>16, MergedValid DEF Merge, DraftInv
<1>17. CASE Close
  BY <1>1, <1>17 DEF Close
<1>18. CASE UNCHANGED vars
  BY <1>1, <1>18
<1>. QED
  BY <1>2, <1>3, <1>4, <1>5, <1>6, <1>7, <1>8, <1>9, <1>10, <1>11, <1>12, <1>13, <1>14,
     <1>15, <1>16, <1>17, <1>18 DEF Next, Run, People

(* However runs, merges, migrations and commits of people interleave, main and *)
(* the branch have a draft of exactly each schema, and main no other.          *)
THEOREM DraftsAlwaysFollow == Spec => []DraftsFollowSchema
<1>1. DraftInv => DraftsFollowSchema
  BY DEF DraftInv, DraftsFollowSchema
<1>. QED
  BY <1>1, InitDraftInv, NextDraftInv, PTL DEF Spec

-----------------------------------------------------------------------------
(* Approvals are for the schema they name.  Every mark of a merge is the one  *)
(* of a side, and a run writes no mark but "needs_review".                    *)

Granted(t, review) ==
    review # NoReview /\ review.mark.status = "approved" => review.mark.hash \in approvals[t]

Earned(r) == \A t \in Tables : Granted(t, r.reviews[t])

ApprovalInv == TypeOK /\ Earned(main) /\ Earned(branch) /\ Earned(tree)

(* A merged review is granted when both sides are. *)
LEMMA MergedGranted ==
    ASSUME NEW t \in Tables, NEW b \in ReviewFile, NEW x \in ReviewFile, NEW y \in ReviewFile,
           Granted(t, x), Granted(t, y)
    PROVE  Granted(t, MergedReview(b, x, y))
BY MergedReviewTyped DEF Granted

(* Merging earned trees gives an earned tree. *)
LEMMA MergedEarned ==
    ASSUME ApprovalInv
    PROVE  Earned(Merged)
<1>1. ASSUME NEW t \in Tables PROVE Granted(t, Merged.reviews[t])
  <2>1. base.reviews[t] \in ReviewFile /\ branch.reviews[t] \in ReviewFile
        /\ main.reviews[t] \in ReviewFile
    BY DEF ApprovalInv, TypeOK, Tree, ReviewFile
  <2>2. Granted(t, branch.reviews[t]) /\ Granted(t, main.reviews[t])
    BY DEF ApprovalInv, Earned
  <2>3. Merged.reviews[t] = MergedReview(base.reviews[t], branch.reviews[t], main.reviews[t])
    BY MergedTyped DEF ApprovalInv
  <2>. QED
    BY <2>1, <2>2, <2>3, MergedGranted
<1>. QED
  BY <1>1 DEF Earned

(* Publishing the staged databases approves nothing. *)
LEMMA SynchronizedEarned ==
    ASSUME ApprovalInv
    PROVE  Earned(Synchronized)
<1>1. ASSUME NEW t \in Tables PROVE Granted(t, Synchronized.reviews[t])
  <2>1. tree.reviews[t] \in ReviewFile /\ staged[t] \in Versions \union {Absent}
    BY DEF ApprovalInv, TypeOK, Tree, Schemas, ReviewFile
  <2>2. Granted(t, tree.reviews[t])
    BY DEF ApprovalInv, Earned
  <2>3. Granted(t, Refreshed(tree.reviews[t], staged[t]))
    BY <2>1, <2>2, RefreshedFollows DEF Granted
  <2>. QED
    BY <2>2, <2>3, SynchronizedTyped DEF ApprovalInv
<1>. QED
  BY <1>1 DEF Earned

(* What was earned stays earned while approvals are added. *)
LEMMA EarnedStays ==
    ASSUME NEW r, Earned(r), \A t \in Tables : approvals[t] \subseteq approvals'[t]
    PROVE  \A t \in Tables : r.reviews[t] # NoReview /\ r.reviews[t].mark.status = "approved"
                              => r.reviews[t].mark.hash \in approvals'[t]
BY DEF Earned, Granted

(* A person who saves an approval of a table earns it for the schema on file. *)
LEMMA SavedEarned ==
    ASSUME TypeOK, NEW r \in Tree, Earned(r), NEW t \in Tables, r.reviews[t] # NoReview,
           NEW status \in {"needs_review", "approved"}, NEW text \in Texts \union {Drafted},
           Approve(t, r, status)
    PROVE  /\ \A u \in Tables : approvals[u] \subseteq approvals'[u]
           /\ \A u \in Tables :
                 LET saved == Saved(r, t, status, text).reviews[u] IN
                 saved # NoReview /\ saved.mark.status = "approved"
                    => saved.mark.hash \in approvals'[u]
<1>1. \A u \in Tables : approvals[u] \subseteq approvals'[u]
  BY DEF Approve, TypeOK
<1>2. ASSUME NEW u \in Tables, u # t
      PROVE  LET saved == Saved(r, t, status, text).reviews[u] IN
             saved # NoReview /\ saved.mark.status = "approved"
                => saved.mark.hash \in approvals'[u]
  <2>1. Saved(r, t, status, text).reviews[u] = r.reviews[u]
    BY <1>2, SavedTyped
  <2>2. r.reviews[u] # NoReview /\ r.reviews[u].mark.status = "approved"
           => r.reviews[u].mark.hash \in approvals[u]
    BY DEF Earned, Granted
  <2>. QED
    BY <1>1, <2>1, <2>2
<1>3. LET saved == Saved(r, t, status, text).reviews[t] IN
      saved.mark.status = "approved" => saved.mark.hash \in approvals'[t]
  <2>1. Saved(r, t, status, text).reviews[t].mark =
           [status |-> status, hash |-> r.reviews[t].mark.hash]
    BY SavedTyped
  <2>2. status = "approved" => r.reviews[t].mark.hash \in approvals'[t]
    BY DEF Approve, TypeOK
  <2>. QED
    BY <2>1, <2>2
<1>. QED
  BY <1>1, <1>2, <1>3

(* Steps that end the run leave it the tree of main. *)
LEMMA EndEarned ==
    ASSUME ApprovalInv, NEW result, End(result), UNCHANGED <<main, branch, approvals>>, TypeOK'
    PROVE  ApprovalInv'
BY DEF ApprovalInv, Earned, Granted, End

(* Every step keeps approvals to their schemas. *)
LEMMA NextApprovalInv == ApprovalInv /\ [Next]_vars => ApprovalInv'
<1>. SUFFICES ASSUME ApprovalInv, [Next]_vars PROVE ApprovalInv'
  OBVIOUS
<1>. USE DEF vars, remote, checkout, run, history
<1>0. TypeOK'
  BY NextTypeOK DEF ApprovalInv
<1>1. CASE UNCHANGED <<main, branch, tree, approvals>>
  BY <1>0, <1>1 DEF ApprovalInv, Earned, Granted
<1>2. CASE Checkout
  BY <1>0, <1>2 DEF Checkout, ApprovalInv, Earned, Granted
<1>3. CASE Prepare
  <2>1. CASE open /\ Conflict
    BY <1>0, <1>3, <2>1, EndEarned DEF Prepare
  <2>2. CASE open /\ ~Conflict
    <3>1. tree' = Merged /\ UNCHANGED <<main, branch, approvals>>
      BY <1>3, <2>2 DEF Prepare
    <3>. QED
      BY <1>0, <3>1, MergedEarned DEF ApprovalInv, Earned, Granted
  <2>3. CASE ~open
    BY <1>1, <1>3, <2>3 DEF Prepare
  <2>. QED
    BY <2>1, <2>2, <2>3
<1>4. CASE \E d \in Databases : Stage(d)
  BY <1>1, <1>4 DEF Stage
<1>5. CASE Synchronize
  <2>1. CASE Changed = {}
    BY <1>0, <1>5, <2>1, EndEarned DEF Synchronize
  <2>2. CASE Changed # {}
    <3>1. tree' = Synchronized /\ UNCHANGED <<main, branch, approvals>>
      BY <1>5, <2>2 DEF Synchronize
    <3>. QED
      BY <1>0, <3>1, SynchronizedEarned DEF ApprovalInv, Earned, Granted
  <2>. QED
    BY <2>1, <2>2
<1>6. CASE Commit
  <2>1. CASE tree.raw = seen.raw
    BY <1>0, <1>6, <2>1, EndEarned DEF Commit
  <2>2. CASE tree.raw # seen.raw
    BY <1>1, <1>6, <2>2 DEF Commit
  <2>. QED
    BY <2>1, <2>2
<1>7. CASE Push
  <2>1. CASE active /\ outdated
    BY <1>0, <1>7, <2>1, EndEarned DEF Push
  <2>2. CASE ~(active /\ outdated)
    BY <1>0, <1>7, <2>2 DEF Push, ApprovalInv, Earned, Granted
  <2>. QED
    BY <2>1, <2>2
<1>8. CASE Present
  BY <1>1, <1>8 DEF Present
<1>9. CASE Notify
  BY <1>0, <1>9, EndEarned DEF Notify
<1>10. CASE Fail
  BY <1>0, <1>10, EndEarned DEF Fail
<1>11. CASE \E t \in Tables, version \in Versions \union {Absent} : Migrate(t, version)
  BY <1>1, <1>11 DEF Migrate
<1>12. ASSUME NEW t \in Tables, NEW status \in {"needs_review", "approved"},
              NEW text \in Texts \union {Drafted}, SaveOnBranch(t, status, text)
       PROVE  ApprovalInv'
  <2>1. /\ \A u \in Tables : approvals[u] \subseteq approvals'[u]
        /\ Earned(branch)'
    BY <1>12, SavedEarned DEF SaveOnBranch, ApprovalInv, TypeOK, Earned, Granted
  <2>2. Earned(main)' /\ Earned(tree)'
    BY <1>12, <2>1, EarnedStays DEF SaveOnBranch, ApprovalInv, Earned, Granted
  <2>. QED
    BY <1>0, <2>1, <2>2 DEF ApprovalInv
<1>13. ASSUME NEW t \in Tables, NEW status \in {"needs_review", "approved"},
              NEW text \in Texts \union {Drafted}, SaveOnMain(t, status, text)
       PROVE  ApprovalInv'
  <2>1. /\ \A u \in Tables : approvals[u] \subseteq approvals'[u]
        /\ Earned(main)'
    BY <1>13, SavedEarned DEF SaveOnMain, ApprovalInv, TypeOK, Earned, Granted
  <2>2. Earned(branch)' /\ Earned(tree)'
    BY <1>13, <2>1, EarnedStays DEF SaveOnMain, ApprovalInv, Earned, Granted
  <2>. QED
    BY <1>0, <2>1, <2>2 DEF ApprovalInv
<1>14. ASSUME NEW t \in Tables, RemoveOrphan(t) PROVE ApprovalInv'
  <2>1. Earned(branch)'
    BY <1>14 DEF RemoveOrphan, ApprovalInv, TypeOK, Tree, Earned, Granted
  <2>2. UNCHANGED <<main, tree, approvals>>
    BY <1>14 DEF RemoveOrphan
  <2>. QED
    BY <1>0, <2>1, <2>2 DEF ApprovalInv, Earned, Granted
<1>15. CASE Resolve
  <2>1. ASSUME NEW t \in Tables PROVE Granted(t, branch'.reviews[t])
    <3>1. branch'.reviews[t] \in
             {MergedReview(base.reviews[t], branch.reviews[t], main.reviews[t]),
              branch.reviews[t], main.reviews[t]}
      BY <1>15 DEF Resolve
    <3>2. base.reviews[t] \in ReviewFile /\ branch.reviews[t] \in ReviewFile
          /\ main.reviews[t] \in ReviewFile
      BY DEF ApprovalInv, TypeOK, Tree, ReviewFile
    <3>3. Granted(t, branch.reviews[t]) /\ Granted(t, main.reviews[t])
      BY DEF ApprovalInv, Earned
    <3>. QED
      BY <3>1, <3>2, <3>3, MergedGranted
  <2>2. UNCHANGED <<main, tree, approvals>>
    BY <1>15 DEF Resolve
  <2>3. Earned(branch)'
    BY <2>1, <2>2 DEF Earned, Granted
  <2>. QED
    BY <1>0, <2>2, <2>3 DEF ApprovalInv, Earned, Granted
<1>16. CASE Merge
  <2>1. main' = Merged /\ UNCHANGED <<branch, tree, approvals>>
    BY <1>16 DEF Merge
  <2>. QED
    BY <1>0, <2>1, MergedEarned DEF ApprovalInv, Earned, Granted
<1>17. CASE Close
  BY <1>1, <1>17 DEF Close
<1>18. CASE UNCHANGED vars
  BY <1>1, <1>18
<1>. QED
  BY <1>2, <1>3, <1>4, <1>5, <1>6, <1>7, <1>8, <1>9, <1>10, <1>11, <1>12, <1>13, <1>14,
     <1>15, <1>16, <1>17, <1>18 DEF Next, Run, People

(* Initially nothing is approved. *)
LEMMA InitApprovalInv == Init => ApprovalInv
<1>. SUFFICES ASSUME Init PROVE ApprovalInv
  OBVIOUS
<1>1. Earned(main)
  BY DEF Init, Earned, Granted, NewReview, NoReview
<1>. QED
  BY <1>1, InitTypeOK DEF Init, ApprovalInv

(* Task 12.6, "Never set document_status: approved": no refresh, merge, resolved *)
(* conflict or failed run turns the approval of one schema into that of another.  *)
THEOREM ApprovalsStayTrue == Spec => []ApprovalIsForItsSchema
<1>1. ApprovalInv => ApprovalIsForItsSchema
  BY DEF ApprovalInv, ApprovalIsForItsSchema, Earned, Granted
<1>. QED
  BY <1>1, InitApprovalInv, NextApprovalInv, PTL DEF Spec

-----------------------------------------------------------------------------
(* The words of the branch.  From the merge of main on, the checkout of a run *)
(* that continues the branch keeps them, until the push that is refused when  *)
(* the branch has changed meanwhile.                                          *)

Keeps(b, x, y, r) ==
    x # NoReview =>
       \/ r # NoReview /\ r.text = x.text
       \/ x = b /\ y = NoReview
       \/ NoReview \notin {b, r, y} /\ x.text = b.text /\ r.text = y.text

Working == phase \in {"staging", "committing", "pushing"}

AllKept == \A t \in Tables :
    Keeps(base.reviews[t], branch.reviews[t], seen.reviews[t], tree.reviews[t])

WordsInv ==
    /\ TypeOK
    /\ Working /\ open => active
    /\ Working /\ open /\ ~outdated => AllKept

(* A merge without conflict keeps the words of the branch or takes main's.    *)
LEMMA MergedKeeps ==
    ASSUME NEW b \in ReviewFile, NEW x \in ReviewFile, NEW y \in ReviewFile,
           ~ReviewsClash(b, x, y)
    PROVE  Keeps(b, x, y, MergedReview(b, x, y))
<1>1. CASE NoReview \in {b, x, y}
  BY <1>1 DEF Keeps, MergedReview, Hunk
<1>2. CASE NoReview \notin {b, x, y}
  <2>1. MergedReview(b, x, y) =
           [mark |-> Hunk(b.mark, x.mark, y.mark), text |-> Hunk(b.text, x.text, y.text)]
    BY <1>2 DEF MergedReview
  <2>2. MergedReview(b, x, y).text = Hunk(b.text, x.text, y.text)
    BY <2>1
  <2>3. MergedReview(b, x, y) # NoReview
    <3>1. DOMAIN MergedReview(b, x, y) = {"mark", "text"}
      BY <2>1
    <3>2. DOMAIN NoReview = {"mark"}
      BY DEF NoReview
    <3>. QED
      BY <3>1, <3>2
  <2>. QED
    BY <1>2, <2>2, <2>3 DEF Keeps, Hunk
<1>. QED
  BY <1>1, <1>2

(* A refresh changes no words.                                                *)
LEMMA RefreshedKeeps ==
    ASSUME NEW r \in ReviewFile, NEW v \in Versions \union {Absent}, r # NoReview
    PROVE  Refreshed(r, v) # NoReview /\ Refreshed(r, v).text = r.text
<1>1. CASE v = Absent \/ r.mark.hash = v
  BY <1>1 DEF Refreshed
<1>2. CASE v # Absent /\ r.mark.hash # v
  <2>1. Refreshed(r, v) = [r EXCEPT !.mark = [status |-> "needs_review", hash |-> v]]
    BY <1>2 DEF Refreshed
  <2>. QED
    BY <2>1, ReviewKinds DEF Review, NoReview
<1>. QED
  BY <1>1, <1>2

(* Nothing is claimed of a run that has ended or is not there.                *)
LEMMA IdleWords == ASSUME TypeOK', ~Working' PROVE WordsInv'
BY DEF WordsInv

LEMMA SynchronizedKeeps ==
    ASSUME WordsInv, Working, open, ~outdated, tree' = Synchronized,
           UNCHANGED <<base, branch, seen>>
    PROVE  AllKept'
<1>. SUFFICES ASSUME NEW t \in Tables
              PROVE  Keeps(base.reviews[t], branch.reviews[t], seen.reviews[t],
                           tree'.reviews[t])
  BY DEF AllKept
<1>1. Keeps(base.reviews[t], branch.reviews[t], seen.reviews[t], tree.reviews[t])
  BY DEF WordsInv, AllKept
<1>2. /\ tree.reviews[t] \in ReviewFile
      /\ staged[t] \in Versions \union {Absent}
  BY DEF WordsInv, TypeOK, Tree, Schemas, ReviewFile
<1>3. tree'.reviews[t] \in {tree.reviews[t], Refreshed(tree.reviews[t], staged[t])}
  BY DEF Synchronized
<1>4. tree.reviews[t] # NoReview =>
         tree'.reviews[t] # NoReview /\ tree'.reviews[t].text = tree.reviews[t].text
  BY <1>2, <1>3, RefreshedKeeps
<1>. QED
  BY <1>1, <1>4 DEF Keeps

LEMMA NextWordsInv == WordsInv /\ [Next]_vars => WordsInv'
<1>. SUFFICES ASSUME WordsInv, [Next]_vars PROVE WordsInv'
  OBVIOUS
<1>. USE DEF vars, remote, checkout, run, history
<1>0. TypeOK'
  BY NextTypeOK DEF WordsInv
<1>1. CASE UNCHANGED <<base, branch, open, seen, tree, phase, active, outdated>>
  BY <1>0, <1>1 DEF WordsInv, Working, AllKept
<1>2. CASE Checkout
  BY <1>0, <1>2, IdleWords DEF Checkout, Working
<1>3. CASE Prepare
  <2>1. CASE open /\ Conflict
    BY <1>0, <1>3, <2>1, IdleWords DEF Prepare, End, Working
  <2>2. CASE open /\ ~Conflict
    <3>1. ASSUME NEW t \in Tables
          PROVE  Keeps(base.reviews[t], branch.reviews[t], main.reviews[t],
                       MergedReview(base.reviews[t], branch.reviews[t], main.reviews[t]))
      <4>1. /\ base.reviews[t] \in ReviewFile
            /\ branch.reviews[t] \in ReviewFile
            /\ main.reviews[t] \in ReviewFile
        BY DEF WordsInv, TypeOK, Tree, ReviewFile
      <4>2. ~ReviewsClash(base.reviews[t], branch.reviews[t], main.reviews[t])
        BY <2>2 DEF Conflict
      <4>. QED
        BY <4>1, <4>2, MergedKeeps
    <3>2. tree' = Merged /\ seen' = main /\ UNCHANGED <<base, branch, open>> /\ active'
      BY <1>3, <2>2 DEF Prepare
    <3>3. AllKept'
      BY <3>1, <3>2 DEF AllKept, Merged
    <3>. QED
      BY <1>0, <3>2, <3>3 DEF WordsInv
  <2>3. CASE ~open
    BY <1>0, <1>3, <2>3 DEF Prepare, WordsInv
  <2>. QED
    BY <2>1, <2>2, <2>3
<1>4. CASE \E d \in Databases : Stage(d)
  BY <1>1, <1>4 DEF Stage
<1>5. CASE Synchronize
  <2>1. CASE Changed = {}
    BY <1>0, <1>5, <2>1, IdleWords DEF Synchronize, End, Working
  <2>2. CASE Changed # {}
    <3>1. /\ tree' = Synchronized
          /\ UNCHANGED <<base, branch, open, seen, active, outdated>>
          /\ Working
      BY <1>5, <2>2 DEF Synchronize, Working
    <3>. QED
      BY <1>0, <3>1, SynchronizedKeeps DEF WordsInv
  <2>. QED
    BY <2>1, <2>2
<1>6. CASE Commit
  <2>1. CASE tree.raw = seen.raw
    BY <1>0, <1>6, <2>1, IdleWords DEF Commit, End, Working
  <2>2. CASE tree.raw # seen.raw
    BY <1>0, <1>6, <2>2 DEF Commit, WordsInv, Working, AllKept
  <2>. QED
    BY <2>1, <2>2
<1>7. CASE Push
  BY <1>0, <1>7, IdleWords DEF Push, End, Working
<1>8. CASE Present
  BY <1>0, <1>8, IdleWords DEF Present, Working
<1>9. CASE Notify
  BY <1>0, <1>9, IdleWords DEF Notify, End, Working
<1>10. CASE Fail
  BY <1>0, <1>10, IdleWords DEF Fail, End, Working
<1>11. CASE \E t \in Tables, version \in Versions \union {Absent} : Migrate(t, version)
  BY <1>1, <1>11 DEF Migrate
<1>12. ASSUME NEW t \in Tables, NEW status \in {"needs_review", "approved"},
              NEW text \in Texts \union {Drafted}, SaveOnBranch(t, status, text)
       PROVE  WordsInv'
  BY <1>0, <1>12 DEF SaveOnBranch, WordsInv, Working
<1>13. CASE \E t \in Tables, status \in {"needs_review", "approved"},
              text \in Texts \union {Drafted} : SaveOnMain(t, status, text)
  BY <1>1, <1>13 DEF SaveOnMain
<1>14. ASSUME NEW t \in Tables, RemoveOrphan(t) PROVE WordsInv'
  BY <1>0, <1>14 DEF RemoveOrphan, WordsInv, Working
<1>15. CASE Resolve
  BY <1>0, <1>15 DEF Resolve, WordsInv, Working
<1>16. CASE Merge
  BY <1>0, <1>16 DEF Merge, WordsInv, Working
<1>17. CASE Close
  BY <1>0, <1>17 DEF Close, WordsInv, Working
<1>18. CASE UNCHANGED vars
  BY <1>1, <1>18
<1>. QED
  BY <1>2, <1>3, <1>4, <1>5, <1>6, <1>7, <1>8, <1>9, <1>10, <1>11, <1>12, <1>13, <1>14,
     <1>15, <1>16, <1>17, <1>18 DEF Next, Run, People

(* What a run pushes to an open Pull Request has everybody's words in it,     *)
(* however people save, remove, resolve and merge while it works.             *)
THEOREM WordsAlwaysStay == Spec => WordsStay
<1>. DEFINE Pushed == open /\ branch' # branch /\ phase = "pushing" /\ phase' = "presenting"
<1>1. Init => WordsInv
  BY InitTypeOK DEF Init, WordsInv, Working
<1>2. ASSUME WordsInv, [Next]_vars, Pushed
      PROVE  \A t \in Tables :
                Keeps(base.reviews[t], branch.reviews[t], seen.reviews[t], branch'.reviews[t])
  <2>1. Push
    BY <1>2 DEF Next, Run, People, Checkout, Prepare, Stage, Synchronize, Commit, Present,
                Notify, Fail, End, Migrate, SaveOnBranch, SaveOnMain, RemoveOrphan, Resolve,
                Merge, Close, vars, run, remote, checkout
  <2>2. ~outdated /\ AllKept
    BY <1>2, <2>1 DEF Push, End, WordsInv, Working
  <2>3. branch' = tree
    BY <1>2, <2>1, <2>2 DEF Push
  <2>. QED
    BY <2>2, <2>3 DEF AllKept
<1>3. WordsInv /\ [Next]_vars =>
        [Pushed => \A t \in Tables : branch.reviews[t] # NoReview =>
          \/ branch'.reviews[t] # NoReview /\ branch'.reviews[t].text = branch.reviews[t].text
          \/ branch.reviews[t] = base.reviews[t] /\ seen.reviews[t] = NoReview
          \/ /\ NoReview \notin {base.reviews[t], branch'.reviews[t], seen.reviews[t]}
             /\ branch.reviews[t].text = base.reviews[t].text
             /\ branch'.reviews[t].text = seen.reviews[t].text]_vars
  BY <1>2 DEF Keeps
<1>. QED
  BY <1>1, <1>3, NextWordsInv, PTL DEF Spec, WordsStay
=============================================================================
