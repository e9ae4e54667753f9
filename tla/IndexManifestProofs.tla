------------------------- MODULE IndexManifestProofs -------------------------
(* That the manifest is whole and its differences are complete, for all catalogs. *)
EXTENDS IndexManifest, TLAPS

-----------------------------------------------------------------------------
(* The operators.                                                          *)

LEMMA NothingIsAbsent ==
    /\ NoCandidate \notin Candidate
    /\ \A w \in Candidate \union {NoCandidate} : Promoted(w) => w \in Candidate
BY DEF NoCandidate, Candidate, Promoted

LEMMA ChunkOfType ==
    ASSUME NEW w \in Candidate, NEW p \in Parts, w.parts[p] # Absent
    PROVE  ChunkOf(w, p) \in Chunk
BY DEF ChunkOf, Chunk, Candidate

LEMMA ChunksDiffer ==
    ASSUME NEW w \in Candidate, NEW p \in Parts
    PROVE  ChunkOf(w, p) # NoChunk
BY DEF ChunkOf, NoChunk

\* The chunk a snapshot takes for an id is that of one of the parts with its key.
LEMMA SnapshotChunk ==
    ASSUME NEW files \in Catalog, NEW id \in Ids,
           Promoted(files[id[1]]), PartsAt(files[id[1]], id[2]) # {}
    PROVE  \E p \in PartsAt(files[id[1]], id[2]) :
              Snapshot(files)[id] = ChunkOf(files[id[1]], p)
BY DEF Snapshot

LEMMA SnapshotGap ==
    ASSUME NEW files \in Catalog, NEW id \in Ids,
           ~(Promoted(files[id[1]]) /\ PartsAt(files[id[1]], id[2]) # {})
    PROVE  Snapshot(files)[id] = NoChunk
BY DEF Snapshot

LEMMA SnapshotType ==
    ASSUME NEW files \in Catalog
    PROVE  Snapshot(files) \in Manifest
<1>1. SUFFICES ASSUME NEW id \in Ids PROVE Snapshot(files)[id] \in Chunk \union {NoChunk}
  BY DEF Snapshot, Manifest
<1>2. CASE Promoted(files[id[1]]) /\ PartsAt(files[id[1]], id[2]) # {}
  <2>1. files[id[1]] \in Candidate
    BY <1>2, NothingIsAbsent DEF Catalog, Ids
  <2>2. PICK p \in PartsAt(files[id[1]], id[2]) :
           Snapshot(files)[id] = ChunkOf(files[id[1]], p)
    BY <1>2, SnapshotChunk
  <2>3. p \in Parts /\ files[id[1]].parts[p] # Absent
    BY <2>2 DEF PartsAt
  <2>4. QED  BY <2>1, <2>2, <2>3, ChunkOfType
<1>3. CASE ~(Promoted(files[id[1]]) /\ PartsAt(files[id[1]], id[2]) # {})
  BY <1>3, SnapshotGap
<1>4. QED  BY <1>2, <1>3

\* What is built from a catalog that passes says all the catalog says: a part that
\* shares its key with another one would have been refused.
LEMMA SnapshotDescribes ==
    ASSUME NEW files \in Catalog, Buildable(files)
    PROVE  Describes(Snapshot(files), files)
<1>1. \A d \in Documents : files[d].intact
  BY DEF Buildable
<1>2. ASSUME NEW d \in Documents, Promoted(files[d]),
             NEW p \in Parts, files[d].parts[p] # Absent
      PROVE  Snapshot(files)[<<d, KeyOf[p]>>] = ChunkOf(files[d], p)
  <2>1. <<d, KeyOf[p]>> \in Ids /\ <<d, KeyOf[p]>>[1] = d /\ <<d, KeyOf[p]>>[2] = KeyOf[p]
    BY PartsAssumption DEF Ids
  <2>2. p \in PartsAt(files[d], KeyOf[p])
    BY <1>2 DEF PartsAt
  <2>3. PICK q \in PartsAt(files[d], KeyOf[p]) :
           Snapshot(files)[<<d, KeyOf[p]>>] = ChunkOf(files[d], q)
    BY <1>2, <2>1, <2>2, SnapshotChunk
  <2>4. ~Collides(files[d])
    BY <1>2 DEF Buildable
  <2>5. q \in Parts /\ KeyOf[q] = KeyOf[p]
    BY <2>3 DEF PartsAt
  <2>6. q = p
    BY <2>2, <2>3, <2>4, <2>5 DEF Collides
  <2>7. QED  BY <2>3, <2>6
<1>3. ASSUME NEW id \in Ids, Snapshot(files)[id] # NoChunk
      PROVE  /\ Promoted(files[id[1]])
             /\ \E p \in PartsAt(files[id[1]], id[2]) :
                   Snapshot(files)[id] = ChunkOf(files[id[1]], p)
  BY <1>3, SnapshotGap, SnapshotChunk
<1>4. QED  BY <1>1, <1>2, <1>3 DEF Describes

\* Applying the difference of two manifests to the old one gives the new one.
LEMMA DifferenceReplays ==
    ASSUME NEW old \in Manifest, NEW new \in Manifest
    PROVE  Applied(old, Difference(old, new)) = new
<1> DEFINE D == Difference(old, new)
<1>1. SUFFICES ASSUME NEW id \in Ids PROVE Applied(old, D)[id] = new[id]
  BY DEF Applied, Manifest
<1>2. ASSUME NEW a \in D, a.id = id
      PROVE  a = ActionOn(id, old[id], new[id])
  BY <1>2 DEF Difference, ActionOn
<1>3. CASE old[id] = new[id]
  <2>1. \A a \in D : a.id = id => a.reason = "unchanged"
    <3>1. TAKE a \in D
    <3>2. HAVE a.id = id
    <3>3. a = ActionOn(id, old[id], new[id])
      BY <1>2, <3>2
    <3>4. PICK i \in Ids : a = ActionOn(i, old[i], new[i]) /\ (old[i] # NoChunk \/ new[i] # NoChunk)
      BY DEF Difference
    <3>5. i = id
      BY <3>2, <3>4 DEF ActionOn
    <3>6. QED  BY <1>3, <3>4, <3>5 DEF ActionOn
  <2>2. QED  BY <1>3, <2>1 DEF Applied
<1>4. CASE old[id] # new[id]
  <2> DEFINE act == ActionOn(id, old[id], new[id])
  <2>1. act \in D
    BY <1>4 DEF Difference
  <2>2. act.id = id /\ act.reason # "unchanged" /\ act.new = new[id]
    BY <1>4 DEF ActionOn
  <2>3. \E a \in D : a.id = id /\ a.reason # "unchanged"
    BY <2>1, <2>2
  <2> DEFINE chosen == CHOOSE a \in D : a.id = id /\ a.reason # "unchanged"
  <2>4. chosen \in D /\ chosen.id = id
    BY <2>3
  <2>5. chosen = act
    BY <1>2, <2>4
  <2>6. Applied(old, D)[id] = chosen.new
    BY <2>3 DEF Applied
  <2>7. QED  BY <2>2, <2>5, <2>6
<1>5. QED  BY <1>3, <1>4

LEMMA DifferenceType ==
    ASSUME NEW old \in Manifest, NEW new \in Manifest
    PROVE  Difference(old, new) \subseteq
               [id : Ids, new : Chunk \union {NoChunk},
                reason : {"created", "removed", "updated", "unchanged"}]
BY DEF Difference, ActionOn, Manifest

LEMMA EmptyType == Empty \in Manifest
BY DEF Empty, Manifest

LEMMA DesertedType == Deserted \in Catalog
BY DEF Deserted, Catalog

LEMMA EmptyDescribes == Describes(Empty, Deserted)
BY DEF Describes, Empty, Deserted, NoCandidate, Promoted

-----------------------------------------------------------------------------
(* Types.                                                                  *)

LEMMA AppliedType ==
    ASSUME NEW index \in Manifest,
           NEW difference \in SUBSET [id : Ids, new : Chunk \union {NoChunk},
                          reason : {"created", "removed", "updated", "unchanged"}]
    PROVE  Applied(index, difference) \in Manifest
<1>1. SUFFICES ASSUME NEW id \in Ids
               PROVE  Applied(index, difference)[id] \in Chunk \union {NoChunk}
  BY DEF Applied, Manifest
<1>2. CASE \E a \in difference : a.id = id /\ a.reason # "unchanged"
  <2> DEFINE chosen == CHOOSE a \in difference : a.id = id /\ a.reason # "unchanged"
  <2>1. chosen \in difference
    BY <1>2
  <2>2. chosen.new \in Chunk \union {NoChunk}
    BY <2>1
  <2>3. QED  BY <1>2, <2>2 DEF Applied
<1>3. CASE ~\E a \in difference : a.id = id /\ a.reason # "unchanged"
  BY <1>3 DEF Applied, Manifest
<1>4. QED  BY <1>2, <1>3

LEMMA TypeInit == Init => TypeOK
<1> SUFFICES ASSUME Init PROVE TypeOK
  OBVIOUS
<1>1. actions \subseteq {} /\ missed \in BOOLEAN /\ edits \in Nat
  BY DEF Init
<1>2. QED  BY <1>1, EmptyType, DesertedType DEF Init, TypeOK

LEMMA TypeNext == TypeOK /\ [Next]_vars => TypeOK'
<1> SUFFICES ASSUME TypeOK, [Next]_vars PROVE TypeOK'
  OBVIOUS
<1> USE DEF TypeOK
<1>1. ASSUME NEW d \in Documents, NEW w \in Candidate \union {NoCandidate}, ChangeCatalog(d, w)
      PROVE  TypeOK'
  BY <1>1 DEF ChangeCatalog, Catalog
<1>2. CASE BuildChunks
  BY <1>2, SnapshotType DEF BuildChunks
<1>3. CASE Reconcile
  BY <1>3, DifferenceType DEF Reconcile
<1>4. CASE WriteActions
  BY <1>4, AppliedType DEF WriteActions
<1>5. CASE Interrupt
  BY <1>5 DEF Interrupt
<1>6. CASE FreshCheckout
  BY <1>6, EmptyType, DesertedType DEF FreshCheckout
<1>7. CASE UNCHANGED vars
  BY <1>7 DEF vars
<1>8. QED  BY <1>1, <1>2, <1>3, <1>4, <1>5, <1>6, <1>7 DEF Next

\* The type invariant, for any catalog.
THEOREM TypeCorrect == Spec => []TypeOK
BY TypeInit, TypeNext, PTL DEF Spec

-----------------------------------------------------------------------------
(* The manifest.                                                           *)

LEMMA WholeNext == TypeOK /\ ManifestIsWhole /\ [Next]_vars => ManifestIsWhole'
<1> SUFFICES ASSUME TypeOK, ManifestIsWhole, [Next]_vars PROVE ManifestIsWhole'
  OBVIOUS
<1> USE DEF ManifestIsWhole
<1>1. CASE UNCHANGED <<chunkFile, manifest, built, indexed>>
  BY <1>1 DEF Describes
<1>2. CASE BuildChunks
  <2>1. Describes(Snapshot(catalog), catalog)
    BY <1>2, SnapshotDescribes DEF BuildChunks, TypeOK
  <2>2. QED  BY <1>2, <2>1 DEF BuildChunks, Describes
<1>3. CASE Reconcile
  BY <1>3 DEF Reconcile, Describes
<1>4. CASE FreshCheckout
  BY <1>4, EmptyDescribes DEF FreshCheckout
<1>5. QED
  BY <1>1, <1>2, <1>3, <1>4
  DEF Next, ChangeCatalog, WriteActions, Interrupt, vars

\* The chunk file and the manifest are those of one whole and intact catalog each, for any
\* documents, parts and keys - also when names share a key, commands are interrupted and
\* the catalog changes between them.
THEOREM Whole == Spec => []ManifestIsWhole
<1>1. Init => ManifestIsWhole
  BY EmptyDescribes DEF Init, ManifestIsWhole
<1>2. QED  BY <1>1, TypeInit, TypeNext, WholeNext, PTL DEF Spec

\* The reported chunk ids, deletes first, turn any manifest into any other.
THEOREM Replay == Spec => []ListsReplay
<1>1. TypeOK => ListsReplay
  <2> SUFFICES ASSUME TypeOK PROVE ListsReplay
    OBVIOUS
  <2>1. ASSUME NEW id \in Ids
        PROVE  manifest[id] = IF id \in UpsertedIds(before, manifest) THEN manifest[id]
                              ELSE IF id \in DeletedIds(before, manifest) THEN NoChunk
                              ELSE before[id]
    <3>1. id[1] \in Documents /\ id[2] \in Keys /\ id = <<id[1], id[2]>>
      BY DEF Ids
    <3>2. before[id] # manifest[id] => Replaced(before, manifest, id[1])
      BY <3>1 DEF Replaced
    <3>3. QED  BY <3>2 DEF UpsertedIds, DeletedIds
  <2>2. manifest \in [Ids -> Chunk \union {NoChunk}]
    BY DEF TypeOK, Manifest
  <2>3. QED  BY <2>1, <2>2 DEF ListsReplay
<1>2. QED  BY <1>1, TypeCorrect, PTL

-----------------------------------------------------------------------------
(* Who follows the chunk actions.                                          *)

\* The actions in hand are the whole difference between the last two manifests.
Pending == phase = "saved" => actions = Difference(before, manifest)

FollowInv == TypeOK /\ Pending /\ MirrorFollows

LEMMA FollowNext == FollowInv /\ [Next]_vars => FollowInv'
<1> SUFFICES ASSUME FollowInv, [Next]_vars PROVE FollowInv'
  OBVIOUS
<1> TypeOK /\ TypeOK'
  BY TypeNext DEF FollowInv
<1> SUFFICES Pending' /\ MirrorFollows'
  BY DEF FollowInv
<1> USE DEF FollowInv, Pending, MirrorFollows
<1>1. CASE UNCHANGED <<manifest, phase, actions, before, mirror, missed>>
  BY <1>1 DEF Difference, ActionOn
<1>2. CASE BuildChunks
  BY <1>2 DEF BuildChunks
<1>3. CASE Reconcile
  BY <1>3 DEF Reconcile
<1>4. CASE WriteActions
  <2>1. Applied(before, Difference(before, manifest)) = manifest
    BY DifferenceReplays DEF TypeOK
  <2>2. ~missed => mirror' = manifest
    BY <1>4, <2>1 DEF WriteActions
  <2>3. QED  BY <1>4, <2>2 DEF WriteActions
<1>5. CASE Interrupt
  BY <1>5 DEF Interrupt
<1>6. CASE FreshCheckout
  BY <1>6 DEF FreshCheckout
<1>7. QED
  BY <1>1, <1>2, <1>3, <1>4, <1>5, <1>6 DEF Next, ChangeCatalog, vars

\* Whoever applies the chunk actions of every run has the manifest, as long as no run was
\* lost between the manifest and its actions.
THEOREM Follows == Spec => []MirrorFollows
<1>1. Init => FollowInv
  BY TypeInit DEF Init, FollowInv, Pending, MirrorFollows
<1>2. FollowInv => MirrorFollows
  BY DEF FollowInv
<1>3. QED  BY <1>1, <1>2, FollowNext, PTL DEF Spec
=============================================================================
