---------------------------- MODULE IndexManifest ----------------------------
(***************************************************************************)
(* From the candidates of a catalog to the index manifest (index-build):   *)
(*   application/build_chunks.py      the chunks of one document,          *)
(*   validation/chunks.py             what is required of them,            *)
(*   application/catalog_chunks.py    those of all databases, or none,     *)
(*   application/index_changes.py     the manifest, and what it changes,   *)
(*   domain/index.py, adapters/index/manifest.py   the manifest file,      *)
(*   cli.py run_index_manifest.                                            *)
(*                                                                         *)
(* Two commands run one after the other and hand a file over; the second   *)
(* replaces the manifest before it writes down what it changed.  Either can*)
(* be interrupted, the catalog changes meanwhile, and in a fresh checkout  *)
(* there is no manifest of an earlier run.                                 *)
(***************************************************************************)
EXTENDS Naturals

CONSTANTS
    Documents,   \* tables of all databases, by qualified name
    Parts,       \* what a document can have a chunk of: overview, columns, rules ...
    Overview,    \* the one every document has
    Keys,        \* chunk types with their semantic keys
    KeyOf,       \* the key a part's name is normalised to
    Contents,    \* what a part can say
    Splitting,   \* those with a character that Python, but not JSON, takes for a line end
    Versions,    \* review commit, schema hash and generator of a document
    MaxEdits     \* bound: changes of the catalog

ASSUME PartsAssumption == KeyOf \in [Parts -> Keys] /\ Overview \in Parts
ASSUME SplittingAssumption == Splitting \subseteq Contents
ASSUME MaxEditsAssumption == MaxEdits \in Nat

VARIABLES
    catalog,     \* generated/structured/<table>.json of every database
    chunkFile,   \* build/chunks: the chunks of the last build
    manifest,    \* build/index/manifest.json
    \* the running commands
    phase, actions,
    \* observation only: never read by an action of the program
    before,      \* the manifest that was replaced last
    built,       \* the catalog when the chunk file was built
    indexed,     \* the catalog the manifest is of
    mirror,      \* what somebody has who applies every chunk-actions.json
    missed,      \* a manifest was replaced or lost, and nothing written of it
    edits

vars == <<catalog, chunkFile, manifest, phase, actions, before, built, indexed, mirror,
          missed, edits>>

-----------------------------------------------------------------------------
(* Documents and their chunks.                                             *)

Absent == "absent"

\* `intact`: the file can be read and its hashes match.
Candidate == [state : {"review", "promoted"}, intact : BOOLEAN, version : Versions,
              parts : {w \in [Parts -> Contents \union {Absent}] : w[Overview] # Absent}]
NoCandidate == [state |-> "absent", intact |-> TRUE]
Catalog == [Documents -> Candidate \union {NoCandidate}]
Deserted == [d \in Documents |-> NoCandidate]

\* A chunk is told by document, type and semantic key; its body hash covers what the
\* part says, which names the part, and the version of the whole document.
Ids == Documents \X Keys
Chunk == [version : Versions, part : Parts, content : Contents]
NoChunk == [version |-> Absent]
Manifest == [Ids -> Chunk \union {NoChunk}]
Empty == [id \in Ids |-> NoChunk]

Promoted(c) == c.state = "promoted"

PartsAt(c, key) == {p \in Parts : KeyOf[p] = key /\ c.parts[p] # Absent}

\* Names that differ only in case or punctuation have the same semantic key.
Collides(c) == \E p, q \in Parts : p # q /\ KeyOf[p] = KeyOf[q] /\ q \in PartsAt(c, KeyOf[p])
                                   /\ p \in PartsAt(c, KeyOf[p])

\* Mutant of Buildable: of chunks with the same id the last one wins.
BuildableAnyhow(files) == \A d \in Documents : files[d].intact

\* Every candidate is intact, also one in review, and no two chunks share an id.  One
\* document that is not stops the build of all.
Buildable(files) ==
    \A d \in Documents : files[d].intact /\ (Promoted(files[d]) => ~Collides(files[d]))

\* Mutant of ChunkOf: the version of the document is left out.
ChunkOfText(c, p) == [part |-> p, content |-> c.parts[p]]

ChunkOf(c, p) == [version |-> c.version, part |-> p, content |-> c.parts[p]]

\* The chunks of the promoted documents.
Snapshot(files) ==
    [id \in Ids |->
        IF Promoted(files[id[1]]) /\ PartsAt(files[id[1]], id[2]) # {}
        THEN ChunkOf(files[id[1]], CHOOSE p \in PartsAt(files[id[1]], id[2]) : TRUE)
        ELSE NoChunk]

-----------------------------------------------------------------------------
(* The difference of two manifests.                                        *)

ActionOn(id, old, new) ==
    [id |-> id, new |-> new,
     reason |-> IF old = NoChunk THEN "created"
                ELSE IF new = NoChunk THEN "removed"
                ELSE IF old # new THEN "updated"
                ELSE "unchanged"]

Difference(old, new) ==
    {ActionOn(id, old[id], new[id]) : id \in {i \in Ids : old[i] # NoChunk \/ new[i] # NoChunk}}

\* What is done with an action: created and updated chunks are upserted, removed ones
\* deleted, unchanged ones skipped.
Applied(index, difference) ==
    [id \in Ids |->
        IF \E a \in difference : a.id = id /\ a.reason # "unchanged"
        THEN (CHOOSE a \in difference : a.id = id /\ a.reason # "unchanged").new
        ELSE index[id]]

Replaced(old, new, d) == \E key \in Keys : old[<<d, key>>] # new[<<d, key>>]

\* Mutant of DeletedIds: only documents that are gone altogether are deleted.
DeletedIdsOfGone(old, new) ==
    {id \in Ids : old[id] # NoChunk /\ \A key \in Keys : new[<<id[1], key>>] = NoChunk}

\* All chunks of a document that changes in any of them are deleted, then upserted.
DeletedIds(old, new) == {id \in Ids : old[id] # NoChunk /\ Replaced(old, new, id[1])}

UpsertedIds(old, new) == {id \in Ids : new[id] # NoChunk /\ Replaced(old, new, id[1])}

-----------------------------------------------------------------------------

Init ==
    /\ catalog = Deserted
    /\ chunkFile = Empty
    /\ manifest = Empty
    /\ phase = "idle"
    /\ actions = {}
    /\ before = Empty
    /\ built = Deserted
    /\ indexed = Deserted
    /\ mirror = Empty
    /\ missed = FALSE
    /\ edits = 0

TypeOK ==
    /\ catalog \in Catalog
    /\ chunkFile \in Manifest
    /\ manifest \in Manifest
    /\ phase \in {"idle", "built", "saved"}
    /\ actions \subseteq [id : Ids, new : Chunk \union {NoChunk},
                          reason : {"created", "removed", "updated", "unchanged"}]
    /\ before \in Manifest
    /\ built \in Catalog
    /\ indexed \in Catalog
    /\ mirror \in Manifest
    /\ missed \in BOOLEAN
    /\ edits \in Nat

\* A candidate is generated, promoted, damaged or removed, in the working tree or by a
\* merge to main.
ChangeCatalog(d, c) ==
    /\ edits < MaxEdits
    /\ edits' = edits + 1
    /\ catalog' = [catalog EXCEPT ![d] = c]
    /\ catalog' # catalog
    /\ UNCHANGED <<chunkFile, manifest, phase, actions, before, built, indexed, mirror, missed>>

\* chunk-catalog: all promoted documents or an error, and then no file is written.
BuildChunks ==
    /\ phase = "idle"
    /\ Buildable(catalog)
    /\ chunkFile' = Snapshot(catalog)
    /\ phase' = "built"
    /\ built' = catalog
    /\ UNCHANGED <<catalog, manifest, actions, before, indexed, mirror, missed, edits>>

\* Mutant of Reconcile: the manifest is loaded after it was saved.
ReconcileLate ==
    /\ phase = "built"
    /\ manifest' = chunkFile
    /\ actions' = Difference(manifest', chunkFile)
    /\ before' = manifest
    /\ indexed' = built
    /\ phase' = "saved"
    /\ UNCHANGED <<catalog, chunkFile, built, mirror, missed, edits>>

\* The chunk file is written as JSON lines without escapes, but split like any text: it
\* cannot be read back when some chunk has a line end of the other kind in it.
Loadable(file) == \A id \in Ids : file[id] # NoChunk => file[id].content \notin Splitting

\* index-manifest: the old manifest is compared with the new one, and replaced.
Reconcile ==
    /\ phase = "built"
    /\ Loadable(chunkFile)
    /\ actions' = Difference(manifest, chunkFile)
    /\ manifest' = chunkFile
    /\ before' = manifest
    /\ indexed' = built
    /\ phase' = "saved"
    /\ UNCHANGED <<catalog, chunkFile, built, mirror, missed, edits>>

\* The actions are written last; whoever follows them applies them.
WriteActions ==
    /\ phase = "saved"
    /\ mirror' = Applied(mirror, actions)
    /\ phase' = "idle"
    /\ actions' = {}
    /\ UNCHANGED <<catalog, chunkFile, manifest, before, built, indexed, missed, edits>>

\* A command fails or is killed between two of its files.
Interrupt ==
    /\ phase # "idle"
    /\ missed' = (missed \/ (phase = "saved" /\ before # manifest))
    /\ phase' = "idle"
    /\ actions' = {}
    /\ UNCHANGED <<catalog, chunkFile, manifest, before, built, indexed, mirror, edits>>

\* The build directory is not versioned: a fresh checkout has no manifest.
FreshCheckout ==
    /\ phase = "idle"
    /\ missed' = (missed \/ manifest # Empty)
    /\ chunkFile' = Empty
    /\ manifest' = Empty
    /\ built' = Deserted
    /\ indexed' = Deserted
    /\ UNCHANGED <<catalog, phase, actions, before, mirror, edits>>

Next ==
    \/ \E d \in Documents, c \in Candidate \union {NoCandidate} : ChangeCatalog(d, c)
    \/ BuildChunks
    \/ Reconcile
    \/ WriteActions
    \/ Interrupt
    \/ FreshCheckout

Spec == Init /\ [][Next]_vars

-----------------------------------------------------------------------------
(* Properties.                                                             *)

\* Every part of every promoted document is there, as it is, and nothing else.
Describes(index, files) ==
    /\ \A d \in Documents : files[d].intact
    /\ \A d \in Documents : Promoted(files[d]) =>
          \A p \in Parts : files[d].parts[p] # Absent =>
             index[<<d, KeyOf[p]>>] = ChunkOf(files[d], p)
    /\ \A id \in Ids : index[id] # NoChunk =>
          /\ Promoted(files[id[1]])
          /\ \E p \in PartsAt(files[id[1]], id[2]) : index[id] = ChunkOf(files[id[1]], p)

\* The manifest is that of one whole catalog, all of it intact: no part of a promoted
\* document lost to another with the same semantic key, nothing of one in review, and
\* never some documents without the others - whatever has changed since.
ManifestIsWhole == Describes(manifest, indexed) /\ Describes(chunkFile, built)

\* Deleting before upserting, as index-manifest.md says, the reported chunk ids turn the
\* old manifest into the new one: no stale chunk survives and none is lost.
ListsReplay ==
    LET dropped == [id \in Ids |-> IF id \in DeletedIds(before, manifest) THEN NoChunk
                                   ELSE before[id]]
    IN  phase = "saved" =>
        manifest = [id \in Ids |-> IF id \in UpsertedIds(before, manifest) THEN manifest[id]
                                   ELSE dropped[id]]

\* Who applies the chunk actions of every run has the manifest, unless a run was killed
\* after it replaced the manifest, or the manifest was lost: actions are not a checkpoint.
MirrorFollows == ~missed => mirror = IF phase = "saved" THEN before ELSE manifest
=============================================================================
