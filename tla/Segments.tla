------------------------------ MODULE Segments ------------------------------
(***************************************************************************)
(* Sealed segments beside the live store: publishing a segment with its    *)
(* index artifacts, compaction, vacuum, and the copies made by backup,     *)
(* snapshot and restore (crates/tracedb-query, tracedb-segment,            *)
(* tracedb-index).  Publishing is stepped where a crash or an I/O error    *)
(* leaves different files behind.  How commits reach the disk is the       *)
(* subject of Engine.tla: here every commit is durable and the manifest on *)
(* disk is the handle's manifest whenever no operation is under way.       *)
(***************************************************************************)
EXTENDS Selection, SequencesExt

CONSTANTS
    Keys,       \* record ids, numbered in their order
    Vals,       \* contents of a record
    SegmentIds, \* the ids that callers of publish_segment choose
    MaxEpoch,   \* bound on commits
    MaxGen,     \* bound on manifest generations
    MaxFaults   \* bound on restarts, failed operations and copies

ASSUME SegmentsAssumption ==
    /\ Keys \subseteq Nat /\ IsFiniteSet(Keys)
    /\ {MaxEpoch, MaxGen, MaxFaults} \subseteq Nat
    /\ \A id \in SegmentIds : id[1] # "compact"

VARIABLES
    hot,    \* RecordStore.versions of the open handle
    man,    \* manifest.tdb: latest_epoch, checkpoint_epoch,
            \* manifest_generation, segments, indexes
    segs,   \* segments/: the object in each .tseg file
    idxs,   \* indexes/: the artifact in each .tidx file
    op,     \* the publication or compaction under way
    copy,   \* the directory that backup or snapshot writes
    faults  \* restarts, failures and copies so far

storage == <<hot, man, segs, idxs, op, copy, faults>>

Epoch == 0..MaxEpoch
Idle == [kind |-> "idle"]
NoCopy == [step |-> "none"]

-----------------------------------------------------------------------------
(* Versions *)

Holds(v, e) == v.begin <= e /\ (v.end = 0 \/ v.end > e)

\* visible_record_at: the position of the version a read at e sees (0: none).
VisibleAt(vs, e) == Max({0} \cup {i \in 1..Len(vs) : Holds(vs[i], e) /\ ~vs[i].tomb})

Live(k, e) == VisibleAt(hot[k], e) # 0

\* Closes the newest version and appends the new one.
Written(vs, v) ==
    LET i == Max({0} \cup {j \in 1..Len(vs) : vs[j].end = 0})
    IN  Append(IF i = 0 THEN vs ELSE [vs EXCEPT ![i].end = v.begin], v)

\* Broken: only the live versions reach the checkpoint.
RetainedLive(vs, e) ==
    SelectSeq(vs, LAMBDA v : (v.end = 0 \/ v.end > e) /\ ~(v.tomb /\ v.begin <= e))

\* What a restart keeps of a record: the last version that held at the
\* checkpoint, tombstones included, and what was written after it.
Retained(vs, e) ==
    SubSeq(vs, Max({1} \cup {j \in 1..Len(vs) : Holds(vs[j], e)}), Len(vs))

-----------------------------------------------------------------------------
(* Objects and artifacts *)

\* A segment object is its id, generation and records; its checksum stands for
\* all of them, so that an object is its own checksum.
SegmentRecord(k, v) == [key |-> k, ver |-> v.begin, val |-> v.val]

SegmentObject(id, g, recs) == [id |-> id, gen |-> g, recs |-> recs]

\* visible_records_at, in record order
HotRows(e) ==
    LET live == Ascending({k \in Keys : Live(k, e)})
    IN  [i \in 1..Len(live) |->
            SegmentRecord(live[i], hot[live[i]][VisibleAt(hot[live[i]], e)])]

\* segment_records_for_snapshot
SnapshotRecords == HotRows(man.epoch)

\* The artifacts of an object, in the order they are built: primary and policy
\* bitmaps always, text and vectors when some record has one.
IndexKinds(obj) ==
    IF obj.recs = <<>> THEN <<"policy">> ELSE <<"policy", "vector">>

\* index_id, which names the .tidx file
IndexId(obj, kind) == [seg |-> obj.id, kind |-> kind, gen |-> obj.gen]

\* IndexArtifact and its IndexManifest: both carry the checksum of the segment
\* they were built from and of their own payload.
Artifact(obj, parent) == [src |-> obj, parent |-> parent]

IndexManifest(obj, kind, parent) ==
    [id |-> IndexId(obj, kind), src |-> obj, parent |-> parent]

Put1(f, x, y) == [z \in DOMAIN f \cup {x} |-> IF z = x THEN y ELSE f[z]]

Manifested == {man.segs[i].id : i \in 1..Len(man.segs)}

-----------------------------------------------------------------------------
(* Commits, checkpoints and restarts *)

Init ==
    /\ hot = [k \in Keys |-> <<>>]
    /\ man = [epoch |-> 0, chk |-> 0, gen |-> 1, segs |-> <<>>, idxs |-> {}]
    /\ segs = <<>> /\ idxs = <<>>
    /\ op = Idle
    /\ copy = NoCopy
    /\ faults = 0

\* Broken: a copy does not keep writers out.
AvailableAlways == op = Idle

\* The handle is free for &mut self: no operation is under way, and no copy
\* holds the server's read lock.
Available == op = Idle /\ copy.step \in {"none", "done"}

\* bump_manifest
Commit(k, v) ==
    /\ Available
    /\ man.epoch < MaxEpoch /\ man.gen < MaxGen
    /\ hot' = [hot EXCEPT ![k] = Written(@, v)]
    /\ man' = [man EXCEPT !.epoch = @ + 1, !.gen = @ + 1]
    /\ UNCHANGED <<segs, idxs, op, copy, faults>>

PutRecord(k, val) ==
    Commit(k, [begin |-> man.epoch + 1, end |-> 0, tomb |-> FALSE, val |-> val])

DeleteRecord(k) ==
    /\ Live(k, man.epoch)
    /\ Commit(k, [hot[k][VisibleAt(hot[k], man.epoch)] EXCEPT
                    !.begin = man.epoch + 1, !.end = 0, !.tomb = TRUE])

Checkpoint ==
    /\ Available
    /\ man.chk < man.epoch /\ man.gen < MaxGen
    /\ man' = [man EXCEPT !.chk = man.epoch, !.gen = @ + 1]
    /\ UNCHANGED <<hot, segs, idxs, op, copy, faults>>

\* The process ends, in the middle of an operation or not, and the directory is
\* opened again.  A copy that was being written is abandoned.
Restart ==
    /\ faults < MaxFaults /\ faults' = faults + 1
    /\ hot' = [k \in Keys |-> Retained(hot[k], man.chk)]
    /\ op' = Idle
    /\ copy' = IF copy.step = "done" THEN copy ELSE NoCopy
    /\ UNCHANGED <<man, segs, idxs>>

-----------------------------------------------------------------------------
(* Publication *)

\* publish_segment_records: a file of that name that a failed publication left
\* behind is used as it is.
WriteSegment(kind, id, g) ==
    LET obj == IF id \in DOMAIN segs THEN segs[id]
               ELSE SegmentObject(id, g, SnapshotRecords)
    IN  /\ segs' = Put1(segs, id, obj)
        /\ op' = [kind |-> kind, obj |-> obj, parent |-> man.gen,
                  left |-> IndexKinds(obj), done |-> {}]
        /\ UNCHANGED <<hot, man, idxs, copy, faults>>

PublishSegment(id) ==
    /\ Available
    /\ man.gen < MaxGen
    /\ id \notin Manifested
    /\ WriteSegment("publish", id, Len(man.segs) + 1)

\* A segment the manifest already has is verified and nothing else.
PublishAgain(id) ==
    /\ Available
    /\ id \in Manifested
    /\ segs[id].gen = man.segs[SelectInSeq(man.segs, LAMBDA s : s.id = id)].gen
    /\ UNCHANGED storage

Compact ==
    /\ Available
    /\ man.gen < MaxGen
    /\ LET id == <<"compact", man.epoch, man.gen + 1>>
       IN  id \notin Manifested /\ WriteSegment("compact", id, man.gen + 1)

\* write_index_artifact of the next artifact
WriteIndex ==
    /\ op.kind # "idle" /\ op.left # <<>>
    /\ LET entry == IndexManifest(op.obj, Head(op.left), op.parent)
       IN  /\ idxs' = Put1(idxs, entry.id, Artifact(op.obj, op.parent))
           /\ op' = [op EXCEPT !.left = Tail(@), !.done = @ \cup {entry}]
    /\ UNCHANGED <<hot, man, segs, copy, faults>>

\* The manifest entry of a segment.
SegmentManifest(obj) == [id |-> obj.id, gen |-> obj.gen]

\* The manifest that names the new segment; a compaction drops the segments
\* it replaces and their indexes.
PublishManifest ==
    /\ op.kind # "idle" /\ op.left = <<>>
    /\ man' = [man EXCEPT
                 !.segs = Append(IF op.kind = "compact" THEN <<>> ELSE @,
                                 SegmentManifest(op.obj)),
                 !.idxs = (IF op.kind = "compact" THEN {} ELSE @) \cup op.done,
                 !.gen = @ + 1]
    /\ op' = Idle
    /\ UNCHANGED <<hot, segs, idxs, copy, faults>>

\* A write fails and the error is returned; the files stay.
PublishFails ==
    /\ faults < MaxFaults /\ faults' = faults + 1
    /\ op.kind # "idle"
    /\ op' = Idle
    /\ UNCHANGED <<hot, man, segs, idxs, copy>>

-----------------------------------------------------------------------------
(* Vacuum *)

ReferencedIndexes == {entry.id : entry \in man.idxs}

\* Broken: keeps only the newest segment.
UnreferencedButNewest ==
    [segs |-> DOMAIN segs \ (IF man.segs = <<>> THEN {} ELSE {Last(man.segs).id}),
     idxs |-> DOMAIN idxs \ ReferencedIndexes]

Unreferenced ==
    [segs |-> DOMAIN segs \ Manifested, idxs |-> DOMAIN idxs \ ReferencedIndexes]

\* Removes unreferenced files, segments before indexes; an error half way
\* leaves the rest.
Vacuum ==
    /\ Available
    /\ \E s \in SUBSET Unreferenced.segs, x \in SUBSET Unreferenced.idxs :
        /\ x # {} => s = Unreferenced.segs
        /\ faults' = IF x = Unreferenced.idxs THEN faults ELSE faults + 1
        /\ faults' <= MaxFaults
        /\ segs' = [id \in DOMAIN segs \ s |-> segs[id]]
        /\ idxs' = [id \in DOMAIN idxs \ x |-> idxs[id]]
    /\ UNCHANGED <<hot, man, op, copy>>

-----------------------------------------------------------------------------
(* Backup, snapshot and restore: the directory is copied entry by entry. *)

CopyManifest ==
    /\ faults < MaxFaults /\ faults' = faults + 1
    /\ Available
    /\ copy' = [step |-> "wal", man |-> man]
    /\ UNCHANGED <<hot, man, segs, idxs, op>>

\* The WAL holds the commits after the last checkpoint.
CopyWal ==
    /\ copy.step = "wal"
    /\ copy' = [step |-> "artifacts", man |-> copy.man,
                wal |-> [from |-> man.chk, epoch |-> man.epoch]]
    /\ UNCHANGED <<hot, man, segs, idxs, op, faults>>

CopyArtifacts ==
    /\ copy.step = "artifacts"
    /\ copy' = [step |-> "checkpoints", man |-> copy.man, wal |-> copy.wal,
                segs |-> segs, idxs |-> idxs]
    /\ UNCHANGED <<hot, man, segs, idxs, op, faults>>

\* The last entry: checkpoints.  The records are those of checkpoint and WAL.
CopyCheckpoints ==
    /\ copy.step = "checkpoints"
    /\ copy' = [step |-> "done", man |-> copy.man, wal |-> copy.wal,
                segs |-> copy.segs, idxs |-> copy.idxs,
                hot |-> [k \in Keys |-> Retained(hot[k], man.chk)]]
    /\ UNCHANGED <<hot, man, segs, idxs, op, faults>>

\* restore_dir copies a finished copy to its place and opens it.
Restore ==
    /\ op = Idle /\ copy.step = "done"
    /\ hot' = copy.hot
    /\ man' = copy.man
    /\ segs' = copy.segs
    /\ idxs' = copy.idxs
    /\ UNCHANGED <<op, copy, faults>>

Write ==
    \/ \E k \in Keys, val \in Vals : PutRecord(k, val)
    \/ \E k \in Keys : DeleteRecord(k)
    \/ Checkpoint

Publication ==
    \/ \E id \in SegmentIds : PublishSegment(id)
    \/ \E id \in SegmentIds : PublishAgain(id)
    \/ Compact
    \/ WriteIndex
    \/ PublishManifest
    \/ PublishFails

Copying == CopyManifest \/ CopyWal \/ CopyArtifacts \/ CopyCheckpoints

-----------------------------------------------------------------------------
(* Properties *)

\* read_segment_object and validate_ready_indexes_for_segment: the file of a
\* segment is there with the generation the manifest gives it, and the file of
\* each of its indexes was built from that very object.
Verifies(m, files, artifacts) ==
    /\ \A i \in 1..Len(m.segs) :
        /\ m.segs[i].id \in DOMAIN files
        /\ files[m.segs[i].id].gen = m.segs[i].gen
    /\ \A entry \in m.idxs :
        /\ entry.id.seg \in {m.segs[i].id : i \in 1..Len(m.segs)}
        /\ entry.id \in DOMAIN artifacts
        /\ artifacts[entry.id] = Artifact(entry.src, entry.parent)
        /\ files[entry.id.seg] = entry.src

\* Whatever publication, compaction or vacuum was interrupted and whatever was
\* tried again after it, the manifest names only segments and indexes whose
\* files are there and verify (sealed reads fail or skip them otherwise).
ManifestVerifies == Verifies(man, segs, idxs)

\* A finished backup or snapshot opens to the state it was taken from: its WAL
\* starts where the checkpoint its manifest names ends and reaches the
\* manifest's epoch, and the artifacts its manifest names are in it.
CopyIsConsistent ==
    copy.step = "done" =>
        /\ copy.wal.from = copy.man.chk
        /\ copy.wal.epoch = copy.man.epoch
        /\ Verifies(copy.man, copy.segs, copy.idxs)
=============================================================================
