--------------------------- MODULE SegmentsProofs ---------------------------
(***************************************************************************)
(* Sealed segments, copies of the directory and the reads over them, for   *)
(* every value of the constants: the manifest names only files that        *)
(* verify, a finished backup or snapshot opens to the state it was taken   *)
(* from, the lexical cache is bounded and changes no score, scans follow   *)
(* one snapshot, cursors stay among the records, and a query answers every *)
(* record it should and none that is hidden or deleted.                    *)
(***************************************************************************)
EXTENDS Query, FiniteSetTheorems, TLAPS

\* The ids of segments: what callers choose, and what compaction makes up.
Ids == SegmentIds \cup ({"compact"} \X Nat \X Nat)

\* A manifest has its fields, and a segment file holds the object of its name.
Shape(m, files) ==
    /\ m = [epoch |-> m.epoch, chk |-> m.chk, gen |-> m.gen, segs |-> m.segs,
            idxs |-> m.idxs]
    /\ m.epoch \in Nat /\ m.gen \in Nat
    /\ m.segs \in Seq([id : Ids, gen : Nat])
    /\ \A id \in DOMAIN files : id \in Ids /\ files[id].id = id /\ files[id].gen \in Nat

\* The publication under way has written its segment, which the manifest does
\* not name yet, and the artifacts it is done with.
PublicationShape ==
    /\ op.kind = "idle" => op = Idle
    /\ op.kind # "idle" =>
        /\ op = [kind |-> op.kind, obj |-> op.obj, parent |-> op.parent,
                 left |-> op.left, done |-> op.done]
        /\ op.obj.id \in DOMAIN segs /\ segs[op.obj.id] = op.obj
        /\ op.obj.id \notin Manifested
        /\ \A entry \in op.done :
            /\ entry.id.seg = op.obj.id /\ entry.src = op.obj /\ entry.parent = op.parent
            /\ entry.id \in DOMAIN idxs
            /\ idxs[entry.id] = Artifact(op.obj, op.parent)

\* What has been copied is what is there, until the copy is finished.
CopyShape ==
    /\ copy.step \in {"none", "wal", "artifacts", "checkpoints", "done"}
    /\ copy.step \in {"wal", "artifacts", "checkpoints"} => op = Idle /\ copy.man = man
    /\ copy.step \in {"artifacts", "checkpoints"} =>
          copy.wal = [from |-> man.chk, epoch |-> man.epoch]
    /\ copy.step = "checkpoints" => copy.segs = segs /\ copy.idxs = idxs
    /\ copy.step = "done" => Shape(copy.man, copy.segs)

SegmentsInv ==
    Shape(man, segs) /\ PublicationShape /\ CopyShape /\ ManifestVerifies /\ CopyIsConsistent

\* The initial state satisfies the invariant.
LEMMA SegmentsInit == QueryInit => SegmentsInv
<1> SUFFICES ASSUME QueryInit PROVE SegmentsInv
  OBVIOUS
<1>1. /\ man = [epoch |-> 0, chk |-> 0, gen |-> 1, segs |-> <<>>, idxs |-> {}]
      /\ segs = <<>> /\ op = Idle /\ copy = NoCopy
  BY DEF QueryInit, Init
<1>2. Len(man.segs) = 0 /\ man.idxs = {} /\ man.segs \in Seq([id : Ids, gen : Nat])
  BY <1>1
<1>3. Shape(man, segs)
  BY <1>1, <1>2 DEF Shape
<1>4. PublicationShape /\ CopyShape /\ CopyIsConsistent
  BY <1>1 DEF PublicationShape, CopyShape, CopyIsConsistent, Idle, NoCopy
<1>5. ManifestVerifies
  BY <1>2 DEF ManifestVerifies, Verifies
<1> QED
  BY <1>3, <1>4, <1>5 DEF SegmentsInv

\* A commit or a checkpoint moves the epochs and the generation of the
\* manifest, while nothing is published or copied.
LEMMA WriteKeeps ==
    ASSUME SegmentsInv, Write PROVE SegmentsInv'
<1>1. /\ Available /\ UNCHANGED <<segs, idxs, op, copy>>
      /\ \/ man' = [man EXCEPT !.epoch = @ + 1, !.gen = @ + 1]
         \/ man' = [man EXCEPT !.chk = man.epoch, !.gen = @ + 1]
  BY DEF Write, PutRecord, DeleteRecord, Commit, Checkpoint
<1>2. /\ man = [epoch |-> man.epoch, chk |-> man.chk, gen |-> man.gen, segs |-> man.segs,
                idxs |-> man.idxs]
      /\ man.epoch \in Nat /\ man.gen \in Nat
  BY DEF SegmentsInv, Shape
<1>3. /\ man' = [epoch |-> man'.epoch, chk |-> man'.chk, gen |-> man'.gen,
                 segs |-> man'.segs, idxs |-> man'.idxs]
      /\ man'.segs = man.segs /\ man'.idxs = man.idxs
      /\ man'.epoch \in Nat /\ man'.gen \in Nat
  <2>0. PICK e, c, g, s, x :
          /\ man = [epoch |-> e, chk |-> c, gen |-> g, segs |-> s, idxs |-> x]
          /\ e \in Nat /\ g \in Nat
    BY <1>2
  <2>1. CASE man' = [man EXCEPT !.epoch = @ + 1, !.gen = @ + 1]
    <3>1. man' = [epoch |-> e + 1, chk |-> c, gen |-> g + 1, segs |-> s, idxs |-> x]
      BY <2>0, <2>1
    <3> QED
      BY <2>0, <3>1
  <2>2. CASE man' = [man EXCEPT !.chk = man.epoch, !.gen = @ + 1]
    <3>1. man' = [epoch |-> e, chk |-> e, gen |-> g + 1, segs |-> s, idxs |-> x]
      BY <2>0, <2>2
    <3> QED
      BY <2>0, <3>1
  <2> QED
    BY <1>1, <2>1, <2>2
<1>4. Shape(man, segs)'
  BY <1>1, <1>3 DEF SegmentsInv, Shape
<1>5. PublicationShape' /\ CopyShape' /\ CopyIsConsistent'
  BY <1>1 DEF SegmentsInv, PublicationShape, CopyShape, CopyIsConsistent, Available, Idle
<1>6. ManifestVerifies'
  BY <1>1, <1>3 DEF SegmentsInv, ManifestVerifies, Verifies
<1> QED
  BY <1>4, <1>5, <1>6 DEF SegmentsInv

\* A restart or a failed write abandons what is under way; the files stay.
LEMMA AbandonKeeps ==
    ASSUME SegmentsInv, op' = Idle, UNCHANGED <<man, segs, idxs>>,
           (copy' = copy /\ copy.step \in {"none", "done"}) \/ copy' = NoCopy
    PROVE  SegmentsInv'
<1>1. Shape(man, segs)' /\ ManifestVerifies'
  BY DEF SegmentsInv, Shape, ManifestVerifies
<1>2. PublicationShape'
  BY DEF PublicationShape, Idle
<1>3. CopyShape' /\ CopyIsConsistent'
  BY DEF SegmentsInv, CopyShape, CopyIsConsistent, NoCopy
<1> QED
  BY <1>1, <1>2, <1>3 DEF SegmentsInv

\* The segment file is written, or found; no other file changes.
LEMMA WriteSegmentKeeps ==
    ASSUME SegmentsInv, Available, NEW kind, kind # "idle", NEW id \in Ids,
           id \notin Manifested, NEW g \in Nat, WriteSegment(kind, id, g)
    PROVE  SegmentsInv'
<1> DEFINE obj == IF id \in DOMAIN segs THEN segs[id] ELSE SegmentObject(id, g, SnapshotRecords)
<1>1. /\ segs' = Put1(segs, id, obj)
      /\ op' = [kind |-> kind, obj |-> obj, parent |-> man.gen,
                left |-> IndexKinds(obj), done |-> {}]
      /\ UNCHANGED <<man, idxs, copy>>
  BY DEF WriteSegment
<1>2. obj.id = id /\ obj.gen \in Nat /\ (id \in DOMAIN segs => obj = segs[id])
  BY DEF SegmentsInv, Shape, SegmentObject
<1> HIDE DEF obj
<1>3. /\ DOMAIN segs' = DOMAIN segs \cup {id} /\ segs'[id] = obj
      /\ \A z \in DOMAIN segs : segs'[z] = segs[z]
  BY <1>1, <1>2 DEF Put1
<1>4. Shape(man, segs)'
  BY <1>1, <1>2, <1>3 DEF SegmentsInv, Shape
<1>5. PublicationShape'
  <2>1. /\ op'.kind = kind /\ op'.obj = obj /\ op'.parent = man.gen
        /\ op'.left = IndexKinds(obj) /\ op'.done = {}
    BY <1>1
  <2>2. obj.id \notin Manifested'
    BY <1>1, <1>2 DEF Manifested
  <2> QED
    BY <1>1, <1>2, <1>3, <2>1, <2>2 DEF PublicationShape
<1>6. CopyShape' /\ CopyIsConsistent'
  BY <1>1 DEF SegmentsInv, CopyShape, CopyIsConsistent, Available
<1>7. ManifestVerifies'
  BY <1>1, <1>3 DEF SegmentsInv, ManifestVerifies, Verifies
<1> QED
  BY <1>4, <1>5, <1>6, <1>7 DEF SegmentsInv

\* The file of an artifact is not one that the manifest names.
LEMMA WriteIndexKeeps ==
    ASSUME SegmentsInv, WriteIndex PROVE SegmentsInv'
<1> DEFINE entry == IndexManifest(op.obj, Head(op.left), op.parent)
           art == Artifact(op.obj, op.parent)
<1>1. /\ op.kind # "idle" /\ idxs' = Put1(idxs, entry.id, art)
      /\ op' = [op EXCEPT !.left = Tail(@), !.done = @ \cup {entry}]
      /\ UNCHANGED <<man, segs, copy>>
  BY DEF WriteIndex
<1>2. entry.id.seg = op.obj.id /\ entry.src = op.obj /\ entry.parent = op.parent
  BY DEF IndexManifest, IndexId
<1> HIDE DEF entry, art
<1>3. /\ DOMAIN idxs' = DOMAIN idxs \cup {entry.id} /\ idxs'[entry.id] = art
      /\ \A z \in DOMAIN idxs : z # entry.id => idxs'[z] = idxs[z]
  BY <1>1 DEF Put1
<1>4. /\ op = [kind |-> op.kind, obj |-> op.obj, parent |-> op.parent,
               left |-> op.left, done |-> op.done]
      /\ op.obj.id \in DOMAIN segs /\ segs[op.obj.id] = op.obj /\ op.obj.id \notin Manifested
  BY <1>1 DEF SegmentsInv, PublicationShape
<1>5. /\ op'.kind = op.kind /\ op'.obj = op.obj /\ op'.parent = op.parent
      /\ op'.left = Tail(op.left) /\ op'.done = op.done \cup {entry}
      /\ op' = [kind |-> op'.kind, obj |-> op'.obj, parent |-> op'.parent,
                left |-> op'.left, done |-> op'.done]
  BY <1>1, <1>4
<1>6. PublicationShape'
  <2>1. ASSUME NEW x \in op'.done
        PROVE  /\ x.id.seg = op.obj.id /\ x.src = op.obj /\ x.parent = op.parent
               /\ x.id \in DOMAIN idxs' /\ idxs'[x.id] = art
    <3>1. CASE x = entry
      BY <1>2, <1>3, <3>1
    <3>2. CASE x \in op.done
      <4>1. /\ x.id.seg = op.obj.id /\ x.src = op.obj /\ x.parent = op.parent
            /\ x.id \in DOMAIN idxs /\ idxs[x.id] = art
        BY <1>1, <3>2 DEF SegmentsInv, PublicationShape, art
      <4> QED
        BY <1>3, <4>1
    <3> QED
      BY <1>5, <3>1, <3>2
  <2>2. Manifested' = Manifested
    BY <1>1 DEF Manifested
  <2> QED
    BY <1>1, <1>4, <1>5, <2>1, <2>2 DEF PublicationShape, art
<1>7. Shape(man, segs)'
  BY <1>1 DEF SegmentsInv, Shape
<1>8. CopyShape' /\ CopyIsConsistent'
  BY <1>1 DEF SegmentsInv, CopyShape, CopyIsConsistent, Idle
<1>9. ManifestVerifies'
  <2>1. ASSUME NEW x \in man.idxs
        PROVE  x.id \in DOMAIN idxs' /\ idxs'[x.id] = Artifact(x.src, x.parent)
    <3>1. /\ x.id.seg \in Manifested /\ x.id \in DOMAIN idxs
          /\ idxs[x.id] = Artifact(x.src, x.parent)
      BY DEF SegmentsInv, ManifestVerifies, Verifies, Manifested
    <3>2. x.id # entry.id
      BY <1>2, <1>4, <3>1
    <3> QED
      BY <1>3, <3>1, <3>2
  <2> QED
    BY <1>1, <2>1 DEF SegmentsInv, ManifestVerifies, Verifies
<1> QED
  BY <1>6, <1>7, <1>8, <1>9 DEF SegmentsInv

\* The manifest names the new segment beside the others, or instead of them.
LEMMA PublishKeeps ==
    ASSUME SegmentsInv, PublishManifest PROVE SegmentsInv'
<1> DEFINE m0 == IF op.kind = "compact" THEN <<>> ELSE man.segs
           x0 == IF op.kind = "compact" THEN {} ELSE man.idxs
           new == SegmentManifest(op.obj)
<1>1. /\ op.kind # "idle" /\ op' = Idle /\ UNCHANGED <<segs, idxs, copy>>
      /\ man' = [man EXCEPT !.segs = Append(m0, new), !.idxs = x0 \cup op.done, !.gen = @ + 1]
  BY DEF PublishManifest
<1>2. /\ man = [epoch |-> man.epoch, chk |-> man.chk, gen |-> man.gen, segs |-> man.segs,
                idxs |-> man.idxs]
      /\ man.epoch \in Nat /\ man.gen \in Nat /\ man.segs \in Seq([id : Ids, gen : Nat])
      /\ op.obj.id \in DOMAIN segs /\ segs[op.obj.id] = op.obj
      /\ op.obj.id \in Ids /\ op.obj.gen \in Nat
  BY <1>1 DEF SegmentsInv, Shape, PublicationShape
<1>3. /\ m0 \in Seq([id : Ids, gen : Nat]) /\ new \in [id : Ids, gen : Nat]
      /\ new.id = op.obj.id /\ new.gen = op.obj.gen
      /\ \A i \in 1..Len(m0) : /\ m0[i].id \in DOMAIN segs /\ segs[m0[i].id].gen = m0[i].gen
  BY <1>2 DEF SegmentManifest, SegmentsInv, ManifestVerifies, Verifies
<1>4. \A x \in x0 : /\ x.id.seg \in {m0[i].id : i \in 1..Len(m0)} /\ x.id \in DOMAIN idxs
                    /\ idxs[x.id] = Artifact(x.src, x.parent) /\ segs[x.id.seg] = x.src
  BY DEF SegmentsInv, ManifestVerifies, Verifies
<1> HIDE DEF m0, x0, new
<1>5. /\ man'.segs = Append(m0, new) /\ man'.idxs = x0 \cup op.done
      /\ man'.gen = man.gen + 1 /\ man'.epoch = man.epoch /\ man'.chk = man.chk
      /\ man' = [epoch |-> man'.epoch, chk |-> man'.chk, gen |-> man'.gen,
                 segs |-> man'.segs, idxs |-> man'.idxs]
  BY <1>1, <1>2
<1>6. /\ man'.segs \in Seq([id : Ids, gen : Nat]) /\ Len(man'.segs) = Len(m0) + 1
      /\ Len(m0) \in Nat /\ (\A i \in 1..Len(m0) : man'.segs[i] = m0[i])
      /\ man'.segs[Len(m0) + 1] = new
  BY <1>3, <1>5
<1>7. \A i \in 1..Len(man'.segs) : i \in 1..Len(m0) \/ i = Len(m0) + 1
  BY <1>6
<1>8. /\ \A i \in 1..Len(m0) : i \in 1..Len(man'.segs)
      /\ Len(m0) + 1 \in 1..Len(man'.segs)
  BY <1>6
<1>9. Shape(man, segs)'
  BY <1>1, <1>2, <1>5, <1>6 DEF SegmentsInv, Shape
<1>10. PublicationShape'
  BY <1>1 DEF PublicationShape, Idle
<1>11. CopyShape' /\ CopyIsConsistent'
  BY <1>1 DEF SegmentsInv, CopyShape, CopyIsConsistent, Idle
<1>12. ManifestVerifies'
  <2> DEFINE names == {man'.segs[i].id : i \in 1..Len(man'.segs)}
  <2>1. op.obj.id \in names /\ \A i \in 1..Len(m0) : m0[i].id \in names
    BY <1>3, <1>6, <1>8
  <2>2. ASSUME NEW x \in man'.idxs
        PROVE  /\ x.id.seg \in names /\ x.id \in DOMAIN idxs
               /\ idxs[x.id] = Artifact(x.src, x.parent) /\ segs[x.id.seg] = x.src
    <3>1. CASE x \in x0
      BY <1>4, <2>1, <3>1
    <3>2. CASE x \in op.done
      <4>1. /\ x.id.seg = op.obj.id /\ x.src = op.obj /\ x.parent = op.parent
            /\ x.id \in DOMAIN idxs /\ idxs[x.id] = Artifact(op.obj, op.parent)
        BY <1>1, <3>2 DEF SegmentsInv, PublicationShape
      <4> QED
        BY <1>2, <2>1, <4>1
    <3> QED
      BY <1>5, <3>1, <3>2
  <2>3. ASSUME NEW i \in 1..Len(man'.segs)
        PROVE  man'.segs[i].id \in DOMAIN segs /\ segs[man'.segs[i].id].gen = man'.segs[i].gen
    BY <1>2, <1>3, <1>6, <1>7
  <2> QED
    BY <1>1, <2>2, <2>3 DEF ManifestVerifies, Verifies
<1> QED
  BY <1>9, <1>10, <1>11, <1>12 DEF SegmentsInv

\* Vacuum removes only files that the manifest does not name.
LEMMA VacuumKeeps ==
    ASSUME SegmentsInv, Vacuum PROVE SegmentsInv'
<1>1. PICK s \in SUBSET Unreferenced.segs, x \in SUBSET Unreferenced.idxs :
        /\ segs' = [id \in DOMAIN segs \ s |-> segs[id]]
        /\ idxs' = [id \in DOMAIN idxs \ x |-> idxs[id]]
  BY DEF Vacuum
<1>2. Available /\ UNCHANGED <<man, op, copy>>
  BY DEF Vacuum
<1>3. s \cap Manifested = {} /\ x \cap ReferencedIndexes = {}
  BY <1>1 DEF Unreferenced
<1>4. Shape(man, segs)' /\ PublicationShape' /\ CopyShape' /\ CopyIsConsistent'
  BY <1>1, <1>2 DEF SegmentsInv, Shape, PublicationShape, CopyShape, CopyIsConsistent,
     Available, Idle
<1>5. ManifestVerifies'
  <2>1. \A i \in 1..Len(man.segs) : man.segs[i].id \in Manifested
    BY DEF Manifested
  <2>2. \A e \in man.idxs : e.id \in ReferencedIndexes /\ e.id.seg \in Manifested
                            /\ e.id.seg \in DOMAIN segs
    BY DEF ReferencedIndexes, SegmentsInv, ManifestVerifies, Verifies, Manifested
  <2>3. Manifested' = Manifested
    BY <1>2 DEF Manifested
  <2>4. \A id \in DOMAIN segs \cap Manifested : id \in DOMAIN segs' /\ segs'[id] = segs[id]
    BY <1>1, <1>3
  <2>5. \A id \in DOMAIN idxs \cap ReferencedIndexes : id \in DOMAIN idxs' /\ idxs'[id] = idxs[id]
    BY <1>1, <1>3
  <2> QED
    BY <1>2, <2>1, <2>2, <2>4, <2>5 DEF SegmentsInv, ManifestVerifies, Verifies
<1> QED
  BY <1>4, <1>5 DEF SegmentsInv

\* The steps of a copy, and its restoration.
LEMMA CopyingKeeps ==
    ASSUME SegmentsInv, Copying PROVE SegmentsInv'
<1>1. UNCHANGED <<man, segs, idxs, op>>
  BY DEF Copying, CopyManifest, CopyWal, CopyArtifacts, CopyCheckpoints
<1>2. Shape(man, segs)' /\ PublicationShape' /\ ManifestVerifies'
  BY <1>1 DEF SegmentsInv, Shape, PublicationShape, Manifested, ManifestVerifies
<1>3. CASE CopyManifest
  <2>1. op = Idle /\ copy' = [step |-> "wal", man |-> man]
    BY <1>3 DEF CopyManifest, Available
  <2> QED
    BY <1>1, <1>2, <2>1 DEF SegmentsInv, CopyShape, CopyIsConsistent
<1>4. CASE CopyWal
  <2>1. /\ op = Idle /\ copy.man = man
        /\ copy' = [step |-> "artifacts", man |-> copy.man,
                    wal |-> [from |-> man.chk, epoch |-> man.epoch]]
    BY <1>4 DEF CopyWal, SegmentsInv, CopyShape
  <2> QED
    BY <1>1, <1>2, <2>1 DEF SegmentsInv, CopyShape, CopyIsConsistent
<1>5. CASE CopyArtifacts
  <2>1. /\ op = Idle /\ copy.man = man
        /\ copy.wal = [from |-> man.chk, epoch |-> man.epoch]
        /\ copy' = [step |-> "checkpoints", man |-> copy.man, wal |-> copy.wal,
                    segs |-> segs, idxs |-> idxs]
    BY <1>5 DEF CopyArtifacts, SegmentsInv, CopyShape
  <2> QED
    BY <1>1, <1>2, <2>1 DEF SegmentsInv, CopyShape, CopyIsConsistent
<1>6. CASE CopyCheckpoints
  <2>1. /\ copy.man = man /\ copy.segs = segs /\ copy.idxs = idxs
        /\ copy.wal = [from |-> man.chk, epoch |-> man.epoch]
    BY <1>6 DEF CopyCheckpoints, SegmentsInv, CopyShape
  <2>2. /\ copy'.step = "done" /\ copy'.man = man /\ copy'.segs = segs /\ copy'.idxs = idxs
        /\ copy'.wal = [from |-> man.chk, epoch |-> man.epoch]
    BY <1>6, <2>1 DEF CopyCheckpoints
  <2> QED
    BY <1>1, <1>2, <2>2 DEF SegmentsInv, CopyShape, CopyIsConsistent, Shape, ManifestVerifies
<1> QED
  BY <1>3, <1>4, <1>5, <1>6 DEF Copying

\* A restored copy satisfies what its manifest and files satisfied.
LEMMA RestoreKeeps ==
    ASSUME SegmentsInv, Restore PROVE SegmentsInv'
<1>1. /\ op = Idle /\ copy.step = "done" /\ man' = copy.man /\ segs' = copy.segs
      /\ idxs' = copy.idxs /\ UNCHANGED <<op, copy>>
  BY DEF Restore
<1>2. Shape(copy.man, copy.segs) /\ Verifies(copy.man, copy.segs, copy.idxs)
  BY <1>1 DEF SegmentsInv, CopyShape, CopyIsConsistent
<1>3. Shape(man, segs)' /\ ManifestVerifies'
  BY <1>1, <1>2 DEF Shape, ManifestVerifies
<1>4. PublicationShape' /\ CopyShape' /\ CopyIsConsistent'
  BY <1>1 DEF SegmentsInv, PublicationShape, CopyShape, CopyIsConsistent, Idle
<1> QED
  BY <1>3, <1>4 DEF SegmentsInv

\* Every step of the system keeps the invariant.
LEMMA SegmentsStep == SegmentsInv /\ [Next]_vars => SegmentsInv'
<1> SUFFICES ASSUME SegmentsInv, [Next]_vars PROVE SegmentsInv'
  OBVIOUS
<1>1. CASE UNCHANGED storage
  <2>1. UNCHANGED <<man, segs, idxs, op, copy>>
    BY <1>1 DEF storage
  <2> QED
    BY <2>1 DEF SegmentsInv, Shape, PublicationShape, Manifested, CopyShape, ManifestVerifies,
       CopyIsConsistent
<1>2. CASE \/ \E q \in Queries : StartRead(q)
           \/ NextPage \/ CursorExpired \/ UNCHANGED vars
           \/ \E id \in SegmentIds : PublishAgain(id)
  <2>1. UNCHANGED storage
    BY <1>2 DEF StartRead, NextPage, CursorExpired, ReadPage, PublishAgain, vars
  <2> QED
    BY <1>1, <2>1
<1>3. CASE Write
  BY <1>3, WriteKeeps
<1>4. CASE PublishManifest
  BY <1>4, PublishKeeps
<1>5. CASE \E id \in SegmentIds : PublishSegment(id)
  <2>1. PICK id \in SegmentIds : PublishSegment(id)
    BY <1>5
  <2>2. /\ Available /\ id \notin Manifested /\ id \in Ids
        /\ WriteSegment("publish", id, Len(man.segs) + 1)
    BY <2>1 DEF PublishSegment, Ids
  <2>3. Len(man.segs) + 1 \in Nat
    BY DEF SegmentsInv, Shape
  <2> QED
    BY <2>2, <2>3, WriteSegmentKeeps
<1>6. CASE Compact
  <2> DEFINE id == <<"compact", man.epoch, man.gen + 1>>
  <2>1. Available /\ id \notin Manifested /\ WriteSegment("compact", id, man.gen + 1)
    BY <1>6 DEF Compact
  <2>2. man.epoch \in Nat /\ man.gen + 1 \in Nat
    BY DEF SegmentsInv, Shape
  <2>3. id \in Ids
    BY <2>2 DEF Ids
  <2> HIDE DEF id
  <2> QED
    BY <2>1, <2>2, <2>3, WriteSegmentKeeps
<1>7. CASE WriteIndex
  BY <1>7, WriteIndexKeeps
<1>8. CASE PublishFails
  <2>1. op.kind # "idle" /\ op' = Idle /\ UNCHANGED <<man, segs, idxs, copy>>
    BY <1>8 DEF PublishFails
  <2>2. copy.step \in {"none", "done"}
    BY <2>1 DEF SegmentsInv, CopyShape, Idle
  <2> QED
    BY <2>1, <2>2, AbandonKeeps
<1>9. CASE Restart
  <2>1. /\ op' = Idle /\ UNCHANGED <<man, segs, idxs>>
        /\ copy' = IF copy.step = "done" THEN copy ELSE NoCopy
    BY <1>9 DEF Restart
  <2> QED
    BY <2>1, AbandonKeeps
<1>10. CASE Vacuum
  BY <1>10, VacuumKeeps
<1>11. CASE Copying
  BY <1>11, CopyingKeeps
<1>12. CASE Restore
  BY <1>12, RestoreKeeps
<1> QED
  BY <1>2, <1>3, <1>4, <1>5, <1>6, <1>7, <1>8, <1>9, <1>10, <1>11, <1>12
  DEF Next, StorageStep

\* For any number of commits, publications, compactions, vacuums, copies,
\* failures and restarts: every segment and index that the manifest names has
\* its file, and each index file was built from the segment beside it.
THEOREM ManifestsVerify == Spec => []ManifestVerifies
<1>1. SegmentsInv => ManifestVerifies
  BY DEF SegmentsInv
<1> QED
  BY <1>1, SegmentsInit, SegmentsStep, PTL DEF Spec

\* A finished backup or snapshot has the WAL that belongs to its manifest, and
\* every artifact the manifest names, although it was copied piece by piece.
THEOREM CopiesConsistent == Spec => []CopyIsConsistent
<1>1. SegmentsInv => CopyIsConsistent
  BY DEF SegmentsInv
<1> QED
  BY <1>1, SegmentsInit, SegmentsStep, PTL DEF Spec

-----------------------------------------------------------------------------
(* Scores from a prepared corpus *)

\* The scores above 0.
Positive(s) == Filter(s, LAMBDA r : r.score > 0)

\* Scoring a corpus that was prepared for other terms, from its postings or by
\* scanning it (score_query_with_stats), gives what scoring its documents anew
\* gives (score_corpus_with_stats): for any documents and terms.
THEOREM PreparedScoresAgree ==
    ASSUME NEW terms, NEW made, NEW docs
    PROVE  ScoreQuery(terms, Prepared(made, docs)) = ScoreCorpus(terms, docs)
<1> DEFINE corpus == Prepared(made, docs)
           posts == corpus.postings
           df == [t \in terms |-> Cardinality(Having(docs, t))]
           row(i, tf) == [key |-> docs[i].key,
                          score |-> Bm25(terms, tf, DocLen(docs[i].tf), TotalLen(docs),
                                         Len(docs), df)]
           found(i) == [t \in terms |-> IF i \in DOMAIN posts[t] THEN posts[t][i] ELSE 0]
           anew == [i \in 1..Len(docs) |-> row(i, Counted(terms, docs[i]))]
<1>1. corpus.docs = docs /\ corpus.total = TotalLen(docs) /\ posts = SelectivePostings(made, docs)
  BY DEF Prepared
<1>2. ScoreCorpus(terms, docs) = Positive(anew)
  BY DEF ScoreCorpus, Report, Positive
<1>3. ScoreByScanning(terms, corpus) = Positive(anew)
  <2> HIDE DEF corpus
  <2> QED BY <1>1 DEF ScoreByScanning, Report, Positive
<1>4. ASSUME terms \subseteq DOMAIN posts
      PROVE  ScoreFromPostings(terms, corpus) = Positive(anew)
  <2>1. \A t \in terms : posts[t] = [i \in Having(docs, t) |-> docs[i].tf[t]]
    <3> HIDE DEF corpus
    <3> QED BY <1>1, <1>4 DEF SelectivePostings
  <2>2. [t \in terms |-> Cardinality(DOMAIN posts[t])] = df
    <3> HIDE DEF posts
    <3> QED BY <2>1
  <2>3. \A i \in 1..Len(docs) : found(i) = Counted(terms, docs[i])
    <3> SUFFICES ASSUME NEW i \in 1..Len(docs) PROVE found(i) = Counted(terms, docs[i])
      OBVIOUS
    <3> HIDE DEF posts
    <3>1. \A t \in terms : (IF i \in DOMAIN posts[t] THEN posts[t][i] ELSE 0) = docs[i].tf[t]
      BY <2>1 DEF Having
    <3> QED BY <3>1 DEF Counted
  <2>4. [i \in 1..Len(docs) |-> row(i, found(i))] = anew
    <3> HIDE DEF found, row
    <3> QED BY <2>3
  <2>5. ScoreFromPostings(terms, corpus) = Positive([i \in 1..Len(docs) |-> row(i, found(i))])
    <3> HIDE DEF corpus
    <3> QED BY <1>1, <2>2 DEF ScoreFromPostings, Report, Positive
  <2> QED BY <2>4, <2>5
<1> QED BY <1>2, <1>3, <1>4 DEF ScoreQuery

-----------------------------------------------------------------------------
(* The lexical cache *)

\* The documents of a query, as a function of what they are made from.
LiveRows(h, e) ==
    LET live == Ascending({k \in Keys : VisibleAt(h[k], e) # 0})
    IN  [i \in 1..Len(live) |->
            SegmentRecord(live[i], h[live[i]][VisibleAt(h[live[i]], e)])]

SegmentRows(entries, files) ==
    [i \in 1..Len(entries) |->
        IF entries[i].id \in DOMAIN files THEN files[entries[i].id].recs ELSE <<>>]

Filtered(user, grp, rows) ==
    Filter(rows, LAMBDA r : /\ OracleVisible(r.val.policy, user)
                            /\ grp = "any" \/ r.val.grp = grp)

DocumentsOf(user, grp, h, recs, e) ==
    LET old == Filter(FlattenSeq(recs), LAMBDA r : r.ver <= e)
        rows == Filtered(user, grp, LiveRows(h, e)) \o Filtered(user, grp, old)
    IN  [i \in 1..Len(rows) |-> [key |-> rows[i].key, tf |-> rows[i].val.lex]]

Recs == SegmentRows(man.segs, segs)

DocumentsAre ==
    \A q, e : Documents(q, e) = DocumentsOf(q.user, q.grp, hot, Recs, e)

\* The actor and the predicate are all that they depend on of a query.
LEMMA DocumentsFrom == DocumentsAre
<1>1. \A e : HotRows(e) = LiveRows(hot, e)
  BY DEF HotRows, LiveRows, Live
<1>2. \A e : SealedRows(e) = Filter(FlattenSeq(Recs), LAMBDA r : r.ver <= e)
  BY DEF SealedRows, Recs, SegmentRows
<1>3. \A q, e : /\ Visible(q, e) = Filtered(q.user, q.grp, HotRows(e))
                /\ Sealed(q, e) = Filtered(q.user, q.grp, SealedRows(e))
  BY DEF Visible, Sealed, Filtered, Passes, Filter
<1>4. \A q, e : Documents(q, e) = DocumentsOf(q.user, q.grp, hot, Recs, e)
  <2> TAKE q, e
  <2>1. Visible(q, e) = Filtered(q.user, q.grp, LiveRows(hot, e))
    BY <1>1, <1>3
  <2>2. Sealed(q, e) = Filtered(q.user, q.grp, Filter(FlattenSeq(Recs), LAMBDA r : r.ver <= e))
    BY <1>2, <1>3
  <2> QED BY <2>1, <2>2 DEF Documents, DocumentsOf
<1> QED BY <1>4 DEF DocumentsAre

TextReads == {q \in Queries : q.kind = "query" /\ q.text # {}}

\* The entries that a cache may have: of the latest epoch and generation, with
\* the documents of that epoch.
EntriesOf(m, h, recs) ==
    {[key |-> [epoch |-> m.epoch, gen |-> m.gen, grp |-> q.grp],
      corpus |-> Prepared(q.text, DocumentsOf(q.user, q.grp, h, recs, m.epoch))] :
        q \in TextReads}

CacheInv ==
    /\ cache \in Seq(EntriesOf(man, hot, Recs))
    /\ \/ reader = NoReader
       \/ /\ reader = [on |-> TRUE, q |-> reader.q, epoch |-> reader.epoch,
                       want |-> reader.want, off |-> reader.off, lost |-> reader.lost]
          /\ reader.q \in Queries

\* A set of natural numbers that is not empty has a least element.
LEMMA LeastOf ==
    ASSUME NEW T \in SUBSET Nat, T # {}
    PROVE  \E x \in T : \A y \in T : x <= y
<1>1. IsWellFoundedOn(OpToRel(<, Nat), Nat)
  BY NatLessThanWellFounded
<1>2. PICK x \in T : \A y \in T : ~ (<<y, x>> \in OpToRel(<, Nat))
  BY <1>1, WFMin
<1>3. \A y \in T : ~ (y < x)
  BY <1>2 DEF OpToRel
<1> QED BY <1>3

\* The largest of some numbers up to N.
LEMMA LargestOf ==
    ASSUME NEW N \in Nat, NEW S \in SUBSET (0..N), S # {}
    PROVE  Max(S) \in S /\ \A i \in S : i <= Max(S)
<1> DEFINE T == {N - i : i \in S}
<1>1. T \in SUBSET Nat /\ T # {}
  <2>1. \A i \in S : N - i \in Nat
    OBVIOUS
  <2> QED BY <2>1
<1>2. PICK t \in T : \A u \in T : t <= u
  BY <1>1, LeastOf
<1>3. PICK m \in S : t = N - m
  OBVIOUS
<1>4. \A i \in S : m >= i
  <2> SUFFICES ASSUME NEW i \in S PROVE m >= i
    OBVIOUS
  <2>1. N - m <= N - i
    BY <1>2, <1>3
  <2>2. i \in Int /\ m \in Int
    OBVIOUS
  <2> QED BY <2>1, <2>2
<1>5. \A i \in S : i \in Int
  OBVIOUS
<1> QED BY <1>3, <1>4, <1>5 DEF Max

\* The entry that a query finds.
LEMMA CachedEntry ==
    ASSUME Len(cache) \in Nat, NEW q, Cached(q) # 0
    PROVE  Cached(q) \in 1..Len(cache) /\ cache[Cached(q)].key = CacheKey(q)
<1> DEFINE I == {i \in 1..Len(cache) : cache[i].key = CacheKey(q)}
<1>1. {0} \cup I \in SUBSET (0..Len(cache)) /\ {0} \cup I # {}
  OBVIOUS
<1>2. PICK N, S : N = Len(cache) /\ S = {0} \cup I
  OBVIOUS
<1>3. Max(S) \in S
  BY <1>1, <1>2, LargestOf
<1>4. Cached(q) \in {0} \cup I
  BY <1>2, <1>3 DEF Cached
<1> QED BY <1>4

\* What a read leaves in the cache.
LEMMA ReadCaches ==
    ASSUME CacheInv, NEW q \in Queries, q.kind # "scan"
    PROVE  CacheAfter(q, Documents(q, man.epoch)) \in Seq(EntriesOf(man, hot, Recs))
<1>1. PICK G, cs, i, docs : /\ G = EntriesOf(man, hot, Recs) /\ cs = cache /\ i = Cached(q)
                            /\ docs = Documents(q, man.epoch)
  OBVIOUS
<1>2. cs \in Seq(G) /\ Len(cs) \in Nat
  BY <1>1 DEF CacheInv
<1>3. i # 0 => i \in 1..Len(cs)
  BY <1>1, <1>2, CachedEntry
<1>4. CASE q.text = {}
  BY <1>1, <1>2, <1>4 DEF CacheAfter
<1>5. CASE q.text # {}
  <2>1. PICK x, others, all : /\ x = EntryFor(q, docs) /\ others = OtherEntries(q)
                              /\ all = Append(others, x)
    OBVIOUS
  <2>2. x \in G
    <3>1. CASE i # 0
      BY <1>1, <1>2, <1>3, <2>1, <3>1 DEF EntryFor
    <3>2. CASE i = 0
      <4>1. x = [key |-> CacheKey(q), corpus |-> Prepared(q.text, docs)]
        BY <1>1, <2>1, <3>2 DEF EntryFor
      <4>2. docs = DocumentsOf(q.user, q.grp, hot, Recs, man.epoch)
        BY <1>1, DocumentsFrom DEF DocumentsAre
      <4>3. q \in TextReads
        BY <1>5, QueryAssumption DEF TextReads
      <4> QED BY <1>1, <4>1, <4>2, <4>3 DEF EntriesOf, CacheKey
    <3> QED BY <3>1, <3>2
  <2>3. others \in Seq(G)
    <3>1. CASE i = 0
      BY <1>1, <1>2, <2>1, <3>1 DEF OtherEntries
    <3>2. CASE i # 0
      <4>1. others = SubSeq(cs, 1, i - 1) \o SubSeq(cs, i + 1, Len(cs))
        BY <1>1, <2>1, <3>2 DEF OtherEntries, RemoveAt
      <4>2. SubSeq(cs, 1, i - 1) \in Seq(G) /\ SubSeq(cs, i + 1, Len(cs)) \in Seq(G)
        BY <1>2, <1>3, <3>2
      <4> QED BY <4>1, <4>2
    <3> QED BY <3>1, <3>2
  <2>4. all \in Seq(G) /\ Tail(all) \in Seq(G)
    BY <2>1, <2>2, <2>3
  <2>5. CacheAfter(q, docs) \in {cs, Tail(all), all}
    BY <1>1, <2>1 DEF CacheAfter
  <2> QED BY <1>1, <1>2, <2>4, <2>5
<1> QED BY <1>4, <1>5

\* A read at the latest epoch.
LEMMA ReadKeepsCache ==
    ASSUME CacheInv, NEW q \in Queries, NEW off, NEW want, NEW lost,
           ReadPage(q, man.epoch, off, want, lost)
    PROVE  CacheInv'
<1>1. hot' = hot /\ man' = man /\ segs' = segs
  BY DEF ReadPage, storage
<1>2. Recs' = Recs
  BY <1>1 DEF Recs
<1>3. cache' \in Seq(EntriesOf(man, hot, Recs))
  <2>1. cache' = IF q.kind = "scan" THEN cache ELSE CacheAfter(q, Documents(q, man.epoch))
    BY DEF ReadPage
  <2> QED BY <2>1, ReadCaches DEF CacheInv
<1>4. \/ reader' = NoReader
      \/ \E o : reader' = [on |-> TRUE, q |-> q, epoch |-> man.epoch, want |-> want,
                           off |-> o, lost |-> lost]
  BY DEF ReadPage
<1> QED BY <1>1, <1>2, <1>3, <1>4 DEF CacheInv

\* What the manifest names of the segment files.
LEMMA RecsKept ==
    ASSUME SegmentsInv, man' = man,
           \A id \in Manifested : /\ id \in DOMAIN segs' <=> id \in DOMAIN segs
                                  /\ id \in DOMAIN segs => segs'[id] = segs[id]
    PROVE  Recs' = Recs
<1>1. \A i \in 1..Len(man.segs) : man.segs[i].id \in Manifested
  BY DEF Manifested
<1> QED BY <1>1 DEF Recs, SegmentRows

\* No signed cursor is that of a text query.
PlainTexts == reader.on /\ Signed => reader.q \notin TextReads

\* Reads without a text leave the cache as it is, at every epoch.
LEMMA OtherReadKeepsCache ==
    ASSUME CacheInv, NEW q \in Queries, q \notin TextReads, NEW e, NEW off, NEW want,
           NEW lost, ReadPage(q, e, off, want, lost)
    PROVE  CacheInv'
<1>1. hot' = hot /\ man' = man /\ segs' = segs
  BY DEF ReadPage, storage
<1>2. Recs' = Recs
  BY <1>1 DEF Recs
<1>3. cache' = cache
  <2>1. q.kind = "scan" \/ q.text = {}
    BY QueryAssumption DEF TextReads
  <2> QED BY <2>1 DEF ReadPage, CacheAfter
<1>4. \/ reader' = NoReader
      \/ \E o : reader' = [on |-> TRUE, q |-> q, epoch |-> e, want |-> want,
                           off |-> o, lost |-> lost]
  BY DEF ReadPage
<1> QED BY <1>1, <1>2, <1>3, <1>4 DEF CacheInv

\* Every step keeps the cache if the cursors of texts read the latest epoch.
LEMMA CacheStep ==
    ASSUME PlainTexts, SegmentsInv, CacheInv, [Next]_vars
    PROVE  CacheInv'
<1>1. ASSUME cache' = <<>>, reader' \in {NoReader, reader, ReaderAfterRestart} PROVE CacheInv'
  <2>1. cache' \in Seq(EntriesOf(man, hot, Recs)')
    BY <1>1
  <2>2. CASE reader' = NoReader
    BY <2>1, <2>2 DEF CacheInv
  <2>3. CASE reader' = reader
    BY <2>1, <2>3 DEF CacheInv, NoReader
  <2>4. CASE reader' = ReaderAfterRestart /\ reader # NoReader
    <3>1. PICK q, e, w, o, l :
            /\ q \in Queries
            /\ reader = [on |-> TRUE, q |-> q, epoch |-> e, want |-> w, off |-> o, lost |-> l]
      BY <2>4 DEF CacheInv
    <3>2. reader' = [reader EXCEPT !.lost = @ \/ man.chk > reader.epoch]
      BY <2>4, <3>1 DEF ReaderAfterRestart
    <3>3. \E b : reader' = [on |-> TRUE, q |-> q, epoch |-> e, want |-> w, off |-> o, lost |-> b]
      BY <3>1, <3>2
    <3> QED BY <2>1, <3>1, <3>3 DEF CacheInv
  <2>5. CASE reader' = ReaderAfterRestart /\ reader = NoReader
    BY <2>1, <2>5 DEF CacheInv, ReaderAfterRestart, NoReader
  <2> QED BY <1>1, <2>2, <2>3, <2>4, <2>5
<1>2. ASSUME cache' = cache, reader' \in {NoReader, reader}, hot' = hot, man' = man, Recs' = Recs
      PROVE  CacheInv'
  BY <1>2 DEF CacheInv
<1>3. ASSUME NEW kind, NEW id, NEW g, id \notin Manifested, WriteSegment(kind, id, g)
      PROVE  hot' = hot /\ man' = man /\ Recs' = Recs
  <2>1. PICK obj : segs' = Put1(segs, id, obj)
    BY <1>3 DEF WriteSegment
  <2>2. hot' = hot /\ man' = man
    BY <1>3 DEF WriteSegment
  <2>3. \A z \in Manifested : /\ z \in DOMAIN segs' <=> z \in DOMAIN segs
                              /\ z \in DOMAIN segs => segs'[z] = segs[z]
    BY <1>3, <2>1 DEF Put1
  <2> QED BY <2>2, <2>3, RecsKept
<1>4. CASE (Write \/ PublishManifest \/ \E id \in SegmentIds : PublishAgain(id))
           /\ cache' = <<>> /\ UNCHANGED reader
  BY <1>1, <1>4
<1>5. CASE (Restart /\ cache' = <<>> /\ reader' = ReaderAfterRestart)
           \/ (Restore /\ cache' = <<>> /\ reader' = NoReader)
  BY <1>1, <1>5
<1>6. CASE (\E id \in SegmentIds : PublishSegment(id)) /\ UNCHANGED <<cache, reader>>
  <2>1. PICK id \in SegmentIds : PublishSegment(id)
    BY <1>6
  <2> QED BY <1>2, <1>3, <1>6, <2>1 DEF PublishSegment
<1>7. CASE Compact /\ UNCHANGED <<cache, reader>>
  BY <1>2, <1>3, <1>7 DEF Compact
<1>8. CASE (WriteIndex \/ PublishFails \/ Copying) /\ UNCHANGED <<cache, reader>>
  <2>1. hot' = hot /\ man' = man /\ segs' = segs
    BY <1>8 DEF WriteIndex, PublishFails, Copying, CopyManifest, CopyWal, CopyArtifacts,
                CopyCheckpoints
  <2>2. Recs' = Recs
    BY <2>1 DEF Recs
  <2> QED BY <1>2, <1>8, <2>1, <2>2
<1>9. CASE Vacuum /\ UNCHANGED <<cache, reader>>
  <2>1. PICK s \in SUBSET Unreferenced.segs : segs' = [id \in DOMAIN segs \ s |-> segs[id]]
    BY <1>9 DEF Vacuum
  <2>2. hot' = hot /\ man' = man
    BY <1>9 DEF Vacuum
  <2>3. s \cap Manifested = {}
    BY <2>1 DEF Unreferenced
  <2>4. \A z \in Manifested : /\ z \in DOMAIN segs' <=> z \in DOMAIN segs
                              /\ z \in DOMAIN segs => segs'[z] = segs[z]
    BY <2>1, <2>3
  <2>5. Recs' = Recs
    BY <2>2, <2>4, RecsKept
  <2> QED BY <1>2, <1>9, <2>2, <2>5
<1>10. ASSUME NEW q \in Queries, StartRead(q) PROVE CacheInv'
  BY <1>10, ReadKeepsCache DEF StartRead
<1>11. CASE NextPage
  <2>1. PICK q, e, off, want, lost :
          /\ q = reader.q /\ e = CursorEpoch /\ off = reader.off /\ want = reader.want
          /\ lost = reader.lost
    OBVIOUS
  <2>2. reader.on /\ ReadPage(q, e, off, want, lost)
    BY <1>11, <2>1 DEF NextPage
  <2>3. q \in Queries
    BY <2>1, <2>2 DEF CacheInv, NoReader
  <2>4. CASE Signed
    BY <2>1, <2>2, <2>3, <2>4, OtherReadKeepsCache DEF PlainTexts
  <2>5. CASE ~Signed
    <3>1. e = man.epoch
      BY <2>1, <2>5 DEF CursorEpoch
    <3>2. ReadPage(q, man.epoch, off, want, lost)
      BY <2>2, <3>1
    <3> QED BY <2>3, <3>2, ReadKeepsCache
  <2> QED BY <2>4, <2>5
<1>12. CASE CursorExpired \/ UNCHANGED vars
  <2>1. /\ hot' = hot /\ man' = man /\ segs' = segs /\ cache' = cache
        /\ reader' \in {NoReader, reader}
    BY <1>12 DEF CursorExpired, storage, vars
  <2>2. Recs' = Recs
    BY <2>1 DEF Recs
  <2> QED BY <1>2, <2>1, <2>2
<1> QED
  BY <1>4, <1>5, <1>6, <1>7, <1>8, <1>9, <1>10, <1>11, <1>12 DEF Next, StorageStep

\* Text queries under one predicate come from one actor.
OneTextActor ==
    \A q, r \in TextReads : q.grp = r.grp => q.user = r.user

-----------------------------------------------------------------------------
(* Scans *)

\* R is a strict total order on S.
TotalOrder(R, S) ==
    /\ \A x \in S : <<x, x>> \notin R
    /\ \A x, y, z \in S : <<x, y>> \in R /\ <<y, z>> \in R => <<x, z>> \in R
    /\ \A x, y \in S : x # y => <<x, y>> \in R \/ <<y, x>> \in R

\* The sequence s of the elements of S by their ranks, as Sorted makes it.
ByRank(s, rank, R, S) ==
    /\ rank = [x \in S |-> rank[x]]
    /\ \A x \in S : rank[x] = Cardinality({y \in S : <<y, x>> \in R})
    /\ \A i \in 1..Cardinality(S) :
          (\E x \in S : rank[x] = i - 1) => s[i] \in S /\ rank[s[i]] = i - 1

\* Sorting by ranks gives every element once, in the order.
LEMMA RankSorts ==
    ASSUME NEW S, IsFiniteSet(S), NEW R, TotalOrder(R, S),
           NEW rank, NEW s, ByRank(s, rank, R, S)
    PROVE  /\ \A i, j \in 1..Cardinality(S) : i < j => <<s[i], s[j]>> \in R
           /\ Cardinality(S) \in Nat
           /\ \A i \in 1..Cardinality(S) : s[i] \in S
           /\ \A i, j \in 1..Cardinality(S) : s[i] = s[j] => i = j
           /\ \A x \in S : \E i \in 1..Cardinality(S) : s[i] = x
<1> DEFINE below(x) == {y \in S : <<y, x>> \in R}
<1>1. PICK n \in Nat : n = Cardinality(S)
  BY FS_CardinalityType
<1>2. \A x \in S : /\ IsFiniteSet(below(x)) /\ Cardinality(below(x)) \in Nat
                   /\ Cardinality(below(x)) < n
  <2> SUFFICES ASSUME NEW x \in S
               PROVE  /\ IsFiniteSet(below(x)) /\ Cardinality(below(x)) \in Nat
                      /\ Cardinality(below(x)) < n
    OBVIOUS
  <2>1. below(x) \in SUBSET S /\ x \notin below(x)
    BY DEF TotalOrder
  <2>2. IsFiniteSet(below(x)) /\ Cardinality(below(x)) <= n /\ Cardinality(below(x)) # n
    BY <1>1, <2>1, FS_Subset
  <2>3. Cardinality(below(x)) \in Nat
    BY <2>2, FS_CardinalityType
  <2> QED BY <2>2, <2>3
<1>3. \A x, y \in S : <<x, y>> \in R => Cardinality(below(x)) < Cardinality(below(y))
  <2> SUFFICES ASSUME NEW x \in S, NEW y \in S, <<x, y>> \in R
               PROVE  Cardinality(below(x)) < Cardinality(below(y))
    OBVIOUS
  <2>1. below(x) \in SUBSET below(y) /\ x \in below(y) /\ x \notin below(x)
    BY DEF TotalOrder
  <2>2. /\ Cardinality(below(x)) <= Cardinality(below(y))
        /\ Cardinality(below(x)) # Cardinality(below(y))
    BY <1>2, <2>1, FS_Subset
  <2>3. Cardinality(below(x)) \in Nat /\ Cardinality(below(y)) \in Nat
    BY <1>2
  <2> QED BY <2>2, <2>3
<1>r. \A x \in S : rank[x] = Cardinality(below(x))
  BY DEF ByRank
<1> HIDE DEF below
<1>4. \A x, y \in S : rank[x] = rank[y] => x = y
  <2> SUFFICES ASSUME NEW x \in S, NEW y \in S, x # y
               PROVE  Cardinality(below(x)) # Cardinality(below(y))
    BY <1>r
  <2>1. <<x, y>> \in R \/ <<y, x>> \in R
    BY DEF TotalOrder
  <2> QED BY <1>2, <1>3, <2>1
<1>5. rank \in Injection(S, 0..n-1)
  <2>1. \A x \in S : rank[x] \in 0..n-1
    BY <1>2, <1>r
  <2>2. rank \in [S -> 0..n-1]
    BY <2>1 DEF ByRank
  <2> QED BY <1>4, <2>2 DEF Injection, IsInjective
<1>6. IsFiniteSet(0..n-1) /\ Cardinality(0..n-1) = n
  BY FS_Interval
<1>7. rank \in Surjection(S, 0..n-1)
  BY <1>1, <1>5, <1>6, FS_Injection
<1>8. \A i \in 1..n : \E x \in S : rank[x] = i - 1
  <2> SUFFICES ASSUME NEW i \in 1..n PROVE \E x \in S : rank[x] = i - 1
    OBVIOUS
  <2>1. i - 1 \in 0..n-1
    OBVIOUS
  <2> QED BY <1>7, <2>1 DEF Surjection
<1>9. \A i \in 1..n : s[i] \in S /\ rank[s[i]] = i - 1
  BY <1>1, <1>8 DEF ByRank
<1>10. \A i, j \in 1..n : s[i] = s[j] => i = j
  <2> SUFFICES ASSUME NEW i \in 1..n, NEW j \in 1..n, s[i] = s[j] PROVE i = j
    OBVIOUS
  <2>1. i - 1 = j - 1
    BY <1>9
  <2> QED BY <2>1
<1>11. ASSUME NEW x \in S PROVE \E i \in 1..n : s[i] = x
  <2>1. rank[x] \in 0..n-1
    BY <1>5 DEF Injection
  <2>2. PICK i : i = rank[x] + 1
    OBVIOUS
  <2>3. i \in 1..n /\ i - 1 = rank[x]
    BY <2>1, <2>2
  <2> QED BY <1>4, <1>9, <2>3
<1>12. ASSUME NEW i \in 1..n, NEW j \in 1..n, i < j PROVE <<s[i], s[j]>> \in R
  <2>1. PICK x, y : x = s[i] /\ y = s[j] /\ x \in S /\ y \in S /\ x # y
    BY <1>9, <1>10, <1>12
  <2>2. rank[x] = i - 1 /\ rank[y] = j - 1
    BY <1>9, <2>1
  <2>3. <<y, x>> \in R => rank[y] < rank[x]
    BY <1>3, <1>r, <2>1
  <2>4. <<x, y>> \in R \/ <<y, x>> \in R
    BY <2>1 DEF TotalOrder
  <2> QED BY <1>12, <2>1, <2>2, <2>3, <2>4
<1> QED BY <1>1, <1>9, <1>10, <1>11, <1>12

\* A finite set arranged in a total order: every element once.
LEMMA ArrangedIn ==
    ASSUME NEW S, IsFiniteSet(S), NEW R, TotalOrder(R, S), NEW s, s = Arranged(S, R)
    PROVE  /\ Cardinality(S) \in Nat
           /\ s = [i \in 1..Cardinality(S) |-> s[i]]
           /\ \A i \in 1..Cardinality(S) : s[i] \in S
           /\ \A i, j \in 1..Cardinality(S) : s[i] = s[j] => i = j
           /\ \A x \in S : \E i \in 1..Cardinality(S) : s[i] = x
<1>1. PICK rank : rank = [x \in S |-> Cardinality({y \in S : <<y, x>> \in R})]
  OBVIOUS
<1>2. s = [i \in 1..Cardinality(S) |-> CHOOSE x \in S : rank[x] = i - 1]
  BY <1>1 DEF Arranged
<1>3. \A i \in 1..Cardinality(S) :
         (\E x \in S : rank[x] = i - 1) => s[i] \in S /\ rank[s[i]] = i - 1
  BY <1>2
<1>4. ByRank(s, rank, R, S)
  BY <1>1, <1>3 DEF ByRank
<1>5. s = [i \in 1..Cardinality(S) |-> s[i]]
  BY <1>2
<1> QED BY <1>4, <1>5, RankSorts

\* Numbers in their order.
LEMMA AscendingIn ==
    ASSUME NEW S \in SUBSET Nat, IsFiniteSet(S), NEW s, s = Ascending(S)
    PROVE  /\ Cardinality(S) \in Nat
           /\ s = [i \in 1..Cardinality(S) |-> s[i]]
           /\ \A i \in 1..Cardinality(S) : s[i] \in S
           /\ \A i, j \in 1..Cardinality(S) : s[i] = s[j] => i = j
           /\ \A x \in S : \E i \in 1..Cardinality(S) : s[i] = x
<1>1. PICK R : R = {p \in S \X S : p[1] < p[2]}
  OBVIOUS
<1>2. \A x, y \in S : <<x, y>> \in R <=> x < y
  BY <1>1
<1>3. TotalOrder(R, S)
  <2>1. \A x, y, z \in S : x < y /\ y < z => x < z
    OBVIOUS
  <2>2. \A x, y \in S : x # y => x < y \/ y < x
    OBVIOUS
  <2> QED BY <1>2, <2>1, <2>2 DEF TotalOrder
<1>4. s = Arranged(S, R)
  BY <1>1 DEF Ascending
<1> QED BY <1>3, <1>4, ArrangedIn

\* What a scan at e reads of the versions of a record.
Seen(vs, e) ==
    LET i == VisibleAt(vs, e)
    IN  IF i = 0 THEN <<>> ELSE <<vs[i].begin, vs[i].val>>

\* A scan reads as many rows as there are records at most.
LEMMA RowsCounted ==
    ASSUME NEW h, NEW e
    PROVE  /\ Len(LiveRows(h, e)) \in Nat /\ Len(LiveRows(h, e)) <= Cardinality(Keys)
           /\ Cardinality(Keys) \in Nat
           /\ \E T : LiveRows(h, e) \in Seq(T)
<1> DEFINE S == {k \in Keys : VisibleAt(h[k], e) # 0}
<1>1. S \in SUBSET Nat /\ IsFiniteSet(S) /\ Cardinality(S) <= Cardinality(Keys)
      /\ Cardinality(Keys) \in Nat
  BY SegmentsAssumption, FS_Subset, FS_CardinalityType
<1>2. PICK n, live : n = Cardinality(S) /\ live = Ascending(S)
  OBVIOUS
<1>3. n \in Nat /\ n <= Cardinality(Keys) /\ DOMAIN live = 1..n
  BY <1>1, <1>2, AscendingIn
<1>4. Len(live) = n
  BY <1>3
<1>5. LiveRows(h, e) = [i \in 1..n |-> SegmentRecord(live[i], h[live[i]][VisibleAt(h[live[i]], e)])]
  BY <1>2, <1>4 DEF LiveRows
<1>6. PICK T : T = {SegmentRecord(live[i], h[live[i]][VisibleAt(h[live[i]], e)]) : i \in 1..n}
  OBVIOUS
<1>7. LiveRows(h, e) \in Seq(T) /\ Len(LiveRows(h, e)) = n
  BY <1>3, <1>5, <1>6
<1> QED BY <1>1, <1>3, <1>7

\* Stores of which a read sees the same give it the same rows.
LEMMA RowsSame ==
    ASSUME NEW h, NEW g, NEW e, \A k \in Keys : Seen(h[k], e) = Seen(g[k], e)
    PROVE  LiveRows(h, e) = LiveRows(g, e)
<1>1. \A k \in Keys : /\ VisibleAt(h[k], e) # 0 <=> VisibleAt(g[k], e) # 0
                      /\ VisibleAt(h[k], e) # 0 =>
                            SegmentRecord(k, h[k][VisibleAt(h[k], e)])
                              = SegmentRecord(k, g[k][VisibleAt(g[k], e)])
  BY DEF Seen, SegmentRecord
<1> DEFINE S == {k \in Keys : VisibleAt(h[k], e) # 0}
<1>2. S = {k \in Keys : VisibleAt(g[k], e) # 0}
  BY <1>1
<1>3. S \in SUBSET Nat /\ IsFiniteSet(S)
  BY SegmentsAssumption, FS_Subset
<1>4. PICK n, live : n = Cardinality(S) /\ live = Ascending(S)
  OBVIOUS
<1>5. n \in Nat /\ DOMAIN live = 1..n /\ (\A i \in 1..n : live[i] \in S)
  <2>1. PICK T \in SUBSET Nat : T = S /\ IsFiniteSet(T)
    BY <1>3
  <2>2. n = Cardinality(T) /\ live = Ascending(T)
    BY <1>4, <2>1
  <2>3. IsFiniteSet(T)
    BY <2>1
  <2>4. /\ Cardinality(T) \in Nat /\ live = [i \in 1..Cardinality(T) |-> live[i]]
        /\ \A i \in 1..Cardinality(T) : live[i] \in T
    BY <2>2, <2>3, AscendingIn
  <2>5. n \in Nat /\ live = [i \in 1..n |-> live[i]] /\ \A i \in 1..n : live[i] \in T
    BY <2>2, <2>4
  <2> QED BY <2>1, <2>5
<1>6. Len(live) = n
  BY <1>5
<1>7. /\ LiveRows(h, e) = [i \in 1..n |-> SegmentRecord(live[i], h[live[i]][VisibleAt(h[live[i]], e)])]
      /\ LiveRows(g, e) = [i \in 1..n |-> SegmentRecord(live[i], g[live[i]][VisibleAt(g[live[i]], e)])]
  BY <1>2, <1>4, <1>6 DEF LiveRows
<1> QED BY <1>1, <1>5, <1>7

VersionRecord == [begin : Nat, end : Nat, tomb : BOOLEAN, val : Vals]

\* Versions up to epoch E, of which the last is open and the others end before
\* the later ones begin.
VersionsOK(vs, E) ==
    /\ vs \in Seq(VersionRecord)
    /\ Len(vs) > 0 => vs[Len(vs)].end = 0
    /\ \A i \in 1..Len(vs) : vs[i].begin <= E /\ vs[i].end <= E
    /\ \A i, j \in 1..Len(vs) : i < j => vs[i].end # 0 /\ vs[i].end <= vs[j].begin

\* The version that a read sees.
LEMMA VisibleIn ==
    ASSUME NEW vs \in Seq(VersionRecord), NEW e
    PROVE  /\ VisibleAt(vs, e) \in 0..Len(vs)
           /\ VisibleAt(vs, e) # 0 => /\ VisibleAt(vs, e) \in 1..Len(vs)
                                      /\ Holds(vs[VisibleAt(vs, e)], e)
                                      /\ ~vs[VisibleAt(vs, e)].tomb
           /\ \A i \in 1..Len(vs) : Holds(vs[i], e) /\ ~vs[i].tomb => i <= VisibleAt(vs, e)
<1> DEFINE I == {i \in 1..Len(vs) : Holds(vs[i], e) /\ ~vs[i].tomb}
<1>1. PICK N \in Nat : N = Len(vs)
  OBVIOUS
<1>2. PICK S : S = {0} \cup I
  OBVIOUS
<1>3. S \in SUBSET (0..N) /\ S # {} /\ 0 \in S
  BY <1>1, <1>2
<1>4. Max(S) \in S /\ \A i \in S : i <= Max(S)
  BY <1>3, LargestOf
<1>5. VisibleAt(vs, e) = Max(S)
  BY <1>2 DEF VisibleAt
<1> QED BY <1>1, <1>2, <1>3, <1>4, <1>5

\* What a read sees is determined by these facts.
LEMMA VisibleIs ==
    ASSUME NEW vs \in Seq(VersionRecord), NEW e, NEW p \in 0..Len(vs),
           p # 0 => Holds(vs[p], e) /\ ~vs[p].tomb,
           \A i \in 1..Len(vs) : Holds(vs[i], e) /\ ~vs[i].tomb => i <= p
    PROVE  VisibleAt(vs, e) = p
<1>1. PICK v : v = VisibleAt(vs, e)
  OBVIOUS
<1>2. /\ v \in 0..Len(vs)
      /\ v # 0 => v \in 1..Len(vs) /\ Holds(vs[v], e) /\ ~vs[v].tomb
      /\ \A i \in 1..Len(vs) : Holds(vs[i], e) /\ ~vs[i].tomb => i <= v
  BY <1>1, VisibleIn
<1>3. v <= p
  BY <1>2
<1>4. p <= v
  BY <1>2
<1> QED BY <1>1, <1>2, <1>3, <1>4

\* A write closes the last version and changes nothing a read at an earlier
\* epoch sees.
LEMMA WrittenKeeps ==
    ASSUME NEW E \in Nat, NEW vs, VersionsOK(vs, E), NEW v \in VersionRecord,
           v.begin = E + 1, v.end = 0
    PROVE  /\ VersionsOK(Written(vs, v), E + 1)
           /\ Len(Written(vs, v)) > 0
           /\ \A e \in Nat : e <= E => Seen(Written(vs, v), e) = Seen(vs, e)
<1> DEFINE I == {j \in 1..Len(vs) : vs[j].end = 0}
<1>0. PICK N \in Nat : N = Len(vs) /\ vs \in Seq(VersionRecord)
  BY DEF VersionsOK
<1>a. \A j \in 1..N : /\ vs[j] \in VersionRecord /\ vs[j].begin \in Nat /\ vs[j].end \in Nat
                      /\ vs[j].begin <= E /\ vs[j].end <= E
  <2>1. \A j \in 1..N : vs[j] \in VersionRecord
    BY <1>0
  <2>2. \A j \in 1..N : vs[j].begin <= E /\ vs[j].end <= E
    BY <1>0 DEF VersionsOK
  <2> QED BY <2>1, <2>2 DEF VersionRecord
<1>1. PICK S : S = {0} \cup I
  OBVIOUS
<1>2. S \in SUBSET (0..N) /\ S # {}
  BY <1>0, <1>1
<1>3. PICK i : i = Max(S)
  OBVIOUS
<1>4. i \in S /\ \A j \in S : j <= i
  BY <1>2, <1>3, LargestOf
<1>5. PICK us : us = IF i = 0 THEN vs ELSE [vs EXCEPT ![i].end = v.begin]
  OBVIOUS
<1>6. Written(vs, v) = Append(us, v)
  BY <1>1, <1>3, <1>5 DEF Written
<1>7. /\ us \in Seq(VersionRecord) /\ Len(us) = N
      /\ \A j \in 1..N : /\ us[j].begin = vs[j].begin /\ us[j].tomb = vs[j].tomb
                         /\ us[j].val = vs[j].val
                         /\ us[j].end = IF j = i THEN E + 1 ELSE vs[j].end
  <2>1. CASE i = 0
    BY <1>0, <1>5, <2>1
  <2>2. CASE i # 0
    <3>1. i \in 1..N
      BY <1>0, <1>1, <1>4, <2>2
    <3>2. us = [vs EXCEPT ![i].end = E + 1]
      BY <1>5, <2>2
    <3>3. [vs[i] EXCEPT !.end = E + 1] \in VersionRecord
      BY <1>a, <3>1 DEF VersionRecord
    <3>4. us \in Seq(VersionRecord) /\ Len(us) = N
      BY <1>0, <3>1, <3>2, <3>3
    <3>5. us[i] = [vs[i] EXCEPT !.end = E + 1] /\ \A j \in 1..N : j # i => us[j] = vs[j]
      BY <1>0, <3>1, <3>2
    <3>6. vs[i] \in VersionRecord
      BY <1>0, <3>1
    <3> QED BY SMTT(30), <3>4, <3>5, <3>6 DEF VersionRecord
  <2> QED BY <2>1, <2>2
<1>8. PICK ws : ws = Written(vs, v)
  OBVIOUS
<1>9. /\ ws \in Seq(VersionRecord) /\ Len(ws) = N + 1 /\ ws[N + 1] = v
      /\ \A j \in 1..N : ws[j] = us[j]
  BY <1>6, <1>7, <1>8
<1>10. \A j \in 1..N : us[j].end # 0 /\ us[j].end <= E + 1
  <2> SUFFICES ASSUME NEW j \in 1..N PROVE us[j].end # 0 /\ us[j].end <= E + 1
    OBVIOUS
  <2>1. vs[j].end \in Nat /\ vs[j].end <= E
    BY <1>a
  <2>2. CASE vs[j].end # 0
    BY <1>7, <2>1, <2>2
  <2>3. CASE vs[j].end = 0
    <3>1. j \in S /\ j <= i /\ i \in 1..N
      BY <1>0, <1>1, <1>4, <2>3
    <3>2. vs[i].end = 0
      BY <1>1, <1>4, <3>1
    <3>3. j = i
      BY <1>0, <2>3, <3>1 DEF VersionsOK
    <3> QED BY <1>7, <3>3
  <2> QED BY <2>2, <2>3
<1>11. VersionsOK(ws, E + 1)
  <2>1. \A j \in 1..N + 1 : j \in 1..N \/ j = N + 1
    OBVIOUS
  <2>2. ASSUME NEW j \in 1..N PROVE ws[j].begin <= E + 1 /\ ws[j].end <= E + 1
    <3>1. vs[j].begin \in Nat /\ vs[j].begin <= E
      BY <1>a
    <3> QED BY SMTT(30), <1>7, <1>9, <1>10, <3>1
  <2>3. ASSUME NEW j \in 1..N, NEW m \in 1..N + 1, j < m
        PROVE  ws[j].end # 0 /\ ws[j].end <= ws[m].begin
    <3>1. CASE m = N + 1
      BY <1>9, <1>10, <3>1
    <3>2. CASE m \in 1..N
      <4>1. vs[j].end # 0 /\ vs[j].end <= vs[m].begin
        BY <1>0, <2>3, <3>2 DEF VersionsOK
      <4>2. j # i
        <5> SUFFICES ASSUME j = i PROVE FALSE
          OBVIOUS
        <5>1. i # 0 /\ i \in I
          BY <1>1, <1>4
        <5> QED BY <4>1, <5>1
      <4> QED BY <1>7, <1>9, <3>2, <4>1, <4>2
    <3> QED BY <2>1, <3>1, <3>2
  <2>4. ws[N + 1].begin <= E + 1 /\ ws[N + 1].end <= E + 1
    BY <1>9
  <2>5. \A j, m \in 1..N + 1 : j < m => j \in 1..N
    OBVIOUS
  <2> QED BY <1>9, <2>1, <2>2, <2>3, <2>4, <2>5 DEF VersionsOK
<1>12. ASSUME NEW e \in Nat, e <= E PROVE Seen(ws, e) = Seen(vs, e)
  <2>1. \A j \in 1..N : Holds(ws[j], e) <=> Holds(vs[j], e)
    <3> SUFFICES ASSUME NEW j \in 1..N PROVE Holds(ws[j], e) <=> Holds(vs[j], e)
      OBVIOUS
    <3>1. vs[j].begin \in Nat /\ vs[j].end \in Nat
      BY <1>a
    <3>2. CASE j = i
      <4>1. vs[j].end = 0
        BY <1>1, <1>4, <3>2
      <4> QED BY <1>7, <1>9, <1>12, <3>1, <3>2, <4>1 DEF Holds
    <3>3. CASE j # i
      BY <1>7, <1>9, <3>3 DEF Holds
    <3> QED BY <3>2, <3>3
  <2>2. ~Holds(ws[N + 1], e)
    BY <1>9, <1>12 DEF Holds
  <2>3. PICK p : p = VisibleAt(vs, e)
    OBVIOUS
  <2>4. /\ p \in 0..N
        /\ p # 0 => p \in 1..N /\ Holds(vs[p], e) /\ ~vs[p].tomb
        /\ \A j \in 1..N : Holds(vs[j], e) /\ ~vs[j].tomb => j <= p
    BY <1>0, <2>3, VisibleIn
  <2>5. /\ p \in 0..Len(ws) /\ (p # 0 => Holds(ws[p], e) /\ ~ws[p].tomb)
        /\ \A j \in 1..Len(ws) : Holds(ws[j], e) /\ ~ws[j].tomb => j <= p
    <3>1. \A j \in 1..Len(ws) : j \in 1..N \/ j = N + 1
      BY <1>9
    <3> QED BY <1>7, <1>9, <2>1, <2>2, <2>4, <3>1
  <2>6. VisibleAt(ws, e) = p
    BY <1>9, <2>5, VisibleIs
  <2>7. p # 0 => ws[p].begin = vs[p].begin /\ ws[p].val = vs[p].val
    BY <1>7, <1>9, <2>4
  <2> QED BY <2>3, <2>6, <2>7 DEF Seen
<1> QED BY <1>0, <1>8, <1>9, <1>11, <1>12

\* A restart keeps what a read from the checkpoint on sees.
LEMMA RetainedKeeps ==
    ASSUME NEW E \in Nat, NEW vs, VersionsOK(vs, E), NEW c \in Nat
    PROVE  /\ VersionsOK(Retained(vs, c), E)
           /\ Len(vs) > 0 => Len(Retained(vs, c)) > 0
           /\ \A e \in Nat : c <= e => Seen(Retained(vs, c), e) = Seen(vs, e)
<1> DEFINE I == {j \in 1..Len(vs) : Holds(vs[j], c)}
<1>0. PICK N \in Nat : N = Len(vs) /\ vs \in Seq(VersionRecord)
  BY DEF VersionsOK
<1>a. \A j \in 1..N : /\ vs[j] \in VersionRecord /\ vs[j].begin \in Nat /\ vs[j].end \in Nat
                      /\ vs[j].begin <= E /\ vs[j].end <= E
  <2>1. \A j \in 1..N : vs[j] \in VersionRecord
    BY <1>0
  <2>2. \A j \in 1..N : vs[j].begin <= E /\ vs[j].end <= E
    BY <1>0 DEF VersionsOK
  <2> QED BY <2>1, <2>2 DEF VersionRecord
<1>1. PICK S : S = {1} \cup I
  OBVIOUS
<1>2. PICK K \in Nat : K = N + 1 /\ S \in SUBSET (0..K) /\ S # {}
  BY <1>0, <1>1
<1>3. PICK f : f = Max(S)
  OBVIOUS
<1>4. f \in S /\ \A j \in S : j <= f
  BY <1>2, <1>3, LargestOf
<1>5. PICK ws : ws = Retained(vs, c) /\ ws = SubSeq(vs, f, N)
  BY <1>0, <1>1, <1>3 DEF Retained
<1>6. f \in Nat /\ 1 <= f /\ f <= N + 1 /\ (f # 1 => f \in 1..N /\ Holds(vs[f], c))
  BY <1>0, <1>1, <1>4
<1>7. PICK M \in Nat : M = N - f + 1
  BY <1>6
<1>8. /\ ws \in Seq(VersionRecord) /\ Len(ws) = M
      /\ \A j \in 1..M : j + f - 1 \in 1..N /\ ws[j] = vs[j + f - 1]
  BY <1>0, <1>5, <1>6, <1>7
<1>9. VersionsOK(ws, E)
  <2>1. \A j \in 1..M : ws[j].begin <= E /\ ws[j].end <= E
    BY <1>0, <1>8 DEF VersionsOK
  <2>2. ASSUME NEW j \in 1..M, NEW m \in 1..M, j < m
        PROVE  ws[j].end # 0 /\ ws[j].end <= ws[m].begin
    <3>1. PICK a \in 1..N, b \in 1..N : a = j + f - 1 /\ b = m + f - 1 /\ a < b
      BY <1>6, <1>8, <2>2
    <3> QED BY <1>0, <1>8, <3>1 DEF VersionsOK
  <2>3. M > 0 => ws[M].end = 0
    BY <1>0, <1>6, <1>7, <1>8 DEF VersionsOK
  <2> QED BY <1>8, <2>1, <2>2, <2>3 DEF VersionsOK
<1>10. ASSUME NEW e \in Nat, c <= e PROVE Seen(ws, e) = Seen(vs, e)
  <2>1. ASSUME NEW j \in 1..N, j < f PROVE ~Holds(vs[j], e)
    <3>1. f \in 1..N /\ Holds(vs[f], c)
      BY <1>6, <2>1
    <3>2. vs[j].end # 0 /\ vs[j].end <= vs[f].begin /\ vs[j].end \in Nat /\ vs[f].begin \in Nat
      BY <1>0, <1>a, <2>1, <3>1 DEF VersionsOK
    <3> QED BY <1>10, <3>1, <3>2 DEF Holds
  <2>2. PICK p : p = VisibleAt(vs, e)
    OBVIOUS
  <2>3. /\ p \in 0..N
        /\ p # 0 => p \in 1..N /\ Holds(vs[p], e) /\ ~vs[p].tomb
        /\ \A j \in 1..N : Holds(vs[j], e) /\ ~vs[j].tomb => j <= p
    BY <1>0, <2>2, VisibleIn
  <2>4. PICK r : r = IF p = 0 THEN 0 ELSE p - f + 1
    OBVIOUS
  <2>5. r \in 0..M /\ (p # 0 => r # 0 /\ r \in 1..M /\ r + f - 1 = p)
    BY <1>6, <1>7, <2>1, <2>3, <2>4
  <2>6. r # 0 => Holds(ws[r], e) /\ ~ws[r].tomb
    BY <1>8, <2>3, <2>4, <2>5
  <2>7. \A j \in 1..M : Holds(ws[j], e) /\ ~ws[j].tomb => j <= r
    <3> SUFFICES ASSUME NEW j \in 1..M, Holds(ws[j], e), ~ws[j].tomb PROVE j <= r
      OBVIOUS
    <3>1. PICK a \in 1..N : a = j + f - 1 /\ ws[j] = vs[a]
      BY <1>8
    <3>2. a <= p /\ p # 0
      BY <2>3, <3>1
    <3> QED BY <1>6, <2>3, <2>4, <3>1, <3>2
  <2>8. VisibleAt(ws, e) = r
    BY <1>8, <2>5, <2>6, <2>7, VisibleIs
  <2>9. p # 0 => ws[r] = vs[p]
    BY <1>8, <2>5
  <2> QED BY <2>2, <2>4, <2>5, <2>8, <2>9 DEF Seen
<1>11. N > 0 => M > 0
  BY <1>6, <1>7
<1> QED BY <1>0, <1>5, <1>8, <1>9, <1>10, <1>11

StoreOK(h, E) ==
    h \in [Keys -> Seq(VersionRecord)] /\ \A k \in Keys : VersionsOK(h[k], E)

\* The records that have versions.
Known(h) == {k \in Keys : Len(h[k]) > 0}

\* The live store, and the one in a finished copy.
HotInv ==
    /\ StoreOK(hot, man.epoch) /\ man.chk \in Nat
    /\ copy.step = "done" => StoreOK(copy.hot, copy.man.epoch) /\ copy.man.chk \in Nat

\* A commit changes nothing that a read at the epochs before it sees.
LEMMA CommitHot ==
    ASSUME SegmentsInv, HotInv, NEW k \in Keys, NEW v \in VersionRecord,
           v.begin = man.epoch + 1, v.end = 0, Commit(k, v)
    PROVE  /\ HotInv'
           /\ man.epoch <= man'.epoch /\ Known(hot) \subseteq Known(hot')
           /\ \A x \in Keys, e \in Nat : e <= man.epoch => Seen(hot'[x], e) = Seen(hot[x], e)
<1>1. PICK E, h : E \in Nat /\ E = man.epoch /\ h = hot
  BY DEF SegmentsInv, Shape
<1>2. StoreOK(h, E)
  BY <1>1 DEF HotInv
<1>3. PICK g : g = hot' /\ g = [h EXCEPT ![k] = Written(h[k], v)]
  BY <1>1 DEF Commit
<1>4. /\ VersionsOK(Written(h[k], v), E + 1) /\ Len(Written(h[k], v)) > 0
      /\ \A e \in Nat : e <= E => Seen(Written(h[k], v), e) = Seen(h[k], e)
  BY <1>1, <1>2, WrittenKeeps DEF StoreOK
<1>5. /\ g \in [Keys -> Seq(VersionRecord)] /\ g[k] = Written(h[k], v)
      /\ \A x \in Keys : x # k => g[x] = h[x]
  BY <1>2, <1>3, <1>4 DEF StoreOK, VersionsOK
<1>6. ASSUME NEW x \in Keys, x # k PROVE VersionsOK(g[x], E + 1)
  <2>1. VersionsOK(h[x], E) /\ g[x] = h[x]
    BY <1>2, <1>5, <1>6 DEF StoreOK
  <2>2. \A i \in 1..Len(h[x]) : h[x][i] \in VersionRecord
    BY <2>1 DEF VersionsOK
  <2>3. \A i \in 1..Len(h[x]) : h[x][i].begin \in Nat /\ h[x][i].end \in Nat
    BY <2>2 DEF VersionRecord
  <2> QED BY <1>1, <2>1, <2>3 DEF VersionsOK
<1>7. StoreOK(g, E + 1)
  BY <1>4, <1>5, <1>6 DEF StoreOK
<1>8. /\ man' = [man EXCEPT !.epoch = @ + 1, !.gen = @ + 1] /\ copy' = copy
      /\ man = [epoch |-> man.epoch, chk |-> man.chk, gen |-> man.gen, segs |-> man.segs,
                idxs |-> man.idxs]
  BY DEF Commit, SegmentsInv, Shape
<1>9. man'.epoch = E + 1 /\ man'.chk = man.chk
  BY <1>1, <1>8
<1>10. \A x \in Keys, e \in Nat : e <= E => Seen(g[x], e) = Seen(h[x], e)
  BY <1>4, <1>5
<1>11. Known(h) \subseteq Known(g)
  BY <1>4, <1>5 DEF Known
<1>12. HotInv'
  BY <1>1, <1>3, <1>7, <1>8, <1>9 DEF HotInv
<1>13. Known(hot) \subseteq Known(hot')
  BY <1>1, <1>3, <1>11
<1>14. man.epoch <= man'.epoch
  BY <1>1, <1>9
<1>15. \A x \in Keys, e \in Nat : e <= man.epoch => Seen(hot'[x], e) = Seen(hot[x], e)
  BY <1>1, <1>3, <1>10
<1> QED BY <1>12, <1>13, <1>14, <1>15

\* Commits and checkpoints.
LEMMA WriteHot ==
    ASSUME SegmentsInv, HotInv, Write
    PROVE  /\ HotInv'
           /\ man.epoch <= man'.epoch /\ Known(hot) \subseteq Known(hot')
           /\ \A x \in Keys, e \in Nat : e <= man.epoch => Seen(hot'[x], e) = Seen(hot[x], e)
<1>0. PICK E \in Nat : E = man.epoch
  BY DEF SegmentsInv, Shape
<1>1. ASSUME NEW k \in Keys, NEW val \in Vals, PutRecord(k, val)
      PROVE  \E v \in VersionRecord : v.begin = man.epoch + 1 /\ v.end = 0 /\ Commit(k, v)
  <2>1. PICK v : v = [begin |-> E + 1, end |-> 0, tomb |-> FALSE, val |-> val]
    OBVIOUS
  <2>2. v \in VersionRecord /\ v.begin = E + 1 /\ v.end = 0
    BY <2>1 DEF VersionRecord
  <2> QED BY <1>0, <1>1, <2>1, <2>2 DEF PutRecord
<1>2. ASSUME NEW k \in Keys, DeleteRecord(k)
      PROVE  \E v \in VersionRecord : v.begin = man.epoch + 1 /\ v.end = 0 /\ Commit(k, v)
  <2>1. PICK vs \in Seq(VersionRecord) : vs = hot[k]
    BY DEF HotInv, StoreOK
  <2>2. PICK p : p = VisibleAt(vs, E)
    OBVIOUS
  <2>3. p # 0
    BY <1>0, <1>2, <2>1, <2>2 DEF DeleteRecord, Live
  <2>4. p \in 1..Len(vs)
    BY <2>2, <2>3, VisibleIn
  <2>5. vs[p] \in VersionRecord
    BY <2>4
  <2>6. PICK r, y, v : /\ r = vs[p] /\ y = TRUE
                       /\ v = [r EXCEPT !.begin = E + 1, !.end = 0, !.tomb = y]
    OBVIOUS
  <2>7. v \in VersionRecord /\ v.begin = E + 1 /\ v.end = 0
    <3>1. PICK b, n, t, w : /\ r = [begin |-> b, end |-> n, tomb |-> t, val |-> w]
                            /\ w \in Vals
      BY <2>5, <2>6 DEF VersionRecord
    <3>2. v = [r EXCEPT !.begin = E + 1, !.end = 0, !.tomb = y]
      BY <2>6
    <3>3. v = [begin |-> E + 1, end |-> 0, tomb |-> y, val |-> w]
      BY <3>1, <3>2
    <3>4. E + 1 \in Nat /\ y \in BOOLEAN
      BY <2>6
    <3>5. v \in VersionRecord
      BY <3>1, <3>3, <3>4 DEF VersionRecord
    <3> QED BY <3>3, <3>5
  <2>8. Commit(k, v)
    BY <1>0, <1>2, <2>1, <2>2, <2>6 DEF DeleteRecord
  <2> QED BY <1>0, <2>7, <2>8
<1>3. CASE \E k \in Keys, v \in VersionRecord :
              v.begin = man.epoch + 1 /\ v.end = 0 /\ Commit(k, v)
  <2>1. PICK k \in Keys, v \in VersionRecord :
              v.begin = man.epoch + 1 /\ v.end = 0 /\ Commit(k, v)
    BY <1>3
  <2> QED BY <2>1, CommitHot
<1>4. CASE Checkpoint
  <2>1. /\ man' = [man EXCEPT !.chk = man.epoch, !.gen = @ + 1] /\ copy' = copy /\ hot' = hot
        /\ man = [epoch |-> man.epoch, chk |-> man.chk, gen |-> man.gen, segs |-> man.segs,
                  idxs |-> man.idxs]
    BY <1>4 DEF Checkpoint, SegmentsInv, Shape
  <2>2. man'.epoch = E /\ man'.chk = E
    BY <1>0, <2>1
  <2> QED BY <1>0, <2>1, <2>2 DEF HotInv
<1> QED BY <1>1, <1>2, <1>3, <1>4 DEF Write

\* What a restart leaves in memory, and what a copy takes.
LEMMA RetainedStore ==
    ASSUME NEW E \in Nat, NEW c \in Nat, NEW h, StoreOK(h, E),
           NEW g, g = [k \in Keys |-> Retained(h[k], c)]
    PROVE  /\ StoreOK(g, E) /\ Known(h) \subseteq Known(g)
           /\ \A x \in Keys, e \in Nat : c <= e => Seen(g[x], e) = Seen(h[x], e)
<1>1. \A k \in Keys : VersionsOK(h[k], E)
  BY DEF StoreOK
<1>2. \A k \in Keys : /\ VersionsOK(Retained(h[k], c), E)
                      /\ Len(h[k]) > 0 => Len(Retained(h[k], c)) > 0
                      /\ \A e \in Nat : c <= e => Seen(Retained(h[k], c), e) = Seen(h[k], e)
  BY <1>1, RetainedKeeps
<1>3. g \in [Keys -> Seq(VersionRecord)]
  BY <1>2 DEF VersionsOK
<1> QED BY <1>2, <1>3 DEF StoreOK, Known

\* The steps that leave the live store and the epochs alone.
OtherStep ==
    \/ /\ \/ PublishManifest \/ Copying
          \/ \E id \in SegmentIds : PublishAgain(id) \/ PublishSegment(id)
          \/ Compact \/ WriteIndex \/ PublishFails \/ Vacuum
       /\ UNCHANGED reader
    \/ \E q \in Queries : StartRead(q)
    \/ NextPage \/ CursorExpired \/ UNCHANGED vars

LEMMA OtherHot ==
    ASSUME SegmentsInv, HotInv, OtherStep
    PROVE  HotInv' /\ hot' = hot /\ man'.epoch = man.epoch
<1>1. ASSUME hot' = hot, man' = man, copy' = copy
      PROVE  HotInv' /\ hot' = hot /\ man'.epoch = man.epoch
  BY <1>1 DEF HotInv
<1>2. CASE PublishManifest
  <2>1. /\ hot' = hot /\ copy' = copy
        /\ \E s, x : man' = [man EXCEPT !.segs = s, !.idxs = x, !.gen = @ + 1]
        /\ man = [epoch |-> man.epoch, chk |-> man.chk, gen |-> man.gen, segs |-> man.segs,
                  idxs |-> man.idxs]
    BY <1>2 DEF PublishManifest, SegmentsInv, Shape
  <2>2. man'.epoch = man.epoch /\ man'.chk = man.chk
    BY <2>1
  <2> QED BY <2>1, <2>2 DEF HotInv
<1>3. CASE Copying
  <2>1. hot' = hot /\ man' = man
    BY <1>3 DEF Copying, CopyManifest, CopyWal, CopyArtifacts, CopyCheckpoints
  <2>2. CASE copy'.step # "done"
    BY <2>1, <2>2 DEF HotInv
  <2>3. CASE CopyCheckpoints
    <3>1. PICK g : g = [k \in Keys |-> Retained(hot[k], man.chk)]
      OBVIOUS
    <3>2. copy'.hot = g /\ copy'.man = man
      BY <2>3, <3>1 DEF CopyCheckpoints, SegmentsInv, CopyShape
    <3>3. PICK E, c, h : E \in Nat /\ c \in Nat /\ E = man.epoch /\ c = man.chk /\ h = hot
      BY DEF SegmentsInv, Shape, HotInv
    <3>4. StoreOK(h, E) /\ g = [k \in Keys |-> Retained(h[k], c)]
      BY <3>1, <3>3 DEF HotInv
    <3>5. StoreOK(g, E)
      BY <3>3, <3>4, RetainedStore
    <3> QED BY <2>1, <3>2, <3>3, <3>5 DEF HotInv
  <2> QED BY <1>3, <2>2, <2>3 DEF Copying, CopyManifest, CopyWal, CopyArtifacts
<1>4. CASE \/ \E id \in SegmentIds : PublishAgain(id) \/ PublishSegment(id)
           \/ Compact \/ WriteIndex \/ PublishFails \/ Vacuum
           \/ \E q \in Queries : StartRead(q)
           \/ NextPage \/ CursorExpired \/ UNCHANGED vars
  BY <1>1, <1>4 DEF PublishAgain, PublishSegment, Compact, WriteSegment, WriteIndex,
     PublishFails, Vacuum, StartRead, NextPage, CursorExpired, ReadPage, storage, vars
<1> QED BY <1>2, <1>3, <1>4 DEF OtherStep

\* The rows that a cursor of a scan goes through, and how far it is.
ScanInv ==
    \/ reader = NoReader
    \/ /\ reader = [on |-> TRUE, q |-> reader.q, epoch |-> reader.epoch,
                    want |-> reader.want, off |-> reader.off, lost |-> reader.lost]
       /\ reader.q \in Queries
       /\ (reader.q.kind = "scan" /\ ~reader.lost) =>
             /\ reader.epoch \in Nat /\ reader.epoch <= man.epoch
             /\ reader.want = LiveRows(hot, reader.epoch)
             /\ reader.off \in Nat /\ reader.off < Len(reader.want)

LEMMA HotRowsAre == \A e : HotRows(e) = LiveRows(hot, e)
BY DEF HotRows, LiveRows, Live

\* A page that is not the last one, and the whole of the rows.
LEMMA PageOfRows ==
    ASSUME NEW T, NEW rows \in Seq(T), NEW off \in Nat, NEW n \in Nat
    PROVE  /\ Page(rows, off, n).more =>
                /\ off + Len(Page(rows, off, n).rows) = off + n
                /\ off + Len(Page(rows, off, n).rows) \in Nat
                /\ off + Len(Page(rows, off, n).rows) < Len(rows)
           /\ off = 0 /\ Len(rows) <= n => Page(rows, off, n).rows = rows
<1>1. PICK L \in Nat : L = Len(rows)
  OBVIOUS
<1>2. ASSUME Page(rows, off, n).more
      PROVE  /\ off + Len(Page(rows, off, n).rows) = off + n
             /\ off + Len(Page(rows, off, n).rows) \in Nat
             /\ off + Len(Page(rows, off, n).rows) < L
  <2>1. off + n < L
    BY <1>1, <1>2 DEF Page
  <2>2. Take(rows, off + n) = SubSeq(rows, 1, off + n) /\ Len(SubSeq(rows, 1, off + n)) = off + n
    BY <1>1, <2>1 DEF Take
  <2>3. Page(rows, off, n).rows = SubSeq(rows, off + 1, off + n)
    BY <2>2 DEF Page
  <2>4. Len(SubSeq(rows, off + 1, off + n)) = n
    BY <1>1, <2>1
  <2> QED BY <2>1, <2>3, <2>4
<1>3. ASSUME off = 0, L <= n PROVE Page(rows, off, n).rows = rows
  <2>1. SubSeq(rows, 1, L) = rows
    BY <1>1
  <2>2. Take(rows, off + n) = rows
    BY <1>1, <1>3, <2>1 DEF Take
  <2>3. Page(rows, off, n).rows = SubSeq(rows, 1, L)
    BY <1>1, <1>3, <2>2 DEF Page
  <2> QED BY <2>1, <2>3
<1> QED BY <1>1, <1>2, <1>3

\* A page of a scan leaves the cursor before the end.
LEMMA ScanReads ==
    ASSUME NEW q \in Queries, q.kind = "scan", NEW e, NEW off \in Nat,
           PageOf(q, e, off).more
    PROVE  /\ off + Len(PageOf(q, e, off).rows) \in Nat \ {0}
           /\ off + Len(PageOf(q, e, off).rows) < Len(LiveRows(hot, e))
<1>1. PICK n, rows, T : /\ n = (IF q.limit = 0 THEN 1 ELSE q.limit)
                        /\ rows = LiveRows(hot, e) /\ rows \in Seq(T)
  BY RowsCounted
<1>2. n \in Nat /\ n # 0
  BY <1>1, QueryAssumption
<1>3. PageOf(q, e, off) = Page(rows, off, n)
  BY <1>1, HotRowsAre DEF PageOf, ScanPage
<1> QED BY <1>1, <1>2, <1>3, PageOfRows

\* The answer to a scan is all rows.
LEMMA ScanAnswer ==
    ASSUME NEW q \in Queries, q.kind = "scan"
    PROVE  Answer(q) = LiveRows(hot, man.epoch)
<1>1. PICK c, r, n : /\ c = Cardinality(Keys) /\ r = [q EXCEPT !.limit = c]
                     /\ n = IF c = 0 THEN 1 ELSE c
  OBVIOUS
<1>2. {"kind", "user", "grp", "text", "vector", "dirty", "limit"} = DOMAIN q
  BY QueryAssumption
<1>3. r.kind = "scan" /\ r.limit = c
  BY <1>1, <1>2
<1>4. PICK rows, T : /\ rows = LiveRows(hot, man.epoch) /\ rows \in Seq(T)
                     /\ Len(rows) <= c /\ c \in Nat
  BY <1>1, RowsCounted
<1>5. n \in Nat /\ Len(rows) <= n
  BY <1>1, <1>4
<1>6. Answer(q) = Page(rows, 0, n).rows
  BY <1>1, <1>3, <1>4, HotRowsAre DEF Answer, PageOf, ScanPage
<1>7. Page(rows, 0, n).rows = rows
  BY <1>4, <1>5, PageOfRows
<1> QED BY <1>4, <1>6, <1>7

\* Every step keeps the cursor of a scan on its snapshot.
LEMMA ScanStep ==
    ASSUME Signed, SegmentsInv, HotInv, ScanInv, [Next]_vars
    PROVE  HotInv' /\ ScanInv'
<1>0. PICK E \in Nat : E = man.epoch
  BY DEF SegmentsInv, Shape
<1>1. ASSUME reader' = reader, HotInv', man.epoch <= man'.epoch, man'.epoch \in Nat,
             \A x \in Keys, e \in Nat : e <= man.epoch => Seen(hot'[x], e) = Seen(hot[x], e)
      PROVE  ScanInv'
  <2>1. CASE reader = NoReader
    BY <1>1, <2>1 DEF ScanInv
  <2>2. CASE reader # NoReader /\ reader.q.kind = "scan" /\ ~reader.lost
    <3>1. PICK e, g, h : e = reader.epoch /\ g = hot' /\ h = hot
      OBVIOUS
    <3>2. e \in Nat /\ e <= E /\ reader.want = LiveRows(h, e)
      BY <1>0, <2>2, <3>1 DEF ScanInv
    <3>3. \A x \in Keys : Seen(g[x], e) = Seen(h[x], e)
      BY <1>0, <1>1, <3>1, <3>2
    <3>4. LiveRows(g, e) = LiveRows(h, e)
      BY <3>3, RowsSame
    <3>5. reader.epoch <= man'.epoch
      BY <1>0, <1>1, <3>1, <3>2
    <3> QED BY <1>1, <2>2, <3>1, <3>2, <3>4, <3>5 DEF ScanInv
  <2>3. CASE reader # NoReader /\ ~(reader.q.kind = "scan" /\ ~reader.lost)
    BY <1>1, <2>3 DEF ScanInv
  <2> QED BY <2>1, <2>2, <2>3
<1>2. CASE Write /\ UNCHANGED reader
  <2>1. SegmentsInv'
    BY <1>2, WriteKeeps
  <2>2. man'.epoch \in Nat
    BY <2>1 DEF SegmentsInv, Shape
  <2> QED BY <1>1, <1>2, <2>2, WriteHot
<1>3. CASE Restart /\ reader' = ReaderAfterRestart
  <2>1. PICK c, h, g : c \in Nat /\ c = man.chk /\ h = hot /\ g = hot'
    BY DEF HotInv
  <2>2. StoreOK(h, E) /\ g = [k \in Keys |-> Retained(h[k], c)]
    BY <1>0, <1>3, <2>1 DEF HotInv, Restart
  <2>3. StoreOK(g, E) /\ \A x \in Keys, e \in Nat : c <= e => Seen(g[x], e) = Seen(h[x], e)
    BY <2>1, <2>2, RetainedStore
  <2>4. /\ man' = man /\ copy' = IF copy.step = "done" THEN copy ELSE NoCopy
    BY <1>3 DEF Restart
  <2>5. HotInv'
    BY <1>0, <2>1, <2>3, <2>4 DEF HotInv, NoCopy
  <2>6. CASE reader = NoReader
    <3>1. reader' = NoReader
      BY <1>3, <2>6 DEF ReaderAfterRestart, NoReader
    <3> QED BY <2>5, <3>1 DEF ScanInv
  <2>7. CASE reader # NoReader
    <3>1. PICK q, e, w, o, l :
            /\ q \in Queries
            /\ reader = [on |-> TRUE, q |-> q, epoch |-> e, want |-> w, off |-> o, lost |-> l]
            /\ (q.kind = "scan" /\ ~l) => /\ e \in Nat /\ e <= E /\ w = LiveRows(h, e)
                                          /\ o \in Nat /\ o < Len(w)
      BY <1>0, <2>1, <2>7 DEF ScanInv
    <3>2. reader' = [reader EXCEPT !.lost = @ \/ man.chk > reader.epoch]
      BY <1>3, <3>1 DEF ReaderAfterRestart
    <3>3. PICK b : b = (l \/ c > e)
      OBVIOUS
    <3>4. reader' = [on |-> TRUE, q |-> q, epoch |-> e, want |-> w, off |-> o, lost |-> b]
      BY <2>1, <3>1, <3>2, <3>3
    <3>5. ASSUME q.kind = "scan", ~b
          PROVE  e \in Nat /\ e <= E /\ w = LiveRows(g, e) /\ o \in Nat /\ o < Len(w)
      <4>1. ~l /\ ~(c > e)
        BY <3>3, <3>5
      <4>2. e \in Nat /\ e <= E /\ w = LiveRows(h, e) /\ o \in Nat /\ o < Len(w)
        BY <3>1, <3>5, <4>1
      <4>3. c <= e
        BY <2>1, <4>1, <4>2
      <4>4. LiveRows(g, e) = LiveRows(h, e)
        BY <2>3, <4>2, <4>3, RowsSame
      <4> QED BY <4>2, <4>4
    <3>6. /\ reader'.q = q /\ reader'.epoch = e /\ reader'.want = w /\ reader'.off = o
          /\ reader'.lost = b
          /\ reader' = [on |-> TRUE, q |-> reader'.q, epoch |-> reader'.epoch,
                        want |-> reader'.want, off |-> reader'.off, lost |-> reader'.lost]
      BY <3>4
    <3>7. (reader'.q.kind = "scan" /\ ~reader'.lost) =>
             /\ reader'.epoch \in Nat /\ reader'.epoch <= man'.epoch
             /\ reader'.want = LiveRows(hot', reader'.epoch)
             /\ reader'.off \in Nat /\ reader'.off < Len(reader'.want)
      BY <1>0, <2>1, <2>4, <3>5, <3>6
    <3> QED BY <2>5, <3>1, <3>6, <3>7 DEF ScanInv
  <2> QED BY <2>5, <2>6, <2>7
<1>4. CASE Restore /\ reader' = NoReader
  <2>1. hot' = copy.hot /\ man' = copy.man /\ copy' = copy /\ copy.step = "done"
    BY <1>4 DEF Restore
  <2> QED BY <1>4, <2>1 DEF HotInv, ScanInv
<1>5. CASE OtherStep
  <2>1. HotInv' /\ hot' = hot /\ man'.epoch = man.epoch
    BY <1>5, OtherHot
  <2>2. CASE reader' = reader
    BY <1>0, <1>1, <2>1, <2>2
  <2>3. CASE reader' = NoReader
    BY <2>1, <2>3 DEF ScanInv
  <2>4. ASSUME NEW q \in Queries, NEW e, NEW off, NEW want, NEW lost,
               ReadPage(q, e, off, want, lost),
               (q.kind = "scan" /\ ~lost) => /\ e \in Nat /\ e <= E /\ want = LiveRows(hot, e)
                                             /\ off \in Nat
        PROVE  ScanInv'
    <3>1. CASE ~PageOf(q, e, off).more
      BY <2>3, <2>4, <3>1 DEF ReadPage
    <3>2. CASE PageOf(q, e, off).more
      <4>1. PICK o : o = off + Len(PageOf(q, e, off).rows)
        OBVIOUS
      <4>2. reader' = [on |-> TRUE, q |-> q, epoch |-> e, want |-> want, off |-> o, lost |-> lost]
        BY <2>4, <3>2, <4>1 DEF ReadPage
      <4>3. (q.kind = "scan" /\ ~lost) => o \in Nat /\ o < Len(want)
        BY <2>4, <3>2, <4>1, ScanReads
      <4> QED BY <1>0, <2>1, <2>4, <4>2, <4>3 DEF ScanInv
    <3> QED BY <3>1, <3>2
  <2>5. ASSUME NEW q \in Queries, StartRead(q) PROVE ScanInv'
    <3>1. PICK want, f : want = Answer(q) /\ f = FALSE
      OBVIOUS
    <3>2. ReadPage(q, E, 0, want, f)
      BY <1>0, <2>5, <3>1 DEF StartRead
    <3>3. q.kind = "scan" => want = LiveRows(hot, E)
      BY <1>0, <3>1, ScanAnswer
    <3> QED BY <2>4, <3>2, <3>3
  <2>6. CASE NextPage
    <3>1. PICK q, e, off, want, lost :
            /\ q = reader.q /\ e = reader.epoch /\ off = reader.off /\ want = reader.want
            /\ lost = reader.lost
      OBVIOUS
    <3>2. reader.on /\ ReadPage(q, e, off, want, lost)
      BY <2>6, <3>1 DEF NextPage, CursorEpoch
    <3>3. /\ q \in Queries
          /\ (q.kind = "scan" /\ ~lost) => /\ e \in Nat /\ e <= E /\ want = LiveRows(hot, e)
                                           /\ off \in Nat
      BY <1>0, <3>1, <3>2 DEF ScanInv, NoReader
    <3> QED BY <2>1, <2>4, <3>2, <3>3
  <2>7. \/ reader' = reader \/ reader' = NoReader
        \/ \E q \in Queries : StartRead(q)
        \/ NextPage
    BY <1>5 DEF OtherStep, CursorExpired, vars
  <2> QED BY <2>1, <2>2, <2>3, <2>5, <2>6, <2>7
<1> QED BY <1>2, <1>3, <1>4, <1>5 DEF Next, StorageStep, OtherStep

\* Scans are one snapshot: the pages that a signed cursor of scan_as reads are cut
\* from the rows that were live when its first page was read, and there is always
\* a row left, however many commits, deletes, publications, compactions, copies
\* and restarts come between; except when a restart lost the versions below a
\* checkpoint that is later than the cursor.
THEOREM ScansKeepTheirSnapshot ==
    ASSUME Signed
    PROVE  Spec => []ScansAreOneSnapshot
<1>1. QueryInit => HotInv /\ ScanInv
  <2> SUFFICES ASSUME QueryInit PROVE HotInv /\ ScanInv
    OBVIOUS
  <2>1. /\ hot = [k \in Keys |-> <<>>] /\ reader = NoReader /\ copy = NoCopy
        /\ man = [epoch |-> 0, chk |-> 0, gen |-> 1, segs |-> <<>>, idxs |-> {}]
    BY DEF QueryInit, Init
  <2>2. VersionsOK(<<>>, 0)
    BY DEF VersionsOK
  <2>3. hot \in [Keys -> Seq(VersionRecord)] /\ (\A k \in Keys : hot[k] = <<>>)
    BY <2>1
  <2>4. man.epoch = 0 /\ man.chk = 0 /\ copy.step = "none"
    BY <2>1 DEF NoCopy
  <2> QED BY <2>1, <2>2, <2>3, <2>4 DEF HotInv, ScanInv, StoreOK
<1>2. SegmentsInv /\ HotInv /\ ScanInv /\ [Next]_vars => HotInv' /\ ScanInv'
  BY ScanStep
<1>3. ScanInv => ScansAreOneSnapshot
  BY HotRowsAre DEF ScanInv, ScansAreOneSnapshot, CursorEpoch, NoReader
<1> QED BY <1>1, <1>2, <1>3, SegmentsInit, SegmentsStep, PTL DEF Spec

-----------------------------------------------------------------------------
(* The size of the lexical cache *)

\* Entries under different keys.
Distinct(cs) == \A i, j \in 1..Len(cs) : cs[i].key = cs[j].key => i = j

\* Moving an entry to the end, or adding one under a new key, and evicting the
\* first one keeps the bound and the keys apart.
LEMMA EntryMoved ==
    ASSUME NEW T, NEW cs \in Seq(T), Distinct(cs), Len(cs) <= Capacity, NEW x \in T,
           NEW i \in 0..Len(cs), i # 0 => cs[i].key = x.key,
           i = 0 => \A j \in 1..Len(cs) : cs[j].key # x.key,
           NEW all, all = Append(IF i = 0 THEN cs ELSE RemoveAt(cs, i), x)
    PROVE  LET ds == IF Len(all) > Capacity THEN Tail(all) ELSE all
           IN  ds \in Seq(T) /\ Len(ds) <= Capacity /\ Distinct(ds)
<1>1. PICK N \in Nat : N = Len(cs)
  OBVIOUS
<1>2. PICK os, M : /\ os = (IF i = 0 THEN cs ELSE RemoveAt(cs, i))
                   /\ M = (IF i = 0 THEN N ELSE N - 1)
  OBVIOUS
<1>3. /\ os \in Seq(T) /\ Len(os) = M /\ M \in Nat /\ M <= N
      /\ \A j \in 1..M : os[j] = cs[IF i = 0 \/ j < i THEN j ELSE j + 1]
  <2>1. CASE i = 0
    BY <1>1, <1>2, <2>1
  <2>2. CASE i # 0
    <3>1. os = SubSeq(cs, 1, i - 1) \o SubSeq(cs, i + 1, N)
      BY <1>1, <1>2, <2>2 DEF RemoveAt
    <3>2. PICK a, b : a = SubSeq(cs, 1, i - 1) /\ b = SubSeq(cs, i + 1, N)
      OBVIOUS
    <3>3. /\ a \in Seq(T) /\ Len(a) = i - 1 /\ (\A j \in 1..i - 1 : a[j] = cs[j])
      BY <1>1, <2>2, <3>2
    <3>4. /\ b \in Seq(T) /\ Len(b) = N - i /\ (\A j \in 1..N - i : b[j] = cs[j + i])
      BY <1>1, <2>2, <3>2
    <3>a. os = a \o b /\ i \in 1..N /\ N - 1 \in Nat /\ N - i \in Nat /\ i - 1 \in Nat
      BY <1>1, <2>2, <3>1, <3>2
    <3>5. os \in Seq(T) /\ Len(os) = N - 1 /\ N - 1 \in Nat
      <4>0. a \in Seq(T) /\ b \in Seq(T)
        BY <3>3, <3>4
      <4>1. a \o b \in Seq(T) /\ Len(a \o b) = Len(a) + Len(b)
        BY <4>0
      <4> QED BY <3>3, <3>4, <3>a, <4>1
    <3>6. ASSUME NEW j \in 1..N - 1 PROVE os[j] = cs[IF j < i THEN j ELSE j + 1]
      <4>1. CASE j < i
        BY <3>3, <3>4, <3>a, <4>1
      <4>2. CASE ~(j < i)
        <5>1. PICK m \in 1..N - i : m = j - (i - 1)
          BY <1>1, <2>2, <4>2
        <5>2. os[j] = b[m]
          BY <3>3, <3>4, <3>a, <4>2, <5>1
        <5>3. m + i = j + 1
          BY <3>a, <5>1
        <5> QED BY <3>4, <4>2, <5>2, <5>3
      <4> QED BY <4>1, <4>2
    <3> QED BY <1>1, <1>2, <2>2, <3>5, <3>6
  <2> QED BY <2>1, <2>2
<1>a. ASSUME NEW j \in 1..M
      PROVE  \E a \in 1..N : a = (IF i = 0 \/ j < i THEN j ELSE j + 1) /\ os[j] = cs[a]
  <2>1. PICK a : a = IF i = 0 \/ j < i THEN j ELSE j + 1
    OBVIOUS
  <2>2. a \in 1..N
    BY <1>1, <1>2, <1>3, <2>1
  <2> QED BY <1>3, <2>1, <2>2
<1>4. ASSUME NEW j \in 1..M PROVE os[j].key # x.key
  <2>1. PICK a \in 1..N : a = (IF i = 0 \/ j < i THEN j ELSE j + 1) /\ os[j] = cs[a]
    BY <1>a
  <2>2. i # 0 => a # i
    BY <2>1
  <2> QED BY <1>1, <2>1, <2>2 DEF Distinct
<1>5. ASSUME NEW j \in 1..M, NEW m \in 1..M, os[j].key = os[m].key PROVE j = m
  <2>1. PICK a \in 1..N : a = (IF i = 0 \/ j < i THEN j ELSE j + 1) /\ os[j] = cs[a]
    BY <1>a
  <2>2. PICK b \in 1..N : b = (IF i = 0 \/ m < i THEN m ELSE m + 1) /\ os[m] = cs[b]
    BY <1>a
  <2>3. a = b
    BY <1>1, <1>5, <2>1, <2>2 DEF Distinct
  <2> QED BY <2>1, <2>2, <2>3
<1>6. /\ all \in Seq(T) /\ Len(all) = M + 1 /\ all[M + 1] = x
      /\ \A j \in 1..M : all[j] = os[j]
  BY <1>2, <1>3
<1>7. Distinct(all)
  <2>1. \A j \in 1..M + 1 : j \in 1..M \/ j = M + 1
    BY <1>3
  <2> SUFFICES ASSUME NEW j \in 1..M + 1, NEW m \in 1..M + 1, all[j].key = all[m].key
               PROVE  j = m
    BY <1>6 DEF Distinct
  <2>2. CASE j \in 1..M /\ m \in 1..M
    BY <1>5, <1>6, <2>2
  <2>3. CASE j = M + 1 \/ m = M + 1
    BY <1>4, <1>6, <2>1, <2>3
  <2> QED BY <2>1, <2>2, <2>3
<1>8. PICK ts : ts = Tail(all)
  OBVIOUS
<1>9. ts \in Seq(T) /\ Len(ts) = M /\ \A j \in 1..M : j + 1 \in 1..M + 1 /\ ts[j] = all[j + 1]
  BY <1>3, <1>6, <1>8
<1>10. Distinct(ts)
  <2> SUFFICES ASSUME NEW j \in 1..M, NEW m \in 1..M, ts[j].key = ts[m].key PROVE j = m
    BY <1>9 DEF Distinct
  <2>1. PICK a \in 1..M + 1, b \in 1..M + 1 : a = j + 1 /\ b = m + 1
    BY <1>9
  <2>2. all[a].key = all[b].key
    BY <1>9, <2>1
  <2>3. a = b
    BY <1>6, <1>7, <2>2 DEF Distinct
  <2> QED BY <2>1, <2>3
<1>11. M <= Capacity /\ Capacity \in Nat
  BY <1>1, <1>3, QueryAssumption
<1> QED BY <1>3, <1>6, <1>7, <1>8, <1>9, <1>10, <1>11

\* A query keeps the bound, whatever documents it has.
LEMMA ReadBounded ==
    ASSUME CacheBounded, NEW T, cache \in Seq(T), NEW q, NEW docs,
           NEW cs, cs = CacheAfter(q, docs)
    PROVE  cs \in Seq(T \cup {EntryFor(q, docs)}) /\ Len(cs) <= Capacity /\ Distinct(cs)
<1>1. PICK c : c = cache /\ c \in Seq(T) /\ Len(c) <= Capacity /\ Distinct(c)
  BY DEF CacheBounded, Distinct
<1>2. CASE cs = c
  <2>1. PICK x, U : x = EntryFor(q, docs) /\ U = T \cup {x}
    OBVIOUS
  <2>2. c \in Seq(U)
    BY <1>1, <2>1
  <2> QED BY <1>1, <1>2, <2>1, <2>2
<1>3. CASE cs # c
  <2>1. PICK i, x, U, all : /\ i = Cached(q) /\ x = EntryFor(q, docs) /\ U = T \cup {x}
                            /\ all = Append(OtherEntries(q), x)
    OBVIOUS
  <2>2. c \in Seq(U) /\ x \in U
    BY <1>1, <2>1
  <2>a. PICK N \in Nat : N = Len(c)
    BY <1>1
  <2>3. PICK S : S = {0} \cup {j \in 1..N : c[j].key = CacheKey(q)}
    OBVIOUS
  <2>4. S \in SUBSET (0..N) /\ S # {}
    BY <2>3
  <2>5. Max(S) \in S /\ \A j \in S : j <= Max(S)
    BY <2>4, LargestOf
  <2>6. i = Max(S)
    BY <1>1, <2>1, <2>3, <2>a DEF Cached
  <2>7. x.key = CacheKey(q)
    <3>1. CASE i # 0
      BY <1>1, <2>1, <2>3, <2>5, <2>6, <2>a, <3>1 DEF EntryFor
    <3>2. CASE i = 0
      BY <2>1, <3>2 DEF EntryFor
    <3> QED BY <3>1, <3>2
  <2>8. /\ i \in 0..Len(c) /\ (i # 0 => c[i].key = x.key)
        /\ i = 0 => \A j \in 1..Len(c) : c[j].key # x.key
    BY <2>3, <2>4, <2>5, <2>6, <2>7, <2>a
  <2>9. all = Append(IF i = 0 THEN c ELSE RemoveAt(c, i), x)
    BY <1>1, <2>1 DEF OtherEntries
  <2>10. cs = IF Len(all) > Capacity THEN Tail(all) ELSE all
    BY <1>1, <1>3, <2>1 DEF CacheAfter
  <2>11. cs \in Seq(U) /\ Len(cs) <= Capacity /\ Distinct(cs)
    BY <1>1, <2>2, <2>8, <2>9, <2>10, EntryMoved
  <2> QED BY <2>1, <2>11
<1> QED BY <1>2, <1>3

-----------------------------------------------------------------------------
(* What queries answer *)

\* Induction, for a set.
LEMMA SetInduction ==
    ASSUME NEW S \in SUBSET Nat, 0 \in S, \A n \in S : n + 1 \in S
    PROVE  S = Nat
<1> SUFFICES ASSUME Nat \ S # {} PROVE FALSE
  OBVIOUS
<1>1. PICK x \in Nat \ S : \A y \in Nat \ S : x <= y
  BY LeastOf
<1>2. x # 0 /\ x - 1 \in Nat
  BY <1>1
<1>3. x - 1 \in S
  BY <1>1, <1>2
<1> QED BY <1>1, <1>3

\* A function on 1..n is a sequence.
LEMMA IsSequence ==
    ASSUME NEW n \in Nat, NEW s, s = [i \in 1..n |-> s[i]]
    PROVE  s \in Seq({s[i] : i \in 1..n}) /\ Len(s) = n
<1>1. PICK T : T = {s[i] : i \in 1..n}
  OBVIOUS
<1>2. s \in [1..n -> T]
  BY <1>1
<1> QED BY <1>1, <1>2

\* The concatenation of sequences has their elements.
LEMMA FlattenIn ==
    ASSUME NEW T, NEW ss \in Seq(Seq(T))
    PROVE  /\ FlattenSeq(ss) \in Seq(T)
           /\ \A i \in 1..Len(ss) : \A j \in 1..Len(ss[i]) :
                 \E p \in 1..Len(FlattenSeq(ss)) : FlattenSeq(ss)[p] = ss[i][j]
<1>0. PICK N \in Nat : N = Len(ss)
  OBVIOUS
<1>1. CASE N = 0
  <2>1. FlattenSeq(ss) = ss
    BY <1>0, <1>1, Zenon DEF FlattenSeq
  <2>2. ss = <<>>
    <3>1. PICK U : U = Seq(T) /\ ss \in Seq(U) /\ Len(ss) = 0
      BY <1>0, <1>1
    <3> QED BY <3>1
  <2>3. FlattenSeq(ss) \in Seq(T)
    BY <2>1, <2>2
  <2> QED BY <1>0, <1>1, <2>3
<1>2. CASE N # 0
  <2> DEFINE St(x, i) == IF i = 1 THEN ss[i] ELSE x \o ss[i]
             R(f, n) == f = [i \in 1..n |-> St(f[i-1], i)]
             S == {n \in Nat : \E f : R(f, n)}
             h == CHOOSE f : R(f, N)
  <2>1. 0 \in S
    <3> DEFINE g == [i \in 1..0 |-> ss]
    <3>1. R(g, 0)
      OBVIOUS
    <3> QED BY <3>1
  <2>2. \A n \in S : n + 1 \in S
    <3> SUFFICES ASSUME NEW m \in S PROVE m + 1 \in S
      OBVIOUS
    <3>1. PICK f : R(f, m)
      OBVIOUS
    <3>2. m \in Nat
      OBVIOUS
    <3> DEFINE g == [i \in 1..m + 1 |-> St(f[i-1], i)]
    <3>3. \A i \in 1..m : g[i] = f[i]
      <4> HIDE DEF St
      <4> QED BY <3>1, <3>2
    <3>4. \A i \in 1..m + 1 : g[i] = St(g[i-1], i)
      <4> SUFFICES ASSUME NEW i \in 1..m + 1 PROVE  g[i] = St(g[i-1], i)
        OBVIOUS
      <4>1. i # 1 => i - 1 \in 1..m
        BY <3>2
      <4>2. i # 1 => g[i - 1] = f[i - 1]
        <5> HIDE DEF g
        <5> QED BY <3>3, <4>1
      <4>3. g[i] = St(f[i - 1], i)
        <5> HIDE DEF St
        <5> QED OBVIOUS
      <4> HIDE DEF g
      <4> QED BY <4>2, <4>3
    <3>5. g = [i \in 1..m + 1 |-> g[i]]
      OBVIOUS
    <3> HIDE DEF g, St
    <3>6. R(g, m + 1)
      BY <3>4, <3>5
    <3>7. \E f2 : R(f2, m + 1)
      BY <3>6
    <3> HIDE DEF R
    <3> QED BY <3>2, <3>7
  <2>3. S = Nat
    <3> HIDE DEF S
    <3>1. S \in SUBSET Nat
      BY DEF S
    <3> QED BY <2>1, <2>2, <3>1, SetInduction
  <2>4. \E f : R(f, N)
    BY <2>3
  <2>5. R(h, N)
    BY <2>4, Zenon
  <2>6. FlattenSeq(ss) = h[N]
    BY <1>0, <1>2 DEF FlattenSeq
  <2> HIDE DEF h
  <2>7. \A i \in 1..N : h[i] = St(h[i-1], i)
    <3> HIDE DEF St
    <3> QED BY <2>5
  <2> DEFINE Has(s, i) == \A j \in 1..Len(ss[i]) : \E p \in 1..Len(s) : s[p] = ss[i][j]
             G == {n \in Nat : n # 0 /\ n <= N =>
                       h[n] \in Seq(T) /\ \A i \in 1..n : Has(h[n], i)}
  <2>8. \A i \in 1..N : ss[i] \in Seq(T)
    BY <1>0
  <2>9. 0 \in G
    OBVIOUS
  <2>h. \A s, i : Has(s, i) <=> \A j \in 1..Len(ss[i]) : \E p \in 1..Len(s) : s[p] = ss[i][j]
    OBVIOUS
  <2> HIDE DEF Has
  <2>10. ASSUME NEW n \in G PROVE n + 1 \in G
    <3>1. n \in Nat
      OBVIOUS
    <3> SUFFICES ASSUME n + 1 <= N
                 PROVE  h[n + 1] \in Seq(T) /\ \A i \in 1..n + 1 : Has(h[n + 1], i)
      BY <3>1
    <3>2. CASE n = 0
      <4>1. h[1] = ss[1] /\ ss[1] \in Seq(T)
        BY <1>2, <2>7, <2>8
      <4>2. \A i \in 1..1 : i = 1
        OBVIOUS
      <4>3. Has(h[1], 1)
        BY <2>h, <4>1
      <4>4. h[1] \in Seq(T) /\ \A i \in 1..1 : Has(h[1], i)
        BY <4>1, <4>2, <4>3
      <4>5. n + 1 = 1
        BY <3>2
      <4> QED BY <4>4, <4>5
    <3>3. CASE n # 0
      <4>1. h[n] \in Seq(T) /\ \A i \in 1..n : Has(h[n], i)
        BY <3>1, <3>3
      <4>2. n + 1 \in 1..N /\ n + 1 # 1 /\ n + 1 - 1 = n
        BY <3>1, <3>3
      <4>3. PICK a, b : a = h[n] /\ b = ss[n + 1] /\ h[n + 1] = a \o b
        <5>1. h[n + 1] = St(h[n + 1 - 1], n + 1)
          <6> HIDE DEF St
          <6> QED BY <2>7, <4>2
        <5>2. h[n + 1] = St(h[n], n + 1)
          <6> HIDE DEF St
          <6> QED BY <4>2, <5>1
        <5>3. h[n + 1] = h[n] \o ss[n + 1]
          BY <4>2, <5>2
        <5> QED BY <5>3
      <4>4. a \in Seq(T) /\ b \in Seq(T)
        BY <2>8, <4>1, <4>2, <4>3
      <4>5. ASSUME NEW i \in 1..n PROVE Has(a \o b, i)
        <5> SUFFICES ASSUME NEW j \in 1..Len(ss[i])
                     PROVE  \E p \in 1..Len(a \o b) : (a \o b)[p] = ss[i][j]
          BY <2>h
        <5>1. PICK p \in 1..Len(a) : a[p] = ss[i][j]
          BY <2>h, <4>1, <4>3
        <5>2. p \in 1..Len(a \o b) /\ (a \o b)[p] = a[p]
          BY <4>4
        <5> QED BY <5>1, <5>2
      <4>6. Has(a \o b, n + 1)
        <5> SUFFICES ASSUME NEW j \in 1..Len(b)
                     PROVE  \E p \in 1..Len(a \o b) : (a \o b)[p] = b[j]
          BY <2>h, <4>3
        <5>1. Len(a) + j \in 1..Len(a \o b) /\ (a \o b)[Len(a) + j] = b[j]
          BY <4>4
        <5> QED BY <5>1
      <4>7. \A i \in 1..n + 1 : i \in 1..n \/ i = n + 1
        BY <3>1
      <4>8. PICK c : c = a \o b
        OBVIOUS
      <4>9. c \in Seq(T) /\ \A i \in 1..n + 1 : Has(c, i)
        BY <4>4, <4>5, <4>6, <4>7, <4>8
      <4> QED BY <4>3, <4>8, <4>9
    <3> QED BY <3>2, <3>3
  <2>11. G = Nat
    <3>1. \A n \in G : n + 1 \in G
      BY <2>10
    <3> HIDE DEF G
    <3>2. G \in SUBSET Nat
      BY DEF G
    <3> QED BY <2>9, <3>1, <3>2, SetInduction
  <2>12. h[N] \in Seq(T) /\ \A i \in 1..N : Has(h[N], i)
    BY <1>2, <2>11
  <2> QED BY <1>0, <2>h, <2>6, <2>12
<1> QED BY <1>1, <1>2

Sequence(s) == Len(s) \in Nat /\ s = [i \in 1..Len(s) |-> s[i]]

\* A subsequence s of t, given by the positions at.
Picks(s, t, at) ==
    /\ Sequence(s) /\ Len(s) <= Len(t)
    /\ \A i \in 1..Len(s) : \E j \in at : s[i] = t[j]
    /\ \A j \in at : \E i \in 1..Len(s) : s[i] = t[j]
    /\ \A i, k \in 1..Len(s) : i # k =>
          \E j, l \in at : j # l /\ s[i] = t[j] /\ s[k] = t[l]

\* Picking keeps what is picked, each position once.
LEMMA PickedIn ==
    ASSUME NEW T, NEW s \in Seq(T), NEW at \in SUBSET (1..Len(s)), NEW p, p = Picked(s, at)
    PROVE  p \in Seq(T) /\ Picks(p, s, at)
<1>1. PICK N \in Nat : N = Len(s)
  OBVIOUS
<1>2. IsFiniteSet(1..N) /\ Cardinality(1..N) = N
  BY FS_Interval
<1>a. at \in SUBSET (1..N) /\ at \in SUBSET Nat
  BY <1>1
<1>3. IsFiniteSet(at) /\ Cardinality(at) <= N
  BY <1>2, <1>a, FS_Subset
<1>4. PICK n, order : n = Cardinality(at) /\ order = Ascending(at)
  OBVIOUS
<1>5. /\ n \in Nat /\ n <= N /\ \A i \in 1..n : order[i] \in at
      /\ \A i, j \in 1..n : order[i] = order[j] => i = j
      /\ \A x \in at : \E i \in 1..n : order[i] = x
  BY <1>3, <1>4, <1>a, AscendingIn
<1>6. p = [i \in 1..n |-> s[order[i]]]
  BY <1>4 DEF Picked
<1>7. \A i \in 1..n : s[order[i]] \in T
  <2>1. \A j \in 1..N : s[j] \in T
    BY <1>1
  <2> QED BY <1>5, <1>a, <2>1
<1>8. p \in Seq(T) /\ Len(p) = n /\ \A i \in 1..n : p[i] = s[order[i]]
  BY <1>5, <1>6, <1>7
<1>9. ASSUME NEW i \in 1..n PROVE \E j \in at : p[i] = s[j]
  <2>1. order[i] \in at /\ p[i] = s[order[i]]
    BY <1>5, <1>8
  <2> QED BY <2>1
<1>10. ASSUME NEW j \in at PROVE \E i \in 1..n : p[i] = s[j]
  <2>1. PICK i \in 1..n : order[i] = j
    BY <1>5
  <2>2. p[i] = s[j]
    BY <1>8, <2>1
  <2> QED BY <2>2
<1>11. ASSUME NEW i \in 1..n, NEW k \in 1..n, i # k
       PROVE  \E j, l \in at : j # l /\ p[i] = s[j] /\ p[k] = s[l]
  <2>1. PICK j, l : j = order[i] /\ l = order[k]
    OBVIOUS
  <2>2. j \in at /\ l \in at /\ j # l
    BY <1>5, <1>11, <2>1
  <2>3. p[i] = s[j] /\ p[k] = s[l]
    BY <1>8, <2>1
  <2> QED BY <2>2, <2>3
<1>12. Sequence(p)
  BY <1>5, <1>6, <1>8 DEF Sequence
<1> QED BY ZenonT(60), <1>1, <1>5, <1>8, <1>9, <1>10, <1>11, <1>12 DEF Picks

\* The rows that segments may hold: of records that have versions.
Row(h) == [key : Known(h), ver : Nat, val : Vals]

FilesOK(h, files) == \A id \in DOMAIN files : files[id].recs \in Seq(Row(h))

\* A segment, of the directory and of a finished copy, only holds rows of records
\* that the store next to it has versions of, be it a tombstone.
SealedInv ==
    /\ FilesOK(hot, segs)
    /\ copy.step = "done" => FilesOK(copy.hot, copy.segs)

\* The live rows: each live record once, in its visible version.
LEMMA LiveRowsIn ==
    ASSUME NEW E, NEW h, StoreOK(h, E), NEW e, NEW rows, rows = LiveRows(h, e)
    PROVE  /\ rows \in Seq(Row(h))
           /\ \A i \in 1..Len(rows) : VisibleAt(h[rows[i].key], e) # 0
           /\ \A i, j \in 1..Len(rows) : rows[i].key = rows[j].key => i = j
<1>1. PICK S : S = {k \in Keys : VisibleAt(h[k], e) # 0}
  OBVIOUS
<1>2. S \in SUBSET Nat /\ IsFiniteSet(S) /\ S \in SUBSET Keys
  BY <1>1, SegmentsAssumption, FS_Subset
<1>3. PICK n, live : n = Cardinality(S) /\ live = Ascending(S)
  OBVIOUS
<1>4. /\ n \in Nat /\ DOMAIN live = 1..n /\ \A i \in 1..n : live[i] \in S
      /\ \A i, j \in 1..n : live[i] = live[j] => i = j
  BY <1>2, <1>3, AscendingIn
<1>5. Len(live) = n
  BY <1>4
<1>6. rows = [i \in 1..n |-> SegmentRecord(live[i], h[live[i]][VisibleAt(h[live[i]], e)])]
  BY <1>1, <1>3, <1>5 DEF LiveRows
<1>7. ASSUME NEW k \in S
      PROVE  SegmentRecord(k, h[k][VisibleAt(h[k], e)]) \in Row(h)
  <2>1. k \in Keys /\ VisibleAt(h[k], e) # 0
    BY <1>1, <1>7
  <2>2. PICK vs \in Seq(VersionRecord) : vs = h[k]
    BY <2>1 DEF StoreOK
  <2>3. PICK m : m = VisibleAt(vs, e) /\ m \in 1..Len(vs)
    BY <2>1, <2>2, VisibleIn
  <2>4. vs[m] \in VersionRecord /\ Len(vs) > 0
    BY <2>2, <2>3
  <2>5. vs[m].begin \in Nat /\ vs[m].val \in Vals
    BY <2>4 DEF VersionRecord
  <2>6. k \in Known(h)
    BY <2>1, <2>2, <2>4 DEF Known
  <2> QED BY <2>2, <2>3, <2>5, <2>6 DEF SegmentRecord, Row
<1>8. \A i \in 1..n : rows[i] \in Row(h) /\ rows[i].key = live[i]
  BY <1>4, <1>6, <1>7 DEF SegmentRecord
<1>9. rows \in Seq(Row(h)) /\ Len(rows) = n
  BY <1>4, <1>6, <1>8
<1>10. \A i \in 1..n : VisibleAt(h[rows[i].key], e) # 0
  BY <1>1, <1>4, <1>8
<1> QED BY <1>4, <1>8, <1>9, <1>10

\* Rows of records that are known stay so.
LEMMA FilesKept ==
    ASSUME NEW h, NEW g, Known(h) \subseteq Known(g), NEW files, FilesOK(h, files)
    PROVE  FilesOK(g, files)
<1>1. \A r \in Row(h) : r \in Row(g)
  BY DEF Row
<1>2. ASSUME NEW s \in Seq(Row(h)) PROVE s \in Seq(Row(g))
  BY <1>1
<1> QED BY <1>2 DEF FilesOK

\* A publication seals the live rows, or finds a segment that is there.
LEMMA SealedWrite ==
    ASSUME SegmentsInv, HotInv, SealedInv, NEW kind, NEW id, NEW g, WriteSegment(kind, id, g)
    PROVE  FilesOK(hot, segs')
<1>1. PICK h, files, e, rows : /\ h = hot /\ files = segs /\ e = man.epoch
                               /\ rows = LiveRows(h, e)
  OBVIOUS
<1>2. StoreOK(h, e) /\ FilesOK(h, files)
  BY <1>1 DEF HotInv, SealedInv
<1>3. rows \in Seq(Row(h))
  BY <1>1, <1>2, LiveRowsIn
<1>4. SnapshotRecords = rows
  BY <1>1, HotRowsAre DEF SnapshotRecords
<1>5. PICK obj : /\ obj = IF id \in DOMAIN files THEN files[id] ELSE SegmentObject(id, g, rows)
                 /\ segs' = Put1(files, id, obj)
  BY <1>1, <1>4 DEF WriteSegment
<1>6. obj.recs \in Seq(Row(h))
  BY <1>2, <1>3, <1>5 DEF FilesOK, SegmentObject
<1>7. FilesOK(h, Put1(files, id, obj))
  BY <1>2, <1>6 DEF FilesOK, Put1
<1> QED BY <1>1, <1>5, <1>7

\* Every step keeps the segments within the records of the store.
LEMMA SealedStep ==
    ASSUME SegmentsInv, HotInv, SealedInv, [Next]_vars
    PROVE  HotInv' /\ SealedInv'
<1>0. PICK h, files : h = hot /\ files = segs /\ FilesOK(h, files)
  BY DEF SealedInv
<1>1. CASE Write
  <2>1. HotInv' /\ Known(hot) \subseteq Known(hot')
    BY <1>1, WriteHot
  <2>2. segs' = segs /\ copy' = copy
    BY <1>1 DEF Write, PutRecord, DeleteRecord, Commit, Checkpoint
  <2>3. PICK g : g = hot'
    OBVIOUS
  <2>4. FilesOK(g, files)
    BY <1>0, <2>1, <2>3, FilesKept
  <2> QED BY <1>0, <2>1, <2>2, <2>3, <2>4 DEF SealedInv
<1>2. CASE Restart
  <2>1. PICK c, E, g : c \in Nat /\ c = man.chk /\ E \in Nat /\ E = man.epoch /\ g = hot'
    BY DEF HotInv, SegmentsInv, Shape
  <2>2. StoreOK(h, E) /\ g = [k \in Keys |-> Retained(h[k], c)]
    BY <1>0, <1>2, <2>1 DEF HotInv, Restart
  <2>3. StoreOK(g, E) /\ Known(h) \subseteq Known(g)
    BY <2>1, <2>2, RetainedStore
  <2>4. man' = man /\ segs' = segs /\ copy' = IF copy.step = "done" THEN copy ELSE NoCopy
    BY <1>2 DEF Restart
  <2>5. HotInv'
    BY <2>1, <2>3, <2>4 DEF HotInv, NoCopy
  <2>6. FilesOK(g, files)
    BY <1>0, <2>3, FilesKept
  <2> QED BY <1>0, <2>1, <2>4, <2>5, <2>6 DEF SealedInv, NoCopy
<1>3. CASE Restore
  <2>1. /\ hot' = copy.hot /\ man' = copy.man /\ segs' = copy.segs /\ copy' = copy
        /\ copy.step = "done"
    BY <1>3 DEF Restore
  <2> QED BY <2>1 DEF HotInv, SealedInv
<1>4. CASE OtherStep
  <2>1. HotInv' /\ hot' = hot
    BY <1>4, OtherHot
  <2>2. ASSUME copy' = copy, FilesOK(hot, segs') PROVE SealedInv'
    BY <2>1, <2>2 DEF SealedInv
  <2>3. ASSUME NEW kind, NEW id, NEW g, WriteSegment(kind, id, g) PROVE SealedInv'
    <3>1. copy' = copy
      BY <2>3 DEF WriteSegment
    <3> QED BY <2>2, <2>3, <3>1, SealedWrite
  <2>4. CASE Vacuum
    <3>1. copy' = copy /\ \E s : segs' = [id \in DOMAIN segs \ s |-> segs[id]]
      BY <2>4 DEF Vacuum
    <3>2. PICK s : segs' = [id \in DOMAIN files \ s |-> files[id]]
      BY <1>0, <3>1
    <3>3. FilesOK(h, [id \in DOMAIN files \ s |-> files[id]])
      BY <1>0 DEF FilesOK
    <3>4. FilesOK(hot, segs')
      BY <1>0, <3>2, <3>3
    <3> QED BY <2>1, <2>2, <3>1, <3>4
  <2>5. CASE Copying
    <3>1. segs' = segs
      BY <2>5 DEF Copying, CopyManifest, CopyWal, CopyArtifacts, CopyCheckpoints
    <3>2. CASE copy'.step # "done"
      BY <2>1, <3>1, <3>2 DEF SealedInv
    <3>3. CASE CopyCheckpoints
      <4>1. PICK c, E, g : /\ c \in Nat /\ c = man.chk /\ E \in Nat /\ E = man.epoch
                           /\ g = [k \in Keys |-> Retained(h[k], c)]
        BY DEF HotInv, SegmentsInv, Shape
      <4>2. copy'.hot = g /\ copy'.segs = segs
        BY <1>0, <3>3, <4>1 DEF CopyCheckpoints, SegmentsInv, CopyShape
      <4>3. StoreOK(h, E)
        BY <1>0, <4>1 DEF HotInv
      <4>4. Known(h) \subseteq Known(g)
        BY <4>1, <4>3, RetainedStore
      <4>5. FilesOK(g, files)
        BY <1>0, <4>4, FilesKept
      <4> QED BY <1>0, <2>1, <3>1, <4>2, <4>5 DEF SealedInv
    <3> QED BY <2>5, <3>2, <3>3 DEF Copying, CopyManifest, CopyWal, CopyArtifacts
  <2>6. CASE \/ PublishManifest \/ WriteIndex \/ PublishFails
             \/ \E id \in SegmentIds : PublishAgain(id)
             \/ \E q \in Queries : StartRead(q)
             \/ NextPage \/ CursorExpired \/ UNCHANGED vars
    <3>1. copy' = copy /\ segs' = segs
      BY <2>6 DEF PublishManifest, WriteIndex, PublishFails, PublishAgain, StartRead, NextPage,
         CursorExpired, ReadPage, storage, vars
    <3>2. FilesOK(hot, segs')
      BY <3>1 DEF SealedInv
    <3> QED BY <2>1, <2>2, <3>1, <3>2
  <2>7. CASE Compact \/ \E id \in SegmentIds : PublishSegment(id)
    <3>1. \E kind, id, g : WriteSegment(kind, id, g)
      BY <2>7, Zenon DEF Compact, PublishSegment
    <3> QED BY <2>1, <2>3, <3>1
  <2> QED BY <1>4, <2>1, <2>4, <2>5, <2>6, <2>7 DEF OtherStep
<1> QED BY <1>1, <1>2, <1>3, <1>4 DEF Next, StorageStep, OtherStep

\* In a state without a copy or an operation, a record whose rows were sealed and
\* that is not deleted is live.
LEMMA KnownIsLive ==
    ASSUME NEW E \in Nat, StoreOK(hot, E), NEW k \in Known(hot), ~TombstonedAt(k, E)
    PROVE  Live(k, E)
<1>1. PICK vs : vs = hot[k] /\ VersionsOK(vs, E) /\ k \in Keys
  BY DEF StoreOK, Known
<1>2. PICK N \in Nat : N = Len(vs) /\ N > 0 /\ vs \in Seq(VersionRecord)
  BY <1>1 DEF VersionsOK, Known
<1>3. vs[N].end = 0 /\ vs[N].begin <= E
  BY <1>2, <1>1 DEF VersionsOK
<1>4. Holds(vs[N], E)
  BY <1>3 DEF Holds
<1>5. PICK S : S = {0} \cup {j \in 1..N : Holds(vs[j], E)}
  OBVIOUS
<1>6. S \in SUBSET (0..N) /\ N \in S
  BY <1>2, <1>4, <1>5
<1>7. Max(S) = N
  <2>1. Max(S) \in S /\ \A i \in S : i <= Max(S)
    BY <1>6, LargestOf
  <2>2. Max(S) \in 0..N /\ N <= Max(S)
    BY <1>6, <2>1
  <2> QED BY <1>2, <2>2
<1>8. ~vs[N].tomb
  <2>1. TombstonedAt(k, E) <=> Max(S) # 0 /\ vs[Max(S)].tomb
    BY <1>1, <1>2, <1>5 DEF TombstonedAt
  <2> QED BY <1>2, <1>7, <2>1
<1>9. N <= VisibleAt(vs, E) /\ VisibleAt(vs, E) \in 0..N
  BY <1>2, <1>4, <1>8, VisibleIn
<1> QED BY <1>1, <1>2, <1>9 DEF Live

\* A sum is computed element by element, over the subsets of its domain.
SumsOver(iter, f, S) ==
    \A s \in SUBSET S :
        iter[s] = IF s = {} THEN 0
                  ELSE f[CHOOSE x \in s : TRUE] + iter[s \ {CHOOSE x \in s : TRUE}]

LEMMA SumRecurs ==
    ASSUME NEW S, IsFiniteSet(S), NEW f, DOMAIN f = S
    PROVE  \E iter : SumsOver(iter, f, S) /\ SumFunction(f) = iter[S]
<1> DEFINE C(s) == CHOOSE x \in s : TRUE
           St(h, s) == IF s = {} THEN 0 ELSE f[C(s)] + h[s \ {C(s)}]
           Few(n) == {s \in SUBSET S : Cardinality(s) <= n}
           Q(h, n) == h = [s \in Few(n) |-> St(h, s)]
           P == {n \in Nat : \E h : Q(h, n)}
           R(h) == h = [s \in SUBSET S |-> St(h, s)]
           iter == CHOOSE h : R(h)
<1>1. \A s \in SUBSET S : IsFiniteSet(s) /\ Cardinality(s) \in Nat
  BY FS_Subset, FS_CardinalityType
<1>2. \A s : s # {} => C(s) \in s
  OBVIOUS
<1>3. SumFunction(f) = iter[S]
  BY DEF SumFunction, SumFunctionOnSet, FoldFunctionOnSet, MapThenFoldSet
<1>c. SumsOver(iter, f, S) <=> \A s \in SUBSET S : iter[s] = St(iter, s)
  <2> HIDE DEF iter
  <2> QED BY DEF SumsOver
<1> HIDE DEF C
<1>4. \A s \in SUBSET S, n \in Nat :
         s # {} /\ Cardinality(s) <= n + 1 => s \ {C(s)} \in Few(n)
  <2> SUFFICES ASSUME NEW s \in SUBSET S, NEW n \in Nat, s # {}, Cardinality(s) <= n + 1
               PROVE  s \ {C(s)} \in Few(n)
    OBVIOUS
  <2>1. C(s) \in s /\ IsFiniteSet(s) /\ Cardinality(s) \in Nat
    BY <1>1, <1>2
  <2>2. Cardinality(s \ {C(s)}) = Cardinality(s) - 1
    BY <2>1, FS_RemoveElement
  <2> QED BY <2>1, <2>2
<1>6. 0 \in P
  <2> DEFINE h == [s \in Few(0) |-> 0]
  <2>1. ASSUME NEW s \in Few(0) PROVE s = {}
    <3>1. IsFiniteSet(s) /\ Cardinality(s) = 0
      BY <1>1
    <3> QED BY <3>1, FS_EmptySet
  <2>2. \A s \in Few(0) : h[s] = St(h, s)
    BY <2>1
  <2>3. h = [s \in Few(0) |-> h[s]]
    OBVIOUS
  <2> HIDE DEF h, St, Few
  <2>4. Q(h, 0)
    BY <2>2, <2>3
  <2> HIDE DEF Q
  <2> QED BY <2>4
<1>7. ASSUME NEW n \in P PROVE n + 1 \in P
  <2>1. n \in Nat
    OBVIOUS
  <2>2. PICK h : Q(h, n)
    OBVIOUS
  <2> DEFINE g == [s \in Few(n + 1) |-> St(h, s)]
  <2>3. \A s \in Few(n + 1) : s \in SUBSET S /\ (s # {} => s \ {C(s)} \in Few(n))
    BY <1>4, <2>1
  <2>4. \A s \in Few(n) : s \in Few(n + 1)
    BY <1>1, <2>1
  <2>5. /\ \A s \in Few(n) : h[s] = St(h, s)
        /\ \A s \in Few(n + 1) : g[s] = St(h, s)
        /\ g = [s \in Few(n + 1) |-> g[s]]
    <3> HIDE DEF St, Few
    <3> QED BY <2>2
  <2> HIDE DEF g, Few, Q
  <2>6. \A s \in Few(n) : g[s] = h[s]
    <3> HIDE DEF St
    <3> QED BY <2>4, <2>5
  <2>7. ASSUME NEW s \in Few(n + 1) PROVE g[s] = St(g, s)
    <3>1. CASE s = {}
      BY <2>5, <3>1
    <3>2. CASE s # {}
      <4>1. s \ {C(s)} \in Few(n)
        BY <2>3, <3>2
      <4>2. g[s] = f[C(s)] + h[s \ {C(s)}] /\ g[s] = f[C(s)] + g[s \ {C(s)}]
        BY <2>5, <2>6, <3>2, <4>1
      <4> QED BY <3>2, <4>2
    <3> QED BY <3>1, <3>2
  <2>8. Q(g, n + 1)
    <3> HIDE DEF St
    <3> QED BY <2>5, <2>7 DEF Q
  <2> QED BY <2>1, <2>8
<1>8. P = Nat
  <2>1. \A n \in P : n + 1 \in P
    BY <1>7
  <2> HIDE DEF P
  <2>2. P \in SUBSET Nat
    BY DEF P
  <2> QED BY <1>6, <2>1, <2>2, SetInduction
<1>9. PICK m \in Nat : \A s \in SUBSET S : Cardinality(s) <= m
  <2>1. Cardinality(S) \in Nat
    BY FS_CardinalityType
  <2>2. \A s \in SUBSET S : Cardinality(s) <= Cardinality(S)
    BY FS_Subset
  <2> QED BY <2>1, <2>2
<1>10. Few(m) = SUBSET S
  BY <1>9
<1>11. PICK h : Q(h, m)
  <2> HIDE DEF Q
  <2> QED BY <1>8
<1>12. R(h)
  <2> HIDE DEF St, Few
  <2> QED BY <1>10, <1>11
<1>13. R(iter)
  BY <1>12, Zenon
<1> HIDE DEF iter
<1>14. \A s \in SUBSET S : iter[s] = St(iter, s)
  <2> HIDE DEF St
  <2> QED BY <1>13
<1> QED BY <1>3, <1>14, <1>c

\* A sum of finitely many numbers is a number; G is Nat or Int.
LEMMA SumIn ==
    ASSUME NEW G, 0 \in G, \A a, b \in G : a + b \in G,
           NEW S, IsFiniteSet(S), NEW f, DOMAIN f = S, \A x \in S : f[x] \in G
    PROVE  SumFunction(f) \in G
<1> DEFINE C(s) == CHOOSE x \in s : TRUE
           Few(n) == {s \in SUBSET S : Cardinality(s) <= n}
<1>1. \A s \in SUBSET S : IsFiniteSet(s) /\ Cardinality(s) \in Nat
  BY FS_Subset, FS_CardinalityType
<1>2. \A s : s # {} => C(s) \in s
  OBVIOUS
<1>a. PICK iter : SumsOver(iter, f, S) /\ SumFunction(f) = iter[S]
  BY SumRecurs
<1>3. \A s \in SUBSET S : iter[s] = IF s = {} THEN 0 ELSE f[C(s)] + iter[s \ {C(s)}]
  BY <1>a DEF SumsOver
<1> HIDE DEF C
<1> DEFINE K == {n \in Nat : \A s \in Few(n) : iter[s] \in G}
<1>4. 0 \in K
  <2>1. ASSUME NEW s \in Few(0) PROVE iter[s] \in G
    <3>1. IsFiniteSet(s) /\ Cardinality(s) = 0
      BY <1>1
    <3>2. s = {}
      BY <3>1, FS_EmptySet
    <3> QED BY <1>3, <3>2
  <2> QED BY <2>1
<1>5. ASSUME NEW n \in K PROVE n + 1 \in K
  <2>1. n \in Nat /\ \A s \in Few(n) : iter[s] \in G
    OBVIOUS
  <2>2. ASSUME NEW s \in Few(n + 1) PROVE iter[s] \in G
    <3>1. CASE s = {}
      BY <1>3, <3>1
    <3>2. CASE s # {}
      <4>1. C(s) \in s /\ IsFiniteSet(s) /\ Cardinality(s) \in Nat
        BY <1>1, <1>2, <3>2
      <4>a. PICK c : c = C(s)
        OBVIOUS
      <4>b. Cardinality(s \ {c}) = Cardinality(s) - 1
        BY <4>1, <4>a, FS_RemoveElement
      <4>2. Cardinality(s \ {C(s)}) = Cardinality(s) - 1
        BY <4>a, <4>b
      <4>3. s \ {C(s)} \in Few(n) /\ C(s) \in S
        BY <2>1, <4>1, <4>2
      <4>4. iter[s] = f[C(s)] + iter[s \ {C(s)}]
        BY <1>3, <3>2
      <4>5. f[C(s)] \in G /\ iter[s \ {C(s)}] \in G
        <5> HIDE DEF Few
        <5> QED BY <2>1, <4>3
      <4> QED BY <4>4, <4>5
    <3> QED BY <3>1, <3>2
  <2> HIDE DEF Few
  <2> QED BY <2>1, <2>2
<1>6. K = Nat
  <2>1. \A n \in K : n + 1 \in K
    BY <1>5
  <2> HIDE DEF K
  <2>2. K \in SUBSET Nat
    BY DEF K
  <2> QED BY <1>4, <2>1, <2>2, SetInduction
<1>7. S \in Few(Cardinality(S)) /\ Cardinality(S) \in Nat
  BY <1>1
<1>8. iter[S] \in G
  <2> HIDE DEF Few
  <2> QED BY <1>6, <1>7
<1> QED BY <1>a, <1>8

LEMMA PickedPicks ==
    ASSUME NEW t, Sequence(t), NEW at \in SUBSET (1..Len(t)), NEW s, s = Picked(t, at)
    PROVE  Picks(s, t, at)
<1>1. PICK T : t \in Seq(T)
  BY IsSequence DEF Sequence
<1> QED BY <1>1, PickedIn

LEMMA SealedRowsIn ==
    ASSUME SegmentsInv, SealedInv, NEW e
    PROVE  SealedRows(e) \in Seq(Row(hot))
<1>1. PICK T, ss, entries, files :
         T = Row(hot) /\ ss = Recs /\ entries = man.segs /\ files = segs
  OBVIOUS
<1>2. Len(entries) \in Nat
  BY <1>1 DEF SegmentsInv, Shape
<1>3. ss = [i \in 1..Len(entries) |->
              IF entries[i].id \in DOMAIN files THEN files[entries[i].id].recs ELSE <<>>]
  BY <1>1 DEF Recs, SegmentRows
<1>4. \A id \in DOMAIN files : files[id].recs \in Seq(T)
  BY <1>1 DEF SealedInv, FilesOK
<1>5. ASSUME NEW i \in 1..Len(entries) PROVE ss[i] \in Seq(T)
  <2>1. <<>> \in Seq(T)
    OBVIOUS
  <2>2. ss[i] = IF entries[i].id \in DOMAIN files THEN files[entries[i].id].recs ELSE <<>>
    BY <1>3
  <2> QED BY <1>4, <2>1, <2>2
<1>6. ss \in Seq(Seq(T))
  BY <1>2, <1>3, <1>5
<1>7. PICK all : all = FlattenSeq(ss) /\ all \in Seq(T)
  BY <1>6, FlattenIn
<1>8. PICK at : at = {i \in 1..Len(all) : all[i].ver <= e}
  OBVIOUS
<1>9. SealedRows(e) = Picked(all, at)
  BY <1>1, <1>7, <1>8 DEF SealedRows, Recs, SegmentRows, Filter
<1>10. Picked(all, at) \in Seq(T)
  BY <1>7, <1>8, PickedIn
<1> QED BY <1>1, <1>9, <1>10

\* The rows that a query works on: live ones that it may see, each record once, and
\* sealed ones that it may see.
RowsOf(q, e, live, sealed) ==
    /\ live \in Seq(Row(hot)) /\ sealed \in Seq(Row(hot))
    /\ \A i \in 1..Len(live) : Passes(q, live[i]) /\ Live(live[i].key, e)
    /\ \A i, j \in 1..Len(live) : live[i].key = live[j].key => i = j
    /\ \A i \in 1..Len(sealed) : Passes(q, sealed[i])

LEMMA ReadsRows ==
    ASSUME SegmentsInv, HotInv, SealedInv, NEW q, NEW e
    PROVE  RowsOf(q, e, Visible(q, e), Sealed(q, e))
<1>1. PICK T, E, rows, old, h : /\ T = Row(hot) /\ E = man.epoch /\ h = hot
                                /\ rows = HotRows(e) /\ old = SealedRows(e)
  OBVIOUS
<1>2. StoreOK(h, E) /\ rows = LiveRows(h, e)
  BY <1>1, HotRowsAre DEF HotInv
<1>3. /\ rows \in Seq(T)
      /\ \A i \in 1..Len(rows) : VisibleAt(h[rows[i].key], e) # 0
      /\ \A i, j \in 1..Len(rows) : rows[i].key = rows[j].key => i = j
  BY <1>1, <1>2, LiveRowsIn
<1>4. old \in Seq(T)
  BY <1>1, SealedRowsIn
<1>5. PICK at, live : /\ at = {i \in 1..Len(rows) : Passes(q, rows[i])}
                      /\ live = Picked(rows, at)
  OBVIOUS
<1>6. live = Visible(q, e)
  BY <1>1, <1>5 DEF Visible, Filter
<1>7. PICK on, sealed : /\ on = {i \in 1..Len(old) : Passes(q, old[i])}
                        /\ sealed = Picked(old, on)
  OBVIOUS
<1>8. sealed = Sealed(q, e)
  BY <1>1, <1>7 DEF Sealed, Filter
<1>9. /\ live \in Seq(T)
      /\ \A i \in 1..Len(live) : \E j \in at : live[i] = rows[j]
      /\ \A i, k \in 1..Len(live) : i # k =>
            \E j, l \in at : j # l /\ live[i] = rows[j] /\ live[k] = rows[l]
  <2>1. at \in SUBSET (1..Len(rows))
    BY <1>5
  <2>2. live \in Seq(T) /\ Picks(live, rows, at)
    BY <1>3, <1>5, <2>1, PickedIn
  <2> QED BY <2>2 DEF Picks
<1>10. sealed \in Seq(T) /\ \A i \in 1..Len(sealed) : \E j \in on : sealed[i] = old[j]
  <2>1. on \in SUBSET (1..Len(old))
    BY <1>7
  <2>2. sealed \in Seq(T) /\ Picks(sealed, old, on)
    BY <1>4, <1>7, <2>1, PickedIn
  <2> QED BY <2>2 DEF Picks
<1>11. \A j \in at : j \in 1..Len(rows) /\ Passes(q, rows[j])
  BY <1>5
<1>12. \A i \in 1..Len(live) : Passes(q, live[i]) /\ Live(live[i].key, e)
  BY <1>1, <1>3, <1>9, <1>11 DEF Live
<1>13. \A i, k \in 1..Len(live) : live[i].key = live[k].key => i = k
  BY <1>3, <1>9, <1>11
<1>14. \A i \in 1..Len(sealed) : Passes(q, sealed[i])
  BY <1>7, <1>10
<1> QED BY <1>1, <1>6, <1>8, <1>9, <1>10, <1>12, <1>13, <1>14 DEF RowsOf

\* Scores are numbers.
LEMMA Bm25In ==
    ASSUME NEW terms, IsFiniteSet(terms), NEW tf, \A t \in terms : tf[t] \in Nat,
           NEW len \in Nat, NEW total \in Nat, NEW count \in Nat, count > 0,
           NEW df, \A t \in terms : df[t] \in Nat
    PROVE  Bm25(terms, tf, len, total, count, df) \in Int
<1>1. PICK avg : avg = IF total < count THEN count ELSE total
  OBVIOUS
<1>2. avg \in Nat /\ avg > 0
  BY <1>1
<1> DEFINE of(t) == (Idf(count, df[t]) * tf[t] * 2500 * avg)
                      \div (1000 * tf[t] * avg + 375 * avg + 1125 * len * count)
           S == {x \in terms : tf[x] > 0}
           f == [t \in S |-> of(t)]
<1>3. Bm25(terms, tf, len, total, count, df) = SumFunction(f)
  BY <1>1 DEF Bm25
<1>4. ASSUME NEW t \in terms PROVE of(t) \in Int
  <2>1. PICK d, m : d \in Nat /\ m \in Nat /\ d = df[t] /\ m = tf[t]
    OBVIOUS
  <2>2. \A a, b \in Int : b > 0 => a \div b \in Int
    OBVIOUS
  <2>3. PICK i : i \in Int /\ i = Idf(count, d)
    <3>1. 1000 * (2 * count + 2) \in Int /\ 2 * d + 1 \in Int /\ 2 * d + 1 > 0
      BY <2>1
    <3> QED BY <2>2, <3>1 DEF Idf
  <2>4. \A a, b \in Nat : a * b \in Nat
    OBVIOUS
  <2>5. \A a, b \in Int : a * b \in Int
    OBVIOUS
  <2>6. PICK x, y, z : x = m * avg /\ y = len * count /\ z = i * m * 2500 * avg
    OBVIOUS
  <2>7. x \in Nat /\ y \in Nat
    BY <1>2, <2>1, <2>4, <2>6
  <2>8. z \in Int
    <3>1. i * m \in Int
      BY <2>1, <2>3, <2>5
    <3>2. i * m * 2500 \in Int
      BY <2>5, <3>1
    <3> QED BY <1>2, <2>5, <2>6, <3>2
  <2>9. 1000 * m * avg = 1000 * x /\ 1125 * len * count = 1125 * y
    BY <1>2, <2>1, <2>6
  <2>10. 1000 * x + 375 * avg + 1125 * y \in Int /\ 1000 * x + 375 * avg + 1125 * y > 0
    BY <1>2, <2>7
  <2>11. z \div (1000 * x + 375 * avg + 1125 * y) \in Int
    BY <2>2, <2>8, <2>10
  <2> QED BY <2>1, <2>3, <2>6, <2>9, <2>11
<1>5. IsFiniteSet(S) /\ S \subseteq terms
  BY FS_Subset
<1> HIDE DEF of
<1>6. DOMAIN f = S /\ \A t \in S : f[t] \in Int
  BY <1>4, <1>5
<1> HIDE DEF S, f
<1> QED BY <1>3, <1>5, <1>6, SumIn

\* Documents with the frequencies of the terms of a query.
DocumentsOK(terms, docs) ==
    /\ Len(docs) \in Nat
    /\ \A i \in 1..Len(docs) :
          /\ IsFiniteSet(DOMAIN docs[i].tf) /\ terms \subseteq DOMAIN docs[i].tf
          /\ \A t \in DOMAIN docs[i].tf : docs[i].tf[t] \in Nat

LEMMA ScoresIn ==
    ASSUME NEW terms, NEW docs, DocumentsOK(terms, docs), NEW scores,
           scores = ScoreCorpus(terms, docs)
    PROVE  Sequence(scores) /\ \A i \in 1..Len(scores) : scores[i].score \in Int
<1>1. PICK n \in Nat : n = Len(docs)
  BY DEF DocumentsOK
<1>2. \A i \in 1..n : /\ IsFiniteSet(DOMAIN docs[i].tf) /\ terms \subseteq DOMAIN docs[i].tf
                      /\ \A t \in DOMAIN docs[i].tf : docs[i].tf[t] \in Nat
  BY <1>1 DEF DocumentsOK
<1>3. \A i \in 1..n : DocLen(docs[i].tf) \in Nat
  <2> SUFFICES ASSUME NEW i \in 1..n PROVE DocLen(docs[i].tf) \in Nat
    OBVIOUS
  <2>1. PICK f, S : f = docs[i].tf /\ S = DOMAIN f
    OBVIOUS
  <2>2. IsFiniteSet(S) /\ \A t \in S : f[t] \in Nat
    BY <1>2, <2>1
  <2>3. \A a, b \in Nat : a + b \in Nat
    OBVIOUS
  <2>4. SumFunction(f) \in Nat
    BY <2>1, <2>2, <2>3, SumIn
  <2> QED BY <2>1, <2>4 DEF DocLen
<1>4. PICK total \in Nat : total = TotalLen(docs)
  <2>1. PICK f : f = [i \in 1..n |-> DocLen(docs[i].tf)]
    OBVIOUS
  <2>2. DOMAIN f = 1..n /\ \A i \in 1..n : f[i] \in Nat
    BY <1>3, <2>1
  <2>3. IsFiniteSet(1..n)
    BY FS_Interval
  <2>4. \A a, b \in Nat : a + b \in Nat
    OBVIOUS
  <2>5. SumFunction(f) \in Nat
    BY <2>2, <2>3, <2>4, SumIn
  <2> QED BY <1>1, <2>1, <2>5 DEF TotalLen
<1>5. PICK df : df = [t \in terms |-> Cardinality(Having(docs, t))]
  OBVIOUS
<1>6. \A t \in terms : df[t] \in Nat
  <2> SUFFICES ASSUME NEW t \in terms PROVE Cardinality(Having(docs, t)) \in Nat
    BY <1>5
  <2>1. IsFiniteSet(1..n) /\ Having(docs, t) \in SUBSET (1..n)
    BY <1>1, FS_Interval DEF Having
  <2> QED BY <2>1, FS_Subset, FS_CardinalityType
<1> DEFINE B(i) == Bm25(terms, Counted(terms, docs[i]), DocLen(docs[i].tf), total, n, df)
           all == [i \in 1..n |-> [key |-> docs[i].key, score |-> B(i)]]
           at == {i \in 1..Len(all) : all[i].score > 0}
<1>7. \A i \in 1..n : B(i) \in Int
  <2> SUFFICES ASSUME NEW i \in 1..n PROVE B(i) \in Int
    OBVIOUS
  <2>1. PICK tf, len : tf = Counted(terms, docs[i]) /\ len = DocLen(docs[i].tf)
    OBVIOUS
  <2>2. \A t \in terms : tf[t] \in Nat
    BY <1>2, <2>1 DEF Counted
  <2>3. IsFiniteSet(terms)
    BY <1>2, FS_Subset
  <2>4. len \in Nat /\ n > 0
    BY <1>3, <2>1
  <2>5. Bm25(terms, tf, len, total, n, df) \in Int
    BY <1>1, <1>4, <1>6, <2>2, <2>3, <2>4, Bm25In
  <2> QED BY <2>1, <2>5
<1>8. scores = Picked(all, at)
  BY <1>1, <1>4, <1>5 DEF ScoreCorpus, Report, Filter
<1> HIDE DEF B
<1>9. /\ Len(all) = n /\ Sequence(all)
      /\ \A i \in 1..n : all[i].score \in Int
  BY <1>7 DEF Sequence
<1> HIDE DEF all
<1>10. at \in SUBSET (1..n)
  BY <1>9
<1> HIDE DEF at
<1>11. Picks(scores, all, at)
  BY <1>8, <1>9, <1>10, PickedPicks
<1> QED BY <1>9, <1>10, <1>11 DEF Picks

\* A sequence has its own elements.
LEMMA PicksAll ==
    ASSUME NEW s, Sequence(s)
    PROVE  Picks(s, s, 1..Len(s))
BY DEF Picks, Sequence


\* Sorting positions gives every element of s once.
LEMMA StableIn ==
    ASSUME NEW s, Sequence(s), NEW R, TotalOrder(R, 1..Len(s)), NEW t,
           t = IF Len(s) < 2 THEN s ELSE [i \in 1..Len(s) |-> s[Arranged(1..Len(s), R)[i]]]
    PROVE  Picks(t, s, 1..Len(s)) /\ Len(t) = Len(s)
<1>1. PICK n \in Nat : n = Len(s)
  BY DEF Sequence
<1>a. CASE n < 2
  <2>1. t = s
    BY <1>1, <1>a
  <2> QED BY <2>1, PicksAll
<1>b. CASE ~(n < 2)
  <2>1. IsFiniteSet(1..n) /\ Cardinality(1..n) = n
    BY FS_Interval
  <2>2. PICK order : order = Arranged(1..n, R)
    OBVIOUS
  <2>3. /\ \A i \in 1..n : order[i] \in 1..n
        /\ \A i, j \in 1..n : order[i] = order[j] => i = j
        /\ \A x \in 1..n : \E i \in 1..n : order[i] = x
    <3>1. PICK S : S = 1..n
      OBVIOUS
    <3>2. TotalOrder(R, S) /\ IsFiniteSet(S) /\ order = Arranged(S, R) /\ Cardinality(S) = n
      BY <1>1, <2>1, <2>2, <3>1
    <3>3. /\ \A i \in 1..n : order[i] \in S
          /\ \A i, j \in 1..n : order[i] = order[j] => i = j
          /\ \A x \in S : \E i \in 1..n : order[i] = x
      BY <3>2, ArrangedIn
    <3> QED BY <3>1, <3>3
  <2>4. t = [i \in 1..n |-> s[order[i]]]
    BY <1>1, <1>b, <2>2
  <2>5. Sequence(t) /\ Len(t) = n /\ \A i \in 1..n : t[i] = s[order[i]]
    BY <2>4 DEF Sequence
  <2>6. ASSUME NEW i \in 1..n PROVE \E j \in 1..n : t[i] = s[j]
    <3>1. order[i] \in 1..n /\ t[i] = s[order[i]]
      BY <2>3, <2>5
    <3> QED BY <3>1
  <2>7. ASSUME NEW j \in 1..n PROVE \E i \in 1..n : t[i] = s[j]
    <3>1. PICK i \in 1..n : order[i] = j
      BY <2>3
    <3>2. t[i] = s[j]
      BY <2>5, <3>1
    <3> QED BY <3>2
  <2>8. ASSUME NEW i \in 1..n, NEW k \in 1..n, i # k
        PROVE  \E j, l \in 1..n : j # l /\ t[i] = s[j] /\ t[k] = s[l]
    <3>1. PICK j, l : j = order[i] /\ l = order[k]
      OBVIOUS
    <3>2. j \in 1..n /\ l \in 1..n /\ j # l
      BY <2>3, <2>8, <3>1
    <3>3. t[i] = s[j] /\ t[k] = s[l]
      BY <2>5, <3>1
    <3> QED BY <3>2, <3>3
  <2>9. Len(t) <= Len(s) /\ Len(t) = Len(s)
    BY <1>1, <2>5
  <2> QED BY <1>1, <2>5, <2>6, <2>7, <2>8, <2>9 DEF Picks
<1> QED BY <1>1, <1>a, <1>b

\* The units of scores.
LEMMA UnitsOK ==
    Unit \div 10 \in Nat /\ DirtyPenalty \in Nat /\ Unit \in Nat
BY SMT DEF Unit, DirtyPenalty

\* The candidates of a stream: known records with their scores.
CandidatesOK(cs) ==
    /\ Sequence(cs)
    /\ \A i \in 1..Len(cs) : /\ cs[i].key \in Keys /\ cs[i].score \in Int
                             /\ cs[i].penalty \in 0..DirtyPenalty

\* Lexical candidates are typed, whatever the scores are.
LEMMA TextIn ==
    ASSUME NEW scores, Sequence(scores), \A i \in 1..Len(scores) : scores[i].score \in Int,
           NEW rows, KeysOf(rows) \subseteq Keys, NEW cs, cs = TextCandidates(rows, scores)
    PROVE  CandidatesOK(cs)
<1>1. PICK n \in Nat : n = Len(scores)
  BY DEF Sequence
<1>2. PICK R : R = {p \in (1..n) \X (1..n) :
                      \/ scores[p[1]].score > scores[p[2]].score
                      \/ ~(scores[p[2]].score > scores[p[1]].score) /\ p[1] < p[2]}
  OBVIOUS
<1>3. PICK best : best = ByScore(scores)
  OBVIOUS
<1>4. PICK at, known : /\ at = {i \in 1..Len(best) : best[i].key \in KeysOf(rows)}
                       /\ known = Picked(best, at)
  OBVIOUS
<1>5. cs = [i \in 1..Len(known) |-> Candidate(known[i].key, known[i].score, 0)]
  BY <1>3, <1>4 DEF TextCandidates, Filter
<1>6. TotalOrder(R, 1..n)
  <2> DEFINE earlier(x, y) == \/ scores[x].score > scores[y].score
                              \/ ~(scores[y].score > scores[x].score) /\ x < y
  <2>1. \A x \in 1..n : scores[x].score \in Int
    BY <1>1
  <2>2. \A x, y \in 1..n : <<x, y>> \in R <=> earlier(x, y)
    BY <1>2
  <2>3. \A x \in 1..n : ~earlier(x, x)
    BY <2>1
  <2>4. \A x, y, z \in 1..n : earlier(x, y) /\ earlier(y, z) => earlier(x, z)
    BY <2>1
  <2>5. \A x, y \in 1..n : x # y => earlier(x, y) \/ earlier(y, x)
    BY <2>1
  <2> HIDE DEF earlier
  <2> QED BY <2>2, <2>3, <2>4, <2>5 DEF TotalOrder
<1>7. Picks(best, scores, 1..n)
  <2>1. best = IF n < 2 THEN scores ELSE [i \in 1..n |-> scores[Arranged(1..n, R)[i]]]
    BY <1>1, <1>2, <1>3 DEF ByScore, StableSort
  <2> QED BY <1>1, <1>6, <2>1, StableIn
<1>8. Sequence(best) /\ \A i \in 1..Len(best) : best[i].score \in Int
  BY <1>1, <1>7 DEF Picks
<1>9. at \in SUBSET (1..Len(best))
  BY <1>4
<1>10. Picks(known, best, at)
  BY <1>4, <1>8, <1>9, PickedPicks
<1>11. \A j \in at : best[j].key \in Keys /\ best[j].score \in Int
  BY <1>4, <1>8
<1>12. /\ Len(known) \in Nat
       /\ \A i \in 1..Len(known) : known[i].key \in Keys /\ known[i].score \in Int
  BY <1>10, <1>11 DEF Picks, Sequence
<1>13. Sequence(cs) /\ Len(cs) = Len(known)
  BY <1>5, <1>12 DEF Sequence
<1>14. 0 \in 0..DirtyPenalty
  BY UnitsOK
<1> QED BY <1>5, <1>12, <1>13, <1>14 DEF CandidatesOK, Candidate

\* The image of a finite set is finite, and no larger.
LEMMA FiniteImage ==
    ASSUME NEW S, IsFiniteSet(S), NEW f, NEW T, T = {f[x] : x \in S}
    PROVE  IsFiniteSet(T) /\ Cardinality(T) <= Cardinality(S)
<1>1. PICK g : g = [x \in S |-> f[x]]
  OBVIOUS
<1>2. g \in Surjection(S, T)
  BY <1>1 DEF Surjection
<1> QED BY <1>2, FS_Surjection

\* The rows of a sequence are finitely many.
LEMMA FiniteRows ==
    ASSUME NEW T, NEW s \in Seq(T)
    PROVE  IsFiniteSet(ToSet(s)) /\ ToSet(s) \in SUBSET T
<1>1. PICK n \in Nat : n = Len(s)
  OBVIOUS
<1>2. ToSet(s) = {s[i] : i \in 1..n}
  BY <1>1 DEF ToSet
<1>3. IsFiniteSet(1..n)
  BY FS_Interval
<1>4. IsFiniteSet({s[i] : i \in 1..n})
  BY <1>3, FiniteImage
<1> QED BY <1>1, <1>2, <1>4

\* The entries that VectorOrder tells apart.
Entry == [key : Nat, ver : Nat, penalty : 0..DirtyPenalty, old : BOOLEAN, score : Int]

DistinctEntries(S) ==
    \A a, b \in S : a.key = b.key /\ a.ver = b.ver /\ a.score = b.score /\ a.old = b.old => a = b

LEMMA VectorOrderTotal ==
    ASSUME NEW S \in SUBSET Entry, DistinctEntries(S),
           NEW R, R = {p \in S \X S : VectorOrder(p[1], p[2])}
    PROVE  TotalOrder(R, S)
<1>1. \A x, y \in S : <<x, y>> \in R <=> VectorOrder(x, y)
  OBVIOUS
<1>2. \A x \in S : x.key \in Int /\ x.ver \in Int /\ x.score \in Int /\ x.old \in BOOLEAN
  BY DEF Entry
<1>3. \A x \in S : ~VectorOrder(x, x)
  BY <1>2 DEF VectorOrder
<1>4. \A x, y, z \in S : VectorOrder(x, y) /\ VectorOrder(y, z) => VectorOrder(x, z)
  BY <1>2 DEF VectorOrder
<1>5. \A x, y \in S : x # y => VectorOrder(x, y) \/ VectorOrder(y, x)
  BY <1>2 DEF VectorOrder, DistinctEntries
<1> QED BY <1>1, <1>3, <1>4, <1>5 DEF TotalOrder

\* What reads tell apart of a value.
LEMMA ValIn ==
    ASSUME NEW v \in Vals
    PROVE  v.sim \in Int /\ v.ready \in BOOLEAN
BY QueryAssumption

\* Vector candidates are typed.
LEMMA VectorIn ==
    ASSUME NEW h, NEW q, NEW live \in Seq(Row(h)), NEW sealed \in Seq(Row(h)),
           \A i, j \in 1..Len(live) : live[i].key = live[j].key => i = j,
           NEW cs, cs = VectorCandidates(q, live, sealed)
    PROVE  CandidatesOK(cs)
<1>1. PICK A, B, S : /\ A = {r \in ToSet(live) : Scores(q, r)}
                     /\ B = {x \in ToSet(sealed) : x.val.sim >= 0}
                     /\ S = VectorEntries(q, live, sealed)
  OBVIOUS
<1>2. PICK yes, no : yes = TRUE /\ no = FALSE
  OBVIOUS
<1>3. PICK f, g : /\ f = [r \in A |-> VectorEntry(r, IF r.val.ready THEN 0 ELSE DirtyPenalty, no)]
                  /\ g = [r \in B |-> VectorEntry(r, 0, yes)]
  OBVIOUS
<1>4. S = {f[r] : r \in A} \cup {g[r] : r \in B}
  BY <1>1, <1>2, <1>3 DEF VectorEntries, SealedVectorCandidates
<1>5. IsFiniteSet(S)
  <2>1. IsFiniteSet(A) /\ IsFiniteSet(B)
    <3>1. IsFiniteSet(ToSet(live)) /\ IsFiniteSet(ToSet(sealed))
      BY FiniteRows
    <3> QED BY <1>1, <3>1, FS_Subset
  <2>2. IsFiniteSet({f[r] : r \in A}) /\ IsFiniteSet({g[r] : r \in B})
    BY <2>1, FiniteImage
  <2> QED BY <1>4, <2>2, FS_Union
<1>6. A \in SUBSET Row(h) /\ B \in SUBSET Row(h)
  BY <1>1, FiniteRows
<1>7. \A r \in Row(h) : /\ r.key \in Keys /\ r.key \in Nat /\ r.ver \in Nat
                        /\ r.val.sim \in Int /\ r.val.ready \in BOOLEAN
  BY ValIn, SegmentsAssumption DEF Row, Known
<1>8. PICK u, d : u = Unit \div 10 /\ d = DirtyPenalty /\ u \in Nat /\ d \in Nat
  BY UnitsOK
<1>9. /\ \A r \in A : /\ f[r].key = r.key /\ f[r].ver = r.ver /\ f[r].old = no
                      /\ f[r] \in Entry
      /\ \A r \in B : /\ g[r].key = r.key /\ g[r].ver = r.ver /\ g[r].old = yes
                      /\ g[r] \in Entry /\ g[r].penalty = 0
  <2>1. ASSUME NEW r \in A
        PROVE  f[r].key = r.key /\ f[r].ver = r.ver /\ f[r].old = no /\ f[r] \in Entry
    <3>1. PICK p \in 0..DirtyPenalty : p = IF r.val.ready THEN 0 ELSE DirtyPenalty
      BY <1>8
    <3>2. f[r] = [key |-> r.key, ver |-> r.ver, penalty |-> p, old |-> no,
                  score |-> r.val.sim * u - p]
      BY <1>3, <1>8, <3>1 DEF VectorEntry
    <3>3. r \in Row(h) /\ no \in BOOLEAN
      BY <1>2, <1>6
    <3>4. r.val.sim * u - p \in Int
      BY <1>7, <1>8, <3>3
    <3> QED BY <1>7, <3>2, <3>3, <3>4 DEF Entry
  <2>2. ASSUME NEW r \in B
        PROVE  /\ g[r].key = r.key /\ g[r].ver = r.ver /\ g[r].old = yes /\ g[r] \in Entry
               /\ g[r].penalty = 0
    <3>2. g[r] = [key |-> r.key, ver |-> r.ver, penalty |-> 0, old |-> yes,
                  score |-> r.val.sim * u - 0]
      BY <1>3, <1>8 DEF VectorEntry
    <3>3. r \in Row(h) /\ yes \in BOOLEAN /\ 0 \in 0..DirtyPenalty
      BY <1>2, <1>6, <1>8
    <3>4. r.val.sim * u - 0 \in Int
      BY <1>7, <1>8, <3>3
    <3> QED BY <1>7, <3>2, <3>3, <3>4 DEF Entry
  <2> QED BY <2>1, <2>2
<1>10. S \in SUBSET Entry /\ \A a \in S : a.key \in Keys
  <2>1. \A r \in A : r.key \in Keys
    BY <1>6, <1>7
  <2>2. \A r \in B : r.key \in Keys
    BY <1>6, <1>7
  <2> QED BY <1>4, <1>9, <2>1, <2>2
<1>11. DistinctEntries(S)
  <2> SUFFICES ASSUME NEW a \in S, NEW b \in S, a.key = b.key, a.ver = b.ver,
                      a.score = b.score, a.old = b.old
               PROVE  a = b
    BY DEF DistinctEntries
  <2>1. yes # no
    BY <1>2
  <2>2. CASE \E r, s \in A : a = f[r] /\ b = f[s]
    <3>1. PICK r \in A, s \in A : a = f[r] /\ b = f[s]
      BY <2>2
    <3>2. r.key = s.key
      BY <1>9, <3>1
    <3>3. PICK i \in 1..Len(live), j \in 1..Len(live) : r = live[i] /\ s = live[j]
      BY <1>1 DEF ToSet
    <3>4. i = j
      BY <3>2, <3>3
    <3> QED BY <3>1, <3>3, <3>4
  <2>3. CASE \E r, s \in B : a = g[r] /\ b = g[s]
    <3>1. a.penalty = b.penalty /\ a \in Entry /\ b \in Entry
      BY <1>9, <2>3
    <3> QED BY <3>1 DEF Entry
  <2> QED BY <1>4, <1>9, <2>1, <2>2, <2>3
<1>12. PICK R : R = {p \in S \X S : VectorOrder(p[1], p[2])}
  OBVIOUS
<1>13. cs = Arranged(S, R)
  BY <1>1, <1>12 DEF VectorCandidates, Sorted
<1>14. /\ Cardinality(S) \in Nat /\ cs = [i \in 1..Cardinality(S) |-> cs[i]]
       /\ \A i \in 1..Cardinality(S) : cs[i] \in S
  <2>1. TotalOrder(R, S)
    BY <1>10, <1>11, <1>12, VectorOrderTotal
  <2> QED BY <1>5, <1>13, <2>1, ArrangedIn
<1>15. Sequence(cs) /\ Len(cs) = Cardinality(S)
  BY <1>14 DEF Sequence
<1>16. \A a \in S : a.key \in Keys /\ a.score \in Int /\ a.penalty \in 0..DirtyPenalty
  BY <1>10 DEF Entry
<1> QED BY <1>14, <1>15, <1>16 DEF CandidatesOK

\* A score, or None.
IsScore(x) == x = <<>> \/ \E n \in Int : x = <<n>>

\* The entries of ranked streams.
EntriesOK(all) ==
    /\ Sequence(all)
    /\ \A i \in 1..Len(all) : /\ all[i].cand.key \in Keys /\ all[i].cand.score \in Int
                              /\ all[i].cand.penalty \in 0..DirtyPenalty
                              /\ all[i].points \in Int

\* A fused record: its key and its scores.
FusedOne(c) == c.key \in Keys /\ c.final \in Int /\ IsScore(c.lex) /\ IsScore(c.vec)

LEMMA ScoreInIs ==
    ASSUME NEW all, EntriesOK(all), NEW at \in SUBSET (1..Len(all)), NEW name
    PROVE  IsScore(ScoreIn(all, at, name))
<1>1. PICK own : own = {i \in at : all[i].stream = name}
  OBVIOUS
<1>2. CASE own = {}
  <2>1. ScoreIn(all, at, name) = <<>>
    BY <1>1, <1>2 DEF ScoreIn
  <2> QED BY <2>1 DEF IsScore
<1>3. CASE own # {}
  <2>1. PICK n \in Nat : n = Len(all)
    BY DEF EntriesOK, Sequence
  <2>2. own \in SUBSET (0..n)
    <3>1. \A j \in 1..n : j \in 0..n
      OBVIOUS
    <3> QED BY <1>1, <2>1, <3>1
  <2>3. PICK m : m = Max(own) /\ m \in own
    BY <1>3, <2>1, <2>2, LargestOf
  <2>4. ScoreIn(all, at, name) = <<all[m].cand.score>>
    BY <1>1, <1>3, <2>3 DEF ScoreIn
  <2>5. all[m].cand.score \in Int
    BY <1>1, <2>3 DEF EntriesOK
  <2> QED BY <2>4, <2>5 DEF IsScore
<1> QED BY <1>2, <1>3

LEMMA FusedIs ==
    ASSUME NEW all, EntriesOK(all), NEW i \in 1..Len(all), NEW k, k = all[i].cand.key,
           NEW c, c = Fused(k, all)
    PROVE  FusedOne(c) /\ c.key = k
<1>1. PICK n \in Nat : n = Len(all)
  BY DEF EntriesOK, Sequence
<1>2. PICK at : at = {j \in 1..n : all[j].cand.key = k}
  OBVIOUS
<1>3. at \in SUBSET (1..n) /\ i \in at /\ IsFiniteSet(at)
  <2>1. IsFiniteSet(1..n)
    BY FS_Interval
  <2>2. at \in SUBSET (1..n) /\ i \in at
    BY <1>1, <1>2
  <2> QED BY <2>1, <2>2, FS_Subset
<1>4. PICK f, ps : /\ f = [j \in at |-> all[j].points]
                   /\ ps = {all[j].cand.penalty : j \in at}
  OBVIOUS
<1>5. SumFunction(f) \in Int
  <2>1. DOMAIN f = at /\ \A j \in at : f[j] \in Int
    BY <1>1, <1>3, <1>4 DEF EntriesOK
  <2>2. 0 \in Int /\ \A a, b \in Int : a + b \in Int
    OBVIOUS
  <2> QED BY <1>3, <2>1, <2>2, SumIn
<1>6. Max(ps) \in Int
  <2>1. PICK d \in Nat : d = DirtyPenalty
    BY UnitsOK
  <2>2. ps \in SUBSET (0..d) /\ ps # {}
    BY <1>1, <1>3, <1>4, <2>1 DEF EntriesOK
  <2>3. PICK m : m = Max(ps) /\ m \in ps
    BY <2>2, LargestOf
  <2>4. m \in 0..d
    BY <2>2, <2>3
  <2>5. m \in Int
    BY <2>4
  <2> QED BY <2>3, <2>5
<1>7. PICK lex, vec : /\ lex = ScoreIn(all, at, "text") /\ vec = ScoreIn(all, at, "vector")
                      /\ IsScore(lex) /\ IsScore(vec)
  BY <1>1, <1>3, ScoreInIs
<1>8. c = [key |-> k, final |-> SumFunction(f) - Max(ps), lex |-> lex, vec |-> vec]
  BY <1>1, <1>2, <1>4, <1>7 DEF Fused
<1>9. k \in Keys
  BY DEF EntriesOK
<1> QED BY <1>5, <1>6, <1>7, <1>8, <1>9 DEF FusedOne

\* Fused records: each once, with its scores.
FusedOK(fs) ==
    /\ Sequence(fs) /\ \A i \in 1..Len(fs) : FusedOne(fs[i])
    /\ \A i, j \in 1..Len(fs) : fs[i].key = fs[j].key => i = j

LEMMA FinalOrderTotal ==
    ASSUME NEW S, \A c \in S : FusedOne(c), \A a, b \in S : a.key = b.key => a = b,
           NEW R, R = {p \in S \X S : FinalFirst(p[1], p[2])}
    PROVE  TotalOrder(R, S)
<1>1. \A x, y \in S : <<x, y>> \in R <=> FinalFirst(x, y)
  OBVIOUS
<1>2. \A x \in S : x.key \in Int /\ x.final \in Int
  <2>1. \A k \in Keys : k \in Int
    BY SegmentsAssumption
  <2> QED BY <2>1 DEF FusedOne
<1>3. \A x \in S : ~FinalFirst(x, x)
  BY <1>2 DEF FinalFirst
<1>4. \A x, y, z \in S : FinalFirst(x, y) /\ FinalFirst(y, z) => FinalFirst(x, z)
  BY <1>2 DEF FinalFirst
<1>5. \A x, y \in S : x # y => FinalFirst(x, y) \/ FinalFirst(y, x)
  BY <1>2 DEF FinalFirst
<1> QED BY <1>1, <1>3, <1>4, <1>5 DEF TotalOrder

\* Streams of candidates, and a sequence of records that has all of theirs.
StreamsOK(ss) == Sequence(ss) /\ \A i \in 1..Len(ss) : CandidatesOK(ss[i].cands)

Covers(fs, ss) ==
    \A i \in 1..Len(ss) : \A j \in 1..Len(ss[i].cands) : ss[i].cands[j].key \in KeysOf(fs)

LEMMA AllRankedIn ==
    ASSUME NEW ss, StreamsOK(ss), NEW all, all = AllRanked(ss)
    PROVE  /\ EntriesOK(all)
           /\ \A i \in 1..Len(ss) : \A j \in 1..Len(ss[i].cands) :
                 \E p \in 1..Len(all) : all[p].cand.key = ss[i].cands[j].key
<1>1. PICK n \in Nat : n = Len(ss)
  BY DEF StreamsOK, Sequence
<1>2. PICK rs : rs = [i \in 1..n |-> RankedIn(ss[i])]
  OBVIOUS
<1>3. all = FlattenSeq(rs)
  BY <1>1, <1>2 DEF AllRanked
<1>4. PICK T : T = UNION {{rs[i][j] : j \in 1..Len(ss[i].cands)} : i \in 1..n}
  OBVIOUS
<1>5. ASSUME NEW i \in 1..n
      PROVE  /\ Len(ss[i].cands) \in Nat /\ Len(rs[i]) = Len(ss[i].cands) /\ rs[i] \in Seq(T)
             /\ \A j \in 1..Len(ss[i].cands) :
                   /\ rs[i][j].cand = ss[i].cands[j] /\ rs[i][j].points \in Int
                   /\ ss[i].cands[j].key \in Keys /\ ss[i].cands[j].score \in Int
                   /\ ss[i].cands[j].penalty \in 0..DirtyPenalty
  <2>1. PICK cs, m, u : cs = ss[i].cands /\ m = Len(cs) /\ m \in Nat /\ u = Unit /\ u \in Nat
    BY <1>1, UnitsOK DEF StreamsOK, CandidatesOK, Sequence
  <2>2. \A j \in 1..m : cs[j].key \in Keys /\ cs[j].score \in Int /\ cs[j].penalty \in 0..DirtyPenalty
    BY <1>1, <2>1 DEF StreamsOK, CandidatesOK
  <2>3. rs[i] = [j \in 1..m |-> [stream |-> ss[i].name, cand |-> cs[j], points |-> u \div (60 + j)]]
    BY <1>2, <2>1 DEF RankedIn
  <2>4. \A j \in 1..m : u \div (60 + j) \in Int
    BY <2>1
  <2>5. \A j \in 1..m : rs[i][j] \in T
    BY <1>4, <2>1
  <2>6. rs[i] \in Seq(T) /\ Len(rs[i]) = m
    <3>1. rs[i] \in [1..m -> T]
      BY <2>3, <2>5
    <3> QED BY <2>1, <3>1
  <2>7. \A j \in 1..m : rs[i][j].cand = cs[j] /\ rs[i][j].points \in Int
    BY <2>3, <2>4
  <2> QED BY <2>1, <2>2, <2>6, <2>7
<1>6. rs \in Seq(Seq(T)) /\ Len(rs) = n
  BY <1>2, <1>5
<1>7. \A x \in T : /\ x.cand.key \in Keys /\ x.cand.score \in Int
                   /\ x.cand.penalty \in 0..DirtyPenalty /\ x.points \in Int
  <2> SUFFICES ASSUME NEW x \in T
               PROVE  /\ x.cand.key \in Keys /\ x.cand.score \in Int
                      /\ x.cand.penalty \in 0..DirtyPenalty /\ x.points \in Int
    OBVIOUS
  <2>1. PICK i \in 1..n : \E j \in 1..Len(ss[i].cands) : x = rs[i][j]
    BY <1>4
  <2>2. PICK j \in 1..Len(ss[i].cands) : x = rs[i][j]
    BY <2>1
  <2>3. x.cand = ss[i].cands[j]
    BY <1>5, <2>2
  <2> QED BY <1>5, <2>2, <2>3
<1>8. /\ all \in Seq(T)
      /\ \A i \in 1..n : \A j \in 1..Len(rs[i]) :
            \E p \in 1..Len(all) : all[p] = rs[i][j]
  <2>1. /\ FlattenSeq(rs) \in Seq(T)
        /\ \A i \in 1..Len(rs) : \A j \in 1..Len(rs[i]) :
              \E p \in 1..Len(FlattenSeq(rs)) : FlattenSeq(rs)[p] = rs[i][j]
    BY <1>6, FlattenIn
  <2> QED BY <1>3, <1>6, <2>1
<1>9. EntriesOK(all)
  <2>1. Sequence(all)
    BY <1>8 DEF Sequence
  <2>2. \A i \in 1..Len(all) : all[i] \in T
    BY <1>8
  <2> QED BY <1>7, <2>1, <2>2 DEF EntriesOK
<1>10. ASSUME NEW i \in 1..n, NEW j \in 1..Len(ss[i].cands)
       PROVE  \E p \in 1..Len(all) : all[p].cand.key = ss[i].cands[j].key
  <2>1. PICK p \in 1..Len(all) : all[p] = rs[i][j]
    BY <1>5, <1>8
  <2>2. rs[i][j].cand = ss[i].cands[j]
    BY <1>5
  <2> QED BY <2>1, <2>2
<1> QED BY <1>1, <1>9, <1>10

\* fuse_rrf answers every record of the streams, each once.
LEMMA FuseRrfIn ==
    ASSUME NEW ss, StreamsOK(ss), NEW fs, fs = FuseRrf(ss)
    PROVE  FusedOK(fs) /\ Covers(fs, ss)
<1>0. PICK all : all = AllRanked(ss)
  OBVIOUS
<1>a. EntriesOK(all)
  BY <1>0, AllRankedIn
<1>1. PICK n \in Nat : n = Len(all)
  BY <1>a DEF EntriesOK, Sequence
<1>2. PICK f, S : /\ f = [i \in 1..n |-> Fused(all[i].cand.key, all)]
                  /\ S = FusedRecords(all)
  OBVIOUS
<1>3. S = {f[i] : i \in 1..n}
  BY <1>1, <1>2 DEF FusedRecords
<1>4. IsFiniteSet(S)
  <2>1. IsFiniteSet(1..n)
    BY FS_Interval
  <2> QED BY <1>3, <2>1, FiniteImage
<1>5. \A i \in 1..n : FusedOne(f[i]) /\ f[i].key = all[i].cand.key
  BY <1>1, <1>2, <1>a, FusedIs
<1>6. \A a, b \in S : a.key = b.key => a = b
  BY <1>2, <1>3, <1>5
<1>7. \A c \in S : FusedOne(c)
  BY <1>3, <1>5
<1>8. PICK R : R = {p \in S \X S : FinalFirst(p[1], p[2])}
  OBVIOUS
<1>9. fs = Arranged(S, R)
  BY <1>0, <1>2, <1>8 DEF FuseRrf, Sorted
<1>10. TotalOrder(R, S)
  BY <1>6, <1>7, <1>8, FinalOrderTotal
<1>11. PICK m \in Nat : m = Cardinality(S)
  BY <1>4, FS_CardinalityType
<1>12. /\ fs = [i \in 1..m |-> fs[i]] /\ \A i \in 1..m : fs[i] \in S
       /\ \A i, j \in 1..m : fs[i] = fs[j] => i = j
       /\ \A x \in S : \E i \in 1..m : fs[i] = x
  BY <1>4, <1>9, <1>10, <1>11, ArrangedIn
<1>13. Sequence(fs) /\ Len(fs) = m
  BY <1>11, <1>12 DEF Sequence
<1>14. FusedOK(fs)
  BY <1>6, <1>7, <1>12, <1>13 DEF FusedOK
<1>15. ASSUME NEW i \in 1..n PROVE all[i].cand.key \in KeysOf(fs)
  <2>1. PICK j \in 1..m : fs[j] = f[i]
    BY <1>3, <1>12
  <2> QED BY <1>5, <1>13, <2>1 DEF KeysOf
<1>16. ASSUME NEW i \in 1..Len(ss), NEW j \in 1..Len(ss[i].cands)
       PROVE  ss[i].cands[j].key \in KeysOf(fs)
  <2>1. PICK p \in 1..Len(all) : all[p].cand.key = ss[i].cands[j].key
    BY <1>0, AllRankedIn
  <2> QED BY <1>1, <1>15, <2>1
<1> QED BY <1>14, <1>16 DEF Covers

LEMMA PicksHas ==
    ASSUME NEW s, NEW t, NEW at, Picks(s, t, at), NEW j \in at
    PROVE  \E i \in 1..Len(s) : s[i] = t[j]
  BY DEF Picks

LEMMA PicksStreams ==
    ASSUME NEW ss, StreamsOK(ss), NEW at \in SUBSET (1..Len(ss)), NEW p, p = Picked(ss, at)
    PROVE  StreamsOK(p) /\ Picks(p, ss, at)
<1>1. Picks(p, ss, at)
  BY PickedPicks DEF StreamsOK
<1>2. Sequence(p) /\ \A i \in 1..Len(p) : \E j \in at : p[i] = ss[j]
  BY <1>1 DEF Picks
<1>3. \A j \in at : CandidatesOK(ss[j].cands)
  BY DEF StreamsOK
<1>4. \A i \in 1..Len(p) : CandidatesOK(p[i].cands)
  BY <1>2, <1>3
<1> QED BY <1>1, <1>2, <1>4 DEF StreamsOK

LEMMA PicksFused ==
    ASSUME NEW fs, FusedOK(fs), NEW at \in SUBSET (1..Len(fs)), NEW p, Picks(p, fs, at)
    PROVE  FusedOK(p)
<1>1. Sequence(p) /\ \A i \in 1..Len(p) : \E j \in at : p[i] = fs[j]
  BY DEF Picks
<1>2. \A i \in 1..Len(p) : FusedOne(p[i])
  BY <1>1 DEF FusedOK
<1>3. ASSUME NEW i \in 1..Len(p), NEW k \in 1..Len(p), i # k
      PROVE  p[i].key # p[k].key
  <2>1. PICK j \in at, l \in at : j # l /\ p[i] = fs[j] /\ p[k] = fs[l]
    BY <1>3 DEF Picks
  <2> QED BY <2>1 DEF FusedOK
<1> QED BY <1>1, <1>2, <1>3 DEF FusedOK

\* fuse_query_streams answers every record of the streams, each once.
LEMMA FuseIn ==
    ASSUME NEW ss, StreamsOK(ss), NEW fs, fs = Fuse(ss)
    PROVE  FusedOK(fs) /\ Covers(fs, ss)
<1>1. PICK n \in Nat : n = Len(ss)
  BY DEF StreamsOK, Sequence
<1>2. PICK at1, some : /\ at1 = {i \in 1..Len(ss) : ss[i].cands # <<>>}
                       /\ some = Picked(ss, at1)
  OBVIOUS
<1>3. PICK at2, at3 : /\ at2 = {i \in 1..Len(some) : IsEvidence(some[i])}
                      /\ at3 = {i \in 1..Len(some) : ~IsEvidence(some[i])}
  OBVIOUS
<1>4. PICK ss2, ss3, ev, rest : /\ ss2 = Picked(some, at2) /\ ss3 = Picked(some, at3)
                                /\ ev = FuseRrf(ss2) /\ rest = FuseRrf(ss3)
  OBVIOUS
<1>5. PICK at4, kept : /\ at4 = {i \in 1..Len(rest) : rest[i].key \notin KeysOf(ev)}
                       /\ kept = Picked(rest, at4)
  OBVIOUS
<1>6. fs = ev \o kept
  BY <1>2, <1>3, <1>4, <1>5 DEF Fuse, Filter
<1>7. StreamsOK(some) /\ Picks(some, ss, at1)
  BY <1>2, PicksStreams
<1>8. StreamsOK(ss2) /\ Picks(ss2, some, at2) /\ StreamsOK(ss3) /\ Picks(ss3, some, at3)
  BY <1>3, <1>4, <1>7, PicksStreams
<1>9. FusedOK(ev) /\ Covers(ev, ss2) /\ FusedOK(rest) /\ Covers(rest, ss3)
  BY <1>4, <1>8, FuseRrfIn
<1>10. Picks(kept, rest, at4) /\ FusedOK(kept)
  <2>1. at4 \in SUBSET (1..Len(rest)) /\ Sequence(rest)
    BY <1>5, <1>9 DEF FusedOK
  <2>2. Picks(kept, rest, at4)
    BY <1>5, <2>1, PickedPicks
  <2> QED BY <1>9, <2>1, <2>2, PicksFused
<1>11. PICK a \in Nat, b \in Nat : a = Len(ev) /\ b = Len(kept)
  BY <1>9, <1>10 DEF FusedOK, Sequence
<1>12. /\ Sequence(fs) /\ Len(fs) = a + b
       /\ \A i \in 1..(a + b) : fs[i] = IF i <= a THEN ev[i] ELSE kept[i - a]
  <2>1. ev = [i \in 1..a |-> ev[i]] /\ kept = [i \in 1..b |-> kept[i]]
    BY <1>9, <1>10, <1>11 DEF FusedOK, Sequence
  <2>2. PICK T : T = {ev[i] : i \in 1..a} \cup {kept[i] : i \in 1..b}
    OBVIOUS
  <2>3. ev \in Seq(T) /\ kept \in Seq(T)
    <3>1. ev \in [1..a -> T]
      BY <2>1, <2>2
    <3>2. kept \in [1..b -> T]
      BY <2>1, <2>2
    <3> QED BY <3>1, <3>2
  <2>4. fs \in Seq(T)
    BY <1>6, <2>3
  <2>5. Sequence(fs)
    BY <2>4 DEF Sequence
  <2>6. Len(fs) = a + b
    BY <1>6, <1>11, <2>3
  <2>7. \A i \in 1..(a + b) : fs[i] = IF i <= a THEN ev[i] ELSE kept[i - a]
    BY <1>6, <1>11, <2>3
  <2> QED BY <2>5, <2>6, <2>7
<1>13. \A i \in 1..b : kept[i].key \notin KeysOf(ev)
  <2>1. \A i \in 1..b : \E j \in at4 : kept[i] = rest[j]
    BY <1>10, <1>11 DEF Picks
  <2>2. \A j \in at4 : rest[j].key \notin KeysOf(ev)
    BY <1>5
  <2> QED BY <2>1, <2>2
<1>14. FusedOK(fs)
  <2>1. Sequence(fs)
    BY <1>12
  <2>2. ASSUME NEW i \in 1..(a + b), NEW j \in 1..(a + b), fs[i].key = fs[j].key
        PROVE  FusedOne(fs[i]) /\ i = j
    <3>1. CASE i <= a /\ j <= a
      <4>1. fs[i] = ev[i] /\ fs[j] = ev[j] /\ i \in 1..a /\ j \in 1..a
        BY <1>12, <3>1
      <4> QED BY <1>9, <1>11, <2>2, <4>1 DEF FusedOK
    <3>2. CASE ~(i <= a) /\ ~(j <= a)
      <4>1. /\ fs[i] = kept[i - a] /\ fs[j] = kept[j - a]
            /\ i - a \in 1..b /\ j - a \in 1..b
        BY <1>12, <3>2
      <4>2. FusedOne(fs[i]) /\ i - a = j - a
        BY <1>10, <1>11, <2>2, <4>1 DEF FusedOK
      <4> QED BY <4>2
    <3>3. CASE i <= a /\ ~(j <= a)
      <4>1. fs[i] = ev[i] /\ fs[j] = kept[j - a] /\ i \in 1..a /\ j - a \in 1..b
        BY <1>12, <3>3
      <4> QED BY <1>11, <1>13, <2>2, <4>1 DEF KeysOf
    <3>4. CASE ~(i <= a) /\ j <= a
      <4>1. fs[j] = ev[j] /\ fs[i] = kept[i - a] /\ j \in 1..a /\ i - a \in 1..b
        BY <1>12, <3>4
      <4> QED BY <1>11, <1>13, <2>2, <4>1 DEF KeysOf
    <3> QED BY <3>1, <3>2, <3>3, <3>4
  <2> QED BY <1>12, <2>1, <2>2 DEF FusedOK
<1>15. KeysOf(ev) \subseteq KeysOf(fs) /\ KeysOf(kept) \subseteq KeysOf(fs)
  <2>1. ASSUME NEW i \in 1..a PROVE ev[i].key \in KeysOf(fs)
    <3>1. i \in 1..(a + b) /\ fs[i] = ev[i]
      BY <1>12
    <3> QED BY <1>12, <3>1 DEF KeysOf
  <2>2. ASSUME NEW i \in 1..b PROVE kept[i].key \in KeysOf(fs)
    <3>1. i + a \in 1..(a + b) /\ fs[i + a] = kept[i]
      BY <1>12
    <3> QED BY <1>12, <3>1 DEF KeysOf
  <2> QED BY <1>11, <2>1, <2>2 DEF KeysOf
<1>16. KeysOf(rest) \subseteq KeysOf(fs)
  <2> SUFFICES ASSUME NEW i \in 1..Len(rest) PROVE rest[i].key \in KeysOf(fs)
    BY DEF KeysOf
  <2>1. CASE rest[i].key \in KeysOf(ev)
    BY <1>15, <2>1
  <2>2. CASE rest[i].key \notin KeysOf(ev)
    <3>1. PICK k \in 1..Len(kept) : kept[k] = rest[i]
      BY <1>5, <1>10, <2>2 DEF Picks
    <3>2. rest[i].key \in KeysOf(kept)
      BY <3>1 DEF KeysOf
    <3> QED BY <1>15, <3>2
  <2> QED BY <2>1, <2>2
<1>17. ASSUME NEW i \in 1..Len(ss), NEW j \in 1..Len(ss[i].cands)
       PROVE  ss[i].cands[j].key \in KeysOf(fs)
  <2>1. ss[i].cands # <<>>
    OBVIOUS
  <2>2. PICK k \in 1..Len(some) : some[k] = ss[i]
    <3>1. i \in at1
      BY <1>2, <2>1
    <3> QED BY <1>7, <3>1, PicksHas
  <2>3. CASE IsEvidence(some[k])
    <3>1. PICK l \in 1..Len(ss2) : ss2[l] = some[k]
      <4>1. k \in at2
        BY <1>3, <2>3
      <4> QED BY <1>8, <4>1, PicksHas
    <3>2. ss[i].cands[j].key \in KeysOf(ev)
      BY <1>9, <2>2, <3>1 DEF Covers
    <3> QED BY <1>15, <3>2
  <2>4. CASE ~IsEvidence(some[k])
    <3>1. PICK l \in 1..Len(ss3) : ss3[l] = some[k]
      <4>1. k \in at3
        BY <1>3, <2>4
      <4> QED BY <1>8, <4>1, PicksHas
    <3>2. ss[i].cands[j].key \in KeysOf(rest)
      BY <1>9, <2>2, <3>1 DEF Covers
    <3> QED BY <1>16, <3>2
  <2> QED BY <2>3, <2>4
<1> QED BY <1>14, <1>17 DEF Covers

\* A score that is there comes before one that is not: a strict total order.
LEMMA BetterTotal ==
    ASSUME NEW x, NEW y, NEW z, IsScore(x), IsScore(y), IsScore(z)
    PROVE  /\ ~Better(x, x)
           /\ Better(x, y) /\ Better(y, z) => Better(x, z)
           /\ x # y => Better(x, y) \/ Better(y, x)
<1>1. ASSUME NEW s, IsScore(s), s # <<>> PROVE s[1] \in Int /\ s = <<s[1]>>
  BY <1>1 DEF IsScore
<1>2. ~Better(x, x)
  BY <1>1 DEF Better
<1>3. Better(x, y) /\ Better(y, z) => Better(x, z)
  BY <1>1 DEF Better
<1>4. x # y => Better(x, y) \/ Better(y, x)
  <2> SUFFICES ASSUME x # y PROVE Better(x, y) \/ Better(y, x)
    OBVIOUS
  <2>1. CASE x = <<>> \/ y = <<>>
    BY <2>1 DEF Better
  <2>2. CASE x # <<>> /\ y # <<>>
    <3>1. x[1] \in Int /\ y[1] \in Int /\ x[1] # y[1]
      BY <1>1, <2>2
    <3> QED BY <2>2, <3>1 DEF Better
  <2> QED BY <2>1, <2>2
<1> QED BY <1>2, <1>3, <1>4

\* The three orders of fused records.
LEMMA FinalTotal ==
    ASSUME NEW x, NEW y, NEW z, FusedOne(x), FusedOne(y), FusedOne(z)
    PROVE  /\ ~FinalFirst(x, x)
           /\ FinalFirst(x, y) /\ FinalFirst(y, z) => FinalFirst(x, z)
           /\ x.key # y.key => FinalFirst(x, y) \/ FinalFirst(y, x)
<1>1. \A k \in Keys : k \in Int
  BY SegmentsAssumption
<1>2. \A c \in {x, y, z} : c.key \in Int /\ c.final \in Int
  BY <1>1 DEF FusedOne
<1> QED BY <1>2 DEF FinalFirst

LEMMA VectorTotal ==
    ASSUME NEW x, NEW y, NEW z, FusedOne(x), FusedOne(y), FusedOne(z)
    PROVE  /\ ~VectorFirst(x, x)
           /\ VectorFirst(x, y) /\ VectorFirst(y, z) => VectorFirst(x, z)
           /\ x.key # y.key => VectorFirst(x, y) \/ VectorFirst(y, x)
<1>1. IsScore(x.vec) /\ IsScore(y.vec) /\ IsScore(z.vec)
  BY DEF FusedOne
<1>2. /\ ~Better(x.vec, x.vec)
      /\ Better(x.vec, y.vec) /\ Better(y.vec, z.vec) => Better(x.vec, z.vec)
      /\ x.vec # y.vec => Better(x.vec, y.vec) \/ Better(y.vec, x.vec)
  BY <1>1, BetterTotal
<1> QED BY <1>2, FinalTotal DEF VectorFirst

LEMMA LexicalTotal ==
    ASSUME NEW x, NEW y, NEW z, FusedOne(x), FusedOne(y), FusedOne(z)
    PROVE  /\ ~LexicalFirst(x, x)
           /\ LexicalFirst(x, y) /\ LexicalFirst(y, z) => LexicalFirst(x, z)
           /\ x.key # y.key => LexicalFirst(x, y) \/ LexicalFirst(y, x)
<1>1. IsScore(x.lex) /\ IsScore(y.lex) /\ IsScore(z.lex)
  BY DEF FusedOne
<1>2. /\ ~Better(x.lex, x.lex)
      /\ Better(x.lex, y.lex) /\ Better(y.lex, z.lex) => Better(x.lex, z.lex)
      /\ x.lex # y.lex => Better(x.lex, y.lex) \/ Better(y.lex, x.lex)
  BY <1>1, BetterTotal
<1> QED BY <1>2, FinalTotal, VectorTotal DEF LexicalFirst

\* Sorting the answer keeps its records.
LEMMA OrderedIn ==
    ASSUME NEW fs, FusedOK(fs), NEW q, NEW t, t = Ordered(q, fs)
    PROVE  FusedOK(t) /\ KeysOf(fs) \subseteq KeysOf(t)
<1>1. PICK n \in Nat : n = Len(fs)
  BY DEF FusedOK, Sequence
<1>2. PICK R1 : R1 = {p \in (1..n) \X (1..n) :
                        \/ LexicalFirst(fs[p[1]], fs[p[2]])
                        \/ ~LexicalFirst(fs[p[2]], fs[p[1]]) /\ p[1] < p[2]}
  OBVIOUS
<1>3. PICK R2 : R2 = {p \in (1..n) \X (1..n) :
                        \/ VectorFirst(fs[p[1]], fs[p[2]])
                        \/ ~VectorFirst(fs[p[2]], fs[p[1]]) /\ p[1] < p[2]}
  OBVIOUS
<1>4. \/ t = fs
      \/ t = IF n < 2 THEN fs ELSE [i \in 1..n |-> fs[Arranged(1..n, R1)[i]]]
      \/ t = IF n < 2 THEN fs ELSE [i \in 1..n |-> fs[Arranged(1..n, R2)[i]]]
  BY <1>1, <1>2, <1>3 DEF Ordered, StableSort
<1>5. \A i, j \in 1..n : i # j => fs[i].key # fs[j].key
  BY <1>1 DEF FusedOK
<1>6. \A i \in 1..n : FusedOne(fs[i])
  BY <1>1 DEF FusedOK
<1>7. TotalOrder(R1, 1..n)
  <2> DEFINE earlier(x, y) == LexicalFirst(fs[x], fs[y])
  <2>1. \A x, y \in 1..n : <<x, y>> \in R1 <=> earlier(x, y) \/ (~earlier(y, x) /\ x < y)
    BY <1>2
  <2>2. \A x, y, z \in 1..n : /\ ~earlier(x, x)
                              /\ earlier(x, y) /\ earlier(y, z) => earlier(x, z)
                              /\ x # y => earlier(x, y) \/ earlier(y, x)
    BY <1>5, <1>6, LexicalTotal
  <2> HIDE DEF earlier
  <2>3. \A x, y \in 1..n : <<x, y>> \in R1 <=> earlier(x, y)
    <3> SUFFICES ASSUME NEW x \in 1..n, NEW y \in 1..n
                 PROVE  earlier(x, y) \/ (~earlier(y, x) /\ x < y) <=> earlier(x, y)
      BY <2>1
    <3>1. CASE x = y
      BY <3>1
    <3>2. CASE x # y
      BY <2>2, <3>2
    <3> QED BY <3>1, <3>2
  <2> QED BY <2>2, <2>3 DEF TotalOrder
<1>8. TotalOrder(R2, 1..n)
  <2> DEFINE earlier(x, y) == VectorFirst(fs[x], fs[y])
  <2>1. \A x, y \in 1..n : <<x, y>> \in R2 <=> earlier(x, y) \/ (~earlier(y, x) /\ x < y)
    BY <1>3
  <2>2. \A x, y, z \in 1..n : /\ ~earlier(x, x)
                              /\ earlier(x, y) /\ earlier(y, z) => earlier(x, z)
                              /\ x # y => earlier(x, y) \/ earlier(y, x)
    BY <1>5, <1>6, VectorTotal
  <2> HIDE DEF earlier
  <2>3. \A x, y \in 1..n : <<x, y>> \in R2 <=> earlier(x, y)
    <3> SUFFICES ASSUME NEW x \in 1..n, NEW y \in 1..n
                 PROVE  earlier(x, y) \/ (~earlier(y, x) /\ x < y) <=> earlier(x, y)
      BY <2>1
    <3>1. CASE x = y
      BY <3>1
    <3>2. CASE x # y
      BY <2>2, <3>2
    <3> QED BY <3>1, <3>2
  <2> QED BY <2>2, <2>3 DEF TotalOrder
<1>9. Picks(t, fs, 1..n)
  <2>1. Sequence(fs)
    BY DEF FusedOK
  <2>2. CASE t = fs
    BY <1>1, <2>1, <2>2, PicksAll
  <2>3. CASE t = IF n < 2 THEN fs ELSE [i \in 1..n |-> fs[Arranged(1..n, R1)[i]]]
    BY <1>1, <1>7, <2>1, <2>3, StableIn
  <2>4. CASE t = IF n < 2 THEN fs ELSE [i \in 1..n |-> fs[Arranged(1..n, R2)[i]]]
    BY <1>1, <1>8, <2>1, <2>4, StableIn
  <2> QED BY <1>4, <2>2, <2>3, <2>4
<1>10. FusedOK(t)
  BY <1>1, <1>9, PicksFused
<1>11. \A j \in 1..n : \E i \in 1..Len(t) : t[i] = fs[j]
  BY <1>9 DEF Picks
<1> QED BY <1>1, <1>10, <1>11 DEF KeysOf

LEMMA TakeIn ==
    ASSUME NEW s, Sequence(s), NEW n \in Nat, NEW t, t = Take(s, n)
    PROVE  /\ Sequence(t) /\ Len(t) = (IF n < Len(s) THEN n ELSE Len(s))
           /\ \A i \in 1..Len(t) : i \in 1..Len(s) /\ t[i] = s[i]
           /\ Len(s) <= n => t = s
<1>1. PICK m \in Nat : m = Len(s)
  BY DEF Sequence
<1>2. PICK k \in Nat : k = (IF n < m THEN n ELSE m) /\ k <= m /\ (m <= n => k = m)
  OBVIOUS
<1>3. t = SubSeq(s, 1, k)
  BY <1>1, <1>2 DEF Take
<1>4. PICK T : s \in Seq(T)
  BY IsSequence DEF Sequence
<1>5. t \in Seq(T) /\ Len(t) = k /\ \A i \in 1..k : t[i] = s[i]
  BY <1>1, <1>2, <1>3, <1>4
<1>6. Sequence(t)
  BY <1>5 DEF Sequence
<1>7. ASSUME m <= n PROVE t = s
  <2>1. k = m
    BY <1>2, <1>7
  <2> QED BY <1>1, <1>4, <1>5, <2>1
<1>8. \A i \in 1..k : i \in 1..m
  BY <1>2
<1> QED BY <1>1, <1>2, <1>5, <1>6, <1>7, <1>8

LEMMA CandidatesTake ==
    ASSUME NEW cs, CandidatesOK(cs), NEW n \in Nat
    PROVE  CandidatesOK(Take(cs, n)) /\ (Len(cs) <= n => Take(cs, n) = cs)
<1>1. PICK t : t = Take(cs, n)
  OBVIOUS
<1>2. /\ Sequence(t) /\ \A i \in 1..Len(t) : i \in 1..Len(cs) /\ t[i] = cs[i]
      /\ Len(cs) <= n => t = cs
  BY <1>1, TakeIn DEF CandidatesOK
<1>3. CandidatesOK(t)
  BY <1>2 DEF CandidatesOK
<1> QED BY <1>1, <1>2, <1>3

LEMMA RowsKeys ==
    ASSUME NEW h, NEW rows \in Seq(Row(h))
    PROVE  KeysOf(rows) \subseteq Keys /\ \A i \in 1..Len(rows) : rows[i].key \in Keys
<1>1. \A r \in Row(h) : r.key \in Keys
  BY DEF Row, Known
<1>2. \A i \in 1..Len(rows) : rows[i] \in Row(h)
  OBVIOUS
<1> QED BY <1>1, <1>2 DEF KeysOf

LEMMA FallbackIn ==
    ASSUME NEW h, NEW live \in Seq(Row(h)), NEW cs, cs = FallbackCandidates(live)
    PROVE  /\ CandidatesOK(cs) /\ Len(cs) = Len(live)
           /\ \A i \in 1..Len(live) : cs[i].key = live[i].key
<1>1. PICK n \in Nat : n = Len(live)
  OBVIOUS
<1>2. PICK u \in Int : u = Unit
  BY UnitsOK
<1>3. cs = [i \in 1..n |-> [key |-> live[i].key, score |-> u, penalty |-> 0]]
  BY <1>1, <1>2 DEF FallbackCandidates, Candidate
<1>4. Sequence(cs) /\ Len(cs) = n
  BY <1>3 DEF Sequence
<1>5. \A i \in 1..n : live[i].key \in Keys
  BY <1>1, RowsKeys
<1>6. 0 \in 0..DirtyPenalty
  BY UnitsOK
<1>7. CandidatesOK(cs)
  BY <1>2, <1>3, <1>4, <1>5, <1>6 DEF CandidatesOK
<1> QED BY <1>1, <1>3, <1>4, <1>7

\* The streams of a query; with the budget, the first has every live record.
LEMMA StreamsIn ==
    ASSUME NEW h, NEW q, NEW live \in Seq(Row(h)), NEW sealed \in Seq(Row(h)),
           \A i, j \in 1..Len(live) : live[i].key = live[j].key => i = j,
           NEW scores, Sequence(scores), \A i \in 1..Len(scores) : scores[i].score \in Int,
           NEW budget \in Nat, NEW ss, ss = Streams(q, live, sealed, scores, budget)
    PROVE  /\ StreamsOK(ss) /\ 1 \in 1..Len(ss)
           /\ Len(live) <= budget =>
                 \A i \in 1..Len(live) : \E j \in 1..Len(ss[1].cands) : ss[1].cands[j].key = live[i].key
<1>1. PICK fb, tx, vc : /\ fb = FallbackCandidates(live)
                        /\ tx = TextCandidates(live \o sealed, scores)
                        /\ vc = VectorCandidates(q, live, sealed)
  OBVIOUS
<1>2. PICK vs : vs = IF q.vector THEN vc ELSE <<>>
  OBVIOUS
<1>3. /\ CandidatesOK(fb) /\ Len(fb) = Len(live)
      /\ \A i \in 1..Len(live) : fb[i].key = live[i].key
  BY <1>1, FallbackIn
<1>4. CandidatesOK(tx)
  <2>1. PICK rows : rows = live \o sealed
    OBVIOUS
  <2>2. rows \in Seq(Row(h))
    BY <2>1
  <2>3. KeysOf(rows) \subseteq Keys
    BY <2>2, RowsKeys
  <2> QED BY <1>1, <2>1, <2>3, TextIn
<1>5. CandidatesOK(vs)
  <2>1. CandidatesOK(vc)
    BY <1>1, VectorIn
  <2>2. CandidatesOK(<<>>)
    BY DEF CandidatesOK, Sequence
  <2> QED BY <1>2, <2>1, <2>2
<1>6. PICK c1, c4, c5 : c1 = Take(fb, budget) /\ c4 = Take(tx, budget) /\ c5 = Take(vs, budget)
  OBVIOUS
<1>7. /\ CandidatesOK(c1) /\ CandidatesOK(c4) /\ CandidatesOK(c5)
      /\ Len(fb) <= budget => c1 = fb
  BY <1>3, <1>4, <1>5, <1>6, CandidatesTake
<1>8. ss = <<[name |-> "policy", cands |-> c1], [name |-> "relational", cands |-> c1],
             [name |-> "hot_overlay", cands |-> c1], [name |-> "text", cands |-> c4],
             [name |-> "vector", cands |-> c5]>>
  BY <1>1, <1>2, <1>6 DEF Streams
<1>9. Sequence(ss) /\ Len(ss) = 5 /\ ss[1].cands = c1
  BY <1>8 DEF Sequence
<1>10. \A i \in 1..5 : CandidatesOK(ss[i].cands)
  <2>1. \A i \in 1..5 : i = 1 \/ i = 2 \/ i = 3 \/ i = 4 \/ i = 5
    OBVIOUS
  <2>2. /\ ss[1].cands = c1 /\ ss[2].cands = c1 /\ ss[3].cands = c1
        /\ ss[4].cands = c4 /\ ss[5].cands = c5
    BY <1>8
  <2> QED BY <1>7, <2>1, <2>2
<1>11. ASSUME Len(live) <= budget, NEW i \in 1..Len(live)
       PROVE  \E j \in 1..Len(c1) : c1[j].key = live[i].key
  BY <1>3, <1>7, <1>11
<1> QED BY <1>9, <1>10, <1>11 DEF StreamsOK

LEMMA DistinctKeys ==
    ASSUME NEW s, Sequence(s), \A i \in 1..Len(s) : s[i].key \in Keys,
           \A i, j \in 1..Len(s) : s[i].key = s[j].key => i = j
    PROVE  Cardinality(Keys) \in Nat /\ Len(s) <= Cardinality(Keys)
<1>1. PICK n \in Nat : n = Len(s)
  BY DEF Sequence
<1>2. PICK f : f = [i \in 1..n |-> s[i].key]
  OBVIOUS
<1>3. f \in Injection(1..n, Keys)
  BY <1>1, <1>2 DEF Injection, IsInjective
<1>4. IsFiniteSet(Keys) /\ Cardinality(Keys) \in Nat
  BY SegmentsAssumption, FS_CardinalityType
<1>5. Cardinality(1..n) <= Cardinality(Keys)
  BY <1>3, <1>4, FS_Injection
<1>6. Cardinality(1..n) = n
  BY FS_Interval
<1> QED BY <1>1, <1>4, <1>5, <1>6

\* The positions of the rows of a record, and the last of these rows.
Own(rows, k) == {i \in 1..Len(rows) : rows[i].key = k}

LEMMA LastRow ==
    ASSUME NEW rows, Sequence(rows), NEW k, k \in KeysOf(rows),
           NEW r, r = rows[Max(Own(rows, k))]
    PROVE  r.key = k /\ \E i \in 1..Len(rows) : r = rows[i]
<1>1. PICK n \in Nat : n = Len(rows)
  BY DEF Sequence
<1>2. PICK own : own = Own(rows, k) /\ own = {i \in 1..n : rows[i].key = k}
  BY <1>1 DEF Own
<1>3. own \in SUBSET (0..n) /\ own # {}
  <2>1. \A j \in 1..n : j \in 0..n
    OBVIOUS
  <2> QED BY <1>1, <1>2, <2>1 DEF KeysOf
<1>4. PICK m : m = Max(own) /\ m \in own
  BY <1>1, <1>3, LargestOf
<1>5. r = rows[m]
  BY <1>1, <1>2, <1>4
<1> QED BY <1>1, <1>2, <1>4, <1>5

\* What a query shows: live rows, and sealed ones of records that are not deleted;
\* no record twice, and every live row whose record is among the candidates.
Shown(rows, e, live, sealed, fs) ==
    /\ Sequence(rows) /\ Len(rows) <= Cardinality(Keys)
    /\ \A i \in 1..Len(rows) :
          \/ \E j \in 1..Len(live) : rows[i] = live[j]
          \/ \E j \in 1..Len(sealed) : rows[i] = sealed[j] /\ ~TombstonedAt(sealed[j].key, e)
    /\ \A i, j \in 1..Len(rows) : rows[i].key = rows[j].key => i = j
    /\ \A j \in 1..Len(live) : live[j].key \in KeysOf(fs) =>
          \E i \in 1..Len(rows) : rows[i] = live[j]

LEMMA MaterializeIn ==
    ASSUME NEW q, NEW e, NEW live, NEW sealed, RowsOf(q, e, live, sealed),
           NEW fs, FusedOK(fs), NEW rows, rows = Materialize(live, sealed, e, fs)
    PROVE  Shown(rows, e, live, sealed, fs)
<1>1. Sequence(live) /\ Sequence(sealed)
  BY DEF RowsOf, Sequence
<1>2. PICK at, old : /\ at = {i \in 1..Len(sealed) : ~TombstonedAt(sealed[i].key, e)}
                     /\ old = Picked(sealed, at)
  OBVIOUS
<1>3. Picks(old, sealed, at)
  BY <1>1, <1>2, PickedPicks
<1>4. PICK of, shown : /\ of = {i \in 1..Len(fs) : fs[i].key \in KeysOf(live) \cup KeysOf(old)}
                       /\ shown = Picked(fs, of)
  OBVIOUS
<1>5. Picks(shown, fs, of) /\ FusedOK(shown)
  <2>1. of \in SUBSET (1..Len(fs)) /\ Sequence(fs)
    BY <1>4 DEF FusedOK
  <2>2. Picks(shown, fs, of)
    BY <1>4, <2>1, PickedPicks
  <2> QED BY <2>1, <2>2, PicksFused
<1>6. PICK n \in Nat : n = Len(shown)
  BY <1>5 DEF FusedOK, Sequence
<1>7. Sequence(old)
  BY <1>3 DEF Picks
<1> DEFINE last(rs, k) == rs[Max({i \in 1..Len(rs) : rs[i].key = k})]
           row(k) == IF k \in KeysOf(live) THEN last(live, k) ELSE last(old, k)
<1>8. rows = [i \in 1..n |-> row(shown[i].key)]
  <2>1. rows = [i \in 1..Len(shown) |->
                  last(IF shown[i].key \in KeysOf(live) THEN live ELSE old, shown[i].key)]
    BY <1>2, <1>4 DEF Materialize, Filter
  <2> QED BY <1>6, <2>1
<1>9. \A i \in 1..n : shown[i].key \in KeysOf(live) \cup KeysOf(old)
  <2>1. \A i \in 1..n : \E j \in of : shown[i] = fs[j]
    BY <1>5, <1>6 DEF Picks
  <2>2. \A j \in of : fs[j].key \in KeysOf(live) \cup KeysOf(old)
    BY <1>4
  <2> QED BY <2>1, <2>2
<1>10. ASSUME NEW k, k \in KeysOf(live)
       PROVE  row(k).key = k /\ \E j \in 1..Len(live) : row(k) = live[j]
  <2>1. PICK r : r = live[Max(Own(live, k))]
    OBVIOUS
  <2>2. r.key = k /\ \E j \in 1..Len(live) : r = live[j]
    BY <1>1, <1>10, <2>1, LastRow
  <2>3. row(k) = r
    BY <1>10, <2>1 DEF Own
  <2> HIDE DEF row
  <2> QED BY <2>2, <2>3
<1>11. ASSUME NEW k, k \notin KeysOf(live), k \in KeysOf(old)
       PROVE  /\ row(k).key = k
              /\ \E j \in 1..Len(sealed) : row(k) = sealed[j] /\ ~TombstonedAt(sealed[j].key, e)
  <2>1. PICK r : r = old[Max(Own(old, k))]
    OBVIOUS
  <2>2. r.key = k /\ \E j \in 1..Len(old) : r = old[j]
    BY <1>7, <1>11, <2>1, LastRow
  <2>3. row(k) = r
    BY <1>11, <2>1 DEF Own
  <2>4. \A j \in 1..Len(old) : \E l \in at : old[j] = sealed[l]
    BY <1>3 DEF Picks
  <2>5. \A l \in at : l \in 1..Len(sealed) /\ ~TombstonedAt(sealed[l].key, e)
    BY <1>2
  <2> HIDE DEF row
  <2> QED BY <2>2, <2>3, <2>4, <2>5
<1> HIDE DEF row
<1>12. Sequence(rows) /\ Len(rows) = n /\ \A i \in 1..n : rows[i] = row(shown[i].key)
  BY <1>8 DEF Sequence
<1>13. \A i \in 1..n : rows[i].key = shown[i].key
  BY <1>9, <1>10, <1>11, <1>12
<1>14. \A i, j \in 1..n : rows[i].key = rows[j].key => i = j
  BY <1>5, <1>6, <1>13 DEF FusedOK
<1>15. \A i \in 1..n :
          \/ \E j \in 1..Len(live) : rows[i] = live[j]
          \/ \E j \in 1..Len(sealed) : rows[i] = sealed[j] /\ ~TombstonedAt(sealed[j].key, e)
  BY <1>9, <1>10, <1>11, <1>12
<1>16. Len(rows) <= Cardinality(Keys)
  <2>1. Sequence(shown) /\ \A i \in 1..Len(shown) : shown[i].key \in Keys
    BY <1>5 DEF FusedOK, FusedOne
  <2>2. \A i, j \in 1..Len(shown) : shown[i].key = shown[j].key => i = j
    BY <1>5 DEF FusedOK
  <2>3. Len(shown) <= Cardinality(Keys)
    BY <2>1, <2>2, DistinctKeys
  <2> QED BY <1>6, <1>12, <2>3
<1>17. ASSUME NEW j \in 1..Len(live), live[j].key \in KeysOf(fs)
       PROVE  \E i \in 1..n : rows[i] = live[j]
  <2>1. PICK l \in 1..Len(fs) : fs[l].key = live[j].key
    BY <1>17 DEF KeysOf
  <2>2. live[j].key \in KeysOf(live)
    BY DEF KeysOf
  <2>3. PICK i \in 1..n : shown[i] = fs[l]
    BY <1>4, <1>5, <1>6, <2>1, <2>2 DEF Picks
  <2>4. rows[i] = row(live[j].key)
    BY <1>12, <2>1, <2>3
  <2>5. row(live[j].key).key = live[j].key /\ \E m \in 1..Len(live) : row(live[j].key) = live[m]
    BY <1>10, <2>2
  <2>6. row(live[j].key) = live[j]
    BY <2>5 DEF RowsOf
  <2> QED BY <2>4, <2>6
<1> QED BY <1>12, <1>14, <1>15, <1>16, <1>17 DEF Shown

LEMMA DocumentsIn ==
    ASSUME NEW terms, \A v \in Vals : terms \subseteq DOMAIN v.lex, NEW q, NEW e,
           RowsOf(q, e, Visible(q, e), Sealed(q, e)), NEW docs, docs = Documents(q, e)
    PROVE  DocumentsOK(terms, docs)
<1>1. PICK T, live, sealed, rows : /\ T = Row(hot) /\ live = Visible(q, e) /\ sealed = Sealed(q, e)
                                   /\ rows = live \o sealed
  OBVIOUS
<1>2. rows \in Seq(T)
  BY <1>1 DEF RowsOf
<1>3. PICK n \in Nat : n = Len(rows)
  BY <1>2
<1>4. docs = [i \in 1..n |-> [key |-> rows[i].key, tf |-> rows[i].val.lex]]
  BY <1>1, <1>3 DEF Documents
<1>5. \A r \in T : r.val \in Vals
  BY <1>1 DEF Row
<1>6. \A i \in 1..n : rows[i].val \in Vals
  BY <1>2, <1>3, <1>5
<1>7. \A v \in Vals : IsFiniteSet(DOMAIN v.lex) /\ \A t \in DOMAIN v.lex : v.lex[t] \in Nat
  BY QueryAssumption
<1>8. Len(docs) = n /\ \A i \in 1..n : docs[i].tf = rows[i].val.lex
  BY <1>4
<1> QED BY <1>6, <1>7, <1>8 DEF DocumentsOK

\* With an empty cache the scores are those of the documents.
LEMMA FreshScores ==
    ASSUME cache = <<>>, NEW q, NEW docs
    PROVE  LexicalScores(q, docs) = ScoreCorpus(q.text, docs)
<1>1. {0} \cup {i \in 1..Len(cache) : cache[i].key = CacheKey(q)} = {0}
  <2>1. Len(cache) = 0
    OBVIOUS
  <2> QED BY <2>1
<1>2. PICK S : S = {0}
  OBVIOUS
<1>3. Max(S) \in S
  BY <1>2, LargestOf
<1>4. Cached(q) = 0
  BY <1>1, <1>2, <1>3 DEF Cached
<1> QED BY <1>4 DEF LexicalScores

\* The rows of a query, for any scores; with the budget for it, every live row.
LEMMA ReadShown ==
    ASSUME NEW q, NEW e, NEW live, NEW sealed, RowsOf(q, e, live, sealed),
           NEW scores, Sequence(scores), \A i \in 1..Len(scores) : scores[i].score \in Int,
           NEW budget \in Nat, NEW m,
           m = Materialize(live, sealed, e, Ordered(q, Fuse(Streams(q, live, sealed, scores, budget))))
    PROVE  \E fs : /\ Shown(m, e, live, sealed, fs)
                   /\ Len(live) <= budget => \A i \in 1..Len(live) : live[i].key \in KeysOf(fs)
<1>1. PICK ss, fd, fs : /\ ss = Streams(q, live, sealed, scores, budget)
                        /\ fd = Fuse(ss) /\ fs = Ordered(q, fd)
  OBVIOUS
<1>2. /\ StreamsOK(ss) /\ 1 \in 1..Len(ss)
      /\ Len(live) <= budget =>
            \A i \in 1..Len(live) : \E j \in 1..Len(ss[1].cands) : ss[1].cands[j].key = live[i].key
  <2>1. PICK h : h = hot
    OBVIOUS
  <2>2. /\ live \in Seq(Row(h)) /\ sealed \in Seq(Row(h))
        /\ \A i, j \in 1..Len(live) : live[i].key = live[j].key => i = j
    BY <2>1 DEF RowsOf
  <2> QED BY SMTT(60), <1>1, <2>2, StreamsIn
<1>3. FusedOK(fd) /\ Covers(fd, ss)
  BY <1>1, <1>2, FuseIn
<1>4. FusedOK(fs) /\ KeysOf(fd) \subseteq KeysOf(fs)
  BY <1>1, <1>3, OrderedIn
<1>5. ASSUME Len(live) <= budget, NEW i \in 1..Len(live) PROVE live[i].key \in KeysOf(fs)
  <2>1. live[i].key \in KeysOf(fd)
    BY <1>2, <1>3, <1>5 DEF Covers
  <2> QED BY <1>4, <2>1
<1>6. m = Materialize(live, sealed, e, fs)
  BY <1>1
<1>7. Shown(m, e, live, sealed, fs)
  BY <1>4, <1>6, MaterializeIn
<1> QED BY <1>5, <1>7

\* The whole answer to a query: what it shows, with every live row.
LEMMA AnswerIn ==
    ASSUME SegmentsInv, HotInv, SealedInv, cache = <<>>, NEW q \in QueryReads
    PROVE  \E live, sealed : /\ RowsOf(q, man.epoch, live, sealed)
                             /\ live = Visible(q, man.epoch)
                             /\ Shown(Answer(q), man.epoch, live, sealed, live)
<1>1. PICK C \in Nat : C = Cardinality(Keys)
  BY SegmentsAssumption, FS_CardinalityType
<1>2. PICK q2 : q2 = [q EXCEPT !.limit = C]
  OBVIOUS
<1>3. {"kind", "user", "grp", "text", "vector", "dirty", "limit"} = DOMAIN q /\ q.kind = "query"
  BY QueryAssumption DEF QueryReads
<1>4. q2.kind = "query" /\ q2.user = q.user /\ q2.grp = q.grp /\ q2.text = q.text /\ q2.limit = C
  BY <1>2, <1>3
<1>5. PICK e, live, sealed : e = man.epoch /\ live = Visible(q2, e) /\ sealed = Sealed(q2, e)
  OBVIOUS
<1>6. RowsOf(q2, e, live, sealed) /\ live = Visible(q, e) /\ RowsOf(q, e, live, sealed)
  <2>1. \A r : Passes(q2, r) <=> Passes(q, r)
    BY <1>4 DEF Passes
  <2>2. PICK rows : rows = HotRows(e)
    OBVIOUS
  <2>3. {i \in 1..Len(rows) : Passes(q2, rows[i])} = {i \in 1..Len(rows) : Passes(q, rows[i])}
    BY <2>1
  <2>4. Visible(q2, e) = Visible(q, e)
    BY <2>2, <2>3 DEF Visible, Filter
  <2>5. RowsOf(q2, e, live, sealed)
    BY <1>5, ReadsRows
  <2>6. RowsOf(q, e, live, sealed)
    BY <2>1, <2>5 DEF RowsOf
  <2> QED BY <1>5, <2>4, <2>5, <2>6
<1>7. PICK docs, scores : /\ docs = Documents(q2, e)
                          /\ scores = IF q2.text = {} THEN <<>> ELSE LexicalScores(q2, docs)
  OBVIOUS
<1>8. Answer(q) = QueryPage(q2, e, 0, scores).rows
  BY <1>1, <1>2, <1>4, <1>5, <1>7 DEF Answer, PageOf
<1>9. Sequence(scores) /\ \A i \in 1..Len(scores) : scores[i].score \in Int
  <2>1. CASE q2.text = {}
    <3>1. scores = <<>>
      BY <1>7, <2>1
    <3> QED BY <3>1 DEF Sequence
  <2>2. CASE q2.text # {}
    <3>1. scores = ScoreCorpus(q2.text, docs)
      BY <1>7, <2>2, FreshScores
    <3>2. \A v \in Vals : q2.text \subseteq DOMAIN v.lex
      BY <1>4, QueryAssumption DEF QueryReads
    <3>3. DocumentsOK(q2.text, docs)
      BY <1>5, <1>6, <1>7, <3>2, DocumentsIn
    <3> QED BY <3>1, <3>3, ScoresIn
  <2> QED BY <2>1, <2>2
<1>10. /\ live \in Seq(Row(hot)) /\ sealed \in Seq(Row(hot))
       /\ \A i, j \in 1..Len(live) : live[i].key = live[j].key => i = j
  BY <1>6 DEF RowsOf
<1>11. Len(live) \in Nat /\ Len(live) <= C
  <2>1. Sequence(live) /\ \A i \in 1..Len(live) : live[i].key \in Keys
    BY <1>10, RowsKeys DEF Sequence
  <2>2. Len(live) <= Cardinality(Keys)
    BY <1>10, <2>1, DistinctKeys
  <2> QED BY <1>1, <1>10, <2>2
<1>12. PICK m : m = Materialize(live, sealed, e,
                        Ordered(q2, Fuse(Streams(q2, live, sealed, scores, 4 * (0 + C + 1)))))
  OBVIOUS
<1>13. PICK fs : /\ Shown(m, e, live, sealed, fs)
                 /\ \A i \in 1..Len(live) : live[i].key \in KeysOf(fs)
  <2>1. PICK b \in Nat : b = 4 * (0 + C + 1) /\ C <= b
    OBVIOUS
  <2>2. Len(live) <= b
    BY <1>11, <2>1
  <2>3. m = Materialize(live, sealed, e, Ordered(q2, Fuse(Streams(q2, live, sealed, scores, b))))
    BY <1>12, <2>1
  <2> QED BY <1>6, <1>9, <2>2, <2>3, ReadShown
<1>16. Shown(m, e, live, sealed, live)
  <2>1. \A j \in 1..Len(live) : \E i \in 1..Len(m) : m[i] = live[j]
    BY <1>13 DEF Shown
  <2> QED BY <1>13, <2>1 DEF Shown
<1>17. CASE C = 0
  <2>1. Answer(q) = <<>> /\ Len(live) = 0
    BY <1>4, <1>8, <1>11, <1>17 DEF QueryPage
  <2>2. Shown(<<>>, e, live, sealed, live)
    BY <1>1, <1>17, <2>1 DEF Shown, Sequence
  <2> QED BY <1>5, <1>6, <2>1, <2>2
<1>18. CASE C # 0
  <2>1. Sequence(m) /\ Len(m) <= C
    BY <1>1, <1>13 DEF Shown
  <2>2. PICK k \in Nat : k = Len(m) /\ k <= C
    BY <2>1 DEF Sequence
  <2>3. Take(m, C + 1) = m /\ Take(m, C) = m
    <3>1. C + 1 \in Nat /\ k <= C + 1
      BY <2>2
    <3> QED BY <2>1, <2>2, <3>1, TakeIn
  <2>4. Answer(q) = Page(Take(m, 0 + C + 1), 0, C).rows
    BY <1>4, <1>5, <1>8, <1>12, <1>18 DEF QueryPage
  <2>5. Answer(q) = SubSeq(Take(m, C + 1), 1, Len(Take(Take(m, C + 1), C)))
    BY <2>4 DEF Page
  <2>6. Answer(q) = SubSeq(m, 1, k)
    BY <2>2, <2>3, <2>5
  <2>7. SubSeq(m, 1, k) = m
    <3>1. PICK T : m \in Seq(T)
      BY <2>1, IsSequence DEF Sequence
    <3> QED BY <2>2, <3>1
  <2> QED BY <1>5, <1>6, <1>16, <2>6, <2>7
<1> QED BY <1>17, <1>18

LEMMA SealedInit == QueryInit => HotInv /\ SealedInv
<1> SUFFICES ASSUME QueryInit PROVE HotInv /\ SealedInv
  OBVIOUS
<1>1. /\ hot = [k \in Keys |-> <<>>] /\ copy = NoCopy /\ segs = <<>>
      /\ man = [epoch |-> 0, chk |-> 0, gen |-> 1, segs |-> <<>>, idxs |-> {}]
  BY DEF QueryInit, Init
<1>2. VersionsOK(<<>>, 0)
  BY DEF VersionsOK
<1>3. hot \in [Keys -> Seq(VersionRecord)] /\ (\A k \in Keys : hot[k] = <<>>)
  BY <1>1
<1>4. man.epoch = 0 /\ man.chk = 0 /\ copy.step = "none" /\ DOMAIN segs = {}
  BY <1>1 DEF NoCopy
<1> QED BY <1>1, <1>2, <1>3, <1>4 DEF HotInv, SealedInv, StoreOK, FilesOK

\* No query, hybrid or not, answers a version that its policy hides from the actor
\* or a record that is deleted, whatever older versions the sealed segments still
\* hold: for every set of records, values, policies and queries, through commits,
\* deletes, checkpoints, compactions, vacuums, restarts, copies and restores.
THEOREM HiddenStaysHidden == Spec => []NothingHiddenAnswered
<1>1. SegmentsInv /\ HotInv /\ SealedInv => NothingHiddenAnswered
  <2> SUFFICES ASSUME SegmentsInv, HotInv, SealedInv, Quiet, NEW q \in QueryReads,
                      NEW i \in 1..Len(Answer(q))
               PROVE  Passes(q, Answer(q)[i]) /\ Live(Answer(q)[i].key, man.epoch)
    BY DEF NothingHiddenAnswered
  <2>1. PICK E, rows : E = man.epoch /\ rows = Answer(q) /\ E \in Nat /\ StoreOK(hot, E)
    BY DEF SegmentsInv, Shape, HotInv
  <2>2. PICK live, sealed : RowsOf(q, E, live, sealed) /\ Shown(rows, E, live, sealed, live)
    BY <2>1, AnswerIn DEF Quiet
  <2>3. CASE \E j \in 1..Len(live) : rows[i] = live[j]
    BY <2>1, <2>2, <2>3 DEF RowsOf
  <2>4. CASE \E j \in 1..Len(sealed) : rows[i] = sealed[j] /\ ~TombstonedAt(sealed[j].key, E)
    <3>1. PICK j \in 1..Len(sealed) : rows[i] = sealed[j] /\ ~TombstonedAt(sealed[j].key, E)
      BY <2>4
    <3>2. Passes(q, sealed[j])
      BY <2>2 DEF RowsOf
    <3>3. sealed[j].key \in Known(hot)
      <4>1. sealed[j] \in Row(hot)
        BY <2>2 DEF RowsOf
      <4> QED BY <4>1 DEF Row
    <3>4. Live(sealed[j].key, E)
      BY <2>1, <3>1, <3>3, KnownIsLive
    <3> QED BY <2>1, <3>1, <3>2, <3>4
  <2> QED BY <2>1, <2>2, <2>3, <2>4 DEF Shown
<1>2. SegmentsInv /\ HotInv /\ SealedInv /\ [Next]_vars => HotInv' /\ SealedInv'
  BY SealedStep
<1> QED BY <1>1, <1>2, SealedInit, SegmentsInit, SegmentsStep, PTL DEF Spec

\* Every live record that a query's filters and policy let through is in its
\* answer, in its current version, and no record is there twice, however the
\* streams rank and the fusion orders them, and whatever sealed segments hold:
\* for every set of records, values and queries.
THEOREM MatchesAnswered == Spec => []MatchingRecordsAnswered
<1>1. SegmentsInv /\ HotInv /\ SealedInv => MatchingRecordsAnswered
  <2> SUFFICES ASSUME SegmentsInv, HotInv, SealedInv, Quiet, NEW q \in QueryReads
               PROVE  /\ \A i, j \in 1..Len(Answer(q)) :
                            Answer(q)[i].key = Answer(q)[j].key => i = j
                      /\ ToSet(Visible(q, man.epoch)) \subseteq ToSet(Answer(q))
    BY DEF MatchingRecordsAnswered
  <2>1. PICK E, rows : E = man.epoch /\ rows = Answer(q)
    OBVIOUS
  <2>2. PICK live, sealed : /\ RowsOf(q, E, live, sealed) /\ live = Visible(q, E)
                            /\ Shown(rows, E, live, sealed, live)
    BY <2>1, AnswerIn DEF Quiet
  <2>3. \A i, j \in 1..Len(rows) : rows[i].key = rows[j].key => i = j
    BY <2>2 DEF Shown
  <2>4. ASSUME NEW r \in ToSet(live) PROVE r \in ToSet(rows)
    <3>1. PICK j \in 1..Len(live) : r = live[j]
      BY <2>2 DEF ToSet, RowsOf
    <3>2. live[j].key \in KeysOf(live)
      BY DEF KeysOf
    <3>3. PICK i \in 1..Len(rows) : rows[i] = live[j]
      BY <2>2, <3>2 DEF Shown
    <3>4. DOMAIN rows = 1..Len(rows)
      BY <2>2 DEF Shown, Sequence
    <3> QED BY <3>1, <3>3, <3>4 DEF ToSet
  <2> QED BY <2>1, <2>2, <2>3, <2>4
<1>2. SegmentsInv /\ HotInv /\ SealedInv /\ [Next]_vars => HotInv' /\ SealedInv'
  BY SealedStep
<1> QED BY <1>1, <1>2, SealedInit, SegmentsInit, SegmentsStep, PTL DEF Spec

-----------------------------------------------------------------------------
(* The cursors of readers *)

\* The bound on the epochs of the directory and of a finished copy.
EpochsOK ==
    /\ man.epoch \in Epoch
    /\ copy.step = "done" => copy.man.epoch \in Epoch

LEMMA EpochsStep ==
    ASSUME SegmentsInv, HotInv, EpochsOK, [Next]_vars
    PROVE  EpochsOK'
<1>0. MaxEpoch \in Nat
  BY SegmentsAssumption
<1>s. man = [epoch |-> man.epoch, chk |-> man.chk, gen |-> man.gen, segs |-> man.segs,
             idxs |-> man.idxs]
  BY DEF SegmentsInv, Shape
<1>1. CASE Write
  <2>1. ASSUME NEW k, NEW v, Commit(k, v) PROVE EpochsOK'
    <3>1. copy' = copy /\ man' = [man EXCEPT !.epoch = @ + 1, !.gen = @ + 1] /\ man.epoch < MaxEpoch
      BY <2>1 DEF Commit
    <3>2. man'.epoch = man.epoch + 1
      BY <1>s, <3>1
    <3> QED BY <1>0, <3>1, <3>2 DEF EpochsOK, Epoch
  <2>2. CASE Checkpoint
    <3>1. copy' = copy /\ man' = [man EXCEPT !.chk = man.epoch, !.gen = @ + 1]
      BY <2>2 DEF Checkpoint
    <3>2. man'.epoch = man.epoch
      BY <1>s, <3>1
    <3> QED BY <3>1, <3>2 DEF EpochsOK
  <2> QED BY <1>1, <2>1, <2>2 DEF Write, PutRecord, DeleteRecord
<1>2. CASE Restart
  <2>1. man' = man /\ (copy' = copy \/ copy' = NoCopy)
    BY <1>2 DEF Restart
  <2> QED BY <2>1 DEF EpochsOK, NoCopy
<1>3. CASE Restore
  <2>1. man' = copy.man /\ copy' = copy /\ copy.step = "done"
    BY <1>3 DEF Restore
  <2> QED BY <2>1 DEF EpochsOK
<1>4. CASE OtherStep
  <2>1. man'.epoch = man.epoch
    BY <1>4, OtherHot
  <2>2. CASE copy' = copy
    BY <2>1, <2>2 DEF EpochsOK
  <2>3. CASE Copying
    <3>1. CASE copy'.step # "done"
      BY <2>1, <3>1 DEF EpochsOK
    <3>2. CASE CopyCheckpoints
      <4>1. copy'.man = man
        BY <3>2 DEF CopyCheckpoints, SegmentsInv, CopyShape
      <4> QED BY <2>1, <4>1 DEF EpochsOK
    <3>3. copy'.step # "done" \/ CopyCheckpoints
      BY <2>3 DEF Copying, CopyManifest, CopyWal, CopyArtifacts
    <3> QED BY <3>1, <3>2, <3>3
  <2> QED BY <1>4, <2>2, <2>3 DEF OtherStep, PublishManifest, PublishAgain, PublishSegment,
        Compact, WriteSegment, WriteIndex, PublishFails, Vacuum, StartRead, NextPage,
        CursorExpired, ReadPage, storage, vars
<1> QED BY <1>1, <1>2, <1>3, <1>4 DEF Next, StorageStep, OtherStep

\* A cached corpus was prepared from documents that every query can be scored on.
CorpusOK(x) ==
    \E made, docs : /\ x.corpus = Prepared(made, docs)
                    /\ \A q \in Queries : DocumentsOK(q.text, docs)

CorporaInv ==
    CacheBounded /\ \E T : cache \in Seq(T) /\ \A x \in T : CorpusOK(x)

LEMMA QueryDocuments ==
    ASSUME SegmentsInv, HotInv, SealedInv, NEW q, NEW e, NEW docs, docs = Documents(q, e)
    PROVE  \A r \in Queries : DocumentsOK(r.text, docs)
<1> SUFFICES ASSUME NEW r \in Queries PROVE DocumentsOK(r.text, docs)
  OBVIOUS
<1>1. RowsOf(q, e, Visible(q, e), Sealed(q, e))
  BY ReadsRows
<1>2. PICK terms : terms = r.text /\ \A v \in Vals : terms \subseteq DOMAIN v.lex
  BY QueryAssumption
<1>3. DocumentsOK(terms, docs)
  BY <1>1, <1>2, DocumentsIn
<1> QED BY <1>2, <1>3

\* A query leaves such corpora in the cache.
LEMMA ReadCorpora ==
    ASSUME SegmentsInv, HotInv, SealedInv, CorporaInv, NEW q, NEW e,
           NEW cs, cs = CacheAfter(q, Documents(q, e))
    PROVE  /\ Len(cs) <= Capacity /\ Distinct(cs)
           /\ \E T : cs \in Seq(T) /\ \A x \in T : CorpusOK(x)
<1>1. PICK T : cache \in Seq(T) /\ \A x \in T : CorpusOK(x)
  BY DEF CorporaInv
<1>2. PICK docs, x : docs = Documents(q, e) /\ x = EntryFor(q, docs)
  OBVIOUS
<1>3. cs \in Seq(T \cup {x}) /\ Len(cs) <= Capacity /\ Distinct(cs)
  BY <1>1, <1>2, ReadBounded DEF CorporaInv
<1>4. CorpusOK(x)
  <2>1. CASE Cached(q) # 0
    <3>1. PICK i : i = Cached(q)
      OBVIOUS
    <3>2. i \in 1..Len(cache)
      BY <1>1, <2>1, <3>1, CachedEntry
    <3>3. x = cache[i]
      BY <1>2, <2>1, <3>1 DEF EntryFor
    <3>4. x \in T
      BY <1>1, <3>2, <3>3
    <3> QED BY <1>1, <3>4
  <2>2. CASE Cached(q) = 0
    <3>1. x.corpus = Prepared(q.text, docs)
      BY <1>2, <2>2 DEF EntryFor
    <3>2. \A r \in Queries : DocumentsOK(r.text, docs)
      BY <1>2, QueryDocuments
    <3> QED BY <3>1, <3>2 DEF CorpusOK
  <2> QED BY <2>1, <2>2
<1>5. \A y \in T \cup {x} : CorpusOK(y)
  BY <1>1, <1>4
<1> QED BY <1>3, <1>5

\* The scores of a query are typed, whether a corpus is cached or not.
LEMMA LexicalIn ==
    ASSUME SegmentsInv, HotInv, SealedInv, CorporaInv, NEW q \in Queries, NEW e,
           NEW scores, scores = LexicalScores(q, Documents(q, e))
    PROVE  Sequence(scores) /\ \A i \in 1..Len(scores) : scores[i].score \in Int
<1>1. PICK docs : docs = Documents(q, e)
  OBVIOUS
<1>2. DocumentsOK(q.text, docs)
  BY <1>1, QueryDocuments
<1>3. CASE scores = ScoreCorpus(q.text, docs)
  BY <1>2, <1>3, ScoresIn
<1>4. CASE Cached(q) # 0 /\ scores = ScoreQuery(q.text, cache[Cached(q)].corpus)
  <2>1. PICK T : cache \in Seq(T) /\ \A x \in T : CorpusOK(x)
    BY DEF CorporaInv
  <2>2. PICK i, x : i = Cached(q) /\ x = cache[i]
    OBVIOUS
  <2>3. i \in 1..Len(cache)
    BY <1>4, <2>1, <2>2, CachedEntry
  <2>4. CorpusOK(x)
    BY <2>1, <2>2, <2>3
  <2>5. PICK made, old : x.corpus = Prepared(made, old) /\ DocumentsOK(q.text, old)
    BY <2>4 DEF CorpusOK
  <2>6. scores = ScoreCorpus(q.text, old)
    BY <1>4, <2>2, <2>5, PreparedScoresAgree
  <2> QED BY <2>5, <2>6, ScoresIn
<1> QED BY <1>1, <1>3, <1>4 DEF LexicalScores

\* A page that is not the last leaves the cursor among the records.
LEMMA PageMoves ==
    ASSUME SegmentsInv, HotInv, SealedInv, CorporaInv, NEW q \in Queries, NEW e,
           NEW off \in Nat, PageOf(q, e, off).more
    PROVE  /\ off + Len(PageOf(q, e, off).rows) \in 1..Cardinality(Keys)
           /\ q.kind # "scan" => q.limit < Cardinality(Keys)
<1>1. PICK C \in Nat : C = Cardinality(Keys)
  BY SegmentsAssumption, FS_CardinalityType
<1>2. CASE q.kind = "scan"
  <2>1. PICK o, n : /\ o = off + Len(PageOf(q, e, off).rows) /\ n = Len(LiveRows(hot, e))
                    /\ n \in Nat /\ n <= C
    BY <1>1, RowsCounted
  <2>2. o \in Nat \ {0} /\ o < n
    BY <1>2, <2>1, ScanReads
  <2>3. o \in 1..C
    BY <2>1, <2>2
  <2> QED BY <1>1, <1>2, <2>1, <2>3
<1>3. CASE q.kind # "scan"
  <2>1. PICK n \in Nat : n = q.limit
    BY QueryAssumption
  <2>2. PICK live, sealed, scores :
          /\ live = Visible(q, e) /\ sealed = Sealed(q, e)
          /\ scores = IF q.text = {} THEN <<>> ELSE LexicalScores(q, Documents(q, e))
    OBVIOUS
  <2>3. RowsOf(q, e, live, sealed)
    BY <2>2, ReadsRows
  <2>4. Sequence(scores) /\ \A i \in 1..Len(scores) : scores[i].score \in Int
    <3>1. CASE q.text = {}
      <4>1. scores = <<>>
        BY <2>2, <3>1
      <4> QED BY <4>1 DEF Sequence
    <3>2. CASE q.text # {}
      <4>1. scores = LexicalScores(q, Documents(q, e))
        BY <2>2, <3>2
      <4> QED BY <4>1, LexicalIn
    <3> QED BY <3>1, <3>2
  <2>5. PICK w \in Nat : w = off + n + 1 /\ 4 * w \in Nat
    OBVIOUS
  <2>6. PICK m : m = Materialize(live, sealed, e,
                                 Ordered(q, Fuse(Streams(q, live, sealed, scores, 4 * w))))
    OBVIOUS
  <2>7. PICK fs : Shown(m, e, live, sealed, fs)
    <3>1. PICK b \in Nat : b = 4 * w
      BY <2>5
    <3>2. m = Materialize(live, sealed, e, Ordered(q, Fuse(Streams(q, live, sealed, scores, b))))
      BY <2>6, <3>1
    <3> QED BY <2>3, <2>4, <3>1, <3>2, ReadShown
  <2>8. PageOf(q, e, off) = QueryPage(q, e, off, scores)
    BY <1>3, <2>2 DEF PageOf
  <2>9. n # 0 /\ PageOf(q, e, off) = Page(Take(m, w), off, n)
    BY <2>1, <2>2, <2>5, <2>6, <2>8 DEF QueryPage
  <2>10. PICK t : t = Take(m, w)
    OBVIOUS
  <2>11. Sequence(m) /\ Len(m) <= C
    BY <1>1, <2>7 DEF Shown
  <2>12. Sequence(t) /\ Len(t) <= C
    <3>1. Len(m) \in Nat
      BY <2>11 DEF Sequence
    <3>2. Sequence(t) /\ Len(t) = IF w < Len(m) THEN w ELSE Len(m)
      BY <2>10, <2>11, TakeIn
    <3> QED BY <2>11, <3>1, <3>2
  <2>13. PICK T, L : t \in Seq(T) /\ L = Len(t) /\ L \in Nat /\ L <= C
    BY <2>12, IsSequence DEF Sequence
  <2>14. PICK o : o = off + Len(PageOf(q, e, off).rows)
    OBVIOUS
  <2>15. o = off + n /\ o < L
    BY <2>9, <2>10, <2>13, <2>14, PageOfRows
  <2>16. o \in 1..C /\ n < C
    BY <2>9, <2>13, <2>15
  <2> QED BY <1>1, <2>1, <2>14, <2>16
<1> QED BY <1>2, <1>3

LEMMA CorporaStep ==
    ASSUME SegmentsInv, HotInv, SealedInv, CorporaInv, [Next]_vars
    PROVE  CorporaInv'
<1>1. ASSUME cache' = <<>> PROVE CorporaInv'
  <2>1. Capacity \in Nat /\ cache' \in Seq({}) /\ Len(cache') = 0
    BY <1>1, QueryAssumption
  <2>2. CacheBounded'
    BY <2>1 DEF CacheBounded
  <2>3. \A x \in {} : CorpusOK(x)
    OBVIOUS
  <2> QED BY <2>1, <2>2, <2>3 DEF CorporaInv
<1>2. ASSUME cache' = cache PROVE CorporaInv'
  BY <1>2 DEF CorporaInv, CacheBounded
<1>3. ASSUME NEW q, NEW e, NEW off, NEW want, NEW lost, ReadPage(q, e, off, want, lost)
      PROVE  CorporaInv'
  <2>1. CASE cache' = cache
    BY <1>2, <2>1
  <2>2. CASE cache' = CacheAfter(q, Documents(q, e))
    <3>1. PICK cs : cs = CacheAfter(q, Documents(q, e)) /\ cache' = cs
      BY <2>2
    <3>2. /\ Len(cs) <= Capacity /\ Distinct(cs)
          /\ \E T : cs \in Seq(T) /\ \A x \in T : CorpusOK(x)
      BY <3>1, ReadCorpora
    <3> QED BY <3>1, <3>2 DEF CorporaInv, CacheBounded, Distinct
  <2> QED BY <1>3, <2>1, <2>2 DEF ReadPage
<1>4. CASE \E q \in Queries : StartRead(q)
  BY <1>3, <1>4 DEF StartRead
<1>5. CASE NextPage
  <2>1. PICK q, e, off, want, lost :
          /\ q = reader.q /\ e = CursorEpoch /\ off = reader.off /\ want = reader.want
          /\ lost = reader.lost
    OBVIOUS
  <2>2. ReadPage(q, e, off, want, lost)
    BY <1>5, <2>1 DEF NextPage
  <2> QED BY <1>3, <2>2
<1>6. \/ cache' = <<>> \/ cache' = cache
      \/ \E q \in Queries : StartRead(q)
      \/ NextPage
  BY DEF Next, StorageStep, CursorExpired, vars
<1> QED BY <1>1, <1>2, <1>4, <1>5, <1>6

\* The cursor of a client: of a query, at an epoch, among the records.
Cursor(r) ==
    \E q, e, w, o, l :
        /\ r = [on |-> TRUE, q |-> q, epoch |-> e, want |-> w, off |-> o, lost |-> l]
        /\ q \in Queries /\ e \in Epoch /\ o \in 1..Cardinality(Keys) /\ l \in BOOLEAN

ReaderInv == reader = NoReader \/ Cursor(reader)

LEMMA ReaderStep ==
    ASSUME SegmentsInv, HotInv, SealedInv, CorporaInv, EpochsOK, ReaderInv, [Next]_vars
    PROVE  ReaderInv'
<1>1. CASE reader' = reader \/ reader' = NoReader
  BY <1>1 DEF ReaderInv
<1>2. CASE reader' = ReaderAfterRestart
  <2>1. CASE reader = NoReader
    <3>1. reader' = NoReader
      BY <1>2, <2>1 DEF ReaderAfterRestart, NoReader
    <3> QED BY <3>1 DEF ReaderInv
  <2>2. CASE Cursor(reader)
    <3>1. PICK q, e, w, o, l :
            /\ reader = [on |-> TRUE, q |-> q, epoch |-> e, want |-> w, off |-> o, lost |-> l]
            /\ q \in Queries /\ e \in Epoch /\ o \in 1..Cardinality(Keys) /\ l \in BOOLEAN
      BY <2>2 DEF Cursor
    <3>2. reader' = [reader EXCEPT !.lost = @ \/ man.chk > reader.epoch]
      BY <1>2, <3>1 DEF ReaderAfterRestart
    <3>3. PICK b \in BOOLEAN : b = (l \/ man.chk > e)
      OBVIOUS
    <3>4. reader' = [on |-> TRUE, q |-> q, epoch |-> e, want |-> w, off |-> o, lost |-> b]
      BY <3>1, <3>2, <3>3
    <3> QED BY <3>1, <3>3, <3>4 DEF ReaderInv, Cursor
  <2> QED BY <2>1, <2>2 DEF ReaderInv
<1>3. ASSUME NEW q \in Queries, NEW e \in Epoch, NEW off \in Nat, NEW want,
             NEW lost \in BOOLEAN, ReadPage(q, e, off, want, lost)
      PROVE  ReaderInv'
  <2>1. CASE ~PageOf(q, e, off).more
    BY <1>1, <1>3, <2>1 DEF ReadPage
  <2>2. CASE PageOf(q, e, off).more
    <3>1. PICK o : o = off + Len(PageOf(q, e, off).rows)
      OBVIOUS
    <3>2. o \in 1..Cardinality(Keys)
      BY <2>2, <3>1, PageMoves
    <3>3. reader' = [on |-> TRUE, q |-> q, epoch |-> e, want |-> want, off |-> o, lost |-> lost]
      BY <1>3, <2>2, <3>1 DEF ReadPage
    <3>4. Cursor(reader')
      BY <3>2, <3>3 DEF Cursor
    <3> QED BY <3>4 DEF ReaderInv, Cursor
  <2> QED BY <2>1, <2>2
<1>4. ASSUME NEW q \in Queries, StartRead(q) PROVE ReaderInv'
  <2>1. PICK e, want, f : e = man.epoch /\ want = Answer(q) /\ f = FALSE
    OBVIOUS
  <2>2. ReadPage(q, e, 0, want, f)
    BY <1>4, <2>1 DEF StartRead
  <2>3. e \in Epoch /\ f \in BOOLEAN /\ 0 \in Nat
    BY <2>1 DEF EpochsOK
  <2> QED BY <1>3, <2>2, <2>3
<1>5. CASE NextPage
  <2>1. PICK q, e, off, want, lost :
          /\ q = reader.q /\ e = CursorEpoch /\ off = reader.off /\ want = reader.want
          /\ lost = reader.lost
    OBVIOUS
  <2>2. reader.on /\ ReadPage(q, e, off, want, lost)
    BY <1>5, <2>1 DEF NextPage
  <2>3. Cursor(reader)
    BY <2>2 DEF ReaderInv, NoReader
  <2>4. PICK q1, e1, w1, o1, l1 :
          /\ reader = [on |-> TRUE, q |-> q1, epoch |-> e1, want |-> w1, off |-> o1, lost |-> l1]
          /\ q1 \in Queries /\ e1 \in Epoch /\ o1 \in 1..Cardinality(Keys) /\ l1 \in BOOLEAN
    BY <2>3 DEF Cursor
  <2>5. q \in Queries /\ off = o1 /\ lost = l1 /\ reader.epoch \in Epoch
    BY <2>1, <2>4
  <2>6. e \in Epoch
    BY <2>1, <2>5 DEF CursorEpoch, EpochsOK
  <2>7. off \in Nat
    <3>1. Cardinality(Keys) \in Nat
      BY SegmentsAssumption, FS_CardinalityType
    <3> QED BY <2>4, <2>5, <3>1
  <2>8. lost \in BOOLEAN
    BY <2>4, <2>5
  <2> QED BY <1>3, <2>2, <2>5, <2>6, <2>7, <2>8
<1>6. \/ reader' = reader \/ reader' = NoReader \/ reader' = ReaderAfterRestart
      \/ \E q \in Queries : StartRead(q)
      \/ NextPage
  BY DEF Next, StorageStep, CursorExpired, vars
<1> QED BY <1>1, <1>2, <1>4, <1>5, <1>6

LEMMA CursorsInit == QueryInit => EpochsOK /\ CorporaInv /\ ReaderInv
<1> SUFFICES ASSUME QueryInit PROVE EpochsOK /\ CorporaInv /\ ReaderInv
  OBVIOUS
<1>1. Capacity \in Nat /\ cache \in Seq({}) /\ Len(cache) = 0
  BY QueryAssumption DEF QueryInit
<1>2. CorporaInv
  <2>1. CacheBounded
    BY <1>1 DEF CacheBounded
  <2>2. \A x \in {} : CorpusOK(x)
    OBVIOUS
  <2> QED BY <1>1, <2>1, <2>2 DEF CorporaInv
<1>3. man.epoch = 0 /\ copy.step = "none" /\ MaxEpoch \in Nat
  BY SegmentsAssumption DEF QueryInit, Init, NoCopy
<1>4. EpochsOK
  BY <1>3 DEF EpochsOK, Epoch
<1>5. ReaderInv
  BY DEF QueryInit, ReaderInv
<1> QED BY <1>2, <1>4, <1>5

\* What holds of every state that reads can meet.
ReadsInv == HotInv /\ SealedInv /\ EpochsOK /\ CorporaInv /\ ReaderInv

LEMMA ReadsStep == SegmentsInv /\ ReadsInv /\ [Next]_vars => ReadsInv'
  BY SealedStep, EpochsStep, CorporaStep, ReaderStep DEF ReadsInv

\* The lexical cache never holds more than its capacity nor two corpora under one
\* key, for every capacity (LexicalCorpusCache::get, insert, evict_lru, clear);
\* and a client that holds a cursor has been given a row, and not yet more rows
\* than there are records, at an epoch of this database: a page that comes with a
\* cursor (resolve_cursor_state, next_cursor) is never empty, for scans and for
\* queries, whether their scores come from a cached corpus or not, and however
\* commits, deletes and restarts change what the next page is cut from.
THEOREM CursorsTyped == Spec => []QueryTypeOK
<1>1. QueryInit => ReadsInv
  BY SealedInit, CursorsInit DEF ReadsInv
<1>2. ReaderInv /\ CacheBounded => QueryTypeOK
  <2>1. CASE reader = NoReader
    BY <2>1 DEF NoReader, QueryTypeOK
  <2>2. CASE Cursor(reader)
    BY <2>2 DEF Cursor, QueryTypeOK
  <2> QED BY <2>1, <2>2 DEF ReaderInv
<1>3. ReadsInv => QueryTypeOK
  BY <1>2 DEF ReadsInv, CorporaInv
<1> QED BY <1>1, <1>3, ReadsStep, SegmentsInit, SegmentsStep, PTL DEF Spec

-----------------------------------------------------------------------------
(* The lexical cache changes no score *)

\* Every text query is answered on one page.
OnePageTexts == \A q \in TextReads : q.limit >= Cardinality(Keys)

\* Then no cursor is that of a text query.
LEMMA PlainTextsStep ==
    ASSUME ~Signed \/ OnePageTexts, SegmentsInv, ReadsInv, PlainTexts, [Next]_vars
    PROVE  PlainTexts'
<1>1. CASE ~Signed
  BY <1>1 DEF PlainTexts
<1>2. CASE OnePageTexts
  <2>1. CASE reader' = reader \/ reader' = NoReader
    BY <2>1 DEF PlainTexts, NoReader
  <2>2. CASE reader' = ReaderAfterRestart
    <3>1. CASE reader = NoReader
      BY <2>2, <3>1 DEF ReaderAfterRestart, NoReader, PlainTexts
    <3>2. CASE Cursor(reader)
      <4>1. PICK q, e, w, o, l :
              reader = [on |-> TRUE, q |-> q, epoch |-> e, want |-> w, off |-> o, lost |-> l]
        BY <3>2 DEF Cursor
      <4>2. reader' = [reader EXCEPT !.lost = @ \/ man.chk > reader.epoch]
        BY <2>2, <4>1 DEF ReaderAfterRestart
      <4>3. reader'.q = reader.q /\ reader.on
        BY <4>1, <4>2
      <4> QED BY <4>3 DEF PlainTexts
    <3> QED BY <3>1, <3>2 DEF ReadsInv, ReaderInv
  <2>3. ASSUME NEW q \in Queries, NEW e, NEW off \in Nat, NEW want, NEW lost,
               ReadPage(q, e, off, want, lost)
        PROVE  PlainTexts'
    <3>1. CASE ~PageOf(q, e, off).more
      BY <2>1, <2>3, <3>1 DEF ReadPage
    <3>2. CASE PageOf(q, e, off).more
      <4>1. q.kind # "scan" => q.limit < Cardinality(Keys)
        BY <3>2, PageMoves DEF ReadsInv
      <4>2. q \notin TextReads
        <5>1. PICK C \in Nat, n \in Nat : C = Cardinality(Keys) /\ n = q.limit
          BY SegmentsAssumption, FS_CardinalityType, QueryAssumption
        <5>2. q \in TextReads => n >= C /\ q.kind = "query"
          BY <1>2, <5>1 DEF OnePageTexts, TextReads
        <5> QED BY <4>1, <5>1, <5>2
      <4>3. reader'.q = q
        BY <2>3, <3>2 DEF ReadPage
      <4> QED BY <4>2, <4>3 DEF PlainTexts
    <3> QED BY <3>1, <3>2
  <2>4. ASSUME NEW q \in Queries, StartRead(q) PROVE PlainTexts'
    <3>1. PICK e, want, f : e = man.epoch /\ want = Answer(q) /\ f = FALSE
      OBVIOUS
    <3>2. ReadPage(q, e, 0, want, f)
      BY <2>4, <3>1 DEF StartRead
    <3> QED BY <2>3, <3>2
  <2>5. CASE NextPage
    <3>1. PICK q, e, off, want, lost :
            /\ q = reader.q /\ e = CursorEpoch /\ off = reader.off /\ want = reader.want
            /\ lost = reader.lost
      OBVIOUS
    <3>2. reader.on /\ ReadPage(q, e, off, want, lost)
      BY <2>5, <3>1 DEF NextPage
    <3>3. Cursor(reader)
      BY <3>2 DEF ReadsInv, ReaderInv, NoReader
    <3>4. PICK C \in Nat : C = Cardinality(Keys)
      BY SegmentsAssumption, FS_CardinalityType
    <3>5. q \in Queries /\ off \in 1..C
      BY <3>1, <3>3, <3>4 DEF Cursor
    <3>6. off \in Nat
      BY <3>4, <3>5
    <3> QED BY <2>3, <3>2, <3>5, <3>6
  <2>6. \/ reader' = reader \/ reader' = NoReader \/ reader' = ReaderAfterRestart
        \/ \E q \in Queries : StartRead(q)
        \/ NextPage
    BY DEF Next, StorageStep, CursorExpired, vars
  <2> QED BY <2>1, <2>2, <2>4, <2>5, <2>6
<1> QED BY <1>1, <1>2

\* The lexical cache is transparent (score_prepared_lexical_corpus): whatever is
\* written, published, compacted, vacuumed and restarted between two queries, a
\* corpus that one of them left in the cache gives the other the scores that its
\* own documents give, if text queries under one predicate come from one actor and
\* either cursors are plain offsets or text queries fit on one page.  The key of a
\* corpus has neither the actor nor the epoch of a signed cursor.
THEOREM LexicalCacheTransparent ==
    ASSUME ~Signed \/ OnePageTexts, OneTextActor
    PROVE  Spec => []CacheIsTransparent
<1>1. QueryInit => ReadsInv /\ CacheInv /\ PlainTexts
  <2>1. QueryInit => CacheInv /\ PlainTexts
    BY DEF QueryInit, CacheInv, PlainTexts, NoReader
  <2> QED BY <2>1, SealedInit, CursorsInit DEF ReadsInv
<1>2. SegmentsInv /\ ReadsInv /\ CacheInv /\ PlainTexts /\ [Next]_vars
        => CacheInv' /\ PlainTexts'
  BY CacheStep, PlainTextsStep
<1>3. CacheInv => CacheIsTransparent
  <2> SUFFICES ASSUME CacheInv, NEW q \in QueryReads, q.text # {}, Cached(q) # 0
               PROVE  LET docs == Documents(q, man.epoch)
                      IN  LexicalScores(q, docs) = ScoreCorpus(q.text, docs)
    BY DEF CacheIsTransparent
  <2>1. PICK i, docs : i = Cached(q) /\ docs = Documents(q, man.epoch)
    OBVIOUS
  <2>2. cache \in Seq(EntriesOf(man, hot, Recs)) /\ Len(cache) \in Nat
    BY DEF CacheInv
  <2>3. i \in 1..Len(cache) /\ cache[i].key = CacheKey(q)
    BY <2>1, <2>2, CachedEntry
  <2>4. cache[i] \in EntriesOf(man, hot, Recs)
    BY <2>2, <2>3
  <2>5. PICK r \in TextReads :
          cache[i] = [key |-> [epoch |-> man.epoch, gen |-> man.gen, grp |-> r.grp],
                      corpus |-> Prepared(r.text, DocumentsOf(r.user, r.grp, hot, Recs, man.epoch))]
    BY <2>4 DEF EntriesOf
  <2>6. q \in TextReads
    BY DEF QueryReads, TextReads
  <2>7. r.grp = q.grp /\ r.user = q.user
    BY <2>3, <2>5, <2>6 DEF CacheKey, OneTextActor
  <2>8. cache[i].corpus = Prepared(r.text, docs)
    BY <2>1, <2>5, <2>7, DocumentsFrom DEF DocumentsAre
  <2>9. ScoreQuery(q.text, cache[i].corpus) = ScoreCorpus(q.text, docs)
    BY <2>8, PreparedScoresAgree
  <2>10. LexicalScores(q, docs) = ScoreCorpus(q.text, docs)
    BY <2>1, <2>9 DEF LexicalScores
  <2> QED BY <2>1, <2>10
<1> QED BY <1>1, <1>2, <1>3, ReadsStep, SegmentsInit, SegmentsStep, PTL DEF Spec
=============================================================================
