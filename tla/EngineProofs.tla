---------------------------- MODULE EngineProofs ----------------------------
(* Machine-checked proofs about Engine, for every value of its constants. *)
EXTENDS Engine, SequenceTheorems, TLAPS

-----------------------------------------------------------------------------
(* Facts about the operators *)

\* A prefix of a WAL is a WAL.
LEMMA SubSeqType ==
    ASSUME NEW w \in Seq(Frame), NEW n \in 0..Len(w)
    PROVE  /\ SubSeq(w, 1, n) \in Seq(Frame)
           /\ Len(SubSeq(w, 1, n)) = n
           /\ \A i \in 1..n : SubSeq(w, 1, n)[i] = w[i]
  <1>1. \A i \in 1..n : w[i] \in Frame
    OBVIOUS
  <1>2. 1 \in Int /\ n \in Int /\ n >= 0
    OBVIOUS
  <1> QED
    BY <1>1, <1>2, SubSeqProperties

\* The fields of a frame, and the commit it holds.
LEMMA FrameFields ==
    ASSUME NEW f \in Frame
    PROVE  /\ f.epoch \in Epoch /\ f.op \in Op /\ f.prev \in Op
           /\ f.whole \in BOOLEAN
           /\ CommitOf(f) \in Commit
           /\ [f EXCEPT !.whole = FALSE] \in Frame
  BY DEF Frame, Commit, CommitOf

\* The tail cache computed from a scan has its type.
LEMMA TailType ==
    ASSUME NEW w \in Seq(Frame), NEW n \in 0..Len(w)
    PROVE  TailFromScan(w, n) \in [len : Nat, last : Epoch, prev : Op]
  <1>1. CASE n = 0
    BY <1>1, BoundsAssumption DEF TailFromScan, Epoch, Op
  <1>2. CASE n # 0
    <2>1. w[n] \in Frame
      BY <1>2
    <2>2. w[n].epoch \in Epoch /\ w[n].op \in Op /\ Len(w) \in Nat
      BY <2>1 DEF Frame
    <2> QED
      BY <1>2, <2>2 DEF TailFromScan
  <1> QED
    BY <1>1, <1>2

\* The tail cache of an empty file.
LEMMA EmptyTail ==
    /\ TailFromScan(<<>>, 0) = [len |-> 0, last |-> 0, prev |-> 0]
    /\ TailFromScan(<<>>, 0) \in [len : Nat, last : Epoch, prev : Op]
  BY BoundsAssumption DEF TailFromScan, Epoch, Op

\* The manifests that open, a commit and a checkpoint write.
LEMMA ManifestUpdates ==
    ASSUME NEW m \in Manifest, NEW e \in Epoch
    PROVE  /\ AtEpoch(m, e) \in Manifest
           /\ AtCheckpoint(m, e) \in Manifest
           /\ m.latest \in Epoch /\ m.chk \in Epoch /\ m.gen \in Nat
  BY DEF Manifest, AtEpoch, AtCheckpoint

\* Cutting the last frame off leaves the others.
LEMMA TornType ==
    ASSUME NEW w \in Seq(Frame), NEW k \in 1..Len(w)
    PROVE  /\ Torn(w, k) \in Seq(Frame)
           /\ Len(Torn(w, k)) = k
           /\ \A i \in 1..(k-1) : Torn(w, k)[i] = w[i]
           /\ Torn(w, k)[k] = [w[k] EXCEPT !.whole = FALSE]
  <1>1. \A i \in 1..k : w[i] \in Frame /\ [w[i] EXCEPT !.whole = FALSE] \in Frame
    BY FrameFields
  <1>2. Torn(w, k) \in [1..k -> Frame]
    BY <1>1 DEF Torn
  <1>3. k \in Nat
    OBVIOUS
  <1>4. Torn(w, k) \in Seq(Frame) /\ Len(Torn(w, k)) = k
    BY <1>2, <1>3
  <1> QED
    BY <1>3, <1>4 DEF Torn

\* Recovery rebuilds a set of commits.
LEMMA ReplayedType ==
    ASSUME TypeOK, NEW m \in Manifest, NEW n \in 0..Len(wal)
    PROVE  Replayed(m, wal, n) \in SUBSET Commit
  <1>1. \A j \in 1..n : CommitOf(wal[j]) \in Commit
    <2>1. \A j \in 1..n : wal[j] \in Frame
      BY DEF TypeOK
    <2> QED
      BY <2>1, FrameFields
  <1>2. chk[m.chk] \in SUBSET Commit
    BY DEF TypeOK, Manifest
  <1> QED
    BY <1>1, <1>2 DEF Replayed, LoadCheckpoint

\* read_manifest returns a manifest.
LEMMA ReadManifestType ==
    ASSUME TypeOK PROVE ReadManifest \in Manifest
  BY DEF TypeOK, ReadManifest

\* The frame an append writes has its type while there are epochs left.
LEMMA NewFrameType ==
    ASSUME TypeOK, mem.latest < MaxEpoch, NEW b \in BOOLEAN
    PROVE  /\ NewFrame(b) \in Frame
           /\ CommitOf(NewFrame(b)) \in Commit
           /\ Append(wal, NewFrame(b)) \in Seq(Frame)
           /\ Len(Append(wal, NewFrame(b))) = Len(wal) + 1
  <1>1. mem.latest \in 0..MaxEpoch /\ ops \in Op /\ tail.prev \in Op
    BY DEF TypeOK, Manifest, Epoch
  <1>2. mem.latest + 1 \in Epoch
    BY <1>1, BoundsAssumption DEF Epoch
  <1>3. NewFrame(b) \in Frame
    BY <1>1, <1>2 DEF NewFrame, Frame
  <1>4. CommitOf(NewFrame(b)) \in Commit
    BY <1>3, FrameFields
  <1> QED
    BY <1>3, <1>4 DEF TypeOK

-----------------------------------------------------------------------------
(* Type correctness *)

\* TypeOK is not inductive alone: an append needs an epoch below the bound,
\* which BeginWrite has checked.
TypeInv ==
    /\ TypeOK
    /\ pc = "append" => mem.latest < MaxEpoch

\* The state an empty directory starts in has its type.
LEMMA TypeInit == Init => TypeInv
  BY BoundsAssumption
  DEF Init, TypeInv, TypeOK, NoManifest, Manifest, Epoch, Op, Commit

\* Every step preserves it.
LEMMA TypeStep == TypeInv /\ [Next]_vars => TypeInv'
  <1> SUFFICES ASSUME TypeInv, [Next]_vars PROVE TypeInv'
    OBVIOUS
  <1> USE DEF TypeInv
  <1>0. ReadManifest \in Manifest
    BY ReadManifestType
  <1>1. CASE CreateManifest
    BY SMTT(30), <1>1, BoundsAssumption
    DEF CreateManifest, TypeOK, EmptyManifest, Manifest, Epoch, handle, counters
  <1>2. CASE Open
    <2>1. PICK n \in 0..Len(wal) :
            LET m == ReadManifest
                last == IF n = 0 THEN 0 ELSE wal[n].epoch
                behind == last > m.chk /\ last > m.latest
            IN  /\ wal' = SubSeq(wal, 1, n)
                /\ synced' = IF n < Len(wal) THEN n ELSE synced
                /\ tail' = TailFromScan(SubSeq(wal, 1, n), n)
                /\ store' = Replayed(m, wal, n)
                /\ mem' = IF behind THEN AtEpoch(m, last) ELSE m
                /\ pend' = mem'
                /\ pc' = IF behind THEN "backup" ELSE "idle"
      BY <1>2 DEF Open
    <2>2. wal' \in Seq(Frame) /\ Len(wal') = n
      BY <2>1, SubSeqType DEF TypeOK
    <2>3. synced' \in 0..Len(wal')
      BY <2>1, <2>2 DEF TypeOK
    <2>4. tail' \in [len : Nat, last : Epoch, prev : Op]
      <3>1. n \in 0..Len(wal')
        BY <2>2
      <3> QED
        BY <2>1, <2>2, <3>1, TailType
    <2>5. store' \in SUBSET Commit
      BY <1>0, <2>1, ReplayedType
    <2>6. (IF n = 0 THEN 0 ELSE wal[n].epoch) \in Epoch
      <3>1. CASE n = 0
        BY <3>1, BoundsAssumption DEF Epoch
      <3>2. CASE n # 0
        <4>1. wal[n] \in Frame
          BY <3>2 DEF TypeOK
        <4> QED
          BY <3>2, <4>1, FrameFields
      <3> QED
        BY <3>1, <3>2
    <2>7. mem' \in Manifest
      BY <1>0, <2>1, <2>6, ManifestUpdates
    <2> QED
      BY <1>2, <2>1, <2>2, <2>3, <2>4, <2>5, <2>7 DEF Open, TypeOK, counters
  <1>3. CASE OpenFails
    BY <1>3 DEF OpenFails, TypeOK, disk, handle, counters
  <1>4. CASE CopyBackup
    BY <1>4 DEF CopyBackup, TypeOK, handle, counters
  <1>5. CASE PublishManifest
    <2>1. CommitAt(pend.latest) \in SUBSET Commit
      BY DEF CommitAt, TypeOK
    <2> QED
      BY <1>5, <2>1 DEF PublishManifest, TypeOK, handle
  <1>6. CASE ManifestWriteFails
    BY <1>6 DEF ManifestWriteFails, TypeOK, handle, counters
  <1>7. CASE BeginWrite
    <2>1. tail' \in [len : Nat, last : Epoch, prev : Op]
      <3>1. CASE tail.len = Len(wal)
        BY <1>7, <3>1 DEF BeginWrite, TailMayBe, TypeOK
      <3>2. CASE tail.len # Len(wal)
        BY <1>7, <3>2, TailType DEF BeginWrite, TailMayBe, TypeOK
      <3> QED
        BY <3>1, <3>2
    <2>2. ops' \in Op
      BY <1>7, BoundsAssumption DEF BeginWrite, TypeOK, Op
    <2> QED
      BY <1>7, <2>1, <2>2 DEF BeginWrite, TypeOK, disk
  <1>8. CASE WriteRefused
    <2>1. tail' \in [len : Nat, last : Epoch, prev : Op]
      <3>1. CASE tail.len = Len(wal)
        BY <1>8, <3>1 DEF WriteRefused, TailMayBe, TypeOK
      <3>2. CASE tail.len # Len(wal)
        BY <1>8, <3>2, TailType DEF WriteRefused, TailMayBe, TypeOK
      <3> QED
        BY <3>1, <3>2
    <2> QED
      BY <1>8, <2>1 DEF WriteRefused, TypeOK, disk, counters
  <1>9. CASE AppendCommit
    <2>1. mem.latest < MaxEpoch
      BY <1>9 DEF AppendCommit
    <2>2. /\ NewFrame(TRUE) \in Frame
          /\ CommitOf(NewFrame(TRUE)) \in Commit
          /\ wal' \in Seq(Frame)
          /\ Len(wal') = Len(wal) + 1
      BY <1>9, <2>1, NewFrameType DEF AppendCommit
    <2>3. mem.latest + 1 \in Epoch
      <3>1. mem.latest \in 0..MaxEpoch
        BY DEF TypeOK, Manifest, Epoch
      <3> QED
        BY <2>1, <3>1, BoundsAssumption DEF Epoch
    <2>4. mem' \in Manifest
      BY <1>9, <2>3, ManifestUpdates DEF AppendCommit, TypeOK
    <2>5. tail' \in [len : Nat, last : Epoch, prev : Op]
      BY <1>9, <2>3 DEF AppendCommit, TypeOK
    <2>6. synced' \in 0..Len(wal')
      BY <1>9, <2>2 DEF AppendCommit, TypeOK
    <2> QED
      BY <1>9, <2>2, <2>4, <2>5, <2>6 DEF AppendCommit, TypeOK, counters
  <1>10. CASE AppendSyncFails
    <2>1. wal' \in Seq(Frame) /\ Len(wal') = Len(wal) + 1
      BY <1>10, NewFrameType DEF AppendSyncFails
    <2>2. synced' \in 0..Len(wal')
      BY <1>10, <2>1 DEF AppendSyncFails, TypeOK
    <2> QED
      BY <1>10, <2>1, <2>2 DEF AppendSyncFails, TypeOK, handle, counters
  <1>11. CASE AppendShortWrite
    <2>1. wal' \in Seq(Frame) /\ Len(wal') = Len(wal) + 1
      BY <1>11, NewFrameType DEF AppendShortWrite
    <2>2. synced' \in 0..Len(wal')
      BY <1>11, <2>1 DEF AppendShortWrite, TypeOK
    <2> QED
      BY <1>11, <2>1, <2>2 DEF AppendShortWrite, TypeOK, handle, counters
  <1>12. CASE BeginCheckpoint
    <2>1. pend' \in Manifest
      <3>1. mem.latest \in Epoch
        BY ManifestUpdates DEF TypeOK, Manifest
      <3>2. AtCheckpoint(ReadManifest, mem.latest) \in Manifest
        BY <1>0, <3>1, ManifestUpdates
      <3> QED
        BY <1>12, <3>2 DEF BeginCheckpoint, CheckpointWritten, TypeOK
    <2>2. chk' \in [Epoch -> SUBSET Commit]
      BY <1>12 DEF BeginCheckpoint, CheckpointWritten, TypeOK
    <2>3. ckpts' \in 0..MaxCheckpoints
      BY <1>12, BoundsAssumption DEF BeginCheckpoint, CheckpointWritten, TypeOK
    <2> QED
      BY <1>12, <2>1, <2>2, <2>3 DEF BeginCheckpoint, CheckpointWritten, TypeOK
  <1>13. CASE TruncateWal
    <2>1. tail' \in [len : Nat, last : Epoch, prev : Op]
      BY <1>13, EmptyTail DEF TruncateWal
    <2> QED
      BY <1>13, <2>1 DEF TruncateWal, TypeOK, counters
  <1>14. CASE TruncateFails
    <2>1. wal' \in Seq(Frame) /\ synced' \in 0..Len(wal')
      <3>1. CASE UNCHANGED <<wal, synced>>
        BY <3>1 DEF TypeOK
      <3>2. CASE wal' = <<>> /\ synced' = 0
        BY <3>2
      <3> QED
        BY <1>14, <3>1, <3>2 DEF TruncateFails
    <2> QED
      BY <1>14, <2>1 DEF TruncateFails, TypeOK, handle, counters
  <1>15. ASSUME NEW w \in Seq(Frame), NEW s \in 0..Len(w), CrashTo(w, s)
         PROVE  TypeInv'
    <2>1. tail' \in [len : Nat, last : Epoch, prev : Op]
      BY <1>15, EmptyTail DEF CrashTo
    <2>2. NoManifest \in Manifest
      BY BoundsAssumption DEF NoManifest, Manifest, Epoch
    <2>3. restarts' \in 0..MaxRestarts
      BY <1>15, BoundsAssumption DEF CrashTo, TypeOK
    <2> QED
      BY <1>15, <2>1, <2>2, <2>3 DEF CrashTo, TypeOK
  <1>16. \A w \in InFlight : w \in Seq(Frame) /\ Len(w) >= Len(wal)
    BY NewFrameType DEF InFlight, TypeOK
  <1>17. CASE Crash
    <2>1. PICK w \in InFlight : CrashTo(w, synced)
      BY <1>17 DEF Crash
    <2>2. synced \in 0..Len(w)
      BY <1>16 DEF TypeOK
    <2> QED
      BY <1>15, <1>16, <2>1, <2>2
  <1>18. CASE PowerLoss
    <2>0. PICK w \in InFlight : \E k \in synced..Len(w) :
            \/ CrashTo(SubSeq(w, 1, k), k)
            \/ k > synced /\ CrashTo(Torn(w, k), k)
      BY <1>18 DEF PowerLoss
    <2>1. PICK k \in synced..Len(w) :
            \/ CrashTo(SubSeq(w, 1, k), k)
            \/ k > synced /\ CrashTo(Torn(w, k), k)
      BY <2>0
    <2>2. w \in Seq(Frame) /\ k \in 0..Len(w)
      BY <1>16 DEF TypeOK
    <2>3. CASE CrashTo(SubSeq(w, 1, k), k)
      <3>1. SubSeq(w, 1, k) \in Seq(Frame) /\ k \in 0..Len(SubSeq(w, 1, k))
        BY <2>2, SubSeqType
      <3> QED
        BY <1>15, <2>3, <3>1
    <2>4. CASE k > synced /\ CrashTo(Torn(w, k), k)
      <3>1. k \in 1..Len(w)
        BY <2>2, <2>4 DEF TypeOK
      <3>2. Torn(w, k) \in Seq(Frame) /\ Len(Torn(w, k)) = k
        BY <2>2, <3>1, TornType
      <3>3. k \in 0..k
        BY <3>1
      <3> QED
        BY <1>15, <2>4, <3>2, <3>3
    <2> QED
      BY <2>1, <2>3, <2>4
  <1>19. CASE CorruptManifest
    BY <1>19 DEF CorruptManifest, TypeOK, Manifest, handle, counters
  <1>20. CASE UNCHANGED vars
    BY <1>20 DEF vars, TypeOK
  <1> QED
    BY <1>1, <1>2, <1>3, <1>4, <1>5, <1>6, <1>7, <1>8, <1>9, <1>10, <1>11,
       <1>12, <1>13, <1>14, <1>17, <1>18, <1>19, <1>20 DEF Next

\* Every variable keeps its type, whatever the bounds and the faults.
THEOREM TypeCorrect == Spec => []TypeOK
  <1>1. TypeInv => TypeOK
    BY DEF TypeInv
  <1> QED
    BY <1>1, TypeInit, TypeStep, PTL DEF Spec

-----------------------------------------------------------------------------
(* Durability *)

\* The faults the engine is meant to survive: everything but a short write in
\* a process that lives on, and a manifest corrupted from outside.
TolerableFaults == Faults \cap {"short_write", "manifest_corruption"} = {}

\* An empty directory satisfies the invariant.
LEMMA DurabilityInit == Init => DurabilityInv
  BY DEF Init, DurabilityInv, WalShape, ChainedWal, TailCurrent, ManifestShape,
         HandleShape, CommitsKept, Running, NoManifest

\* With the manifest readable, read_manifest does not look at the backup.
LEMMA ReadsPrimary ==
    ASSUME ManifestShape PROVE ReadManifest = man
  BY DEF ManifestShape, ReadManifest

\* A scan that does not fail reads every whole frame.
LEMMA ScanIsComplete ==
    ASSUME TypeOK, WalShape, NEW n \in 0..Len(wal), ScansTo(wal, n),
           NEW i \in 1..Len(wal), wal[i].whole
    PROVE  i <= n
  <1> SUFFICES ASSUME i > n PROVE FALSE
    OBVIOUS
  <1>0. Len(wal) \in Nat /\ n \in Nat /\ i \in Nat
    BY DEF TypeOK
  <1>1. n < Len(wal)
    BY <1>0
  <1>2. ~wal[n+1].whole
    BY <1>1 DEF ScansTo
  <1>3. n + 1 \in 1..Len(wal)
    BY <1>0, <1>1
  <1>4. n + 1 = Len(wal)
    BY <1>0, <1>2, <1>3 DEF WalShape
  <1> QED
    BY <1>0, <1>2, <1>4

\* Creating the first manifest.
LEMMA CreateKeeps ==
    ASSUME TypeOK, DurabilityInv, CreateManifest PROVE DurabilityInv'
  <1> USE DEF DurabilityInv
  <1>1. WalShape' /\ TailCurrent'
    BY DEF CreateManifest, WalShape, ChainedWal, TailCurrent, TailFromScan,
           Running, handle, counters
  <1>2. ManifestShape'
    BY DEF CreateManifest, ManifestShape, EmptyManifest, Running, handle, counters
  <1>3. HandleShape'
    BY DEF CreateManifest, HandleShape, Running, handle, counters
  <1>4. CommitsKept'
    BY DEF CreateManifest, CommitsKept, ManifestShape, Running, handle, counters
  <1> QED
    BY <1>1, <1>2, <1>3, <1>4

\* Recovery: a torn tail is cut off, and the store rebuilt is what is on disk.
LEMMA OpenKeeps ==
    ASSUME TypeOK, TypeOK', DurabilityInv, Open PROVE DurabilityInv'
  <1> USE DEF DurabilityInv
  <1>0. ReadManifest = man /\ man \in Manifest
    BY ReadsPrimary DEF TypeOK
  <1> DEFINE Last(n) == IF n = 0 THEN 0 ELSE wal[n].epoch
             Behind(n) == Last(n) > man.chk /\ Last(n) > man.latest
  <1>1. PICK n \in 0..Len(wal) :
          /\ ScansTo(wal, n)
          /\ wal' = SubSeq(wal, 1, n)
          /\ synced' = IF n < Len(wal) THEN n ELSE synced
          /\ tail' = TailFromScan(SubSeq(wal, 1, n), n)
          /\ store' = Replayed(man, wal, n)
          /\ mem' = IF Behind(n) THEN AtEpoch(man, Last(n)) ELSE man
          /\ pend' = mem'
          /\ pc' = IF Behind(n) THEN "backup" ELSE "idle"
    BY <1>0 DEF Open
  <1>2. /\ UNCHANGED <<man, bak, chk, acked>> /\ why' = "open"
        /\ man.state = "ok" /\ Running'
    BY <1>0, <1>1 DEF Open, counters, Running, ManifestShape
  <1>3. /\ Len(wal') = n
        /\ \A i \in 1..n : wal'[i] = wal[i]
        /\ n \in Nat /\ Len(wal) \in Nat /\ synced \in 0..Len(wal)
    BY <1>1, SubSeqType DEF TypeOK
  <1>4. WalShape'
    <2>1. \A i \in 1..n : wal'[i].whole
      BY <1>1, <1>3 DEF ScansTo
    <2>2. \A i \in 1..n : wal'[i].prev = IF i = 1 THEN 0 ELSE wal'[i-1].op
      BY <1>1, <1>3 DEF ScansTo
    <2> QED
      BY <1>3, <2>1, <2>2 DEF WalShape, ChainedWal
  <1>5. TailCurrent'
    <2>1. tail' = TailFromScan(wal', Len(wal')) /\ pc' # "append"
      BY <1>1, <1>3
    <2>2. tail'.len = 0 => tail' = TailFromScan(<<>>, 0)
      BY <2>1 DEF TailFromScan
    <2> QED
      BY <2>1, <2>2 DEF TailCurrent
  <1>6. ManifestShape'
    BY <1>2 DEF ManifestShape
  <1>7. HandleShape'
    <2>1. /\ mem'.state = "ok" /\ mem'.chk = man.chk /\ mem'.chk <= mem'.latest
          /\ pend' = mem'
      <3>1. CASE Behind(n)
        <4>1. mem' = AtEpoch(man, Last(n)) /\ Last(n) > man.chk
          BY <1>1, <3>1
        <4>2. Last(n) \in Int /\ man.chk \in Int
          <5>1. mem'.latest \in Epoch /\ mem'.latest = Last(n)
            BY <4>1 DEF TypeOK, Manifest, AtEpoch
          <5>2. man.chk \in Epoch
            BY <1>0 DEF Manifest
          <5> QED
            BY <5>1, <5>2, BoundsAssumption DEF Epoch
        <4> QED
          BY <1>1, <1>2, <4>1, <4>2 DEF AtEpoch
      <3>2. CASE ~Behind(n)
        BY <1>1, <1>2, <3>2 DEF ManifestShape
      <3> QED
        BY <3>1, <3>2
    <2>2. man'.chk = man.chk /\ man.chk <= man.chk
      BY <1>0, <1>2, BoundsAssumption DEF Manifest, Epoch
    <2> QED
      BY <1>1, <1>2, <2>1, <2>2 DEF HandleShape, Running
  <1>8. CommitsKept'
    <2>1. ASSUME NEW c, OnDisk(c, Len(wal)) PROVE c \in store'
      <3>1. CASE c \in chk[man.chk]
        BY <1>1, <3>1 DEF Replayed, LoadCheckpoint
      <3>2. CASE c \notin chk[man.chk]
        <4>1. PICK i \in 1..Len(wal) : wal[i].whole /\ wal[i].epoch > man.chk
                                            /\ c = CommitOf(wal[i])
          BY <2>1, <3>2 DEF OnDisk
        <4>2. i <= n
          BY <1>1, <4>1, ScanIsComplete
        <4>3. i \in 1..n
          BY <1>3, <4>1, <4>2
        <4> QED
          BY <1>1, <4>1, <4>3 DEF Replayed, LoadCheckpoint
      <3> QED
        BY <3>1, <3>2
    <2>2. \A c \in acked : OnDisk(c, Len(wal))
      <3>1. 1..synced \subseteq 1..Len(wal)
        BY <1>3
      <3> QED
        BY <3>1 DEF CommitsKept, OnDisk
    <2>3. \A c \in acked' : OnDisk(c, synced)'
      <3> SUFFICES ASSUME NEW c \in acked, c \notin chk[man.chk]
                   PROVE  \E i \in 1..synced' : wal'[i].whole
                            /\ wal'[i].epoch > man.chk /\ c = CommitOf(wal'[i])
        BY <1>2 DEF OnDisk
      <3>1. PICK i \in 1..synced : wal[i].whole /\ wal[i].epoch > man.chk
                                       /\ c = CommitOf(wal[i])
        BY DEF CommitsKept, OnDisk
      <3>2. i <= n
        <4>1. i \in 1..Len(wal)
          BY <1>3, <3>1
        <4> QED
          BY <1>1, <3>1, <4>1, ScanIsComplete
      <3>3. i \in 1..synced' /\ i \in 1..n
        BY <1>1, <1>3, <3>1, <3>2
      <3> QED
        BY <1>3, <3>1, <3>3
    <2>4. \A c \in store' : OnDisk(c, Len(wal))'
      <3> SUFFICES ASSUME NEW c \in store', c \notin chk[man.chk]
                   PROVE  \E i \in 1..n : wal'[i].whole
                            /\ wal'[i].epoch > man.chk /\ c = CommitOf(wal'[i])
        BY <1>2, <1>3 DEF OnDisk
      <3>1. PICK i \in 1..n : wal[i].epoch > man.chk /\ c = CommitOf(wal[i])
        BY <1>1 DEF Replayed, LoadCheckpoint
      <3>2. wal[i].whole
        BY <1>1, <3>1 DEF ScansTo
      <3> QED
        BY <1>3, <3>1, <3>2
    <2> QED
      BY <1>2, <2>1, <2>2, <2>3, <2>4 DEF CommitsKept
  <1> QED
    BY <1>4, <1>5, <1>6, <1>7, <1>8

\* Writing the backup.
LEMMA BackupKeeps ==
    ASSUME TypeOK, DurabilityInv, CopyBackup PROVE DurabilityInv'
  <1> USE DEF DurabilityInv, CopyBackup, handle, counters
  <1>1. WalShape' /\ TailCurrent'
    BY DEF WalShape, ChainedWal, TailCurrent, TailFromScan, Running
  <1>2. ManifestShape' /\ HandleShape'
    BY DEF ManifestShape, HandleShape, Running
  <1>3. CommitsKept'
    BY DEF CommitsKept, OnDisk, Running
  <1> QED
    BY <1>1, <1>2, <1>3

\* The manifest being written takes the place of the old one: for a checkpoint
\* the store it names holds every acknowledged commit, otherwise what it names
\* is what the old one named.
LEMMA PublishKeepsCommits ==
    ASSUME TypeOK, DurabilityInv, pc \in {"backup", "publish"},
           man' = pend, UNCHANGED <<wal, synced, chk, store>>
    PROVE  /\ \A c \in acked : OnDisk(c, synced)'
           /\ \A c \in store : OnDisk(c, Len(wal))'
  <1> USE DEF DurabilityInv
  <1>0. Running
    BY DEF Running
  <1>1. CASE why = "checkpoint"
    <2>1. chk'[man'.chk] = store
      BY <1>1 DEF HandleShape
    <2> QED
      BY <1>0, <2>1 DEF CommitsKept, OnDisk
  <1>2. CASE why # "checkpoint"
    <2>1. man'.chk = man.chk
      BY <1>2 DEF HandleShape
    <2> QED
      BY <1>0, <2>1 DEF CommitsKept, OnDisk
  <1> QED
    BY <1>1, <1>2

\* The rename, and the acknowledgement of a commit.
LEMMA PublishKeeps ==
    ASSUME TypeOK, TypeOK', DurabilityInv, PublishManifest PROVE DurabilityInv'
  <1> USE DEF DurabilityInv, PublishManifest, handle
  <1>0. Running /\ Running'
    BY DEF Running
  <1>1. WalShape' /\ TailCurrent'
    BY DEF WalShape, ChainedWal, TailCurrent, TailFromScan, Running
  <1>2. ManifestShape'
    BY DEF ManifestShape, HandleShape, Running
  <1>3. HandleShape'
    BY DEF HandleShape, ManifestShape, Running
  <1>4. CommitsKept'
    <2>1. /\ \A c \in acked : OnDisk(c, synced)'
          /\ \A c \in store : OnDisk(c, Len(wal))'
      BY PublishKeepsCommits
    <2>2. acked' \subseteq store'
      BY <1>0 DEF CommitsKept, CommitAt
    <2>3. CASE why = "commit"
      <3>1. synced' = Len(wal')
        BY <2>3 DEF HandleShape
      <3>2. store' = store
        OBVIOUS
      <3>3. \A c \in acked' : OnDisk(c, Len(wal))'
        BY <2>1, <2>2, <3>2
      <3>4. \A c \in acked' : OnDisk(c, synced)'
        BY <3>1, <3>3 DEF OnDisk
      <3> QED
        BY <2>1, <2>2, <3>2, <3>4 DEF CommitsKept
    <2>4. CASE why # "commit"
      BY <2>1, <2>2, <2>4 DEF CommitsKept
    <2> QED
      BY <2>3, <2>4
  <1> QED
    BY <1>1, <1>2, <1>3, <1>4

\* A manifest write that fails, before the rename or after it.
LEMMA WriteFailKeeps ==
    ASSUME TypeOK, TypeOK', DurabilityInv, ManifestWriteFails
    PROVE  DurabilityInv'
  <1> USE DEF DurabilityInv, ManifestWriteFails, handle, counters
  <1>0. Running /\ (man' = man \/ man' = pend)
    BY DEF Running
  <1>1. WalShape' /\ TailCurrent'
    BY DEF WalShape, ChainedWal, TailCurrent, TailFromScan, Running
  <1>2. ManifestShape'
    BY <1>0 DEF ManifestShape, HandleShape, Running
  <1>3. HandleShape'
    BY <1>0 DEF HandleShape, ManifestShape, Running
  <1>4. CommitsKept'
    <2>1. CASE man' = pend
      BY <1>0, <2>1, PublishKeepsCommits DEF CommitsKept
    <2>2. CASE man' = man
      BY <1>0, <2>2 DEF CommitsKept, OnDisk
    <2> QED
      BY <1>0, <2>1, <2>2
  <1> QED
    BY <1>1, <1>2, <1>3, <1>4

\* Refreshing the tail cache gives the tail of the file.
LEMMA TailRefreshed ==
    ASSUME TypeOK, DurabilityInv, Running, NEW t, TailMayBe(t)
    PROVE  t = TailFromScan(wal, Len(wal))
  <1>1. CASE tail.len = Len(wal)
    BY <1>1 DEF TailMayBe, DurabilityInv, TailCurrent
  <1>2. CASE tail.len # Len(wal)
    <2>1. PICK n \in 0..Len(wal) : ScansTo(wal, n) /\ t = TailFromScan(wal, n)
      BY <1>2 DEF TailMayBe
    <2>2. n = Len(wal)
      <3>1. Len(wal) \in Nat
        BY DEF TypeOK
      <3>2. CASE Len(wal) = 0
        BY <3>2
      <3>3. CASE Len(wal) # 0
        <4>1. wal[Len(wal)].whole /\ Len(wal) \in 1..Len(wal)
          BY <3>1, <3>3 DEF DurabilityInv, WalShape
        <4>2. Len(wal) <= n
          BY <2>1, <4>1, ScanIsComplete DEF DurabilityInv
        <4> QED
          BY <3>1, <4>2
      <3> QED
        BY <3>2, <3>3
    <2> QED
      BY <2>1, <2>2
  <1> QED
    BY <1>1, <1>2

\* Starting a write: a handle that is not stale agrees with the disk.
LEMMA BeginWriteKeeps ==
    ASSUME TypeOK, TypeOK', DurabilityInv, BeginWrite PROVE DurabilityInv'
  <1> USE DEF DurabilityInv
  <1>0. /\ Running /\ Running' /\ pc' = "append"
        /\ UNCHANGED <<wal, synced, man, bak, chk, mem, store, pend, why, acked>>
    BY DEF BeginWrite, Running, disk
  <1>1. tail' = TailFromScan(wal, Len(wal))
    BY <1>0, TailRefreshed DEF BeginWrite
  <1>2. WalShape' /\ TailCurrent'
    BY <1>0, <1>1 DEF WalShape, ChainedWal, TailCurrent, TailFromScan
  <1>3. ManifestShape'
    BY <1>0 DEF ManifestShape
  <1>4. HandleShape'
    <2>1. ~(man.latest > mem.latest) /\ ~(man.chk > mem.chk)
      BY ReadsPrimary DEF BeginWrite, Stale
    <2>2. /\ man.latest \in Int /\ man.chk \in Int
          /\ mem.latest \in Int /\ mem.chk \in Int
      BY BoundsAssumption DEF TypeOK, Manifest, Epoch
    <2>3. mem.chk <= man.chk
      BY <1>0 DEF HandleShape
    <2>4. mem.chk = man.chk /\ man.latest <= mem.latest
      BY <2>1, <2>2, <2>3
    <2> QED
      BY <1>0, <2>4 DEF HandleShape
  <1>5. CommitsKept'
    BY <1>0 DEF CommitsKept, OnDisk
  <1> QED
    BY <1>2, <1>3, <1>4, <1>5

\* A refused write only refreshes the tail cache.
LEMMA RefusedKeeps ==
    ASSUME TypeOK, DurabilityInv, WriteRefused PROVE DurabilityInv'
  <1> USE DEF DurabilityInv
  <1>0. /\ Running /\ Running' /\ pc' = "idle"
        /\ UNCHANGED <<wal, synced, man, bak, chk, mem, store, pend, why, acked>>
    BY DEF WriteRefused, Running, disk, counters
  <1>1. tail' = TailFromScan(wal, Len(wal))
    BY <1>0, TailRefreshed DEF WriteRefused
  <1>2. WalShape' /\ TailCurrent'
    BY <1>0, <1>1 DEF WalShape, ChainedWal, TailCurrent, TailFromScan
  <1>3. ManifestShape' /\ HandleShape'
    BY <1>0 DEF ManifestShape, HandleShape
  <1>4. CommitsKept'
    BY <1>0 DEF CommitsKept, OnDisk
  <1> QED
    BY <1>2, <1>3, <1>4

\* What appending a frame does to the file: the frames that were there stay,
\* and the new one is chained and above the checkpoint.
LEMMA AppendFacts ==
    ASSUME TypeInv, DurabilityInv, pc = "append", NEW b \in BOOLEAN
    PROVE  LET w == Append(wal, NewFrame(b))
           IN  /\ w \in Seq(Frame)
               /\ Len(w) = Len(wal) + 1
               /\ \A i \in 1..Len(wal) : w[i] = wal[i]
               /\ w[Len(wal) + 1] = NewFrame(b)
               /\ \A i \in 1..Len(w) :
                    w[i].prev = IF i = 1 THEN 0 ELSE w[i-1].op
               /\ NewFrame(b).epoch > man.chk
               /\ Len(wal) \in Nat
  <1> USE DEF DurabilityInv
  <1> DEFINE w == Append(wal, NewFrame(b))
  <1>0. Len(wal) \in Nat
    BY DEF TypeInv, TypeOK
  <1>1. NewFrame(b) \in Frame /\ w \in Seq(Frame) /\ Len(w) = Len(wal) + 1
    BY NewFrameType DEF TypeInv
  <1>2. (\A i \in 1..Len(wal) : w[i] = wal[i]) /\ w[Len(wal) + 1] = NewFrame(b)
    BY <1>1, AppendProperties DEF TypeInv, TypeOK
  <1>3. tail.prev = IF Len(wal) = 0 THEN 0 ELSE wal[Len(wal)].op
    BY DEF TailCurrent, TailFromScan, Running
  <1>4. ASSUME NEW i \in 1..Len(w)
        PROVE  w[i].prev = IF i = 1 THEN 0 ELSE w[i-1].op
    <2>1. CASE i = Len(wal) + 1
      <3>1. w[i].prev = tail.prev
        BY <1>2, <2>1 DEF NewFrame
      <3>2. CASE i = 1
        BY <1>0, <1>3, <2>1, <3>1, <3>2
      <3>3. CASE i # 1
        <4>1. i - 1 = Len(wal) /\ Len(wal) # 0 /\ i - 1 \in 1..Len(wal)
          BY <1>0, <2>1, <3>3
        <4>2. w[i-1] = wal[Len(wal)]
          BY <1>2, <4>1
        <4> QED
          BY <1>3, <3>1, <3>3, <4>1, <4>2
      <3> QED
        BY <3>2, <3>3
    <2>2. CASE i # Len(wal) + 1
      <3>1. i \in 1..Len(wal)
        BY <1>0, <1>1, <1>4, <2>2
      <3>2. w[i] = wal[i] /\ (i # 1 => w[i-1] = wal[i-1])
        BY <1>0, <1>2, <3>1
      <3> QED
        BY <3>1, <3>2 DEF WalShape, ChainedWal
    <2> QED
      BY <2>1, <2>2
  <1>5. NewFrame(b).epoch > man.chk
    <2>1. man.chk <= man.latest /\ man.latest <= mem.latest
      BY DEF ManifestShape, HandleShape
    <2>2. man.latest \in Int /\ man.chk \in Int /\ mem.latest \in Int
      BY BoundsAssumption DEF TypeInv, TypeOK, Manifest, Epoch
    <2>3. NewFrame(b).epoch = mem.latest + 1
      BY DEF NewFrame
    <2> QED
      BY <2>1, <2>2, <2>3
  <1> QED
    BY <1>0, <1>1, <1>2, <1>4, <1>5

\* What was on disk stays there when a frame is appended.
LEMMA AppendKeepsOnDisk ==
    ASSUME TypeInv, DurabilityInv, pc = "append", NEW b \in BOOLEAN,
           wal' = Append(wal, NewFrame(b)), man' = man, chk' = chk,
           NEW n \in 0..Len(wal), NEW c, OnDisk(c, n)
    PROVE  c \notin chk'[man'.chk] =>
                \E i \in 1..n : wal'[i].whole /\ wal'[i].epoch > man'.chk
                                                  /\ c = CommitOf(wal'[i])
  <1>1. \A i \in 1..Len(wal) : wal'[i] = wal[i]
    BY AppendFacts
  <1>2. Len(wal) \in Nat
    BY DEF TypeInv, TypeOK
  <1>3. 1..n \subseteq 1..Len(wal)
    BY <1>2
  <1> QED
    BY <1>1, <1>3 DEF OnDisk

\* The frame is written and synced, the store and the handle move on.
LEMMA AppendKeeps ==
    ASSUME TypeInv, TypeOK', DurabilityInv, AppendCommit PROVE DurabilityInv'
  <1> USE DEF DurabilityInv
  <1>0. /\ pc = "append" /\ pc' = "backup" /\ Running /\ Running'
        /\ wal' = Append(wal, NewFrame(TRUE)) /\ synced' = Len(wal) + 1
        /\ UNCHANGED <<man, bak, chk, acked>>
        /\ mem' = AtEpoch(mem, mem.latest + 1) /\ pend' = mem' /\ why' = "commit"
        /\ store' = store \cup {CommitOf(NewFrame(TRUE))}
        /\ tail' = [len |-> tail.len + 1, last |-> mem.latest + 1, prev |-> ops]
    BY DEF AppendCommit, Running, counters
  <1>1. /\ wal' \in Seq(Frame) /\ Len(wal') = Len(wal) + 1
        /\ \A i \in 1..Len(wal) : wal'[i] = wal[i]
        /\ wal'[Len(wal) + 1] = NewFrame(TRUE)
        /\ \A i \in 1..Len(wal') :
             wal'[i].prev = IF i = 1 THEN 0 ELSE wal'[i-1].op
        /\ NewFrame(TRUE).epoch > man.chk /\ Len(wal) \in Nat
    BY <1>0, AppendFacts
  <1>2. WalShape'
    <2>1. ASSUME NEW i \in 1..Len(wal') PROVE wal'[i].whole
      <3>1. CASE i = Len(wal) + 1
        BY <1>1, <3>1 DEF NewFrame
      <3>2. CASE i # Len(wal) + 1
        <4>1. i \in 1..Len(wal)
          BY <1>1, <2>1, <3>2
        <4> QED
          BY <1>0, <1>1, <4>1 DEF WalShape
      <3> QED
        BY <3>1, <3>2
    <2> QED
      BY <1>1, <2>1 DEF WalShape, ChainedWal
  <1>3. TailCurrent'
    <2>1. tail.len = Len(wal)
      BY <1>0 DEF TailCurrent
    <2>2. wal'[Len(wal')].epoch = mem.latest + 1 /\ wal'[Len(wal')].op = ops
      BY <1>1 DEF NewFrame
    <2>3. Len(wal') # 0
      BY <1>1
    <2>4. TailFromScan(wal', Len(wal')) = tail'
      BY <1>0, <1>1, <2>1, <2>2, <2>3 DEF TailFromScan
    <2>5. tail'.len # 0
      BY <1>0, <1>1, <2>1
    <2> QED
      BY <1>0, <2>4, <2>5 DEF TailCurrent
  <1>4. ManifestShape'
    BY <1>0 DEF ManifestShape, Running
  <1>5. HandleShape'
    <2>1. mem.chk \in Int /\ mem.latest \in Int /\ man.chk \in Int
      BY BoundsAssumption DEF TypeInv, TypeOK, Manifest, Epoch
    <2>2. /\ mem'.chk = man.chk /\ mem'.latest = mem.latest + 1
          /\ mem'.state = "ok" /\ mem.chk <= mem.latest
      BY <1>0 DEF AtEpoch, HandleShape
    <2>3. mem'.chk <= mem'.latest /\ mem'.chk <= mem'.chk /\ mem'.chk <= man.chk
      BY <1>0, <2>1, <2>2 DEF AtEpoch
    <2> QED
      BY <1>0, <1>1, <2>2, <2>3 DEF HandleShape
  <1>6. CommitsKept'
    <2>0. 0..Len(wal) \subseteq 0..Len(wal') /\ synced \in 0..Len(wal)
            /\ Len(wal) \in 0..Len(wal) /\ synced' = Len(wal')
      BY <1>0, <1>1 DEF TypeInv, TypeOK
    <2>1. ASSUME NEW n \in 0..Len(wal), NEW c, OnDisk(c, n)
          PROVE  OnDisk(c, Len(wal))'
      <3>1. c \notin chk'[man'.chk] =>
              \E i \in 1..n : wal'[i].whole /\ wal'[i].epoch > man'.chk
                                                /\ c = CommitOf(wal'[i])
        BY <1>0, <2>1, AppendKeepsOnDisk
      <3>2. 1..n \subseteq 1..Len(wal')
        BY <1>1, <2>1
      <3> QED
        BY <3>1, <3>2 DEF OnDisk
    <2>2. ASSUME NEW c, c = CommitOf(NewFrame(TRUE)) PROVE OnDisk(c, Len(wal))'
      <3>1. Len(wal) + 1 \in 1..Len(wal')
        BY <1>1
      <3>2. wal'[Len(wal) + 1].whole
        BY <1>1 DEF NewFrame
      <3> QED
        BY <1>0, <1>1, <2>2, <3>1, <3>2 DEF OnDisk
    <2>3. \A c \in acked' : OnDisk(c, Len(wal))'
      BY <1>0, <2>0, <2>1 DEF CommitsKept
    <2>4. \A c \in acked' : OnDisk(c, synced)'
      BY <2>0, <2>3 DEF OnDisk
    <2>5. \A c \in store' : OnDisk(c, Len(wal))'
      BY <1>0, <2>0, <2>1, <2>2 DEF CommitsKept
    <2>6. acked' \subseteq store'
      BY <1>0 DEF CommitsKept
    <2> QED
      BY <2>4, <2>5, <2>6 DEF CommitsKept
  <1> QED
    BY <1>2, <1>3, <1>4, <1>5, <1>6

\* The frame is in the file, nothing else moves.
LEMMA SyncFailKeeps ==
    ASSUME TypeInv, TypeOK', DurabilityInv, AppendSyncFails PROVE DurabilityInv'
  <1> USE DEF DurabilityInv
  <1>0. /\ pc = "append" /\ pc' = "idle" /\ Running /\ Running'
        /\ wal' = Append(wal, NewFrame(TRUE))
        /\ UNCHANGED <<synced, man, bak, chk, mem, store, tail, pend, why, acked>>
    BY DEF AppendSyncFails, Running, handle, counters
  <1>1. /\ wal' \in Seq(Frame) /\ Len(wal') = Len(wal) + 1
        /\ \A i \in 1..Len(wal) : wal'[i] = wal[i]
        /\ wal'[Len(wal) + 1] = NewFrame(TRUE)
        /\ \A i \in 1..Len(wal') :
             wal'[i].prev = IF i = 1 THEN 0 ELSE wal'[i-1].op
        /\ Len(wal) \in Nat
    BY <1>0, AppendFacts
  <1>2. WalShape'
    <2>1. ASSUME NEW i \in 1..Len(wal') PROVE wal'[i].whole
      <3>1. CASE i = Len(wal) + 1
        BY <1>1, <3>1 DEF NewFrame
      <3>2. CASE i # Len(wal) + 1
        <4>1. i \in 1..Len(wal)
          BY <1>1, <2>1, <3>2
        <4> QED
          BY <1>0, <1>1, <4>1 DEF WalShape
      <3> QED
        BY <3>1, <3>2
    <2> QED
      BY <1>1, <2>1 DEF WalShape, ChainedWal
  <1>3. TailCurrent'
    <2>1. tail'.len # Len(wal')
      BY <1>0, <1>1 DEF TailCurrent
    <2> QED
      BY <1>0, <2>1 DEF TailCurrent
  <1>4. ManifestShape' /\ HandleShape'
    BY <1>0 DEF ManifestShape, HandleShape
  <1>5. CommitsKept'
    <2>0. synced \in 0..Len(wal) /\ Len(wal) \in 0..Len(wal)
            /\ 1..Len(wal) \subseteq 1..Len(wal')
      BY <1>1 DEF TypeInv, TypeOK
    <2>1. ASSUME NEW n \in 0..Len(wal), NEW c, OnDisk(c, n)
          PROVE  c \notin chk'[man'.chk] =>
                   \E i \in 1..n : wal'[i].whole /\ wal'[i].epoch > man'.chk
                                                     /\ c = CommitOf(wal'[i])
      BY <1>0, <2>1, AppendKeepsOnDisk
    <2>2. ASSUME NEW c \in acked PROVE OnDisk(c, synced)'
      <3>1. OnDisk(c, synced)
        BY <2>2 DEF CommitsKept
      <3> QED
        BY <1>0, <2>0, <2>1, <3>1 DEF OnDisk
    <2>3. ASSUME NEW c \in store PROVE OnDisk(c, Len(wal))'
      <3>1. OnDisk(c, Len(wal))
        BY <1>0, <2>3 DEF CommitsKept
      <3>2. c \notin chk'[man'.chk] =>
              \E i \in 1..Len(wal) : wal'[i].whole /\ wal'[i].epoch > man'.chk
                                                /\ c = CommitOf(wal'[i])
        BY <2>0, <2>1, <3>1
      <3> QED
        BY <2>0, <3>2 DEF OnDisk
    <2> QED
      BY <1>0, <2>2, <2>3 DEF CommitsKept
  <1> QED
    BY <1>2, <1>3, <1>4, <1>5

\* The checkpoint file holds the live store, so nothing acknowledged is lost
\* even when it overwrites the checkpoint the manifest names.
LEMMA CheckpointKeeps ==
    ASSUME TypeOK, TypeOK', DurabilityInv, BeginCheckpoint PROVE DurabilityInv'
  <1> USE DEF DurabilityInv
  <1>0. /\ pc = "idle" /\ pc' \in {"idle", "backup"} /\ Running /\ Running'
        /\ chk' = [chk EXCEPT ![mem.latest] = store]
        /\ UNCHANGED <<wal, synced, man, bak, mem, store, tail, acked>>
        /\ pc' = "backup" => /\ pend' = AtCheckpoint(man, mem.latest)
                             /\ why' = "checkpoint" /\ man.latest = mem.latest
    BY ReadsPrimary DEF BeginCheckpoint, CheckpointWritten, Running
  <1>1. /\ mem.latest \in Epoch /\ man.chk \in Epoch
        /\ chk \in [Epoch -> SUBSET Commit]
    BY DEF TypeOK, Manifest
  <1>2. WalShape' /\ TailCurrent'
    BY <1>0 DEF WalShape, ChainedWal, TailCurrent, TailFromScan
  <1>3. ManifestShape'
    BY <1>0 DEF ManifestShape
  <1>4. HandleShape'
    <2>1. CASE pc' = "backup"
      <3>1. pend'.chk = mem.latest /\ pend'.latest = mem.latest
                /\ pend'.state = "ok"
        BY <1>0, <2>1 DEF AtCheckpoint, ManifestShape
      <3>2. chk'[pend'.chk] = store'
        BY <1>0, <1>1, <3>1
      <3>3. mem.latest <= mem.latest /\ mem.chk <= mem.latest
        BY <1>0, <1>1, BoundsAssumption DEF Epoch, HandleShape
      <3> QED
        BY <1>0, <2>1, <3>1, <3>2, <3>3 DEF HandleShape
    <2>2. CASE pc' = "idle"
      BY <1>0, <2>2 DEF HandleShape
    <2> QED
      BY <1>0, <2>1, <2>2
  <1>5. CommitsKept'
    <2>1. CASE man.chk = mem.latest
      <3>1. chk'[man'.chk] = store
        BY <1>0, <1>1, <2>1
      <3> QED
        BY <1>0, <3>1 DEF CommitsKept, OnDisk
    <2>2. CASE man.chk # mem.latest
      <3>1. chk'[man'.chk] = chk[man.chk]
        BY <1>0, <1>1, <2>2
      <3> QED
        BY <1>0, <3>1 DEF CommitsKept, OnDisk
    <2> QED
      BY <2>1, <2>2
  <1> QED
    BY <1>2, <1>3, <1>4, <1>5

\* The WAL is emptied once the manifest names a checkpoint with the whole store.
LEMMA TruncateKeeps ==
    ASSUME TypeOK, TypeOK', DurabilityInv, TruncateWal PROVE DurabilityInv'
  <1> USE DEF DurabilityInv
  <1>0. /\ pc = "truncate" /\ pc' = "idle" /\ Running /\ Running'
        /\ wal' = <<>> /\ synced' = 0 /\ tail' = TailFromScan(<<>>, 0)
        /\ mem' = pend /\ UNCHANGED <<man, bak, chk, store, pend, why, acked>>
    BY DEF TruncateWal, Running, counters
  <1>1. WalShape' /\ TailCurrent'
    BY <1>0 DEF WalShape, ChainedWal, TailCurrent, TailFromScan
  <1>2. ManifestShape'
    BY <1>0 DEF ManifestShape
  <1>3. HandleShape'
    <2>1. man.chk \in Int /\ man.latest \in Int
      BY BoundsAssumption DEF TypeOK, Manifest, Epoch
    <2>2. mem' = man /\ man.state = "ok" /\ man.chk <= man.latest
            /\ man.chk <= man.chk
      BY <1>0, <2>1 DEF HandleShape, ManifestShape
    <2> QED
      BY <1>0, <2>2 DEF HandleShape
  <1>4. CommitsKept'
    BY <1>0 DEF CommitsKept, OnDisk, HandleShape
  <1> QED
    BY <1>1, <1>2, <1>3, <1>4

\* The same, when the truncation or the reopening of the WAL fails.
LEMMA TruncateFailKeeps ==
    ASSUME TypeOK, TypeOK', DurabilityInv, TruncateFails PROVE DurabilityInv'
  <1> USE DEF DurabilityInv
  <1>0. /\ pc = "truncate" /\ pc' = "idle" /\ Running /\ Running'
        /\ UNCHANGED <<man, bak, chk, mem, store, tail, pend, why, acked>>
        /\ UNCHANGED <<wal, synced>> \/ (wal' = <<>> /\ synced' = 0)
    BY DEF TruncateFails, Running, handle, counters
  <1>1. WalShape'
    BY <1>0 DEF WalShape, ChainedWal
  <1>2. TailCurrent'
    <2>1. CASE UNCHANGED <<wal, synced>>
      BY <1>0, <2>1 DEF TailCurrent, TailFromScan
    <2>2. CASE wal' = <<>> /\ Len(wal) = 0
      <3>1. TailFromScan(wal', Len(wal')) = TailFromScan(wal, Len(wal))
        BY <2>2 DEF TailFromScan
      <3> QED
        BY <1>0, <2>2, <3>1 DEF TailCurrent
    <2>3. CASE wal' = <<>> /\ tail.len # 0
      BY <1>0, <2>3 DEF TailCurrent
    <2>4. CASE wal' = <<>> /\ tail.len = 0
      BY <1>0, <2>4 DEF TailCurrent, TailFromScan
    <2> QED
      BY <1>0, <2>1, <2>2, <2>3, <2>4
  <1>3. ManifestShape' /\ HandleShape'
    BY <1>0 DEF ManifestShape, HandleShape
  <1>4. CommitsKept'
    BY <1>0 DEF CommitsKept, OnDisk, HandleShape
  <1> QED
    BY <1>1, <1>2, <1>3, <1>4

\* The file a crash leaves: chained, and whole but for its last frame.
LEMMA CrashKeeps ==
    ASSUME TypeInv, DurabilityInv, NEW w \in Seq(Frame), NEW s \in 0..Len(w),
           CrashTo(w, s),
           \A i \in 1..Len(w) : i < Len(w) => w[i].whole,
           \A i \in 1..Len(w) : w[i].prev = IF i = 1 THEN 0 ELSE w[i-1].op,
           synced <= s,
           \A i \in 1..synced : w[i] = wal[i]
    PROVE  DurabilityInv'
  <1> USE DEF DurabilityInv
  <1>0. /\ pc' = "closed" /\ wal' = w /\ synced' = s
        /\ UNCHANGED <<man, bak, chk, acked>>
    BY DEF CrashTo
  <1>1. WalShape' /\ TailCurrent'
    BY <1>0 DEF WalShape, ChainedWal, TailCurrent, Running
  <1>2. ManifestShape' /\ HandleShape'
    BY <1>0 DEF ManifestShape, HandleShape, Running
  <1>3. CommitsKept'
    <2>1. 1..synced \subseteq 1..s
      BY DEF TypeInv, TypeOK
    <2>2. ASSUME NEW c \in acked PROVE OnDisk(c, synced)'
      BY <1>0, <2>1 DEF CommitsKept, OnDisk
    <2> QED
      BY <1>0, <2>2 DEF CommitsKept, Running
  <1> QED
    BY <1>1, <1>2, <1>3

\* What a dying append may leave behind is chained and whole but for its end.
LEMMA InFlightFacts ==
    ASSUME TypeInv, DurabilityInv, Running, NEW w \in InFlight
    PROVE  /\ w \in Seq(Frame) /\ Len(w) >= Len(wal) /\ Len(w) \in Nat
           /\ \A i \in 1..Len(w) : i < Len(w) => w[i].whole
           /\ \A i \in 1..Len(w) : w[i].prev = IF i = 1 THEN 0 ELSE w[i-1].op
           /\ \A i \in 1..synced : w[i] = wal[i]
  <1> USE DEF DurabilityInv
  <1>0. Len(wal) \in Nat /\ synced \in 0..Len(wal) /\ wal \in Seq(Frame)
    BY DEF TypeInv, TypeOK
  <1>1. CASE w = wal
    BY <1>0, <1>1 DEF WalShape, ChainedWal
  <1>2. CASE w # wal
    <2>1. PICK b \in BOOLEAN : pc = "append" /\ w = Append(wal, NewFrame(b))
      BY <1>2 DEF InFlight
    <2>2. /\ w \in Seq(Frame)
          /\ Len(w) = Len(wal) + 1
          /\ \A i \in 1..Len(wal) : w[i] = wal[i]
          /\ \A i \in 1..Len(w) : w[i].prev = IF i = 1 THEN 0 ELSE w[i-1].op
      BY <2>1, AppendFacts
    <2>3. \A i \in 1..Len(w) : i < Len(w) => i \in 1..Len(wal)
      BY <1>0, <2>2
    <2>4. \A i \in 1..Len(wal) : wal[i].whole
      BY DEF WalShape
    <2>5. 1..synced \subseteq 1..Len(wal)
      BY <1>0
    <2> QED
      BY <1>0, <2>2, <2>3, <2>4, <2>5
  <1> QED
    BY <1>1, <1>2

\* A power loss keeps the synced frames.
LEMMA PowerLossKeeps ==
    ASSUME TypeInv, DurabilityInv, PowerLoss PROVE DurabilityInv'
  <1>0. PICK w \in InFlight : \E k \in synced..Len(w) :
          \/ CrashTo(SubSeq(w, 1, k), k)
          \/ k > synced /\ CrashTo(Torn(w, k), k)
    BY DEF PowerLoss
  <1>1. PICK k \in synced..Len(w) :
          \/ CrashTo(SubSeq(w, 1, k), k)
          \/ k > synced /\ CrashTo(Torn(w, k), k)
    BY <1>0
  <1>2. Running
    BY <1>1 DEF CrashTo, Running
  <1>3. /\ w \in Seq(Frame) /\ Len(w) >= Len(wal) /\ Len(w) \in Nat
        /\ \A i \in 1..Len(w) : i < Len(w) => w[i].whole
        /\ \A i \in 1..Len(w) : w[i].prev = IF i = 1 THEN 0 ELSE w[i-1].op
        /\ \A i \in 1..synced : w[i] = wal[i]
    BY <1>2, InFlightFacts
  <1>4. synced \in Nat /\ k \in 0..Len(w) /\ synced <= k /\ k \in 0..k
    BY <1>1, <1>3 DEF TypeInv, TypeOK
  <1>5. CASE CrashTo(SubSeq(w, 1, k), k)
    <2> DEFINE v == SubSeq(w, 1, k)
    <2>1. v \in Seq(Frame) /\ Len(v) = k /\ \A i \in 1..k : v[i] = w[i]
      BY <1>3, <1>4, SubSeqType
    <2>2. \A i \in 1..Len(v) : i < Len(v) => v[i].whole
      BY <1>3, <1>4, <2>1
    <2>3. \A i \in 1..Len(v) : v[i].prev = IF i = 1 THEN 0 ELSE v[i-1].op
      BY <1>3, <1>4, <2>1
    <2>4. \A i \in 1..synced : v[i] = wal[i]
      BY <1>3, <1>4, <2>1
    <2> QED
      BY <1>4, <1>5, <2>1, <2>2, <2>3, <2>4, CrashKeeps
  <1>6. CASE k > synced /\ CrashTo(Torn(w, k), k)
    <2> DEFINE v == Torn(w, k)
    <2>0. k \in 1..Len(w)
      BY <1>4, <1>6
    <2>1. /\ v \in Seq(Frame) /\ Len(v) = k
          /\ \A i \in 1..(k-1) : v[i] = w[i]
          /\ v[k] = [w[k] EXCEPT !.whole = FALSE]
      BY <1>3, <2>0, TornType
    <2>2. \A i \in 1..Len(v) : i < Len(v) => v[i].whole
      <3> SUFFICES ASSUME NEW i \in 1..k, i < k PROVE v[i].whole
        BY <2>1
      <3>1. i \in 1..(k-1) /\ i \in 1..Len(w) /\ i < Len(w)
        BY <1>3, <2>0
      <3> QED
        BY <1>3, <2>1, <3>1
    <2>3. \A i \in 1..Len(v) : v[i].prev = w[i].prev /\ v[i].op = w[i].op
      <3>1. w[k] \in Frame
        BY <1>3, <2>0
      <3>2. v[k].prev = w[k].prev /\ v[k].op = w[k].op
        BY <2>1, <3>1 DEF Frame
      <3>3. \A i \in 1..k : i = k \/ i \in 1..(k-1)
        BY <2>0
      <3> QED
        BY <2>1, <3>2, <3>3
    <2>4. \A i \in 1..Len(v) : v[i].prev = IF i = 1 THEN 0 ELSE v[i-1].op
      <3> SUFFICES ASSUME NEW i \in 1..k
                   PROVE  v[i].prev = IF i = 1 THEN 0 ELSE v[i-1].op
        BY <2>1
      <3>1. i \in 1..Len(w) /\ (i # 1 => i - 1 \in 1..k)
        BY <1>3, <2>0
      <3> QED
        BY <1>3, <2>1, <2>3, <3>1
    <2>5. \A i \in 1..synced : v[i] = wal[i]
      <3>1. 1..synced \subseteq 1..(k-1)
        BY <1>4, <1>6
      <3> QED
        BY <1>3, <2>1, <3>1
    <2> HIDE DEF v
    <2>6. CrashTo(v, k)
      BY <1>6 DEF v
    <2> QED
      BY <1>4, <2>1, <2>2, <2>4, <2>5, <2>6, CrashKeeps
  <1> QED
    BY <1>1, <1>5, <1>6

\* Every step preserves the invariant, under the faults the engine tolerates.
LEMMA DurabilityStep ==
    ASSUME TolerableFaults, TypeInv, TypeInv', DurabilityInv, [Next]_vars
    PROVE  DurabilityInv'
  <1>0. TypeOK /\ TypeOK'
    BY DEF TypeInv
  <1>1. CASE CreateManifest
    BY <1>0, <1>1, CreateKeeps
  <1>2. CASE Open
    BY <1>0, <1>2, OpenKeeps
  <1>3. CASE OpenFails
    BY <1>3 DEF OpenFails, disk, handle, counters, DurabilityInv, WalShape,
       ChainedWal, TailCurrent, TailFromScan, ManifestShape, HandleShape,
       CommitsKept, OnDisk, Running
  <1>4. CASE CopyBackup
    BY <1>0, <1>4, BackupKeeps
  <1>5. CASE PublishManifest
    BY <1>0, <1>5, PublishKeeps
  <1>6. CASE ManifestWriteFails
    BY <1>0, <1>6, WriteFailKeeps
  <1>7. CASE BeginWrite
    BY <1>0, <1>7, BeginWriteKeeps
  <1>8. CASE WriteRefused
    BY <1>0, <1>8, RefusedKeeps
  <1>9. CASE AppendCommit
    BY <1>0, <1>9, AppendKeeps
  <1>10. CASE AppendSyncFails
    BY <1>0, <1>10, SyncFailKeeps
  <1>11. CASE AppendShortWrite
    BY <1>11 DEF AppendShortWrite, TolerableFaults
  <1>12. CASE BeginCheckpoint
    BY <1>0, <1>12, CheckpointKeeps
  <1>13. CASE TruncateWal
    BY <1>0, <1>13, TruncateKeeps
  <1>14. CASE TruncateFails
    BY <1>0, <1>14, TruncateFailKeeps
  <1>15. CASE Crash
    <2>1. PICK w \in InFlight : CrashTo(w, synced)
      BY <1>15 DEF Crash
    <2>2. Running
      BY <2>1 DEF CrashTo, Running
    <2>3. /\ w \in Seq(Frame) /\ Len(w) >= Len(wal) /\ Len(w) \in Nat
          /\ \A i \in 1..Len(w) : i < Len(w) => w[i].whole
          /\ \A i \in 1..Len(w) : w[i].prev = IF i = 1 THEN 0 ELSE w[i-1].op
          /\ \A i \in 1..synced : w[i] = wal[i]
      BY <2>2, InFlightFacts
    <2>4. synced \in 0..Len(w) /\ synced <= synced
      BY <1>0, <2>3 DEF TypeOK
    <2> QED
      BY <2>1, <2>3, <2>4, CrashKeeps
  <1>16. CASE PowerLoss
    BY <1>16, PowerLossKeeps
  <1>17. CASE CorruptManifest
    BY <1>17 DEF CorruptManifest, TolerableFaults
  <1>18. CASE UNCHANGED vars
    BY <1>18 DEF vars, DurabilityInv, WalShape, ChainedWal, TailCurrent,
       TailFromScan, ManifestShape, HandleShape, CommitsKept, OnDisk, Running
  <1> QED
    BY <1>1, <1>2, <1>3, <1>4, <1>5, <1>6, <1>7, <1>8, <1>9, <1>10, <1>11,
       <1>12, <1>13, <1>14, <1>15, <1>16, <1>17, <1>18 DEF Next

\* The invariant says that recovery succeeds and brings every acknowledged
\* commit back.
LEMMA InvGivesAcked ==
    ASSUME TypeOK, DurabilityInv PROVE AckedRecoverable
  <1> USE DEF DurabilityInv
  <1>0. ReadManifest = man
    BY ReadsPrimary
  <1>1. ASSUME acked # {} PROVE ReadManifest.state = "ok"
    BY <1>0, <1>1 DEF ManifestShape
  <1>2. ~ScanFails(wal)
    <2>1. Len(wal) \in Nat
      BY DEF TypeOK
    <2>2. \A i \in 1..Len(wal) : ~(~wal[i].whole /\ i < Len(wal))
      BY DEF WalShape
    <2>3. \A i \in 1..Len(wal) : wal[i].prev = IF i = 1 THEN 0 ELSE wal[i-1].op
      BY DEF WalShape, ChainedWal
    <2> QED
      BY <2>2, <2>3 DEF ScanFails
  <1>3. ASSUME NEW n \in 0..Len(wal), ScansTo(wal, n), NEW c \in acked
        PROVE  c \in Replayed(man, wal, n)
    <2>1. CASE c \in chk[man.chk]
      BY <2>1 DEF Replayed, LoadCheckpoint
    <2>2. CASE c \notin chk[man.chk]
      <3>1. PICK i \in 1..synced : wal[i].whole /\ wal[i].epoch > man.chk
                                       /\ c = CommitOf(wal[i])
        BY <1>3, <2>2 DEF CommitsKept, OnDisk
      <3>2. i \in 1..Len(wal) /\ n \in Nat /\ i \in Nat /\ i >= 1
        BY <3>1 DEF TypeOK
      <3>3. i <= n
        BY <1>3, <3>1, <3>2, ScanIsComplete
      <3>4. i \in 1..n
        BY <3>2, <3>3
      <3> QED
        BY <3>1, <3>4 DEF Replayed, LoadCheckpoint
    <2> QED
      BY <2>1, <2>2
  <1> QED
    BY <1>0, <1>1, <1>2, <1>3 DEF AckedRecoverable, Recoveries

\* It also says that the live store is on disk.
LEMMA InvGivesLive ==
    ASSUME TypeOK, DurabilityInv PROVE LiveIsRecoverable
  BY ReadsPrimary DEF DurabilityInv, CommitsKept, OnDisk, LiveIsRecoverable,
     Recoverable, LoadCheckpoint

\* For any number of writes, crashes, power losses, failed syncs, failed
\* manifest writes and checkpoints: a write that returned Ok is recovered by
\* the next open.
THEOREM AckedDurable ==
    ASSUME TolerableFaults PROVE Spec => []AckedRecoverable
  <1>1. Init => TypeInv /\ DurabilityInv
    BY TypeInit, DurabilityInit
  <1>2. TypeInv /\ DurabilityInv /\ [Next]_vars => (TypeInv /\ DurabilityInv)'
    BY TypeStep, DurabilityStep
  <1>3. TypeInv /\ DurabilityInv => AckedRecoverable
    BY InvGivesAcked DEF TypeInv
  <1> QED
    BY <1>1, <1>2, <1>3, PTL DEF Spec

\* Under the same faults, what readers of the open handle see is on disk.
THEOREM LiveDurable ==
    ASSUME TolerableFaults PROVE Spec => []LiveIsRecoverable
  <1>1. Init => TypeInv /\ DurabilityInv
    BY TypeInit, DurabilityInit
  <1>2. TypeInv /\ DurabilityInv /\ [Next]_vars => (TypeInv /\ DurabilityInv)'
    BY TypeStep, DurabilityStep
  <1>3. TypeInv /\ DurabilityInv => LiveIsRecoverable
    BY InvGivesLive DEF TypeInv
  <1> QED
    BY <1>1, <1>2, <1>3, PTL DEF Spec

\* The invariant itself: how the files, the handle and the operation under way
\* relate, at every step of every operation and after every crash.
THEOREM DurabilityHolds ==
    ASSUME TolerableFaults PROVE Spec => []DurabilityInv
  <1>1. Init => TypeInv /\ DurabilityInv
    BY TypeInit, DurabilityInit
  <1>2. TypeInv /\ DurabilityInv /\ [Next]_vars => (TypeInv /\ DurabilityInv)'
    BY TypeStep, DurabilityStep
  <1> QED
    BY <1>1, <1>2, PTL DEF Spec

\* Frames are chained to one another, whatever tail cache they were appended
\* with: Wal::append_commit never writes a frame that a later scan rejects.
THEOREM WalStaysChained ==
    ASSUME TolerableFaults PROVE Spec => []ChainedWal
  <1>1. DurabilityInv => ChainedWal
    BY DEF DurabilityInv, WalShape
  <1> QED
    BY <1>1, DurabilityHolds, PTL
=============================================================================
