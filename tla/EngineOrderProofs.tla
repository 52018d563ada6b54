-------------------------- MODULE EngineOrderProofs --------------------------
(***************************************************************************)
(* Epochs and manifests move forward: proofs about Engine under every      *)
(* fault, short writes and corrupted manifests included.                   *)
(***************************************************************************)
EXTENDS EngineProofs

-----------------------------------------------------------------------------
(* A manifest is replaced only by a newer one *)

Later(m, n) == m.gen < n.gen /\ m.latest <= n.latest /\ m.chk <= n.chk

\* What is about to be published is newer than what is there, if that can be
\* read, and so is what an append is going to prepare.
ManifestInv ==
    /\ man.chk <= man.latest /\ bak.chk <= bak.latest
    /\ mem.chk <= mem.latest /\ pend.chk <= pend.latest
    /\ pc = "append" /\ man.state = "ok" =>
          mem.gen >= man.gen /\ mem.latest >= man.latest /\ mem.chk >= man.chk
    /\ pc \in {"backup", "publish"} /\ man.state = "ok" => Later(man, pend)

\* The initial state satisfies it.
LEMMA ManifestInit == Init => ManifestInv
BY DEF Init, ManifestInv, NoManifest

\* The fields of manifests are numbers.
LEMMA ManifestNumbers ==
    ASSUME NEW m \in Manifest
    PROVE  m.gen \in Nat /\ m.latest \in Nat /\ m.chk \in Nat
BY BoundsAssumption DEF Manifest, Epoch

\* Every step keeps it.
LEMMA ManifestStep ==
    ASSUME TypeInv, TypeInv', ManifestInv, [Next]_vars
    PROVE  ManifestInv'
<1>0. /\ TypeOK /\ man \in Manifest /\ bak \in Manifest /\ mem \in Manifest
      /\ pend \in Manifest /\ ReadManifest \in Manifest
  BY ReadManifestType DEF TypeInv, TypeOK
<1>1. /\ man.gen \in Nat /\ man.latest \in Nat /\ man.chk \in Nat
      /\ bak.latest \in Nat /\ bak.chk \in Nat
      /\ mem.gen \in Nat /\ mem.latest \in Nat /\ mem.chk \in Nat
      /\ pend.gen \in Nat /\ pend.latest \in Nat /\ pend.chk \in Nat
      /\ ReadManifest.gen \in Nat /\ ReadManifest.latest \in Nat /\ ReadManifest.chk \in Nat
      /\ ReadManifest.chk <= ReadManifest.latest
      /\ man.state = "ok" => ReadManifest = man
  BY <1>0, ManifestNumbers DEF ManifestInv, ReadManifest
<1>2. CASE CreateManifest
  BY <1>2 DEF CreateManifest, ManifestInv, EmptyManifest, handle, counters
<1>3. CASE Open
  <2>1. PICK n \in 0..Len(wal) :
          LET m == ReadManifest
              last == IF n = 0 THEN 0 ELSE wal[n].epoch
              behind == last > m.chk /\ last > m.latest
          IN  /\ mem' = IF behind THEN AtEpoch(m, last) ELSE m
              /\ pend' = mem'
              /\ pc' = IF behind THEN "backup" ELSE "idle"
    BY <1>3 DEF Open
  <2>2. UNCHANGED <<man, bak>>
    BY <1>3 DEF Open
  <2> DEFINE last == IF n = 0 THEN 0 ELSE wal[n].epoch
  <2>3. last \in Nat
    <3>1. CASE n = 0
      BY <3>1
    <3>2. CASE n # 0
      <4>1. wal[n] \in Frame
        BY <1>0, <3>2 DEF TypeOK
      <4>2. wal[n].epoch \in Nat
        BY <4>1 DEF Frame, Epoch
      <4> QED
        BY <3>2, <4>2
    <3> QED
      BY <3>1, <3>2
  <2>4. CASE last > ReadManifest.chk /\ last > ReadManifest.latest
    <3>1. mem' = AtEpoch(ReadManifest, last) /\ pend' = mem' /\ pc' = "backup"
      BY <2>1, <2>4
    <3>2. /\ mem'.chk = ReadManifest.chk /\ mem'.latest = last
          /\ mem'.gen = ReadManifest.gen + 1
      BY <3>1 DEF AtEpoch
    <3> HIDE DEF last
    <3> QED
      BY SMTT(30), <1>1, <2>2, <2>3, <2>4, <3>1, <3>2 DEF ManifestInv, Later
  <2>5. CASE ~(last > ReadManifest.chk /\ last > ReadManifest.latest)
    <3>1. mem' = ReadManifest /\ pend' = mem' /\ pc' = "idle"
      BY <2>1, <2>5
    <3> QED
      BY <1>1, <2>2, <3>1 DEF ManifestInv
  <2> QED
    BY <2>4, <2>5
<1>4. CASE OpenFails
  BY <1>4 DEF OpenFails, ManifestInv, disk, handle, counters
<1>5. CASE CopyBackup
  BY <1>5 DEF CopyBackup, ManifestInv, handle, counters
<1>6. CASE PublishManifest
  BY <1>6 DEF PublishManifest, ManifestInv, handle
<1>7. CASE ManifestWriteFails
  BY <1>7 DEF ManifestWriteFails, ManifestInv, handle, counters
<1>8. CASE BeginWrite
  BY <1>1, <1>8 DEF BeginWrite, ManifestInv, Stale, disk
<1>9. CASE WriteRefused
  BY <1>9 DEF WriteRefused, ManifestInv, disk, counters
<1>10. CASE AppendCommit
  <2>1. /\ mem' = AtEpoch(mem, mem.latest + 1) /\ pend' = mem' /\ pc' = "backup"
        /\ UNCHANGED <<man, bak>> /\ pc = "append"
    BY <1>10 DEF AppendCommit
  <2>2. /\ mem'.chk = mem.chk /\ mem'.latest = mem.latest + 1
        /\ mem'.gen = mem.gen + 1
    BY <2>1 DEF AtEpoch
  <2> QED
    BY <1>1, <2>1, <2>2 DEF ManifestInv, Later
<1>11. CASE AppendSyncFails \/ AppendShortWrite
  BY <1>11 DEF AppendSyncFails, AppendShortWrite, ManifestInv, handle, counters
<1>12. CASE BeginCheckpoint
  <2>1. UNCHANGED <<man, bak, mem>> /\ pc = "idle"
    BY <1>12 DEF BeginCheckpoint
  <2>2. CASE /\ ReadManifest.latest = mem.latest
             /\ pend' = AtCheckpoint(ReadManifest, mem.latest)
             /\ pc' = "backup"
    <3>1. /\ pend'.chk = mem.latest /\ pend'.latest = ReadManifest.latest
          /\ pend'.gen = ReadManifest.gen + 1
      BY <2>2 DEF AtCheckpoint
    <3> QED
      BY <1>1, <2>1, <2>2, <3>1 DEF ManifestInv, Later
  <2>3. CASE UNCHANGED <<pend, pc>>
    BY <2>1, <2>3 DEF ManifestInv
  <2> QED
    BY <1>12, <2>2, <2>3 DEF BeginCheckpoint
<1>13. CASE TruncateWal
  BY <1>13 DEF TruncateWal, ManifestInv, counters
<1>14. CASE TruncateFails
  BY <1>14 DEF TruncateFails, ManifestInv, handle, counters
<1>15. CASE Crash \/ PowerLoss
  <2>1. PICK w, s : CrashTo(w, s)
    BY <1>15 DEF Crash, PowerLoss
  <2> QED
    BY <2>1 DEF CrashTo, ManifestInv, NoManifest
<1>16. CASE CorruptManifest
  <2>1. /\ man' = [man EXCEPT !.state = "garbled"]
        /\ UNCHANGED <<bak, pc, mem, pend>>
    BY <1>16 DEF CorruptManifest, handle
  <2>2. man'.state = "garbled" /\ man'.chk = man.chk /\ man'.latest = man.latest
    BY <1>0, <2>1 DEF Manifest
  <2> QED
    BY <2>1, <2>2 DEF ManifestInv
<1>17. CASE UNCHANGED vars
  BY <1>17 DEF vars, ManifestInv, Later
<1> QED
  BY <1>2, <1>3, <1>4, <1>5, <1>6, <1>7, <1>8, <1>9, <1>10, <1>11, <1>12,
     <1>13, <1>14, <1>15, <1>16, <1>17 DEF Next

\* A readable manifest.tdb is replaced only by one of a later generation that is
\* at least as far in epochs and in checkpoints, by an open, a commit or a
\* checkpoint, after any fault.
THEOREM ManifestsAdvance == Spec => ManifestAdvances
<1>1. ManifestInv /\ TypeInv /\ [Next]_vars =>
         [man' # man /\ man.state = "ok" /\ man'.state = "ok" =>
            /\ man'.gen > man.gen
            /\ man'.latest >= man.latest
            /\ man'.chk >= man.chk]_vars
  <2> SUFFICES ASSUME ManifestInv, TypeInv, [Next]_vars,
                      man' # man, man.state = "ok", man'.state = "ok"
               PROVE  man'.gen > man.gen /\ man'.latest >= man.latest /\ man'.chk >= man.chk
    OBVIOUS
  <2>1. /\ man.gen \in Nat /\ man.latest \in Nat /\ man.chk \in Nat
        /\ pend.gen \in Nat /\ pend.latest \in Nat /\ pend.chk \in Nat
        /\ man \in Manifest
    BY ManifestNumbers DEF TypeInv, TypeOK
  <2>2. man' = pend /\ pc = "publish"
    <3>1. CASE CorruptManifest
      <4>1. man' = [man EXCEPT !.state = "garbled"]
        BY <3>1 DEF CorruptManifest
      <4> QED
        BY <2>1, <4>1 DEF Manifest
    <3>2. CASE Crash \/ PowerLoss
      BY <3>2 DEF Crash, PowerLoss, CrashTo
    <3>3. CASE UNCHANGED vars
      BY <3>3 DEF vars
    <3> QED
      BY <3>1, <3>2, <3>3 DEF Next, CreateManifest, Open, OpenFails, CopyBackup,
         PublishManifest, ManifestWriteFails, BeginWrite, WriteRefused, AppendCommit,
         AppendSyncFails, AppendShortWrite, BeginCheckpoint, TruncateWal,
         TruncateFails, disk
  <2> QED
    BY <2>1, <2>2 DEF ManifestInv, Later
<1>2. Init => TypeInv /\ ManifestInv
  BY TypeInit, ManifestInit
<1>3. TypeInv /\ ManifestInv /\ [Next]_vars => (TypeInv /\ ManifestInv)'
  BY TypeStep, ManifestStep
<1> QED
  BY <1>1, <1>2, <1>3, PTL DEF Spec, ManifestAdvances

-----------------------------------------------------------------------------
(* One commit per epoch *)

\* S holds one commit per epoch, and none beyond epoch e.
UpTo(S, e) == \A c \in S : c.epoch <= e /\ \A d \in S : c.epoch = d.epoch => c = d

\* As far as a scan may get, the epochs of the frames increase.
Sorted(w) ==
    \A j \in 1..Len(w) : (\A k \in 1..j : w[k].whole) =>
        \A i \in 1..(j-1) : w[i].epoch < w[j].epoch

\* The tail cache knows the last epoch of a file that has its length.
TailHigh(w, t) ==
    t.len = Len(w) /\ Len(w) > 0 /\ (\A k \in 1..Len(w) : w[k].whole) =>
        t.last = w[Len(w)].epoch

EpochInv ==
    /\ \A e \in Epoch : UpTo(chk[e], e)
    /\ UpTo(store, mem.latest)
    /\ Sorted(wal)
    /\ pc \in {"backup", "publish", "truncate"} /\ why = "checkpoint" =>
          pend.latest = mem.latest
    /\ pc = "truncate" => why = "checkpoint"
    /\ Running => TailHigh(wal, tail)
    /\ pc = "append" => tail.len = Len(wal) /\ tail.last <= mem.latest

\* Cutting frames off, or the end of one, leaves the rest sorted.
LEMMA CutSorted ==
    ASSUME NEW w \in Seq(Frame), NEW v \in Seq(Frame), Sorted(w), Len(v) <= Len(w),
           \A i \in 1..Len(v) : v[i].whole => v[i] = w[i]
    PROVE  Sorted(v)
<1> SUFFICES ASSUME NEW j \in 1..Len(v), \A k \in 1..j : v[k].whole, NEW i \in 1..(j-1)
             PROVE  v[i].epoch < v[j].epoch
  BY DEF Sorted
<1>1. Len(v) \in Nat /\ Len(w) \in Nat /\ j \in 1..Len(w) /\ i \in 1..j
  OBVIOUS
<1>2. \A k \in 1..j : v[k] = w[k]
  BY <1>1
<1>3. w[i].epoch < w[j].epoch
  BY <1>1, <1>2 DEF Sorted
<1> QED
  BY <1>1, <1>2, <1>3

\* In a file of whole frames no epoch exceeds the last.
LEMMA SortedLast ==
    ASSUME NEW w \in Seq(Frame), Sorted(w), NEW n \in 1..Len(w), \A k \in 1..n : w[k].whole,
           NEW i \in 1..n
    PROVE  w[i].epoch <= w[n].epoch
<1>1. w[i] \in Frame /\ w[n] \in Frame /\ n \in 1..Len(w)
  OBVIOUS
<1>2. w[i].epoch \in Nat /\ w[n].epoch \in Nat
  BY <1>1 DEF Frame, Epoch
<1>3. CASE i = n
  BY <1>2, <1>3
<1>4. CASE i # n
  <2>1. i \in 1..(n-1)
    BY <1>4
  <2>2. w[i].epoch < w[n].epoch
    BY <1>1, <2>1 DEF Sorted
  <2> QED
    BY <1>2, <2>2
<1> QED
  BY <1>3, <1>4

\* A frame is appended after all those that a scan may reach.
LEMMA AppendSorted ==
    ASSUME TypeInv, EpochInv, pc = "append", NEW b \in BOOLEAN
    PROVE  Sorted(Append(wal, NewFrame(b)))
<1> DEFINE f == NewFrame(b)
           w == Append(wal, f)
<1>1. /\ f \in Frame /\ w \in Seq(Frame) /\ Len(w) = Len(wal) + 1 /\ Len(wal) \in Nat
      /\ wal \in Seq(Frame)
  BY NewFrameType DEF TypeInv, TypeOK
<1>2. f.epoch = mem.latest + 1 /\ mem.latest \in Nat
  BY ManifestNumbers DEF NewFrame, TypeInv, TypeOK
<1>3. (\A i \in 1..Len(wal) : w[i] = wal[i]) /\ w[Len(w)] = f
  BY <1>1
<1> HIDE DEF f, w
<1> SUFFICES ASSUME NEW j \in 1..Len(w), \A k \in 1..j : w[k].whole, NEW i \in 1..(j-1)
             PROVE  w[i].epoch < w[j].epoch
  BY DEF Sorted, w, f
<1>4. i \in 1..Len(wal) /\ i \in 1..j
  BY <1>1
<1>5. CASE j <= Len(wal)
  <2>1. j \in 1..Len(wal) /\ \A k \in 1..j : w[k] = wal[k]
    BY <1>1, <1>3, <1>5
  <2>2. wal[i].epoch < wal[j].epoch
    BY <2>1 DEF EpochInv, Sorted
  <2> QED
    BY <1>4, <2>1, <2>2
<1>6. CASE j = Len(w)
  <2>1. \A k \in 1..Len(wal) : wal[k].whole
    BY <1>1, <1>3, <1>6
  <2>2. Len(wal) \in 1..Len(wal) /\ Len(wal) > 0
    BY <1>1, <1>4
  <2>3. wal[i].epoch <= wal[Len(wal)].epoch
    BY <1>1, <1>4, <2>1, <2>2, SortedLast DEF EpochInv
  <2>4. wal[Len(wal)].epoch = tail.last /\ tail.last <= mem.latest
    BY <2>1, <2>2 DEF EpochInv, TailHigh, Running
  <2>5. wal[i].epoch \in Nat /\ wal[Len(wal)].epoch \in Nat
    <3>1. wal[i] \in Frame /\ wal[Len(wal)] \in Frame
      BY <1>1, <1>4, <2>2
    <3> QED
      BY <3>1 DEF Frame, Epoch
  <2>6. w[i].epoch = wal[i].epoch /\ w[j].epoch = f.epoch
    BY <1>3, <1>4, <1>6
  <2>7. wal[i].epoch < f.epoch
    <3>1. wal[Len(wal)].epoch <= mem.latest
      BY <2>4
    <3> HIDE DEF f
    <3> QED
      BY <1>2, <2>3, <2>5, <3>1
  <2> QED
    BY <2>6, <2>7
<1> QED
  BY <1>1, <1>5, <1>6

\* A scan of sorted frames brings back one commit per epoch, up to the last.
LEMMA ReplayedUpTo ==
    ASSUME TypeOK, EpochInv, NEW m \in Manifest, m.chk <= m.latest,
           NEW n \in 0..Len(wal), ScansTo(wal, n), NEW e \in Nat, m.latest <= e,
           \A i \in 1..n : wal[i].epoch > m.chk => wal[i].epoch <= e
    PROVE  UpTo(Replayed(m, wal, n), e)
<1>0. /\ wal \in Seq(Frame) /\ m.chk \in Epoch /\ m.chk \in Nat /\ m.latest \in Nat
      /\ n \in Nat /\ Len(wal) \in Nat
  BY ManifestNumbers DEF TypeOK, Manifest
<1>1. UpTo(chk[m.chk], m.chk)
  BY <1>0 DEF EpochInv
<1>2. \A i \in 1..n : /\ i \in 1..Len(wal) /\ wal[i].epoch \in Nat
                      /\ CommitOf(wal[i]).epoch = wal[i].epoch
  <2> SUFFICES ASSUME NEW i \in 1..n
               PROVE  /\ i \in 1..Len(wal) /\ wal[i].epoch \in Nat
                      /\ CommitOf(wal[i]).epoch = wal[i].epoch
    OBVIOUS
  <2>1. i \in 1..Len(wal) /\ wal[i] \in Frame
    BY <1>0
  <2> QED
    BY <2>1 DEF Frame, Epoch, CommitOf
<1>3. \A i, j \in 1..n : wal[i].epoch = wal[j].epoch => i = j
  <2>1. ASSUME NEW i \in 1..n, NEW j \in 1..n, i < j PROVE wal[i].epoch < wal[j].epoch
    <3>1. i \in 1..(j-1) /\ j \in 1..Len(wal) /\ \A k \in 1..j : wal[k].whole
      BY <1>0, <2>1 DEF ScansTo
    <3> QED
      BY <3>1 DEF EpochInv, Sorted
  <2>2. \A i, j \in 1..n : i < j \/ j < i \/ i = j
    BY <1>0
  <2> QED
    BY <1>2, <2>1, <2>2
<1>4. \A c \in chk[m.chk] : c.epoch \in Nat
  BY <1>0 DEF TypeOK, Commit, Epoch
<1>5. \A c \in Replayed(m, wal, n) :
         \/ c \in chk[m.chk]
         \/ \E i \in 1..n : c = CommitOf(wal[i]) /\ wal[i].epoch > m.chk
  BY DEF Replayed, LoadCheckpoint
<1>6. ASSUME NEW c \in Replayed(m, wal, n) PROVE c.epoch <= e
  BY <1>0, <1>1, <1>2, <1>4, <1>5 DEF UpTo
<1>7. ASSUME NEW c \in Replayed(m, wal, n), NEW d \in Replayed(m, wal, n), c.epoch = d.epoch
      PROVE  c = d
  <2>1. CASE c \in chk[m.chk] /\ d \in chk[m.chk]
    BY <1>1, <1>7, <2>1 DEF UpTo
  <2>2. CASE c \in chk[m.chk] /\ d \notin chk[m.chk]
    BY <1>0, <1>1, <1>2, <1>4, <1>5, <1>7, <2>2 DEF UpTo
  <2>3. CASE c \notin chk[m.chk] /\ d \in chk[m.chk]
    BY <1>0, <1>1, <1>2, <1>4, <1>5, <1>7, <2>3 DEF UpTo
  <2>4. CASE c \notin chk[m.chk] /\ d \notin chk[m.chk]
    BY <1>2, <1>3, <1>5, <1>7, <2>4
  <2> QED
    BY <2>1, <2>2, <2>3, <2>4
<1> QED
  BY <1>6, <1>7 DEF UpTo

\* A tail cache that a write has just looked at.
LEMMA TailRead ==
    ASSUME TypeOK, EpochInv, Running, NEW t, TailMayBe(t)
    PROVE  TailHigh(wal, t) /\ t.len = Len(wal)
<1>1. CASE tail.len = Len(wal)
  BY <1>1 DEF TailMayBe, EpochInv
<1>2. CASE tail.len # Len(wal)
  <2>1. PICK n \in 0..Len(wal) : ScansTo(wal, n) /\ t = TailFromScan(wal, n)
    BY <1>2 DEF TailMayBe
  <2>2. Len(wal) \in Nat
    BY DEF TypeOK
  <2>3. t.len = Len(wal) /\ t.last = IF n = 0 THEN 0 ELSE wal[n].epoch
    BY <2>1 DEF TailFromScan
  <2>4. ASSUME \A k \in 1..Len(wal) : wal[k].whole PROVE n = Len(wal)
    BY <2>1, <2>2, <2>4 DEF ScansTo
  <2> QED
    BY <2>2, <2>3, <2>4 DEF TailHigh
<1> QED
  BY <1>1, <1>2

\* The initial state satisfies it.
LEMMA EpochInit == Init => EpochInv
BY DEF Init, EpochInv, UpTo, Sorted, Running, NoManifest

\* A crash leaves a file whose frames are in order, and no handle.
LEMMA CrashEpochs ==
    ASSUME EpochInv, NEW w, NEW s, CrashTo(w, s), Sorted(w)
    PROVE  EpochInv'
BY DEF CrashTo, EpochInv, UpTo, Sorted, Running

\* What a dying append may leave behind is in order.
LEMMA InFlightSorted ==
    ASSUME TypeInv, EpochInv, NEW w \in InFlight
    PROVE  w \in Seq(Frame) /\ Len(w) \in Nat /\ Sorted(w)
<1>1. CASE w = wal
  BY <1>1 DEF TypeInv, TypeOK, EpochInv
<1>2. CASE w # wal
  <2>1. PICK b \in BOOLEAN : pc = "append" /\ w = Append(wal, NewFrame(b))
    BY <1>2 DEF InFlight
  <2>2. w \in Seq(Frame)
    BY <2>1, NewFrameType DEF TypeInv
  <2> QED
    BY <2>1, <2>2, AppendSorted
<1> QED
  BY <1>1, <1>2

\* Every step keeps it.
LEMMA EpochStep ==
    ASSUME TypeInv, TypeInv', ManifestInv, EpochInv, [Next]_vars
    PROVE  EpochInv'
<1>0. TypeOK /\ TypeOK' /\ ReadManifest \in Manifest
  BY ReadManifestType DEF TypeInv
<1>1. /\ wal \in Seq(Frame) /\ Len(wal) \in Nat /\ mem.latest \in Nat /\ mem.latest \in Epoch
      /\ chk \in [Epoch -> SUBSET Commit]
      /\ ReadManifest.latest \in Nat /\ ReadManifest.chk \in Nat
      /\ ReadManifest.chk <= ReadManifest.latest
  <2>1. wal \in Seq(Frame) /\ mem \in Manifest /\ chk \in [Epoch -> SUBSET Commit]
    BY <1>0 DEF TypeOK
  <2>2. mem.latest \in Epoch
    BY <2>1 DEF Manifest
  <2>3. ReadManifest.chk <= ReadManifest.latest
    BY DEF ManifestInv, ReadManifest
  <2> QED
    BY <1>0, <2>1, <2>2, <2>3, ManifestNumbers
<1>2. CASE CreateManifest
  BY <1>2 DEF CreateManifest, EpochInv, UpTo, Sorted, Running, TailHigh, handle, counters
<1>3. CASE Open
  <2>1. PICK n \in 0..Len(wal) :
          LET m == ReadManifest
              last == IF n = 0 THEN 0 ELSE wal[n].epoch
              behind == last > m.chk /\ last > m.latest
          IN  /\ ScansTo(wal, n)
              /\ wal' = SubSeq(wal, 1, n)
              /\ tail' = TailFromScan(SubSeq(wal, 1, n), n)
              /\ store' = Replayed(m, wal, n)
              /\ mem' = IF behind THEN AtEpoch(m, last) ELSE m
              /\ pc' = IF behind THEN "backup" ELSE "idle"
    BY <1>3 DEF Open
  <2>2. UNCHANGED chk /\ why' = "open" /\ pc' \in {"backup", "idle"}
    BY <1>3, <2>1 DEF Open
  <2>3. /\ wal' \in Seq(Frame) /\ Len(wal') = n /\ \A i \in 1..n : wal'[i] = wal[i]
    BY <1>1, <2>1, SubSeqType
  <2>4. Sorted(wal')
    <3>1. Len(wal') <= Len(wal)
      BY <1>1, <2>3
    <3>2. Sorted(wal)
      BY DEF EpochInv
    <3> QED
      BY <1>1, <2>3, <3>1, <3>2, CutSorted
  <2>5. TailHigh(wal', tail')
    BY <2>1, <2>3 DEF TailHigh, TailFromScan
  <2> DEFINE last == IF n = 0 THEN 0 ELSE wal[n].epoch
  <2>6. last \in Nat
    <3>1. CASE n = 0
      BY <3>1
    <3>2. CASE n # 0
      <4>1. wal[n] \in Frame
        BY <1>1, <3>2
      <4>2. wal[n].epoch \in Nat
        BY <4>1 DEF Frame, Epoch
      <4> QED
        BY <3>2, <4>2
    <3> QED
      BY <3>1, <3>2
  <2>7. \A i \in 1..n : wal[i].epoch <= last /\ wal[i].epoch \in Nat
    <3> SUFFICES ASSUME NEW i \in 1..n PROVE wal[i].epoch <= last /\ wal[i].epoch \in Nat
      OBVIOUS
    <3>1. n \in 1..Len(wal) /\ n # 0 /\ i \in 1..Len(wal)
      BY <1>1
    <3>2. \A k \in 1..n : wal[k].whole
      BY <2>1 DEF ScansTo
    <3>3. wal[i].epoch <= wal[n].epoch
      BY <1>1, <3>1, <3>2, SortedLast DEF EpochInv
    <3>4. wal[i] \in Frame
      BY <1>1, <3>1
    <3> QED
      BY <3>1, <3>3, <3>4 DEF Frame, Epoch
  <2>8. mem'.latest \in Nat /\ ReadManifest.latest <= mem'.latest
        /\ (last > ReadManifest.chk => last <= mem'.latest)
    <3>1. CASE last > ReadManifest.chk /\ last > ReadManifest.latest
      <4>1. mem' = AtEpoch(ReadManifest, last)
        BY <2>1, <3>1
      <4>2. mem'.latest = last
        BY <4>1 DEF AtEpoch
      <4> HIDE DEF last
      <4> QED
        BY <1>1, <2>6, <3>1, <4>2
    <3>2. CASE ~(last > ReadManifest.chk /\ last > ReadManifest.latest)
      <4>1. mem' = ReadManifest
        BY <2>1, <3>2
      <4> HIDE DEF last
      <4> QED
        BY <1>1, <2>6, <3>2, <4>1
    <3> QED
      BY <3>1, <3>2
  <2>9. UpTo(store', mem'.latest)
    <3>1. \A i \in 1..n : wal[i].epoch > ReadManifest.chk => wal[i].epoch <= mem'.latest
      <4> HIDE DEF last
      <4> QED
        BY <1>1, <2>6, <2>7, <2>8
    <3>2. UpTo(Replayed(ReadManifest, wal, n), mem'.latest)
      BY <1>0, <1>1, <2>1, <2>8, <3>1, ReplayedUpTo
    <3> QED
      BY <2>1, <3>2
  <2> QED
    BY <2>2, <2>4, <2>5, <2>9 DEF EpochInv, UpTo, Running
<1>4. CASE OpenFails \/ CopyBackup
  BY <1>4 DEF OpenFails, CopyBackup, EpochInv, UpTo, Sorted, Running, TailHigh, disk,
     handle, counters
<1>5. CASE PublishManifest \/ ManifestWriteFails
  BY <1>5 DEF PublishManifest, ManifestWriteFails, EpochInv, UpTo, Sorted, Running, TailHigh,
     handle, counters
<1>6. CASE BeginWrite
  <2>1. /\ TailMayBe(tail') /\ ~Stale(tail') /\ pc' = "append" /\ pc = "idle"
        /\ UNCHANGED <<wal, chk, mem, store, pend, why>>
    BY <1>6 DEF BeginWrite, disk
  <2>2. TailHigh(wal, tail') /\ tail'.len = Len(wal)
    BY <1>0, <2>1, TailRead DEF Running
  <2>3. tail'.last <= mem.latest
    <3>1. tail'.last \in Nat
      BY <1>0 DEF TypeOK, Epoch
    <3> QED
      BY <1>1, <2>1, <3>1 DEF Stale
  <2> QED
    BY <2>1, <2>2, <2>3 DEF EpochInv, UpTo, Sorted, TailHigh
<1>7. CASE WriteRefused
  <2>1. /\ TailMayBe(tail') /\ pc = "idle"
        /\ UNCHANGED <<wal, chk, mem, store, pend, why, pc>>
    BY <1>7 DEF WriteRefused, disk
  <2>2. TailHigh(wal, tail')
    BY <1>0, <2>1, TailRead DEF Running
  <2> QED
    BY <2>1, <2>2 DEF EpochInv, UpTo, Sorted, TailHigh
<1>8. CASE AppendCommit
  <2>1. /\ pc = "append" /\ pc' = "backup" /\ why' = "commit" /\ UNCHANGED chk
        /\ wal' = Append(wal, NewFrame(TRUE))
        /\ tail' = [len |-> tail.len + 1, last |-> mem.latest + 1, prev |-> ops]
        /\ store' = store \cup {CommitOf(NewFrame(TRUE))}
        /\ mem' = AtEpoch(mem, mem.latest + 1)
    BY <1>8 DEF AppendCommit
  <2>2. Sorted(wal')
    BY <2>1, AppendSorted
  <2>3. mem'.latest = mem.latest + 1 /\ CommitOf(NewFrame(TRUE)).epoch = mem.latest + 1
    BY <2>1 DEF AtEpoch, CommitOf, NewFrame
  <2>4. UpTo(store', mem'.latest)
    <3>1. UpTo(store, mem.latest) /\ \A c \in store : c.epoch \in Nat
      BY <1>0 DEF EpochInv, TypeOK, Commit, Epoch
    <3>2. \A c \in store : c.epoch < mem.latest + 1
      BY <1>1, <3>1 DEF UpTo
    <3>3. \A c \in store' : c \in store \/ c = CommitOf(NewFrame(TRUE))
      BY <2>1
    <3> DEFINE c0 == CommitOf(NewFrame(TRUE))
               e0 == mem.latest + 1
    <3>4. c0.epoch = e0 /\ e0 \in Nat /\ e0 <= e0
      <4>1. e0 \in Nat /\ e0 <= e0
        BY <1>1
      <4> QED
        BY <2>3, <4>1
    <3>5. \A c \in store : c.epoch < e0 /\ c.epoch <= e0 /\ c.epoch # e0
      BY <1>1, <3>1, <3>2
    <3>6. \A c \in store' : c \in store \/ c = c0
      BY <3>3
    <3>7. mem'.latest = e0
      BY <2>3
    <3> HIDE DEF c0, e0
    <3>8. \A c \in store' : c.epoch <= e0
      BY <3>4, <3>5, <3>6
    <3>9. \A c, d \in store' : c.epoch = d.epoch => c = d
      BY <3>1, <3>4, <3>5, <3>6 DEF UpTo
    <3> QED
      BY <3>7, <3>8, <3>9 DEF UpTo
  <2>5. TailHigh(wal', tail')
    <3>1. NewFrame(TRUE) \in Frame /\ Len(wal') = Len(wal) + 1
      BY <1>1, <2>1, NewFrameType DEF TypeInv
    <3>2. wal'[Len(wal')] = NewFrame(TRUE)
      <4> DEFINE f == NewFrame(TRUE)
      <4>1. f \in Frame /\ wal' = Append(wal, f) /\ Len(wal') = Len(wal) + 1
        BY <2>1, <3>1
      <4> HIDE DEF f
      <4>2. wal'[Len(wal')] = f
        BY <1>1, <4>1
      <4> QED
        BY <4>2 DEF f
    <3> QED
      BY <2>1, <3>2 DEF TailHigh, NewFrame
  <2> QED
    BY <2>1, <2>2, <2>4, <2>5 DEF EpochInv, UpTo
<1>9. CASE AppendSyncFails \/ AppendShortWrite
  <2>1. PICK b \in BOOLEAN : wal' = Append(wal, NewFrame(b))
    BY <1>9 DEF AppendSyncFails, AppendShortWrite
  <2>2. pc = "append" /\ pc' = "idle" /\ UNCHANGED <<chk, mem, store, tail, pend, why>>
    BY <1>9 DEF AppendSyncFails, AppendShortWrite, handle
  <2>3. Sorted(wal')
    BY <2>1, <2>2, AppendSorted
  <2>4. Len(wal') = Len(wal) + 1
    BY <2>1, <2>2, NewFrameType DEF TypeInv
  <2>5. TailHigh(wal', tail')
    BY <1>1, <2>2, <2>4 DEF TailHigh, EpochInv
  <2> QED
    BY <2>2, <2>3, <2>5 DEF EpochInv, UpTo
<1>10. CASE BeginCheckpoint
  <2>1. /\ chk' = [chk EXCEPT ![mem.latest] = store] /\ pc = "idle"
        /\ UNCHANGED <<wal, mem, store, tail>>
        /\ pc' \in {"backup", "idle"}
    BY <1>10 DEF BeginCheckpoint, CheckpointWritten
  <2>2. \A e \in Epoch : chk'[e] = IF e = mem.latest THEN store ELSE chk[e]
    BY <1>1, <2>1
  <2>3. \A e \in Epoch : UpTo(chk'[e], e)
    BY <2>2 DEF EpochInv
  <2>4. pc' = "backup" => pend'.latest = mem.latest
    BY <1>10 DEF BeginCheckpoint, AtCheckpoint
  <2> QED
    BY <2>1, <2>3, <2>4 DEF EpochInv, UpTo, Sorted, Running, TailHigh
<1>11. CASE TruncateWal
  <2>1. /\ pc = "truncate" /\ pc' = "idle" /\ wal' = <<>> /\ mem' = pend
        /\ UNCHANGED <<chk, store, pend, why>>
    BY <1>11 DEF TruncateWal
  <2>2. pend.latest = mem.latest
    BY <2>1 DEF EpochInv
  <2>3. Len(wal') = 0
    BY <2>1
  <2> QED
    BY <2>1, <2>2, <2>3 DEF EpochInv, UpTo, Sorted, TailHigh
<1>12. CASE TruncateFails
  <2>1. /\ pc = "truncate" /\ pc' = "idle" /\ wal' \in {wal, <<>>}
        /\ UNCHANGED <<chk, mem, store, tail, pend, why>>
    BY <1>12 DEF TruncateFails, handle
  <2>2. CASE wal' = wal
    BY <2>1, <2>2 DEF EpochInv, UpTo, Sorted, Running, TailHigh
  <2>3. CASE wal' = <<>>
    <3>1. Len(wal') = 0
      BY <2>3
    <3> QED
      BY <2>1, <3>1 DEF EpochInv, UpTo, Sorted, TailHigh
  <2> QED
    BY <2>1, <2>2, <2>3
<1>13. CASE Crash
  <2>1. PICK w \in InFlight : CrashTo(w, synced)
    BY <1>13 DEF Crash
  <2> QED
    BY <2>1, InFlightSorted, CrashEpochs
<1>14. CASE PowerLoss
  <2>0. PICK w \in InFlight : \E k \in synced..Len(w) :
          \/ CrashTo(SubSeq(w, 1, k), k)
          \/ k > synced /\ CrashTo(Torn(w, k), k)
    BY <1>14 DEF PowerLoss
  <2>1. PICK k \in synced..Len(w) :
          \/ CrashTo(SubSeq(w, 1, k), k)
          \/ k > synced /\ CrashTo(Torn(w, k), k)
    BY <2>0
  <2>2. w \in Seq(Frame) /\ Len(w) \in Nat /\ Sorted(w) /\ k \in 0..Len(w) /\ k <= Len(w)
    BY <1>0, InFlightSorted DEF TypeOK
  <2>3. CASE CrashTo(SubSeq(w, 1, k), k)
    <3>1. /\ SubSeq(w, 1, k) \in Seq(Frame) /\ Len(SubSeq(w, 1, k)) = k
          /\ \A i \in 1..k : SubSeq(w, 1, k)[i] = w[i]
      BY <2>2, SubSeqType
    <3>2. Sorted(SubSeq(w, 1, k))
      BY <2>2, <3>1, CutSorted
    <3> QED
      BY <2>3, <3>2, CrashEpochs
  <2>4. CASE k > synced /\ CrashTo(Torn(w, k), k)
    <3>0. k \in 1..Len(w)
      BY <1>0, <2>2, <2>4 DEF TypeOK
    <3>1. /\ Torn(w, k) \in Seq(Frame) /\ Len(Torn(w, k)) = k
          /\ \A i \in 1..(k-1) : Torn(w, k)[i] = w[i]
          /\ Torn(w, k)[k] = [w[k] EXCEPT !.whole = FALSE]
      BY <2>2, <3>0, TornType
    <3>2. ~Torn(w, k)[k].whole
      <4>1. w[k] \in Frame
        BY <2>2, <3>0
      <4> QED
        BY <3>1, <4>1 DEF Frame
    <3>3. \A i \in 1..k : i = k \/ i \in 1..(k-1)
      BY <3>0
    <3>4. Sorted(Torn(w, k))
      BY <2>2, <3>1, <3>2, <3>3, CutSorted
    <3> QED
      BY <2>4, <3>4, CrashEpochs
  <2> QED
    BY <2>1, <2>3, <2>4
<1>15. CASE CorruptManifest
  BY <1>15 DEF CorruptManifest, EpochInv, UpTo, Sorted, Running, TailHigh, handle, counters
<1>16. CASE UNCHANGED vars
  BY <1>16 DEF vars, EpochInv, UpTo, Sorted, Running, TailHigh
<1> QED
  BY <1>2, <1>3, <1>4, <1>5, <1>6, <1>7, <1>8, <1>9, <1>10, <1>11, <1>12,
     <1>13, <1>14, <1>15, <1>16 DEF Next

\* Whatever failed, in the live store and in every store recovery may rebuild,
\* an epoch names one write attempt: a failed append hands its epoch on only
\* when no scan finds its frame.
THEOREM EpochsUnique == Spec => []OneCommitPerEpoch
<1>1. ASSUME TypeInv, ManifestInv, EpochInv PROVE OneCommitPerEpoch
  <2>1. TypeOK /\ ReadManifest \in Manifest /\ ReadManifest.chk <= ReadManifest.latest
    BY <1>1, ReadManifestType DEF TypeInv, ManifestInv, ReadManifest
  <2>2. ASSUME NEW n \in 0..Len(wal), ScansTo(wal, n)
        PROVE  UpTo(Replayed(ReadManifest, wal, n), MaxEpoch)
    <3>1. MaxEpoch \in Nat /\ ReadManifest.latest <= MaxEpoch
      BY <2>1, BoundsAssumption DEF Manifest, Epoch
    <3>2. ASSUME NEW i \in 1..n PROVE wal[i].epoch <= MaxEpoch
      <4>1. wal[i] \in Frame
        BY <2>1 DEF TypeOK
      <4> QED
        BY <4>1, BoundsAssumption DEF Frame, Epoch
    <3> QED
      BY <1>1, <2>1, <2>2, <3>1, <3>2, ReplayedUpTo
  <2>3. ASSUME NEW S \in Recoveries \cup {store} PROVE \E e : UpTo(S, e)
    BY <1>1, <2>2 DEF Recoveries, EpochInv
  <2> QED
    BY <2>3 DEF OneCommitPerEpoch, UpTo
<1>2. Init => TypeInv /\ ManifestInv /\ EpochInv
  BY TypeInit, ManifestInit, EpochInit
<1>3. TypeInv /\ ManifestInv /\ EpochInv /\ [Next]_vars => (TypeInv /\ ManifestInv /\ EpochInv)'
  BY TypeStep, ManifestStep, EpochStep
<1> QED
  BY <1>1, <1>2, <1>3, PTL DEF Spec
=============================================================================
