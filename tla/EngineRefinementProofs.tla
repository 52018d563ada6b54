----------------------- MODULE EngineRefinementProofs -----------------------
(***************************************************************************)
(* Engine implements DurableLog, for every value of the constants, under   *)
(* the faults the engine is meant to survive: the proof of                 *)
(* ImplementsDurableLog, and of AckedFramesStay.                           *)
(***************************************************************************)
EXTENDS EngineRefinement, EngineOrderProofs

-----------------------------------------------------------------------------
(* The order of commits *)

\* Later frames have later epochs and come from later write attempts.
Ordered(w) ==
    \A i, j \in 1..Len(w) : i < j => w[i].epoch < w[j].epoch /\ w[i].op < w[j].op

\* The commits of the whole frames of w above epoch e.
FramesAbove(w, e) ==
    {CommitOf(w[i]) : i \in {j \in 1..Len(w) : w[j].whole /\ w[j].epoch > e}}

\* The commits of S are at most at epoch e and older than the frames above it.
Before(S, w, e) ==
    \A c \in S : /\ c.epoch <= e
                 /\ \A i \in 1..Len(w) : w[i].epoch > e => c.op < w[i].op

\* The attempts that reached S or w have been issued; n is the last of them.
IssuedBy(S, w, n) ==
    (\A c \in S : c.op <= n) /\ \A i \in 1..Len(w) : w[i].op <= n

\* Nothing is recoverable that is as new as what an append is about to write.
AppendIsLast ==
    pc = "append" =>
        /\ \A i \in 1..Len(wal) : wal[i].epoch <= mem.latest
        /\ IssuedBy(chk[man.chk], wal, ops - 1)

\* The live store is what recovery would bring back, without the frames of
\* appends that failed after the last commit the handle knows of.
LiveIsPrefix ==
    Running => /\ store = {c \in chk[man.chk] \cup FramesAbove(wal, man.chk) :
                              c.epoch <= mem.latest}
               /\ man.latest <= mem.latest

\* What the operation under way is going to publish.
WriteUnderWay ==
    /\ pc \in {"backup", "publish"} =>
        /\ why # "checkpoint" => pend = mem
        /\ why = "commit" => [epoch |-> mem.latest, op |-> ops] \in store
        /\ why = "checkpoint" => pend.chk = mem.latest /\ pend.latest = mem.latest
    /\ pc = "truncate" => man.chk = mem.latest /\ pend.latest = mem.latest
    /\ man.state = "none" => man.chk = 0

OrderInv ==
    /\ Ordered(wal)
    /\ Before(chk[man.chk], wal, man.chk)
    /\ IssuedBy(chk[man.chk], wal, ops)
    /\ AppendIsLast
    /\ LiveIsPrefix
    /\ WriteUnderWay

\* v is w with its end cut off, perhaps in the middle of a frame.
Cut(v, w) ==
    /\ v \in Seq(Frame)
    /\ Len(v) <= Len(w)
    /\ \A i \in 1..Len(v) : /\ v[i].epoch = w[i].epoch /\ v[i].op = w[i].op
                            /\ v[i].whole \/ i < Len(v) => v[i] = w[i]

\* The numbers in a frame.
LEMMA FrameNumbers ==
    ASSUME NEW w \in Seq(Frame), NEW i \in 1..Len(w)
    PROVE  w[i] \in Frame /\ w[i].epoch \in Nat /\ w[i].op \in Nat
<1>1. w[i] \in Frame
  OBVIOUS
<1> QED
  BY <1>1 DEF Frame, Epoch, Op

\* Whatever is cut off, the order of the rest is what it was.
LEMMA CutOrder ==
    ASSUME NEW w \in Seq(Frame), NEW v, Cut(v, w), Ordered(w),
           NEW S, NEW e, Before(S, w, e), NEW n, IssuedBy(S, w, n)
    PROVE  Ordered(v) /\ Before(S, v, e) /\ IssuedBy(S, v, n)
<1>1. Len(v) \in Nat /\ Len(w) \in Nat /\ 1..Len(v) \subseteq 1..Len(w)
  BY DEF Cut
<1> QED
  BY <1>1 DEF Cut, Ordered, Before, IssuedBy

\* What is cut off is newer than what stays.
LEMMA CutAbove ==
    ASSUME NEW w \in Seq(Frame), NEW v, Cut(v, w), Ordered(w), NEW e
    PROVE  /\ FramesAbove(v, e) \subseteq FramesAbove(w, e)
           /\ \A c \in FramesAbove(v, e) : \A d \in FramesAbove(w, e) \ FramesAbove(v, e) :
                 c.epoch < d.epoch /\ c.op < d.op
<1>1. Len(v) \in Nat /\ Len(w) \in Nat /\ 1..Len(v) \subseteq 1..Len(w)
  BY DEF Cut
<1>2. FramesAbove(v, e) \subseteq FramesAbove(w, e)
  BY <1>1 DEF Cut, FramesAbove
<1>3. ASSUME NEW c \in FramesAbove(v, e), NEW d \in FramesAbove(w, e),
             d \notin FramesAbove(v, e)
      PROVE  c.epoch < d.epoch /\ c.op < d.op
  <2>1. PICK i \in 1..Len(v) : v[i].whole /\ v[i].epoch > e /\ c = CommitOf(v[i])
    BY DEF FramesAbove
  <2>2. PICK j \in 1..Len(w) : w[j].whole /\ w[j].epoch > e /\ d = CommitOf(w[j])
    BY DEF FramesAbove
  <2>3. v[i] = w[i] /\ i \in 1..Len(w)
    BY <1>1, <2>1 DEF Cut
  <2>4. i < j
    <3>1. ASSUME j <= i PROVE FALSE
      <4>1. j \in 1..Len(v) /\ (j = i \/ j < Len(v))
        BY <1>1, <3>1
      <4>2. v[j] = w[j]
        BY <2>3, <4>1 DEF Cut
      <4>3. d \in FramesAbove(v, e)
        BY <2>2, <4>1, <4>2 DEF FramesAbove
      <4> QED
        BY <1>3, <4>3
    <3> QED
      BY <1>1, <3>1
  <2>5. w[i].epoch < w[j].epoch /\ w[i].op < w[j].op
    BY <2>3, <2>4 DEF Ordered
  <2> QED
    BY <2>1, <2>2, <2>3, <2>5 DEF CommitOf
<1> QED
  BY <1>2, <1>3

\* The ways a file is cut: at a frame, in a frame, entirely, not at all.
LEMMA CutForms ==
    ASSUME NEW w \in Seq(Frame)
    PROVE  /\ Cut(w, w) /\ Cut(<<>>, w)
           /\ \A n \in 0..Len(w) : Cut(SubSeq(w, 1, n), w)
           /\ \A k \in 1..Len(w) : Cut(Torn(w, k), w)
<1>1. Len(w) \in Nat
  OBVIOUS
<1>2. Cut(w, w)
  BY <1>1 DEF Cut
<1>3. Cut(<<>>, w)
  BY <1>1 DEF Cut
<1>4. ASSUME NEW n \in 0..Len(w) PROVE Cut(SubSeq(w, 1, n), w)
  <2>1. /\ SubSeq(w, 1, n) \in Seq(Frame) /\ Len(SubSeq(w, 1, n)) = n
        /\ \A i \in 1..n : SubSeq(w, 1, n)[i] = w[i]
    BY SubSeqType
  <2>2. n <= Len(w)
    BY <1>1
  <2> QED
    BY <2>1, <2>2 DEF Cut
<1>5. ASSUME NEW k \in 1..Len(w) PROVE Cut(Torn(w, k), w)
  <2> DEFINE v == Torn(w, k)
  <2>1. /\ v \in Seq(Frame) /\ Len(v) = k /\ \A i \in 1..(k-1) : v[i] = w[i]
        /\ v[k] = [w[k] EXCEPT !.whole = FALSE]
    BY TornType
  <2>2. w[k] \in Frame /\ k \in Nat /\ k <= Len(w)
    BY <1>1
  <2>3. ~v[k].whole /\ v[k].epoch = w[k].epoch /\ v[k].op = w[k].op
    BY <2>1, <2>2 DEF Frame
  <2>4. \A i \in 1..k : (i = k /\ ~(i < k)) \/ i \in 1..(k-1)
    BY <2>2
  <2> HIDE DEF v
  <2>5. Cut(v, w)
    BY <2>1, <2>2, <2>3, <2>4 DEF Cut
  <2> QED
    BY <2>5 DEF v
<1> QED
  BY <1>2, <1>3, <1>4, <1>5

\* A frame newer than all others goes to the end of the order.
LEMMA AppendOrder ==
    ASSUME NEW w \in Seq(Frame), NEW f \in Frame, Ordered(w),
           \A i \in 1..Len(w) : w[i].epoch < f.epoch /\ w[i].op < f.op,
           NEW S, NEW e, Before(S, w, e), \A c \in S : c.op < f.op,
           NEW n, IssuedBy(S, w, n), f.op <= n
    PROVE  /\ Ordered(Append(w, f)) /\ Before(S, Append(w, f), e)
           /\ IssuedBy(S, Append(w, f), n)
<1> DEFINE v == Append(w, f)
<1>1. /\ Len(w) \in Nat /\ Len(v) = Len(w) + 1
      /\ (\A i \in 1..Len(w) : v[i] = w[i]) /\ v[Len(w) + 1] = f
  OBVIOUS
<1>2. \A i \in 1..Len(v) : i \in 1..Len(w) \/ i = Len(w) + 1
  BY <1>1
<1>3. \A i, j \in 1..Len(v) : i < j => i \in 1..Len(w)
  BY <1>1
<1> HIDE DEF v
<1>4. Ordered(v)
  BY <1>1, <1>2, <1>3 DEF Ordered
<1>5. Before(S, v, e) /\ IssuedBy(S, v, n)
  BY <1>1, <1>2 DEF Before, IssuedBy
<1> QED
  BY <1>4, <1>5 DEF v

\* And its commit is added, if it is whole and above e.
LEMMA AppendAbove ==
    ASSUME NEW w \in Seq(Frame), NEW f \in Frame, NEW e, f.epoch > e
    PROVE  FramesAbove(Append(w, f), e) =
              FramesAbove(w, e) \cup IF f.whole THEN {CommitOf(f)} ELSE {}
<1> DEFINE v == Append(w, f)
<1>1. /\ Len(w) \in Nat /\ Len(v) = Len(w) + 1 /\ Len(w) + 1 \in 1..Len(v)
      /\ (\A i \in 1..Len(w) : v[i] = w[i] /\ i \in 1..Len(v)) /\ v[Len(w) + 1] = f
  OBVIOUS
<1>2. \A i \in 1..Len(v) : i \in 1..Len(w) \/ i = Len(w) + 1
  BY <1>1
<1> HIDE DEF v
<1>3. \A c : c \in FramesAbove(v, e) <=>
              c \in FramesAbove(w, e) \/ (f.whole /\ c = CommitOf(f))
  BY <1>1, <1>2 DEF FramesAbove
<1> QED
  BY <1>3 DEF v

-----------------------------------------------------------------------------
(* The log: what recovery would bring back *)

Log == chk[man.chk] \cup FramesAbove(wal, man.chk)

\* The log of the refinement mapping, before and after a step.
LEMMA LogNow ==
    ASSUME DurabilityInv PROVE Recoverable = Log
BY ReadsPrimary DEF DurabilityInv, Recoverable, LoadCheckpoint, Log, FramesAbove

\* The same, after a step.
LEMMA LogNext ==
    ASSUME DurabilityInv' PROVE Recoverable' = Log'
<1>1. ReadManifest' = man'
  BY DEF DurabilityInv, ManifestShape, ReadManifest
<1> QED
  BY <1>1 DEF Recoverable, LoadCheckpoint, Log, FramesAbove

\* Commits in the log have numbers, and those beyond the checkpoint are frames.
LEMMA LogNumbers ==
    ASSUME TypeOK
    PROVE  /\ wal \in Seq(Frame) /\ Len(wal) \in Nat /\ man.chk \in Epoch
           /\ man.chk \in Nat /\ man.latest \in Nat /\ mem.latest \in Nat /\ ops \in Nat
           /\ mem.latest \in Epoch
           /\ \A c \in chk[man.chk] : c.epoch \in Nat /\ c.op \in Nat
           /\ \A c \in FramesAbove(wal, man.chk) : c.epoch \in Nat /\ c.op \in Nat
           /\ \A c \in store : c.epoch \in Nat /\ c.op \in Nat
<1>1. wal \in Seq(Frame) /\ man \in Manifest /\ mem \in Manifest /\ ops \in Op
  BY DEF TypeOK
<1>2. man.chk \in Epoch /\ mem.latest \in Epoch
  BY <1>1 DEF Manifest
<1>3. man.chk \in Nat /\ man.latest \in Nat /\ mem.latest \in Nat
  BY <1>1, ManifestNumbers
<1>4. \A c \in Commit : c.epoch \in Nat /\ c.op \in Nat
  BY DEF Commit, Epoch, Op
<1>5. chk[man.chk] \subseteq Commit /\ store \subseteq Commit
  BY <1>2 DEF TypeOK
<1>6. ASSUME NEW c \in FramesAbove(wal, man.chk) PROVE c.epoch \in Nat /\ c.op \in Nat
  <2>1. PICK i \in 1..Len(wal) : c = CommitOf(wal[i])
    BY DEF FramesAbove
  <2>2. wal[i].epoch \in Nat /\ wal[i].op \in Nat
    BY <1>1, FrameNumbers
  <2> QED
    BY <2>1, <2>2 DEF CommitOf
<1>7. ops \in Nat
  BY <1>1 DEF Op
<1> QED
  BY <1>1, <1>2, <1>3, <1>4, <1>5, <1>6, <1>7

\* The frame that an append writes is newer than all of the log.
LEMMA NewIsNewest ==
    ASSUME TypeInv, DurabilityInv, OrderInv, pc = "append",
           NEW f \in Frame, f.epoch = mem.latest + 1, f.op = ops
    PROVE  /\ f.epoch > man.chk
           /\ \A i \in 1..Len(wal) : wal[i].epoch < f.epoch /\ wal[i].op < f.op
           /\ \A c \in chk[man.chk] : c.epoch < f.epoch /\ c.op < f.op
           /\ \A c \in Log : c.epoch < f.epoch /\ c.op < f.op
<1>1. TypeOK /\ Running
  BY DEF TypeInv, Running
<1>2. /\ man.chk \in Nat /\ man.latest \in Nat /\ mem.latest \in Nat /\ ops \in Nat
      /\ wal \in Seq(Frame) /\ \A c \in chk[man.chk] : c.epoch \in Nat /\ c.op \in Nat
  BY <1>1, LogNumbers
<1>3. man.chk <= man.latest /\ man.latest <= mem.latest
  BY <1>1 DEF DurabilityInv, ManifestShape, OrderInv, LiveIsPrefix
<1>4. f.epoch > man.chk
  BY <1>2, <1>3
<1>5. ASSUME NEW i \in 1..Len(wal) PROVE wal[i].epoch < f.epoch /\ wal[i].op < f.op
  <2>1. wal[i].epoch <= mem.latest /\ wal[i].op <= ops - 1
    BY DEF OrderInv, AppendIsLast, IssuedBy
  <2>2. wal[i].epoch \in Nat /\ wal[i].op \in Nat
    BY <1>2, FrameNumbers
  <2> QED
    BY <1>2, <2>1, <2>2
<1>6. ASSUME NEW c \in chk[man.chk] PROVE c.epoch < f.epoch /\ c.op < f.op
  <2>1. c.epoch <= man.chk /\ c.op <= ops - 1
    BY DEF OrderInv, AppendIsLast, IssuedBy, Before
  <2>2. c.epoch \in Nat /\ c.op \in Nat
    BY <1>2
  <2> QED
    BY <1>2, <1>4, <2>1, <2>2
<1>7. ASSUME NEW c \in Log PROVE c.epoch < f.epoch /\ c.op < f.op
  <2>1. CASE c \in chk[man.chk]
    BY <1>6, <2>1
  <2>2. CASE c \in FramesAbove(wal, man.chk)
    <3>1. PICK i \in 1..Len(wal) : c = CommitOf(wal[i])
      BY <2>2 DEF FramesAbove
    <3> QED
      BY <1>5, <3>1 DEF CommitOf
  <2> QED
    BY <2>1, <2>2 DEF Log
<1> QED
  BY <1>4, <1>5, <1>6, <1>7

\* A checkpoint made of the live store stands for the frames up to its epoch:
\* a manifest that names it changes nothing in the log or in its order.
LEMMA StoreStandsIn ==
    ASSUME TypeInv, DurabilityInv, OrderInv, Running
    PROVE  /\ store \cup FramesAbove(wal, mem.latest) = Log
           /\ Before(store, wal, mem.latest)
           /\ IssuedBy(store, wal, ops)
           /\ man.chk = mem.latest => store = chk[man.chk]
<1>1. TypeOK
  BY DEF TypeInv
<1>2. /\ man.chk \in Nat /\ man.latest \in Nat /\ mem.latest \in Nat
      /\ wal \in Seq(Frame) /\ \A c \in chk[man.chk] : c.epoch \in Nat /\ c.op \in Nat
      /\ \A c \in FramesAbove(wal, man.chk) : c.epoch \in Nat
  BY <1>1, LogNumbers
<1>3. man.chk <= mem.latest
  <2>1. man.chk <= man.latest /\ man.latest <= mem.latest
    BY DEF DurabilityInv, ManifestShape, OrderInv, LiveIsPrefix
  <2> QED
    BY <1>2, <2>1
<1>4. \A c : c \in store <=> c \in Log /\ c.epoch <= mem.latest
  BY DEF OrderInv, LiveIsPrefix, Log
<1>5. ASSUME NEW c \in chk[man.chk] PROVE c \in store
  <2>1. c.epoch <= man.chk
    BY DEF OrderInv, Before
  <2> QED
    BY <1>2, <1>3, <1>4, <2>1 DEF Log
<1>6. ASSUME NEW c PROVE c \in store \cup FramesAbove(wal, mem.latest) <=> c \in Log
  <2>1. ASSUME c \in FramesAbove(wal, mem.latest) PROVE c \in Log
    <3>1. PICK i \in 1..Len(wal) : wal[i].whole /\ wal[i].epoch > mem.latest
                                       /\ c = CommitOf(wal[i])
      BY <2>1 DEF FramesAbove
    <3>2. wal[i].epoch \in Nat
      BY <1>2, FrameNumbers
    <3>3. wal[i].epoch > man.chk
      BY <1>2, <1>3, <3>1, <3>2
    <3> QED
      BY <3>1, <3>3 DEF Log, FramesAbove
  <2>2. ASSUME c \in FramesAbove(wal, man.chk), ~(c.epoch <= mem.latest)
        PROVE  c \in FramesAbove(wal, mem.latest)
    <3>1. PICK i \in 1..Len(wal) : wal[i].whole /\ c = CommitOf(wal[i])
      BY <2>2 DEF FramesAbove
    <3>2. wal[i].epoch \in Nat /\ c.epoch = wal[i].epoch
      BY <1>2, <3>1, FrameNumbers DEF CommitOf
    <3>3. wal[i].epoch > mem.latest
      BY <1>2, <2>2, <3>2
    <3> QED
      BY <3>1, <3>3 DEF FramesAbove
  <2> QED
    BY <1>4, <1>5, <2>1, <2>2 DEF Log
<1>7. ASSUME NEW c \in store, NEW i \in 1..Len(wal), wal[i].epoch > mem.latest
      PROVE  c.op < wal[i].op
  <2>1. wal[i].epoch > man.chk /\ wal[i].epoch \in Nat
    <3>1. wal[i].epoch \in Nat
      BY <1>2, FrameNumbers
    <3> QED
      BY <1>2, <1>3, <1>7, <3>1
  <2>2. CASE c \in chk[man.chk]
    BY <2>1, <2>2 DEF OrderInv, Before
  <2>3. CASE c \in FramesAbove(wal, man.chk)
    <3>1. PICK j \in 1..Len(wal) : c = CommitOf(wal[j])
      BY <2>3 DEF FramesAbove
    <3>2. wal[j].epoch <= mem.latest /\ c.op = wal[j].op
      BY <1>4, <3>1 DEF CommitOf
    <3>3. j < i
      <4>1. wal[j].epoch \in Nat
        BY <1>2, FrameNumbers
      <4>2. wal[j].epoch < wal[i].epoch
        BY <1>2, <1>7, <2>1, <3>2, <4>1
      <4>3. i < j => wal[i].epoch < wal[j].epoch
        BY DEF OrderInv, Ordered
      <4>4. i = j => wal[i].epoch = wal[j].epoch
        OBVIOUS
      <4>5. i < j \/ i = j \/ j < i
        BY <1>2
      <4> QED
        BY <2>1, <4>1, <4>2, <4>3, <4>4, <4>5
    <3> QED
      BY <3>2, <3>3 DEF OrderInv, Ordered
  <2> QED
    BY <1>4, <2>2, <2>3 DEF Log
<1>8. Before(store, wal, mem.latest)
  BY <1>4, <1>7 DEF Before
<1>9. IssuedBy(store, wal, ops)
  <2>1. ASSUME NEW c \in store PROVE c.op <= ops
    BY <1>4 DEF Log, FramesAbove, CommitOf, OrderInv, IssuedBy
  <2> QED
    BY <2>1 DEF OrderInv, IssuedBy
<1>10. ASSUME man.chk = mem.latest, NEW c \in store PROVE c \in chk[man.chk]
  <2>1. ASSUME c \in FramesAbove(wal, man.chk) PROVE FALSE
    <3>1. PICK i \in 1..Len(wal) : wal[i].epoch > man.chk /\ c = CommitOf(wal[i])
      BY <2>1 DEF FramesAbove
    <3>2. c.epoch = wal[i].epoch /\ wal[i].epoch \in Nat
      BY <1>2, <3>1, FrameNumbers DEF CommitOf
    <3>3. c.epoch <= mem.latest
      BY <1>4
    <3> QED
      BY <1>2, <1>10, <3>1, <3>2, <3>3
  <2> QED
    BY <1>4, <2>1 DEF Log
<1> QED
  BY <1>5, <1>6, <1>8, <1>9, <1>10

-----------------------------------------------------------------------------
(* What steps do to the log *)

OrderKept ==
    Ordered(wal) /\ Before(chk[man.chk], wal, man.chk) /\ IssuedBy(chk[man.chk], wal, ops)

\* An acknowledged commit stays in the log.
LEMMA AckedInLog ==
    ASSUME TypeOK', DurabilityInv' PROVE acked' \subseteq Log'
<1>1. synced' \in 0..Len(wal') /\ Len(wal') \in Nat
  BY DEF TypeOK
<1>2. 1..synced' \subseteq 1..Len(wal')
  BY <1>1
<1>3. \A c \in acked' : OnDisk(c, synced)'
  BY DEF DurabilityInv, CommitsKept
<1> QED
  BY <1>2, <1>3 DEF OnDisk, Log, FramesAbove

\* Frames disappear from the end: the abstract log forgets them.
LEMMA CutForgets ==
    ASSUME TypeInv, TypeInv', DurabilityInv, DurabilityInv', OrderInv, Cut(wal', wal),
           man'.chk = man.chk, chk'[man'.chk] = chk[man.chk], UNCHANGED <<acked, ops>>
    PROVE  OrderKept' /\ DL!Forget
<1>0. wal \in Seq(Frame) /\ Ordered(wal)
  BY DEF TypeInv, TypeOK, OrderInv
<1>1. OrderKept'
  BY <1>0, CutOrder DEF OrderInv, OrderKept
<1>2. Recoverable = Log /\ Recoverable' = Log'
  BY LogNow, LogNext
<1>3. /\ FramesAbove(wal', man.chk) \subseteq FramesAbove(wal, man.chk)
      /\ \A c \in FramesAbove(wal', man.chk) :
           \A d \in FramesAbove(wal, man.chk) \ FramesAbove(wal', man.chk) :
             c.epoch < d.epoch /\ c.op < d.op
  BY <1>0, CutAbove
<1>4. Log' = chk[man.chk] \cup FramesAbove(wal', man.chk)
  BY DEF Log
<1>5. Log' \subseteq Log
  BY <1>3, <1>4 DEF Log
<1>6. ASSUME NEW c \in Log', NEW d \in Log, d \notin Log'
      PROVE  DL!Precedes(c, d)
  <2>1. d \in FramesAbove(wal, man.chk) /\ d \notin FramesAbove(wal', man.chk)
    BY <1>4, <1>6 DEF Log
  <2>2. CASE c \in FramesAbove(wal', man.chk)
    BY <1>3, <2>1, <2>2 DEF DL!Precedes
  <2>3. CASE c \in chk[man.chk]
    <3>1. PICK i \in 1..Len(wal) : wal[i].epoch > man.chk /\ d = CommitOf(wal[i])
      BY <2>1 DEF FramesAbove
    <3>2. c.epoch <= man.chk /\ c.op < wal[i].op
      BY <2>3, <3>1 DEF OrderInv, Before
    <3>3. c.epoch \in Nat /\ man.chk \in Nat /\ wal[i].epoch \in Nat
      BY <2>3, <1>0, LogNumbers, FrameNumbers DEF TypeInv
    <3>4. c.epoch < wal[i].epoch
      BY <3>1, <3>2, <3>3
    <3> QED
      BY <3>1, <3>2, <3>4 DEF DL!Precedes, CommitOf
  <2> QED
    BY <1>4, <2>2, <2>3
<1>7. acked \subseteq Log'
  BY AckedInLog DEF TypeInv
<1> QED
  BY <1>1, <1>2, <1>5, <1>6, <1>7 DEF DL!Forget

\* A frame is appended: the current attempt is recorded, unless it is cut off.
LEMMA AppendRecords ==
    ASSUME TypeInv, TypeInv', DurabilityInv, DurabilityInv', OrderInv, pc = "append",
           NEW f \in Frame, f.epoch = mem.latest + 1, f.op = ops, wal' = Append(wal, f),
           UNCHANGED <<man, chk, acked, ops>>
    PROVE  /\ OrderKept'
           /\ Log' = Log \cup IF f.whole THEN {CommitOf(f)} ELSE {}
           /\ DL!Record \/ UNCHANGED DL!logVars
<1>0. wal \in Seq(Frame) /\ Ordered(wal) /\ ops \in Nat
  BY DEF TypeInv, TypeOK, OrderInv, Op
<1>1. /\ f.epoch > man.chk
      /\ \A i \in 1..Len(wal) : wal[i].epoch < f.epoch /\ wal[i].op < f.op
      /\ \A c \in chk[man.chk] : c.epoch < f.epoch /\ c.op < f.op
      /\ \A c \in Log : c.epoch < f.epoch /\ c.op < f.op
  BY NewIsNewest
<1>2. OrderKept'
  <2>1. f.op <= ops
    BY <1>0
  <2> QED
    BY <1>0, <1>1, <2>1, AppendOrder DEF OrderInv, OrderKept
<1>3. Log' = Log \cup IF f.whole THEN {CommitOf(f)} ELSE {}
  <2>1. FramesAbove(wal', man.chk) =
           FramesAbove(wal, man.chk) \cup IF f.whole THEN {CommitOf(f)} ELSE {}
    BY <1>0, <1>1, AppendAbove
  <2> QED
    BY <2>1 DEF Log
<1>4. Recoverable = Log /\ Recoverable' = Log'
  BY LogNow, LogNext
<1>5. CASE f.whole
  <2> DEFINE c == CommitOf(f)
  <2>1. c \in Log' /\ Log' = Log \cup {c}
    BY <1>3, <1>5
  <2>2. c.op = ops /\ \A d \in Log : DL!Precedes(d, c)
    BY <1>1 DEF CommitOf, DL!Precedes
  <2> HIDE DEF c
  <2>3. DL!Record
    BY <1>4, <2>1, <2>2 DEF DL!Record
  <2> QED
    BY <1>2, <1>3, <2>3
<1>6. CASE ~f.whole
  BY <1>2, <1>3, <1>4, <1>6 DEF DL!logVars
<1> QED
  BY <1>5, <1>6

\* The manifest or the checkpoint file changes so that the live store is the
\* checkpoint: the log is what it was.
LEMMA StoreReplaces ==
    ASSUME TypeInv, TypeInv', DurabilityInv, DurabilityInv', OrderInv, Running,
           chk'[man'.chk] = store, man'.chk = mem.latest, UNCHANGED <<wal, acked, ops>>
    PROVE  OrderKept' /\ Log' = Log /\ UNCHANGED DL!logVars
<1>1. /\ store \cup FramesAbove(wal, mem.latest) = Log
      /\ Before(store, wal, mem.latest) /\ IssuedBy(store, wal, ops)
  BY StoreStandsIn
<1>2. OrderKept'
  BY <1>1 DEF OrderInv, OrderKept
<1>3. Log' = Log
  BY <1>1 DEF Log
<1>4. Recoverable = Log /\ Recoverable' = Log'
  BY LogNow, LogNext
<1> QED
  BY <1>2, <1>3, <1>4 DEF DL!logVars

\* What a crash or a power loss may leave of the WAL.
LEMMA CrashLeaves ==
    ASSUME TypeInv, Crash \/ PowerLoss
    PROVE  \/ Cut(wal', wal)
           \/ /\ pc = "append"
              /\ \E f \in Frame : /\ f.epoch = mem.latest + 1 /\ f.op = ops
                                  /\ wal' = Append(wal, f)
<1>0. wal \in Seq(Frame) /\ Len(wal) \in Nat /\ TypeOK
  BY DEF TypeInv, TypeOK
<1>1. PICK w \in InFlight : Cut(wal', w)
  <2>0. \A w \in InFlight : w \in Seq(Frame)
    BY <1>0, NewFrameType DEF InFlight, TypeInv
  <2>1. CASE Crash
    <3>1. PICK w \in InFlight : CrashTo(w, synced)
      BY <2>1 DEF Crash
    <3> QED
      BY <2>0, <3>1, CutForms DEF CrashTo
  <2>2. CASE PowerLoss
    <3>0. PICK w \in InFlight : \E k \in synced..Len(w) :
            \/ CrashTo(SubSeq(w, 1, k), k)
            \/ k > synced /\ CrashTo(Torn(w, k), k)
      BY <2>2 DEF PowerLoss
    <3>1. PICK k \in synced..Len(w) :
            \/ CrashTo(SubSeq(w, 1, k), k)
            \/ k > synced /\ CrashTo(Torn(w, k), k)
      BY <3>0
    <3>2. w \in Seq(Frame) /\ Len(w) \in Nat /\ synced \in Nat
      BY <1>0, <2>0 DEF TypeOK
    <3>3. CASE CrashTo(SubSeq(w, 1, k), k)
      BY <3>2, <3>3, CutForms DEF CrashTo
    <3>4. CASE k > synced /\ CrashTo(Torn(w, k), k)
      <4>1. k \in 1..Len(w)
        BY <3>2, <3>4
      <4> QED
        BY <3>2, <3>4, <4>1, CutForms DEF CrashTo
    <3> QED
      BY <3>1, <3>3, <3>4
  <2> QED
    BY <2>1, <2>2
<1>2. CASE w = wal
  BY <1>1, <1>2
<1>3. CASE w # wal
  <2>1. PICK b \in BOOLEAN : pc = "append" /\ w = Append(wal, NewFrame(b))
    BY <1>3 DEF InFlight
  <2> DEFINE n == NewFrame(b)
  <2>2. n \in Frame /\ n.epoch = mem.latest + 1 /\ n.op = ops
    BY <1>0, <2>1, NewFrameType DEF TypeInv, NewFrame
  <2>3. w = Append(wal, n)
    BY <2>1
  <2> HIDE DEF n
  <2>4. /\ w \in Seq(Frame) /\ Len(w) = Len(wal) + 1 /\ w[Len(wal) + 1] = n
        /\ \A i \in 1..Len(wal) : w[i] = wal[i]
    BY <1>0, <2>2, <2>3
  <2>5. wal' \in Seq(Frame) /\ Len(wal') \in Nat /\ Len(wal') <= Len(wal) + 1
    BY <1>1, <2>4 DEF Cut
  <2>6. CASE Len(wal') <= Len(wal)
    <3>1. 1..Len(wal') \subseteq 1..Len(wal)
      BY <1>0, <2>5, <2>6
    <3>2. Cut(wal', wal)
      BY <1>1, <2>4, <2>6, <3>1 DEF Cut
    <3> QED
      BY <3>2
  <2>7. CASE Len(wal') = Len(wal) + 1
    <3> DEFINE f == wal'[Len(wal) + 1]
    <3>1. Len(wal) + 1 \in 1..Len(wal') /\ f \in Frame
      BY <1>0, <2>5, <2>7
    <3>2. f.epoch = n.epoch /\ f.op = n.op
      BY <1>1, <2>4, <3>1 DEF Cut
    <3>3. ASSUME NEW i \in 1..Len(wal) PROVE wal'[i] = wal[i]
      <4>1. i \in 1..Len(wal') /\ i < Len(wal')
        BY <1>0, <2>7
      <4> QED
        BY <1>1, <2>4, <4>1 DEF Cut
    <3>4. wal' = Append(wal, f)
      <4> DEFINE a == Append(wal, f)
      <4>1. /\ a \in Seq(Frame) /\ Len(a) = Len(wal) + 1 /\ a[Len(wal) + 1] = f
            /\ \A i \in 1..Len(wal) : a[i] = wal[i]
        BY <1>0, <3>1
      <4> HIDE DEF a, f
      <4>2. \A i \in 1..(Len(wal) + 1) : i \in 1..Len(wal) \/ i = Len(wal) + 1
        BY <1>0
      <4>3. \A i \in 1..(Len(wal) + 1) : a[i] = wal'[i]
        BY <3>3, <4>1, <4>2 DEF f
      <4>4. a = wal'
        BY <2>5, <2>7, <4>1, <4>3, SeqEqual
      <4> QED
        BY <4>4 DEF a
    <3> HIDE DEF f
    <3> QED
      BY <2>1, <2>2, <3>1, <3>2, <3>4
  <2> QED
    BY <2>4, <2>5, <2>6, <2>7
<1> QED
  BY <1>2, <1>3

-----------------------------------------------------------------------------
(* Every step keeps the order, and is a step of the abstract log *)

\* The initial state satisfies the invariant and maps to an initial state.
LEMMA OrderInit == Init => OrderInv /\ DL!Init
<1> SUFFICES ASSUME Init PROVE OrderInv /\ DL!Init
  OBVIOUS
<1>1. 0 \in Epoch /\ wal = <<>> /\ Len(wal) = 0
  BY BoundsAssumption DEF Init, Epoch
<1>2. man.chk = 0 /\ chk[man.chk] = {} /\ ReadManifest.chk = 0 /\ pc = "closed"
  BY <1>1 DEF Init, NoManifest, ReadManifest
<1>3. OrderInv
  BY <1>1, <1>2 DEF OrderInv, Ordered, Before, IssuedBy, AppendIsLast, LiveIsPrefix,
     WriteUnderWay, Running
<1>4. Recoverable = {}
  BY <1>1, <1>2 DEF Recoverable, LoadCheckpoint
<1> QED
  BY <1>3, <1>4 DEF DL!Init, Init

\* Opening: what is cut off was no commit, and the store is the whole log.
LEMMA OpenRefines ==
    ASSUME TypeInv, TypeInv', DurabilityInv, DurabilityInv', OrderInv, Open
    PROVE  OrderInv' /\ DL!Forget
<1>0. /\ TypeOK /\ wal \in Seq(Frame) /\ Len(wal) \in Nat /\ man.chk \in Nat
      /\ man.latest \in Nat /\ \A c \in chk[man.chk] : c.epoch \in Nat
  BY LogNumbers DEF TypeInv
<1>1. ReadManifest = man /\ man.chk <= man.latest
  BY ReadsPrimary DEF DurabilityInv, ManifestShape
<1>2. PICK n \in 0..Len(wal) :
        LET last == IF n = 0 THEN 0 ELSE wal[n].epoch
            behind == last > man.chk /\ last > man.latest
        IN  /\ ScansTo(wal, n)
            /\ wal' = SubSeq(wal, 1, n)
            /\ store' = Replayed(man, wal, n)
            /\ mem' = IF behind THEN AtEpoch(man, last) ELSE man
            /\ pend' = mem'
            /\ pc' = IF behind THEN "backup" ELSE "idle"
  BY <1>1 DEF Open
<1>3. UNCHANGED <<man, chk, acked, ops>> /\ why' = "open" /\ pc' \in {"backup", "idle"}
  BY <1>2 DEF Open, counters
<1>4. OrderKept' /\ DL!Forget
  <2>1. Cut(wal', wal)
    BY <1>0, <1>2, CutForms
  <2> QED
    BY <1>3, <2>1, CutForgets
<1>5. wal' \in Seq(Frame) /\ Len(wal') = n /\ \A i \in 1..n : wal'[i] = wal[i]
  BY <1>0, <1>2, SubSeqType
<1>6. store' = Log'
  <2>1. \A i \in 1..n : wal[i].whole
    BY <1>2 DEF ScansTo
  <2> QED
    BY <1>2, <1>3, <1>5, <2>1 DEF Replayed, LoadCheckpoint, Log, FramesAbove
<1> DEFINE last == IF n = 0 THEN 0 ELSE wal[n].epoch
<1>7. last \in Nat /\ \A i \in 1..n : wal[i].epoch <= last /\ wal[i].epoch \in Nat
  <2>1. CASE n = 0
    BY <2>1
  <2>2. CASE n # 0
    <3>1. n \in 1..Len(wal) /\ wal[n].epoch \in Nat
      BY <1>0, <2>2, FrameNumbers
    <3>2. ASSUME NEW i \in 1..n PROVE wal[i].epoch <= wal[n].epoch /\ wal[i].epoch \in Nat
      <4>1. i \in 1..Len(wal) /\ (i = n \/ i < n)
        BY <1>0
      <4>2. wal[i].epoch \in Nat
        BY <1>0, <4>1, FrameNumbers
      <4>3. i < n => wal[i].epoch < wal[n].epoch
        BY <3>1, <4>1 DEF OrderInv, Ordered
      <4> QED
        BY <3>1, <4>1, <4>2, <4>3
    <3> QED
      BY <2>2, <3>1, <3>2
  <2> QED
    BY <2>1, <2>2
<1>8. /\ mem'.latest \in Nat /\ man.latest <= mem'.latest
      /\ last > man.chk => last <= mem'.latest
  <2>1. CASE last > man.chk /\ last > man.latest
    <3>1. mem' = AtEpoch(man, last)
      BY <1>2, <2>1
    <3>2. mem'.latest = last
      BY <3>1 DEF AtEpoch
    <3> HIDE DEF last
    <3> QED
      BY <1>0, <1>7, <2>1, <3>2
  <2>2. CASE ~(last > man.chk /\ last > man.latest)
    <3>1. mem' = man
      BY <1>2, <2>2
    <3> HIDE DEF last
    <3> QED
      BY <1>0, <1>1, <1>7, <2>2, <3>1
  <2> QED
    BY <2>1, <2>2
<1> HIDE DEF last
<1>9. ASSUME NEW c \in Log' PROVE c.epoch <= mem'.latest
  <2>1. CASE c \in chk[man.chk]
    <3>1. c.epoch <= man.chk /\ c.epoch \in Nat
      BY <1>0, <2>1 DEF OrderInv, Before
    <3> QED
      BY <1>0, <1>1, <1>8, <3>1
  <2>2. CASE c \in FramesAbove(wal', man.chk)
    <3>1. PICK i \in 1..n : wal[i].epoch > man.chk /\ c = CommitOf(wal[i])
      BY <1>5, <2>2 DEF FramesAbove
    <3>2. c.epoch = wal[i].epoch
      BY <3>1 DEF CommitOf
    <3> QED
      BY <1>0, <1>7, <1>8, <3>1, <3>2
  <2> QED
    BY <1>3, <2>1, <2>2 DEF Log
<1>10. LiveIsPrefix'
  BY <1>3, <1>6, <1>8, <1>9 DEF LiveIsPrefix, Log
<1>11. AppendIsLast' /\ WriteUnderWay'
  BY <1>2, <1>3 DEF AppendIsLast, WriteUnderWay, OrderInv
<1> QED
  BY <1>4, <1>10, <1>11 DEF OrderInv, OrderKept

\* A commit's frame reaches the file and the live store.
LEMMA AppendRefines ==
    ASSUME TypeInv, TypeInv', DurabilityInv, DurabilityInv', OrderInv,
           AppendCommit \/ AppendSyncFails
    PROVE  OrderInv' /\ (DL!Record \/ UNCHANGED DL!logVars)
<1> DEFINE f == NewFrame(TRUE)
<1>0. /\ pc = "append" /\ Running /\ wal' = Append(wal, f) /\ UNCHANGED <<man, chk, acked, ops>>
      /\ mem.latest \in Nat /\ man.latest \in Nat /\ TypeOK
  BY LogNumbers DEF AppendCommit, AppendSyncFails, Running, counters, TypeInv
<1>1. f \in Frame /\ f.epoch = mem.latest + 1 /\ f.op = ops /\ f.whole
  BY <1>0, NewFrameType DEF TypeInv, NewFrame
<1>2. CommitOf(f) = [epoch |-> mem.latest + 1, op |-> ops]
  BY DEF CommitOf, NewFrame
<1> HIDE DEF f
<1>3. /\ OrderKept' /\ Log' = Log \cup {CommitOf(f)}
      /\ DL!Record \/ UNCHANGED DL!logVars
  BY <1>0, <1>1, AppendRecords
<1>4. \A c \in Log : c.epoch < f.epoch
  BY <1>0, <1>1, NewIsNewest
<1>5. /\ \A c : c \in store <=> c \in Log /\ c.epoch <= mem.latest
      /\ man.latest <= mem.latest /\ man.state # "none"
  BY <1>0 DEF OrderInv, LiveIsPrefix, Log, DurabilityInv, ManifestShape
<1>6. \A c \in Log : c.epoch \in Nat
  BY <1>0, LogNumbers DEF Log
<1>7. CASE AppendCommit
  <2>1. /\ pc' = "backup" /\ why' = "commit" /\ mem' = AtEpoch(mem, mem.latest + 1)
        /\ pend' = mem' /\ store' = store \cup {CommitOf(f)}
    BY <1>7 DEF AppendCommit, f
  <2>2. mem'.latest = mem.latest + 1
    BY <2>1 DEF AtEpoch
  <2>3. \A c \in Log : c.epoch <= mem.latest /\ c.epoch <= mem.latest + 1
    BY <1>0, <1>1, <1>4, <1>6
  <2>4. CommitOf(f).epoch <= mem.latest + 1
    BY <1>0, <1>2
  <2>5. store' = Log'
    BY <1>3, <1>5, <2>1, <2>3
  <2>6. \A c \in Log' : c.epoch <= mem'.latest
    BY <1>3, <2>2, <2>3, <2>4
  <2>7. man'.latest <= mem'.latest
    BY <1>0, <1>5, <2>2
  <2>8. LiveIsPrefix'
    BY <2>5, <2>6, <2>7 DEF LiveIsPrefix, Log
  <2>9. [epoch |-> mem'.latest, op |-> ops'] \in store'
    BY <1>0, <1>2, <2>1, <2>2
  <2> QED
    BY <1>0, <1>3, <1>5, <2>1, <2>8, <2>9
    DEF OrderInv, OrderKept, AppendIsLast, WriteUnderWay
<1>8. CASE AppendSyncFails
  <2>1. pc' = "idle" /\ UNCHANGED <<mem, store>>
    BY <1>8 DEF AppendSyncFails, handle
  <2>2. ~(CommitOf(f).epoch <= mem.latest)
    BY <1>0, <1>2
  <2>3. \A c : c \in store' <=> c \in Log' /\ c.epoch <= mem'.latest
    BY <1>3, <1>5, <2>1, <2>2
  <2>4. LiveIsPrefix'
    BY <1>0, <1>5, <2>1, <2>3 DEF LiveIsPrefix, Log
  <2> QED
    BY <1>0, <1>3, <1>5, <2>1, <2>4
    DEF OrderInv, OrderKept, AppendIsLast, WriteUnderWay
<1> QED
  BY <1>7, <1>8

\* A manifest is published: the log and its order are what they were.
LEMMA PublishedLog ==
    ASSUME TypeInv, DurabilityInv, OrderInv, pc \in {"backup", "publish"},
           man' = pend, UNCHANGED <<wal, chk, ops>>
    PROVE  OrderKept' /\ Log' = Log /\ man'.latest = mem.latest /\ man'.state = "ok"
<1>0. Running /\ pend.state = "ok"
  BY DEF Running, DurabilityInv, HandleShape
<1>1. CASE why = "checkpoint"
  <2>1. chk'[man'.chk] = store /\ man'.chk = mem.latest /\ man'.latest = mem.latest
    BY <1>1 DEF DurabilityInv, HandleShape, OrderInv, WriteUnderWay
  <2>2. /\ store \cup FramesAbove(wal, mem.latest) = Log
        /\ Before(store, wal, mem.latest) /\ IssuedBy(store, wal, ops)
    BY <1>0, StoreStandsIn
  <2> QED
    BY <1>0, <2>1, <2>2 DEF OrderInv, OrderKept, Log
<1>2. CASE why # "checkpoint"
  <2>1. man'.chk = man.chk /\ man'.latest = mem.latest
    BY <1>2 DEF DurabilityInv, HandleShape, OrderInv, WriteUnderWay
  <2> QED
    BY <1>0, <2>1 DEF OrderInv, OrderKept, Log
<1> QED
  BY <1>1, <1>2

\* Publishing acknowledges a commit, and is otherwise invisible.
LEMMA PublishRefines ==
    ASSUME TypeInv, TypeInv', DurabilityInv, DurabilityInv', EpochInv, OrderInv,
           PublishManifest
    PROVE  OrderInv' /\ (DL!Acknowledge \/ UNCHANGED DL!logVars)
<1>0. /\ pc = "publish" /\ man' = pend /\ UNCHANGED <<wal, chk, mem, store, pend, why, ops>>
      /\ pc' = (IF why = "checkpoint" THEN "truncate" ELSE "idle") /\ Running
      /\ acked' = IF why = "commit" THEN acked \cup CommitAt(pend.latest) ELSE acked
  BY DEF PublishManifest, Running, handle
<1>1. OrderKept' /\ Log' = Log /\ man'.latest = mem.latest /\ man'.state = "ok"
  BY <1>0, PublishedLog
<1>2. Recoverable = Log /\ Recoverable' = Log'
  BY LogNow, LogNext
<1>3. \A c : c \in store <=> c \in Log /\ c.epoch <= mem.latest
  BY <1>0 DEF OrderInv, LiveIsPrefix, Log
<1>4. LiveIsPrefix'
  <2>1. mem.latest \in Nat
    BY LogNumbers DEF TypeInv
  <2> QED
    BY <1>0, <1>1, <1>3, <2>1 DEF LiveIsPrefix, Log
<1>5. AppendIsLast' /\ WriteUnderWay'
  BY <1>0, <1>1 DEF AppendIsLast, WriteUnderWay, OrderInv
<1>6. CASE why = "commit"
  <2> DEFINE c == [epoch |-> mem.latest, op |-> ops]
  <2>1. c \in store /\ pend.latest = mem.latest /\ c.epoch = mem.latest /\ c.op = ops
    BY <1>0, <1>6 DEF OrderInv, WriteUnderWay
  <2> HIDE DEF c
  <2>2. CommitAt(pend.latest) = {c}
    BY <2>1 DEF CommitAt, EpochInv, UpTo
  <2>3. c \in Recoverable /\ acked' = acked \cup {c}
    BY <1>0, <1>2, <1>3, <1>6, <2>1, <2>2
  <2>4. DL!Acknowledge
    BY <1>0, <1>1, <1>2, <2>1, <2>3 DEF DL!Acknowledge
  <2> QED
    BY <1>1, <1>4, <1>5, <2>4 DEF OrderInv, OrderKept
<1>7. CASE why # "commit"
  BY <1>0, <1>1, <1>2, <1>4, <1>5, <1>7 DEF OrderInv, OrderKept, DL!logVars
<1> QED
  BY <1>6, <1>7

\* A manifest write that fails, before or after the rename, is invisible.
LEMMA WriteFailRefines ==
    ASSUME TypeInv, TypeInv', DurabilityInv, DurabilityInv', OrderInv, ManifestWriteFails
    PROVE  OrderInv' /\ UNCHANGED DL!logVars
<1>0. /\ pc \in {"backup", "publish"} /\ UNCHANGED <<wal, chk, mem, store, ops, acked>>
      /\ pc' \in {"closed", "idle"} /\ Running /\ man' \in {man, pend}
  BY DEF ManifestWriteFails, Running, handle, counters
<1>1. /\ OrderKept' /\ Log' = Log /\ man'.latest <= mem.latest /\ man'.state # "none"
  <2>0. mem.latest \in Nat
    BY LogNumbers DEF TypeInv
  <2>1. CASE man' = pend
    BY <1>0, <2>0, <2>1, PublishedLog
  <2>2. CASE man' = man
    BY <1>0, <2>2 DEF OrderInv, OrderKept, Log, LiveIsPrefix, DurabilityInv, ManifestShape
  <2> QED
    BY <1>0, <2>1, <2>2
<1>2. Recoverable = Log /\ Recoverable' = Log'
  BY LogNow, LogNext
<1>3. \A c : c \in store <=> c \in Log /\ c.epoch <= mem.latest
  BY <1>0 DEF OrderInv, LiveIsPrefix, Log
<1>4. LiveIsPrefix'
  BY <1>0, <1>1, <1>3 DEF LiveIsPrefix, Log
<1>5. AppendIsLast' /\ WriteUnderWay'
  BY <1>0, <1>1 DEF AppendIsLast, WriteUnderWay
<1> QED
  BY <1>0, <1>1, <1>2, <1>4, <1>5 DEF OrderInv, OrderKept, DL!logVars

\* A write that begins, after a look at the tail: no frame is beyond its epoch.
LEMMA BeginRefines ==
    ASSUME TypeInv, TypeInv', DurabilityInv, DurabilityInv', OrderInv, BeginWrite
    PROVE  OrderInv' /\ DL!Issue
<1>0. /\ pc = "idle" /\ pc' = "append" /\ ops' = ops + 1 /\ ~Stale(tail') /\ Running
      /\ UNCHANGED <<wal, man, chk, mem, store, acked>>
  BY DEF BeginWrite, Running, disk
<1>1. /\ TypeOK /\ wal \in Seq(Frame) /\ Len(wal) \in Nat /\ mem.latest \in Nat /\ ops \in Nat
      /\ \A c \in chk[man.chk] : c.op \in Nat
  BY LogNumbers DEF TypeInv
<1>2. Recoverable = Log /\ Recoverable' = Log' /\ Log' = Log
  BY <1>0, LogNow, LogNext DEF Log
<1>3. ops' - 1 = ops
  BY <1>0, <1>1
<1>4. IssuedBy(chk[man.chk], wal, ops) /\ IssuedBy(chk[man.chk], wal, ops + 1)
  <2>1. ASSUME NEW i \in 1..Len(wal) PROVE wal[i].op <= ops + 1
    <3>1. wal[i].op <= ops /\ wal[i].op \in Nat
      BY <1>1, FrameNumbers DEF OrderInv, IssuedBy
    <3> QED
      BY <1>1, <3>1
  <2>2. ASSUME NEW c \in chk[man.chk] PROVE c.op <= ops + 1
    BY <1>1 DEF OrderInv, IssuedBy
  <2> QED
    BY <2>1, <2>2 DEF OrderInv, IssuedBy
<1>5. ASSUME NEW i \in 1..Len(wal) PROVE wal[i].epoch <= mem.latest
  <2>1. tail' = TailFromScan(wal, Len(wal))
    BY <1>0 DEF DurabilityInv, TailCurrent, Running, TailFromScan
  <2>2. Len(wal) \in 1..Len(wal) /\ Len(wal) # 0 /\ (i = Len(wal) \/ i < Len(wal))
    BY <1>1
  <2>3. tail'.last = wal[Len(wal)].epoch
    BY <2>1, <2>2 DEF TailFromScan
  <2>4. wal[i].epoch \in Nat /\ wal[Len(wal)].epoch \in Nat
    BY <1>1, <2>2, FrameNumbers
  <2>5. wal[Len(wal)].epoch <= mem.latest
    BY <1>0, <1>1, <2>3, <2>4 DEF Stale
  <2>6. i < Len(wal) => wal[i].epoch < wal[Len(wal)].epoch
    BY <2>2 DEF OrderInv, Ordered
  <2> QED
    BY <1>1, <2>2, <2>4, <2>5, <2>6
<1>6. AppendIsLast'
  BY <1>0, <1>3, <1>4, <1>5 DEF AppendIsLast
<1>7. LiveIsPrefix' /\ WriteUnderWay'
  BY <1>0 DEF OrderInv, LiveIsPrefix, WriteUnderWay, Running
<1> QED
  BY <1>0, <1>2, <1>4, <1>6, <1>7 DEF OrderInv, DL!Issue

\* The checkpoint file is written: it may be the one the manifest names, and
\* then it says the same.
LEMMA CheckpointRefines ==
    ASSUME TypeInv, TypeInv', DurabilityInv, DurabilityInv', OrderInv, BeginCheckpoint
    PROVE  OrderInv' /\ UNCHANGED DL!logVars
<1>0. /\ pc = "idle" /\ pc' \in {"idle", "backup"} /\ Running
      /\ UNCHANGED <<wal, man, mem, store, acked, ops>>
      /\ chk' = [chk EXCEPT ![mem.latest] = store]
      /\ pc' = "backup" => /\ pend' = AtCheckpoint(man, mem.latest)
                           /\ why' = "checkpoint" /\ man.latest = mem.latest
  BY ReadsPrimary DEF BeginCheckpoint, CheckpointWritten, Running, DurabilityInv
<1>1. man.chk \in Epoch /\ mem.latest \in Epoch /\ chk \in [Epoch -> SUBSET Commit]
  BY LogNumbers DEF TypeInv, TypeOK
<1>2. chk'[man.chk] = chk[man.chk]
  <2>1. man.chk = mem.latest => store = chk[man.chk]
    BY <1>0, StoreStandsIn
  <2> QED
    BY <1>0, <1>1, <2>1
<1>3. Recoverable = Log /\ Recoverable' = Log' /\ Log' = Log
  BY <1>0, <1>2, LogNow, LogNext DEF Log
<1>4. OrderKept' /\ LiveIsPrefix' /\ AppendIsLast'
  BY <1>0, <1>2 DEF OrderInv, OrderKept, LiveIsPrefix, Running, AppendIsLast
<1>5. WriteUnderWay'
  BY <1>0 DEF OrderInv, WriteUnderWay, AtCheckpoint
<1> QED
  BY <1>0, <1>3, <1>4, <1>5 DEF OrderInv, OrderKept, DL!logVars

\* The WAL is emptied, or should have been: frames of failed appends beyond
\* the checkpoint are forgotten.
LEMMA TruncateRefines ==
    ASSUME TypeInv, TypeInv', DurabilityInv, DurabilityInv', OrderInv,
           TruncateWal \/ TruncateFails
    PROVE  OrderInv' /\ DL!Forget
<1>0. /\ pc = "truncate" /\ pc' = "idle" /\ Running /\ wal' \in {wal, <<>>}
      /\ UNCHANGED <<man, chk, store, acked, ops>>
      /\ mem' = pend \/ (mem' = mem)
  BY DEF TruncateWal, TruncateFails, Running, handle, counters
<1>1. /\ man.chk = mem.latest /\ mem'.latest = mem.latest /\ man.state # "none"
      /\ chk[man.chk] = store /\ man.latest <= mem.latest
  BY <1>0 DEF OrderInv, WriteUnderWay, LiveIsPrefix, DurabilityInv, HandleShape, ManifestShape
<1>2. OrderKept' /\ DL!Forget
  <2>1. wal \in Seq(Frame)
    BY DEF TypeInv, TypeOK
  <2>2. Cut(wal', wal)
    BY <1>0, <2>1, CutForms
  <2> QED
    BY <1>0, <2>2, CutForgets
<1>3. \A c \in store : c.epoch <= mem.latest
  BY <1>0 DEF OrderInv, LiveIsPrefix
<1>4. LiveIsPrefix'
  <2>1. CASE wal' = wal
    BY <1>0, <1>1, <2>1 DEF OrderInv, LiveIsPrefix, Running
  <2>2. CASE wal' = <<>>
    <3>1. FramesAbove(wal', man'.chk) = {}
      BY <2>2 DEF FramesAbove
    <3> QED
      BY <1>0, <1>1, <1>3, <3>1 DEF LiveIsPrefix
  <2> QED
    BY <1>0, <2>1, <2>2
<1>5. AppendIsLast' /\ WriteUnderWay'
  BY <1>0, <1>1 DEF AppendIsLast, WriteUnderWay
<1> QED
  BY <1>2, <1>4, <1>5 DEF OrderInv, OrderKept

\* A crash: the frame in flight may have been recorded, an unsynced end may be
\* forgotten.
LEMMA CrashRefines ==
    ASSUME TypeInv, TypeInv', DurabilityInv, DurabilityInv', OrderInv, Crash \/ PowerLoss
    PROVE  OrderInv' /\ (DL!Record \/ DL!Forget \/ UNCHANGED DL!logVars)
<1>0. pc' = "closed" /\ UNCHANGED <<man, chk, acked, ops>>
  BY DEF Crash, PowerLoss, CrashTo
<1>1. OrderKept' /\ (DL!Record \/ DL!Forget \/ UNCHANGED DL!logVars)
  <2>1. CASE Cut(wal', wal)
    BY <1>0, <2>1, CutForgets
  <2>2. CASE ~Cut(wal', wal)
    <3>1. PICK f \in Frame : /\ f.epoch = mem.latest + 1 /\ f.op = ops
                             /\ wal' = Append(wal, f) /\ pc = "append"
      BY <2>2, CrashLeaves
    <3> QED
      BY <1>0, <3>1, AppendRecords
  <2> QED
    BY <2>1, <2>2
<1>2. LiveIsPrefix' /\ AppendIsLast' /\ WriteUnderWay'
  BY <1>0 DEF OrderInv, LiveIsPrefix, Running, AppendIsLast, WriteUnderWay
<1> QED
  BY <1>1, <1>2 DEF OrderInv, OrderKept

\* Creating the first manifest, a failed open, the backup, a refused write.
LEMMA QuietRefines ==
    ASSUME TypeInv, TypeInv', DurabilityInv, DurabilityInv', OrderInv,
           CreateManifest \/ OpenFails \/ CopyBackup \/ WriteRefused \/ UNCHANGED vars
    PROVE  OrderInv' /\ UNCHANGED DL!logVars
<1>0. UNCHANGED <<wal, chk, acked, ops, mem, store, pend, why>> /\ man'.chk = man.chk
  BY DEF CreateManifest, OpenFails, CopyBackup, WriteRefused, disk, handle, counters, vars,
     EmptyManifest, OrderInv, WriteUnderWay
<1>1. Recoverable = Log /\ Recoverable' = Log' /\ Log' = Log
  BY <1>0, LogNow, LogNext DEF Log
<1>2. OrderKept'
  BY <1>0 DEF OrderInv, OrderKept
<1>3. CASE CreateManifest
  <2>1. pc' = "closed" /\ man'.state = "ok"
    BY <1>3 DEF CreateManifest, EmptyManifest
  <2> QED
    BY <1>0, <1>1, <1>2, <2>1 DEF OrderInv, OrderKept, LiveIsPrefix, Running, AppendIsLast,
       WriteUnderWay, DL!logVars
<1>4. CASE OpenFails \/ CopyBackup \/ WriteRefused \/ UNCHANGED vars
  <2>1. UNCHANGED man /\ (UNCHANGED pc \/ (pc = "closed" /\ pc' = "failed")
                                       \/ (pc = "backup" /\ pc' = "publish"))
    BY <1>4 DEF OpenFails, CopyBackup, WriteRefused, disk, vars
  <2> QED
    BY <1>0, <1>1, <1>2, <2>1 DEF OrderInv, OrderKept, LiveIsPrefix, Running, AppendIsLast,
       WriteUnderWay, DL!logVars
<1> QED
  BY <1>3, <1>4

\* Every step keeps the order of commits and is a step of DurableLog.
LEMMA RefinementStep ==
    ASSUME TolerableFaults, TypeInv, TypeInv', DurabilityInv, DurabilityInv', EpochInv,
           OrderInv, [Next]_vars
    PROVE  OrderInv' /\ [DL!Next]_(DL!logVars)
<1>1. CASE CreateManifest \/ OpenFails \/ CopyBackup \/ WriteRefused \/ UNCHANGED vars
  BY <1>1, QuietRefines
<1>2. CASE Open
  BY <1>2, OpenRefines DEF DL!Next
<1>3. CASE PublishManifest
  BY <1>3, PublishRefines DEF DL!Next
<1>4. CASE ManifestWriteFails
  BY <1>4, WriteFailRefines
<1>5. CASE BeginWrite
  BY <1>5, BeginRefines DEF DL!Next
<1>6. CASE AppendCommit \/ AppendSyncFails
  BY <1>6, AppendRefines DEF DL!Next
<1>7. CASE AppendShortWrite \/ CorruptManifest
  BY <1>7 DEF AppendShortWrite, CorruptManifest, TolerableFaults
<1>8. CASE BeginCheckpoint
  BY <1>8, CheckpointRefines
<1>9. CASE TruncateWal \/ TruncateFails
  BY <1>9, TruncateRefines DEF DL!Next
<1>10. CASE Crash \/ PowerLoss
  BY <1>10, CrashRefines DEF DL!Next
<1> QED
  BY <1>1, <1>2, <1>3, <1>4, <1>5, <1>6, <1>7, <1>8, <1>9, <1>10 DEF Next

\* The invariants of the three layers, together.
EngineInv == TypeInv /\ ManifestInv /\ EpochInv /\ DurabilityInv /\ OrderInv

\* They hold initially and every step keeps them.
LEMMA EngineInvariant ==
    ASSUME TolerableFaults
    PROVE  (Init => EngineInv) /\ (EngineInv /\ [Next]_vars => EngineInv')
<1>1. Init => EngineInv
  BY TypeInit, ManifestInit, EpochInit, DurabilityInit, OrderInit DEF EngineInv
<1>2. ASSUME EngineInv, [Next]_vars PROVE EngineInv'
  <2>1. TypeInv'
    BY <1>2, TypeStep DEF EngineInv
  <2>2. ManifestInv' /\ EpochInv' /\ DurabilityInv'
    BY <1>2, <2>1, ManifestStep, EpochStep, DurabilityStep DEF EngineInv
  <2> QED
    BY <1>2, <2>1, <2>2, RefinementStep DEF EngineInv
<1> QED
  BY <1>1, <1>2

\* The files, the handle and their crashes implement the abstract log of
\* DurableLog, for any number of epochs, writes, crashes and checkpoints: what
\* recovery brings back grows at its end by the current attempt, and loses only
\* an end without acknowledged commits.
THEOREM EngineImplementsLog ==
    ASSUME TolerableFaults PROVE Spec => ImplementsDurableLog
<1>1. Init => DL!Init
  BY OrderInit
<1>2. EngineInv /\ EngineInv' /\ [Next]_vars => [DL!Next]_(DL!logVars)
  BY RefinementStep DEF EngineInv
<1> QED
  BY <1>1, <1>2, EngineInvariant, PTL DEF Spec, ImplementsDurableLog, DL!Spec

-----------------------------------------------------------------------------
(* Acknowledged frames stay *)

\* A cut that keeps the acknowledged commits keeps their frames: an attempt
\* has one frame.
LEMMA CutKeepsAcked ==
    ASSUME TypeInv, TypeInv', DurabilityInv', OrderInv, Cut(wal', wal),
           man'.chk = man.chk, chk'[man'.chk] = chk[man.chk], UNCHANGED acked,
           NEW i \in 1..Len(wal), CommitOf(wal[i]) \in acked,
           CommitOf(wal[i]) \notin chk[man.chk]
    PROVE  i <= Len(wal') /\ wal'[i] = wal[i]
<1>0. /\ wal \in Seq(Frame) /\ Len(wal) \in Nat /\ wal' \in Seq(Frame) /\ Len(wal') \in Nat
      /\ 1..Len(wal') \subseteq 1..Len(wal)
  BY DEF TypeInv, TypeOK, Cut
<1>1. CommitOf(wal[i]) \in Log'
  BY AckedInLog DEF TypeInv
<1>2. PICK j \in 1..Len(wal') : wal'[j].whole /\ CommitOf(wal[i]) = CommitOf(wal'[j])
  BY <1>1 DEF Log, FramesAbove
<1>3. wal'[j] = wal[j] /\ j \in 1..Len(wal)
  BY <1>0, <1>2 DEF Cut
<1>4. wal[i].op = wal[j].op /\ wal[i].op \in Nat
  BY <1>0, <1>2, <1>3, FrameNumbers DEF CommitOf
<1>5. i = j
  <2>1. i < j => wal[i].op < wal[j].op
    BY <1>3 DEF OrderInv, Ordered
  <2>2. j < i => wal[j].op < wal[i].op
    BY <1>3 DEF OrderInv, Ordered
  <2>3. i < j \/ j < i \/ i = j
    BY <1>0, <1>3
  <2> QED
    BY <1>4, <2>1, <2>2, <2>3
<1> QED
  BY <1>0, <1>3, <1>5

\* Appending leaves the frames before it alone.
LEMMA AppendLeaves ==
    ASSUME TypeOK, NEW f \in Frame, wal' = Append(wal, f), NEW i \in 1..Len(wal)
    PROVE  i <= Len(wal') /\ wal'[i] = wal[i]
<1>1. wal \in Seq(Frame) /\ Len(wal) \in Nat
  BY DEF TypeOK
<1> QED
  BY <1>1

\* The WAL drops or damages the frame of an acknowledged commit only when the
\* checkpoint that manifest.tdb names holds it, whatever step is taken.
THEOREM AckedFramesKept ==
    ASSUME TolerableFaults PROVE Spec => AckedFramesStay
<1>1. ASSUME EngineInv, EngineInv', [Next]_vars, NEW i \in 1..Len(wal),
             wal[i].whole, CommitOf(wal[i]) \in acked,
             ~(i <= Len(wal') /\ wal'[i] = wal[i])
      PROVE  man.state = "ok" /\ CommitOf(wal[i]) \in chk[man.chk]
  <2>0. /\ TypeInv /\ TypeInv' /\ TypeOK /\ DurabilityInv /\ DurabilityInv' /\ OrderInv
        /\ wal \in Seq(Frame) /\ Len(wal) \in Nat
    BY <1>1 DEF EngineInv, TypeInv, TypeOK
  <2>1. man.state = "ok"
    BY <1>1, <2>0 DEF DurabilityInv, ManifestShape
  <2>2. wal' # wal
    BY <1>1, <2>0
  <2>3. \/ Open \/ AppendCommit \/ AppendSyncFails \/ TruncateWal \/ TruncateFails
        \/ Crash \/ PowerLoss
    BY <1>1, <2>2 DEF Next, CreateManifest, OpenFails, CopyBackup, PublishManifest,
       ManifestWriteFails, BeginWrite, WriteRefused, BeginCheckpoint, CorruptManifest,
       AppendShortWrite, TolerableFaults, disk, vars
  <2>4. CASE AppendCommit \/ AppendSyncFails
    <3>1. pc = "append" /\ wal' = Append(wal, NewFrame(TRUE))
      BY <2>4 DEF AppendCommit, AppendSyncFails
    <3>2. NewFrame(TRUE) \in Frame
      BY <2>0, <3>1, NewFrameType DEF TypeInv
    <3> QED
      BY <1>1, <2>0, <3>1, <3>2, AppendLeaves
  <2>5. CASE Open \/ TruncateWal \/ TruncateFails
    <3>1. Cut(wal', wal)
      BY <2>0, <2>2, <2>5, CutForms DEF Open, TruncateWal, TruncateFails
    <3>2. UNCHANGED <<man, chk, acked>>
      BY <2>5 DEF Open, TruncateWal, TruncateFails, counters
    <3> QED
      BY <1>1, <2>0, <2>1, <3>1, <3>2, CutKeepsAcked
  <2>6. CASE Crash \/ PowerLoss
    <3>1. UNCHANGED <<man, chk, acked>>
      BY <2>6 DEF Crash, PowerLoss, CrashTo
    <3>2. CASE Cut(wal', wal)
      BY <1>1, <2>0, <2>1, <3>1, <3>2, CutKeepsAcked
    <3>3. CASE ~Cut(wal', wal)
      <4>1. PICK f \in Frame : wal' = Append(wal, f)
        BY <2>0, <2>6, <3>3, CrashLeaves
      <4> QED
        BY <1>1, <2>0, <4>1, AppendLeaves
    <3> QED
      BY <3>2, <3>3
  <2> QED
    BY <2>3, <2>4, <2>5, <2>6
<1>2. EngineInv /\ EngineInv' /\ [Next]_vars =>
         [\A i \in 1..Len(wal) :
            LET c == CommitOf(wal[i])
            IN  (wal[i].whole /\ c \in acked
                  /\ ~(i <= Len(wal') /\ wal'[i] = wal[i])) =>
                   (man.state = "ok" /\ c \in chk[man.chk])]_vars
  BY <1>1
<1> QED
  BY <1>2, EngineInvariant, PTL DEF Spec, AckedFramesStay
=============================================================================
