------------------------- MODULE RecordStoreProofs -------------------------
(***************************************************************************)
(* Proofs about RecordStore.tla, for any keys, bodies, dimensions, schemas *)
(* and number of commits.  A record's versions are one chain, so that      *)
(* every operation works on its last version alone; what recovery rebuilds *)
(* is then an end of what the live store has.                              *)
(***************************************************************************)
EXTENDS RecordStore, WellFoundedInduction, TLAPS

-----------------------------------------------------------------------------
(* Version lists, stores and commits *)

Chain(vs) == \A i \in 1..Len(vs) : vs[i].end = IF i = Len(vs) THEN 0 ELSE vs[i+1].begin

\* The version lists that may be there in epoch e.
History(e) ==
    {vs \in Seq(StoredVersion) :
        /\ Chain(vs)
        /\ \A i \in 1..Len(vs) : vs[i].begin <= e /\ vs[i].end <= e}

Stores(e) == [Keys -> History(e)]

\* What replaying commits up to epoch e may give.
Outcomes(e) == [ok : BOOLEAN, records : Stores(e)]

Invalidation == [key : Keys, status : Statuses \cup {"Dirty"}]

CommitRecord ==
    [epoch : 1..MaxEpoch, schemas : Seq(Schemas), replacements : Seq(Input),
     mutations : Seq(Input), deletions : Seq(Keys),
     invalidations : Seq(Invalidation)]

Lists == {"replacements", "mutations", "deletions", "invalidations"}

\* A version, after one of the same epoch or an earlier one.
Push(vs, v) == Append(Close(vs, Len(vs), v.begin), v)

-----------------------------------------------------------------------------
(* The files, and the store that open rebuilds from them *)

StoreInv ==
    /\ epoch \in Epoch
    /\ schema \in Schemas \cup {NoTable}
    /\ open \in BOOLEAN
    /\ base \in [epoch : Nat, records : Stores(epoch)]
    /\ base.epoch + Len(log) = epoch
    /\ log \in Seq(CommitRecord)
    /\ \A i \in 1..Len(log) : log[i].epoch = base.epoch + i
    /\ records \in Stores(epoch)
    /\ schema = NoTable => log = <<>> /\ records = NoRecords /\ base.records = NoRecords
    /\ ReplayedSchema = schema

\* The same version, with the same feature if x.
Alike(x, v, w) ==
    /\ v.begin = w.begin /\ v.end = w.end /\ v.tomb = w.tomb
    /\ v.body = w.body /\ v.emb = w.emb
    /\ x => v.feat = w.feat

\* r is l without its first n versions, which were over in epoch b.
EndOf(x, r, l, n, b) ==
    /\ Len(l) = Len(r) + n
    /\ \A i \in 1..Len(r) : Alike(x, r[i], l[i + n])
    /\ \A i \in 1..n : l[i].end # 0 /\ l[i].end <= b
    /\ n > 0 => Len(r) > 0

\* The outcome o of a replay shows what the live store ls shows; if x, it must
\* have come to its end.
Shows(x, o, ls, cut, b) ==
    /\ x => o.ok
    /\ o.ok => \A k \in Keys : EndOf(x, o.records[k], ls[k], cut[k], b)

\* Whatever schema open would replay under; the versions that the checkpoint
\* has dropped are the same for all of them.
ReplayInv(x) ==
    /\ x => open
    /\ open =>
        \E cut \in [Keys -> Nat] : \A d \in Schemas :
            Shows(x, ApplyCommits(d, Applied(base.records), log), records, cut,
                  base.epoch)

-----------------------------------------------------------------------------
(* Recursion: the lists of a commit, and the commits of the WAL *)

\* A set of natural numbers that is not empty has a least element.
LEMMA LeastNat ==
    ASSUME NEW T \in SUBSET Nat, T # {}
    PROVE  \E x \in T : \A y \in T : x <= y
<1>1. IsWellFoundedOn(OpToRel(<, Nat), Nat)
  BY NatLessThanWellFounded
<1>2. PICK x \in T : \A y \in T : ~ (<<y, x>> \in OpToRel(<, Nat))
  BY <1>1, WFMin
<1>3. \A y \in T : ~ (y < x)
  BY <1>2 DEF OpToRel
<1> QED BY <1>3

\* Induction, for a set.
LEMMA SetInduction ==
    ASSUME NEW S \in SUBSET Nat, 0 \in S, \A n \in S : n + 1 \in S
    PROVE  S = Nat
<1> SUFFICES ASSUME Nat \ S # {} PROVE FALSE
  OBVIOUS
<1>1. PICK x \in Nat \ S : \A y \in Nat \ S : x <= y
  BY LeastNat
<1>2. x # 0 /\ x - 1 \in Nat
  BY <1>1
<1>3. x - 1 \in S
  BY <1>1, <1>2
<1> QED BY <1>1, <1>3

\* The n-th step of a replay of all commits, or of one list of a commit.
ReplayStep(what, d, c, s, n) ==
    IF what = "commits" THEN ApplyCommit(d, s, c[n])
    ELSE ApplyEntry(what, d, c.epoch, s, c[what][n])

\* f is the function such a replay defines, up to step N.
IsRun(f, what, d, c, r, N) ==
    f = [n \in 0..N |-> IF n = 0 THEN r ELSE ReplayStep(what, d, c, f[n - 1], n)]

\* Such a function exists for every number of steps.
LEMMA RunExists ==
    ASSUME NEW what, NEW d, NEW c, NEW r, NEW N \in Nat
    PROVE  \E f : IsRun(f, what, d, c, r, N)
<1> DEFINE St(s, n) == ReplayStep(what, d, c, s, n)
           S == {n \in Nat : \E f : IsRun(f, what, d, c, r, n)}
<1>0. \A f, n : IsRun(f, what, d, c, r, n) <=>
                f = [i \in 0..n |-> IF i = 0 THEN r ELSE St(f[i - 1], i)]
  BY DEF IsRun
<1> HIDE DEF St
<1>1. 0 \in S
  <2> DEFINE g == [n \in 0..0 |-> r]
  <2>1. g = [n \in 0..0 |-> IF n = 0 THEN r ELSE St(g[n - 1], n)]
    OBVIOUS
  <2> HIDE DEF g
  <2>2. IsRun(g, what, d, c, r, 0)
    BY <1>0, <2>1
  <2> QED BY <2>2
<1>2. \A n \in S : n + 1 \in S
  <2> SUFFICES ASSUME NEW m \in S PROVE m + 1 \in S
    OBVIOUS
  <2>1. PICK f : IsRun(f, what, d, c, r, m)
    OBVIOUS
  <2>2. m \in Nat
    OBVIOUS
  <2> DEFINE g == [n \in 0..(m + 1) |-> IF n = 0 THEN r ELSE St(f[n - 1], n)]
  <2>3. f = [n \in 0..m |-> IF n = 0 THEN r ELSE St(f[n - 1], n)]
    BY <1>0, <2>1
  <2>4. \A n \in 0..m : g[n] = f[n]
    BY <2>2, <2>3
  <2>5. \A n \in 0..(m + 1) : g[n] = IF n = 0 THEN r ELSE St(g[n - 1], n)
    <3> SUFFICES ASSUME NEW n \in 0..(m + 1)
                 PROVE  g[n] = IF n = 0 THEN r ELSE St(g[n - 1], n)
      OBVIOUS
    <3>1. n # 0 => n - 1 \in 0..m
      BY <2>2
    <3>2. n # 0 => g[n - 1] = f[n - 1]
      BY <3>1, <2>4
    <3>3. g[n] = IF n = 0 THEN r ELSE St(f[n - 1], n)
      OBVIOUS
    <3> HIDE DEF g
    <3> QED BY <3>2, <3>3
  <2>6. g = [n \in 0..(m + 1) |-> IF n = 0 THEN r ELSE St(g[n - 1], n)]
    <3>1. g = [n \in 0..(m + 1) |-> g[n]]
      OBVIOUS
    <3> HIDE DEF g
    <3> QED BY <3>1, <2>5
  <2> HIDE DEF g
  <2>7. IsRun(g, what, d, c, r, m + 1)
    BY <1>0, <2>6
  <2>8. \E h : IsRun(h, what, d, c, r, m + 1)
    BY <2>7
  <2> QED BY <2>8, <2>2
<1>3. S = Nat
  <2> HIDE DEF S
  <2>1. S \in SUBSET Nat
    BY DEF S
  <2> QED BY <1>1, <1>2, <2>1, SetInduction
<1> QED BY <1>3

\* The values of a run.
LEMMA RunSteps ==
    ASSUME NEW what, NEW d, NEW c, NEW r, NEW N \in Nat, NEW f,
           IsRun(f, what, d, c, r, N)
    PROVE  /\ f[0] = r
           /\ \A n \in 1..N : f[n] = ReplayStep(what, d, c, f[n - 1], n)
<1> DEFINE St(s, n) == ReplayStep(what, d, c, s, n)
<1>1. f = [n \in 0..N |-> IF n = 0 THEN r ELSE St(f[n - 1], n)]
  BY DEF IsRun
<1> HIDE DEF St
<1>2. \A n \in 0..N : f[n] = IF n = 0 THEN r ELSE St(f[n - 1], n)
  BY <1>1
<1>3. f[0] = r /\ \A n \in 1..N : f[n] = St(f[n - 1], n)
  BY <1>2
<1> QED BY <1>3 DEF St

\* What every step keeps, a run keeps.
LEMMA RunKeeps ==
    ASSUME NEW what, NEW d, NEW c, NEW r, NEW N \in Nat, NEW f,
           IsRun(f, what, d, c, r, N), NEW G, r \in G,
           \A s \in G : \A n \in 1..N : ReplayStep(what, d, c, s, n) \in G
    PROVE  f[N] \in G
<1> DEFINE S == {n \in Nat : n <= N => f[n] \in G}
<1>1. f[0] = r /\ \A n \in 1..N : f[n] = ReplayStep(what, d, c, f[n - 1], n)
  BY RunSteps
<1>2. 0 \in S
  BY <1>1
<1>3. \A n \in S : n + 1 \in S
  <2> SUFFICES ASSUME NEW n \in Nat, f[n] \in G, n + 1 <= N PROVE f[n + 1] \in G
    OBVIOUS
  <2>1. n + 1 \in 1..N /\ n + 1 - 1 = n
    OBVIOUS
  <2> QED BY <1>1, <2>1
<1>4. S = Nat
  <2> HIDE DEF S
  <2>1. S \in SUBSET Nat
    BY DEF S
  <2> QED BY <1>2, <1>3, <2>1, SetInduction
<1> QED BY <1>4

\* Runs with the same steps have the same values.
LEMMA RunsAgree ==
    ASSUME NEW what, NEW d, NEW c, NEW b, NEW r, NEW N \in Nat, NEW M \in Nat, N <= M,
           NEW f, IsRun(f, what, d, c, r, N), NEW g, IsRun(g, what, d, b, r, M),
           \A s : \A n \in 1..N : ReplayStep(what, d, c, s, n) = ReplayStep(what, d, b, s, n)
    PROVE  f[N] = g[N]
<1> DEFINE S == {n \in Nat : n <= N => f[n] = g[n]}
<1>1. f[0] = r /\ \A n \in 1..N : f[n] = ReplayStep(what, d, c, f[n - 1], n)
  BY RunSteps
<1>2. g[0] = r /\ \A n \in 1..M : g[n] = ReplayStep(what, d, b, g[n - 1], n)
  BY RunSteps
<1>3. 0 \in S
  BY <1>1, <1>2
<1>4. \A n \in S : n + 1 \in S
  <2> SUFFICES ASSUME NEW n \in Nat, f[n] = g[n], n + 1 <= N PROVE f[n + 1] = g[n + 1]
    OBVIOUS
  <2>1. n + 1 \in 1..N /\ n + 1 \in 1..M /\ n + 1 - 1 = n
    OBVIOUS
  <2> QED BY <1>1, <1>2, <2>1
<1>5. S = Nat
  <2> HIDE DEF S
  <2>1. S \in SUBSET Nat
    BY DEF S
  <2> QED BY <1>3, <1>4, <2>1, SetInduction
<1> QED BY <1>5

\* ApplyList is the last value of a run.
LEMMA ListRuns ==
    ASSUME NEW list \in Lists, NEW d, NEW r, NEW c, Len(c[list]) \in Nat
    PROVE  \E f : /\ IsRun(f, list, d, c, r, Len(c[list]))
                  /\ ApplyList(list, d, r, c) = f[Len(c[list])]
<1> DEFINE R(f) == f = [n \in 0..Len(c[list]) |->
                          IF n = 0 THEN r
                          ELSE ApplyEntry(list, d, c.epoch, f[n - 1], c[list][n])]
           h == CHOOSE f : R(f)
<1>0. list # "commits"
  BY DEF Lists
<1>1. PICK g : IsRun(g, list, d, c, r, Len(c[list]))
  BY RunExists
<1>2. R(g)
  BY <1>0, <1>1 DEF IsRun, ReplayStep
<1>3. R(h)
  BY <1>2, Zenon
<1>4. ApplyList(list, d, r, c) = h[Len(c[list])]
  BY DEF ApplyList
<1> HIDE DEF h
<1>5. IsRun(h, list, d, c, r, Len(c[list]))
  BY <1>0, <1>3 DEF IsRun, ReplayStep
<1> QED BY <1>4, <1>5

\* So is ApplyCommits.
LEMMA CommitsRun ==
    ASSUME NEW d, NEW r, NEW cs, Len(cs) \in Nat
    PROVE  \E f : /\ IsRun(f, "commits", d, cs, r, Len(cs))
                  /\ ApplyCommits(d, r, cs) = f[Len(cs)]
<1> DEFINE R(f) == f = [n \in 0..Len(cs) |->
                          IF n = 0 THEN r ELSE ApplyCommit(d, f[n - 1], cs[n])]
           h == CHOOSE f : R(f)
<1>1. PICK g : IsRun(g, "commits", d, cs, r, Len(cs))
  BY RunExists
<1>2. R(g)
  BY <1>1 DEF IsRun, ReplayStep
<1>3. R(h)
  BY <1>2, Zenon
<1>4. ApplyCommits(d, r, cs) = h[Len(cs)]
  BY DEF ApplyCommits
<1> HIDE DEF h
<1>5. IsRun(h, "commits", d, cs, r, Len(cs))
  BY <1>3 DEF IsRun, ReplayStep
<1> QED BY <1>4, <1>5

\* What every entry of a list keeps, the list keeps.
LEMMA ListKeeps ==
    ASSUME NEW list \in Lists, NEW d, NEW r, NEW c, Len(c[list]) \in Nat,
           NEW G, r \in G,
           \A s \in G : \A n \in 1..Len(c[list]) :
              ApplyEntry(list, d, c.epoch, s, c[list][n]) \in G
    PROVE  ApplyList(list, d, r, c) \in G
<1>1. PICK f : IsRun(f, list, d, c, r, Len(c[list]))
               /\ ApplyList(list, d, r, c) = f[Len(c[list])]
  BY ListRuns
<1>2. list # "commits"
  BY DEF Lists
<1>3. \A s \in G : \A n \in 1..Len(c[list]) : ReplayStep(list, d, c, s, n) \in G
  BY <1>2 DEF ReplayStep
<1>4. f[Len(c[list])] \in G
  BY <1>1, <1>3, RunKeeps
<1> QED BY <1>1, <1>4

\* What every commit keeps, a replay keeps.
LEMMA CommitsKeep ==
    ASSUME NEW d, NEW r, NEW cs, Len(cs) \in Nat, NEW G, r \in G,
           \A s \in G : \A n \in 1..Len(cs) : ApplyCommit(d, s, cs[n]) \in G
    PROVE  ApplyCommits(d, r, cs) \in G
<1>1. PICK f : IsRun(f, "commits", d, cs, r, Len(cs)) /\ ApplyCommits(d, r, cs) = f[Len(cs)]
  BY CommitsRun
<1>2. \A s \in G : \A n \in 1..Len(cs) : ReplayStep("commits", d, cs, s, n) \in G
  BY DEF ReplayStep
<1>3. f[Len(cs)] \in G
  BY <1>1, <1>2, RunKeeps
<1> QED BY <1>1, <1>3

\* An empty list does nothing.
LEMMA ListNone ==
    ASSUME NEW list \in Lists, NEW d, NEW r, NEW c, c[list] = <<>>
    PROVE  ApplyList(list, d, r, c) = r
<1> DEFINE N == Len(c[list])
<1>1. N = 0 /\ N \in Nat
  OBVIOUS
<1>2. PICK f : IsRun(f, list, d, c, r, N) /\ ApplyList(list, d, r, c) = f[N]
  BY <1>1, ListRuns
<1> HIDE DEF N
<1> QED BY <1>1, <1>2, RunSteps

\* A list of one entry is that entry, ...
LEMMA ListOne ==
    ASSUME NEW list \in Lists, NEW d, NEW r, NEW c, NEW x, c[list] = <<x>>
    PROVE  ApplyList(list, d, r, c) = ApplyEntry(list, d, c.epoch, r, x)
<1> DEFINE N == Len(c[list])
<1>1. N = 1 /\ N \in Nat
  OBVIOUS
<1>2. PICK f : IsRun(f, list, d, c, r, N) /\ ApplyList(list, d, r, c) = f[N]
  BY <1>1, ListRuns
<1> HIDE DEF N
<1>3. f[0] = r /\ \A n \in 1..N : f[n] = ReplayStep(list, d, c, f[n - 1], n)
  BY <1>1, <1>2, RunSteps
<1>4. f[1] = ReplayStep(list, d, c, f[0], 1)
  BY <1>1, <1>3
<1>5. c[list][1] = x /\ list # "commits"
  BY DEF Lists
<1>6. f[N] = ReplayStep(list, d, c, r, 1)
  BY <1>1, <1>3, <1>4
<1> QED BY <1>2, <1>5, <1>6 DEF ReplayStep

\* ... and one of two entries is the second after the first.
LEMMA ListTwo ==
    ASSUME NEW list \in Lists, NEW d, NEW r, NEW c, Len(c[list]) = 2
    PROVE  ApplyList(list, d, r, c) =
             ApplyEntry(list, d, c.epoch, ApplyEntry(list, d, c.epoch, r, c[list][1]), c[list][2])
<1>0. PICK N : N = Len(c[list])
  OBVIOUS
<1>1. N = 2 /\ N \in Nat
  BY <1>0
<1>b. Len(c[list]) \in Nat
  BY <1>0, <1>1
<1>a. PICK f : IsRun(f, list, d, c, r, Len(c[list]))
               /\ ApplyList(list, d, r, c) = f[Len(c[list])]
  BY ONLY <1>b, list \in Lists, ListRuns
<1>2. IsRun(f, list, d, c, r, N) /\ ApplyList(list, d, r, c) = f[N]
  BY <1>0, <1>a
<1>3. f[0] = r /\ \A n \in 1..N : f[n] = ReplayStep(list, d, c, f[n - 1], n)
  BY <1>1, <1>2, RunSteps
<1>4. f[1] = ReplayStep(list, d, c, f[0], 1) /\ f[2] = ReplayStep(list, d, c, f[1], 2)
  BY <1>1, <1>3
<1>5. list # "commits"
  BY DEF Lists
<1>6. f[N] = ReplayStep(list, d, c, f[1], 2) /\ f[1] = ReplayStep(list, d, c, r, 1)
  BY <1>1, <1>3, <1>4
<1> QED BY <1>2, <1>5, <1>6 DEF ReplayStep

\* A replay of no commits leaves the checkpoint as it is.
LEMMA CommitsNone ==
    ASSUME NEW d, NEW r, NEW cs, Len(cs) = 0
    PROVE  ApplyCommits(d, r, cs) = r
<1> DEFINE N == Len(cs)
<1>1. N = 0 /\ N \in Nat
  OBVIOUS
<1>2. PICK f : IsRun(f, "commits", d, cs, r, N) /\ ApplyCommits(d, r, cs) = f[N]
  BY <1>1, CommitsRun
<1> HIDE DEF N
<1>3. N \in Nat /\ IsRun(f, "commits", d, cs, r, N)
  BY <1>1, <1>2
<1>4. f[0] = r /\ \A n \in 1..N : f[n] = ReplayStep("commits", d, cs, f[n - 1], n)
  BY <1>3, RunSteps
<1> QED BY <1>1, <1>2, <1>4

\* One more commit is one more step of the replay.
LEMMA CommitsAppend ==
    ASSUME NEW d, NEW r, NEW cs \in Seq(CommitRecord), NEW c \in CommitRecord
    PROVE  ApplyCommits(d, r, Append(cs, c)) = ApplyCommit(d, ApplyCommits(d, r, cs), c)
<1> DEFINE N == Len(cs)
           more == Append(cs, c)
<1>1. N \in Nat /\ Len(more) = N + 1 /\ more[N + 1] = c /\ \A n \in 1..N : more[n] = cs[n]
  OBVIOUS
<1> HIDE DEF more, N
<1>2. PICK f : IsRun(f, "commits", d, cs, r, N) /\ ApplyCommits(d, r, cs) = f[N]
  BY <1>1, CommitsRun DEF N
<1>3. PICK g : IsRun(g, "commits", d, more, r, N + 1) /\ ApplyCommits(d, r, more) = g[N + 1]
  BY <1>1, CommitsRun
<1>4. g[N + 1] = ApplyCommit(d, g[N], c)
  <2>2. PICK M : M = N + 1
    OBVIOUS
  <2>3. M \in Nat /\ M \in 1..M /\ M - 1 = N
    BY <1>1, <2>2
  <2>4. IsRun(g, "commits", d, more, r, M)
    BY <1>3, <2>2
  <2>5. M \in Nat /\ \A n \in 1..M : g[n] = ReplayStep("commits", d, more, g[n - 1], n)
    <3>1. M \in Nat
      BY <2>3
    <3> QED BY <2>4, <3>1, RunSteps
  <2>6. g[M] = ReplayStep("commits", d, more, g[N], M)
    <3>1. g[M] = ReplayStep("commits", d, more, g[M - 1], M)
      BY <2>3, <2>5
    <3> QED BY <2>3, <3>1
  <2> QED BY <1>1, <2>2, <2>6 DEF ReplayStep
<1>5. \A s : \A n \in 1..N :
        ReplayStep("commits", d, cs, s, n) = ReplayStep("commits", d, more, s, n)
  BY <1>1 DEF ReplayStep
<1>6. f[N] = g[N]
  <2>1. N + 1 \in Nat /\ N <= N + 1
    BY <1>1
  <2> QED BY <1>1, <1>2, <1>3, <1>5, <2>1, RunsAgree
<1> QED BY <1>2, <1>3, <1>4, <1>6 DEF more

-----------------------------------------------------------------------------
(* The last version *)

\* The largest of the indices in S.
LEMMA MaxOf ==
    ASSUME NEW N \in Nat, NEW S \in SUBSET (1..N), S # {}
    PROVE  Max(S) \in S /\ \A i \in S : i <= Max(S)
<1> DEFINE T == {N - i : i \in S}
<1>1. T \in SUBSET Nat /\ T # {}
  <2>1. \A i \in S : N - i \in Nat
    OBVIOUS
  <2> QED BY <2>1
<1>2. PICK t \in T : \A u \in T : t <= u
  BY <1>1, LeastNat
<1>3. PICK m \in S : t = N - m
  OBVIOUS
<1>4. \A i \in S : m >= i
  <2> SUFFICES ASSUME NEW i \in S PROVE m >= i
    OBVIOUS
  <2>1. N - m <= N - i
    BY <1>2, <1>3
  <2>2. i \in Int /\ m \in Int
    OBVIOUS
  <2> QED BY <2>1, <2>2
<1>5. Max(S) \in S /\ \A i \in S : Max(S) >= i
  BY <1>3, <1>4 DEF Max
<1> QED BY <1>5

\* The fields of a version.
LEMMA VersionFields ==
    ASSUME NEW v \in StoredVersion
    PROVE  /\ v.begin \in 1..MaxEpoch /\ v.begin \in Nat /\ v.begin # 0
           /\ v.end \in Epoch /\ v.end \in Nat
           /\ v.tomb \in BOOLEAN /\ v.body \in Body /\ v.emb \in Dims \cup {0}
           /\ v.feat \in FeatureState
BY StoreAssumption DEF StoredVersion, Epoch

\* In a history only the last version is open.
LEMMA HistoryFacts ==
    ASSUME NEW e, NEW vs \in History(e)
    PROVE  /\ vs \in Seq(StoredVersion) /\ Len(vs) \in Nat
           /\ \A i \in 1..Len(vs) :
                /\ vs[i] \in StoredVersion
                /\ vs[i].begin <= e /\ vs[i].end <= e
                /\ i < Len(vs) => vs[i].end = vs[i+1].begin /\ vs[i].end # 0
                /\ i = Len(vs) => vs[i].end = 0
<1>1. vs \in Seq(StoredVersion) /\ Len(vs) \in Nat /\ Chain(vs)
  BY DEF History
<1>2. \A i \in 1..Len(vs) : vs[i] \in StoredVersion /\ vs[i].begin <= e /\ vs[i].end <= e
  BY DEF History
<1>3. ASSUME NEW i \in 1..Len(vs), i < Len(vs)
      PROVE  vs[i].end = vs[i+1].begin /\ vs[i].end # 0
  <2>1. i + 1 \in 1..Len(vs) /\ i # Len(vs)
    BY <1>1, <1>3
  <2>2. vs[i].end = vs[i+1].begin
    BY <2>1, <1>1 DEF Chain
  <2>3. vs[i+1].begin # 0
    BY <2>1, <1>2, VersionFields
  <2> QED BY <2>2, <2>3
<1>4. \A i \in 1..Len(vs) : i = Len(vs) => vs[i].end = 0
  BY <1>1 DEF Chain
<1> QED BY <1>1, <1>2, <1>3, <1>4

\* The version an operation ends or merges into is the last one.
LEMMA LastVersion ==
    ASSUME NEW e, NEW vs \in History(e)
    PROVE  /\ Newest(vs) = Len(vs)
           /\ Current(vs) = IF vs # <<>> /\ ~vs[Len(vs)].tomb THEN Len(vs) ELSE 0
           /\ vs # <<>> <=> Len(vs) > 0
           /\ vs # <<>> => Len(vs) \in 1..Len(vs)
<1> DEFINE N == Len(vs)
           A == {i \in 1..N : vs[i].end = 0}
           B == {i \in 1..N : vs[i].end = 0 /\ ~vs[i].tomb}
<1>1. N \in Nat /\ \A i \in 1..N : vs[i].end = 0 <=> i = N
  BY HistoryFacts
<1>2. vs # <<>> <=> N > 0
  BY HistoryFacts
<1>3. A = IF N > 0 THEN {N} ELSE {}
  BY <1>1
<1>4. B = IF N > 0 /\ ~vs[N].tomb THEN {N} ELSE {}
  BY <1>1
<1>5. N > 0 => Max({N}) = N
  <2>1. N > 0 => {N} \in SUBSET (1..N)
    BY <1>1
  <2> QED BY <1>1, <2>1, MaxOf
<1>6. Newest(vs) = IF A # {} THEN Max(A) ELSE 0
  BY DEF Newest, SelectLastInSeq
<1>7. Current(vs) = IF B # {} THEN Max(B) ELSE 0
  BY DEF Current, SelectLastInSeq
<1> HIDE DEF A, B
<1>8. Newest(vs) = N
  BY <1>1, <1>3, <1>5, <1>6
<1>9. Current(vs) = IF N > 0 /\ ~vs[N].tomb THEN N ELSE 0
  BY <1>1, <1>4, <1>5, <1>7
<1> QED BY <1>1, <1>2, <1>8, <1>9

-----------------------------------------------------------------------------
(* What the operations do to the versions of a record *)

\* An epoch is a number.
LEMMA EpochFacts == Epoch \subseteq Nat /\ 1..MaxEpoch \subseteq Epoch /\ 0 \in Epoch
BY StoreAssumption DEF Epoch

\* A version that is ended is a version.
LEMMA EndedVersion ==
    ASSUME NEW v \in StoredVersion, NEW b \in Epoch
    PROVE  /\ [v EXCEPT !.end = b] \in StoredVersion
           /\ [v EXCEPT !.end = b].begin = v.begin
           /\ [v EXCEPT !.end = b].end = b
           /\ [v EXCEPT !.end = b].tomb = v.tomb
           /\ [v EXCEPT !.end = b].body = v.body
           /\ [v EXCEPT !.end = b].emb = v.emb
           /\ [v EXCEPT !.end = b].feat = v.feat
BY DEF StoredVersion

\* A new version ends the last one, and leaves the others alone.
LEMMA PushFacts ==
    ASSUME NEW e \in Epoch, NEW vs \in History(e),
           NEW v \in StoredVersion, v.end = 0, v.begin <= e
    PROVE  /\ Push(vs, v) \in History(e)
           /\ Len(Push(vs, v)) = Len(vs) + 1
           /\ Push(vs, v)[Len(vs) + 1] = v
           /\ \A i \in 1..Len(vs) : i < Len(vs) => Push(vs, v)[i] = vs[i]
           /\ \A i \in 1..Len(vs) :
                i = Len(vs) => Push(vs, v)[i] = [vs[i] EXCEPT !.end = v.begin]
<1> DEFINE N == Len(vs)
           ws == Close(vs, N, v.begin)
<1>1. N \in Nat /\ vs \in Seq(StoredVersion) /\ v.begin \in Epoch /\ e \in Nat
  BY HistoryFacts, VersionFields, EpochFacts
<1>2. /\ ws \in Seq(StoredVersion) /\ Len(ws) = N
      /\ \A i \in 1..N : i < N => ws[i] = vs[i]
      /\ \A i \in 1..N : i = N => ws[i] = [vs[i] EXCEPT !.end = v.begin]
  <2>1. CASE N = 0
    BY <1>1, <2>1 DEF Close
  <2>2. CASE N # 0
    <3>1. PICK w : w = [vs[N] EXCEPT !.end = v.begin] /\ w \in StoredVersion
      <4>1. vs[N] \in StoredVersion
        BY <1>1, <2>2
      <4> QED BY <1>1, <4>1, EndedVersion
    <3>2. ws = [vs EXCEPT ![N] = w]
      BY <2>2, <3>1 DEF Close
    <3> HIDE DEF ws
    <3> QED BY <1>1, <2>2, <3>1, <3>2
  <2> QED BY <2>1, <2>2
<1> HIDE DEF ws
<1>3. Push(vs, v) = Append(ws, v)
  BY DEF Push, ws
<1>4. PICK ps : ps = Push(vs, v)
  OBVIOUS
<1>5. /\ ps \in Seq(StoredVersion) /\ Len(ps) = N + 1 /\ ps[N + 1] = v
      /\ \A i \in 1..N : ps[i] = ws[i]
  BY <1>1, <1>2, <1>3, <1>4
<1>6. /\ \A i \in 1..N : i < N => ps[i] = vs[i]
      /\ \A i \in 1..N : i = N => ps[i] = [vs[i] EXCEPT !.end = v.begin]
  BY <1>2, <1>5
<1> HIDE DEF N
<1>7. ASSUME NEW i \in 1..(N + 1)
      PROVE  /\ ps[i].end = IF i = N + 1 THEN 0 ELSE ps[i+1].begin
             /\ ps[i].begin <= e /\ ps[i].end <= e
  <2>1. CASE i = N + 1
    BY <1>1, <1>5, <2>1
  <2>2. CASE i = N
    <3>1. i \in 1..N /\ N \in 1..N /\ i + 1 = N + 1 /\ i # N + 1
      BY <1>1, <2>2
    <3>2. vs[N] \in StoredVersion /\ vs[N].begin <= e
      BY <3>1, HistoryFacts DEF N
    <3>3. ps[i] = [vs[N] EXCEPT !.end = v.begin] /\ ps[i+1] = v
      BY <1>5, <1>6, <2>2, <3>1
    <3>4. ps[i].begin = vs[N].begin /\ ps[i].end = v.begin
      BY <1>1, <3>2, <3>3, EndedVersion
    <3> QED BY <3>1, <3>2, <3>3, <3>4
  <2>3. CASE i < N
    <3>1. i \in 1..N /\ i + 1 \in 1..N /\ i # N + 1
      BY <1>1, <2>3
    <3>2. /\ vs[i].begin <= e /\ vs[i].end <= e /\ vs[i].end = vs[i+1].begin
          /\ vs[i+1] \in StoredVersion
      BY <2>3, <3>1, HistoryFacts DEF N
    <3>3. ps[i+1].begin = vs[i+1].begin
      <4>1. CASE i + 1 < N
        BY <1>6, <3>1, <4>1
      <4>2. CASE i + 1 = N
        <5>1. ps[i+1] = [vs[i+1] EXCEPT !.end = v.begin]
          BY <1>6, <3>1, <4>2
        <5> QED BY <1>1, <3>2, <5>1, EndedVersion
      <4> QED BY <1>1, <2>3, <4>1, <4>2
    <3> QED BY <1>6, <2>3, <3>1, <3>2, <3>3
  <2> QED BY <1>1, <2>1, <2>2, <2>3
<1>8. ps \in History(e)
  BY <1>5, <1>7 DEF History, Chain
<1> QED BY <1>4, <1>5, <1>6, <1>8 DEF N

\* The version that a replacement makes.
NewVersion(d, in, e) ==
    Version(in.body, in.emb, BuildFeature(d, in, in.body, in.emb, NoFeature, e), e)

\* The version that a mutation makes of the last one.
MergedVersion(d, vs, in, e) ==
    LET live == vs # <<>> /\ ~vs[Len(vs)].tomb
        body == IF in.body = "absent" /\ live THEN vs[Len(vs)].body ELSE in.body
        emb == IF in.emb = 0 /\ live THEN vs[Len(vs)].emb ELSE in.emb
        prev == IF live THEN vs[Len(vs)].feat ELSE NoFeature
    IN  Version(body, emb, BuildFeature(d, in, body, emb, prev, e), e)

\* The tombstone that a deletion makes of the last version.
Tombstone(vs, e) == [vs[Len(vs)] EXCEPT !.begin = e, !.end = 0, !.tomb = TRUE]

\* The fields of an input.
LEMMA InputFields ==
    ASSUME NEW in \in Input
    PROVE  in.key \in Keys /\ in.body \in Body /\ in.emb \in Dims \cup {0}
BY DEF Input

\* Features are typed, whatever they are built from.
LEMMA FeatureType ==
    ASSUME NEW d, NEW in \in Input, NEW body \in Body, NEW emb,
           NEW prev \in FeatureState, NEW e \in Epoch
    PROVE  BuildFeature(d, in, body, emb, prev, e) \in FeatureState
<1>1. \A s \in {"Ready", "Dirty", "Missing"}, h \in Body \cup {"zero"} :
        Feature(s, h, e) \in FeatureState
  BY DEF Feature, FeatureState
<1>2. BuildFeature(d, in, body, emb, prev, e) \in
        {prev, Feature("Ready", body, e), Feature("Dirty", body, e),
         Feature("Missing", "zero", e)}
  BY DEF BuildFeature
<1>3. /\ Feature("Ready", body, e) \in FeatureState
      /\ Feature("Dirty", body, e) \in FeatureState
      /\ Feature("Missing", "zero", e) \in FeatureState
  BY <1>1
<1> QED BY <1>2, <1>3

\* The feature of a record without a vector column.
LEMMA NoFeatureType == NoFeature \in FeatureState
BY EpochFacts DEF NoFeature, FeatureState

\* The fields of a new version.
LEMMA VersionType ==
    ASSUME NEW body \in Body, NEW emb \in Dims \cup {0}, NEW feat \in FeatureState,
           NEW e \in 1..MaxEpoch, NEW v, v = Version(body, emb, feat, e)
    PROVE  /\ v \in StoredVersion /\ v.begin = e /\ v.end = 0 /\ ~v.tomb
           /\ v.body = body /\ v.emb = emb /\ v.feat = feat
BY EpochFacts DEF Version, StoredVersion

\* A replacement appends a new version.
LEMMA ReplaceIsPush ==
    ASSUME NEW E \in Epoch, NEW vs \in History(E), NEW d, NEW in \in Input,
           NEW e \in 1..MaxEpoch
    PROVE  /\ Replace(d, vs, in, e) = Push(vs, NewVersion(d, in, e))
           /\ NewVersion(d, in, e) \in StoredVersion
           /\ NewVersion(d, in, e).begin = e /\ NewVersion(d, in, e).end = 0
           /\ ~NewVersion(d, in, e).tomb
           /\ NewVersion(d, in, e).body = in.body
           /\ NewVersion(d, in, e).emb = in.emb
           /\ NewVersion(d, in, e).feat =
                BuildFeature(d, in, in.body, in.emb, NoFeature, e)
<1> DEFINE feat == BuildFeature(d, in, in.body, in.emb, NoFeature, e)
<1>1. feat \in FeatureState
  BY InputFields, FeatureType, NoFeatureType, EpochFacts
<1> HIDE DEF feat
<1>2. NewVersion(d, in, e) = Version(in.body, in.emb, feat, e)
  BY DEF NewVersion, feat
<1>3. /\ NewVersion(d, in, e) \in StoredVersion
      /\ NewVersion(d, in, e).begin = e /\ NewVersion(d, in, e).end = 0
      /\ ~NewVersion(d, in, e).tomb
      /\ NewVersion(d, in, e).body = in.body
      /\ NewVersion(d, in, e).emb = in.emb
      /\ NewVersion(d, in, e).feat = feat
  <2>1. in.body \in Body /\ in.emb \in Dims \cup {0}
    BY InputFields
  <2>2. PICK v, body, emb : v = NewVersion(d, in, e) /\ body = in.body /\ emb = in.emb
    OBVIOUS
  <2>3. v = Version(body, emb, feat, e) /\ body \in Body /\ emb \in Dims \cup {0}
    BY <1>2, <2>1, <2>2
  <2>4. /\ v \in StoredVersion /\ v.begin = e /\ v.end = 0 /\ ~v.tomb
        /\ v.body = body /\ v.emb = emb /\ v.feat = feat
    BY <1>1, <2>3, VersionType
  <2> QED BY <2>2, <2>4
<1>4. Replace(d, vs, in, e) = Append(Close(vs, Len(vs), e), NewVersion(d, in, e))
  BY LastVersion DEF Replace, NewVersion
<1> QED BY <1>3, <1>4 DEF Push, feat

\* So does a mutation.
LEMMA MutateIsPush ==
    ASSUME NEW E \in Epoch, NEW vs \in History(E), NEW d, NEW in \in Input,
           NEW e \in 1..MaxEpoch
    PROVE  /\ Mutate(d, vs, in, e) = Push(vs, MergedVersion(d, vs, in, e))
           /\ MergedVersion(d, vs, in, e) \in StoredVersion
           /\ MergedVersion(d, vs, in, e).begin = e
           /\ MergedVersion(d, vs, in, e).end = 0
           /\ ~MergedVersion(d, vs, in, e).tomb
           /\ Current(vs) = 0 =>
                /\ MergedVersion(d, vs, in, e).body = in.body
                /\ MergedVersion(d, vs, in, e).emb = in.emb
<1> DEFINE N == Len(vs)
           live == vs # <<>> /\ ~vs[N].tomb
           body == IF in.body = "absent" /\ live THEN vs[N].body ELSE in.body
           emb == IF in.emb = 0 /\ live THEN vs[N].emb ELSE in.emb
           prev == IF live THEN vs[N].feat ELSE NoFeature
           feat == BuildFeature(d, in, body, emb, prev, e)
           v == MergedVersion(d, vs, in, e)
<1>1. /\ Newest(vs) = N /\ Current(vs) = IF live THEN N ELSE 0
      /\ live => N \in 1..N
  BY LastVersion
<1>2. live => vs[N] \in StoredVersion /\ N # 0
  BY <1>1, HistoryFacts
<1>3. body \in Body /\ emb \in Dims \cup {0} /\ prev \in FeatureState
  BY <1>2, InputFields, VersionFields, NoFeatureType
<1>4. v = Version(body, emb, feat, e)
  BY DEF MergedVersion
<1>5. Mutate(d, vs, in, e) = Append(Close(vs, N, e), v)
  <2> DEFINE i == Current(vs)
             b == IF in.body = "absent" /\ i # 0 THEN vs[i].body ELSE in.body
             m == IF in.emb = 0 /\ i # 0 THEN vs[i].emb ELSE in.emb
             p == IF i = 0 THEN NoFeature ELSE vs[i].feat
  <2>1. b = body /\ m = emb /\ p = prev
    BY <1>1, <1>2
  <2>2. Mutate(d, vs, in, e) =
          Append(Close(vs, Newest(vs), e), Version(b, m, BuildFeature(d, in, b, m, p, e), e))
    BY DEF Mutate
  <2> QED BY <1>1, <1>4, <2>1, <2>2
<1> HIDE DEF body, emb, prev
<1>6. feat \in FeatureState
  BY <1>3, FeatureType, EpochFacts
<1> HIDE DEF feat
<1>7. /\ v \in StoredVersion /\ v.begin = e /\ v.end = 0 /\ ~v.tomb
      /\ v.body = body /\ v.emb = emb /\ v.feat = feat
  <2> HIDE DEF v
  <2> QED BY <1>3, <1>4, <1>6, VersionType
<1>8. Current(vs) = 0 => body = in.body /\ emb = in.emb
  BY <1>1, <1>2 DEF body, emb
<1> QED BY <1>5, <1>7, <1>8 DEF Push

\* And a deletion of a record that is there.
LEMMA DeleteIsPush ==
    ASSUME NEW E \in Epoch, NEW vs \in History(E), NEW e \in 1..MaxEpoch,
           Current(vs) # 0
    PROVE  /\ Delete(vs, e) = Push(vs, Tombstone(vs, e))
           /\ Tombstone(vs, e) \in StoredVersion
           /\ Tombstone(vs, e).begin = e /\ Tombstone(vs, e).end = 0
           /\ Tombstone(vs, e).tomb
           /\ Tombstone(vs, e).body = vs[Len(vs)].body
           /\ Tombstone(vs, e).emb = vs[Len(vs)].emb
           /\ Tombstone(vs, e).feat = vs[Len(vs)].feat
<1>1. Current(vs) = Len(vs) /\ Len(vs) \in 1..Len(vs)
  BY LastVersion
<1>2. vs[Len(vs)] \in StoredVersion
  BY <1>1, HistoryFacts
<1>3. /\ Tombstone(vs, e) \in StoredVersion
      /\ Tombstone(vs, e).begin = e /\ Tombstone(vs, e).end = 0
      /\ Tombstone(vs, e).tomb
      /\ Tombstone(vs, e).body = vs[Len(vs)].body
      /\ Tombstone(vs, e).emb = vs[Len(vs)].emb
      /\ Tombstone(vs, e).feat = vs[Len(vs)].feat
  BY <1>2, EpochFacts DEF Tombstone, StoredVersion
<1>4. Delete(vs, e) = Append(Close(vs, Len(vs), e), Tombstone(vs, e))
  BY <1>1 DEF Delete, Tombstone
<1> QED BY <1>3, <1>4 DEF Push

\* A feature of which the status changes.
Restated(feat, status, e) == [feat EXCEPT !.status = status, !.epoch = e]

\* A change of status touches the feature of the last version only.
LEMMA StatusFacts ==
    ASSUME NEW E \in Epoch, NEW vs \in History(E), NEW e \in Epoch, Current(vs) # 0,
           NEW status \in {"Ready", "Dirty", "Pending", "Failed", "Missing"},
           NEW ps, ps = SetStatus(vs, status, e)
    PROVE  /\ ps \in History(E) /\ Len(ps) = Len(vs)
           /\ \A i \in 1..Len(vs) : i < Len(vs) => ps[i] = vs[i]
           /\ \A i \in 1..Len(vs) :
                /\ ps[i].begin = vs[i].begin /\ ps[i].end = vs[i].end
                /\ ps[i].tomb = vs[i].tomb
                /\ ps[i].body = vs[i].body /\ ps[i].emb = vs[i].emb
                /\ i = Len(vs) => ps[i].feat = Restated(vs[i].feat, status, e)
<1> DEFINE N == Len(vs)
           w == [vs[N] EXCEPT !.feat = Restated(@, status, e)]
<1>1. Current(vs) = N /\ N \in 1..N /\ N \in Nat /\ vs \in Seq(StoredVersion)
  BY LastVersion, HistoryFacts
<1>2. vs[N] \in StoredVersion
  BY <1>1
<1>3. /\ w \in StoredVersion /\ w.begin = vs[N].begin /\ w.end = vs[N].end
      /\ w.tomb = vs[N].tomb /\ w.body = vs[N].body /\ w.emb = vs[N].emb
      /\ w.feat = Restated(vs[N].feat, status, e)
  BY <1>2 DEF StoredVersion, FeatureState, Restated
<1>4. ps = [vs EXCEPT ![N] = w]
  BY <1>1, <1>2 DEF SetStatus, StoredVersion, FeatureState, Restated
<1> HIDE DEF w
<1>5. /\ ps \in Seq(StoredVersion) /\ Len(ps) = N /\ ps[N] = w
      /\ \A i \in 1..N : i < N => ps[i] = vs[i]
  BY <1>1, <1>3, <1>4
<1> HIDE DEF N
<1>6. \A i \in 1..N :
        /\ ps[i].begin = vs[i].begin /\ ps[i].end = vs[i].end /\ ps[i].tomb = vs[i].tomb
        /\ ps[i].body = vs[i].body /\ ps[i].emb = vs[i].emb
        /\ i = N => ps[i].feat = Restated(vs[i].feat, status, e)
  BY <1>1, <1>3, <1>5
<1>7. \A i \in 1..N : /\ vs[i].begin <= E /\ vs[i].end <= E
                      /\ i < N => vs[i].end = vs[i+1].begin
                      /\ i = N => vs[i].end = 0
  BY HistoryFacts DEF N
<1>8. ASSUME NEW i \in 1..N
      PROVE  ps[i].end = IF i = N THEN 0 ELSE ps[i+1].begin
  <2>1. i < N => i + 1 \in 1..N
    BY <1>1
  <2>2. i < N \/ i = N
    BY <1>1
  <2> QED BY <1>6, <1>7, <2>1, <2>2
<1>9. ps \in History(E)
  BY <1>5, <1>6, <1>7, <1>8 DEF History, Chain
<1> QED BY <1>5, <1>6, <1>9 DEF N

-----------------------------------------------------------------------------
(* What the entries of a commit do to the store *)

\* What is there in an epoch may be there in a later one.
LEMMA HistoryGrows ==
    ASSUME NEW e \in Epoch, NEW f \in Epoch, e <= f
    PROVE  History(e) \subseteq History(f) /\ Stores(e) \subseteq Stores(f)
<1>1. ASSUME NEW vs \in History(e) PROVE vs \in History(f)
  <2>1. \A i \in 1..Len(vs) : vs[i] \in StoredVersion /\ vs[i].begin <= e /\ vs[i].end <= e
    BY HistoryFacts
  <2>2. \A i \in 1..Len(vs) : vs[i].begin \in Nat /\ vs[i].end \in Nat
    BY <2>1, VersionFields, EpochFacts
  <2>3. \A i \in 1..Len(vs) : vs[i].begin <= f /\ vs[i].end <= f
    BY <2>1, <2>2, EpochFacts
  <2> QED BY <2>3 DEF History
<1> QED BY <1>1 DEF Stores

\* No versions at all.
LEMMA NoVersions == \A e : <<>> \in History(e) /\ NoRecords \in Stores(e) /\ Failed \in Outcomes(e)
<1>1. \A e : <<>> \in History(e)
  BY DEF History, Chain
<1>2. \A e : NoRecords \in Stores(e)
  BY <1>1 DEF NoRecords, Stores
<1> QED BY <1>1, <1>2 DEF Failed, Outcomes

\* A store in which the versions of one record change.
LEMMA StoreChange ==
    ASSUME NEW e, NEW rs \in Stores(e), NEW k \in Keys, NEW vs \in History(e)
    PROVE  /\ [rs EXCEPT ![k] = vs] \in Stores(e)
           /\ Applied([rs EXCEPT ![k] = vs]) \in Outcomes(e)
           /\ Applied([rs EXCEPT ![k] = vs]).ok
           /\ Applied([rs EXCEPT ![k] = vs]).records = [rs EXCEPT ![k] = vs]
           /\ [rs EXCEPT ![k] = vs][k] = vs
           /\ \A j \in Keys : j # k => [rs EXCEPT ![k] = vs][j] = rs[j]
           /\ rs[k] \in History(e)
BY DEF Stores, Outcomes, Applied

\* The parts of an outcome.
LEMMA OutcomeParts ==
    ASSUME NEW e, NEW r \in Outcomes(e)
    PROVE  /\ r.ok \in BOOLEAN /\ r.records \in Stores(e)
           /\ \A k \in Keys : r.records[k] \in History(e)
BY DEF Outcomes, Stores

\* The parts of the outcome of a replay that got through.
LEMMA AppliedParts ==
    ASSUME NEW e, NEW rs \in Stores(e)
    PROVE  Applied(rs) \in Outcomes(e) /\ Applied(rs).ok /\ Applied(rs).records = rs
BY DEF Outcomes, Applied

\* The entries that a list may have.
Entries(list) ==
    CASE list = "replacements"  -> Input
      [] list = "mutations"     -> Input
      [] list = "deletions"     -> Keys
      [] list = "invalidations" -> Invalidation

\* The versions of a record after a write.
LEMMA WriteTyped ==
    ASSUME NEW E \in Epoch, NEW e \in 1..MaxEpoch, e <= E, NEW d,
           NEW vs \in History(E)
    PROVE  /\ \A in \in Input : Replace(d, vs, in, e) \in History(E)
           /\ \A in \in Input : Mutate(d, vs, in, e) \in History(E)
           /\ Current(vs) # 0 => Delete(vs, e) \in History(E)
<1>1. ASSUME NEW in \in Input PROVE Replace(d, vs, in, e) \in History(E)
  <2>1. PICK v : v = NewVersion(d, in, e)
    OBVIOUS
  <2>2. /\ Replace(d, vs, in, e) = Push(vs, v)
        /\ v \in StoredVersion /\ v.begin = e /\ v.end = 0
    BY <2>1, ReplaceIsPush
  <2> QED BY <2>2, PushFacts
<1>2. ASSUME NEW in \in Input PROVE Mutate(d, vs, in, e) \in History(E)
  <2>1. PICK v : v = MergedVersion(d, vs, in, e)
    OBVIOUS
  <2>2. /\ Mutate(d, vs, in, e) = Push(vs, v)
        /\ v \in StoredVersion /\ v.begin = e /\ v.end = 0
    BY <2>1, MutateIsPush
  <2> QED BY <2>2, PushFacts
<1>3. ASSUME Current(vs) # 0 PROVE Delete(vs, e) \in History(E)
  <2>1. PICK v : v = Tombstone(vs, e)
    OBVIOUS
  <2>2. /\ Delete(vs, e) = Push(vs, v)
        /\ v \in StoredVersion /\ v.begin = e /\ v.end = 0
    BY <1>3, <2>1, DeleteIsPush
  <2> QED BY <2>2, PushFacts
<1> QED BY <1>1, <1>2, <1>3

\* The fields of an invalidation.
LEMMA InvalidationFields ==
    ASSUME NEW x \in Invalidation
    PROVE  x.key \in Keys /\ x.status \in {"Ready", "Dirty", "Pending", "Failed", "Missing"}
BY StoreAssumption DEF Invalidation

\* Every entry gives an outcome.
LEMMA EntryTyped ==
    ASSUME NEW E \in Epoch, NEW e \in 1..MaxEpoch, e <= E, NEW d,
           NEW r \in Outcomes(E), NEW list \in Lists, NEW x \in Entries(list)
    PROVE  ApplyEntry(list, d, e, r, x) \in Outcomes(E)
<1>0. r.records \in Stores(E) /\ \A k \in Keys : r.records[k] \in History(E)
  BY OutcomeParts
<1>1. CASE list = "replacements"
  <2>1. x \in Input /\ x.key \in Keys
    BY <1>1, InputFields DEF Entries
  <2>2. PICK vs : vs = Replace(d, r.records[x.key], x, e)
    OBVIOUS
  <2>3. vs \in History(E)
    BY <1>0, <2>1, <2>2, WriteTyped
  <2>4. ApplyEntry(list, d, e, r, x) \in {Failed, Applied([r.records EXCEPT ![x.key] = vs])}
    BY <1>1, <2>2 DEF ApplyEntry, ApplyReplacement
  <2> QED BY <1>0, <2>1, <2>3, <2>4, StoreChange, NoVersions
<1>2. CASE list = "mutations"
  <2>1. x \in Input /\ x.key \in Keys
    BY <1>2, InputFields DEF Entries
  <2>2. PICK vs : vs = Mutate(d, r.records[x.key], x, e)
    OBVIOUS
  <2>3. vs \in History(E)
    BY <1>0, <2>1, <2>2, WriteTyped
  <2>4. ApplyEntry(list, d, e, r, x) \in {Failed, Applied([r.records EXCEPT ![x.key] = vs])}
    BY <1>2, <2>2 DEF ApplyEntry, ApplyMutation
  <2> QED BY <1>0, <2>1, <2>3, <2>4, StoreChange, NoVersions
<1>3. CASE list = "deletions"
  <2>1. x \in Keys
    BY <1>3 DEF Entries
  <2>2. PICK vs : vs = Delete(r.records[x], e)
    OBVIOUS
  <2>3. Current(r.records[x]) # 0 => vs \in History(E)
    BY <1>0, <2>1, <2>2, WriteTyped
  <2>4. \/ ApplyEntry(list, d, e, r, x) = Failed
        \/ /\ Current(r.records[x]) # 0
           /\ ApplyEntry(list, d, e, r, x) = Applied([r.records EXCEPT ![x] = vs])
    BY <1>3, <2>2 DEF ApplyEntry, ApplyDeletion
  <2> QED BY <1>0, <2>1, <2>3, <2>4, StoreChange, NoVersions
<1>4. CASE list = "invalidations"
  <2>1. x.key \in Keys /\ x.status \in {"Ready", "Dirty", "Pending", "Failed", "Missing"}
    BY <1>4, InvalidationFields DEF Entries
  <2>2. PICK vs : vs = SetStatus(r.records[x.key], x.status, e)
    OBVIOUS
  <2>3. Current(r.records[x.key]) # 0 => vs \in History(E)
    BY <1>0, <2>1, <2>2, StatusFacts, EpochFacts
  <2>4. \/ ApplyEntry(list, d, e, r, x) = Failed
        \/ /\ Current(r.records[x.key]) # 0
           /\ ApplyEntry(list, d, e, r, x) = Applied([r.records EXCEPT ![x.key] = vs])
    BY <1>4, <2>2 DEF ApplyEntry, ApplyInvalidation, HasFeature
  <2> QED BY <1>0, <2>1, <2>3, <2>4, StoreChange, NoVersions
<1> QED BY <1>1, <1>2, <1>3, <1>4 DEF Lists

\* The lists of a commit.
LEMMA CommitLists ==
    ASSUME NEW c \in CommitRecord, NEW list \in Lists
    PROVE  /\ c.epoch \in 1..MaxEpoch /\ Len(c[list]) \in Nat
           /\ \A n \in 1..Len(c[list]) : c[list][n] \in Entries(list)
<1>1. c[list] \in Seq(Entries(list))
  BY DEF CommitRecord, Lists, Entries
<1>2. c.epoch \in 1..MaxEpoch
  BY DEF CommitRecord
<1> QED BY <1>1, <1>2

\* What every entry keeps, a commit keeps.
LEMMA CommitKeeps ==
    ASSUME NEW d, NEW c \in CommitRecord, NEW G, NEW r \in G,
           \A list \in Lists : \A x \in Entries(list) : \A s \in G :
              ApplyEntry(list, d, c.epoch, s, x) \in G
    PROVE  ApplyCommit(d, r, c) \in G
<1>1. ASSUME NEW list \in Lists, NEW s \in G PROVE ApplyList(list, d, s, c) \in G
  <2>1. Len(c[list]) \in Nat /\ \A n \in 1..Len(c[list]) : c[list][n] \in Entries(list)
    BY CommitLists
  <2>2. \A t \in G : \A n \in 1..Len(c[list]) : ApplyEntry(list, d, c.epoch, t, c[list][n]) \in G
    BY <2>1
  <2> QED BY <2>1, <2>2, ListKeeps
<1>2. PICK s1 : s1 = ApplyList("replacements", d, r, c)
  OBVIOUS
<1>3. PICK s2 : s2 = ApplyList("mutations", d, s1, c)
  OBVIOUS
<1>4. PICK s3 : s3 = ApplyList("deletions", d, s2, c)
  OBVIOUS
<1>5. ApplyCommit(d, r, c) = ApplyList("invalidations", d, s3, c)
  BY <1>2, <1>3, <1>4 DEF ApplyCommit
<1>6. \A list \in Lists, s \in G : ApplyList(list, d, s, c) \in G
  BY <1>1
<1>7. s1 \in G
  BY <1>2, <1>6 DEF Lists
<1>8. s2 \in G
  BY <1>3, <1>6, <1>7 DEF Lists
<1>9. s3 \in G
  BY <1>4, <1>6, <1>8 DEF Lists
<1> QED BY <1>5, <1>6, <1>9 DEF Lists

\* Every commit gives an outcome, and so does a replay.
LEMMA CommitTyped ==
    ASSUME NEW E \in Epoch, NEW d, NEW c \in CommitRecord, c.epoch <= E,
           NEW r \in Outcomes(E)
    PROVE  ApplyCommit(d, r, c) \in Outcomes(E)
<1>1. c.epoch \in 1..MaxEpoch
  BY DEF CommitRecord
<1>2. PICK e : e = c.epoch
  OBVIOUS
<1>3. \A list \in Lists : \A x \in Entries(list) : \A s \in Outcomes(E) :
        ApplyEntry(list, d, e, s, x) \in Outcomes(E)
  BY <1>1, <1>2, EntryTyped
<1>4. \A list \in Lists : \A x \in Entries(list) : \A s \in Outcomes(E) :
        ApplyEntry(list, d, c.epoch, s, x) \in Outcomes(E)
  BY <1>2, <1>3
<1> QED BY <1>4, CommitKeeps

\* A replay of commits up to an epoch gives an outcome of that epoch.
LEMMA ReplayTyped ==
    ASSUME NEW E \in Epoch, NEW d, NEW cs \in Seq(CommitRecord),
           \A n \in 1..Len(cs) : cs[n].epoch <= E, NEW r \in Outcomes(E)
    PROVE  ApplyCommits(d, r, cs) \in Outcomes(E)
<1>1. Len(cs) \in Nat /\ \A n \in 1..Len(cs) : cs[n] \in CommitRecord
  OBVIOUS
<1>2. \A s \in Outcomes(E) : \A n \in 1..Len(cs) : ApplyCommit(d, s, cs[n]) \in Outcomes(E)
  <2> SUFFICES ASSUME NEW s \in Outcomes(E), NEW n \in 1..Len(cs)
               PROVE  ApplyCommit(d, s, cs[n]) \in Outcomes(E)
    OBVIOUS
  <2>1. PICK c : c = cs[n]
    OBVIOUS
  <2>2. c \in CommitRecord /\ c.epoch <= E
    BY <1>1, <2>1
  <2>3. ApplyCommit(d, s, c) \in Outcomes(E)
    BY <2>2, CommitTyped
  <2> QED BY <2>1, <2>3
<1> QED BY <1>1, <1>2, CommitsKeep

-----------------------------------------------------------------------------
(* Source hashes *)

\* A version of a table without a vector column (z) has no feature; one of a
\* table with a vector column has one, computed from the body next to it.
Sound(z, v) ==
    IF z THEN v.feat = NoFeature
    ELSE /\ v.feat # NoFeature
         /\ v.feat.hash = v.body \/ (v.feat.hash = "zero" /\ v.body = "absent")

SoundList(z, vs) == \A i \in 1..Len(vs) : Sound(z, vs[i])

SoundStore(z, rs) == \A k \in Keys : SoundList(z, rs[k])

\* A feature with a status is a feature.
LEMMA FeatureNames ==
    ASSUME NEW s \in {"Ready", "Dirty", "Pending", "Failed", "Missing"}, NEW h, NEW e
    PROVE  /\ Feature(s, h, e) # NoFeature
           /\ Feature(s, h, e).hash = h /\ Feature(s, h, e).status = s
           /\ Feature(s, h, e).epoch = e
<1>1. Feature(s, h, e).status = s /\ Feature(s, h, e).hash = h /\ Feature(s, h, e).epoch = e
  BY DEF Feature
<1>2. NoFeature.status = "none"
  BY DEF NoFeature
<1>3. s # "none"
  OBVIOUS
<1> QED BY <1>1, <1>2, <1>3

\* What a write builds from a sound version, or from nothing, is sound.
LEMMA BuildSound ==
    ASSUME NEW d, NEW in, NEW body, NEW emb, NEW prev, NEW e,
           d = 0 => prev = NoFeature,
           d # 0 /\ in.emb = 0 /\ in.body = "absent" =>
              IF prev # NoFeature
              THEN prev.hash = body \/ (prev.hash = "zero" /\ body = "absent")
              ELSE body = "absent" /\ emb = 0
    PROVE  IF d = 0 THEN BuildFeature(d, in, body, emb, prev, e) = NoFeature
           ELSE /\ BuildFeature(d, in, body, emb, prev, e) # NoFeature
                /\ \/ BuildFeature(d, in, body, emb, prev, e).hash = body
                   \/ /\ BuildFeature(d, in, body, emb, prev, e).hash = "zero"
                      /\ body = "absent"
<1> DEFINE f == BuildFeature(d, in, body, emb, prev, e)
<1>0. /\ Feature("Ready", body, e) # NoFeature /\ Feature("Ready", body, e).hash = body
      /\ Feature("Dirty", body, e) # NoFeature /\ Feature("Dirty", body, e).hash = body
      /\ Feature("Missing", "zero", e) # NoFeature
      /\ Feature("Missing", "zero", e).hash = "zero"
  BY FeatureNames
<1>1. CASE d = 0
  <2>1. f = prev
    BY <1>1 DEF BuildFeature
  <2> QED BY <1>1, <2>1
<1>2. CASE d # 0 /\ in.emb # 0
  <2>1. f = Feature("Ready", body, e)
    BY <1>2 DEF BuildFeature
  <2> HIDE DEF f
  <2> QED BY <1>0, <1>2, <2>1 DEF f
<1>3. CASE d # 0 /\ in.emb = 0 /\ in.body # "absent"
  <2>1. f = Feature("Dirty", body, e)
    BY <1>3 DEF BuildFeature
  <2> QED BY <1>0, <1>3, <2>1
<1>4. CASE d # 0 /\ in.emb = 0 /\ in.body = "absent"
  <2>1. f = IF prev # NoFeature THEN prev
            ELSE IF emb # 0 THEN Feature("Ready", body, e)
            ELSE Feature("Missing", "zero", e)
    BY <1>4 DEF BuildFeature
  <2> HIDE DEF f
  <2>2. CASE prev # NoFeature
    BY <1>4, <2>1, <2>2 DEF f
  <2>3. CASE prev = NoFeature
    BY <1>0, <1>4, <2>1, <2>3 DEF f
  <2> QED BY <2>2, <2>3
<1> QED BY <1>1, <1>2, <1>3, <1>4

\* A sound version keeps a list sound.
LEMMA PushSound ==
    ASSUME NEW z, NEW e \in Epoch, NEW vs \in History(e), SoundList(z, vs),
           NEW v \in StoredVersion, v.end = 0, v.begin <= e, Sound(z, v)
    PROVE  SoundList(z, Push(vs, v))
<1> DEFINE N == Len(vs)
<1>1. PICK ps : ps = Push(vs, v)
  OBVIOUS
<1>2. /\ Len(ps) = N + 1 /\ ps[N + 1] = v /\ N \in Nat
      /\ \A i \in 1..N : i < N => ps[i] = vs[i]
      /\ \A i \in 1..N : i = N => ps[i] = [vs[i] EXCEPT !.end = v.begin]
  BY <1>1, PushFacts, HistoryFacts
<1>3. ASSUME NEW i \in 1..N, i = N PROVE Sound(z, ps[i])
  <2>1. vs[i] \in StoredVersion /\ v.begin \in Epoch
    BY HistoryFacts, VersionFields, EpochFacts
  <2>a. ps[i] = [vs[i] EXCEPT !.end = v.begin]
    BY <1>2, <1>3
  <2>b. PICK w, b : w = vs[i] /\ b = v.begin
    OBVIOUS
  <2>c. [w EXCEPT !.end = b].feat = w.feat /\ [w EXCEPT !.end = b].body = w.body
    BY <2>1, <2>b DEF StoredVersion
  <2>2. ps[i].feat = vs[i].feat /\ ps[i].body = vs[i].body
    BY <2>a, <2>b, <2>c
  <2>3. Sound(z, vs[i])
    BY DEF SoundList
  <2> QED BY <2>2, <2>3 DEF Sound
<1>4. ASSUME NEW i \in 1..(N + 1) PROVE Sound(z, ps[i])
  <2>1. CASE i = N + 1
    BY <1>2, <2>1
  <2>2. CASE i < N
    BY <1>2, <2>2 DEF SoundList
  <2>3. CASE i = N
    BY <1>2, <1>3, <2>3
  <2> QED BY <1>2, <2>1, <2>2, <2>3
<1> QED BY <1>1, <1>2, <1>4 DEF SoundList

\* Writes keep the versions of a record sound.
LEMMA WriteSound ==
    ASSUME NEW E \in Epoch, NEW e \in 1..MaxEpoch, e <= E, NEW d,
           NEW vs \in History(E), SoundList(d = 0, vs)
    PROVE  /\ \A in \in Input : SoundList(d = 0, Replace(d, vs, in, e))
           /\ \A in \in Input : SoundList(d = 0, Mutate(d, vs, in, e))
           /\ Current(vs) # 0 => SoundList(d = 0, Delete(vs, e))
<1> DEFINE N == Len(vs)
<1>1. ASSUME NEW in \in Input PROVE SoundList(d = 0, Replace(d, vs, in, e))
  <2>1. PICK v : v = NewVersion(d, in, e)
    OBVIOUS
  <2>2. /\ Replace(d, vs, in, e) = Push(vs, v)
        /\ v \in StoredVersion /\ v.begin = e /\ v.end = 0 /\ v.body = in.body
        /\ v.feat = BuildFeature(d, in, in.body, in.emb, NoFeature, e)
    BY <2>1, ReplaceIsPush
  <2>3. PICK body, emb : body = in.body /\ emb = in.emb
    OBVIOUS
  <2>4. IF d = 0 THEN BuildFeature(d, in, body, emb, NoFeature, e) = NoFeature
        ELSE /\ BuildFeature(d, in, body, emb, NoFeature, e) # NoFeature
             /\ \/ BuildFeature(d, in, body, emb, NoFeature, e).hash = body
                \/ /\ BuildFeature(d, in, body, emb, NoFeature, e).hash = "zero"
                   /\ body = "absent"
    BY <2>3, BuildSound
  <2>5. v.feat = BuildFeature(d, in, body, emb, NoFeature, e) /\ v.body = body
    BY <2>2, <2>3
  <2>6. Sound(d = 0, v)
    BY <2>4, <2>5 DEF Sound
  <2> QED BY <2>2, <2>6, PushSound
<1>2. ASSUME NEW in \in Input PROVE SoundList(d = 0, Mutate(d, vs, in, e))
  <2> DEFINE live == vs # <<>> /\ ~vs[N].tomb
             body == IF in.body = "absent" /\ live THEN vs[N].body ELSE in.body
             emb == IF in.emb = 0 /\ live THEN vs[N].emb ELSE in.emb
             prev == IF live THEN vs[N].feat ELSE NoFeature
  <2>1. PICK v : v = MergedVersion(d, vs, in, e)
    OBVIOUS
  <2>2. /\ Mutate(d, vs, in, e) = Push(vs, v)
        /\ v \in StoredVersion /\ v.begin = e /\ v.end = 0
    BY <2>1, MutateIsPush
  <2>3. v.body = body /\ v.feat = BuildFeature(d, in, body, emb, prev, e)
    BY <2>1 DEF MergedVersion, Version
  <2>4. live => N \in 1..N
    BY LastVersion
  <2>5. live => Sound(d = 0, vs[N])
    BY <2>4 DEF SoundList
  <2>6. d = 0 => prev = NoFeature
    BY <2>5 DEF Sound
  <2>7. d # 0 /\ in.emb = 0 /\ in.body = "absent" =>
          IF prev # NoFeature
          THEN prev.hash = body \/ (prev.hash = "zero" /\ body = "absent")
          ELSE body = "absent" /\ emb = 0
    BY <2>5 DEF Sound
  <2> HIDE DEF body, emb, prev
  <2>8. IF d = 0 THEN BuildFeature(d, in, body, emb, prev, e) = NoFeature
        ELSE /\ BuildFeature(d, in, body, emb, prev, e) # NoFeature
             /\ \/ BuildFeature(d, in, body, emb, prev, e).hash = body
                \/ /\ BuildFeature(d, in, body, emb, prev, e).hash = "zero"
                   /\ body = "absent"
    BY <2>6, <2>7, BuildSound
  <2>9. Sound(d = 0, v)
    BY <2>3, <2>8 DEF Sound
  <2> QED BY <2>2, <2>9, PushSound
<1>3. ASSUME Current(vs) # 0 PROVE SoundList(d = 0, Delete(vs, e))
  <2>1. PICK v : v = Tombstone(vs, e)
    OBVIOUS
  <2>2. /\ Delete(vs, e) = Push(vs, v)
        /\ v \in StoredVersion /\ v.begin = e /\ v.end = 0
        /\ v.body = vs[N].body /\ v.feat = vs[N].feat
    BY <1>3, <2>1, DeleteIsPush
  <2>3. N \in 1..N
    BY <1>3, LastVersion
  <2>4. Sound(d = 0, v)
    BY <2>2, <2>3 DEF Sound, SoundList
  <2> QED BY <2>2, <2>4, PushSound
<1> QED BY <1>1, <1>2, <1>3

\* A change of status keeps them sound.
LEMMA StatusSound ==
    ASSUME NEW E \in Epoch, NEW e \in Epoch, NEW z, NEW vs \in History(E), HasFeature(vs),
           SoundList(z, vs),
           NEW status \in {"Ready", "Dirty", "Pending", "Failed", "Missing"}
    PROVE  SoundList(z, SetStatus(vs, status, e))
<1> DEFINE N == Len(vs)
<1>1. Current(vs) = N /\ N \in 1..N /\ N \in Nat /\ vs[N].feat # NoFeature
  BY LastVersion, HistoryFacts DEF HasFeature
<1>2. PICK ps : ps = SetStatus(vs, status, e)
  OBVIOUS
<1>3. /\ Len(ps) = N /\ \A i \in 1..N : i < N => ps[i] = vs[i]
      /\ ps[N].body = vs[N].body /\ ps[N].feat = Restated(vs[N].feat, status, e)
  <2>1. Current(vs) # 0
    BY DEF HasFeature
  <2> QED BY <1>1, <1>2, <2>1, StatusFacts
<1>4. vs[N].feat \in FeatureState
  BY <1>1, HistoryFacts, VersionFields
<1>5. /\ ps[N].body = vs[N].body /\ ps[N].feat.hash = vs[N].feat.hash
      /\ ps[N].feat.status = status
  BY <1>3, <1>4 DEF FeatureState, Restated
<1>6. ps[N].feat # NoFeature
  <2>1. NoFeature.status = "none"
    BY DEF NoFeature
  <2> QED BY <1>5, <2>1
<1>7. Sound(z, vs[N])
  BY <1>1 DEF SoundList
<1>8. Sound(z, ps[N])
  BY <1>1, <1>5, <1>6, <1>7 DEF Sound
<1>9. \A i \in 1..N : Sound(z, ps[i])
  BY <1>1, <1>3, <1>8 DEF SoundList
<1> QED BY <1>2, <1>3, <1>9 DEF SoundList

\* The outcomes with sound versions only.
SoundOutcomes(z, e) == {o \in Outcomes(e) : SoundStore(z, o.records)}

\* A store in which the versions of one record change.
LEMMA SoundChange ==
    ASSUME NEW z, NEW e, NEW rs \in Stores(e), SoundStore(z, rs), NEW k \in Keys,
           NEW vs \in History(e), SoundList(z, vs)
    PROVE  /\ SoundStore(z, [rs EXCEPT ![k] = vs])
           /\ Applied([rs EXCEPT ![k] = vs]) \in SoundOutcomes(z, e)
<1>1. PICK ss : ss = [rs EXCEPT ![k] = vs]
  OBVIOUS
<1>2. /\ ss[k] = vs /\ \A j \in Keys : j # k => ss[j] = rs[j]
      /\ Applied(ss) \in Outcomes(e) /\ Applied(ss).records = ss
  <2>1. /\ Applied([rs EXCEPT ![k] = vs]) \in Outcomes(e)
        /\ Applied([rs EXCEPT ![k] = vs]).records = [rs EXCEPT ![k] = vs]
        /\ [rs EXCEPT ![k] = vs][k] = vs
        /\ \A j \in Keys : j # k => [rs EXCEPT ![k] = vs][j] = rs[j]
    BY StoreChange
  <2> QED BY <1>1, <2>1
<1>3. SoundStore(z, ss)
  BY <1>2 DEF SoundStore
<1>4. Applied(ss) \in SoundOutcomes(z, e)
  BY <1>2, <1>3 DEF SoundOutcomes
<1> QED BY <1>1, <1>3, <1>4

\* A store without records is sound.
LEMMA NothingSound == \A z, e : SoundStore(z, NoRecords) /\ Failed \in SoundOutcomes(z, e)
<1>1. \A z : SoundStore(z, NoRecords)
  BY DEF SoundStore, SoundList, NoRecords
<1>2. Failed.records = NoRecords
  BY DEF Failed
<1> QED BY <1>1, <1>2, NoVersions DEF SoundOutcomes

\* Every entry keeps the store sound.
LEMMA EntrySound ==
    ASSUME NEW E \in Epoch, NEW e \in 1..MaxEpoch, e <= E, NEW d,
           NEW r \in SoundOutcomes(d = 0, E), NEW list \in Lists, NEW x \in Entries(list)
    PROVE  ApplyEntry(list, d, e, r, x) \in SoundOutcomes(d = 0, E)
<1>0. /\ r.records \in Stores(E) /\ SoundStore(d = 0, r.records)
      /\ \A k \in Keys : r.records[k] \in History(E) /\ SoundList(d = 0, r.records[k])
  <2>1. r \in Outcomes(E) /\ SoundStore(d = 0, r.records)
    BY DEF SoundOutcomes
  <2> QED BY <2>1, OutcomeParts DEF SoundStore
<1>1. CASE list = "replacements"
  <2>1. x \in Input /\ x.key \in Keys
    BY <1>1, InputFields DEF Entries
  <2>2. PICK vs : vs = Replace(d, r.records[x.key], x, e)
    OBVIOUS
  <2>3. vs \in History(E) /\ SoundList(d = 0, vs)
    BY <1>0, <2>1, <2>2, WriteTyped, WriteSound
  <2>4. ApplyEntry(list, d, e, r, x) \in {Failed, Applied([r.records EXCEPT ![x.key] = vs])}
    BY <1>1, <2>2 DEF ApplyEntry, ApplyReplacement
  <2> QED BY <1>0, <2>1, <2>3, <2>4, SoundChange, NothingSound
<1>2. CASE list = "mutations"
  <2>1. x \in Input /\ x.key \in Keys
    BY <1>2, InputFields DEF Entries
  <2>2. PICK vs : vs = Mutate(d, r.records[x.key], x, e)
    OBVIOUS
  <2>3. vs \in History(E) /\ SoundList(d = 0, vs)
    BY <1>0, <2>1, <2>2, WriteTyped, WriteSound
  <2>4. ApplyEntry(list, d, e, r, x) \in {Failed, Applied([r.records EXCEPT ![x.key] = vs])}
    BY <1>2, <2>2 DEF ApplyEntry, ApplyMutation
  <2> QED BY <1>0, <2>1, <2>3, <2>4, SoundChange, NothingSound
<1>3. CASE list = "deletions"
  <2>1. x \in Keys
    BY <1>3 DEF Entries
  <2>2. PICK vs : vs = Delete(r.records[x], e)
    OBVIOUS
  <2>3. Current(r.records[x]) # 0 => vs \in History(E) /\ SoundList(d = 0, vs)
    BY <1>0, <2>1, <2>2, WriteTyped, WriteSound
  <2>4. \/ ApplyEntry(list, d, e, r, x) = Failed
        \/ /\ Current(r.records[x]) # 0
           /\ ApplyEntry(list, d, e, r, x) = Applied([r.records EXCEPT ![x] = vs])
    BY <1>3, <2>2 DEF ApplyEntry, ApplyDeletion
  <2> QED BY <1>0, <2>1, <2>3, <2>4, SoundChange, NothingSound
<1>4. CASE list = "invalidations"
  <2>1. x.key \in Keys /\ x.status \in {"Ready", "Dirty", "Pending", "Failed", "Missing"}
    BY <1>4, InvalidationFields DEF Entries
  <2>2. PICK vs : vs = SetStatus(r.records[x.key], x.status, e)
    OBVIOUS
  <2>3. HasFeature(r.records[x.key]) => vs \in History(E) /\ SoundList(d = 0, vs)
    <3>1. HasFeature(r.records[x.key]) => Current(r.records[x.key]) # 0
      BY DEF HasFeature
    <3>2. HasFeature(r.records[x.key]) => vs \in History(E)
      <4> SUFFICES ASSUME HasFeature(r.records[x.key]) PROVE vs \in History(E)
        OBVIOUS
      <4>1. r.records[x.key] \in History(E) /\ e \in Epoch /\ E \in Epoch
        BY <1>0, <2>1, EpochFacts
      <4> QED BY <2>1, <2>2, <3>1, <4>1, StatusFacts
    <3>3. HasFeature(r.records[x.key]) => SoundList(d = 0, vs)
      BY <1>0, <2>1, <2>2, StatusSound, EpochFacts
    <3> QED BY <3>2, <3>3
  <2>4. \/ ApplyEntry(list, d, e, r, x) = Failed
        \/ /\ HasFeature(r.records[x.key])
           /\ ApplyEntry(list, d, e, r, x) = Applied([r.records EXCEPT ![x.key] = vs])
    BY <1>4, <2>2 DEF ApplyEntry, ApplyInvalidation
  <2> QED BY <1>0, <2>1, <2>3, <2>4, SoundChange, NothingSound
<1> QED BY <1>1, <1>2, <1>3, <1>4 DEF Lists

\* So does a replay.
LEMMA ReplaySound ==
    ASSUME NEW E \in Epoch, NEW d, NEW cs \in Seq(CommitRecord),
           \A n \in 1..Len(cs) : cs[n].epoch <= E, NEW r \in SoundOutcomes(d = 0, E)
    PROVE  ApplyCommits(d, r, cs) \in SoundOutcomes(d = 0, E)
<1> DEFINE G == SoundOutcomes(d = 0, E)
<1>1. Len(cs) \in Nat /\ \A n \in 1..Len(cs) : cs[n] \in CommitRecord
  OBVIOUS
<1>2. \A s \in G : \A n \in 1..Len(cs) : ApplyCommit(d, s, cs[n]) \in G
  <2> SUFFICES ASSUME NEW s \in G, NEW n \in 1..Len(cs)
               PROVE  ApplyCommit(d, s, cs[n]) \in G
    OBVIOUS
  <2>1. PICK c, e : c = cs[n] /\ e = c.epoch
    OBVIOUS
  <2>2. c \in CommitRecord /\ e <= E /\ e \in 1..MaxEpoch
    BY <1>1, <2>1 DEF CommitRecord
  <2>3. \A list \in Lists : \A x \in Entries(list) : \A t \in G :
          ApplyEntry(list, d, e, t, x) \in G
    BY <2>2, EntrySound
  <2>4. \A list \in Lists : \A x \in Entries(list) : \A t \in G :
          ApplyEntry(list, d, c.epoch, t, x) \in G
    BY <2>1, <2>3
  <2> HIDE DEF G
  <2>5. ApplyCommit(d, s, c) \in G
    BY <2>2, <2>4, CommitKeeps
  <2> QED BY <2>1, <2>5
<1> HIDE DEF G
<1>3. r \in G
  BY DEF G
<1>4. ApplyCommits(d, r, cs) \in G
  BY <1>1, <1>2, <1>3, CommitsKeep
<1> QED BY <1>4 DEF G

-----------------------------------------------------------------------------
(* A replay follows the live store *)

\* The same version pushed on both sides.
LEMMA PushEnd ==
    ASSUME NEW x, NEW E \in Epoch, NEW r \in History(E), NEW l \in History(E),
           NEW n \in Nat, NEW b, EndOf(x, r, l, n, b),
           NEW v \in StoredVersion, NEW w \in StoredVersion,
           v.end = 0, w.end = 0, w.begin <= E, Alike(x, v, w)
    PROVE  EndOf(x, Push(r, v), Push(l, w), n, b)
<1>1. PICK p, q : p = Push(r, v) /\ q = Push(l, w)
  OBVIOUS
<1>2. PICK R, L, t : R = Len(r) /\ L = Len(l) /\ t = w.begin
  OBVIOUS
<1>3. v.begin = t /\ t \in Epoch /\ v.begin <= E
  BY <1>2, VersionFields, EpochFacts DEF Alike
<1>4. /\ R \in Nat /\ Len(p) = R + 1 /\ p[R + 1] = v
      /\ \A i \in 1..R : i < R => p[i] = r[i]
      /\ \A i \in 1..R : i = R => p[i] = [r[i] EXCEPT !.end = v.begin]
  <2>1. /\ Len(Push(r, v)) = Len(r) + 1 /\ Push(r, v)[Len(r) + 1] = v
        /\ \A i \in 1..Len(r) : i < Len(r) => Push(r, v)[i] = r[i]
        /\ \A i \in 1..Len(r) :
             i = Len(r) => Push(r, v)[i] = [r[i] EXCEPT !.end = v.begin]
    BY <1>3, PushFacts
  <2> QED BY <1>1, <1>2, <2>1, HistoryFacts
<1>5. /\ L \in Nat /\ Len(q) = L + 1 /\ q[L + 1] = w
      /\ \A i \in 1..L : i < L => q[i] = l[i]
      /\ \A i \in 1..L : i = L => q[i] = [l[i] EXCEPT !.end = w.begin]
  <2>1. /\ Len(Push(l, w)) = Len(l) + 1 /\ Push(l, w)[Len(l) + 1] = w
        /\ \A i \in 1..Len(l) : i < Len(l) => Push(l, w)[i] = l[i]
        /\ \A i \in 1..Len(l) :
             i = Len(l) => Push(l, w)[i] = [l[i] EXCEPT !.end = w.begin]
    BY PushFacts
  <2> QED BY <1>1, <1>2, <2>1, HistoryFacts
<1>6. /\ L = R + n /\ \A i \in 1..R : Alike(x, r[i], l[i + n])
      /\ \A i \in 1..n : l[i].end # 0 /\ l[i].end <= b
      /\ n > 0 => R > 0
  BY <1>2 DEF EndOf
<1>7. /\ \A i \in 1..R : r[i] \in StoredVersion
      /\ \A i \in 1..L : l[i] \in StoredVersion
  BY <1>2, HistoryFacts
<1>8. Len(q) = Len(p) + n
  BY <1>4, <1>5, <1>6
<1>9. ASSUME NEW i \in 1..(R + 1) PROVE Alike(x, p[i], q[i + n])
  <2>1. CASE i = R + 1
    <3>1. i + n = L + 1
      BY <1>4, <1>6, <2>1
    <3> QED BY <1>4, <1>5, <2>1, <3>1
  <2>2. CASE i < R
    <3>1. i \in 1..R /\ i + n \in 1..L /\ i + n < L
      BY <1>4, <1>6, <2>2
    <3> QED BY <1>4, <1>5, <1>6, <2>2, <3>1
  <2>3. CASE i = R
    <3>1. i \in 1..R /\ i + n \in 1..L /\ i + n = L
      BY <1>4, <1>6, <2>3
    <3>2. PICK f, g : f = r[i] /\ g = l[i + n]
      OBVIOUS
    <3>3. p[i] = [f EXCEPT !.end = t] /\ q[i + n] = [g EXCEPT !.end = t]
      BY <1>2, <1>3, <1>4, <1>5, <2>3, <3>1, <3>2
    <3>4. f \in StoredVersion /\ g \in StoredVersion /\ Alike(x, f, g)
      BY <1>6, <1>7, <3>1, <3>2
    <3>5. Alike(x, [f EXCEPT !.end = t], [g EXCEPT !.end = t])
      BY <1>3, <3>4, EndedVersion DEF Alike
    <3> QED BY <3>3, <3>5
  <2> QED BY <1>4, <2>1, <2>2, <2>3
<1>10. \A i \in 1..n : q[i].end # 0 /\ q[i].end <= b
  <2>1. \A i \in 1..n : i \in 1..L /\ i < L
    BY <1>4, <1>6
  <2> QED BY <1>5, <1>6, <2>1
<1>11. \A i \in 1..Len(p) : Alike(x, p[i], q[i + n])
  BY <1>4, <1>9
<1>12. n > 0 => Len(p) > 0
  BY <1>4
<1> QED BY <1>1, <1>8, <1>10, <1>11, <1>12 DEF EndOf

\* Both sides have a current version, and then it is the same, or neither has.
LEMMA LastAlike ==
    ASSUME NEW x, NEW E \in Epoch, NEW r \in History(E), NEW l \in History(E),
           NEW n \in Nat, NEW b, EndOf(x, r, l, n, b)
    PROVE  /\ Current(r) # 0 <=> Current(l) # 0
           /\ r # <<>> <=> l # <<>>
           /\ r # <<>> => Alike(x, r[Len(r)], l[Len(l)])
<1>1. PICK R, L : R = Len(r) /\ L = Len(l)
  OBVIOUS
<1>2. R \in Nat /\ L \in Nat /\ L = R + n /\ (n > 0 => R > 0)
  BY <1>1, HistoryFacts DEF EndOf
<1>3. (r # <<>> <=> R > 0) /\ (l # <<>> <=> L > 0)
  BY <1>1, LastVersion
<1>4. r # <<>> <=> l # <<>>
  BY <1>2, <1>3
<1>5. r # <<>> => Alike(x, r[R], l[L])
  <2>1. r # <<>> => R \in 1..R /\ R + n = L
    BY <1>2, <1>3
  <2> QED BY <1>1, <2>1 DEF EndOf
<1>6. r # <<>> => r[R].tomb = l[L].tomb
  BY <1>5 DEF Alike
<1>7. /\ Current(r) = IF r # <<>> /\ ~r[R].tomb THEN R ELSE 0
      /\ Current(l) = IF l # <<>> /\ ~l[L].tomb THEN L ELSE 0
  BY <1>1, LastVersion
<1>8. Current(r) # 0 <=> Current(l) # 0
  BY <1>2, <1>3, <1>4, <1>6, <1>7
<1> QED BY <1>1, <1>4, <1>5, <1>8

\* Versions made from the same input, or from versions that are alike, are alike;
\* their features are if the schema is the same.
LEMMA MadeAlike ==
    ASSUME NEW x, NEW E \in Epoch, NEW r \in History(E), NEW l \in History(E),
           NEW n \in Nat, NEW b, EndOf(x, r, l, n, b),
           NEW c, NEW d, x => c = d, NEW e \in 1..MaxEpoch
    PROVE  /\ \A in \in Input : Alike(x, NewVersion(d, in, e), NewVersion(c, in, e))
           /\ \A in \in Input : Alike(x, MergedVersion(d, r, in, e), MergedVersion(c, l, in, e))
           /\ Current(r) # 0 => Alike(x, Tombstone(r, e), Tombstone(l, e))
<1>1. ASSUME NEW in \in Input
      PROVE  Alike(x, NewVersion(d, in, e), NewVersion(c, in, e))
  BY DEF Alike, NewVersion, Version
<1>2. PICK f, g : f = r[Len(r)] /\ g = l[Len(l)]
  OBVIOUS
<1>3. (r # <<>> <=> l # <<>>) /\ (r # <<>> => Alike(x, f, g))
  BY <1>2, LastAlike
<1>4. ASSUME NEW in \in Input
      PROVE  Alike(x, MergedVersion(d, r, in, e), MergedVersion(c, l, in, e))
  <2> DEFINE live == r # <<>> /\ ~f.tomb
             body == IF in.body = "absent" /\ live THEN f.body ELSE in.body
             emb == IF in.emb = 0 /\ live THEN f.emb ELSE in.emb
             prev == IF live THEN f.feat ELSE NoFeature
             over == l # <<>> /\ ~g.tomb
             bodyl == IF in.body = "absent" /\ over THEN g.body ELSE in.body
             embl == IF in.emb = 0 /\ over THEN g.emb ELSE in.emb
             prevl == IF over THEN g.feat ELSE NoFeature
  <2>1. MergedVersion(d, r, in, e) = Version(body, emb, BuildFeature(d, in, body, emb, prev, e), e)
    BY <1>2 DEF MergedVersion
  <2>2. MergedVersion(c, l, in, e) =
          Version(bodyl, embl, BuildFeature(c, in, bodyl, embl, prevl, e), e)
    BY <1>2 DEF MergedVersion
  <2>3. live <=> over
    BY <1>3 DEF Alike
  <2>4. live => f.body = g.body /\ f.emb = g.emb /\ (x => f.feat = g.feat)
    BY <1>3 DEF Alike
  <2>5. body = bodyl /\ emb = embl /\ (x => prev = prevl)
    BY <2>3, <2>4
  <2> HIDE DEF body, emb, prev, bodyl, embl, prevl
  <2>6. x => BuildFeature(d, in, body, emb, prev, e) = BuildFeature(c, in, bodyl, embl, prevl, e)
    BY <2>5
  <2> QED BY <2>1, <2>2, <2>5, <2>6 DEF Alike, Version
<1>5. ASSUME Current(r) # 0 PROVE Alike(x, Tombstone(r, e), Tombstone(l, e))
  <2>1. r # <<>> /\ l # <<>> /\ Alike(x, f, g)
    BY <1>3, <1>5, LastVersion
  <2>2. f \in StoredVersion /\ g \in StoredVersion
    BY <1>2, <2>1, LastVersion, HistoryFacts
  <2>3. /\ Tombstone(r, e) = [f EXCEPT !.begin = e, !.end = 0, !.tomb = TRUE]
        /\ Tombstone(l, e) = [g EXCEPT !.begin = e, !.end = 0, !.tomb = TRUE]
    BY <1>2 DEF Tombstone
  <2> QED BY <2>1, <2>2, <2>3 DEF Alike, StoredVersion
<1> QED BY <1>1, <1>4, <1>5

\* The same write on both sides.
LEMMA WriteEnd ==
    ASSUME NEW x, NEW E \in Epoch, NEW r \in History(E), NEW l \in History(E),
           NEW n \in Nat, NEW b, EndOf(x, r, l, n, b),
           NEW c, NEW d, x => c = d, NEW e \in 1..MaxEpoch, e <= E
    PROVE  /\ \A in \in Input : EndOf(x, Replace(d, r, in, e), Replace(c, l, in, e), n, b)
           /\ \A in \in Input : EndOf(x, Mutate(d, r, in, e), Mutate(c, l, in, e), n, b)
           /\ Current(r) # 0 => EndOf(x, Delete(r, e), Delete(l, e), n, b)
<1>1. ASSUME NEW in \in Input
      PROVE  EndOf(x, Replace(d, r, in, e), Replace(c, l, in, e), n, b)
  <2>1. PICK v, w : v = NewVersion(d, in, e) /\ w = NewVersion(c, in, e)
    OBVIOUS
  <2>2. /\ Replace(d, r, in, e) = Push(r, v) /\ v \in StoredVersion /\ v.end = 0
        /\ Replace(c, l, in, e) = Push(l, w) /\ w \in StoredVersion /\ w.end = 0
        /\ w.begin <= E
    BY <2>1, ReplaceIsPush
  <2>3. Alike(x, v, w)
    BY <2>1, MadeAlike
  <2> QED BY <2>2, <2>3, PushEnd
<1>2. ASSUME NEW in \in Input
      PROVE  EndOf(x, Mutate(d, r, in, e), Mutate(c, l, in, e), n, b)
  <2>1. PICK v, w : v = MergedVersion(d, r, in, e) /\ w = MergedVersion(c, l, in, e)
    OBVIOUS
  <2>2. /\ Mutate(d, r, in, e) = Push(r, v) /\ v \in StoredVersion /\ v.end = 0
        /\ Mutate(c, l, in, e) = Push(l, w) /\ w \in StoredVersion /\ w.end = 0
        /\ w.begin <= E
    BY <2>1, MutateIsPush
  <2>3. Alike(x, v, w)
    BY <2>1, MadeAlike
  <2> QED BY <2>2, <2>3, PushEnd
<1>3. ASSUME Current(r) # 0 PROVE EndOf(x, Delete(r, e), Delete(l, e), n, b)
  <2>0. Current(l) # 0
    BY <1>3, LastAlike
  <2>1. PICK v, w : v = Tombstone(r, e) /\ w = Tombstone(l, e)
    OBVIOUS
  <2>2. /\ Delete(r, e) = Push(r, v) /\ v \in StoredVersion /\ v.end = 0
        /\ Delete(l, e) = Push(l, w) /\ w \in StoredVersion /\ w.end = 0
        /\ w.begin <= E
    BY <1>3, <2>0, <2>1, DeleteIsPush
  <2>3. Alike(x, v, w)
    BY <1>3, <2>1, MadeAlike
  <2> QED BY <2>2, <2>3, PushEnd
<1> QED BY <1>1, <1>2, <1>3

\* A change of status of a version that is there, on both sides or in the
\* replay alone.
LEMMA StatusEnd ==
    ASSUME NEW x, NEW E \in Epoch, NEW r \in History(E), NEW l \in History(E),
           NEW n \in Nat, NEW b, EndOf(x, r, l, n, b), Current(r) # 0, NEW e \in Epoch,
           NEW status \in {"Ready", "Dirty", "Pending", "Failed", "Missing"}
    PROVE  /\ EndOf(x, SetStatus(r, status, e), SetStatus(l, status, e), n, b)
           /\ ~x => EndOf(x, SetStatus(r, status, e), l, n, b)
<1>0. Current(l) # 0
  BY LastAlike
<1>1. PICK p, q : p = SetStatus(r, status, e) /\ q = SetStatus(l, status, e)
  OBVIOUS
<1>2. PICK R, L : R = Len(r) /\ L = Len(l)
  OBVIOUS
<1>3. /\ Len(p) = R
      /\ \A i \in 1..R : i < R => p[i] = r[i]
      /\ \A i \in 1..R :
           /\ p[i].begin = r[i].begin /\ p[i].end = r[i].end /\ p[i].tomb = r[i].tomb
           /\ p[i].body = r[i].body /\ p[i].emb = r[i].emb
           /\ i = R => p[i].feat = Restated(r[i].feat, status, e)
  BY <1>1, <1>2, StatusFacts
<1>4. /\ Len(q) = L
      /\ \A i \in 1..L : i < L => q[i] = l[i]
      /\ \A i \in 1..L :
           /\ q[i].begin = l[i].begin /\ q[i].end = l[i].end /\ q[i].tomb = l[i].tomb
           /\ q[i].body = l[i].body /\ q[i].emb = l[i].emb
           /\ i = L => q[i].feat = Restated(l[i].feat, status, e)
  BY <1>0, <1>1, <1>2, StatusFacts
<1>5. /\ L = R + n /\ \A i \in 1..R : Alike(x, r[i], l[i + n])
      /\ \A i \in 1..n : l[i].end # 0 /\ l[i].end <= b
      /\ (n > 0 => R > 0) /\ R \in Nat
  BY <1>2, HistoryFacts DEF EndOf
<1>6. ASSUME NEW i \in 1..R PROVE Alike(x, p[i], q[i + n]) /\ (~x => Alike(x, p[i], l[i + n]))
  <2>1. i + n \in 1..L /\ (i = R <=> i + n = L) /\ (i < R <=> i + n < L) /\ (i = R \/ i < R)
    BY <1>5
  <2>2. Alike(x, r[i], l[i + n])
    BY <1>5
  <2>3. ~x => Alike(x, p[i], l[i + n])
    BY <1>3, <2>2 DEF Alike
  <2>4. CASE i < R
    BY <1>3, <1>4, <2>1, <2>2, <2>3, <2>4
  <2>5. CASE i = R
    BY <1>3, <1>4, <2>1, <2>2, <2>3, <2>5 DEF Alike
  <2> QED BY <2>1, <2>4, <2>5
<1>7. \A i \in 1..n : q[i].end # 0 /\ q[i].end <= b
  <2>1. \A i \in 1..n : i \in 1..L /\ i < L
    BY <1>5
  <2> QED BY <1>4, <1>5, <2>1
<1>8. EndOf(x, p, q, n, b)
  BY <1>3, <1>4, <1>5, <1>6, <1>7 DEF EndOf
<1>9. ~x => EndOf(x, p, l, n, b)
  BY <1>2, <1>3, <1>5, <1>6 DEF EndOf
<1> QED BY <1>1, <1>8, <1>9

\* One record changes on both sides.
LEMMA ShowsChange ==
    ASSUME NEW x, NEW E, NEW r \in Outcomes(E), NEW ls \in Stores(E), NEW cut, NEW b,
           Shows(x, r, ls, cut, b), r.ok, NEW k \in Keys, NEW vs \in History(E),
           NEW ws \in History(E), EndOf(x, vs, ws, cut[k], b)
    PROVE  Shows(x, Applied([r.records EXCEPT ![k] = vs]), [ls EXCEPT ![k] = ws], cut, b)
<1>0. PICK rs : rs = r.records
  OBVIOUS
<1>1. PICK rt, lt : rt = [rs EXCEPT ![k] = vs] /\ lt = [ls EXCEPT ![k] = ws]
  OBVIOUS
<1>2. rs \in Stores(E) /\ \A j \in Keys : EndOf(x, rs[j], ls[j], cut[j], b)
  BY <1>0, OutcomeParts DEF Shows
<1>3. rt[k] = vs /\ \A j \in Keys : j # k => rt[j] = rs[j]
  BY <1>1, <1>2 DEF Stores
<1>4. lt[k] = ws /\ \A j \in Keys : j # k => lt[j] = ls[j]
  BY <1>1 DEF Stores
<1>5. \A j \in Keys : EndOf(x, rt[j], lt[j], cut[j], b)
  BY <1>2, <1>3, <1>4
<1>6. Applied(rt).ok /\ Applied(rt).records = rt
  BY DEF Applied
<1>7. Shows(x, Applied(rt), lt, cut, b)
  BY <1>5, <1>6 DEF Shows
<1> QED BY <1>0, <1>1, <1>7

\* A replay that stopped shows nothing, and need not if the schema changed.
LEMMA FailedShows == \A ls, cut, b : Shows(FALSE, Failed, ls, cut, b)
BY DEF Shows, Failed

\* A replacement in both; if x the replay cannot refuse it.
LEMMA ReplaceShown ==
    ASSUME NEW x \in BOOLEAN, NEW E \in Epoch, NEW e \in 1..MaxEpoch, e <= E,
           NEW r \in Outcomes(E), NEW ls \in Stores(E), NEW cut \in [Keys -> Nat], NEW b,
           Shows(x, r, ls, cut, b), NEW c, NEW d, NEW in \in Input,
           x => c = d /\ DimensionsOK(d, in)
    PROVE  Shows(x, ApplyEntry("replacements", d, e, r, in),
                 [ls EXCEPT ![in.key] = Replace(c, @, in, e)], cut, b)
<1>1. PICK k, vs, ws, n : /\ k = in.key /\ n = cut[k]
                          /\ vs = Replace(d, r.records[k], in, e)
                          /\ ws = Replace(c, ls[k], in, e)
  OBVIOUS
<1>2. k \in Keys /\ r.records[k] \in History(E) /\ ls[k] \in History(E) /\ n \in Nat
  BY <1>1, InputFields, OutcomeParts DEF Stores
<1>3. ApplyEntry("replacements", d, e, r, in) =
        IF r.ok /\ DimensionsOK(d, in) THEN Applied([r.records EXCEPT ![k] = vs]) ELSE Failed
  BY <1>1 DEF ApplyEntry, ApplyReplacement
<1>4. vs \in History(E) /\ ws \in History(E)
  BY <1>1, <1>2, WriteTyped
<1>5. ASSUME r.ok PROVE EndOf(x, vs, ws, n, b)
  <2>1. PICK rk, lk : rk = r.records[k] /\ lk = ls[k]
    OBVIOUS
  <2>2. EndOf(x, rk, lk, n, b)
    BY <1>1, <1>2, <1>5, <2>1 DEF Shows
  <2>3. EndOf(x, Replace(d, rk, in, e), Replace(c, lk, in, e), n, b)
    BY <1>2, <2>1, <2>2, WriteEnd
  <2> QED BY <1>1, <2>1, <2>3
<1>6. r.ok => Shows(x, Applied([r.records EXCEPT ![k] = vs]), [ls EXCEPT ![k] = ws], cut, b)
  BY <1>1, <1>2, <1>4, <1>5, ShowsChange
<1>7. x => r.ok /\ DimensionsOK(d, in)
  BY DEF Shows
<1>8. Shows(x, ApplyEntry("replacements", d, e, r, in), [ls EXCEPT ![k] = ws], cut, b)
  BY <1>3, <1>6, <1>7, FailedShows
<1> QED BY <1>1, <1>8

\* A mutation in both.
LEMMA MutateShown ==
    ASSUME NEW x \in BOOLEAN, NEW E \in Epoch, NEW e \in 1..MaxEpoch, e <= E,
           NEW r \in Outcomes(E), NEW ls \in Stores(E), NEW cut \in [Keys -> Nat], NEW b,
           Shows(x, r, ls, cut, b), NEW c, NEW d, NEW in \in Input,
           x => c = d /\ DimensionsOK(d, in)
    PROVE  Shows(x, ApplyEntry("mutations", d, e, r, in),
                 [ls EXCEPT ![in.key] = Mutate(c, @, in, e)], cut, b)
<1>1. PICK k, vs, ws, n : /\ k = in.key /\ n = cut[k]
                          /\ vs = Mutate(d, r.records[k], in, e)
                          /\ ws = Mutate(c, ls[k], in, e)
  OBVIOUS
<1>2. k \in Keys /\ r.records[k] \in History(E) /\ ls[k] \in History(E) /\ n \in Nat
  BY <1>1, InputFields, OutcomeParts DEF Stores
<1>3. ApplyEntry("mutations", d, e, r, in) =
        IF r.ok /\ DimensionsOK(d, in) THEN Applied([r.records EXCEPT ![k] = vs]) ELSE Failed
  BY <1>1 DEF ApplyEntry, ApplyMutation
<1>4. vs \in History(E) /\ ws \in History(E)
  BY <1>1, <1>2, WriteTyped
<1>5. ASSUME r.ok PROVE EndOf(x, vs, ws, n, b)
  <2>1. PICK rk, lk : rk = r.records[k] /\ lk = ls[k]
    OBVIOUS
  <2>2. EndOf(x, rk, lk, n, b)
    BY <1>1, <1>2, <1>5, <2>1 DEF Shows
  <2>3. EndOf(x, Mutate(d, rk, in, e), Mutate(c, lk, in, e), n, b)
    BY <1>2, <2>1, <2>2, WriteEnd
  <2> QED BY <1>1, <2>1, <2>3
<1>6. r.ok => Shows(x, Applied([r.records EXCEPT ![k] = vs]), [ls EXCEPT ![k] = ws], cut, b)
  BY <1>1, <1>2, <1>4, <1>5, ShowsChange
<1>7. x => r.ok /\ DimensionsOK(d, in)
  BY DEF Shows
<1>8. Shows(x, ApplyEntry("mutations", d, e, r, in), [ls EXCEPT ![k] = ws], cut, b)
  BY <1>3, <1>6, <1>7, FailedShows
<1> QED BY <1>1, <1>8

\* A deletion in both.
LEMMA DeleteShown ==
    ASSUME NEW x \in BOOLEAN, NEW E \in Epoch, NEW e \in 1..MaxEpoch, e <= E,
           NEW r \in Outcomes(E), NEW ls \in Stores(E), NEW cut \in [Keys -> Nat], NEW b,
           Shows(x, r, ls, cut, b), NEW d, NEW k \in Keys, Current(ls[k]) # 0
    PROVE  Shows(x, ApplyEntry("deletions", d, e, r, k), [ls EXCEPT ![k] = Delete(@, e)], cut, b)
<1>1. PICK rk, lk, vs, ws, n : /\ rk = r.records[k] /\ lk = ls[k] /\ n = cut[k]
                               /\ vs = Delete(rk, e) /\ ws = Delete(lk, e)
  OBVIOUS
<1>2. rk \in History(E) /\ lk \in History(E) /\ n \in Nat
  BY <1>1, OutcomeParts DEF Stores
<1>3. ApplyEntry("deletions", d, e, r, k) =
        IF r.ok /\ Current(rk) # 0 THEN Applied([r.records EXCEPT ![k] = vs]) ELSE Failed
  BY <1>1 DEF ApplyEntry, ApplyDeletion
<1>4. r.ok => EndOf(x, rk, lk, n, b)
  BY <1>1 DEF Shows
<1>5. r.ok => Current(rk) # 0
  BY <1>1, <1>2, <1>4, LastAlike
<1>6. r.ok => EndOf(x, vs, ws, n, b)
  <2>1. r.ok => EndOf(x, Delete(rk, e), Delete(lk, e), n, b)
    BY <1>2, <1>4, <1>5, WriteEnd
  <2> QED BY <1>1, <2>1
<1>7. r.ok => vs \in History(E) /\ ws \in History(E)
  BY <1>1, <1>2, <1>5, WriteTyped
<1>8. r.ok => Shows(x, Applied([r.records EXCEPT ![k] = vs]), [ls EXCEPT ![k] = ws], cut, b)
  BY <1>1, <1>6, <1>7, ShowsChange
<1>9. x => r.ok
  BY DEF Shows
<1>10. Shows(x, ApplyEntry("deletions", d, e, r, k), [ls EXCEPT ![k] = ws], cut, b)
  BY <1>3, <1>5, <1>8, <1>9, FailedShows
<1> QED BY <1>1, <1>10

\* A change of status in both.
LEMMA StatusShown ==
    ASSUME NEW x \in BOOLEAN, NEW E \in Epoch, NEW e \in 1..MaxEpoch, e <= E,
           NEW r \in Outcomes(E), NEW ls \in Stores(E), NEW cut \in [Keys -> Nat], NEW b,
           Shows(x, r, ls, cut, b), NEW d, NEW k \in Keys, HasFeature(ls[k]),
           NEW y \in Invalidation, y.key = k
    PROVE  Shows(x, ApplyEntry("invalidations", d, e, r, y),
                 [ls EXCEPT ![k] = SetStatus(@, y.status, e)], cut, b)
<1>0. PICK s : s = y.status /\ s \in {"Ready", "Dirty", "Pending", "Failed", "Missing"}
  BY InvalidationFields
<1>1. PICK rk, lk, vs, ws, n : /\ rk = r.records[k] /\ lk = ls[k] /\ n = cut[k]
                               /\ vs = SetStatus(rk, s, e) /\ ws = SetStatus(lk, s, e)
  OBVIOUS
<1>2. rk \in History(E) /\ lk \in History(E) /\ n \in Nat /\ e \in Epoch
  BY <1>1, OutcomeParts, EpochFacts DEF Stores
<1>3. ApplyEntry("invalidations", d, e, r, y) =
        IF r.ok /\ HasFeature(rk) THEN Applied([r.records EXCEPT ![k] = vs]) ELSE Failed
  BY <1>0, <1>1 DEF ApplyEntry, ApplyInvalidation
<1>4. r.ok => EndOf(x, rk, lk, n, b)
  BY <1>1 DEF Shows
<1>a. Current(lk) # 0 /\ lk[Current(lk)].feat # NoFeature
  BY <1>1 DEF HasFeature
<1>5. r.ok => Current(rk) # 0
  BY <1>2, <1>4, <1>a, LastAlike
<1>6. r.ok => EndOf(x, vs, ws, n, b)
  <2>1. r.ok => EndOf(x, SetStatus(rk, s, e), SetStatus(lk, s, e), n, b)
    BY <1>0, <1>2, <1>4, <1>5, StatusEnd
  <2> QED BY <1>1, <2>1
<1>7. r.ok => vs \in History(E) /\ ws \in History(E)
  BY <1>0, <1>1, <1>2, <1>5, <1>a, StatusFacts
<1>8. r.ok => Shows(x, Applied([r.records EXCEPT ![k] = vs]), [ls EXCEPT ![k] = ws], cut, b)
  BY <1>1, <1>6, <1>7, ShowsChange
<1>9. x => r.ok
  BY DEF Shows
<1>b. x => HasFeature(rk)
  <2> SUFFICES ASSUME x PROVE HasFeature(rk)
    OBVIOUS
  <2>1. rk # <<>> /\ Current(rk) = Len(rk) /\ Current(lk) = Len(lk) /\ Current(rk) # 0
    BY <1>2, <1>5, <1>9, <1>a, LastVersion
  <2>2. Alike(x, rk[Len(rk)], lk[Len(lk)])
    BY <1>2, <1>4, <1>9, <2>1, LastAlike
  <2>3. rk[Len(rk)].feat = lk[Len(lk)].feat
    BY <2>2 DEF Alike
  <2> QED BY <1>a, <2>1, <2>3 DEF HasFeature
<1>10. Shows(x, ApplyEntry("invalidations", d, e, r, y), [ls EXCEPT ![k] = ws], cut, b)
  BY <1>3, <1>8, <1>9, <1>b, FailedShows
<1> QED BY <1>0, <1>1, <1>10

\* A change of status in the replay alone.
LEMMA InvalidationShown ==
    ASSUME NEW E \in Epoch, NEW e \in 1..MaxEpoch, e <= E,
           NEW r \in Outcomes(E), NEW ls \in Stores(E), NEW cut \in [Keys -> Nat], NEW b,
           Shows(FALSE, r, ls, cut, b), NEW d, NEW y \in Invalidation
    PROVE  Shows(FALSE, ApplyEntry("invalidations", d, e, r, y), ls, cut, b)
<1>0. PICK k, s : /\ k = y.key /\ k \in Keys
                  /\ s = y.status /\ s \in {"Ready", "Dirty", "Pending", "Failed", "Missing"}
  BY InvalidationFields
<1>1. PICK rk, lk, vs, n : rk = r.records[k] /\ lk = ls[k] /\ n = cut[k] /\ vs = SetStatus(rk, s, e)
  OBVIOUS
<1>2. rk \in History(E) /\ lk \in History(E) /\ n \in Nat /\ e \in Epoch
  BY <1>0, <1>1, OutcomeParts, EpochFacts DEF Stores
<1>3. ApplyEntry("invalidations", d, e, r, y) =
        IF r.ok /\ HasFeature(rk) THEN Applied([r.records EXCEPT ![k] = vs]) ELSE Failed
  BY <1>0, <1>1 DEF ApplyEntry, ApplyInvalidation
<1>4. r.ok => EndOf(FALSE, rk, lk, n, b)
  BY <1>0, <1>1 DEF Shows
<1>5. HasFeature(rk) => Current(rk) # 0
  BY DEF HasFeature
<1>6. r.ok /\ HasFeature(rk) => EndOf(FALSE, vs, lk, n, b)
  <2>1. r.ok /\ HasFeature(rk) => EndOf(FALSE, SetStatus(rk, s, e), lk, n, b)
    BY <1>0, <1>2, <1>4, <1>5, StatusEnd
  <2> QED BY <1>1, <2>1
<1>7. HasFeature(rk) => vs \in History(E)
  BY <1>0, <1>1, <1>2, <1>5, StatusFacts
<1>8. r.ok /\ HasFeature(rk) =>
        Shows(FALSE, Applied([r.records EXCEPT ![k] = vs]), [ls EXCEPT ![k] = lk], cut, b)
  BY <1>0, <1>1, <1>2, <1>6, <1>7, ShowsChange
<1>9. [ls EXCEPT ![k] = lk] = ls
  BY <1>0, <1>1 DEF Stores
<1>10. CASE r.ok /\ HasFeature(rk)
  <2>1. PICK o, lt : o = Applied([r.records EXCEPT ![k] = vs]) /\ lt = [ls EXCEPT ![k] = lk]
    OBVIOUS
  <2>2. Shows(FALSE, o, lt, cut, b)
    BY <1>8, <1>10, <2>1
  <2>3. ApplyEntry("invalidations", d, e, r, y) = o /\ lt = ls
    BY <1>3, <1>9, <1>10, <2>1
  <2> QED BY <2>2, <2>3
<1>11. CASE ~(r.ok /\ HasFeature(rk))
  <2>1. ApplyEntry("invalidations", d, e, r, y) = Failed
    BY <1>3, <1>11
  <2> QED BY <2>1, FailedShows
<1> QED BY <1>10, <1>11

-----------------------------------------------------------------------------
(* The commits that the writes make *)

\* The last version is there and its feature was marked dirty in epoch e.
Marked(vs, e) ==
    /\ Current(vs) # 0
    /\ vs[Len(vs)].feat.status = "Dirty" /\ vs[Len(vs)].feat.epoch = e

\* Marking a feature again in the epoch in which it was marked does nothing.
LEMMA DirtyAgain ==
    ASSUME NEW E \in Epoch, NEW e \in 1..MaxEpoch, NEW r \in Outcomes(E), r.ok, NEW d,
           NEW y \in Invalidation, y.status = "Dirty", Marked(r.records[y.key], e)
    PROVE  ApplyEntry("invalidations", d, e, r, y) = r
<1>1. PICK k, vs, N : k = y.key /\ k \in Keys /\ vs = r.records[k] /\ N = Len(vs)
  BY InvalidationFields
<1>2. vs \in History(E) /\ r.records \in Stores(E)
  BY <1>1, OutcomeParts
<1>3. /\ Current(vs) = N /\ Current(vs) # 0 /\ N \in 1..Len(vs)
      /\ vs[N].feat.status = "Dirty" /\ vs[N].feat.epoch = e
  BY <1>1, <1>2, LastVersion DEF Marked
<1>4. vs \in Seq(StoredVersion) /\ vs[N] \in StoredVersion /\ vs[N].feat \in FeatureState
  BY <1>2, <1>3, HistoryFacts, VersionFields
<1>5. vs[N].feat # NoFeature
  <2>1. NoFeature.status = "none"
    BY DEF NoFeature
  <2> QED BY <1>3, <2>1
<1>6. HasFeature(vs)
  BY <1>3, <1>5 DEF HasFeature
<1>7. SetStatus(vs, "Dirty", e) = vs
  <2>1. [vs[N].feat EXCEPT !.status = "Dirty", !.epoch = e] = vs[N].feat
    BY <1>3, <1>4 DEF FeatureState
  <2>2. [vs[N] EXCEPT !.feat.status = "Dirty", !.feat.epoch = e] = vs[N]
    BY <1>3, <1>4, <2>1 DEF StoredVersion, FeatureState
  <2>3. SetStatus(vs, "Dirty", e) = [vs EXCEPT ![N].feat.status = "Dirty", ![N].feat.epoch = e]
    BY <1>3 DEF SetStatus
  <2>4. [vs EXCEPT ![N].feat.status = "Dirty", ![N].feat.epoch = e] =
          [vs EXCEPT ![N] = [vs[N] EXCEPT !.feat.status = "Dirty", !.feat.epoch = e]]
    BY <1>3, <1>4 DEF StoredVersion, FeatureState
  <2>5. [vs EXCEPT ![N] = vs[N]] = vs
    BY <1>3, <1>4
  <2> QED BY <2>2, <2>3, <2>4, <2>5
<1>8. ApplyEntry("invalidations", d, e, r, y) = Applied([r.records EXCEPT ![k] = vs])
  BY <1>1, <1>6, <1>7 DEF ApplyEntry, ApplyInvalidation
<1>9. [r.records EXCEPT ![k] = vs] = r.records
  BY <1>1, <1>2 DEF Stores
<1>10. Applied(r.records) = r
  BY DEF Applied, Outcomes
<1> QED BY <1>8, <1>9, <1>10

\* Versions that are alike are marked alike.
LEMMA MarkedAlike ==
    ASSUME NEW E \in Epoch, NEW r \in History(E), NEW l \in History(E),
           NEW n \in Nat, NEW b, EndOf(TRUE, r, l, n, b), NEW e, Marked(l, e)
    PROVE  Marked(r, e)
<1>1. Current(r) # 0 /\ r # <<>>
  BY LastAlike, LastVersion DEF Marked
<1>2. Alike(TRUE, r[Len(r)], l[Len(l)])
  BY <1>1, LastAlike
<1>3. r[Len(r)].feat = l[Len(l)].feat
  BY <1>2 DEF Alike
<1> QED BY <1>1, <1>3 DEF Marked

\* The invalidations of a commit, when the live store is there already.
LEMMA InvalidationsShown ==
    ASSUME NEW x \in BOOLEAN, NEW E \in Epoch, NEW c \in CommitRecord, c.epoch <= E,
           NEW r \in Outcomes(E), NEW ls \in Stores(E), NEW cut \in [Keys -> Nat], NEW b,
           Shows(x, r, ls, cut, b), NEW d,
           x => \A n \in 1..Len(c.invalidations) :
                  /\ c.invalidations[n].status = "Dirty"
                  /\ Marked(ls[c.invalidations[n].key], c.epoch)
    PROVE  Shows(x, ApplyList("invalidations", d, r, c), ls, cut, b)
<1>0. PICK e, inv : e = c.epoch /\ inv = c["invalidations"]
  OBVIOUS
<1>1. "invalidations" \in Lists
  BY DEF Lists
<1>2. /\ e \in 1..MaxEpoch /\ e <= E /\ Len(inv) \in Nat
      /\ \A n \in 1..Len(inv) : inv[n] \in Invalidation
  BY <1>0, <1>1, CommitLists DEF Entries
<1>3. CASE ~x
  <2> DEFINE G == {o \in Outcomes(E) : Shows(FALSE, o, ls, cut, b)}
  <2>0. x = FALSE
    BY <1>3
  <2>1. r \in G
    BY <2>0
  <2>2. ASSUME NEW s \in G, NEW n \in 1..Len(inv)
        PROVE  ApplyEntry("invalidations", d, e, s, inv[n]) \in G
    <3>1. s \in Outcomes(E) /\ Shows(FALSE, s, ls, cut, b)
      OBVIOUS
    <3>2. PICK y : y = inv[n] /\ y \in Invalidation
      BY <1>2
    <3>3. Shows(FALSE, ApplyEntry("invalidations", d, e, s, y), ls, cut, b)
      BY <1>2, <3>1, <3>2, InvalidationShown
    <3>4. y \in Entries("invalidations")
      BY <3>2 DEF Entries
    <3>5. ApplyEntry("invalidations", d, e, s, y) \in Outcomes(E)
      BY <1>1, <1>2, <3>1, <3>4, EntryTyped
    <3> QED BY <3>2, <3>3, <3>5
  <2> HIDE DEF G
  <2>3. \A s \in G : \A n \in 1..Len(c["invalidations"]) :
          ApplyEntry("invalidations", d, c.epoch, s, c["invalidations"][n]) \in G
    BY <1>0, <2>2
  <2>4. ApplyList("invalidations", d, r, c) \in G
    BY <1>0, <1>1, <1>2, <2>1, <2>3, ListKeeps
  <2>5. Shows(FALSE, ApplyList("invalidations", d, r, c), ls, cut, b)
    BY <2>4 DEF G
  <2> QED BY <2>0, <2>5
<1>4. CASE x
  <2> DEFINE G == {r}
  <2>0. r.ok /\ x = TRUE
    BY <1>4 DEF Shows
  <2>1. \A k \in Keys : EndOf(TRUE, r.records[k], ls[k], cut[k], b)
    BY <2>0 DEF Shows
  <2>2. ASSUME NEW n \in 1..Len(inv) PROVE ApplyEntry("invalidations", d, e, r, inv[n]) = r
    <3>1. PICK y, k : y = inv[n] /\ y \in Invalidation /\ k = y.key /\ k \in Keys
      BY <1>2, InvalidationFields
    <3>2. y.status = "Dirty" /\ Marked(ls[k], e)
      BY <1>0, <1>4, <3>1
    <3>3. PICK rk, lk, m : rk = r.records[k] /\ lk = ls[k] /\ m = cut[k]
      OBVIOUS
    <3>4. rk \in History(E) /\ lk \in History(E) /\ m \in Nat /\ EndOf(TRUE, rk, lk, m, b)
      BY <2>1, <3>1, <3>3, OutcomeParts DEF Stores
    <3>5. Marked(rk, e)
      BY <3>2, <3>3, <3>4, MarkedAlike
    <3>6. Marked(r.records[y.key], e)
      BY <3>1, <3>3, <3>5
    <3>7. ApplyEntry("invalidations", d, e, r, y) = r
      BY <1>2, <2>0, <3>1, <3>2, <3>6, DirtyAgain
    <3> QED BY <3>1, <3>7
  <2>3. \A s \in G : \A n \in 1..Len(c["invalidations"]) :
          ApplyEntry("invalidations", d, c.epoch, s, c["invalidations"][n]) \in G
    BY <1>0, <2>2
  <2>a. r \in G
    OBVIOUS
  <2> HIDE DEF G
  <2>4. ApplyList("invalidations", d, r, c) \in G
    BY <1>0, <1>1, <1>2, <2>3, <2>a, ListKeeps
  <2>5. ApplyList("invalidations", d, r, c) = r
    BY <2>4 DEF G
  <2> QED BY <2>5
<1> QED BY <1>3, <1>4

\* A write that its commit says invalidates a feature has marked that feature.
LEMMA WriteMarks ==
    ASSUME NEW E \in Epoch, NEW e \in 1..MaxEpoch, e <= E, NEW d, NEW in \in Input,
           NEW vs \in History(E), d # 0, in.emb = 0, in.body # "absent"
    PROVE  Marked(Replace(d, vs, in, e), e) /\ Marked(Mutate(d, vs, in, e), e)
<1>0. \A body, emb, prev : BuildFeature(d, in, body, emb, prev, e) = Feature("Dirty", body, e)
  BY DEF BuildFeature
<1>1. \A body : Feature("Dirty", body, e).status = "Dirty" /\ Feature("Dirty", body, e).epoch = e
  BY DEF Feature
<1>2. ASSUME NEW v \in StoredVersion, v.begin = e, v.end = 0, ~v.tomb,
             v.feat.status = "Dirty", v.feat.epoch = e
      PROVE  Marked(Push(vs, v), e)
  <2>1. PICK ps : ps = Push(vs, v)
    OBVIOUS
  <2>2. ps \in History(E) /\ Len(ps) = Len(vs) + 1 /\ ps[Len(vs) + 1] = v /\ Len(vs) \in Nat
    BY <1>2, <2>1, PushFacts, HistoryFacts
  <2>3. Current(ps) = Len(ps) /\ Len(ps) # 0
    BY <1>2, <2>2, LastVersion
  <2> QED BY <1>2, <2>1, <2>2, <2>3 DEF Marked
<1>3. Marked(Replace(d, vs, in, e), e)
  <2>1. PICK v : v = NewVersion(d, in, e)
    OBVIOUS
  <2>2. /\ Replace(d, vs, in, e) = Push(vs, v)
        /\ v \in StoredVersion /\ v.begin = e /\ v.end = 0 /\ ~v.tomb
        /\ v.feat = BuildFeature(d, in, in.body, in.emb, NoFeature, e)
    BY <2>1, ReplaceIsPush
  <2>3. v.feat.status = "Dirty" /\ v.feat.epoch = e
    BY <1>0, <1>1, <2>2
  <2> QED BY <1>2, <2>2, <2>3
<1>4. Marked(Mutate(d, vs, in, e), e)
  <2>1. PICK v : v = MergedVersion(d, vs, in, e)
    OBVIOUS
  <2>2. /\ Mutate(d, vs, in, e) = Push(vs, v)
        /\ v \in StoredVersion /\ v.begin = e /\ v.end = 0 /\ ~v.tomb
    BY <2>1, MutateIsPush
  <2>3. \E body, emb, prev : v.feat = BuildFeature(d, in, body, emb, prev, e)
    BY <2>1 DEF MergedVersion, Version
  <2>4. v.feat.status = "Dirty" /\ v.feat.epoch = e
    BY <1>0, <1>1, <2>3
  <2> QED BY <1>2, <2>2, <2>4
<1> QED BY <1>3, <1>4

\* What the invalidations of a write name.
LEMMA InvalidationsOf ==
    ASSUME NEW s, NEW in \in Input
    PROVE  /\ Invalidations(s, in) \in Seq(Invalidation) /\ Len(Invalidations(s, in)) \in Nat
           /\ \A n \in 1..Len(Invalidations(s, in)) :
                /\ Invalidations(s, in)[n].key = in.key
                /\ Invalidations(s, in)[n].status = "Dirty"
                /\ s # 0 /\ in.emb = 0 /\ in.body # "absent"
<1>1. PICK y : y = [key |-> in.key, status |-> "Dirty"]
  OBVIOUS
<1>2. y \in Invalidation /\ y.key = in.key /\ y.status = "Dirty"
  BY <1>1, InputFields DEF Invalidation
<1>3. CASE s # 0 /\ in.emb = 0 /\ in.body # "absent"
  <2>1. Invalidations(s, in) = <<y>>
    BY <1>1, <1>3 DEF Invalidations
  <2> QED BY <1>2, <1>3, <2>1
<1>4. CASE ~(s # 0 /\ in.emb = 0 /\ in.body # "absent")
  <2>1. Invalidations(s, in) = <<>>
    BY <1>4 DEF Invalidations
  <2> QED BY <2>1
<1> QED BY <1>3, <1>4

\* A commit of put.
LEMMA PutShown ==
    ASSUME NEW x \in BOOLEAN, NEW E \in Epoch, NEW c \in CommitRecord, NEW e, e = c.epoch,
           e <= E, NEW r \in Outcomes(E), NEW ls \in Stores(E), NEW cut \in [Keys -> Nat],
           NEW b, Shows(x, r, ls, cut, b), NEW s, NEW d, x => s = d,
           NEW in \in Input, DimensionsOK(s, in),
           c.replacements = <<in>>, c.mutations = <<>>, c.deletions = <<>>,
           c.invalidations = Invalidations(s, in)
    PROVE  Shows(x, ApplyCommit(d, r, c), [ls EXCEPT ![in.key] = Replace(s, @, in, e)], cut, b)
<1>1. e \in 1..MaxEpoch
  BY DEF CommitRecord
<1>2. PICK o, lt, k : /\ o = ApplyEntry("replacements", d, e, r, in) /\ k = in.key
                      /\ lt = [ls EXCEPT ![k] = Replace(s, @, in, e)]
  OBVIOUS
<1>3. Shows(x, o, lt, cut, b)
  <2>1. x => s = d /\ DimensionsOK(d, in)
    OBVIOUS
  <2>2. Shows(x, ApplyEntry("replacements", d, e, r, in),
              [ls EXCEPT ![in.key] = Replace(s, @, in, e)], cut, b)
    BY <1>1, <2>1, ReplaceShown
  <2> QED BY <1>2, <2>2
<1>4. o \in Outcomes(E)
  <2>1. "replacements" \in Lists /\ in \in Entries("replacements")
    BY DEF Lists, Entries
  <2> QED BY <1>1, <1>2, <2>1, EntryTyped
<1>5. k \in Keys /\ ls[k] \in History(E) /\ Replace(s, ls[k], in, e) \in History(E)
  BY <1>1, <1>2, InputFields, WriteTyped DEF Stores
<1>6. lt \in Stores(E) /\ lt[k] = Replace(s, ls[k], in, e)
  BY <1>2, <1>5 DEF Stores
<1>7. \A n \in 1..Len(c.invalidations) :
        /\ c.invalidations[n].status = "Dirty"
        /\ Marked(lt[c.invalidations[n].key], c.epoch)
  <2> SUFFICES ASSUME NEW n \in 1..Len(Invalidations(s, in))
               PROVE  /\ Invalidations(s, in)[n].status = "Dirty"
                      /\ Marked(lt[Invalidations(s, in)[n].key], c.epoch)
    OBVIOUS
  <2>1. /\ Invalidations(s, in)[n].key = k /\ Invalidations(s, in)[n].status = "Dirty"
        /\ s # 0 /\ in.emb = 0 /\ in.body # "absent"
    BY <1>2, InvalidationsOf
  <2>2. Marked(Replace(s, ls[k], in, e), e)
    BY <1>1, <1>5, <2>1, WriteMarks
  <2> QED BY <1>6, <2>1, <2>2
<1>8. ApplyCommit(d, r, c) = ApplyList("invalidations", d, o, c)
  <2>1. ApplyList("replacements", d, r, c) = o
    BY <1>2, ListOne DEF Lists
  <2>2. ApplyList("mutations", d, o, c) = o /\ ApplyList("deletions", d, o, c) = o
    BY ListNone DEF Lists
  <2> QED BY <2>1, <2>2 DEF ApplyCommit
<1>9. Shows(x, ApplyList("invalidations", d, o, c), lt, cut, b)
  BY <1>3, <1>4, <1>6, <1>7, InvalidationsShown
<1> QED BY <1>2, <1>8, <1>9

\* A commit of insert or patch.
LEMMA MutationShown ==
    ASSUME NEW x \in BOOLEAN, NEW E \in Epoch, NEW c \in CommitRecord, NEW e, e = c.epoch,
           e <= E, NEW r \in Outcomes(E), NEW ls \in Stores(E), NEW cut \in [Keys -> Nat],
           NEW b, Shows(x, r, ls, cut, b), NEW s, NEW d, x => s = d,
           NEW in \in Input, DimensionsOK(s, in),
           c.replacements = <<>>, c.mutations = <<in>>, c.deletions = <<>>,
           c.invalidations = Invalidations(s, in)
    PROVE  Shows(x, ApplyCommit(d, r, c), [ls EXCEPT ![in.key] = Mutate(s, @, in, e)], cut, b)
<1>1. e \in 1..MaxEpoch
  BY DEF CommitRecord
<1>2. PICK o, lt, k : /\ o = ApplyEntry("mutations", d, e, r, in) /\ k = in.key
                      /\ lt = [ls EXCEPT ![k] = Mutate(s, @, in, e)]
  OBVIOUS
<1>3. Shows(x, o, lt, cut, b)
  <2>1. x => s = d /\ DimensionsOK(d, in)
    OBVIOUS
  <2>2. Shows(x, ApplyEntry("mutations", d, e, r, in),
              [ls EXCEPT ![in.key] = Mutate(s, @, in, e)], cut, b)
    BY <1>1, <2>1, MutateShown
  <2> QED BY <1>2, <2>2
<1>4. o \in Outcomes(E)
  <2>1. "mutations" \in Lists /\ in \in Entries("mutations")
    BY DEF Lists, Entries
  <2> QED BY <1>1, <1>2, <2>1, EntryTyped
<1>5. k \in Keys /\ ls[k] \in History(E) /\ Mutate(s, ls[k], in, e) \in History(E)
  BY <1>1, <1>2, InputFields, WriteTyped DEF Stores
<1>6. lt \in Stores(E) /\ lt[k] = Mutate(s, ls[k], in, e)
  BY <1>2, <1>5 DEF Stores
<1>7. \A n \in 1..Len(c.invalidations) :
        /\ c.invalidations[n].status = "Dirty"
        /\ Marked(lt[c.invalidations[n].key], c.epoch)
  <2> SUFFICES ASSUME NEW n \in 1..Len(Invalidations(s, in))
               PROVE  /\ Invalidations(s, in)[n].status = "Dirty"
                      /\ Marked(lt[Invalidations(s, in)[n].key], c.epoch)
    OBVIOUS
  <2>1. /\ Invalidations(s, in)[n].key = k /\ Invalidations(s, in)[n].status = "Dirty"
        /\ s # 0 /\ in.emb = 0 /\ in.body # "absent"
    BY <1>2, InvalidationsOf
  <2>2. Marked(Mutate(s, ls[k], in, e), e)
    BY <1>1, <1>5, <2>1, WriteMarks
  <2> QED BY <1>6, <2>1, <2>2
<1>8. ApplyCommit(d, r, c) = ApplyList("invalidations", d, o, c)
  <2>1. ApplyList("replacements", d, r, c) = r
    BY ListNone DEF Lists
  <2>2. ApplyList("mutations", d, r, c) = o
    BY <1>2, ListOne DEF Lists
  <2>3. ApplyList("deletions", d, o, c) = o
    BY ListNone DEF Lists
  <2> QED BY <2>1, <2>2, <2>3 DEF ApplyCommit
<1>9. Shows(x, ApplyList("invalidations", d, o, c), lt, cut, b)
  BY <1>3, <1>4, <1>6, <1>7, InvalidationsShown
<1> QED BY <1>2, <1>8, <1>9

\* A commit of delete.
LEMMA DeletionShown ==
    ASSUME NEW x \in BOOLEAN, NEW E \in Epoch, NEW c \in CommitRecord, NEW e, e = c.epoch,
           e <= E, NEW r \in Outcomes(E), NEW ls \in Stores(E), NEW cut \in [Keys -> Nat],
           NEW b, Shows(x, r, ls, cut, b), NEW d, NEW k \in Keys, Current(ls[k]) # 0,
           c.replacements = <<>>, c.mutations = <<>>, c.deletions = <<k>>,
           c.invalidations = <<>>
    PROVE  Shows(x, ApplyCommit(d, r, c), [ls EXCEPT ![k] = Delete(@, e)], cut, b)
<1>1. e \in 1..MaxEpoch
  BY DEF CommitRecord
<1>2. PICK o : o = ApplyEntry("deletions", d, e, r, k)
  OBVIOUS
<1>3. ApplyCommit(d, r, c) = o
  <2>1. ApplyList("replacements", d, r, c) = r /\ ApplyList("mutations", d, r, c) = r
    BY ListNone DEF Lists
  <2>2. ApplyList("deletions", d, r, c) = o
    BY <1>2, ListOne DEF Lists
  <2>3. ApplyList("invalidations", d, o, c) = o
    BY ListNone DEF Lists
  <2> QED BY <2>1, <2>2, <2>3 DEF ApplyCommit
<1>4. Shows(x, ApplyEntry("deletions", d, e, r, k), [ls EXCEPT ![k] = Delete(@, e)], cut, b)
  BY <1>1, DeleteShown
<1> QED BY <1>2, <1>3, <1>4

\* A commit of a change of status.
LEMMA StatusCommitShown ==
    ASSUME NEW x \in BOOLEAN, NEW E \in Epoch, NEW c \in CommitRecord, NEW e, e = c.epoch,
           e <= E, NEW r \in Outcomes(E), NEW ls \in Stores(E), NEW cut \in [Keys -> Nat],
           NEW b, Shows(x, r, ls, cut, b), NEW d, NEW k \in Keys, HasFeature(ls[k]),
           NEW y \in Invalidation, y.key = k,
           c.replacements = <<>>, c.mutations = <<>>, c.deletions = <<>>,
           c.invalidations = <<y>>
    PROVE  Shows(x, ApplyCommit(d, r, c), [ls EXCEPT ![k] = SetStatus(@, y.status, e)], cut, b)
<1>1. e \in 1..MaxEpoch
  BY DEF CommitRecord
<1>2. PICK o : o = ApplyEntry("invalidations", d, e, r, y)
  OBVIOUS
<1>3. ApplyCommit(d, r, c) = o
  <2>1. /\ ApplyList("replacements", d, r, c) = r /\ ApplyList("mutations", d, r, c) = r
        /\ ApplyList("deletions", d, r, c) = r
    BY ListNone DEF Lists
  <2>2. ApplyList("invalidations", d, r, c) = o
    BY <1>2, ListOne DEF Lists
  <2> QED BY <2>1, <2>2 DEF ApplyCommit
<1>4. Shows(x, ApplyEntry("invalidations", d, e, r, y),
            [ls EXCEPT ![k] = SetStatus(@, y.status, e)], cut, b)
  BY <1>1, StatusShown
<1> QED BY <1>2, <1>3, <1>4

\* A commit of a schema leaves the records alone.
LEMMA SchemaCommitShown ==
    ASSUME NEW r, NEW d, NEW c, c.replacements = <<>>, c.mutations = <<>>,
           c.deletions = <<>>, c.invalidations = <<>>
    PROVE  ApplyCommit(d, r, c) = r
<1>1. /\ ApplyList("replacements", d, r, c) = r /\ ApplyList("mutations", d, r, c) = r
      /\ ApplyList("deletions", d, r, c) = r /\ ApplyList("invalidations", d, r, c) = r
  BY ListNone DEF Lists
<1> QED BY <1>1 DEF ApplyCommit

\* Invalidations that mark the records of a batch as dirty.
MarksOf(s, first, second, inv) ==
    \A n \in 1..Len(inv) :
        /\ inv[n].status = "Dirty" /\ s # 0
        /\ \/ inv[n].key = first.key /\ first.emb = 0 /\ first.body # "absent"
           \/ inv[n].key = second.key /\ second.emb = 0 /\ second.body # "absent"

\* The invalidations of a batch are such.
LEMMA BatchInvalidations ==
    ASSUME NEW s, NEW first \in Input, NEW second \in Input,
           NEW inv, inv = Invalidations(s, first) \o Invalidations(s, second)
    PROVE  inv \in Seq(Invalidation) /\ MarksOf(s, first, second, inv)
<1>1. PICK p, q : p = Invalidations(s, first) /\ q = Invalidations(s, second)
  OBVIOUS
<1>2. /\ p \in Seq(Invalidation) /\ Len(p) \in Nat
      /\ \A n \in 1..Len(p) :
           p[n].key = first.key /\ p[n].status = "Dirty" /\ s # 0 /\ first.emb = 0
             /\ first.body # "absent"
  BY <1>1, InvalidationsOf
<1>3. /\ q \in Seq(Invalidation) /\ Len(q) \in Nat
      /\ \A n \in 1..Len(q) :
           q[n].key = second.key /\ q[n].status = "Dirty" /\ s # 0 /\ second.emb = 0
             /\ second.body # "absent"
  BY <1>1, InvalidationsOf
<1>4. inv = p \o q /\ inv \in Seq(Invalidation) /\ Len(inv) = Len(p) + Len(q)
  BY <1>1, <1>2, <1>3
<1>5. ASSUME NEW n \in 1..Len(inv)
      PROVE  (n \in 1..Len(p) /\ inv[n] = p[n])
             \/ (n - Len(p) \in 1..Len(q) /\ inv[n] = q[n - Len(p)])
  BY <1>2, <1>3, <1>4
<1> QED BY <1>2, <1>3, <1>4, <1>5 DEF MarksOf

\* A commit of put_batch.
LEMMA BatchShown ==
    ASSUME NEW x \in BOOLEAN, NEW E \in Epoch, NEW c \in CommitRecord, NEW e, e = c.epoch,
           e <= E, NEW r \in Outcomes(E), NEW ls \in Stores(E), NEW cut \in [Keys -> Nat],
           NEW b, Shows(x, r, ls, cut, b), NEW s, NEW d, x => s = d,
           NEW first \in Input, NEW second \in Input,
           DimensionsOK(s, first), DimensionsOK(s, second), x => first.key # second.key,
           c.replacements = <<first, second>>, c.mutations = <<>>, c.deletions = <<>>,
           c.invalidations = Invalidations(s, first) \o Invalidations(s, second),
           NEW ls1, ls1 = [ls EXCEPT ![first.key] = Replace(s, @, first, e)]
    PROVE  Shows(x, ApplyCommit(d, r, c),
                 [ls1 EXCEPT ![second.key] = Replace(s, @, second, e)], cut, b)
<1>1. e \in 1..MaxEpoch
  BY DEF CommitRecord
<1> DEFINE k1 == first.key
           k2 == second.key
           o1 == ApplyEntry("replacements", d, e, r, first)
           o2 == ApplyEntry("replacements", d, e, o1, second)
           ls2 == [ls1 EXCEPT ![k2] = Replace(s, @, second, e)]
<1>2. /\ o1 = ApplyEntry("replacements", d, e, r, first)
      /\ o2 = ApplyEntry("replacements", d, e, o1, second)
      /\ k1 = first.key /\ k2 = second.key
      /\ ls2 = [ls1 EXCEPT ![k2] = Replace(s, @, second, e)]
  OBVIOUS
<1> HIDE DEF k1, k2, o1, o2, ls2
<1>3. /\ x => s = d /\ DimensionsOK(d, first)
      /\ x => s = d /\ DimensionsOK(d, second)
  <2>1. x => s = d
    OBVIOUS
  <2>2. DimensionsOK(s, first) /\ DimensionsOK(s, second)
    OBVIOUS
  <2> QED BY ONLY <2>1, <2>2
<1>a. "replacements" \in Lists /\ first \in Entries("replacements")
      /\ second \in Entries("replacements")
  BY DEF Lists, Entries
<1>4. Shows(x, o1, ls1, cut, b) /\ o1 \in Outcomes(E)
  <2>1. Shows(x, ApplyEntry("replacements", d, e, r, first),
              [ls EXCEPT ![first.key] = Replace(s, @, first, e)], cut, b)
    BY <1>1, <1>3, ReplaceShown
  <2> QED BY <1>1, <1>2, <1>a, <2>1, EntryTyped
<1>5. k1 \in Keys /\ ls[k1] \in History(E) /\ Replace(s, ls[k1], first, e) \in History(E)
  BY <1>1, <1>2, InputFields, WriteTyped DEF Stores
<1>6. ls1 \in Stores(E) /\ ls1[k1] = Replace(s, ls[k1], first, e)
  BY <1>2, <1>5 DEF Stores
<1>7. Shows(x, o2, ls2, cut, b) /\ o2 \in Outcomes(E)
  <2>1. Shows(x, ApplyEntry("replacements", d, e, o1, second),
              [ls1 EXCEPT ![second.key] = Replace(s, @, second, e)], cut, b)
    BY <1>1, <1>3, <1>4, <1>6, ReplaceShown
  <2> QED BY <1>1, <1>2, <1>4, <1>a, <2>1, EntryTyped
<1>8. k2 \in Keys /\ ls1[k2] \in History(E) /\ Replace(s, ls1[k2], second, e) \in History(E)
  BY <1>1, <1>2, <1>6, InputFields, WriteTyped DEF Stores
<1>9. /\ ls2 \in Stores(E) /\ ls2[k2] = Replace(s, ls1[k2], second, e)
      /\ k1 # k2 => ls2[k1] = ls1[k1]
  BY <1>2, <1>5, <1>6, <1>8 DEF Stores
<1>10. x => \A n \in 1..Len(c.invalidations) :
              /\ c.invalidations[n].status = "Dirty"
              /\ Marked(ls2[c.invalidations[n].key], c.epoch)
  <2>1. PICK inv : inv = c.invalidations
    OBVIOUS
  <2> SUFFICES ASSUME x, NEW n \in 1..Len(inv)
               PROVE  inv[n].status = "Dirty" /\ Marked(ls2[inv[n].key], e)
    BY <2>1
  <2>2. /\ inv[n].status = "Dirty" /\ s # 0
        /\ \/ inv[n].key = k1 /\ first.emb = 0 /\ first.body # "absent"
           \/ inv[n].key = k2 /\ second.emb = 0 /\ second.body # "absent"
    <3>1. inv = Invalidations(s, first) \o Invalidations(s, second)
      BY <2>1
    <3>2. MarksOf(s, first, second, inv)
      BY <3>1, BatchInvalidations
    <3> QED BY <1>2, <3>2 DEF MarksOf
  <2>3. first.emb = 0 /\ first.body # "absent" => Marked(Replace(s, ls[k1], first, e), e)
    BY <1>1, <1>5, <2>2, WriteMarks
  <2>4. second.emb = 0 /\ second.body # "absent" => Marked(Replace(s, ls1[k2], second, e), e)
    BY <1>1, <1>8, <2>2, WriteMarks
  <2>5. k1 # k2
    BY <1>2
  <2> QED BY <1>6, <1>9, <2>2, <2>3, <2>4, <2>5
<1>11. ApplyCommit(d, r, c) = ApplyList("invalidations", d, o2, c)
  <2>1. ApplyList("replacements", d, r, c) = o2
    <3>1. /\ Len(c["replacements"]) = 2
          /\ c["replacements"][1] = first /\ c["replacements"][2] = second
      <4>1. PICK rep : rep = <<first, second>>
        OBVIOUS
      <4>2. Len(rep) = 2 /\ rep[1] = first /\ rep[2] = second
        BY <4>1
      <4> QED BY <4>1, <4>2
    <3>2. ApplyList("replacements", d, r, c) =
            ApplyEntry("replacements", d, c.epoch,
                       ApplyEntry("replacements", d, c.epoch, r, c["replacements"][1]),
                       c["replacements"][2])
      BY <1>a, <3>1, ListTwo
    <3>3. ApplyList("replacements", d, r, c) =
            ApplyEntry("replacements", d, c.epoch,
                       ApplyEntry("replacements", d, c.epoch, r, first), second)
      BY <3>1, <3>2
    <3> QED BY <1>2, <3>3
  <2>2. ApplyList("mutations", d, o2, c) = o2 /\ ApplyList("deletions", d, o2, c) = o2
    BY ListNone DEF Lists
  <2> QED BY <2>1, <2>2 DEF ApplyCommit
<1>12. Shows(x, ApplyList("invalidations", d, o2, c), ls2, cut, b)
  BY <1>7, <1>9, <1>10, InvalidationsShown
<1> QED BY <1>2, <1>11, <1>12

-----------------------------------------------------------------------------
(* What reads see *)

\* A read at epoch e may return the version.
Seen(v, e) == Holds(v, e) /\ ~v.tomb

\* visible_record_at takes the last such version.
LEMMA VisibleIndex ==
    ASSUME NEW vs, Len(vs) \in Nat, NEW e
    PROVE  \/ VisibleAt(vs, e) = <<>> /\ \A i \in 1..Len(vs) : ~Seen(vs[i], e)
           \/ \E i \in 1..Len(vs) :
                /\ VisibleAt(vs, e) = <<vs[i]>> /\ Seen(vs[i], e)
                /\ \A j \in 1..Len(vs) : Seen(vs[j], e) => j <= i
<1> DEFINE N == Len(vs)
           S == {i \in 1..N : Holds(vs[i], e) /\ ~vs[i].tomb}
           m == IF S # {} THEN Max(S) ELSE 0
<1>1. VisibleAt(vs, e) = IF m = 0 THEN <<>> ELSE <<vs[m]>>
  BY DEF VisibleAt, SelectLastInSeq
<1>2. S = {i \in 1..N : Seen(vs[i], e)}
  BY DEF Seen
<1> HIDE DEF S
<1>3. CASE S = {}
  <2>1. m = 0
    BY <1>3
  <2> QED BY <1>1, <1>2, <1>3, <2>1
<1>4. CASE S # {}
  <2>1. S \in SUBSET (1..N)
    BY <1>2
  <2>2. Max(S) \in S /\ \A i \in S : i <= Max(S)
    BY <1>4, <2>1, MaxOf
  <2>3. m \in S /\ \A i \in S : i <= m
    BY <1>4, <2>2
  <2> HIDE DEF m
  <2>4. m \in 1..N /\ m # 0 /\ Seen(vs[m], e)
    BY <1>2, <2>3
  <2>5. VisibleAt(vs, e) = <<vs[m]>>
    BY <1>1, <2>4
  <2> QED BY <1>2, <2>3, <2>4, <2>5
<1> QED BY <1>3, <1>4

\* Lists that show the same versions at epoch e, at places n apart.
Shifted(r, l, n, e) ==
    /\ Len(r) \in Nat /\ Len(l) \in Nat /\ n \in Nat
    /\ \A i \in 1..Len(r) : i + n \in 1..Len(l) /\ (Seen(r[i], e) <=> Seen(l[i + n], e))
    /\ \A i \in 1..Len(l) : Seen(l[i], e) => i - n \in 1..Len(r)

\* They are read alike.
LEMMA SeenShift ==
    ASSUME NEW r, NEW l, NEW n, NEW e, Shifted(r, l, n, e)
    PROVE  \/ VisibleAt(r, e) = <<>> /\ VisibleAt(l, e) = <<>>
           \/ \E i \in 1..Len(r) : VisibleAt(r, e) = <<r[i]>> /\ VisibleAt(l, e) = <<l[i + n]>>
<1>1. PICK R, L : R = Len(r) /\ L = Len(l)
  OBVIOUS
<1>2. /\ R \in Nat /\ L \in Nat /\ n \in Nat
      /\ \A i \in 1..R : i + n \in 1..L /\ (Seen(r[i], e) <=> Seen(l[i + n], e))
      /\ \A i \in 1..L : Seen(l[i], e) => i - n \in 1..R
  BY <1>1 DEF Shifted
<1>3. CASE VisibleAt(r, e) = <<>> /\ \A i \in 1..R : ~Seen(r[i], e)
  <2>1. \A i \in 1..L : ~Seen(l[i], e)
    <3> SUFFICES ASSUME NEW i \in 1..L, Seen(l[i], e) PROVE FALSE
      OBVIOUS
    <3>1. i - n \in 1..R /\ (i - n) + n = i
      BY <1>2
    <3> QED BY <1>2, <1>3, <3>1
  <2>2. VisibleAt(l, e) = <<>>
    BY <1>1, <1>2, <2>1, VisibleIndex
  <2> QED BY <1>3, <2>2
<1>4. CASE \E i \in 1..R : /\ VisibleAt(r, e) = <<r[i]>> /\ Seen(r[i], e)
                           /\ \A j \in 1..R : Seen(r[j], e) => j <= i
  <2>1. PICK i \in 1..R : /\ VisibleAt(r, e) = <<r[i]>> /\ Seen(r[i], e)
                          /\ \A j \in 1..R : Seen(r[j], e) => j <= i
    BY <1>4
  <2>2. i + n \in 1..L /\ Seen(l[i + n], e)
    BY <1>2, <2>1
  <2>3. PICK m \in 1..L : /\ VisibleAt(l, e) = <<l[m]>> /\ Seen(l[m], e)
                          /\ \A j \in 1..L : Seen(l[j], e) => j <= m
    BY <1>1, <1>2, <2>2, VisibleIndex
  <2>4. m - n \in 1..R /\ (m - n) + n = m /\ i + n <= m
    BY <1>2, <2>2, <2>3
  <2>5. Seen(r[m - n], e)
    BY <1>2, <2>3, <2>4
  <2>6. m - n <= i
    BY <2>1, <2>4, <2>5
  <2>7. m = i + n
    BY <1>2, <2>4, <2>6
  <2> QED BY <1>1, <2>1, <2>3, <2>7
<1> QED BY <1>1, <1>3, <1>4, VisibleIndex

\* The fields of a read that returns one version.
LEMMA FieldsOne ==
    ASSUME NEW v, NEW w, v.body = w.body, v.emb = w.emb
    PROVE  Fields(<<v>>) = Fields(<<w>>)
<1>1. \A u : Fields(<<u>>) = [i \in {1} |-> <<u.body, u.emb>>]
  <2> TAKE u
  <2>1. DOMAIN <<u>> = {1} /\ <<u>>[1] = u
    OBVIOUS
  <2> QED BY <2>1 DEF Fields
<1> QED BY <1>1

\* A write leaves the reads at epochs before it as they are.
LEMMA PastKept ==
    ASSUME NEW E \in Epoch, NEW vs \in History(E), NEW v \in StoredVersion, v.end = 0,
           v.begin <= E, NEW t \in Nat, t < v.begin
    PROVE  Fields(VisibleAt(Push(vs, v), t)) = Fields(VisibleAt(vs, t))
<1>1. PICK ps, N : ps = Push(vs, v) /\ N = Len(vs)
  OBVIOUS
<1>2. /\ N \in Nat /\ Len(ps) = N + 1 /\ ps[N + 1] = v
      /\ \A i \in 1..N : i < N => ps[i] = vs[i]
      /\ \A i \in 1..N : i = N => ps[i] = [vs[i] EXCEPT !.end = v.begin]
  <2>1. /\ Len(Push(vs, v)) = Len(vs) + 1 /\ Push(vs, v)[Len(vs) + 1] = v
        /\ \A i \in 1..Len(vs) : i < Len(vs) => Push(vs, v)[i] = vs[i]
        /\ \A i \in 1..Len(vs) :
             i = Len(vs) => Push(vs, v)[i] = [vs[i] EXCEPT !.end = v.begin]
    BY PushFacts
  <2> QED BY <1>1, <2>1, HistoryFacts
<1>3. ASSUME NEW i \in 1..N
      PROVE  /\ Seen(vs[i], t) <=> Seen(ps[i], t)
             /\ vs[i].body = ps[i].body /\ vs[i].emb = ps[i].emb
  <2>1. CASE i < N
    BY <1>2, <2>1
  <2>2. CASE i = N
    <3>1. PICK w, b : w = vs[i] /\ b = v.begin
      OBVIOUS
    <3>2. w \in StoredVersion /\ w.end = 0 /\ b \in Epoch /\ b \in Nat /\ w.begin \in Nat
      BY <1>1, <2>2, <3>1, HistoryFacts, VersionFields, EpochFacts
    <3>3. ps[i] = [w EXCEPT !.end = b]
      BY <1>2, <2>2, <3>1
    <3>4. /\ ps[i].begin = w.begin /\ ps[i].end = b /\ ps[i].tomb = w.tomb
          /\ ps[i].body = w.body /\ ps[i].emb = w.emb
      BY <3>2, <3>3, EndedVersion
    <3>5. b > t
      BY <3>1, <3>2
    <3> QED BY <3>1, <3>2, <3>4, <3>5 DEF Seen, Holds
  <2> QED BY <1>2, <2>1, <2>2
<1>4. ~Seen(ps[N + 1], t)
  <2>1. v.begin \in Nat
    BY VersionFields
  <2> QED BY <1>2, <2>1 DEF Seen, Holds
<1>5. PICK z : z = 0
  OBVIOUS
<1>6. /\ \A i \in 1..Len(vs) : i + z \in 1..Len(ps) /\ (Seen(vs[i], t) <=> Seen(ps[i + z], t))
      /\ \A i \in 1..Len(ps) : Seen(ps[i], t) => i - z \in 1..Len(vs)
  <2>1. \A i \in 1..N : i + z = i /\ i \in 1..(N + 1)
    BY <1>2, <1>5
  <2>2. \A i \in 1..(N + 1) : i - z = i /\ (i \in 1..N \/ i = N + 1)
    BY <1>2, <1>5
  <2> QED BY <1>1, <1>2, <1>3, <1>4, <2>1, <2>2
<1>7. \/ VisibleAt(vs, t) = <<>> /\ VisibleAt(ps, t) = <<>>
      \/ \E i \in 1..Len(vs) : VisibleAt(vs, t) = <<vs[i]>> /\ VisibleAt(ps, t) = <<ps[i + z]>>
  <2>1. Shifted(vs, ps, z, t)
    BY <1>1, <1>2, <1>5, <1>6 DEF Shifted
  <2> QED BY <2>1, SeenShift
<1>8. ASSUME NEW i \in 1..N, VisibleAt(vs, t) = <<vs[i]>>, VisibleAt(ps, t) = <<ps[i]>>
      PROVE  Fields(VisibleAt(ps, t)) = Fields(VisibleAt(vs, t))
  BY <1>3, <1>8, FieldsOne
<1>9. \A i \in 1..N : i + z = i
  BY <1>2, <1>5
<1> QED BY <1>1, <1>7, <1>8, <1>9

\* So does a change of status.
LEMMA StatusPast ==
    ASSUME NEW E \in Epoch, NEW vs \in History(E), NEW e \in Epoch, Current(vs) # 0,
           NEW status \in {"Ready", "Dirty", "Pending", "Failed", "Missing"}, NEW t
    PROVE  Fields(VisibleAt(SetStatus(vs, status, e), t)) = Fields(VisibleAt(vs, t))
<1>1. PICK ps, N : ps = SetStatus(vs, status, e) /\ N = Len(vs)
  OBVIOUS
<1>2. /\ N \in Nat /\ Len(ps) = N
      /\ \A i \in 1..N :
           /\ ps[i].begin = vs[i].begin /\ ps[i].end = vs[i].end
           /\ ps[i].tomb = vs[i].tomb
           /\ ps[i].body = vs[i].body /\ ps[i].emb = vs[i].emb
  BY <1>1, StatusFacts, HistoryFacts
<1>3. \A i \in 1..N : Seen(vs[i], t) <=> Seen(ps[i], t)
  BY <1>2 DEF Seen, Holds
<1>5. PICK z : z = 0
  OBVIOUS
<1>6. /\ \A i \in 1..Len(vs) : i + z \in 1..Len(ps) /\ (Seen(vs[i], t) <=> Seen(ps[i + z], t))
      /\ \A i \in 1..Len(ps) : Seen(ps[i], t) => i - z \in 1..Len(vs)
  <2>1. \A i \in 1..N : i + z = i /\ i - z = i
    BY <1>2, <1>5
  <2> QED BY <1>1, <1>2, <1>3, <2>1
<1>7. \/ VisibleAt(vs, t) = <<>> /\ VisibleAt(ps, t) = <<>>
      \/ \E i \in 1..Len(vs) : VisibleAt(vs, t) = <<vs[i]>> /\ VisibleAt(ps, t) = <<ps[i + z]>>
  <2>1. Shifted(vs, ps, z, t)
    BY <1>1, <1>2, <1>5, <1>6 DEF Shifted
  <2> QED BY <2>1, SeenShift
<1>8. ASSUME NEW i \in 1..N, VisibleAt(vs, t) = <<vs[i]>>, VisibleAt(ps, t) = <<ps[i]>>
      PROVE  Fields(VisibleAt(ps, t)) = Fields(VisibleAt(vs, t))
  BY <1>2, <1>8, FieldsOne
<1>9. \A i \in 1..N : i + z = i
  BY <1>2, <1>5
<1> QED BY <1>1, <1>7, <1>8, <1>9

\* A replay is read like the live store, from the checkpoint on.
LEMMA EndSeen ==
    ASSUME NEW x, NEW E \in Epoch, NEW r \in History(E), NEW l \in History(E),
           NEW n \in Nat, NEW b \in Nat, EndOf(x, r, l, n, b), NEW t \in Nat, b <= t
    PROVE  /\ Fields(VisibleAt(r, t)) = Fields(VisibleAt(l, t))
           /\ x => VisibleAt(r, t) = VisibleAt(l, t)
<1>1. PICK R, L : R = Len(r) /\ L = Len(l)
  OBVIOUS
<1>2. /\ R \in Nat /\ L \in Nat /\ L = R + n
      /\ \A i \in 1..R : Alike(x, r[i], l[i + n])
      /\ \A i \in 1..n : l[i].end # 0 /\ l[i].end <= b
  BY <1>1, HistoryFacts DEF EndOf
<1>3. \A i \in 1..R : r[i] \in StoredVersion
  BY <1>1, HistoryFacts
<1>4. \A i \in 1..L : l[i] \in StoredVersion /\ l[i].end \in Nat
  BY <1>1, HistoryFacts, VersionFields
<1>5. \A i \in 1..R : i + n \in 1..L /\ (Seen(r[i], t) <=> Seen(l[i + n], t))
  <2> SUFFICES ASSUME NEW i \in 1..R
               PROVE  i + n \in 1..L /\ (Seen(r[i], t) <=> Seen(l[i + n], t))
    OBVIOUS
  <2>1. i + n \in 1..L
    BY <1>2
  <2>2. Alike(x, r[i], l[i + n])
    BY <1>2
  <2>3. Seen(r[i], t) <=> Seen(l[i + n], t)
    BY <2>2 DEF Alike, Seen, Holds
  <2> QED BY <2>1, <2>3
<1>6. \A i \in 1..L : Seen(l[i], t) => i - n \in 1..R
  <2> SUFFICES ASSUME NEW i \in 1..L, ~(i - n \in 1..R) PROVE ~Seen(l[i], t)
    OBVIOUS
  <2>1. i \in 1..n
    BY <1>2
  <2>2. l[i].end # 0 /\ l[i].end <= b /\ l[i].end \in Nat
    BY <1>2, <1>4, <2>1
  <2>3. ~(l[i].end > t)
    BY <2>2
  <2> QED BY <2>2, <2>3 DEF Seen, Holds
<1>7. \/ VisibleAt(r, t) = <<>> /\ VisibleAt(l, t) = <<>>
      \/ \E i \in 1..R : VisibleAt(r, t) = <<r[i]>> /\ VisibleAt(l, t) = <<l[i + n]>>
  <2>1. Shifted(r, l, n, t)
    BY <1>1, <1>2, <1>5, <1>6 DEF Shifted
  <2> QED BY <1>1, <2>1, SeenShift
<1>8. CASE VisibleAt(r, t) = <<>> /\ VisibleAt(l, t) = <<>>
  BY <1>8
<1>9. CASE \E i \in 1..R : VisibleAt(r, t) = <<r[i]>> /\ VisibleAt(l, t) = <<l[i + n]>>
  <2>1. PICK i \in 1..R : VisibleAt(r, t) = <<r[i]>> /\ VisibleAt(l, t) = <<l[i + n]>>
    BY <1>9
  <2>2. PICK v, w : v = r[i] /\ w = l[i + n]
    OBVIOUS
  <2>3. i + n \in 1..L
    BY <1>2
  <2>4. v \in StoredVersion /\ w \in StoredVersion /\ Alike(x, v, w)
    BY <1>2, <1>3, <1>4, <2>2, <2>3
  <2>5. Fields(<<v>>) = Fields(<<w>>)
    BY <2>4, FieldsOne DEF Alike
  <2>6. x => v = w
    BY <2>4 DEF Alike, StoredVersion
  <2> QED BY <2>1, <2>2, <2>5, <2>6
<1> QED BY <1>7, <1>8, <1>9

\* A checkpoint keeps the last version of each record: an end of the store.
LEMMA CheckpointEnd ==
    ASSUME NEW e \in Epoch, NEW rs \in Stores(e)
    PROVE  /\ CheckpointRecords(rs, e) \in Stores(e)
           /\ \E cut \in [Keys -> Nat] : \A k \in Keys, x \in BOOLEAN :
                EndOf(x, CheckpointRecords(rs, e)[k], rs[k], cut[k], e)
<1> DEFINE ck == CheckpointRecords(rs, e)
           cut == [k \in Keys |-> IF rs[k] = <<>> THEN 0 ELSE Len(rs[k]) - 1]
<1>1. ASSUME NEW k \in Keys
      PROVE  /\ ck[k] \in History(e) /\ cut[k] \in Nat
             /\ \A x \in BOOLEAN : EndOf(x, ck[k], rs[k], cut[k], e)
  <2>1. PICK vs, N, m : vs = rs[k] /\ N = Len(vs) /\ m = cut[k]
    OBVIOUS
  <2>2. vs \in History(e) /\ N \in Nat /\ (vs # <<>> <=> N > 0) /\ e \in Nat
    BY <2>1, HistoryFacts, EpochFacts, LastVersion DEF Stores
  <2>3. m = IF N = 0 THEN 0 ELSE N - 1
    BY <2>1, <2>2
  <2> DEFINE S == {i \in 1..N : Holds(vs[i], e)}
             j == IF S # {} THEN Max(S) ELSE 0
  <2>4. ck[k] = IF j = 0 THEN <<>> ELSE <<vs[j]>>
    BY <2>1 DEF CheckpointRecords, SelectLastInSeq
  <2>5. /\ \A i \in 1..N : vs[i] \in StoredVersion /\ vs[i].begin <= e /\ vs[i].end <= e
        /\ \A i \in 1..N : i < N => vs[i].end # 0
        /\ \A i \in 1..N : i = N => vs[i].end = 0
        /\ \A i \in 1..N : vs[i].end \in Nat
    BY <2>1, <2>2, HistoryFacts, VersionFields
  <2>6. S = IF N = 0 THEN {} ELSE {N}
    <3>1. \A i \in 1..N : Holds(vs[i], e) <=> i = N
      <4> SUFFICES ASSUME NEW i \in 1..N PROVE Holds(vs[i], e) <=> i = N
        OBVIOUS
      <4>1. i < N => ~(vs[i].end > e)
        BY <2>2, <2>5
      <4>2. i < N \/ i = N
        BY <2>2
      <4> QED BY <2>2, <2>5, <4>1, <4>2 DEF Holds
    <3> QED BY <2>2, <3>1
  <2> HIDE DEF S
  <2>7. j = N
    <3>1. N # 0 => {N} \in SUBSET (1..N)
      BY <2>2
    <3>2. N # 0 => Max({N}) = N
      BY <2>2, <3>1, MaxOf
    <3> QED BY <2>6, <3>2
  <2> HIDE DEF j, cut, ck
  <2>8. CASE N = 0
    <3>1. ck[k] = <<>> /\ m = 0 /\ vs = <<>>
      BY <2>2, <2>3, <2>4, <2>7, <2>8
    <3>2. \A x : EndOf(x, <<>>, <<>>, 0, e)
      BY DEF EndOf
    <3> QED BY <2>1, <3>1, <3>2, NoVersions
  <2>9. CASE N # 0
    <3>1. PICK v : v = vs[N]
      OBVIOUS
    <3>2. N \in 1..N /\ m = N - 1 /\ m \in Nat /\ N = 1 + m
      BY <2>2, <2>3, <2>9
    <3>3. v \in StoredVersion /\ v.begin <= e /\ v.end <= e /\ v.end = 0
      BY <2>5, <3>1, <3>2
    <3>4. PICK one : one = <<v>>
      OBVIOUS
    <3>5. ck[k] = one
      BY <2>4, <2>7, <2>9, <3>1, <3>4
    <3>6. one \in Seq(StoredVersion) /\ Len(one) = 1 /\ one[1] = v
      BY <3>3, <3>4
    <3>7. one \in History(e)
      <4>1. \A i \in 1..1 : i = 1
        OBVIOUS
      <4> QED BY <3>3, <3>6, <4>1 DEF History, Chain
    <3>8. ASSUME NEW x \in BOOLEAN PROVE EndOf(x, one, vs, m, e)
      <4>1. Len(vs) = Len(one) + m /\ (m > 0 => Len(one) > 0)
        BY <2>1, <3>2, <3>6
      <4>2. \A i \in 1..Len(one) : Alike(x, one[i], vs[i + m])
        <5>1. \A i \in 1..1 : i = 1 /\ i + m = N
          BY <3>2
        <5> QED BY <3>1, <3>6, <5>1 DEF Alike
      <4>3. \A i \in 1..m : vs[i].end # 0 /\ vs[i].end <= e
        <5>1. \A i \in 1..m : i \in 1..N /\ i < N
          BY <3>2
        <5> QED BY <2>5, <5>1
      <4> QED BY <4>1, <4>2, <4>3 DEF EndOf
    <3> QED BY <2>1, <3>2, <3>5, <3>7, <3>8
  <2> QED BY <2>8, <2>9
<1>2. ck = [k \in Keys |-> ck[k]]
  BY DEF CheckpointRecords
<1> HIDE DEF ck
<1>3. ck \in Stores(e)
  BY <1>1, <1>2 DEF Stores
<1>4. cut \in [Keys -> Nat]
  <2>1. cut = [k \in Keys |-> cut[k]]
    OBVIOUS
  <2> HIDE DEF cut
  <2> QED BY <1>1, <2>1
<1> HIDE DEF cut
<1>5. \E c \in [Keys -> Nat] : \A k \in Keys, x \in BOOLEAN : EndOf(x, ck[k], rs[k], c[k], e)
  BY <1>1, <1>4
<1> QED BY <1>3, <1>5 DEF ck

-----------------------------------------------------------------------------
(* The writes: what commit c makes of the live store ls *)

CommitOf(e, reps, muts, dels, invs) ==
    [epoch |-> e, schemas |-> <<>>, replacements |-> reps, mutations |-> muts,
     deletions |-> dels, invalidations |-> invs]

PutOf(s, e, ls, c, lt, in) ==
    /\ DimensionsOK(s, in)
    /\ c = CommitOf(e, <<in>>, <<>>, <<>>, Invalidations(s, in))
    /\ lt = [ls EXCEPT ![in.key] = Replace(s, @, in, e)]

BatchOf(s, e, ls, c, lt, first, second) ==
    /\ DimensionsOK(s, first) /\ DimensionsOK(s, second)
    /\ first.key # second.key \/ RepeatedKeys
    /\ c = CommitOf(e, <<first, second>>, <<>>, <<>>,
                    Invalidations(s, first) \o Invalidations(s, second))
    /\ \E mid : /\ mid = [ls EXCEPT ![first.key] = Replace(s, @, first, e)]
                /\ lt = [mid EXCEPT ![second.key] = Replace(s, @, second, e)]

MutationOf(s, e, ls, c, lt, in) ==
    /\ DimensionsOK(s, in)
    /\ c = CommitOf(e, <<>>, <<in>>, <<>>, Invalidations(s, in))
    /\ lt = [ls EXCEPT ![in.key] = Mutate(s, @, in, e)]

DeletionOf(e, ls, c, lt, k) ==
    /\ Current(ls[k]) # 0
    /\ c = CommitOf(e, <<>>, <<>>, <<k>>, <<>>)
    /\ lt = [ls EXCEPT ![k] = Delete(@, e)]

StatusOf(e, ls, c, lt, y) ==
    /\ HasFeature(ls[y.key])
    /\ c = CommitOf(e, <<>>, <<>>, <<>>, <<y>>)
    /\ lt = [ls EXCEPT ![y.key] = SetStatus(@, y.status, e)]

WriteOf(s, e, ls, c, lt) ==
    \/ \E in \in Input : PutOf(s, e, ls, c, lt, in) \/ MutationOf(s, e, ls, c, lt, in)
    \/ \E first, second \in Input : BatchOf(s, e, ls, c, lt, first, second)
    \/ \E k \in Keys : DeletionOf(e, ls, c, lt, k)
    \/ \E y \in Invalidation : StatusOf(e, ls, c, lt, y)

\* A write makes a commit of its epoch that leaves the schema alone, and a store.
LEMMA WriteTypes ==
    ASSUME NEW s, NEW e \in Epoch, e \in 1..MaxEpoch, NEW ls \in Stores(e), NEW c, NEW lt,
           WriteOf(s, e, ls, c, lt)
    PROVE  c \in CommitRecord /\ c.epoch = e /\ c.schemas = <<>> /\ lt \in Stores(e)
<1>0. /\ \A k \in Keys : ls[k] \in History(e)
      /\ <<>> \in Seq(Input) /\ <<>> \in Seq(Keys) /\ <<>> \in Seq(Invalidation)
      /\ <<>> \in Seq(Schemas) /\ e <= e
  BY EpochFacts DEF Stores
<1>1. ASSUME NEW in \in Input, PutOf(s, e, ls, c, lt, in)
      PROVE  c \in CommitRecord /\ c.epoch = e /\ c.schemas = <<>> /\ lt \in Stores(e)
  <2>1. PICK reps, invs, k, vs :
          reps = <<in>> /\ invs = Invalidations(s, in) /\ k = in.key
            /\ vs = Replace(s, ls[k], in, e)
    OBVIOUS
  <2>2. reps \in Seq(Input) /\ invs \in Seq(Invalidation) /\ k \in Keys
    BY <2>1, InvalidationsOf, InputFields
  <2>3. c = CommitOf(e, reps, <<>>, <<>>, invs) /\ lt = [ls EXCEPT ![k] = vs]
    BY <1>1, <2>1 DEF PutOf
  <2>4. vs \in History(e)
    BY <1>0, <2>1, <2>2, WriteTyped, EpochFacts
  <2>5. lt \in Stores(e)
    BY <2>2, <2>3, <2>4, StoreChange
  <2>10. c \in CommitRecord /\ c.epoch = e /\ c.schemas = <<>>
    BY <1>0, <2>2, <2>3 DEF CommitOf, CommitRecord
  <2> QED BY <2>5, <2>10
<1>2. ASSUME NEW in \in Input, MutationOf(s, e, ls, c, lt, in)
      PROVE  c \in CommitRecord /\ c.epoch = e /\ c.schemas = <<>> /\ lt \in Stores(e)
  <2>1. PICK muts, invs, k, vs :
          muts = <<in>> /\ invs = Invalidations(s, in) /\ k = in.key
            /\ vs = Mutate(s, ls[k], in, e)
    OBVIOUS
  <2>2. muts \in Seq(Input) /\ invs \in Seq(Invalidation) /\ k \in Keys
    BY <2>1, InvalidationsOf, InputFields
  <2>3. c = CommitOf(e, <<>>, muts, <<>>, invs) /\ lt = [ls EXCEPT ![k] = vs]
    BY <1>2, <2>1 DEF MutationOf
  <2>4. vs \in History(e)
    BY <1>0, <2>1, <2>2, WriteTyped, EpochFacts
  <2>5. lt \in Stores(e)
    BY <2>2, <2>3, <2>4, StoreChange
  <2>10. c \in CommitRecord /\ c.epoch = e /\ c.schemas = <<>>
    BY <1>0, <2>2, <2>3 DEF CommitOf, CommitRecord
  <2> QED BY <2>5, <2>10
<1>3. ASSUME NEW first \in Input, NEW second \in Input, BatchOf(s, e, ls, c, lt, first, second)
      PROVE  c \in CommitRecord /\ c.epoch = e /\ c.schemas = <<>> /\ lt \in Stores(e)
  <2>1. PICK mid : /\ mid = [ls EXCEPT ![first.key] = Replace(s, @, first, e)]
                   /\ lt = [mid EXCEPT ![second.key] = Replace(s, @, second, e)]
    BY <1>3 DEF BatchOf
  <2>2. PICK reps, invs, k1, k2, vs, ws :
          /\ reps = <<first, second>>
          /\ invs = Invalidations(s, first) \o Invalidations(s, second)
          /\ k1 = first.key /\ vs = Replace(s, ls[k1], first, e)
          /\ k2 = second.key /\ ws = Replace(s, mid[k2], second, e)
    OBVIOUS
  <2>3. k1 \in Keys /\ k2 \in Keys
    BY <2>2, InputFields
  <2>4. reps \in Seq(Input) /\ invs \in Seq(Invalidation)
    <3>1. invs \in Seq(Invalidation)
      BY <2>2, BatchInvalidations
    <3> QED BY <2>2, <3>1
  <2>5. c = CommitOf(e, reps, <<>>, <<>>, invs)
    BY <1>3, <2>2 DEF BatchOf
  <2>6. mid = [ls EXCEPT ![k1] = vs] /\ vs \in History(e)
    BY <1>0, <2>1, <2>2, <2>3, WriteTyped, EpochFacts
  <2>7. mid \in Stores(e)
    BY <2>3, <2>6, StoreChange
  <2>8. lt = [mid EXCEPT ![k2] = ws] /\ ws \in History(e)
    <3>1. mid[k2] \in History(e)
      BY <2>3, <2>7 DEF Stores
    <3> QED BY <1>0, <2>1, <2>2, <3>1, WriteTyped, EpochFacts
  <2>9. lt \in Stores(e)
    BY <2>3, <2>7, <2>8, StoreChange
  <2>10. c \in CommitRecord /\ c.epoch = e /\ c.schemas = <<>>
    BY <1>0, <2>4, <2>5 DEF CommitOf, CommitRecord
  <2> QED BY <2>9, <2>10
<1>4. ASSUME NEW k \in Keys, DeletionOf(e, ls, c, lt, k)
      PROVE  c \in CommitRecord /\ c.epoch = e /\ c.schemas = <<>> /\ lt \in Stores(e)
  <2>1. PICK dels, vs : dels = <<k>> /\ vs = Delete(ls[k], e)
    OBVIOUS
  <2>2. dels \in Seq(Keys)
    BY <2>1
  <2>3. c = CommitOf(e, <<>>, <<>>, dels, <<>>) /\ lt = [ls EXCEPT ![k] = vs]
    BY <1>4, <2>1 DEF DeletionOf
  <2>4. vs \in History(e)
    BY <1>0, <1>4, <2>1, WriteTyped, EpochFacts DEF DeletionOf
  <2>5. lt \in Stores(e)
    BY <2>3, <2>4, StoreChange
  <2>10. c \in CommitRecord /\ c.epoch = e /\ c.schemas = <<>>
    BY <1>0, <2>2, <2>3 DEF CommitOf, CommitRecord
  <2> QED BY <2>5, <2>10
<1>5. ASSUME NEW y \in Invalidation, StatusOf(e, ls, c, lt, y)
      PROVE  c \in CommitRecord /\ c.epoch = e /\ c.schemas = <<>> /\ lt \in Stores(e)
  <2>1. PICK invs, k, st, vs :
          invs = <<y>> /\ k = y.key /\ st = y.status /\ vs = SetStatus(ls[k], st, e)
    OBVIOUS
  <2>2. /\ invs \in Seq(Invalidation) /\ k \in Keys
        /\ st \in {"Ready", "Dirty", "Pending", "Failed", "Missing"}
    BY <2>1, InvalidationFields
  <2>3. c = CommitOf(e, <<>>, <<>>, <<>>, invs) /\ lt = [ls EXCEPT ![k] = vs]
    BY <1>5, <2>1 DEF StatusOf
  <2>4. vs \in History(e)
    <3>1. Current(ls[k]) # 0 /\ ls[k] \in History(e)
      BY <1>0, <1>5, <2>1, <2>2 DEF StatusOf, HasFeature
    <3> QED BY <2>1, <2>2, <3>1, StatusFacts, EpochFacts
  <2>5. lt \in Stores(e)
    BY <2>2, <2>3, <2>4, StoreChange
  <2>10. c \in CommitRecord /\ c.epoch = e /\ c.schemas = <<>>
    BY <1>0, <2>2, <2>3 DEF CommitOf, CommitRecord
  <2> QED BY <2>5, <2>10
<1> QED BY <1>1, <1>2, <1>3, <1>4, <1>5 DEF WriteOf

\* A replay of its commit follows a write.
LEMMA WriteShown ==
    ASSUME NEW x \in BOOLEAN, NEW s, NEW e \in Epoch, e \in 1..MaxEpoch, NEW ls \in Stores(e),
           NEW c, NEW lt, WriteOf(s, e, ls, c, lt),
           NEW d, x => s = d, x => ~RepeatedKeys,
           NEW r \in Outcomes(e), NEW cut \in [Keys -> Nat], NEW b, Shows(x, r, ls, cut, b)
    PROVE  Shows(x, ApplyCommit(d, r, c), lt, cut, b)
<1>0. c \in CommitRecord /\ c.epoch = e /\ e <= e
  BY WriteTypes, EpochFacts
<1>1. ASSUME NEW in \in Input, PutOf(s, e, ls, c, lt, in)
      PROVE  Shows(x, ApplyCommit(d, r, c), lt, cut, b)
  <2>1. /\ DimensionsOK(s, in) /\ c.replacements = <<in>> /\ c.mutations = <<>>
        /\ c.deletions = <<>> /\ c.invalidations = Invalidations(s, in)
        /\ lt = [ls EXCEPT ![in.key] = Replace(s, @, in, e)]
    BY <1>1 DEF PutOf, CommitOf
  <2>2. Shows(x, ApplyCommit(d, r, c), [ls EXCEPT ![in.key] = Replace(s, @, in, e)], cut, b)
    BY <1>0, <2>1, PutShown
  <2> QED BY <2>1, <2>2
<1>2. ASSUME NEW in \in Input, MutationOf(s, e, ls, c, lt, in)
      PROVE  Shows(x, ApplyCommit(d, r, c), lt, cut, b)
  <2>1. /\ DimensionsOK(s, in) /\ c.replacements = <<>> /\ c.mutations = <<in>>
        /\ c.deletions = <<>> /\ c.invalidations = Invalidations(s, in)
        /\ lt = [ls EXCEPT ![in.key] = Mutate(s, @, in, e)]
    BY <1>2 DEF MutationOf, CommitOf
  <2>2. Shows(x, ApplyCommit(d, r, c), [ls EXCEPT ![in.key] = Mutate(s, @, in, e)], cut, b)
    BY <1>0, <2>1, MutationShown
  <2> QED BY <2>1, <2>2
<1>3. ASSUME NEW first \in Input, NEW second \in Input, BatchOf(s, e, ls, c, lt, first, second)
      PROVE  Shows(x, ApplyCommit(d, r, c), lt, cut, b)
  <2>0. PICK mid : /\ mid = [ls EXCEPT ![first.key] = Replace(s, @, first, e)]
                   /\ lt = [mid EXCEPT ![second.key] = Replace(s, @, second, e)]
    BY <1>3 DEF BatchOf
  <2>1. /\ DimensionsOK(s, first) /\ DimensionsOK(s, second)
        /\ c.replacements = <<first, second>> /\ c.mutations = <<>> /\ c.deletions = <<>>
        /\ c.invalidations = Invalidations(s, first) \o Invalidations(s, second)
    BY <1>3 DEF BatchOf, CommitOf
  <2>2. x => first.key # second.key
    BY <1>3 DEF BatchOf
  <2>3. Shows(x, ApplyCommit(d, r, c),
              [mid EXCEPT ![second.key] = Replace(s, @, second, e)], cut, b)
    BY <1>0, <2>0, <2>1, <2>2, BatchShown
  <2> QED BY <2>0, <2>3
<1>4. ASSUME NEW k \in Keys, DeletionOf(e, ls, c, lt, k)
      PROVE  Shows(x, ApplyCommit(d, r, c), lt, cut, b)
  <2>1. /\ Current(ls[k]) # 0 /\ c.replacements = <<>> /\ c.mutations = <<>>
        /\ c.deletions = <<k>> /\ c.invalidations = <<>>
        /\ lt = [ls EXCEPT ![k] = Delete(@, e)]
    BY <1>4 DEF DeletionOf, CommitOf
  <2>2. Shows(x, ApplyCommit(d, r, c), [ls EXCEPT ![k] = Delete(@, e)], cut, b)
    BY <1>0, <2>1, DeletionShown
  <2> QED BY <2>1, <2>2
<1>5. ASSUME NEW y \in Invalidation, StatusOf(e, ls, c, lt, y)
      PROVE  Shows(x, ApplyCommit(d, r, c), lt, cut, b)
  <2>0. PICK k \in Keys : k = y.key
    BY InvalidationFields
  <2>1. /\ HasFeature(ls[k]) /\ c.replacements = <<>> /\ c.mutations = <<>>
        /\ c.deletions = <<>> /\ c.invalidations = <<y>>
        /\ lt = [ls EXCEPT ![k] = SetStatus(@, y.status, e)]
    BY <1>5, <2>0 DEF StatusOf, CommitOf
  <2>2. Shows(x, ApplyCommit(d, r, c), [ls EXCEPT ![k] = SetStatus(@, y.status, e)], cut, b)
    BY <1>0, <2>0, <2>1, StatusCommitShown
  <2> QED BY <2>1, <2>2
<1> QED BY <1>1, <1>2, <1>3, <1>4, <1>5 DEF WriteOf

\* A write appends a version of its epoch to the versions of a record, up to
\* twice, or changes the status of the last one, or leaves them alone.
Grows(s, e, vs, ws) ==
    \/ ws = vs
    \/ \E in \in Input : ws = Replace(s, vs, in, e) \/ ws = Mutate(s, vs, in, e)
    \/ Current(vs) # 0 /\ ws = Delete(vs, e)
    \/ HasFeature(vs) /\ \E st \in {"Ready", "Dirty", "Pending", "Failed", "Missing"} :
                            ws = SetStatus(vs, st, e)

\* A change of one record.
LEMMA ChangeGrows ==
    ASSUME NEW e, NEW ls \in Stores(e), NEW k \in Keys, NEW vs, NEW lt,
           lt = [ls EXCEPT ![k] = vs], NEW s, NEW t, Grows(s, t, ls[k], vs), NEW j \in Keys
    PROVE  Grows(s, t, ls[j], lt[j])
<1>1. lt[j] = IF j = k THEN vs ELSE ls[j]
  BY DEF Stores
<1>2. Grows(s, t, ls[j], ls[j])
  BY DEF Grows
<1> QED BY <1>1, <1>2

\* What a write does to each record.
LEMMA WriteGrows ==
    ASSUME NEW s, NEW e \in Epoch, e \in 1..MaxEpoch, NEW ls \in Stores(e), NEW c, NEW lt,
           WriteOf(s, e, ls, c, lt), NEW j \in Keys
    PROVE  \E mid \in History(e) : Grows(s, e, ls[j], mid) /\ Grows(s, e, mid, lt[j])
<1>0. /\ \A k \in Keys : ls[k] \in History(e)
      /\ lt \in Stores(e) /\ lt[j] \in History(e) /\ e <= e
  <2>1. lt \in Stores(e)
    BY WriteTypes
  <2>2. e <= e
    BY EpochFacts
  <2> QED BY <2>1, <2>2 DEF Stores
<1>1. ASSUME Grows(s, e, ls[j], lt[j])
      PROVE  \E mid \in History(e) : Grows(s, e, ls[j], mid) /\ Grows(s, e, mid, lt[j])
  <2>1. Grows(s, e, lt[j], lt[j])
    BY DEF Grows
  <2> QED BY <1>0, <1>1, <2>1
<1>2. ASSUME NEW in \in Input, PutOf(s, e, ls, c, lt, in)
      PROVE  Grows(s, e, ls[j], lt[j])
  <2>1. PICK k, vs : k = in.key /\ vs = Replace(s, ls[k], in, e)
    OBVIOUS
  <2>2. k \in Keys /\ lt = [ls EXCEPT ![k] = vs]
    BY <1>2, <2>1, InputFields DEF PutOf
  <2>3. Grows(s, e, ls[k], vs)
    BY <2>1 DEF Grows
  <2> QED BY <2>2, <2>3, ChangeGrows
<1>3. ASSUME NEW in \in Input, MutationOf(s, e, ls, c, lt, in)
      PROVE  Grows(s, e, ls[j], lt[j])
  <2>1. PICK k, vs : k = in.key /\ vs = Mutate(s, ls[k], in, e)
    OBVIOUS
  <2>2. k \in Keys /\ lt = [ls EXCEPT ![k] = vs]
    BY <1>3, <2>1, InputFields DEF MutationOf
  <2>3. Grows(s, e, ls[k], vs)
    BY <2>1 DEF Grows
  <2> QED BY <2>2, <2>3, ChangeGrows
<1>4. ASSUME NEW first \in Input, NEW second \in Input, BatchOf(s, e, ls, c, lt, first, second)
      PROVE  \E mid \in History(e) : Grows(s, e, ls[j], mid) /\ Grows(s, e, mid, lt[j])
  <2>1. PICK mid : /\ mid = [ls EXCEPT ![first.key] = Replace(s, @, first, e)]
                   /\ lt = [mid EXCEPT ![second.key] = Replace(s, @, second, e)]
    BY <1>4 DEF BatchOf
  <2>2. PICK k1, k2, vs, ws :
          /\ k1 = first.key /\ vs = Replace(s, ls[k1], first, e)
          /\ k2 = second.key /\ ws = Replace(s, mid[k2], second, e)
    OBVIOUS
  <2>3. /\ k1 \in Keys /\ k2 \in Keys
        /\ mid = [ls EXCEPT ![k1] = vs] /\ lt = [mid EXCEPT ![k2] = ws]
    BY <2>1, <2>2, InputFields
  <2>4. vs \in History(e)
    BY <1>0, <2>2, <2>3, WriteTyped, EpochFacts
  <2>5. mid \in Stores(e)
    BY <2>3, <2>4, StoreChange
  <2>6. Grows(s, e, ls[k1], vs) /\ Grows(s, e, mid[k2], ws)
    BY <2>2 DEF Grows
  <2>7. Grows(s, e, ls[j], mid[j])
    BY <2>3, <2>6, ChangeGrows
  <2>8. Grows(s, e, mid[j], lt[j])
    BY <2>3, <2>5, <2>6, ChangeGrows
  <2>9. mid[j] \in History(e)
    BY <2>5 DEF Stores
  <2> QED BY <2>7, <2>8, <2>9
<1>5. ASSUME NEW k \in Keys, DeletionOf(e, ls, c, lt, k)
      PROVE  Grows(s, e, ls[j], lt[j])
  <2>1. PICK vs : vs = Delete(ls[k], e)
    OBVIOUS
  <2>2. lt = [ls EXCEPT ![k] = vs] /\ Current(ls[k]) # 0
    BY <1>5, <2>1 DEF DeletionOf
  <2>3. Grows(s, e, ls[k], vs)
    BY <2>1, <2>2 DEF Grows
  <2> QED BY <2>2, <2>3, ChangeGrows
<1>6. ASSUME NEW y \in Invalidation, StatusOf(e, ls, c, lt, y)
      PROVE  Grows(s, e, ls[j], lt[j])
  <2>1. PICK k, st, vs : k = y.key /\ st = y.status /\ vs = SetStatus(ls[k], st, e)
    OBVIOUS
  <2>2. /\ k \in Keys /\ lt = [ls EXCEPT ![k] = vs] /\ HasFeature(ls[k])
        /\ st \in {"Ready", "Dirty", "Pending", "Failed", "Missing"}
    BY <1>6, <2>1, InvalidationFields DEF StatusOf
  <2>3. Grows(s, e, ls[k], vs)
    BY <2>1, <2>2 DEF Grows
  <2> QED BY <2>2, <2>3, ChangeGrows
<1> QED BY <1>1, <1>2, <1>3, <1>4, <1>5, <1>6 DEF WriteOf

\* Each of these keeps the versions sound and the reads before it as they are.
LEMMA GrowsKeeps ==
    ASSUME NEW s, NEW e \in Epoch, e \in 1..MaxEpoch, NEW vs \in History(e), NEW ws,
           Grows(s, e, vs, ws)
    PROVE  /\ SoundList(s = 0, vs) => SoundList(s = 0, ws)
           /\ \A t \in Nat : t < e => Fields(VisibleAt(ws, t)) = Fields(VisibleAt(vs, t))
<1>0. e <= e /\ e \in Nat
  BY EpochFacts
<1>1. CASE ws = vs
  BY <1>1
<1>2. ASSUME NEW v \in StoredVersion, v.end = 0, v.begin = e, ws = Push(vs, v)
      PROVE  \A t \in Nat : t < e => Fields(VisibleAt(ws, t)) = Fields(VisibleAt(vs, t))
  BY <1>0, <1>2, PastKept
<1>3. ASSUME NEW in \in Input, ws = Replace(s, vs, in, e)
      PROVE  /\ SoundList(s = 0, vs) => SoundList(s = 0, ws)
             /\ \A t \in Nat : t < e => Fields(VisibleAt(ws, t)) = Fields(VisibleAt(vs, t))
  <2>1. PICK v : v = NewVersion(s, in, e)
    OBVIOUS
  <2>2. ws = Push(vs, v) /\ v \in StoredVersion /\ v.begin = e /\ v.end = 0
    BY <1>3, <2>1, ReplaceIsPush
  <2>3. SoundList(s = 0, vs) => SoundList(s = 0, Replace(s, vs, in, e))
    BY <1>0, WriteSound
  <2>4. \A t \in Nat : t < e => Fields(VisibleAt(ws, t)) = Fields(VisibleAt(vs, t))
    BY <1>2, <2>2
  <2> QED BY <1>3, <2>3, <2>4
<1>4. ASSUME NEW in \in Input, ws = Mutate(s, vs, in, e)
      PROVE  /\ SoundList(s = 0, vs) => SoundList(s = 0, ws)
             /\ \A t \in Nat : t < e => Fields(VisibleAt(ws, t)) = Fields(VisibleAt(vs, t))
  <2>1. PICK v : v = MergedVersion(s, vs, in, e)
    OBVIOUS
  <2>2. ws = Push(vs, v) /\ v \in StoredVersion /\ v.begin = e /\ v.end = 0
    BY <1>4, <2>1, MutateIsPush
  <2>3. SoundList(s = 0, vs) => SoundList(s = 0, Mutate(s, vs, in, e))
    BY <1>0, WriteSound
  <2>4. \A t \in Nat : t < e => Fields(VisibleAt(ws, t)) = Fields(VisibleAt(vs, t))
    BY <1>2, <2>2
  <2> QED BY <1>4, <2>3, <2>4
<1>5. CASE Current(vs) # 0 /\ ws = Delete(vs, e)
  <2>1. PICK v : v = Tombstone(vs, e)
    OBVIOUS
  <2>2. ws = Push(vs, v) /\ v \in StoredVersion /\ v.begin = e /\ v.end = 0
    BY <1>5, <2>1, DeleteIsPush
  <2>3. SoundList(s = 0, vs) => SoundList(s = 0, Delete(vs, e))
    BY <1>0, <1>5, WriteSound
  <2>4. \A t \in Nat : t < e => Fields(VisibleAt(ws, t)) = Fields(VisibleAt(vs, t))
    BY <1>2, <2>2
  <2> QED BY <1>5, <2>3, <2>4
<1>6. ASSUME HasFeature(vs), NEW st \in {"Ready", "Dirty", "Pending", "Failed", "Missing"},
             ws = SetStatus(vs, st, e)
      PROVE  /\ SoundList(s = 0, vs) => SoundList(s = 0, ws)
             /\ \A t \in Nat : t < e => Fields(VisibleAt(ws, t)) = Fields(VisibleAt(vs, t))
  <2>1. Current(vs) # 0
    BY <1>6 DEF HasFeature
  <2>2. \A t : Fields(VisibleAt(SetStatus(vs, st, e), t)) = Fields(VisibleAt(vs, t))
    BY <2>1, StatusPast
  <2>3. SoundList(s = 0, vs) => SoundList(s = 0, SetStatus(vs, st, e))
    BY <1>6, StatusSound
  <2> QED BY <1>6, <2>2, <2>3
<1> QED BY <1>1, <1>3, <1>4, <1>5, <1>6 DEF Grows

\* So does a write, for every record.
LEMMA WriteKeeps ==
    ASSUME NEW s, NEW e \in Epoch, e \in 1..MaxEpoch, NEW ls \in Stores(e), NEW c, NEW lt,
           WriteOf(s, e, ls, c, lt), NEW j \in Keys
    PROVE  /\ SoundList(s = 0, ls[j]) => SoundList(s = 0, lt[j])
           /\ \A t \in Nat : t < e => Fields(VisibleAt(lt[j], t)) = Fields(VisibleAt(ls[j], t))
<1>1. PICK vs, ws : vs = ls[j] /\ ws = lt[j]
  OBVIOUS
<1>2. PICK mid \in History(e) : Grows(s, e, vs, mid) /\ Grows(s, e, mid, ws)
  BY <1>1, WriteGrows
<1>3. vs \in History(e)
  BY <1>1 DEF Stores
<1>4. /\ SoundList(s = 0, vs) => SoundList(s = 0, mid)
      /\ \A t \in Nat : t < e => Fields(VisibleAt(mid, t)) = Fields(VisibleAt(vs, t))
  BY <1>2, <1>3, GrowsKeeps
<1>5. /\ SoundList(s = 0, mid) => SoundList(s = 0, ws)
      /\ \A t \in Nat : t < e => Fields(VisibleAt(ws, t)) = Fields(VisibleAt(mid, t))
  BY <1>2, GrowsKeeps
<1> QED BY <1>1, <1>4, <1>5

\* The current version after a write of a version that is not a tombstone.
LEMMA PushCurrent ==
    ASSUME NEW e \in Epoch, NEW vs \in History(e), NEW v \in StoredVersion, v.end = 0,
           v.begin <= e, ~v.tomb
    PROVE  Push(vs, v)[Current(Push(vs, v))] = v
<1>1. PICK ps, N : ps = Push(vs, v) /\ N = Len(vs)
  OBVIOUS
<1>2. ps \in History(e) /\ Len(ps) = N + 1 /\ ps[N + 1] = v /\ N \in Nat
  BY <1>1, PushFacts, HistoryFacts
<1>3. ps # <<>> /\ ~ps[Len(ps)].tomb
  BY <1>2
<1>4. Current(ps) = Len(ps)
  BY <1>2, <1>3, LastVersion
<1> QED BY <1>1, <1>2, <1>4

\* Where the current version comes from after a replacement or a mutation.
LEMMA WriteCurrent ==
    ASSUME NEW s, NEW e \in Epoch, e \in 1..MaxEpoch, NEW vs \in History(e), NEW in \in Input,
           NEW ws, \/ ws = Replace(s, vs, in, e)
                   \/ Current(vs) = 0 /\ ws = Mutate(s, vs, in, e)
    PROVE  ws[Current(ws)].body = in.body /\ ws[Current(ws)].emb = in.emb
<1>0. e <= e
  BY EpochFacts
<1>1. CASE ws = Replace(s, vs, in, e)
  <2>1. PICK v : v = NewVersion(s, in, e)
    OBVIOUS
  <2>2. /\ ws = Push(vs, v) /\ v \in StoredVersion /\ v.begin = e /\ v.end = 0 /\ ~v.tomb
        /\ v.body = in.body /\ v.emb = in.emb
    BY <1>1, <2>1, ReplaceIsPush
  <2>3. Push(vs, v)[Current(Push(vs, v))] = v
    BY <1>0, <2>2, PushCurrent
  <2> QED BY <2>2, <2>3
<1>2. CASE Current(vs) = 0 /\ ws = Mutate(s, vs, in, e)
  <2>1. PICK v : v = MergedVersion(s, vs, in, e)
    OBVIOUS
  <2>2. /\ ws = Push(vs, v) /\ v \in StoredVersion /\ v.begin = e /\ v.end = 0 /\ ~v.tomb
        /\ v.body = in.body /\ v.emb = in.emb
    BY <1>2, <2>1, MutateIsPush
  <2>3. Push(vs, v)[Current(Push(vs, v))] = v
    BY <1>0, <2>2, PushCurrent
  <2> QED BY <2>2, <2>3
<1> QED BY <1>1, <1>2

\* A record that a write creates has the fields of one of its inputs.
LEMMA WriteFresh ==
    ASSUME NEW s, NEW e \in Epoch, e \in 1..MaxEpoch, NEW ls \in Stores(e), NEW c, NEW lt,
           WriteOf(s, e, ls, c, lt), NEW k \in Keys,
           Current(ls[k]) = 0, Current(lt[k]) # 0
    PROVE  \E in \in ToSet(c.replacements \o c.mutations) :
              /\ in.key = k
              /\ lt[k][Current(lt[k])].body = in.body /\ lt[k][Current(lt[k])].emb = in.emb
<1> DEFINE Fresh(in) == /\ in.key = k
                        /\ lt[k][Current(lt[k])].body = in.body
                        /\ lt[k][Current(lt[k])].emb = in.emb
<1>0. \A j \in Keys : ls[j] \in History(e)
  BY DEF Stores
<1>a. e <= e
  BY EpochFacts
<1>1. ASSUME NEW in \in Input, PutOf(s, e, ls, c, lt, in)
      PROVE  \E i \in ToSet(c.replacements \o c.mutations) : Fresh(i)
  <2>1. c.replacements \o c.mutations = <<in>>
    BY <1>1 DEF PutOf, CommitOf
  <2>2. in \in ToSet(c.replacements \o c.mutations)
    BY <2>1 DEF ToSet
  <2>3. in.key = k /\ lt[k] = Replace(s, ls[k], in, e)
    BY <1>1 DEF PutOf, Stores
  <2>4. Fresh(in)
    BY <1>0, <2>3, WriteCurrent
  <2> QED BY <2>2, <2>4
<1>2. ASSUME NEW in \in Input, MutationOf(s, e, ls, c, lt, in)
      PROVE  \E i \in ToSet(c.replacements \o c.mutations) : Fresh(i)
  <2>1. c.replacements \o c.mutations = <<in>>
    BY <1>2 DEF MutationOf, CommitOf
  <2>2. in \in ToSet(c.replacements \o c.mutations)
    BY <2>1 DEF ToSet
  <2>3. in.key = k /\ lt[k] = Mutate(s, ls[k], in, e)
    BY <1>2 DEF MutationOf, Stores
  <2>4. Fresh(in)
    BY <1>0, <2>3, WriteCurrent
  <2> QED BY <2>2, <2>4
<1>3. ASSUME NEW first \in Input, NEW second \in Input, BatchOf(s, e, ls, c, lt, first, second)
      PROVE  \E i \in ToSet(c.replacements \o c.mutations) : Fresh(i)
  <2>1. c.replacements \o c.mutations = <<first, second>>
    BY <1>3 DEF BatchOf, CommitOf
  <2>2. /\ first \in ToSet(c.replacements \o c.mutations)
        /\ second \in ToSet(c.replacements \o c.mutations)
    <3>1. PICK both : both = <<first, second>>
      OBVIOUS
    <3>2. 1 \in DOMAIN both /\ 2 \in DOMAIN both /\ both[1] = first /\ both[2] = second
      BY <3>1
    <3> QED BY <2>1, <3>1, <3>2 DEF ToSet
  <2>3. PICK mid : /\ mid = [ls EXCEPT ![first.key] = Replace(s, @, first, e)]
                   /\ lt = [mid EXCEPT ![second.key] = Replace(s, @, second, e)]
    BY <1>3 DEF BatchOf
  <2>4. first.key \in Keys /\ second.key \in Keys
    BY InputFields
  <2>5. /\ \A j \in Keys : mid[j] = IF j = first.key THEN Replace(s, ls[j], first, e) ELSE ls[j]
        /\ DOMAIN mid = Keys
    BY <2>3 DEF Stores
  <2>6. \A j \in Keys : lt[j] = IF j = second.key THEN Replace(s, mid[j], second, e) ELSE mid[j]
    BY <2>3, <2>5
  <2>7. mid[k] \in History(e)
    BY <1>0, <1>a, <2>5, WriteTyped
  <2>8. CASE k = second.key
    <3>1. lt[k] = Replace(s, mid[k], second, e)
      BY <2>6, <2>8
    <3>2. Fresh(second)
      BY <2>7, <2>8, <3>1, WriteCurrent
    <3> QED BY <2>2, <3>2
  <2>9. CASE k # second.key
    <3>1. k = first.key /\ lt[k] = Replace(s, ls[k], first, e)
      BY <2>5, <2>6, <2>9
    <3>2. Fresh(first)
      BY <1>0, <3>1, WriteCurrent
    <3> QED BY <2>2, <3>2
  <2> QED BY <2>8, <2>9
<1>4. ASSUME NEW j \in Keys, DeletionOf(e, ls, c, lt, j) PROVE FALSE
  <2>1. k # j
    BY <1>4 DEF DeletionOf
  <2>2. lt[k] = ls[k]
    BY <1>4, <2>1 DEF DeletionOf, Stores
  <2> QED BY <2>2
<1>5. ASSUME NEW y \in Invalidation, StatusOf(e, ls, c, lt, y) PROVE FALSE
  <2>1. k # y.key
    BY <1>5 DEF StatusOf, HasFeature
  <2>2. lt[k] = ls[k]
    BY <1>5, <2>1 DEF StatusOf, Stores
  <2> QED BY <2>2
<1> QED BY <1>1, <1>2, <1>3, <1>4, <1>5 DEF WriteOf

-----------------------------------------------------------------------------
(* The schema that open ends up with *)

\* The last schema in the commits, or s.
SchemaOf(commits, s) ==
    LET i == SelectLastInSeq(commits, LAMBDA c : c.schemas # <<>>)
    IN  IF i = 0 THEN s ELSE Last(commits[i].schemas)

\* A commit without a schema does not change it, one with a schema sets it.
LEMMA SchemaAppend ==
    ASSUME NEW cs \in Seq(CommitRecord), NEW c \in CommitRecord, NEW s, NEW d
    PROVE  /\ SchemaOf(<<>>, s) = s
           /\ c.schemas = <<>> => SchemaOf(Append(cs, c), s) = SchemaOf(cs, s)
           /\ c.schemas = <<d>> => SchemaOf(Append(cs, c), s) = d
<1> DEFINE I(l) == {i \in 1..Len(l) : l[i].schemas # <<>>}
           m(l) == IF I(l) # {} THEN Max(I(l)) ELSE 0
<1>1. \A l : SchemaOf(l, s) = IF m(l) = 0 THEN s ELSE Last(l[m(l)].schemas)
  BY DEF SchemaOf, SelectLastInSeq
<1>2. SchemaOf(<<>>, s) = s
  <2>1. I(<<>>) = {}
    OBVIOUS
  <2>2. m(<<>>) = 0
    BY <2>1
  <2> QED BY <1>1, <2>2
<1>3. PICK more, N : more = Append(cs, c) /\ N = Len(cs)
  OBVIOUS
<1>4. /\ N \in Nat /\ Len(more) = N + 1 /\ more[N + 1] = c
      /\ \A i \in 1..N : more[i] = cs[i]
  BY <1>3
<1>5. I(cs) \in SUBSET (1..N)
  BY <1>3
<1>6. ASSUME c.schemas = <<>> PROVE SchemaOf(more, s) = SchemaOf(cs, s)
  <2>1. I(more) = I(cs)
    <3>1. \A i \in 1..(N + 1) : i \in 1..N \/ i = N + 1
      BY <1>4
    <3>2. \A i \in 1..N : i \in 1..(N + 1)
      BY <1>4
    <3> QED BY <1>3, <1>4, <1>6, <3>1, <3>2
  <2> HIDE DEF I
  <2>2. m(more) = m(cs)
    BY <2>1
  <2>3. m(cs) # 0 => m(cs) \in 1..N
    BY <1>4, <1>5, MaxOf
  <2> HIDE DEF m
  <2> QED BY <1>1, <1>4, <2>2, <2>3
<1>7. ASSUME c.schemas = <<d>> PROVE SchemaOf(more, s) = d
  <2>1. N + 1 \in I(more)
    <3>1. <<d>> # <<>>
      OBVIOUS
    <3>2. more[N + 1].schemas # <<>>
      BY <1>4, <1>7, <3>1
    <3>3. N + 1 \in 1..Len(more)
      BY <1>4
    <3> QED BY <3>2, <3>3
  <2>2. I(more) \in SUBSET (1..(N + 1)) /\ I(more) # {} /\ N + 1 \in Nat
    BY <1>4, <2>1
  <2> HIDE DEF I
  <2>3. PICK M : M = N + 1
    OBVIOUS
  <2>4. Max(I(more)) \in I(more) /\ \A i \in I(more) : i <= Max(I(more))
    <3>1. M \in Nat /\ I(more) \in SUBSET (1..M) /\ I(more) # {}
      BY <2>2, <2>3
    <3> QED BY <3>1, MaxOf
  <2>5. Max(I(more)) = N + 1
    BY <1>4, <2>1, <2>2, <2>4
  <2>6. m(more) = N + 1 /\ m(more) # 0
    BY <1>4, <2>2, <2>5
  <2> HIDE DEF m
  <2>7. Last(<<d>>) = d
    BY DEF Last
  <2> QED BY <1>1, <1>4, <1>7, <2>6, <2>7
<1> QED BY <1>2, <1>3, <1>6, <1>7

-----------------------------------------------------------------------------
(* The invariant of the store and its files *)

\* A write to the table.
WriteStep ==
    /\ schema # NoTable /\ schema' = schema
    /\ \E c, lt : WriteOf(schema, epoch + 1, records, c, lt) /\ Commit(c, lt)

\* The steps of the store.
LEMMA NextCases ==
    ASSUME Next
    PROVE  (\E d \in Schemas : ApplySchema(d)) \/ WriteStep \/ Checkpoint \/ Restart
<1>1. PICK s, e, ls : s = schema /\ e = epoch + 1 /\ ls = records
  OBVIOUS
<1>2. ASSUME NEW c, NEW lt, WriteOf(s, e, ls, c, lt), Commit(c, lt), schema # NoTable,
             schema' = schema
      PROVE  WriteStep
  BY <1>1, <1>2 DEF WriteStep
<1>3. ASSUME NEW in \in Input, Put(in) PROVE WriteStep
  <2>1. PICK c, lt : /\ c = [EmptyCommit(e) EXCEPT !.replacements = <<in>>,
                                                   !.invalidations = Invalidations(s, in)]
                     /\ lt = [ls EXCEPT ![in.key] = Replace(s, @, in, e)]
    OBVIOUS
  <2>2. c = CommitOf(e, <<in>>, <<>>, <<>>, Invalidations(s, in))
    BY <2>1 DEF EmptyCommit, CommitOf
  <2>3. schema # NoTable /\ DimensionsOK(s, in) /\ Commit(c, lt) /\ schema' = schema
    BY <1>1, <1>3, <2>1 DEF Put
  <2>4. PutOf(s, e, ls, c, lt, in)
    BY <2>1, <2>2, <2>3 DEF PutOf
  <2> QED BY <1>2, <2>3, <2>4 DEF WriteOf
<1>4. ASSUME NEW in \in Input, Insert(in) \/ Patch(in) PROVE WriteStep
  <2>1. PICK c, lt : /\ c = [EmptyCommit(e) EXCEPT !.mutations = <<in>>,
                                                   !.invalidations = Invalidations(s, in)]
                     /\ lt = [ls EXCEPT ![in.key] = Mutate(s, @, in, e)]
    OBVIOUS
  <2>2. c = CommitOf(e, <<>>, <<in>>, <<>>, Invalidations(s, in))
    BY <2>1 DEF EmptyCommit, CommitOf
  <2>3. schema # NoTable /\ DimensionsOK(s, in) /\ Commit(c, lt) /\ schema' = schema
    BY <1>1, <1>4, <2>1 DEF Insert, Patch, CommitMutation
  <2>4. MutationOf(s, e, ls, c, lt, in)
    BY <2>1, <2>2, <2>3 DEF MutationOf
  <2> QED BY <1>2, <2>3, <2>4 DEF WriteOf
<1>5. ASSUME NEW first \in Input, NEW second \in Input, PutBatch(first, second) PROVE WriteStep
  <2>1. PICK c, mid, lt :
          /\ c = [EmptyCommit(e) EXCEPT
                    !.replacements = <<first, second>>,
                    !.invalidations = Invalidations(s, first) \o Invalidations(s, second)]
          /\ mid = [ls EXCEPT ![first.key] = Replace(s, @, first, e)]
          /\ lt = [mid EXCEPT ![second.key] = Replace(s, @, second, e)]
    OBVIOUS
  <2>2. c = CommitOf(e, <<first, second>>, <<>>, <<>>,
                     Invalidations(s, first) \o Invalidations(s, second))
    BY <2>1 DEF EmptyCommit, CommitOf
  <2>3. /\ schema # NoTable /\ DimensionsOK(s, first) /\ DimensionsOK(s, second)
        /\ first.key # second.key \/ RepeatedKeys
        /\ Commit(c, lt) /\ schema' = schema
    BY <1>1, <1>5, <2>1 DEF PutBatch
  <2>4. BatchOf(s, e, ls, c, lt, first, second)
    BY <2>1, <2>2, <2>3 DEF BatchOf
  <2> QED BY <1>2, <2>3, <2>4 DEF WriteOf
<1>6. ASSUME NEW k \in Keys, DeleteRecord(k) PROVE WriteStep
  <2>1. PICK c, lt : /\ c = [EmptyCommit(e) EXCEPT !.deletions = <<k>>]
                     /\ lt = [ls EXCEPT ![k] = Delete(@, e)]
    OBVIOUS
  <2>2. c = CommitOf(e, <<>>, <<>>, <<k>>, <<>>)
    BY <2>1 DEF EmptyCommit, CommitOf
  <2>3. schema # NoTable /\ Current(ls[k]) # 0 /\ Commit(c, lt) /\ schema' = schema
    BY <1>1, <1>6, <2>1 DEF DeleteRecord
  <2>4. DeletionOf(e, ls, c, lt, k)
    BY <2>1, <2>2, <2>3 DEF DeletionOf
  <2> QED BY <1>2, <2>3, <2>4 DEF WriteOf
<1>7. ASSUME NEW k \in Keys, NEW st \in Statuses, SetFeatureStatus(k, st) PROVE WriteStep
  <2>0. PICK y : y = [key |-> k, status |-> st]
    OBVIOUS
  <2>a. y \in Invalidation /\ y.key = k /\ y.status = st
    BY <2>0 DEF Invalidation
  <2>1. PICK c, lt : /\ c = [EmptyCommit(e) EXCEPT !.invalidations = <<y>>]
                     /\ lt = [ls EXCEPT ![k] = SetStatus(@, st, e)]
    OBVIOUS
  <2>2. c = CommitOf(e, <<>>, <<>>, <<>>, <<y>>)
    BY <2>1 DEF EmptyCommit, CommitOf
  <2>3. schema # NoTable /\ HasFeature(ls[k]) /\ Commit(c, lt) /\ schema' = schema
    BY <1>1, <1>7, <2>0, <2>1 DEF SetFeatureStatus
  <2>4. StatusOf(e, ls, c, lt, y)
    BY <2>1, <2>2, <2>3, <2>a DEF StatusOf
  <2> QED BY <1>2, <2>3, <2>4, <2>a DEF WriteOf
<1> QED BY <1>3, <1>4, <1>5, <1>6, <1>7 DEF Next

\* NoTable is not a schema.
LEMMA NoTableFacts == NoTable \notin Schemas
BY StoreAssumption DEF NoTable

\* A commit of the next epoch keeps the invariant.
LEMMA CommitKeepsInv ==
    ASSUME StoreInv, NEW c \in CommitRecord, NEW rs, Commit(c, rs), c.epoch = epoch + 1,
           rs \in Stores(epoch + 1), schema' \in Schemas,
           (c.schemas = <<>> /\ schema' = schema) \/ c.schemas = <<schema'>>
    PROVE  StoreInv'
<1>1. /\ open' = open /\ epoch < MaxEpoch /\ log' = Append(log, c) /\ records' = rs
      /\ epoch' = epoch + 1 /\ base' = base
  BY DEF Commit
<1>2. PICK e, f : e = epoch /\ f = epoch + 1
  OBVIOUS
<1>3. e \in Epoch /\ f \in Epoch /\ e <= f /\ e \in Nat
  BY <1>1, <1>2, StoreAssumption DEF StoreInv, Epoch
<1>4. base \in [epoch : Nat, records : Stores(f)] /\ base.epoch \in Nat
  <2>1. Stores(e) \subseteq Stores(f)
    BY <1>3, HistoryGrows
  <2>2. base \in [epoch : Nat, records : Stores(e)]
    BY <1>2 DEF StoreInv
  <2> QED BY <2>1, <2>2
<1>5. PICK cs, more : cs = log /\ more = Append(log, c)
  OBVIOUS
<1>6. /\ cs \in Seq(CommitRecord) /\ Len(cs) \in Nat /\ base.epoch + Len(cs) = e
      /\ \A i \in 1..Len(cs) : cs[i].epoch = base.epoch + i
  BY <1>2, <1>5 DEF StoreInv
<1>7. /\ more \in Seq(CommitRecord) /\ Len(more) = Len(cs) + 1
      /\ more[Len(cs) + 1] = c /\ \A i \in 1..Len(cs) : more[i] = cs[i]
  BY <1>5, <1>6
<1>8. base.epoch + Len(more) = f
  BY <1>2, <1>3, <1>4, <1>6, <1>7
<1>9. \A i \in 1..Len(more) : more[i].epoch = base.epoch + i
  <2> SUFFICES ASSUME NEW i \in 1..(Len(cs) + 1) PROVE more[i].epoch = base.epoch + i
    BY <1>7
  <2>1. CASE i \in 1..Len(cs)
    BY <1>6, <1>7, <2>1
  <2>2. CASE i = Len(cs) + 1
    <3>1. c.epoch = f /\ f = base.epoch + i
      BY <1>2, <1>7, <1>8, <2>2
    <3> QED BY <1>7, <2>2, <3>1
  <2> QED BY <1>6, <2>1, <2>2
<1>10. ReplayedSchema' = schema'
  <2>1. ReplayedSchema = SchemaOf(log, schema)
    BY DEF ReplayedSchema, SchemaOf
  <2>2. ReplayedSchema' = SchemaOf(log', schema')
    BY DEF ReplayedSchema, SchemaOf, SelectLastInSeq
  <2>3. PICK s, t : s = schema /\ t = schema'
    OBVIOUS
  <2>4. SchemaOf(cs, s) = s
    BY <1>5, <2>1, <2>3 DEF StoreInv
  <2>5. (c.schemas = <<>> /\ t = s) \/ c.schemas = <<t>>
    BY <2>3
  <2>6. SchemaOf(Append(cs, c), t) = t
    BY <1>6, <2>4, <2>5, SchemaAppend
  <2> QED BY <1>1, <1>5, <2>2, <2>3, <2>6
<1>11. schema' # NoTable /\ schema' \in Schemas \cup {NoTable}
  BY NoTableFacts
<1>12. open' \in BOOLEAN
  BY <1>1 DEF StoreInv
<1> QED BY <1>1, <1>2, <1>3, <1>4, <1>5, <1>7, <1>8, <1>9, <1>10, <1>11, <1>12 DEF StoreInv

\* A replay of the files gives an outcome of the latest epoch, under any schema.
LEMMA ReplayOutcome ==
    ASSUME StoreInv, NEW d
    PROVE  /\ ApplyCommits(d, Applied(base.records), log) \in Outcomes(epoch)
           /\ Applied(base.records) \in Outcomes(epoch)
           /\ \A n \in 1..Len(log) : log[n].epoch <= epoch
           /\ epoch \in Epoch /\ log \in Seq(CommitRecord)
           /\ base.records \in Stores(epoch) /\ base.epoch \in Nat /\ base.epoch <= epoch
<1>1. PICK e, cs, bs, b : e = epoch /\ cs = log /\ bs = base.records /\ b = base.epoch
  OBVIOUS
<1>2. /\ e \in Epoch /\ e \in Nat /\ cs \in Seq(CommitRecord) /\ Len(cs) \in Nat
      /\ b \in Nat /\ b + Len(cs) = e
      /\ \A i \in 1..Len(cs) : cs[i].epoch = b + i
  BY <1>1, EpochFacts DEF StoreInv
<1>3. \A n \in 1..Len(cs) : cs[n].epoch <= e
  BY <1>2
<1>4. bs \in Stores(e)
  BY <1>1 DEF StoreInv
<1>5. Applied(bs) \in Outcomes(e)
  BY <1>4, AppliedParts
<1>6. ApplyCommits(d, Applied(bs), cs) \in Outcomes(e)
  BY <1>2, <1>3, <1>5, ReplayTyped
<1> QED BY <1>1, <1>2, <1>3, <1>4, <1>5, <1>6

\* A write keeps the types.
LEMMA WriteStepFacts ==
    ASSUME StoreInv, NEW c, NEW lt, WriteOf(schema, epoch + 1, records, c, lt), Commit(c, lt),
           NEW e, e = epoch + 1
    PROVE  /\ e \in Epoch /\ e \in 1..MaxEpoch /\ records \in Stores(e)
           /\ c \in CommitRecord /\ c.epoch = e /\ c.schemas = <<>> /\ lt \in Stores(e)
<1>1. epoch \in Epoch /\ epoch \in Nat /\ e \in Epoch /\ e \in 1..MaxEpoch /\ epoch <= e
  BY StoreAssumption DEF StoreInv, Commit, Epoch
<1>2. PICK p, ls, s : p = epoch /\ ls = records /\ s = schema
  OBVIOUS
<1>3. ls \in Stores(p) /\ Stores(p) \subseteq Stores(e)
  BY <1>1, <1>2, HistoryGrows DEF StoreInv
<1>4. ls \in Stores(e) /\ WriteOf(s, e, ls, c, lt)
  BY <1>2, <1>3
<1>5. c \in CommitRecord /\ c.epoch = e /\ c.schemas = <<>> /\ lt \in Stores(e)
  BY <1>1, <1>4, WriteTypes
<1> QED BY <1>1, <1>2, <1>4, <1>5

\* The invariant holds initially ...
LEMMA InvInit == Init => StoreInv
<1> SUFFICES ASSUME Init PROVE StoreInv
  OBVIOUS
<1>1. /\ epoch = 0 /\ schema = NoTable /\ records = NoRecords /\ log = <<>> /\ open = TRUE
      /\ base = [epoch |-> 0, records |-> NoRecords]
  BY DEF Init
<1>2. NoRecords \in Stores(0) /\ 0 \in Epoch
  BY NoVersions, EpochFacts
<1>3. ReplayedSchema = schema
  <2>1. ReplayedSchema = SchemaOf(log, schema)
    BY DEF ReplayedSchema, SchemaOf
  <2>2. \A s : SchemaOf(<<>>, s) = s
    BY DEF SchemaOf, SelectLastInSeq
  <2> QED BY <1>1, <2>1, <2>2
<1>4. base \in [epoch : Nat, records : Stores(epoch)] /\ base.records = NoRecords
  BY <1>1, <1>2
<1>5. /\ base.epoch + Len(log) = epoch /\ log \in Seq(CommitRecord)
      /\ \A i \in 1..Len(log) : log[i].epoch = base.epoch + i
  BY <1>1
<1> QED BY <1>1, <1>2, <1>3, <1>4, <1>5 DEF StoreInv

\* The commit of a schema.
SchemaCommit(e, d) ==
    [epoch |-> e, schemas |-> <<d>>, replacements |-> <<>>, mutations |-> <<>>,
     deletions |-> <<>>, invalidations |-> <<>>]

\* Its fields.
LEMMA SchemaCommitFields ==
    ASSUME NEW e \in 1..MaxEpoch, NEW d \in Schemas, NEW c, c = SchemaCommit(e, d)
    PROVE  /\ c \in CommitRecord /\ c.epoch = e /\ c.schemas = <<d>>
           /\ c.replacements = <<>> /\ c.mutations = <<>> /\ c.deletions = <<>>
           /\ c.invalidations = <<>>
<1>1. /\ <<d>> \in Seq(Schemas) /\ <<>> \in Seq(Input) /\ <<>> \in Seq(Keys)
      /\ <<>> \in Seq(Invalidation)
  OBVIOUS
<1>2. c \in CommitRecord
  BY <1>1 DEF CommitRecord, SchemaCommit
<1>3. /\ c.epoch = e /\ c.schemas = <<d>>
      /\ c.replacements = <<>> /\ c.mutations = <<>> /\ c.deletions = <<>>
      /\ c.invalidations = <<>>
  BY DEF SchemaCommit
<1> QED BY <1>2, <1>3

\* A step that applies a schema.
LEMMA SchemaStepFacts ==
    ASSUME StoreInv, NEW d \in Schemas, ApplySchema(d)
    PROVE  \E c \in CommitRecord :
             /\ Commit(c, records) /\ c.epoch = epoch + 1 /\ c.schemas = <<d>> /\ schema' = d
             /\ c.replacements = <<>> /\ c.mutations = <<>> /\ c.deletions = <<>>
             /\ c.invalidations = <<>>
             /\ epoch + 1 \in Epoch /\ records \in Stores(epoch + 1)
<1>1. PICK e, p : e = epoch + 1 /\ p = epoch
  OBVIOUS
<1>a. PICK c : c = [EmptyCommit(e) EXCEPT !.schemas = <<d>>]
  OBVIOUS
<1>2. Commit(c, records) /\ schema' = d
  BY <1>1, <1>a DEF ApplySchema
<1>b. c = SchemaCommit(e, d)
  BY <1>a DEF EmptyCommit, SchemaCommit
<1>3. p \in Epoch /\ e \in Epoch /\ e \in 1..MaxEpoch /\ p <= e
  BY <1>1, <1>2, StoreAssumption DEF StoreInv, Commit, Epoch
<1>4. Stores(p) \subseteq Stores(e) /\ records \in Stores(p)
  BY <1>1, <1>3, HistoryGrows DEF StoreInv
<1>5. /\ c \in CommitRecord /\ c.epoch = e /\ c.schemas = <<d>>
      /\ c.replacements = <<>> /\ c.mutations = <<>> /\ c.deletions = <<>>
      /\ c.invalidations = <<>>
  BY <1>3, <1>b, SchemaCommitFields
<1> QED BY <1>1, <1>2, <1>3, <1>4, <1>5

\* What open rebuilds, and the schema it ends up with.
LEMMA RestartFacts ==
    ASSUME StoreInv, Restart
    PROVE  /\ open /\ schema' = schema /\ epoch' = epoch /\ base' = base /\ log' = log
           /\ \E o \in Outcomes(epoch) :
                /\ o = ApplyCommits(schema, Applied(base.records), log)
                /\ open' = o.ok /\ records' = o.records
                /\ schema = NoTable => o = Applied(NoRecords) /\ records = NoRecords
                                       /\ log = <<>>
<1>1. /\ open /\ schema' = ReplayedSchema /\ epoch' = epoch /\ base' = base /\ log' = log
      /\ open' = Replayed.ok /\ records' = Replayed.records /\ ReplayedSchema = schema
  BY DEF Restart, StoreInv
<1>2. PICK o : o = ApplyCommits(schema, Applied(base.records), log)
  OBVIOUS
<1>3. Replayed = o
  BY <1>1, <1>2 DEF Replayed
<1>4. o \in Outcomes(epoch)
  BY <1>2, ReplayOutcome
<1>5. schema = NoTable => o = Applied(NoRecords) /\ records = NoRecords /\ log = <<>>
  <2> SUFFICES ASSUME schema = NoTable
               PROVE  o = Applied(NoRecords) /\ records = NoRecords /\ log = <<>>
    OBVIOUS
  <2>1. log = <<>> /\ base.records = NoRecords /\ records = NoRecords
    BY DEF StoreInv
  <2>2. PICK d, r, cs : d = schema /\ r = Applied(base.records) /\ cs = log
    OBVIOUS
  <2>3. Len(cs) = 0
    BY <2>1, <2>2
  <2>4. ApplyCommits(d, r, cs) = r
    BY <2>3, CommitsNone
  <2> QED BY <1>2, <2>1, <2>2, <2>4
<1> QED BY <1>1, <1>2, <1>3, <1>4, <1>5

\* ... and every step keeps it.
LEMMA InvNext == StoreInv /\ [Next]_vars => StoreInv'
<1> SUFFICES ASSUME StoreInv, [Next]_vars PROVE StoreInv'
  OBVIOUS
<1>1. ASSUME NEW d \in Schemas, ApplySchema(d) PROVE StoreInv'
  <2>1. PICK c \in CommitRecord :
          /\ Commit(c, records) /\ c.epoch = epoch + 1 /\ c.schemas = <<d>> /\ schema' = d
          /\ records \in Stores(epoch + 1)
    BY <1>1, SchemaStepFacts
  <2>2. c.schemas = <<schema'>> /\ schema' \in Schemas
    BY <2>1
  <2>3. PICK rs : rs = records
    OBVIOUS
  <2>4. Commit(c, rs) /\ rs \in Stores(epoch + 1)
    BY <2>1, <2>3
  <2> QED BY <2>1, <2>2, <2>4, CommitKeepsInv
<1>2. CASE WriteStep
  <2>1. PICK c, lt : WriteOf(schema, epoch + 1, records, c, lt) /\ Commit(c, lt)
    BY <1>2 DEF WriteStep
  <2>2. PICK e : e = epoch + 1
    OBVIOUS
  <2>3. c \in CommitRecord /\ c.epoch = e /\ c.schemas = <<>> /\ lt \in Stores(e)
    BY <2>1, <2>2, WriteStepFacts
  <2>4. schema' = schema /\ schema' \in Schemas
    BY <1>2 DEF WriteStep, StoreInv
  <2>5. c.epoch = epoch + 1 /\ lt \in Stores(epoch + 1)
    BY <2>2, <2>3
  <2> QED BY <2>1, <2>3, <2>4, <2>5, CommitKeepsInv
<1>3. CASE Checkpoint
  <2>1. /\ base' = [epoch |-> epoch, records |-> CheckpointRecords(records, epoch)]
        /\ log' = <<>> /\ epoch' = epoch /\ schema' = schema /\ records' = records /\ open' = open
    BY <1>3 DEF Checkpoint
  <2>2. PICK e, rs, ck : e = epoch /\ rs = records /\ ck = CheckpointRecords(rs, e)
    OBVIOUS
  <2>3. e \in Epoch /\ e \in Nat /\ rs \in Stores(e)
    BY <2>2, EpochFacts DEF StoreInv
  <2>4. ck \in Stores(e)
    BY <2>2, <2>3, CheckpointEnd
  <2>5. base' = [epoch |-> e, records |-> ck]
    BY <2>1, <2>2
  <2>6. /\ base' \in [epoch : Nat, records : Stores(e)] /\ base'.epoch + Len(log') = e
        /\ log' \in Seq(CommitRecord) /\ \A i \in 1..Len(log') : log'[i].epoch = base'.epoch + i
        /\ base'.records = ck
    BY <2>1, <2>3, <2>4, <2>5
  <2>7. rs = NoRecords => ck = NoRecords
    <3> SUFFICES ASSUME rs = NoRecords PROVE ck = NoRecords
      OBVIOUS
    <3>1. \A k \in Keys : rs[k] = <<>>
      BY DEF NoRecords
    <3>2. ck = [k \in Keys |-> <<>>]
      BY <2>2, <3>1 DEF CheckpointRecords, SelectLastInSeq
    <3> QED BY <3>2 DEF NoRecords
  <2>8. ReplayedSchema' = schema'
    <3>1. ReplayedSchema' = SchemaOf(log', schema')
      BY DEF ReplayedSchema, SchemaOf, SelectLastInSeq
    <3>2. \A s : SchemaOf(<<>>, s) = s
      BY DEF SchemaOf, SelectLastInSeq
    <3> QED BY <2>1, <3>1, <3>2
  <2> QED BY <2>1, <2>2, <2>6, <2>7, <2>8 DEF StoreInv
<1>4. CASE Restart
  <2>1. /\ schema' = schema /\ epoch' = epoch /\ base' = base /\ log' = log
    BY <1>4, RestartFacts
  <2>2. PICK o \in Outcomes(epoch) :
          /\ open' = o.ok /\ records' = o.records
          /\ schema = NoTable => o = Applied(NoRecords)
    BY <1>4, RestartFacts
  <2>3. o.ok \in BOOLEAN /\ o.records \in Stores(epoch)
    BY <2>2, OutcomeParts
  <2>4. schema = NoTable => records' = NoRecords
    BY <2>2 DEF Applied
  <2>5. ReplayedSchema' = ReplayedSchema
    BY <2>1 DEF ReplayedSchema, SelectLastInSeq
  <2> QED BY <2>1, <2>2, <2>3, <2>4, <2>5 DEF StoreInv
<1>5. CASE UNCHANGED vars
  <2>1. /\ epoch' = epoch /\ schema' = schema /\ records' = records /\ base' = base
        /\ log' = log /\ open' = open
    BY <1>5 DEF vars
  <2>2. ReplayedSchema' = ReplayedSchema
    BY <2>1 DEF ReplayedSchema, SelectLastInSeq
  <2> QED BY <2>1, <2>2 DEF StoreInv
<1> QED BY <1>1, <1>2, <1>3, <1>4, <1>5, NextCases

\* The files and the store are consistent in every state.
LEMMA StoreInvariant == Spec => []StoreInv
BY InvInit, InvNext, PTL DEF Spec

-----------------------------------------------------------------------------
(* Types and chains *)

\* Types: every version, feature and commit has its type, and none is dated
\* after the latest epoch, through writes, checkpoints and restarts; for every
\* set of keys, bodies, dimensions and schemas and any number of commits.
THEOREM StoreTypes == Spec => []TypeOK
<1>1. StoreInv => TypeOK
  <2> SUFFICES ASSUME StoreInv PROVE TypeOK
    OBVIOUS
  <2>1. PICK e, b, cs, rs : e = epoch /\ b = base.epoch /\ cs = log /\ rs = records
    OBVIOUS
  <2>2. e \in Nat /\ b \in Nat /\ Len(cs) \in Nat /\ b + Len(cs) = e
    BY <2>1, EpochFacts DEF StoreInv
  <2>3. b \in 0..e
    BY <2>2
  <2>4. \A i \in 1..Len(cs) : cs[i].epoch = e - Len(cs) + i
    <3>1. \A i \in 1..Len(cs) : cs[i].epoch = b + i
      BY <2>1 DEF StoreInv
    <3>2. b = e - Len(cs)
      BY <2>2
    <3> QED BY <3>1, <3>2
  <2>5. \A k \in Keys : rs[k] \in History(e)
    BY <2>1 DEF StoreInv, Stores
  <2>6. \A k \in Keys : \A i \in 1..Len(rs[k]) :
          rs[k][i] \in StoredVersion /\ rs[k][i].begin <= e /\ rs[k][i].end <= e
    BY <2>5, HistoryFacts
  <2> QED BY <2>1, <2>3, <2>4, <2>6 DEF TypeOK, StoreInv
<1> QED BY <1>1, StoreInvariant, PTL

\* The versions of a record are one chain, each ending where the next begins,
\* whatever replacements, merges, deletes, batches, status changes, checkpoints
\* and replays made them (RecordStore::apply_replacement, apply_mutation,
\* apply_delete, and their replay).
THEOREM ChainsUnbroken == Spec => []VersionChain
<1>1. StoreInv => VersionChain
  BY DEF StoreInv, Stores, History, Chain, VersionChain
<1> QED BY <1>1, StoreInvariant, PTL

-----------------------------------------------------------------------------
(* Replay *)

\* Every schema that was applied is the same one.
OneSchema == \A c, d \in Schemas : c = d

\* Under every schema, a replay of cs on top of bs shows the store ls.
AllShow(x, bs, cs, ls, cut, b) ==
    \A d \in Schemas : Shows(x, ApplyCommits(d, Applied(bs), cs), ls, cut, b)

\* Two replays that show the same store show each other.
LEMMA EndTrans ==
    ASSUME NEW x, NEW E \in Epoch, NEW r \in History(E), NEW q \in History(E), NEW l \in History(E),
           NEW n \in Nat, NEW b, EndOf(x, r, l, n, b), EndOf(x, q, l, n, b)
    PROVE  EndOf(x, r, q, 0, b)
<1>1. PICK R, Q, L : R = Len(r) /\ Q = Len(q) /\ L = Len(l)
  OBVIOUS
<1>2. /\ R \in Nat /\ Q \in Nat /\ L = R + n /\ L = Q + n
      /\ \A i \in 1..R : Alike(x, r[i], l[i + n])
      /\ \A i \in 1..Q : Alike(x, q[i], l[i + n])
  BY <1>1, HistoryFacts DEF EndOf
<1>3. Q = R
  BY <1>2
<1>4. \A i \in 1..R : Alike(x, r[i], q[i])
  BY <1>2, <1>3 DEF Alike
<1>5. \A i \in 1..R : i + 0 = i
  BY <1>2
<1>6. Len(q) = Len(r) + 0 /\ \A i \in 1..0 : FALSE
  BY <1>1, <1>2, <1>3
<1> QED BY <1>1, <1>4, <1>5, <1>6 DEF EndOf

\* A store without records shows itself.
LEMMA NothingShown ==
    ASSUME NEW x, NEW b
    PROVE  Shows(x, Applied(NoRecords), NoRecords, [k \in Keys |-> 0], b)
<1>1. EndOf(x, <<>>, <<>>, 0, b)
  BY DEF EndOf
<1>2. Applied(NoRecords).ok /\ Applied(NoRecords).records = NoRecords
  BY DEF Applied
<1>3. \A k \in Keys : NoRecords[k] = <<>>
  BY DEF NoRecords
<1> QED BY <1>1, <1>2, <1>3 DEF Shows

\* Initially there is nothing to replay.
LEMMA ReplayInit ==
    ASSUME NEW x, Init
    PROVE  ReplayInv(x)
<1>1. open = TRUE /\ log = <<>> /\ records = NoRecords /\ base.records = NoRecords
  BY DEF Init
<1>2. PICK cut, b, cs : cut = [k \in Keys |-> 0] /\ b = base.epoch /\ cs = log
  OBVIOUS
<1>3. cut \in [Keys -> Nat] /\ Len(cs) = 0
  BY <1>1, <1>2
<1>4. Shows(x, Applied(NoRecords), NoRecords, cut, b)
  BY <1>2, NothingShown
<1>5. \A d \in Schemas : ApplyCommits(d, Applied(NoRecords), cs) = Applied(NoRecords)
  BY <1>3, CommitsNone
<1>6. \A d \in Schemas : Shows(x, ApplyCommits(d, Applied(base.records), log), records, cut, base.epoch)
  BY <1>1, <1>2, <1>4, <1>5
<1> QED BY <1>1, <1>3, <1>6 DEF ReplayInv

\* The steps keep what a replay shows; that it comes to its end (x) needs one
\* schema and batches without repeated keys.
LEMMA ReplayNext ==
    ASSUME NEW x \in BOOLEAN, StoreInv, ReplayInv(x), [Next]_vars,
           x => OneSchema, x => ~RepeatedKeys
    PROVE  ReplayInv(x)'
<1>0. ReplayInv(x)' <=>
        /\ x => open'
        /\ open' => \E cut \in [Keys -> Nat] :
                      AllShow(x, base'.records, log', records', cut, base'.epoch)
  BY DEF ReplayInv, AllShow
<1>a. PICK s, p, ls, bs, b, cs :
        /\ s = schema /\ p = epoch /\ ls = records /\ bs = base.records /\ b = base.epoch
        /\ cs = log
  OBVIOUS
<1>b. /\ \A d : ApplyCommits(d, Applied(bs), cs) \in Outcomes(p)
      /\ p \in Epoch /\ cs \in Seq(CommitRecord) /\ ls \in Stores(p) /\ b \in Nat
  BY <1>a, ReplayOutcome DEF StoreInv
<1>c. /\ x => open
      /\ open => \E cut \in [Keys -> Nat] : AllShow(x, bs, cs, ls, cut, b)
  BY <1>a DEF ReplayInv, AllShow
<1>1. ASSUME NEW d0 \in Schemas, ApplySchema(d0) PROVE ReplayInv(x)'
  <2>1. PICK c \in CommitRecord :
          /\ Commit(c, records)
          /\ c.replacements = <<>> /\ c.mutations = <<>> /\ c.deletions = <<>>
          /\ c.invalidations = <<>>
    BY <1>1, SchemaStepFacts
  <2>2. open /\ open' = open /\ base' = base /\ log' = Append(cs, c) /\ records' = ls
    BY <1>a, <2>1 DEF Commit
  <2>3. PICK cut \in [Keys -> Nat] : AllShow(x, bs, cs, ls, cut, b)
    BY <1>c, <2>2
  <2>4. \A d \in Schemas : ApplyCommits(d, Applied(bs), Append(cs, c)) = ApplyCommits(d, Applied(bs), cs)
    BY <1>b, <2>1, CommitsAppend, SchemaCommitShown
  <2>5. AllShow(x, bs, Append(cs, c), ls, cut, b)
    BY <2>3, <2>4 DEF AllShow
  <2>6. AllShow(x, base'.records, log', records', cut, base'.epoch)
    BY <1>a, <2>2, <2>5
  <2> QED BY <1>0, <2>2, <2>6
<1>2. CASE WriteStep
  <2>1. PICK c, lt : WriteOf(schema, epoch + 1, records, c, lt) /\ Commit(c, lt)
    BY <1>2 DEF WriteStep
  <2>2. PICK e : e = epoch + 1
    OBVIOUS
  <2>3. /\ e \in Epoch /\ e \in 1..MaxEpoch /\ ls \in Stores(e)
        /\ c \in CommitRecord /\ WriteOf(s, e, ls, c, lt)
    BY <1>a, <2>1, <2>2, WriteStepFacts
  <2>4. open /\ open' = open /\ base' = base /\ log' = Append(cs, c) /\ records' = lt
    BY <1>a, <2>1 DEF Commit
  <2>5. PICK cut \in [Keys -> Nat] : AllShow(x, bs, cs, ls, cut, b)
    BY <1>c, <2>4
  <2>6. s \in Schemas
    BY <1>2, <1>a DEF WriteStep, StoreInv
  <2>7. Outcomes(p) \subseteq Outcomes(e)
    <3>1. p <= e
      BY <1>a, <1>b, <2>2, EpochFacts
    <3>2. Stores(p) \subseteq Stores(e)
      BY <1>b, <2>3, <3>1, HistoryGrows
    <3> QED BY <3>2 DEF Outcomes
  <2>8. ASSUME NEW d \in Schemas
        PROVE  Shows(x, ApplyCommits(d, Applied(bs), Append(cs, c)), lt, cut, b)
    <3>1. PICK o : o = ApplyCommits(d, Applied(bs), cs)
      OBVIOUS
    <3>2. o \in Outcomes(e) /\ Shows(x, o, ls, cut, b)
      BY <1>b, <2>5, <2>7, <3>1 DEF AllShow
    <3>3. x => s = d
      BY <2>6 DEF OneSchema
    <3>4. Shows(x, ApplyCommit(d, o, c), lt, cut, b)
      BY <2>3, <3>2, <3>3, WriteShown
    <3>5. ApplyCommits(d, Applied(bs), Append(cs, c)) = ApplyCommit(d, o, c)
      BY <1>b, <2>3, <3>1, CommitsAppend
    <3> QED BY <3>4, <3>5
  <2>9. AllShow(x, bs, Append(cs, c), lt, cut, b)
    BY <2>8 DEF AllShow
  <2>10. AllShow(x, base'.records, log', records', cut, base'.epoch)
    BY <1>a, <2>4, <2>9
  <2> QED BY <1>0, <2>4, <2>10
<1>3. CASE Checkpoint
  <2>1. /\ base' = [epoch |-> epoch, records |-> CheckpointRecords(records, epoch)]
        /\ log' = <<>> /\ records' = records /\ open' = open /\ open
    BY <1>3 DEF Checkpoint
  <2>2. PICK ck, none : ck = CheckpointRecords(ls, p) /\ none = <<>>
    OBVIOUS
  <2>3. PICK cut \in [Keys -> Nat] : \A k \in Keys, y \in BOOLEAN : EndOf(y, ck[k], ls[k], cut[k], p)
    BY <1>b, <2>2, CheckpointEnd
  <2>4. \A d \in Schemas : ApplyCommits(d, Applied(ck), none) = Applied(ck)
    <3>1. Len(none) = 0
      BY <2>2
    <3> QED BY <3>1, CommitsNone
  <2>5. Applied(ck).ok /\ Applied(ck).records = ck
    BY DEF Applied
  <2>6. Shows(x, Applied(ck), ls, cut, p)
    BY <2>3, <2>5 DEF Shows
  <2>7. AllShow(x, ck, none, ls, cut, p)
    BY <2>4, <2>6 DEF AllShow
  <2>8. base'.records = ck /\ base'.epoch = p /\ log' = none /\ records' = ls
    BY <1>a, <2>1, <2>2
  <2>9. AllShow(x, base'.records, log', records', cut, base'.epoch)
    BY <2>7, <2>8
  <2> QED BY <1>0, <2>1, <2>9
<1>4. CASE Restart
  <2>1. open /\ base' = base /\ log' = log
    BY <1>4, RestartFacts
  <2>2. PICK o \in Outcomes(epoch) :
          /\ o = ApplyCommits(schema, Applied(base.records), log)
          /\ open' = o.ok /\ records' = o.records
          /\ schema = NoTable => o = Applied(NoRecords) /\ records = NoRecords /\ log = <<>>
    BY <1>4, RestartFacts
  <2>a. o = ApplyCommits(s, Applied(bs), cs) /\ o \in Outcomes(p) /\ o.records \in Stores(p)
    BY <1>a, <2>2, OutcomeParts
  <2>3. PICK cut \in [Keys -> Nat] : AllShow(x, bs, cs, ls, cut, b)
    BY <1>c, <2>1
  <2>4. PICK zero, rt : zero = [k \in Keys |-> 0] /\ rt = o.records
    OBVIOUS
  <2>5. zero \in [Keys -> Nat] /\ \A k \in Keys : zero[k] = 0
    BY <2>4
  <2>6. CASE schema = NoTable
    <3>1. o = Applied(NoRecords) /\ o.ok /\ rt = NoRecords /\ bs = NoRecords /\ Len(cs) = 0
      BY <1>a, <2>2, <2>4, <2>6 DEF Applied, StoreInv
    <3>2. \A d \in Schemas : ApplyCommits(d, Applied(bs), cs) = Applied(NoRecords)
      BY <3>1, CommitsNone
    <3>3. Shows(x, Applied(NoRecords), NoRecords, zero, b)
      BY <2>4, NothingShown
    <3>4. AllShow(x, bs, cs, rt, zero, b)
      BY <3>1, <3>2, <3>3 DEF AllShow
    <3>5. AllShow(x, base'.records, log', records', zero, base'.epoch)
      BY <1>a, <2>1, <2>2, <2>4, <3>4
    <3> QED BY <1>0, <2>2, <2>5, <3>1, <3>5
  <2>7. CASE schema # NoTable
    <3>1. s \in Schemas
      BY <1>a, <2>7 DEF StoreInv
    <3>2. Shows(x, o, ls, cut, b)
      BY <2>3, <2>a, <3>1 DEF AllShow
    <3>3. x => o.ok
      BY <3>2 DEF Shows
    <3>4. ASSUME o.ok, NEW d \in Schemas
          PROVE  Shows(x, ApplyCommits(d, Applied(bs), cs), rt, zero, b)
      <4>1. PICK q : q = ApplyCommits(d, Applied(bs), cs)
        OBVIOUS
      <4>2. q \in Outcomes(p) /\ Shows(x, q, ls, cut, b)
        BY <1>b, <2>3, <4>1 DEF AllShow
      <4>3. ASSUME q.ok, NEW k \in Keys PROVE EndOf(x, q.records[k], rt[k], zero[k], b)
        <5>1. PICK v, w, l, n : v = q.records[k] /\ w = rt[k] /\ l = ls[k] /\ n = cut[k]
          OBVIOUS
        <5>2. EndOf(x, v, l, n, b) /\ EndOf(x, w, l, n, b)
          BY <2>4, <3>2, <3>4, <4>2, <4>3, <5>1 DEF Shows
        <5>3. v \in History(p) /\ w \in History(p) /\ l \in History(p) /\ n \in Nat
          BY <1>b, <2>4, <2>a, <4>2, <5>1, OutcomeParts DEF Stores
        <5>4. EndOf(x, v, w, 0, b)
          BY <1>b, <5>2, <5>3, EndTrans
        <5> QED BY <2>5, <5>1, <5>4
      <4>4. x => q.ok
        BY <4>2 DEF Shows
      <4>5. Shows(x, q, rt, zero, b)
        BY <4>3, <4>4 DEF Shows
      <4> QED BY <4>1, <4>5
    <3>5. o.ok => AllShow(x, bs, cs, rt, zero, b)
      BY <3>4 DEF AllShow
    <3>6. o.ok => AllShow(x, base'.records, log', records', zero, base'.epoch)
      BY <1>a, <2>1, <2>2, <2>4, <3>5
    <3> QED BY <1>0, <2>2, <2>5, <3>3, <3>6
  <2> QED BY <2>6, <2>7
<1>5. CASE UNCHANGED vars
  <2>1. open' = open /\ records' = records /\ base' = base /\ log' = log
    BY <1>5 DEF vars
  <2> QED BY <2>1 DEF ReplayInv
<1> QED BY <1>1, <1>2, <1>3, <1>4, <1>5, NextCases

\* What holds of the replay in every state.
LEMMA ReplayKept == Spec => []ReplayInv(FALSE)
<1>1. Init => ReplayInv(FALSE)
  BY ReplayInit
<1>2. StoreInv /\ ReplayInv(FALSE) /\ [Next]_vars => ReplayInv(FALSE)'
  BY ReplayNext
<1> QED BY <1>1, <1>2, StoreInvariant, PTL DEF Spec

\* With one schema and no repeated keys, it also comes to its end.
LEMMA ReplayComplete ==
    ASSUME OneSchema, ~RepeatedKeys
    PROVE  Spec => []ReplayInv(TRUE)
<1>1. Init => ReplayInv(TRUE)
  BY ReplayInit
<1>2. StoreInv /\ ReplayInv(TRUE) /\ [Next]_vars => ReplayInv(TRUE)'
  BY ReplayNext
<1> QED BY <1>1, <1>2, StoreInvariant, PTL DEF Spec

\* Recovery is faithful: if only one schema is ever applied and no batch names a
\* record twice, replaying the WAL on top of the checkpoint (apply_commits) never
\* fails and, at every epoch from the checkpoint on, shows every record as the
\* live store shows it, features included.  Without either of the two the code
\* has no such guarantee: all commits are replayed under the last schema, and
\* the invalidation for the first of two versions of a record in a batch is
\* applied to the second.
THEOREM RecoveryFaithful ==
    ASSUME OneSchema, ~RepeatedKeys
    PROVE  Spec => []ReplayMatchesLive
<1>1. StoreInv /\ ReplayInv(TRUE) => ReplayMatchesLive
  <2> SUFFICES ASSUME StoreInv, ReplayInv(TRUE) PROVE ReplayMatchesLive
    OBVIOUS
  <2>1. PICK s, p, ls, bs, b, cs :
          /\ s = schema /\ p = epoch /\ ls = records /\ bs = base.records /\ b = base.epoch
          /\ cs = log
    OBVIOUS
  <2>2. /\ \A d : ApplyCommits(d, Applied(bs), cs) \in Outcomes(p)
        /\ p \in Epoch /\ ls \in Stores(p) /\ b \in Nat
    BY <2>1, ReplayOutcome DEF StoreInv
  <2>3. PICK o : o = ApplyCommits(s, Applied(bs), cs)
    OBVIOUS
  <2>4. Replayed = o
    BY <2>1, <2>3 DEF Replayed, StoreInv
  <2>5. o.ok /\ \A k \in Keys, e \in b..p : VisibleAt(o.records[k], e) = VisibleAt(ls[k], e)
    <3>1. CASE s = NoTable
      <4>1. Len(cs) = 0 /\ bs = NoRecords /\ ls = NoRecords
        BY <2>1, <3>1 DEF StoreInv
      <4>2. o = Applied(NoRecords)
        BY <2>3, <4>1, CommitsNone
      <4> QED BY <4>1, <4>2 DEF Applied
    <3>2. CASE s # NoTable
      <4>1. s \in Schemas
        BY <2>1, <3>2 DEF StoreInv
      <4>2. PICK cut \in [Keys -> Nat] : Shows(TRUE, o, ls, cut, b)
        BY <2>1, <2>3, <4>1 DEF ReplayInv
      <4>3. o.ok /\ \A k \in Keys : EndOf(TRUE, o.records[k], ls[k], cut[k], b)
        BY <4>2 DEF Shows
      <4>4. ASSUME NEW k \in Keys, NEW e \in b..p
            PROVE  VisibleAt(o.records[k], e) = VisibleAt(ls[k], e)
        <5>1. PICK r, l, n : r = o.records[k] /\ l = ls[k] /\ n = cut[k]
          OBVIOUS
        <5>2. r \in History(p) /\ l \in History(p) /\ n \in Nat /\ EndOf(TRUE, r, l, n, b)
          BY <2>2, <2>3, <4>3, <5>1, OutcomeParts DEF Stores
        <5>3. e \in Nat /\ b <= e
          BY <2>2, EpochFacts
        <5>4. PICK y : y = TRUE
          OBVIOUS
        <5>5. EndOf(y, r, l, n, b)
          BY <5>2, <5>4
        <5>6. /\ Fields(VisibleAt(r, e)) = Fields(VisibleAt(l, e))
              /\ y => VisibleAt(r, e) = VisibleAt(l, e)
          BY <2>2, <5>2, <5>3, <5>5, EndSeen
        <5>7. VisibleAt(r, e) = VisibleAt(l, e)
          BY <5>4, <5>6
        <5> QED BY <5>1, <5>7
      <4> QED BY <4>3, <4>4
    <3> QED BY <3>1, <3>2
  <2> QED BY <2>1, <2>4, <2>5 DEF ReplayMatchesLive
<1> QED BY <1>1, StoreInvariant, ReplayComplete, PTL

-----------------------------------------------------------------------------
(* Source hashes, in every state *)

\* Either no schema has a vector column, or all of them have.
VectorColumnStays == \A c, d \in Schemas : c = 0 <=> d = 0

\* Every version, live or in the checkpoint, has the feature that its schema
\* asks for.
SoundInv ==
    schema # NoTable =>
        SoundStore(schema = 0, records) /\ SoundStore(schema = 0, base.records)

\* A checkpoint of a sound store is sound.
LEMMA CheckpointSound ==
    ASSUME NEW e \in Epoch, NEW rs \in Stores(e), NEW z, SoundStore(z, rs)
    PROVE  SoundStore(z, CheckpointRecords(rs, e))
<1>1. PICK ck : ck = CheckpointRecords(rs, e)
  OBVIOUS
<1>2. ck \in Stores(e) /\ \E cut \in [Keys -> Nat] : \A k \in Keys, x \in BOOLEAN :
        EndOf(x, ck[k], rs[k], cut[k], e)
  BY <1>1, CheckpointEnd
<1>3. PICK cut \in [Keys -> Nat] : \A k \in Keys, x \in BOOLEAN : EndOf(x, ck[k], rs[k], cut[k], e)
  BY <1>2
<1>4. ASSUME NEW k \in Keys, NEW i \in 1..Len(ck[k]) PROVE Sound(z, ck[k][i])
  <2>1. PICK r, l, n, y : r = ck[k] /\ l = rs[k] /\ n = cut[k] /\ y = TRUE
    OBVIOUS
  <2>2. EndOf(y, r, l, n, e) /\ n \in Nat /\ r \in History(e) /\ i \in 1..Len(r)
    BY <1>2, <1>3, <1>4, <2>1 DEF Stores
  <2>3. Len(r) \in Nat
    BY <2>2, HistoryFacts
  <2>4. i + n \in 1..Len(l) /\ Alike(y, r[i], l[i + n])
    BY <2>2, <2>3 DEF EndOf
  <2>5. Sound(z, l[i + n])
    BY <2>1, <2>4 DEF SoundStore, SoundList
  <2>6. r[i].feat = l[i + n].feat /\ r[i].body = l[i + n].body
    BY <2>1, <2>4 DEF Alike
  <2>7. Sound(z, r[i])
    BY <2>5, <2>6 DEF Sound
  <2> QED BY <2>1, <2>7
<1>5. SoundStore(z, ck)
  BY <1>4 DEF SoundStore, SoundList
<1> QED BY <1>1, <1>5

\* The steps keep the features sound.
LEMMA SoundNext ==
    ASSUME VectorColumnStays, StoreInv, SoundInv, [Next]_vars
    PROVE  SoundInv'
<1>0. SoundInv' <=> (schema' # NoTable => SoundStore(schema' = 0, records')
                                            /\ SoundStore(schema' = 0, base'.records))
  BY DEF SoundInv, SoundStore, SoundList
<1>a. PICK s, p, ls, bs, cs : s = schema /\ p = epoch /\ ls = records /\ bs = base.records /\ cs = log
  OBVIOUS
<1>b. p \in Epoch /\ ls \in Stores(p) /\ bs \in Stores(p) /\ s \in Schemas \cup {NoTable}
  BY <1>a DEF StoreInv
<1>c. s # NoTable => SoundStore(s = 0, ls) /\ SoundStore(s = 0, bs)
  BY <1>a DEF SoundInv
<1>1. ASSUME NEW d \in Schemas, ApplySchema(d) PROVE SoundInv'
  <2>1. schema' = d /\ records' = ls /\ base'.records = bs
    BY <1>1, <1>a DEF ApplySchema, Commit
  <2>2. CASE s = NoTable
    <3>1. ls = NoRecords /\ bs = NoRecords
      BY <1>a, <2>2 DEF StoreInv
    <3>2. PICK z : z = (d = 0)
      OBVIOUS
    <3>3. SoundStore(z, ls) /\ SoundStore(z, bs)
      BY <3>1, NothingSound
    <3>4. SoundStore(d = 0, ls) /\ SoundStore(d = 0, bs)
      BY <3>2, <3>3
    <3> QED BY <1>0, <2>1, <3>4
  <2>3. CASE s # NoTable
    <3>1. (s = 0) = (d = 0)
      BY <1>1, <1>b, <2>3 DEF VectorColumnStays
    <3>2. PICK z : z = (d = 0)
      OBVIOUS
    <3>3. z = (s = 0)
      BY <3>1, <3>2
    <3>4. SoundStore(z, ls) /\ SoundStore(z, bs)
      BY <1>c, <2>3, <3>3
    <3>5. SoundStore(d = 0, ls) /\ SoundStore(d = 0, bs)
      BY <3>2, <3>4
    <3> QED BY <1>0, <2>1, <3>5
  <2> QED BY <2>2, <2>3
<1>2. CASE WriteStep
  <2>1. PICK c, lt : WriteOf(schema, epoch + 1, records, c, lt) /\ Commit(c, lt)
    BY <1>2 DEF WriteStep
  <2>2. PICK e : e = epoch + 1
    OBVIOUS
  <2>3. e \in Epoch /\ e \in 1..MaxEpoch /\ ls \in Stores(e) /\ WriteOf(s, e, ls, c, lt)
    BY <1>a, <2>1, <2>2, WriteStepFacts
  <2>4. schema' = s /\ s # NoTable /\ records' = lt /\ base'.records = bs
    BY <1>2, <1>a, <2>1 DEF WriteStep, Commit
  <2>5. \A j \in Keys : SoundList(s = 0, ls[j]) => SoundList(s = 0, lt[j])
    BY <2>3, WriteKeeps
  <2>6. SoundStore(s = 0, lt) /\ SoundStore(s = 0, bs)
    BY <1>c, <2>4, <2>5 DEF SoundStore
  <2> QED BY <1>0, <2>4, <2>6
<1>3. CASE Checkpoint
  <2>1. schema' = s /\ records' = ls /\ base'.records = CheckpointRecords(ls, p)
    BY <1>3, <1>a DEF Checkpoint
  <2>2. PICK z : z = (s = 0)
    OBVIOUS
  <2>3. s # NoTable => SoundStore(z, ls) /\ SoundStore(z, CheckpointRecords(ls, p))
    BY <1>b, <1>c, <2>2, CheckpointSound
  <2>4. s # NoTable => SoundStore(s = 0, ls) /\ SoundStore(s = 0, CheckpointRecords(ls, p))
    BY <2>2, <2>3
  <2> QED BY <1>0, <2>1, <2>4
<1>4. CASE Restart
  <2>1. schema' = s /\ base'.records = bs
    BY <1>4, <1>a, RestartFacts
  <2>2. PICK o \in Outcomes(epoch) :
          o = ApplyCommits(schema, Applied(base.records), log) /\ records' = o.records
    BY <1>4, RestartFacts
  <2>3. /\ o = ApplyCommits(s, Applied(bs), cs) /\ cs \in Seq(CommitRecord)
        /\ \A n \in 1..Len(cs) : cs[n].epoch <= p
    BY <1>a, <2>2, ReplayOutcome
  <2>4. ASSUME s # NoTable PROVE SoundStore(s = 0, o.records)
    <3>1. PICK r : r = Applied(bs)
      OBVIOUS
    <3>2. r \in Outcomes(p) /\ r.records = bs
      BY <1>b, <3>1, AppliedParts
    <3>3. r \in SoundOutcomes(s = 0, p)
      BY <1>c, <2>4, <3>2 DEF SoundOutcomes
    <3>4. ApplyCommits(s, r, cs) \in SoundOutcomes(s = 0, p)
      BY <1>b, <2>3, <3>3, ReplaySound
    <3>5. o \in SoundOutcomes(s = 0, p)
      BY <2>3, <3>1, <3>4
    <3> QED BY <3>5 DEF SoundOutcomes
  <2> QED BY <1>0, <1>c, <2>1, <2>2, <2>4
<1>5. CASE UNCHANGED vars
  <2>1. schema' = schema /\ records' = records /\ base' = base
    BY <1>5 DEF vars
  <2> QED BY <1>0, <2>1 DEF SoundInv
<1> QED BY <1>1, <1>2, <1>3, <1>4, <1>5, NextCases

\* Source hashes are current: in every version, the source hash of the feature is
\* that of the body next to it (build_features, plan_mutation, plan_delete,
\* apply_feature_invalidation and their replay), as long as schemas neither add
\* nor drop the vector column: under a schema without one, build_features
\* carries the old feature over to a version with another body.
THEOREM SourceHashesCurrent ==
    ASSUME VectorColumnStays
    PROVE  Spec => []SourceHashCurrent
<1>1. Init => SoundInv
  BY DEF Init, SoundInv
<1>2. StoreInv /\ SoundInv /\ [Next]_vars => SoundInv'
  BY SoundNext
<1>3. StoreInv /\ SoundInv => SourceHashCurrent
  <2> SUFFICES ASSUME StoreInv, SoundInv, NEW k \in Keys, NEW i \in 1..Len(records[k])
               PROVE  LET v == records[k][i]
                      IN  v.feat # NoFeature =>
                            v.feat.hash = v.body \/ (v.feat.hash = "zero" /\ v.body = "absent")
    BY DEF SourceHashCurrent
  <2>1. schema # NoTable
    BY DEF StoreInv, NoRecords
  <2>2. Sound(schema = 0, records[k][i])
    BY <2>1 DEF SoundInv, SoundStore, SoundList
  <2> QED BY <2>2 DEF Sound
<1> QED BY <1>1, <1>2, <1>3, StoreInvariant, PTL DEF Spec

-----------------------------------------------------------------------------
(* The past, and what deletes leave *)

\* The outcomes of replays that end, or fail with nothing in the store.
Settled(e) == {o \in Outcomes(e) : o.ok \/ o = Failed}

\* A replay ends, or fails with nothing in the store.
LEMMA ReplaySettled ==
    ASSUME NEW E \in Epoch, NEW d, NEW cs \in Seq(CommitRecord),
           \A n \in 1..Len(cs) : cs[n].epoch <= E, NEW r \in Settled(E)
    PROVE  ApplyCommits(d, r, cs) \in Settled(E)
<1> DEFINE G == Settled(E)
<1>0. \A rs : Applied(rs).ok
  BY DEF Applied
<1>1. Len(cs) \in Nat /\ \A n \in 1..Len(cs) : cs[n] \in CommitRecord
  OBVIOUS
<1>2. \A s \in G : \A n \in 1..Len(cs) : ApplyCommit(d, s, cs[n]) \in G
  <2> SUFFICES ASSUME NEW s \in G, NEW n \in 1..Len(cs)
               PROVE  ApplyCommit(d, s, cs[n]) \in G
    OBVIOUS
  <2>1. PICK c, e : c = cs[n] /\ e = c.epoch
    OBVIOUS
  <2>2. c \in CommitRecord /\ e <= E /\ e \in 1..MaxEpoch
    BY <1>1, <2>1 DEF CommitRecord
  <2>3. ASSUME NEW list \in Lists, NEW x \in Entries(list), NEW t \in G
        PROVE  ApplyEntry(list, d, e, t, x) \in G
    <3>1. PICK a : a = ApplyEntry(list, d, e, t, x)
      OBVIOUS
    <3>2. t \in Outcomes(E)
      BY DEF Settled
    <3>3. ApplyEntry(list, d, e, t, x) \in Outcomes(E)
      BY <2>2, <3>2, EntryTyped
    <3>4. a = Failed \/ \E rs : a = Applied(rs)
      BY <3>1 DEF ApplyEntry, ApplyReplacement, ApplyMutation, ApplyDeletion, ApplyInvalidation,
                  Lists
    <3>5. a = Failed \/ a.ok
      BY <1>0, <3>4
    <3> QED BY <3>1, <3>3, <3>5 DEF Settled
  <2>4. \A list \in Lists : \A x \in Entries(list) : \A t \in G :
          ApplyEntry(list, d, c.epoch, t, x) \in G
    BY <2>1, <2>3
  <2> HIDE DEF G
  <2>5. ApplyCommit(d, s, c) \in G
    BY <2>2, <2>4, CommitKeeps
  <2> QED BY <2>1, <2>5
<1> HIDE DEF G
<1>3. r \in G
  BY DEF G
<1>4. ApplyCommits(d, r, cs) \in G
  BY <1>1, <1>2, <1>3, CommitsKeep
<1> QED BY <1>4 DEF G

\* What open makes of the records: their end, or nothing.
LEMMA RestartShows ==
    ASSUME StoreInv, ReplayInv(FALSE), Restart, NEW k \in Keys
    PROVE  \/ /\ ~open' /\ records'[k] = <<>>
           \/ \E n \in Nat :
                /\ records'[k] \in History(epoch) /\ EndOf(FALSE, records'[k], records[k], n, base.epoch)
<1>1. PICK s, p, ls, bs, b, cs :
        /\ s = schema /\ p = epoch /\ ls = records /\ bs = base.records /\ b = base.epoch
        /\ cs = log
  OBVIOUS
<1>2. PICK o \in Outcomes(epoch) :
        /\ o = ApplyCommits(schema, Applied(base.records), log)
        /\ open' = o.ok /\ records' = o.records
        /\ schema = NoTable => o = Applied(NoRecords) /\ records = NoRecords
  BY RestartFacts
<1>3. /\ o = ApplyCommits(s, Applied(bs), cs) /\ o \in Outcomes(p) /\ o.records[k] \in History(p)
      /\ p \in Epoch /\ cs \in Seq(CommitRecord) /\ bs \in Stores(p)
      /\ \A n \in 1..Len(cs) : cs[n].epoch <= p
  BY <1>1, <1>2, ReplayOutcome, OutcomeParts
<1>4. o.ok \/ o = Failed
  <2>1. PICK r : r = Applied(bs)
    OBVIOUS
  <2>2. r \in Settled(p)
    BY <1>3, <2>1, AppliedParts DEF Settled
  <2>3. ApplyCommits(s, r, cs) \in Settled(p)
    BY <1>3, <2>2, ReplaySettled
  <2> QED BY <1>3, <2>1, <2>3 DEF Settled
<1>5. CASE o = Failed
  <2>1. ~o.ok /\ o.records[k] = <<>>
    BY <1>5 DEF Failed, NoRecords
  <2> QED BY <1>2, <2>1
<1>6. CASE o.ok /\ s = NoTable
  <2>1. o.records[k] = <<>> /\ records[k] = <<>>
    BY <1>1, <1>2, <1>6 DEF Applied, NoRecords
  <2>2. EndOf(FALSE, <<>>, <<>>, 0, base.epoch)
    BY DEF EndOf
  <2> QED BY <1>1, <1>2, <1>3, <2>1, <2>2
<1>7. CASE o.ok /\ s # NoTable
  <2>1. s \in Schemas /\ open
    BY <1>1, <1>7 DEF StoreInv, Restart
  <2>2. PICK cut \in [Keys -> Nat] : Shows(FALSE, o, ls, cut, b)
    BY <1>1, <1>3, <2>1 DEF ReplayInv
  <2>3. EndOf(FALSE, o.records[k], ls[k], cut[k], b) /\ cut[k] \in Nat
    BY <1>7, <2>2 DEF Shows
  <2> QED BY <1>1, <1>2, <1>3, <2>3
<1> QED BY <1>4, <1>5, <1>6, <1>7

\* Reads of an epoch that is over are stable: no write, schema change, checkpoint
\* or restart changes the fields that visible_record_at returns for an epoch from
\* the last checkpoint on, whatever schemas and batches went before.
THEOREM SnapshotsStable == Spec => SnapshotStable
<1> DEFINE Same(k, e) == Fields(VisibleAt(records'[k], e)) = Fields(VisibleAt(records[k], e))
<1>1. ASSUME StoreInv, ReplayInv(FALSE), [Next]_vars, NEW k \in Keys, open',
             NEW t \in base'.epoch..epoch
      PROVE  Same(k, t)
  <2>0. PICK s, p, ls, b : s = schema /\ p = epoch /\ ls = records /\ b = base.epoch
    OBVIOUS
  <2>a. p \in Epoch /\ p \in Nat /\ ls \in Stores(p) /\ b \in Nat
    BY <1>1, <2>0, EpochFacts DEF StoreInv
  <2>1. CASE records' = records
    BY <2>1
  <2>2. CASE WriteStep
    <3>1. PICK c, lt : WriteOf(schema, epoch + 1, records, c, lt) /\ Commit(c, lt)
      BY <2>2 DEF WriteStep
    <3>2. PICK e : e = epoch + 1
      OBVIOUS
    <3>3. e \in Epoch /\ e \in 1..MaxEpoch /\ ls \in Stores(e) /\ WriteOf(s, e, ls, c, lt)
      BY <1>1, <2>0, <3>1, <3>2, WriteStepFacts
    <3>4. records' = lt /\ base' = base
      BY <3>1 DEF Commit
    <3>5. t \in Nat /\ t < e
      BY <1>1, <2>0, <2>a, <3>2, <3>4
    <3>6. \A u \in Nat : u < e => Fields(VisibleAt(lt[k], u)) = Fields(VisibleAt(ls[k], u))
      BY <3>3, WriteKeeps
    <3> QED BY <2>0, <3>4, <3>5, <3>6
  <2>3. CASE Restart
    <3>1. base' = base
      BY <2>3 DEF Restart
    <3>2. PICK n \in Nat : records'[k] \in History(epoch)
                           /\ EndOf(FALSE, records'[k], records[k], n, base.epoch)
      BY <1>1, <2>3, RestartShows
    <3>3. PICK r, l : r = records'[k] /\ l = records[k]
      OBVIOUS
    <3>4. t \in Nat /\ b <= t
      BY <1>1, <2>0, <2>a, <3>1
    <3>5. PICK x : x = FALSE
      OBVIOUS
    <3>6. r \in History(p) /\ l \in History(p) /\ EndOf(x, r, l, n, b)
      BY <2>0, <2>a, <3>2, <3>3, <3>5 DEF Stores
    <3>7. /\ Fields(VisibleAt(r, t)) = Fields(VisibleAt(l, t))
          /\ x => VisibleAt(r, t) = VisibleAt(l, t)
      BY <2>a, <3>4, <3>6, EndSeen
    <3> QED BY <3>3, <3>7
  <2>4. CASE Checkpoint
    BY <2>1, <2>4 DEF Checkpoint
  <2>5. ASSUME NEW d \in Schemas, ApplySchema(d) PROVE Same(k, t)
    BY <2>1, <2>5 DEF ApplySchema, Commit
  <2>6. CASE UNCHANGED vars
    BY <2>1, <2>6 DEF vars
  <2> QED BY <1>1, <2>2, <2>3, <2>4, <2>5, <2>6, NextCases
<1> DEFINE Stable == \A k \in Keys, e \in base'.epoch..epoch :
                       open' => Fields(VisibleAt(records'[k], e)) = Fields(VisibleAt(records[k], e))
<1>2. StoreInv /\ ReplayInv(FALSE) /\ [Next]_vars => [Stable]_vars
  BY <1>1
<1> HIDE DEF Stable
<1>3. Spec => [][Stable]_vars
  BY <1>2, StoreInvariant, ReplayKept, PTL DEF Spec
<1> QED BY <1>3 DEF SnapshotStable, Stable

\* Nothing is resurrected: a record that becomes current, with or without a delete
\* before it, has the fields of an entry of that commit alone (plan_mutation merges
\* into the current version only), and no restart makes one current.
THEOREM DeletedStaysDeleted == Spec => NothingResurrected
<1> DEFINE Fresh(k) ==
             LET c == Last(log')
                 v == records'[k][Current(records'[k])]
             IN  \E in \in ToSet(c.replacements \o c.mutations) :
                     in.key = k /\ v.body = in.body /\ v.emb = in.emb
<1>1. ASSUME StoreInv, ReplayInv(FALSE), [Next]_vars, NEW k \in Keys,
             Current(records[k]) = 0, Current(records'[k]) # 0
      PROVE  Fresh(k)
  <2>0. PICK s, p, ls, b, cs : s = schema /\ p = epoch /\ ls = records /\ b = base.epoch /\ cs = log
    OBVIOUS
  <2>a. p \in Epoch /\ ls \in Stores(p) /\ cs \in Seq(CommitRecord)
    BY <1>1, <2>0 DEF StoreInv
  <2>1. CASE records' = records
    BY <1>1, <2>1
  <2>2. CASE WriteStep
    <3>1. PICK c, lt : WriteOf(schema, epoch + 1, records, c, lt) /\ Commit(c, lt)
      BY <2>2 DEF WriteStep
    <3>2. PICK e : e = epoch + 1
      OBVIOUS
    <3>3. /\ e \in Epoch /\ e \in 1..MaxEpoch /\ ls \in Stores(e) /\ WriteOf(s, e, ls, c, lt)
          /\ c \in CommitRecord
      BY <1>1, <2>0, <3>1, <3>2, WriteStepFacts
    <3>4. records' = lt /\ log' = Append(cs, c)
      BY <2>0, <3>1 DEF Commit
    <3>5. Last(Append(cs, c)) = c
      BY <2>a, <3>3 DEF Last
    <3>6. Current(ls[k]) = 0 /\ Current(lt[k]) # 0
      BY <1>1, <2>0, <3>4
    <3>7. \E in \in ToSet(c.replacements \o c.mutations) :
            /\ in.key = k
            /\ lt[k][Current(lt[k])].body = in.body /\ lt[k][Current(lt[k])].emb = in.emb
      BY <3>3, <3>6, WriteFresh
    <3> QED BY <3>4, <3>5, <3>7
  <2>3. CASE Restart
    <3>1. \/ records'[k] = <<>>
          \/ \E n \in Nat : /\ records'[k] \in History(epoch)
                            /\ EndOf(FALSE, records'[k], records[k], n, base.epoch)
      BY <1>1, <2>3, RestartShows
    <3>2. PICK r, l : r = records'[k] /\ l = records[k]
      OBVIOUS
    <3>3. l \in History(p)
      BY <2>0, <2>a, <3>2 DEF Stores
    <3>4. CASE r = <<>>
      <4>1. Current(r) = 0
        BY <2>a, <3>4, LastVersion, NoVersions
      <4> QED BY <1>1, <3>2, <4>1
    <3>5. ASSUME NEW n \in Nat, r \in History(p), EndOf(FALSE, r, l, n, b) PROVE FALSE
      <4>1. Current(r) # 0 <=> Current(l) # 0
        BY <2>a, <3>3, <3>5, LastAlike
      <4> QED BY <1>1, <3>2, <4>1
    <3> QED BY <2>0, <3>1, <3>2, <3>4, <3>5
  <2>4. CASE Checkpoint
    BY <2>1, <2>4 DEF Checkpoint
  <2>5. ASSUME NEW d \in Schemas, ApplySchema(d) PROVE Fresh(k)
    BY <2>1, <2>5 DEF ApplySchema, Commit
  <2>6. CASE UNCHANGED vars
    BY <2>1, <2>6 DEF vars
  <2> QED BY <1>1, <2>2, <2>3, <2>4, <2>5, <2>6, NextCases
<1> DEFINE Step == \A k \in Keys : Current(records[k]) = 0 /\ Current(records'[k]) # 0 => Fresh(k)
<1>2. StoreInv /\ ReplayInv(FALSE) /\ [Next]_vars => [Step]_vars
  BY <1>1
<1> HIDE DEF Step
<1>3. Spec => [][Step]_vars
  BY <1>2, StoreInvariant, ReplayKept, PTL DEF Spec
<1> QED BY <1>3 DEF NothingResurrected, Step
=============================================================================
