-------------------------- MODULE ServerJobsProofs --------------------------
(***************************************************************************)
(* Proofs about ServerJobs.tla.  Recovery replays all the events on top of *)
(* a checkpoint that has the effect of most of them, so what must be known *)
(* of the event file is what it does to ANY catalog: the invariants below  *)
(* quantify over the catalogs a replay could start from, and are kept      *)
(* because the file only ever grows at its end.                            *)
(***************************************************************************)
EXTENDS ServerJobs, WellFoundedInduction, TLAPS

\* One shard key, and so one runtime, has the directory.
OneRuntime == \A q, r \in Runtimes : q = r

Catalog == [Jobs -> Job \cup {None}]
Outcome == [ok : BOOLEAN, cat : Catalog]
Event ==
    [event : {"enqueued"}, job : Jobs, value : Job]
    \cup [event : {"leased"}, job : Jobs, owner : Workers, token : Nat \ {0}, until : Nat]
    \cup [event : {"heartbeat"}, job : Jobs, token : Nat, until : Nat]
    \cup [event : {"completed"}, job : Jobs, token : Nat]
    \cup [event : {"failed"}, job : Jobs, token : Nat, permanent : BOOLEAN, at : Nat]

Pending(r) == state[r] \in {"event", "checkpoint"}
Opened(r) == state[r] = "idle" \/ Pending(r)

-----------------------------------------------------------------------------
(* What the event file does to a catalog it is replayed on *)

Final(c, log) == Replay(c, log).cat

\* A replay keeps the jobs of its catalog and never counts fewer attempts.
Replays(log) ==
    \A c \in Catalog :
        /\ Replay(c, log) \in Outcome
        /\ \A j \in Known(c) :
            /\ Final(c, log)[j] # None
            /\ c[j].attempts <= Final(c, log)[j].attempts

\* Every replay that gets to its end knows the job, under the same token.
SameToken(log, j) ==
    \A c, d \in Catalog :
        Final(c, log)[j] # None /\ Final(c, log)[j].token = Final(d, log)[j].token

\* No replay changes the token: the job was not leased in the log.
KeepsToken(log, j) ==
    \A c \in Catalog : Final(c, log)[j] # None =>
        Final(c, log)[j].token = IF c[j] = None THEN 0 ELSE c[j].token

\* The log makes the job known, or leaves it to the catalog.
KnownAlike(log, j) ==
    \/ \A c \in Catalog : Final(c, log)[j] # None
    \/ \A c \in Catalog : Final(c, log)[j] # None => c[j] # None

\* The log leaves the job leased, or not, whatever it is replayed on.
LeasedBy(log, j) ==
    \A c \in Catalog : c[j] # None /\ Replay(c, log).ok =>
        Final(c, log)[j].status = "Leased"
NotLeasedBy(log, j) ==
    \A c \in Catalog : c[j] # None /\ Replay(c, log).ok =>
        Final(c, log)[j].status # "Leased"

\* The log leaves the job with this time of expiry.
ExpiresAt(log, j, until) ==
    \A c \in Catalog : c[j] # None /\ Replay(c, log).ok =>
        Final(c, log)[j].expires = until

\* ... or with one that is not before it.
ExpiresAfter(log, j, until) ==
    \A c \in Catalog : c[j] # None /\ Replay(c, log).ok =>
        Final(c, log)[j].expires \in Nat /\ until <= Final(c, log)[j].expires

SucceededBy(log, j) ==
    \A c \in Catalog :
        Final(c, log)[j] # None /\ Final(c, log)[j].status = "Succeeded"

\* No token of an attempt that is yet to come.
Sane(c) == \A j \in Known(c) : c[j].token <= c[j].attempts

Covers(c, d) ==
    \A j \in Known(d) : c[j] # None /\ d[j].attempts <= c[j].attempts

\* What a request that records e makes of the catalog d.
Changed(d, c, e) ==
    /\ \A k \in Jobs : k # e.job => c[k] = d[k]
    /\ c[e.job] # None
    /\ \/ /\ e.event = "enqueued"
          /\ c[e.job] = IF d[e.job] = None THEN NewJob ELSE d[e.job]
          /\ e.value = c[e.job]
       \/ /\ e.event = "leased"
          /\ d[e.job] # None
          /\ e.token = d[e.job].attempts + 1
          /\ c[e.job].attempts = e.token
          /\ c[e.job].token = e.token
          /\ c[e.job].status = "Leased"
          /\ c[e.job].expires = e.until
       \/ /\ e.event \in {"heartbeat", "completed", "failed"}
          /\ d[e.job] # None
          /\ e.token \in {0, d[e.job].token}
          /\ c[e.job].attempts = d[e.job].attempts
          /\ c[e.job].token = d[e.job].token
          /\ e.event = "heartbeat" =>
                c[e.job].status = d[e.job].status /\ c[e.job].expires = e.until
          /\ e.event = "completed" => c[e.job].status = "Succeeded"
          /\ e.event = "failed" => c[e.job].status \notin {"Leased", "Succeeded"}

-----------------------------------------------------------------------------
(* The inductive invariants *)

Shape ==
    /\ file \in Catalog
    /\ events \in Seq(Event)
    /\ state \in [Runtimes -> {"closed", "idle", "event", "checkpoint", "failed"}]
    /\ cat \in [Runtimes -> Catalog]
    /\ request \in [Runtimes -> Event \cup {None}]
    /\ \A r \in Runtimes : Pending(r) => request[r] \in Event
    /\ clock \in 0..MaxTime
    /\ requests \in 0..MaxRequests
    /\ crashes \in 0..MaxCrashes
    /\ leases \in Seq([job : Jobs, token : Nat \ {0}])
    /\ held \in [Jobs -> Nat]
    /\ done \in SUBSET Jobs
    /\ counted \in [Jobs -> Nat]
    /\ ioFailed \in BOOLEAN
    /\ Replays(events)

\* The tokens of a job that workers were told of rise.
LeasesRise ==
    \A a, b \in 1..Len(leases) :
        a < b /\ leases[a].job = leases[b].job => leases[a].token < leases[b].token

\* The checkpoint has counted the attempts of all of them.
ToldCounted ==
    \A i \in 1..Len(leases) :
        /\ file[leases[i].job] # None
        /\ leases[i].token <= file[leases[i].job].attempts

\* Memory is never behind the checkpoint.
MemoryAhead == \A r \in Runtimes : Opened(r) => Covers(cat[r], file)

\* A lease that is being recorded is ahead of it.
LeaseAhead ==
    \A r \in Runtimes : Pending(r) /\ request[r].event = "leased" =>
        /\ cat[r][request[r].job] # None
        /\ cat[r][request[r].job].attempts = request[r].token
        /\ file[request[r].job] # None =>
            file[request[r].job].attempts < request[r].token

LeaseInv == LeasesRise /\ ToldCounted /\ MemoryAhead /\ LeaseAhead

\* The lease in memory is the one of a request whose event is not written yet.
LeaseUnrecorded(r, j) ==
    state[r] = "event" /\ request[r].event = "leased" /\ request[r].job = j

\* Every catalog can be replayed on.
AllReplay(log) == \A c \in Catalog : Replay(c, log).ok

\* Every replay knows the job.
KnownBy(log, j) == \A c \in Catalog : Final(c, log)[j] # None

\* A token of the job in memory that is recorded, if it has one, is that of
\* every replay.
TokenAlike(j) ==
    \/ SameToken(events, j)
    \/ /\ KeepsToken(events, j)
       /\ file[j] # None => file[j].token = 0
       /\ \A r \in Runtimes :
            Opened(r) /\ cat[r][j] # None /\ ~LeaseUnrecorded(r, j)
                => cat[r][j].token = 0

\* Memory is the checkpoint but for the request under way.
MemoryOfFile ==
    \A r \in Runtimes :
        /\ state[r] = "idle" => cat[r] = file
        /\ Pending(r) => Changed(file, cat[r], request[r])
        /\ state[r] = "checkpoint" => KnownBy(events, request[r].job)

\* A token in memory is the one every replay ends with.
TokenIsIn(log, j, t) ==
    \A c \in Catalog : Final(c, log)[j] # None /\ Final(c, log)[j].token = t
TokensCurrent ==
    \A r \in Runtimes : Opened(r) => \A j \in Jobs :
        cat[r][j] # None /\ cat[r][j].token # 0 /\ ~LeaseUnrecorded(r, j) =>
            TokenIsIn(events, j, cat[r][j].token)

\* A replay on the checkpoint, or on more, makes no token of a later attempt.
SaneBy(log, f) ==
    \A c \in Catalog : Sane(c) /\ Covers(c, f) => Sane(Final(c, log))

\* Without a failed write all of this holds.
RecoveryInv ==
    /\ AllReplay(events)
    /\ \A j \in Jobs : KnownAlike(events, j)
    /\ \A j \in Jobs : file[j] # None => KnownBy(events, j)
    /\ \A j \in Jobs : TokenAlike(j)
    /\ MemoryOfFile
    /\ TokensCurrent
    /\ Sane(file)
    /\ \A r \in Runtimes : Sane(cat[r])
    /\ SaneBy(events, file)

\* Without a failed write: a confirmed completion is what every replay ends
\* with and what memory has, and no request that would undo it is under way.
DoneInMemory ==
    \A r \in Runtimes : Opened(r) => \A j \in done :
        cat[r][j] # None /\ cat[r][j].status = "Succeeded"
DonePending ==
    \A r \in Runtimes : Pending(r) =>
        /\ request[r].event \in {"leased", "failed"} => request[r].job \notin done
        /\ request[r].event = "completed" =>
            /\ cat[r][request[r].job] # None
            /\ cat[r][request[r].job].status = "Succeeded"
            /\ state[r] = "checkpoint" => SucceededBy(events, request[r].job)
CompletionInv ==
    /\ \A j \in done : SucceededBy(events, j)
    /\ DoneInMemory
    /\ DonePending

Told(j) == \E i \in 1..Len(leases) : leases[i].job = j
ToldToken(j, t) == \E i \in 1..Len(leases) : leases[i].job = j /\ leases[i].token = t

\* The unexpired lease of a worker is what any replay ends with, ...
HeldRecorded ==
    \A j \in Jobs :
        /\ held[j] > 0 => Told(j)
        /\ Told(j) => LeasedBy(events, j) \/ NotLeasedBy(events, j)
        /\ held[j] > clock => LeasedBy(events, j) /\ ExpiresAfter(events, j, held[j])

\* ... it is in memory, and a lease in memory under a token that was told is
\* one that any replay ends with, ...
HeldInMemory ==
    \A r \in Runtimes : Opened(r) => \A j \in Jobs :
        /\ held[j] > clock => /\ cat[r][j] # None
                              /\ cat[r][j].status = "Leased"
                              /\ cat[r][j].expires \in Nat
                              /\ held[j] <= cat[r][j].expires
        /\ /\ cat[r][j] # None
           /\ cat[r][j].status = "Leased"
           /\ ToldToken(j, cat[r][j].token)
           => LeasedBy(events, j)

\* ... and no request under way ends it before its time.
HeldPending ==
    \A r \in Runtimes : Pending(r) =>
        LET e == request[r]
            job == cat[r][e.job]
        IN  /\ e.event \in {"leased", "heartbeat"} =>
                /\ job # None
                /\ job.expires = e.until
                /\ job.token = e.token
                /\ held[e.job] <= e.until
                /\ state[r] = "checkpoint" => ExpiresAt(events, e.job, e.until)
            /\ e.event = "leased" /\ state[r] = "checkpoint" =>
                LeasedBy(events, e.job)
            /\ e.event = "heartbeat" => ToldToken(e.job, e.token)
            /\ e.event \in {"completed", "failed"} =>
                /\ held[e.job] = 0
                /\ job # None
                /\ job.status # "Leased"

HeldInv == HeldRecorded /\ HeldInMemory /\ HeldPending

-----------------------------------------------------------------------------
(* A replay, event by event *)

\* A set of natural numbers that is not empty has a least element.
LEMMA LeastNat ==
    ASSUME NEW T \in SUBSET Nat, T # {}
    PROVE  \E x \in T : \A y \in T : x <= y
<1>1. IsWellFoundedOn(OpToRel(<, Nat), Nat)
  BY NatLessThanWellFounded
<1>2. PICK x \in T : \A y \in T : ~ (<<y, x>> \in OpToRel(<, Nat))
  BY <1>1, WFMin
<1>3. \A y \in T : ~ (y < x)
  BY <1>2 DEF OpToRel
<1> QED BY <1>3

\* Induction, for a set.
LEMMA SetInduction ==
    ASSUME NEW S \in SUBSET Nat, 0 \in S, \A n \in S : n + 1 \in S
    PROVE  S = Nat
<1> SUFFICES ASSUME Nat \ S # {} PROVE FALSE
  OBVIOUS
<1>1. PICK x \in Nat \ S : \A y \in Nat \ S : x <= y
  BY LeastNat
<1>2. x # 0 /\ x - 1 \in Nat
  BY <1>1
<1>3. x - 1 \in S
  BY <1>1, <1>2
<1> QED BY <1>1, <1>3

\* f is the function that Replay defines, up to the event n.
IsRun(f, c, log, N) ==
    f = [n \in 0..N |-> IF n = 0 THEN [ok |-> TRUE, cat |-> c]
                        ELSE ReplayEvent(f[n - 1], log[n])]

\* Such a function exists for every number of events.
LEMMA RunExists ==
    ASSUME NEW c, NEW log, NEW N \in Nat
    PROVE  \E f : IsRun(f, c, log, N)
<1> DEFINE start == [ok |-> TRUE, cat |-> c]
           S == {n \in Nat : \E f : IsRun(f, c, log, n)}
<1> HIDE DEF start
<1>1. 0 \in S
  <2> DEFINE g == [n \in 0..0 |-> start]
  <2>1. g = [n \in 0..0 |-> IF n = 0 THEN start ELSE ReplayEvent(g[n - 1], log[n])]
    OBVIOUS
  <2>2. IsRun(g, c, log, 0)
    BY <2>1 DEF IsRun, start
  <2> QED BY <2>2
<1>2. \A n \in S : n + 1 \in S
  <2> SUFFICES ASSUME NEW m \in S PROVE m + 1 \in S
    OBVIOUS
  <2>1. PICK f : IsRun(f, c, log, m)
    OBVIOUS
  <2>2. m \in Nat
    OBVIOUS
  <2> DEFINE g == [n \in 0..(m + 1) |-> IF n = 0 THEN start
                                        ELSE ReplayEvent(f[n - 1], log[n])]
  <2>3. f = [n \in 0..m |-> IF n = 0 THEN start ELSE ReplayEvent(f[n - 1], log[n])]
    BY <2>1 DEF IsRun, start
  <2>4. \A n \in 0..m : g[n] = f[n]
    BY <2>2, <2>3
  <2>5. \A n \in 0..(m + 1) : g[n] = IF n = 0 THEN start ELSE ReplayEvent(g[n - 1], log[n])
    <3> SUFFICES ASSUME NEW n \in 0..(m + 1)
                 PROVE  g[n] = IF n = 0 THEN start ELSE ReplayEvent(g[n - 1], log[n])
      OBVIOUS
    <3>1. n # 0 => n - 1 \in 0..m
      BY <2>2
    <3>2. n # 0 => g[n - 1] = f[n - 1]
      BY <3>1, <2>4
    <3>3. g[n] = IF n = 0 THEN start ELSE ReplayEvent(f[n - 1], log[n])
      OBVIOUS
    <3> HIDE DEF g
    <3> QED BY <3>2, <3>3
  <2>6. g = [n \in 0..(m + 1) |-> IF n = 0 THEN start ELSE ReplayEvent(g[n - 1], log[n])]
    <3>1. g = [n \in 0..(m + 1) |-> g[n]]
      OBVIOUS
    <3> HIDE DEF g
    <3> QED BY <3>1, <2>5
  <2>7. IsRun(g, c, log, m + 1)
    <3> HIDE DEF g
    <3> QED BY <2>6 DEF IsRun, start
  <2>8. \E h : IsRun(h, c, log, m + 1)
    BY <2>7
  <2> QED BY <2>8, <2>2
<1>3. S = Nat
  <2> HIDE DEF S
  <2>1. S \in SUBSET Nat
    BY DEF S
  <2> QED BY <1>1, <1>2, <2>1, SetInduction
<1> QED BY <1>3

\* Two such functions agree where both are defined.
LEMMA RunsAgree ==
    ASSUME NEW c, NEW log, NEW N \in Nat, NEW M \in Nat, N <= M,
           NEW f, NEW g, IsRun(f, c, log, N), IsRun(g, c, log, M)
    PROVE  f[N] = g[N]
<1> DEFINE start == [ok |-> TRUE, cat |-> c]
           S == {n \in Nat : n <= N => f[n] = g[n]}
<1> HIDE DEF start
<1>1. /\ \A n \in 0..N : f[n] = IF n = 0 THEN start ELSE ReplayEvent(f[n - 1], log[n])
      /\ \A n \in 0..M : g[n] = IF n = 0 THEN start ELSE ReplayEvent(g[n - 1], log[n])
  <2>1. f = [n \in 0..N |-> IF n = 0 THEN start ELSE ReplayEvent(f[n - 1], log[n])]
    BY DEF IsRun, start
  <2>2. g = [n \in 0..M |-> IF n = 0 THEN start ELSE ReplayEvent(g[n - 1], log[n])]
    BY DEF IsRun, start
  <2> QED BY <2>1, <2>2
<1>2. 0 \in S
  BY <1>1
<1>3. \A n \in S : n + 1 \in S
  BY <1>1
<1>4. S = Nat
  <2> HIDE DEF S
  <2>1. S \in SUBSET Nat
    BY DEF S
  <2> QED BY <1>2, <1>3, <2>1, SetInduction
<1> QED BY <1>4

\* Replay is the last value of such a function.
LEMMA ReplayRuns ==
    ASSUME NEW c, NEW log, Len(log) \in Nat
    PROVE  \E f : IsRun(f, c, log, Len(log)) /\ Replay(c, log) = f[Len(log)]
<1> DEFINE R(f) == f = [n \in 0..Len(log) |->
                            IF n = 0 THEN [ok |-> TRUE, cat |-> c]
                            ELSE ReplayEvent(f[n - 1], log[n])]
           h == CHOOSE f : R(f)
<1>1. PICK g : IsRun(g, c, log, Len(log))
  BY RunExists
<1>2. R(g)
  BY <1>1 DEF IsRun
<1>3. R(h)
  BY <1>2, Zenon
<1>4. Replay(c, log) = h[Len(log)]
  BY DEF Replay
<1> HIDE DEF h
<1> QED BY <1>3, <1>4 DEF IsRun

\* A replay of no events leaves the catalog as it is.
LEMMA ReplayNone ==
    ASSUME NEW c
    PROVE  Replay(c, <<>>) = [ok |-> TRUE, cat |-> c]
<1>1. PICK f : IsRun(f, c, <<>>, Len(<<>>)) /\ Replay(c, <<>>) = f[Len(<<>>)]
  BY ReplayRuns
<1>2. Len(<<>>) = 0
  OBVIOUS
<1> QED BY <1>1, <1>2 DEF IsRun

\* One more event is one more step of the replay.
LEMMA ReplayAppend ==
    ASSUME NEW c, NEW log \in Seq(Event), NEW e \in Event
    PROVE  Replay(c, Append(log, e)) = ReplayEvent(Replay(c, log), e)
<1> DEFINE N == Len(log)
           more == Append(log, e)
           start == [ok |-> TRUE, cat |-> c]
<1>1. N \in Nat /\ Len(more) = N + 1 /\ more[N + 1] = e /\ \A n \in 1..N : more[n] = log[n]
  OBVIOUS
<1> HIDE DEF more, N, start
<1>2. PICK f : IsRun(f, c, log, N) /\ Replay(c, log) = f[N]
  BY <1>1, ReplayRuns DEF N
<1>3. PICK g : IsRun(g, c, more, N + 1) /\ Replay(c, more) = g[N + 1]
  BY <1>1, ReplayRuns
<1>4. g[N + 1] = ReplayEvent(g[N], e)
  <2>1. g = [n \in 0..(N + 1) |-> IF n = 0 THEN start ELSE ReplayEvent(g[n - 1], more[n])]
    BY <1>3 DEF IsRun, start
  <2>2. N + 1 \in 0..(N + 1) /\ N + 1 # 0 /\ N + 1 - 1 = N
    BY <1>1
  <2>3. \A n \in 0..(N + 1) : g[n] = IF n = 0 THEN start ELSE ReplayEvent(g[n - 1], more[n])
    BY <2>1
  <2>4. g[N + 1] = ReplayEvent(g[N + 1 - 1], more[N + 1])
    BY <1>1, <2>2, <2>3
  <2> QED BY <2>4, <2>2, <1>1
<1>5. IsRun(f, c, more, N)
  <2>1. f = [n \in 0..N |-> IF n = 0 THEN start ELSE ReplayEvent(f[n - 1], log[n])]
    BY <1>2 DEF IsRun, start
  <2>2. \A n \in 0..N : n # 0 => more[n] = log[n]
    BY <1>1
  <2>3. f = [n \in 0..N |-> IF n = 0 THEN start ELSE ReplayEvent(f[n - 1], more[n])]
    BY <2>1, <2>2
  <2> QED BY <2>3 DEF IsRun, start
<1>6. f[N] = g[N]
  BY <1>1, <1>3, <1>5, RunsAgree
<1> QED BY <1>2, <1>3, <1>4, <1>6 DEF more

-----------------------------------------------------------------------------
(* What one event does to a catalog *)

\* A job has its fields, and is not None.
LEMMA JobFields ==
    ASSUME NEW c \in Catalog, NEW j \in Jobs, c[j] # None
    PROVE  /\ c[j] \in Job
           /\ c[j].attempts \in Nat
           /\ c[j].token \in Nat
           /\ c[j].status \in Status
           /\ c[j].owner \in Workers \cup {None}
BY DEF Catalog, Job

\* A job that was just enqueued.
LEMMA NewJobFields ==
    /\ NewJob \in Job
    /\ NewJob # None
    /\ NewJob.token = 0
    /\ NewJob.attempts = 0
    /\ NewJob.status = "Queued"
BY JobsAssumption DEF NewJob, Job, Status

\* No job is None.
LEMMA JobIsNotNone == \A v \in Job : v # None
BY JobsAssumption

\* The fields every event has.
LEMMA EventFields ==
    ASSUME NEW e \in Event
    PROVE  /\ e.job \in Jobs
           /\ e.event \in {"enqueued", "leased", "heartbeat", "completed", "failed"}
           /\ e.event = "enqueued" => e.value \in Job
           /\ e.event = "leased" =>
                e.owner \in Workers /\ e.token \in Nat \ {0} /\ e.until \in Nat
           /\ e.event = "heartbeat" => e.token \in Nat /\ e.until \in Nat
           /\ e.event = "completed" => e.token \in Nat
           /\ e.event = "failed" =>
                e.token \in Nat /\ e.permanent \in BOOLEAN /\ e.at \in Nat
BY DEF Event

\* Only the job the event is about changes; it is known afterwards, with at
\* least as many attempts.
Effect(d, n, e) ==
    /\ n \in Catalog
    /\ \A k \in Jobs : k # e.job => n[k] = d[k]
    /\ n[e.job] # None
    /\ d[e.job] # None => d[e.job].attempts <= n[e.job].attempts
    /\ e.event = "enqueued" =>
        n[e.job] = IF d[e.job] = None THEN e.value ELSE d[e.job]
    /\ e.event = "leased" =>
        /\ d[e.job] # None
        /\ n[e.job].token = e.token
        /\ n[e.job].attempts = d[e.job].attempts + 1
        /\ n[e.job].status = "Leased"
        /\ n[e.job].expires = e.until
    /\ e.event \in {"heartbeat", "completed", "failed"} =>
        /\ d[e.job] # None
        /\ n[e.job].token = d[e.job].token
        /\ n[e.job].attempts = d[e.job].attempts
    /\ e.event = "heartbeat" =>
        n[e.job].status = d[e.job].status /\ n[e.job].expires = e.until
    /\ e.event = "completed" => n[e.job].status = "Succeeded"
    /\ e.event = "failed" => n[e.job].status \notin {"Leased", "Succeeded"}

\* An event that fits has that effect.
LEMMA ApplyHasEffect ==
    ASSUME NEW d \in Catalog, NEW e \in Event, EventFits(d, e)
    PROVE  Effect(d, ApplyEvent(d, e), e)
<1> USE JobsAssumption, EventFields, JobIsNotNone
<1> DEFINE j == e.job
<1>j. j \in Jobs
  OBVIOUS
<1>1. CASE e.event = "enqueued"
  <2>1. ApplyEvent(d, e) = [d EXCEPT ![j] = IF d[j] = None THEN e.value ELSE d[j]]
    BY <1>1 DEF ApplyEvent
  <2> HIDE DEF j
  <2>2. PICK v : v = (IF d[j] = None THEN e.value ELSE d[j]) /\ v \in Job
    BY <1>1, <1>j DEF Catalog, j
  <2>3. ApplyEvent(d, e) = [d EXCEPT ![j] = v]
    BY <2>1, <2>2
  <2>4. v.attempts \in Nat
    BY <2>2 DEF Job
  <2> QED BY <1>1, <1>j, <2>2, <2>3, <2>4 DEF Effect, Catalog, j
<1>2. CASE e.event # "enqueued"
  <2>1. d[j] # None
    BY <1>2 DEF EventFits, TokenFits, Known
  <2>2. d[j] \in Job
    BY <2>1, <1>j DEF Catalog
  <2> HIDE DEF j
  <2>3. PICK old \in Job : old = d[j]
    BY <2>2
  <2>4. old.attempts \in Nat /\ old.attempts + 1 \in Nat
    BY DEF Job
  <2>5. ASSUME NEW v \in Job, ApplyEvent(d, e) = [d EXCEPT ![j] = v]
        PROVE  /\ ApplyEvent(d, e) \in Catalog
               /\ \A k \in Jobs : k # j => ApplyEvent(d, e)[k] = d[k]
               /\ ApplyEvent(d, e)[j] = v
               /\ v # None
    BY <1>j, <2>5 DEF Catalog
  <2>6. CASE e.event = "leased"
    <3> DEFINE v == [old EXCEPT !.owner = e.owner, !.token = e.token, !.expires = e.until,
                       !.after = None, !.attempts = old.attempts + 1, !.status = "Leased"]
    <3>1. /\ v \in Job /\ v.token = e.token /\ v.attempts = old.attempts + 1
          /\ v.status = "Leased" /\ v.expires = e.until
      BY <2>4, <2>6 DEF Job, Status
    <3>2. ApplyEvent(d, e) = [d EXCEPT ![j] = v]
      BY <2>3, <2>6 DEF ApplyEvent, Releases, j
    <3> HIDE DEF v
    <3>3. e.event \notin {"enqueued", "heartbeat", "completed", "failed"}
      BY <2>6
    <3>5. PICK n : n = ApplyEvent(d, e)
      OBVIOUS
    <3>6. n \in Catalog /\ n[j] = v /\ v # None /\ \A k \in Jobs : k # j => n[k] = d[k]
      BY <3>1, <3>2, <3>5, <2>5
    <3>7. Effect(d, n, e)
      BY <3>1, <3>3, <3>6, <2>1, <2>3, <2>4, <2>6 DEF Effect, j
    <3> QED BY <3>5, <3>7
  <2>7. CASE e.event = "heartbeat"
    <3> DEFINE v == [old EXCEPT !.expires = e.until]
    <3>1. /\ v \in Job /\ v.token = old.token /\ v.attempts = old.attempts
          /\ v.status = old.status /\ v.expires = e.until
      BY <2>7 DEF Job, Status
    <3>2. ApplyEvent(d, e) = [d EXCEPT ![j] = v]
      BY <2>3, <2>7 DEF ApplyEvent, Heartbeaten, j
    <3> HIDE DEF v
    <3>3. e.event \notin {"enqueued", "leased", "completed", "failed"}
      BY <2>7
    <3>5. PICK n : n = ApplyEvent(d, e)
      OBVIOUS
    <3>6. n \in Catalog /\ n[j] = v /\ v # None /\ \A k \in Jobs : k # j => n[k] = d[k]
      BY <3>1, <3>2, <3>5, <2>5
    <3>7. Effect(d, n, e)
      BY <3>1, <3>3, <3>6, <2>1, <2>3, <2>4, <2>7 DEF Effect, j
    <3> QED BY <3>5, <3>7
  <2>8. CASE e.event = "completed"
    <3> DEFINE v == [old EXCEPT !.status = "Succeeded", !.expires = None, !.after = None]
    <3>1. /\ v \in Job /\ v.token = old.token /\ v.attempts = old.attempts
          /\ v.status = "Succeeded"
      BY <2>8 DEF Job, Status
    <3>2. ApplyEvent(d, e) = [d EXCEPT ![j] = v]
      BY <1>j, <2>3, <2>8 DEF ApplyEvent, Completed, Catalog, j
    <3> HIDE DEF v
    <3>3. e.event \notin {"enqueued", "leased", "heartbeat", "failed"}
      BY <2>8
    <3>5. PICK n : n = ApplyEvent(d, e)
      OBVIOUS
    <3>6. n \in Catalog /\ n[j] = v /\ v # None /\ \A k \in Jobs : k # j => n[k] = d[k]
      BY <3>1, <3>2, <3>5, <2>5
    <3>7. Effect(d, n, e)
      BY <3>1, <3>3, <3>6, <2>1, <2>3, <2>4, <2>8 DEF Effect, j
    <3> QED BY <3>5, <3>7
  <2>9. CASE e.event = "failed"
    <3> DEFINE s == IF e.permanent THEN "FailedPermanent"
                    ELSE IF old.attempts >= MaxAttempts THEN "DeadLettered"
                    ELSE "FailedRetryable"
               v == [old EXCEPT !.expires = None, !.after = e.at, !.status = s]
    <3>1. s \in Status /\ s \notin {"Leased", "Succeeded"}
      BY DEF Status
    <3>2. ApplyEvent(d, e) = [d EXCEPT ![j] = v]
      BY <1>j, <2>3, <2>9 DEF ApplyEvent, Failed, Catalog, j
    <3> HIDE DEF s
    <3>3. /\ v \in Job /\ v.token = old.token /\ v.attempts = old.attempts
          /\ v.status = s
      BY <2>9, <3>1 DEF Job
    <3> HIDE DEF v
    <3>4. e.event \notin {"enqueued", "leased", "heartbeat", "completed"}
      BY <2>9
    <3>5. PICK n : n = ApplyEvent(d, e)
      OBVIOUS
    <3>6. n \in Catalog /\ n[j] = v /\ v # None /\ \A k \in Jobs : k # j => n[k] = d[k]
      BY <3>3, <3>2, <3>5, <2>5
    <3>7. Effect(d, n, e)
      BY <3>1, <3>3, <3>4, <3>6, <2>1, <2>3, <2>4, <2>9 DEF Effect, j
    <3> QED BY <3>5, <3>7
  <2> QED BY <1>2, <2>6, <2>7, <2>8, <2>9
<1> QED BY <1>1, <1>2

\* One event of a replay: the event fits and has its effect, or the replay is
\* over and the catalog stays.
LEMMA ReplayOneEvent ==
    ASSUME NEW o \in Outcome, NEW e \in Event
    PROVE  /\ ReplayEvent(o, e) \in Outcome
           /\ ReplayEvent(o, e).ok <=> o.ok /\ EventFits(o.cat, e)
           /\ ReplayEvent(o, e).ok => Effect(o.cat, ReplayEvent(o, e).cat, e)
           /\ ~ReplayEvent(o, e).ok => ReplayEvent(o, e).cat = o.cat
<1>1. o.cat \in Catalog /\ o.ok \in BOOLEAN
  BY DEF Outcome
<1>2. CASE o.ok /\ EventFits(o.cat, e)
  <2>1. Effect(o.cat, ApplyEvent(o.cat, e), e)
    BY <1>1, <1>2, ApplyHasEffect
  <2>2. ReplayEvent(o, e) = [ok |-> TRUE, cat |-> ApplyEvent(o.cat, e)]
    BY <1>2 DEF ReplayEvent
  <2>3. ApplyEvent(o.cat, e) \in Catalog
    BY <2>1 DEF Effect
  <2> QED BY <1>2, <2>1, <2>2, <2>3 DEF Outcome
<1>3. CASE ~(o.ok /\ EventFits(o.cat, e))
  <2>1. ReplayEvent(o, e) = [ok |-> FALSE, cat |-> o.cat]
    BY <1>3 DEF ReplayEvent
  <2> QED BY <1>1, <1>3, <2>1 DEF Outcome
<1> QED BY <1>2, <1>3

-----------------------------------------------------------------------------
(* What one request does to the memory *)

\* The change in memory of a request, with what it does to the ghosts.
Asks(r, c, e) ==
    /\ Begin(r, c, e)
    /\ Changed(cat[r], c, e)
    /\ e.event \in {"leased", "heartbeat"} => e.until \in Nat /\ e.until > clock
    /\ e.event = "leased" => IsLeasable(cat[r][e.job], clock)
    /\ e.event = "heartbeat" => ToldToken(e.job, e.token)
    /\ held' = IF e.event \in {"completed", "failed"}
               THEN [held EXCEPT ![e.job] = 0]
               ELSE IF e.event = "heartbeat"
               THEN [held EXCEPT ![e.job] = IF e.until < @ THEN e.until ELSE @]
               ELSE held
    /\ done' = IF e.event = "failed" THEN done \ {e.job} ELSE done
    /\ counted' = IF e.event = "leased"
                  THEN [counted EXCEPT ![e.job] = @ + 1] ELSE counted

\* The constants and the memory have their types.
LEMMA MemoryTypes ==
    ASSUME Shape, NEW r \in Runtimes
    PROVE  /\ cat[r] \in Catalog
           /\ clock \in Nat
           /\ \A ms \in LeaseTimes : /\ Until(clock, ms) \in Nat
                                     /\ Until(clock, ms) > clock
BY RuntimeAssumption, JobsAssumption DEF Shape, Until

\* The token of a worker is one it was told.
LEMMA TokensAreTold ==
    ASSUME Shape, NEW j \in Jobs, NEW t \in Tokens(j)
    PROVE  ToldToken(j, t) /\ t \in Nat
<1>1. leases \in Seq([job : Jobs, token : Nat \ {0}])
  BY DEF Shape
<1>2. PICK i \in DOMAIN leases : leases[i].job = j /\ leases[i].token = t
  BY DEF Tokens, ToSet
<1>3. i \in 1..Len(leases) /\ leases[i].token \in Nat
  <2> DEFINE L == [job : Jobs, token : Nat \ {0}]
  <2>1. leases \in Seq(L)
    BY <1>1
  <2>2. \A l \in L : l.token \in Nat
    OBVIOUS
  <2> HIDE DEF L
  <2>3. leases[i] \in L /\ i \in 1..Len(leases)
    BY <2>1
  <2> QED BY <2>2, <2>3
<1> QED BY <1>2, <1>3 DEF ToldToken

\* enqueue
LEMMA EnqueueAsks ==
    ASSUME Shape, NEW r \in Runtimes, NEW j \in Jobs, Enqueue(r, j)
    PROVE  \E c \in Catalog, e \in Event : Asks(r, c, e)
<1> DEFINE v == IF cat[r][j] = None THEN NewJob ELSE cat[r][j]
           c == Enqueued(cat[r], j)
           e == EnqueuedEvent(j, v)
<1>1. cat[r] \in Catalog
  BY MemoryTypes
<1>2. v \in Job /\ v # None
  BY <1>1, NewJobFields, JobFields
<1>3. c \in Catalog /\ c[j] = v /\ \A k \in Jobs : k # j => c[k] = cat[r][k]
  BY <1>1, NewJobFields DEF Enqueued, Catalog
<1>4. e \in Event /\ e.event = "enqueued" /\ e.job = j /\ e.value = v
  BY <1>2 DEF EnqueuedEvent, Event
<1>5. Begin(r, c, e) /\ UNCHANGED <<held, done, counted>>
  BY <1>3 DEF Enqueue
<1> HIDE DEF c, e
<1>6. Changed(cat[r], c, e)
  BY <1>2, <1>3, <1>4 DEF Changed
<1> HIDE DEF v
<1>7. Asks(r, c, e)
  BY <1>4, <1>5, <1>6 DEF Asks
<1> QED BY <1>3, <1>4, <1>7

\* lease
LEMMA LeaseAsks ==
    ASSUME Shape, NEW r \in Runtimes, NEW w \in Workers, NEW ms \in LeaseTimes,
           Lease(r, w, ms)
    PROVE  \E c \in Catalog, e \in Event : Asks(r, c, e)
<1> DEFINE j == Min(Leasable(cat[r], clock))
           old == cat[r][j]
           job == LeaseAt(old, w, clock, ms)
           c == [cat[r] EXCEPT ![j] = job]
           e == LeasedEvent(j, w, job.token, job.expires)
<1>1. /\ cat[r] \in Catalog /\ clock \in Nat
      /\ Until(clock, ms) \in Nat /\ Until(clock, ms) > clock
  BY MemoryTypes
<1>2. j \in Leasable(cat[r], clock)
  <2> DEFINE S == Leasable(cat[r], clock)
  <2>1. S \in SUBSET Nat /\ S # {}
    BY JobsAssumption DEF Lease, Leasable, Known
  <2> HIDE DEF S
  <2>2. \E x \in S : \A y \in S : x <= y
    BY <2>1, LeastNat
  <2>3. Min(S) \in S
    BY <2>2 DEF Min
  <2> QED BY <2>3 DEF S
<1>3. /\ Begin(r, c, e)
      /\ counted' = [counted EXCEPT ![j] = @ + 1]
      /\ UNCHANGED <<held, done>>
  BY DEF Lease
<1> HIDE DEF j
<1>4. j \in Jobs /\ old # None /\ IsLeasable(old, clock)
  BY <1>2 DEF Leasable, Known
<1>5. old \in Job /\ old.attempts \in Nat /\ old.attempts + 1 \in Nat \ {0}
  BY <1>1, <1>4, JobFields
<1> DEFINE m == old.attempts + 1
           u == Until(clock, ms)
<1>6. job = [old EXCEPT !.status = "Leased", !.owner = w, !.token = m,
                        !.attempts = m, !.expires = u, !.after = None]
  BY DEF LeaseAt
<1> HIDE DEF old, job, m, u
<1>7. /\ job \in Job /\ job.token = m /\ job.attempts = m /\ job.status = "Leased"
      /\ job.expires = u
  BY <1>1, <1>5, <1>6 DEF Job, Status, m, u
<1>8. job # None
  BY <1>7, JobIsNotNone
<1>9. c \in Catalog /\ c[j] = job /\ \A k \in Jobs : k # j => c[k] = cat[r][k]
  BY <1>1, <1>4, <1>7 DEF Catalog
<1>10. /\ e \in Event /\ e.event = "leased" /\ e.job = j /\ e.token = m /\ e.until = u
  <2>1. m \in Nat \ {0} /\ u \in Nat
    BY <1>1, <1>5 DEF m, u
  <2>2. e = [event |-> "leased", job |-> j, owner |-> w, token |-> m, until |-> u]
    BY <1>7 DEF LeasedEvent
  <2> HIDE DEF e
  <2> QED BY <2>1, <2>2, <1>4 DEF Event
<1> HIDE DEF c, e
<1>11. Changed(cat[r], c, e)
  BY <1>4, <1>7, <1>8, <1>9, <1>10 DEF Changed, old, m
<1>12. Asks(r, c, e)
  BY <1>1, <1>3, <1>4, <1>10, <1>11 DEF Asks, old, u
<1> QED BY <1>9, <1>10, <1>12

\* What the last three requests have in common.
LEMMA TokenFitsKnown ==
    ASSUME Shape, NEW r \in Runtimes, NEW j \in Jobs, NEW t, TokenFits(cat[r], j, t)
    PROVE  /\ cat[r] \in Catalog
           /\ cat[r][j] # None
           /\ cat[r][j] \in Job
           /\ t \in {0, cat[r][j].token}
<1>1. cat[r] \in Catalog
  BY MemoryTypes
<1>2. cat[r][j] # None /\ t \in {0, cat[r][j].token}
  BY DEF TokenFits, Known
<1> QED BY <1>1, <1>2, JobFields

\* heartbeat
LEMMA HeartbeatAsks ==
    ASSUME Shape, NEW r \in Runtimes, NEW j \in Jobs, NEW t \in Tokens(j),
           NEW ms \in LeaseTimes, Heartbeat(r, j, t, ms)
    PROVE  \E c \in Catalog, e \in Event : Asks(r, c, e)
<1> DEFINE old == cat[r][j]
           u == Until(clock, ms)
           v == [old EXCEPT !.expires = u]
           c == [cat[r] EXCEPT ![j] = v]
           e == HeartbeatEvent(j, t, u)
<1>1. /\ cat[r] \in Catalog /\ old # None /\ old \in Job /\ t \in {0, old.token}
  BY TokenFitsKnown DEF Heartbeat
<1>2. u \in Nat /\ u > clock /\ t \in Nat /\ ToldToken(j, t)
  BY MemoryTypes, TokensAreTold
<1>3. /\ Begin(r, c, e)
      /\ held' = [held EXCEPT ![j] = IF u < @ THEN u ELSE @]
      /\ UNCHANGED <<done, counted>>
  BY DEF Heartbeat, Heartbeaten
<1> HIDE DEF old, u
<1>4. /\ v \in Job /\ v.expires = u /\ v.status = old.status
      /\ v.token = old.token /\ v.attempts = old.attempts
  BY <1>1, <1>2 DEF Job
<1> HIDE DEF v
<1>5. v # None
  BY <1>4, JobIsNotNone
<1>6. c \in Catalog /\ c[j] = v /\ \A k \in Jobs : k # j => c[k] = cat[r][k]
  BY <1>1, <1>4 DEF Catalog
<1>7. e \in Event /\ e.event = "heartbeat" /\ e.job = j /\ e.token = t /\ e.until = u
  BY <1>2 DEF HeartbeatEvent, Event
<1> HIDE DEF c, e
<1>8. Changed(cat[r], c, e)
  BY <1>1, <1>4, <1>5, <1>6, <1>7 DEF Changed, old
<1>9. Asks(r, c, e)
  BY <1>2, <1>3, <1>7, <1>8 DEF Asks
<1> QED BY <1>6, <1>7, <1>9

\* complete
LEMMA CompleteAsks ==
    ASSUME Shape, NEW r \in Runtimes, NEW j \in Jobs, NEW t \in Tokens(j),
           Complete(r, j, t)
    PROVE  \E c \in Catalog, e \in Event : Asks(r, c, e)
<1> DEFINE old == cat[r][j]
           v == [old EXCEPT !.status = "Succeeded", !.expires = None, !.after = None]
           c == [cat[r] EXCEPT ![j] = v]
           e == CompletedEvent(j, t)
<1>1. /\ cat[r] \in Catalog /\ old # None /\ old \in Job /\ t \in {0, old.token}
  BY TokenFitsKnown DEF Complete
<1>2. t \in Nat
  BY TokensAreTold
<1>3. /\ Begin(r, Completed(cat[r], j), e)
      /\ held' = [held EXCEPT ![j] = 0]
      /\ UNCHANGED <<done, counted>>
  BY DEF Complete
<1>4. Completed(cat[r], j) = c
  BY <1>1 DEF Completed, Catalog
<1> HIDE DEF old
<1>5. /\ v \in Job /\ v.status = "Succeeded"
      /\ v.token = old.token /\ v.attempts = old.attempts
  BY <1>1 DEF Job, Status
<1> HIDE DEF v
<1>6. v # None
  BY <1>5, JobIsNotNone
<1>7. c \in Catalog /\ c[j] = v /\ \A k \in Jobs : k # j => c[k] = cat[r][k]
  BY <1>1, <1>5 DEF Catalog
<1>8. e \in Event /\ e.event = "completed" /\ e.job = j /\ e.token = t
  BY <1>2 DEF CompletedEvent, Event
<1> HIDE DEF c, e
<1>9. Changed(cat[r], c, e)
  BY <1>1, <1>5, <1>6, <1>7, <1>8 DEF Changed, old
<1>10. Asks(r, c, e)
  BY <1>3, <1>4, <1>8, <1>9 DEF Asks
<1> QED BY <1>7, <1>8, <1>10

\* fail
LEMMA FailAsks ==
    ASSUME Shape, NEW r \in Runtimes, NEW j \in Jobs, NEW t \in Tokens(j) \cup {0},
           NEW p \in BOOLEAN, Fail(r, j, t, p)
    PROVE  \E c \in Catalog, e \in Event : Asks(r, c, e)
<1> DEFINE old == cat[r][j]
           s == IF p THEN "FailedPermanent"
                ELSE IF old.attempts >= MaxAttempts THEN "DeadLettered"
                ELSE "FailedRetryable"
           v == [old EXCEPT !.expires = None, !.after = clock, !.status = s]
           c == [cat[r] EXCEPT ![j] = v]
           e == FailedEvent(j, t, p, clock)
<1>1. /\ cat[r] \in Catalog /\ old # None /\ old \in Job /\ t \in {0, old.token}
  BY TokenFitsKnown DEF Fail
<1>2. t \in Nat /\ clock \in Nat
  BY MemoryTypes, TokensAreTold
<1>3. /\ Begin(r, Failed(cat[r], j, p, clock), e)
      /\ held' = [held EXCEPT ![j] = 0]
      /\ done' = done \ {j}
      /\ UNCHANGED counted
  BY DEF Fail
<1>4. Failed(cat[r], j, p, clock) = c
  BY <1>1 DEF Failed, Catalog
<1>5. s \in Status /\ s \notin {"Leased", "Succeeded"}
  BY DEF Status
<1> HIDE DEF old, s
<1>6. /\ v \in Job /\ v.status = s
      /\ v.token = old.token /\ v.attempts = old.attempts
  BY <1>1, <1>2, <1>5 DEF Job
<1> HIDE DEF v
<1>7. v # None
  BY <1>6, JobIsNotNone
<1>8. c \in Catalog /\ c[j] = v /\ \A k \in Jobs : k # j => c[k] = cat[r][k]
  BY <1>1, <1>6 DEF Catalog
<1>9. e \in Event /\ e.event = "failed" /\ e.job = j /\ e.token = t
  BY <1>2 DEF FailedEvent, Event
<1> HIDE DEF c, e
<1>10. Changed(cat[r], c, e)
  BY <1>1, <1>5, <1>6, <1>7, <1>8, <1>9 DEF Changed, old
<1>11. Asks(r, c, e)
  BY <1>3, <1>4, <1>9, <1>10 DEF Asks
<1> QED BY <1>8, <1>9, <1>11

\* Every step is one of these.
LEMMA StepCases ==
    ASSUME Shape, Next
    PROVE  \/ \E r \in Runtimes :
                \/ OpenRuntime(r) \/ OpenRuntimeFails(r)
                \/ PersistEvent(r) \/ PersistCheckpoint(r) \/ WriteFails(r)
                \/ \E c \in Catalog, e \in Event : Asks(r, c, e)
           \/ Tick
           \/ Crash
BY EnqueueAsks, LeaseAsks, HeartbeatAsks, CompleteAsks, FailAsks DEF Next

-----------------------------------------------------------------------------
(* Types *)

\* What replays of a longer log do, event by event.
LEMMA ReplayLonger ==
    ASSUME NEW log \in Seq(Event), NEW e \in Event, Replays(log),
           NEW more, more = Append(log, e), NEW c \in Catalog
    PROVE  /\ Replay(c, log) \in Outcome
           /\ Replay(c, more) \in Outcome
           /\ Final(c, log) \in Catalog
           /\ Final(c, more) \in Catalog
           /\ Replay(c, more).ok <=> Replay(c, log).ok /\ EventFits(Final(c, log), e)
           /\ Replay(c, more).ok => Effect(Final(c, log), Final(c, more), e)
           /\ ~Replay(c, more).ok => Final(c, more) = Final(c, log)
<1>1. Replay(c, log) \in Outcome
  BY DEF Replays
<1>2. Replay(c, more) = ReplayEvent(Replay(c, log), e)
  BY ReplayAppend
<1>3. PICK o \in Outcome : o = Replay(c, log)
  BY <1>1
<1>4. PICK n : n = Replay(c, more)
  OBVIOUS
<1>5. /\ n \in Outcome
      /\ n.ok <=> o.ok /\ EventFits(o.cat, e)
      /\ n.ok => Effect(o.cat, n.cat, e)
      /\ ~n.ok => n.cat = o.cat
  BY <1>2, <1>3, <1>4, ReplayOneEvent
<1>6. o.cat \in Catalog /\ n.cat \in Catalog
  BY <1>5 DEF Outcome
<1> QED BY <1>3, <1>4, <1>5, <1>6 DEF Final

\* A longer log still replays.
LEMMA ReplaysLonger ==
    ASSUME NEW log \in Seq(Event), NEW e \in Event, Replays(log),
           NEW more, more = Append(log, e)
    PROVE  Replays(more)
<1> SUFFICES ASSUME NEW c \in Catalog
             PROVE  /\ Replay(c, more) \in Outcome
                    /\ \A j \in Known(c) :
                        /\ Final(c, more)[j] # None
                        /\ c[j].attempts <= Final(c, more)[j].attempts
  BY DEF Replays
<1>1. Replay(c, more) \in Outcome
  BY ReplayLonger
<1>2. ASSUME NEW j \in Known(c)
      PROVE  /\ Final(c, more)[j] # None
             /\ c[j].attempts <= Final(c, more)[j].attempts
  <2>1. j \in Jobs /\ c[j] # None /\ c[j].attempts \in Nat
    BY JobFields DEF Known
  <2>2. PICK d \in Catalog : d = Final(c, log)
    BY ReplayLonger
  <2>3. PICK n \in Catalog : n = Final(c, more)
    BY ReplayLonger
  <2>4. d[j] # None /\ c[j].attempts <= d[j].attempts
    BY <2>2 DEF Replays
  <2>5. d[j].attempts \in Nat
    BY <2>1, <2>4, JobFields
  <2>6. CASE n = d
    BY <2>3, <2>4, <2>6
  <2>7. CASE Effect(d, n, e)
    <3>1. e.job \in Jobs
      BY EventFields
    <3>2. n[j] # None /\ (n[j] = d[j] \/ d[j].attempts <= n[j].attempts)
      BY <2>1, <2>4, <2>7 DEF Effect
    <3>3. n[j].attempts \in Nat
      BY <2>1, <3>2, JobFields
    <3>4. d[j].attempts <= n[j].attempts
      BY <3>2, <2>5
    <3>5. c[j].attempts <= n[j].attempts
      BY <2>1, <2>4, <2>5, <3>3, <3>4
    <3> QED BY <2>3, <3>2, <3>5
  <2>8. n = d \/ Effect(d, n, e)
    BY <2>2, <2>3, ReplayLonger
  <2> QED BY <2>6, <2>7, <2>8
<1> QED BY <1>1, <1>2

\* The empty log replays.
LEMMA EmptyReplays == Replays(<<>>)
<1> SUFFICES ASSUME NEW c \in Catalog
             PROVE  /\ Replay(c, <<>>) \in Outcome
                    /\ \A j \in Known(c) :
                        /\ Final(c, <<>>)[j] # None
                        /\ c[j].attempts <= Final(c, <<>>)[j].attempts
  BY DEF Replays
<1>1. Replay(c, <<>>) = [ok |-> TRUE, cat |-> c]
  BY ReplayNone
<1>2. PICK o : o = Replay(c, <<>>)
  OBVIOUS
<1>4. o \in Outcome /\ o.cat = c
  <2>1. o = [ok |-> TRUE, cat |-> c]
    BY <1>1, <1>2
  <2> QED BY <2>1 DEF Outcome
<1>5. Replay(c, <<>>) \in Outcome /\ Final(c, <<>>) = c
  BY <1>2, <1>4 DEF Final
<1>3. \A j \in Known(c) : c[j] # None /\ c[j].attempts \in Nat
  BY JobFields DEF Known
<1>6. \A j \in Known(c) : c[j].attempts <= c[j].attempts
  BY <1>3
<1> QED BY <1>3, <1>5, <1>6

\* The first state is well typed.
LEMMA InitShape ==
    ASSUME Init
    PROVE  Shape
<1>1. EmptyCatalog \in Catalog
  BY DEF EmptyCatalog, Catalog
<1>2. \A r \in Runtimes : ~Pending(r)
  BY DEF Init, Pending
<1>3. events = <<>> /\ Replays(events)
  BY EmptyReplays DEF Init
<1>4. /\ file \in Catalog
      /\ events \in Seq(Event)
      /\ state \in [Runtimes -> {"closed", "idle", "event", "checkpoint", "failed"}]
      /\ cat \in [Runtimes -> Catalog]
      /\ request \in [Runtimes -> Event \cup {None}]
  BY <1>1 DEF Init
<1>5. clock \in 0..MaxTime /\ requests \in 0..MaxRequests /\ crashes \in 0..MaxCrashes
  BY RuntimeAssumption DEF Init
<1>6. leases \in Seq([job : Jobs, token : Nat \ {0}])
  BY DEF Init
<1>7. held \in [Jobs -> Nat] /\ counted \in [Jobs -> Nat]
  BY DEF Init
<1>8. done \in SUBSET Jobs /\ ioFailed \in BOOLEAN
  BY Zenon DEF Init
<1> QED BY <1>2, <1>3, <1>4, <1>5, <1>6, <1>7, <1>8 DEF Shape

\* Every step keeps the types.
LEMMA ShapeKept ==
    ASSUME Shape, [Next]_vars
    PROVE  Shape'
<1> USE RuntimeAssumption DEF Shape
<1>1. CASE UNCHANGED vars
  BY <1>1 DEF vars, Pending
<1>2. ASSUME NEW r \in Runtimes, OpenRuntime(r)
      PROVE  Shape'
  <2>1. Recovered.cat \in Catalog
    <3>1. PICK o : o = Replay(file, events)
      OBVIOUS
    <3>2. o \in Outcome
      BY <3>1 DEF Replays
    <3> QED BY <3>1, <3>2 DEF Recovered, Outcome
  <2>2. PICK c \in Catalog : c = Recovered.cat
    BY <2>1
  <2>3. /\ cat' = [cat EXCEPT ![r] = c] /\ file' = c
        /\ state' = [state EXCEPT ![r] = "idle"]
        /\ UNCHANGED <<events, request, clock, requests, crashes, ghosts>>
    BY <1>2, <2>2 DEF OpenRuntime
  <2>4. \A q \in Runtimes : Pending(q)' => Pending(q)
    BY <2>3 DEF Pending
  <2> QED BY <2>3, <2>4 DEF ghosts
<1>3. ASSUME NEW r \in Runtimes, OpenRuntimeFails(r)
      PROVE  Shape'
  <2>1. \A q \in Runtimes : Pending(q)' => Pending(q)
    BY <1>3 DEF Pending, OpenRuntimeFails
  <2> QED BY <1>3, <2>1 DEF OpenRuntimeFails, ghosts
<1>4. ASSUME NEW r \in Runtimes, PersistEvent(r)
      PROVE  Shape'
  <2>1. request[r] \in Event
    BY <1>4 DEF PersistEvent, Pending
  <2>2. PICK e \in Event : e = request[r]
    BY <2>1
  <2>3. PICK log \in Seq(Event) : log = events
    OBVIOUS
  <2>4. PICK more : more = Append(log, e)
    OBVIOUS
  <2>5. events' = more /\ more \in Seq(Event)
    BY <1>4, <2>2, <2>3, <2>4 DEF PersistEvent
  <2>6. Replays(more)
    BY <2>3, <2>4, ReplaysLonger
  <2>7. \A q \in Runtimes : Pending(q)' => Pending(q)
    BY <1>4 DEF Pending, PersistEvent
  <2> QED BY <1>4, <2>5, <2>6, <2>7 DEF PersistEvent, ghosts
<1>5. ASSUME NEW r \in Runtimes, PersistCheckpoint(r)
      PROVE  Shape'
  <2>1. request[r] \in Event
    BY <1>5 DEF PersistCheckpoint, Pending
  <2>2. PICK e \in Event : e = request[r]
    BY <2>1
  <2>3. \A q \in Runtimes : Pending(q)' => Pending(q)
    BY <1>5 DEF Pending, PersistCheckpoint
  <2>4. leases' \in Seq([job : Jobs, token : Nat \ {0}])
    <3>1. CASE e.event = "leased"
      <4> DEFINE l == [job |-> e.job, token |-> e.token]
      <4>1. l \in [job : Jobs, token : Nat \ {0}]
        BY <3>1, EventFields
      <4>2. leases' = Append(leases, l)
        BY <1>5, <2>2, <3>1 DEF PersistCheckpoint
      <4> HIDE DEF l
      <4> QED BY <4>1, <4>2
    <3>2. CASE e.event # "leased"
      BY <1>5, <2>2, <3>2 DEF PersistCheckpoint
    <3> QED BY <3>1, <3>2
  <2>5. held' \in [Jobs -> Nat]
    <3>1. e.event \in {"leased", "heartbeat"} => e.until \in Nat
      BY EventFields
    <3> QED BY <1>5, <2>2, <3>1 DEF PersistCheckpoint
  <2>6. done' \in SUBSET Jobs
    BY <1>5, <2>2, EventFields DEF PersistCheckpoint
  <2>7. file' \in Catalog
    BY <1>5 DEF PersistCheckpoint
  <2> QED BY <1>5, <2>3, <2>4, <2>5, <2>6, <2>7 DEF PersistCheckpoint
<1>6. ASSUME NEW r \in Runtimes, WriteFails(r)
      PROVE  Shape'
  <2>1. \A q \in Runtimes : Pending(q)' => Pending(q)
    BY <1>6 DEF Pending, WriteFails
  <2> QED BY <1>6, <2>1 DEF WriteFails
<1>7. ASSUME NEW r \in Runtimes, NEW c \in Catalog, NEW e \in Event, Asks(r, c, e)
      PROVE  Shape'
  <2>1. Begin(r, c, e)
    BY <1>7 DEF Asks
  <2>2. \A q \in Runtimes : Pending(q)' => request'[q] \in Event
    BY <2>1 DEF Pending, Begin
  <2>3. requests' \in 0..MaxRequests
    BY <2>1 DEF Begin
  <2>4. held' \in [Jobs -> Nat]
    BY <1>7 DEF Asks
  <2>5. done' \in SUBSET Jobs
    BY <1>7 DEF Asks
  <2>6. counted' \in [Jobs -> Nat]
    BY <1>7, EventFields DEF Asks
  <2> QED BY <2>1, <2>2, <2>3, <2>4, <2>5, <2>6 DEF Begin
<1>8. CASE Tick
  <2>1. \A q \in Runtimes : Pending(q)' => Pending(q)
    BY <1>8 DEF Pending, Tick
  <2> QED BY <1>8, <2>1 DEF Tick, ghosts
<1>9. CASE Crash
  <2>1. \A q \in Runtimes : ~Pending(q)'
    BY <1>9 DEF Pending, Crash
  <2>2. EmptyCatalog \in Catalog
    BY DEF EmptyCatalog, Catalog
  <2> QED BY <1>9, <2>1, <2>2 DEF Crash, ghosts
<1> QED BY <1>1, <1>2, <1>3, <1>4, <1>5, <1>6, <1>7, <1>8, <1>9, StepCases

-----------------------------------------------------------------------------
(* Tokens *)

\* A catalog covers itself.
LEMMA CoversSelf ==
    ASSUME NEW c \in Catalog
    PROVE  Covers(c, c)
BY JobFields DEF Covers, Known

\* Covering is transitive.
LEMMA CoversTrans ==
    ASSUME NEW a \in Catalog, NEW b \in Catalog, NEW c \in Catalog,
           Covers(a, b), Covers(b, c)
    PROVE  Covers(a, c)
<1> SUFFICES ASSUME NEW j \in Known(c)
             PROVE  a[j] # None /\ c[j].attempts <= a[j].attempts
  BY DEF Covers
<1>1. j \in Jobs /\ c[j] # None
  BY DEF Known
<1>2. b[j] # None /\ c[j].attempts <= b[j].attempts
  BY DEF Covers
<1>3. j \in Known(b)
  BY <1>1, <1>2 DEF Known
<1>4. a[j] # None /\ b[j].attempts <= a[j].attempts
  BY <1>3 DEF Covers
<1>5. a[j].attempts \in Nat /\ b[j].attempts \in Nat /\ c[j].attempts \in Nat
  BY <1>1, <1>2, <1>4, JobFields
<1> QED BY <1>2, <1>4, <1>5

\* A request makes a catalog that covers the one before.
LEMMA ChangedCovers ==
    ASSUME NEW d \in Catalog, NEW c \in Catalog, NEW e \in Event, Changed(d, c, e)
    PROVE  Covers(c, d)
<1> SUFFICES ASSUME NEW j \in Known(d)
             PROVE  c[j] # None /\ d[j].attempts <= c[j].attempts
  BY DEF Covers
<1>1. j \in Jobs /\ d[j] # None /\ d[j].attempts \in Nat
  BY JobFields DEF Known
<1>2. CASE j # e.job
  BY <1>1, <1>2 DEF Changed
<1>3. CASE j = e.job
  <2>1. c[j] # None
    BY <1>3 DEF Changed
  <2>2. \/ c[j] = d[j]
        \/ c[j].attempts = d[j].attempts + 1
        \/ c[j].attempts = d[j].attempts
    BY <1>1, <1>3 DEF Changed
  <2> QED BY <1>1, <2>1, <2>2
<1> QED BY <1>2, <1>3

\* What open rebuilds covers the checkpoint.
LEMMA RecoveredCovers ==
    ASSUME Shape
    PROVE  /\ Recovered.cat \in Catalog
           /\ Recovered.cat = Final(file, events)
           /\ Covers(Recovered.cat, file)
<1>1. PICK o : o = Replay(file, events)
  OBVIOUS
<1>2. /\ o \in Outcome
      /\ \A j \in Known(file) : o.cat[j] # None /\ file[j].attempts <= o.cat[j].attempts
  BY <1>1 DEF Replays, Shape, Final
<1>3. Recovered = o
  BY <1>1 DEF Recovered
<1>4. o.cat \in Catalog
  BY <1>2 DEF Outcome
<1> QED BY <1>1, <1>2, <1>3, <1>4 DEF Covers, Final

\* The leases told have their types.
LEMMA LeaseFields ==
    ASSUME Shape, NEW i \in 1..Len(leases)
    PROVE  leases[i].job \in Jobs /\ leases[i].token \in Nat \ {0}
<1> DEFINE L == [job : Jobs, token : Nat \ {0}]
<1>1. leases \in Seq(L)
  BY DEF Shape
<1>2. \A l \in L : l.job \in Jobs /\ l.token \in Nat \ {0}
  OBVIOUS
<1> HIDE DEF L
<1>3. leases[i] \in L
  BY <1>1
<1> QED BY <1>2, <1>3

\* Nothing is told in the first state.
LEMMA InitLeases ==
    ASSUME Init
    PROVE  LeaseInv
<1>1. leases = <<>> /\ \A r \in Runtimes : ~Opened(r) /\ ~Pending(r)
  BY DEF Init, Opened, Pending
<1>2. 1..Len(leases) = {}
  BY <1>1
<1> QED BY <1>1, <1>2 DEF LeaseInv, LeasesRise, ToldCounted, MemoryAhead, LeaseAhead

\* Every step of a single runtime keeps the tokens in order.
LEMMA LeasesKept ==
    ASSUME OneRuntime, Shape, Shape', LeaseInv, [Next]_vars
    PROVE  LeaseInv'
<1> USE DEF LeaseInv
<1>1. ASSUME UNCHANGED <<file, cat, request, leases>>,
             \A r \in Runtimes : /\ Opened(r)' => Opened(r)
                                 /\ Pending(r)' => Pending(r)
      PROVE  LeaseInv'
  BY <1>1 DEF LeasesRise, ToldCounted, MemoryAhead, LeaseAhead, Covers, Known
<1>2. CASE UNCHANGED vars
  BY <1>1, <1>2 DEF vars, Opened, Pending
<1>3. ASSUME NEW r \in Runtimes, OpenRuntime(r)
      PROVE  LeaseInv'
  <2>1. PICK c \in Catalog : c = Recovered.cat /\ Covers(c, file)
    BY RecoveredCovers
  <2>2. /\ cat'[r] = c /\ file' = c /\ leases' = leases
        /\ state'[r] = "idle"
    BY <1>3, <2>1 DEF OpenRuntime, ghosts, Shape
  <2>3. LeasesRise'
    BY <2>2 DEF LeasesRise
  <2>4. ToldCounted'
    <3> SUFFICES ASSUME NEW i \in 1..Len(leases)
                 PROVE  c[leases[i].job] # None /\ leases[i].token <= c[leases[i].job].attempts
      BY <2>2 DEF ToldCounted
    <3>1. PICK j \in Jobs, t \in Nat : j = leases[i].job /\ t = leases[i].token
      BY LeaseFields
    <3>2. file[j] # None /\ t <= file[j].attempts
      BY <3>1 DEF ToldCounted
    <3>3. c[j] # None /\ file[j].attempts <= c[j].attempts
      BY <2>1, <3>2 DEF Covers, Known
    <3>4. file[j].attempts \in Nat /\ c[j].attempts \in Nat
      BY <3>2, <3>3, JobFields DEF Shape
    <3> QED BY <3>1, <3>2, <3>3, <3>4
  <2>5. MemoryAhead'
    BY <2>2, CoversSelf DEF MemoryAhead, OneRuntime, Covers, Known
  <2>6. LeaseAhead'
    BY <2>2 DEF LeaseAhead, OneRuntime, Pending
  <2> QED BY <2>3, <2>4, <2>5, <2>6
<1>4. ASSUME NEW r \in Runtimes, OpenRuntimeFails(r)
      PROVE  LeaseInv'
  BY <1>1, <1>4 DEF OpenRuntimeFails, ghosts, Opened, Pending, Shape
<1>5. ASSUME NEW r \in Runtimes, PersistEvent(r)
      PROVE  LeaseInv'
  BY <1>1, <1>5 DEF PersistEvent, ghosts, Opened, Pending, Shape
<1>6. ASSUME NEW r \in Runtimes, PersistCheckpoint(r)
      PROVE  LeaseInv'
  <2>1. PICK e \in Event : e = request[r]
    BY <1>6 DEF PersistCheckpoint, Pending, Shape
  <2>2. /\ state'[r] = "idle" /\ file' = cat[r] /\ cat' = cat
        /\ leases' = IF e.event = "leased"
                     THEN Append(leases, [job |-> e.job, token |-> e.token])
                     ELSE leases
    BY <1>6, <2>1 DEF PersistCheckpoint, Shape
  <2>3. PICK c \in Catalog : c = cat[r]
    BY DEF Shape
  <2>4. Covers(c, file)
    BY <1>6, <2>3 DEF MemoryAhead, PersistCheckpoint, Opened, Pending
  <2>5. MemoryAhead'
    BY <2>2, <2>3, CoversSelf DEF MemoryAhead, OneRuntime, Covers, Known
  <2>6. LeaseAhead'
    BY <2>2 DEF LeaseAhead, OneRuntime, Pending
  <2>7. ASSUME NEW i \in 1..Len(leases)
        PROVE  /\ c[leases[i].job] # None
               /\ leases[i].token <= c[leases[i].job].attempts
    <3>1. PICK j \in Jobs, t \in Nat : j = leases[i].job /\ t = leases[i].token
      BY LeaseFields
    <3>2. file[j] # None /\ t <= file[j].attempts
      BY <3>1 DEF ToldCounted
    <3>3. c[j] # None /\ file[j].attempts <= c[j].attempts
      BY <2>4, <3>2 DEF Covers, Known
    <3>4. file[j].attempts \in Nat /\ c[j].attempts \in Nat
      BY <3>2, <3>3, JobFields DEF Shape
    <3> QED BY <3>1, <3>2, <3>3, <3>4
  <2>8. CASE e.event # "leased"
    <3>1. leases' = leases
      BY <2>2, <2>8
    <3>2. LeasesRise' /\ ToldCounted'
      BY <2>2, <2>3, <2>7, <3>1 DEF LeasesRise, ToldCounted
    <3> QED BY <2>5, <2>6, <3>2
  <2>9. CASE e.event = "leased"
    <3> DEFINE l == [job |-> e.job, token |-> e.token]
               N == Len(leases)
    <3>1. l.job \in Jobs /\ l.token \in Nat /\ l.job = e.job /\ l.token = e.token
      BY <2>9, EventFields
    <3>2. /\ c[l.job] # None /\ c[l.job].attempts = l.token
          /\ file[l.job] # None => file[l.job].attempts < l.token
      BY <1>6, <2>1, <2>3, <2>9, <3>1 DEF LeaseAhead, PersistCheckpoint, Pending
    <3>3. leases' = Append(leases, l)
      BY <2>2, <2>9
    <3> HIDE DEF l
    <3>4. /\ N \in Nat /\ Len(leases') = N + 1 /\ leases'[N + 1] = l
          /\ \A i \in 1..N : leases'[i] = leases[i]
      <4>1. leases \in Seq([job : Jobs, token : Nat \ {0}])
        BY DEF Shape
      <4> QED BY <3>3, <4>1
    <3> HIDE DEF N
    <3>5. \A i \in 1..N : leases[i].job = l.job => leases[i].token < l.token
      <4> SUFFICES ASSUME NEW i \in 1..N, leases[i].job = l.job
                   PROVE  leases[i].token < l.token
        OBVIOUS
      <4>1. leases[i].token \in Nat
        BY LeaseFields DEF N
      <4>2. file[l.job] # None /\ leases[i].token <= file[l.job].attempts
        BY DEF ToldCounted, N
      <4>3. file[l.job].attempts \in Nat
        BY <3>1, <4>2, JobFields DEF Shape
      <4> QED BY <3>1, <3>2, <4>1, <4>2, <4>3
    <3>6. LeasesRise'
      <4> SUFFICES ASSUME NEW a \in 1..(N + 1), NEW b \in 1..(N + 1), a < b,
                          leases'[a].job = leases'[b].job
                   PROVE  leases'[a].token < leases'[b].token
        BY <3>4 DEF LeasesRise
      <4>1. a \in 1..N
        BY <3>4
      <4>2. CASE b = N + 1
        BY <3>4, <3>5, <4>1, <4>2
      <4>3. CASE b \in 1..N
        BY <3>4, <4>1, <4>3 DEF LeasesRise, N
      <4> QED BY <3>4, <4>2, <4>3
    <3>7. ToldCounted'
      <4> SUFFICES ASSUME NEW i \in 1..(N + 1)
                   PROVE  /\ c[leases'[i].job] # None
                          /\ leases'[i].token <= c[leases'[i].job].attempts
        BY <2>2, <2>3, <3>4 DEF ToldCounted
      <4>1. CASE i = N + 1
        BY <3>1, <3>2, <3>4, <4>1
      <4>2. CASE i \in 1..N
        BY <3>4, <2>7, <4>2 DEF N
      <4> QED BY <3>4, <4>1, <4>2
    <3> QED BY <2>5, <2>6, <3>6, <3>7
  <2> QED BY <2>8, <2>9
<1>7. ASSUME NEW r \in Runtimes, WriteFails(r)
      PROVE  LeaseInv'
  <2>1. \A q \in Runtimes : (Opened(q)' => Opened(q)) /\ (Pending(q)' => Pending(q))
    BY <1>7 DEF WriteFails, Opened, Pending, Shape
  <2> QED BY <1>1, <1>7, <2>1 DEF WriteFails
<1>8. ASSUME NEW r \in Runtimes, NEW c \in Catalog, NEW e \in Event, Asks(r, c, e)
      PROVE  LeaseInv'
  <2>1. Begin(r, c, e) /\ Changed(cat[r], c, e)
    BY <1>8 DEF Asks
  <2>2. /\ state[r] = "idle" /\ cat'[r] = c /\ request'[r] = e
        /\ file' = file /\ leases' = leases
    BY <2>1 DEF Begin, Shape
  <2>3. PICK d \in Catalog : d = cat[r]
    BY DEF Shape
  <2>4. Covers(d, file)
    BY <2>2, <2>3 DEF MemoryAhead, Opened
  <2>5. Covers(c, d)
    BY <2>1, <2>3, ChangedCovers
  <2>6. Covers(c, file)
    BY <2>4, <2>5, CoversTrans DEF Shape
  <2>7. LeasesRise' /\ ToldCounted'
    BY <2>2 DEF LeasesRise, ToldCounted
  <2>8. MemoryAhead'
    BY <2>2, <2>6 DEF MemoryAhead, OneRuntime, Covers, Known
  <2>9. LeaseAhead'
    <3> SUFFICES ASSUME e.event = "leased"
                 PROVE  /\ c[e.job] # None
                        /\ c[e.job].attempts = e.token
                        /\ file[e.job] # None => file[e.job].attempts < e.token
      BY <2>2 DEF LeaseAhead, OneRuntime
    <3>1. /\ c[e.job] # None /\ d[e.job] # None
          /\ c[e.job].attempts = e.token
          /\ e.token = d[e.job].attempts + 1
      BY <2>1, <2>3 DEF Changed
    <3>2. e.job \in Jobs
      BY EventFields
    <3>3. ASSUME file[e.job] # None
          PROVE  file[e.job].attempts < e.token
      <4>1. file[e.job].attempts <= d[e.job].attempts
        BY <2>4, <3>2, <3>3 DEF Covers, Known
      <4>2. file[e.job].attempts \in Nat /\ d[e.job].attempts \in Nat
        BY <3>1, <3>2, <3>3, JobFields DEF Shape
      <4> QED BY <3>1, <4>1, <4>2
    <3> QED BY <3>1, <3>3
  <2> QED BY <2>7, <2>8, <2>9
<1>9. CASE Tick
  BY <1>1, <1>9 DEF Tick, ghosts, Opened, Pending
<1>10. CASE Crash
  <2>1. /\ file' = file /\ leases' = leases
        /\ \A q \in Runtimes : ~Opened(q)' /\ ~Pending(q)'
    BY <1>10 DEF Crash, ghosts, Opened, Pending
  <2> QED BY <2>1 DEF LeasesRise, ToldCounted, MemoryAhead, LeaseAhead
<1> QED BY <1>2, <1>3, <1>4, <1>5, <1>6, <1>7, <1>8, <1>9, <1>10, StepCases

-----------------------------------------------------------------------------
(* Recovery *)

\* The log grows by an event that fits whatever it is replayed on.
Extended(log, more, e) ==
    \A c \in Catalog :
        /\ Final(c, log) \in Catalog
        /\ Final(c, more) \in Catalog
        /\ Effect(Final(c, log), Final(c, more), e)

\* An event that fits everywhere extends the log.
LEMMA FitsExtends ==
    ASSUME NEW log \in Seq(Event), NEW e \in Event, Replays(log),
           NEW more, more = Append(log, e), AllReplay(log),
           \A c \in Catalog : EventFits(Final(c, log), e)
    PROVE  AllReplay(more) /\ Extended(log, more, e)
<1> SUFFICES ASSUME NEW c \in Catalog
             PROVE  /\ Replay(c, more).ok
                    /\ Final(c, log) \in Catalog
                    /\ Final(c, more) \in Catalog
                    /\ Effect(Final(c, log), Final(c, more), e)
  BY DEF AllReplay, Extended
<1>1. Replay(c, log).ok /\ EventFits(Final(c, log), e)
  BY DEF AllReplay
<1> QED BY <1>1, ReplayLonger

\* What is known to every replay stays known, and so does the job of e.
LEMMA KnownKept ==
    ASSUME NEW log, NEW more, NEW e \in Event, Extended(log, more, e), NEW j \in Jobs
    PROVE  /\ KnownBy(log, j) => KnownBy(more, j)
           /\ KnownBy(more, e.job)
           /\ KnownAlike(log, j) => KnownAlike(more, j)
<1>1. ASSUME NEW c \in Catalog
      PROVE  /\ Final(c, more)[e.job] # None
             /\ j # e.job => Final(c, more)[j] = Final(c, log)[j]
  BY DEF Extended, Effect
<1> QED BY <1>1 DEF KnownBy, KnownAlike

\* Only a lease changes the token of a job that is known.
LEMMA TokenKept ==
    ASSUME NEW log, NEW more, NEW e \in Event, Extended(log, more, e),
           NEW j \in Jobs, NEW c \in Catalog, Final(c, log)[j] # None,
           e.event = "leased" => j # e.job
    PROVE  Final(c, more)[j] # None /\ Final(c, more)[j].token = Final(c, log)[j].token
<1>1. PICK d, n : d = Final(c, log) /\ n = Final(c, more) /\ Effect(d, n, e)
  BY DEF Extended
<1>2. e.event \in {"enqueued", "leased", "heartbeat", "completed", "failed"}
  BY EventFields
<1>3. CASE j # e.job
  BY <1>1, <1>3 DEF Effect
<1>4. CASE j = e.job
  BY <1>1, <1>2, <1>4 DEF Effect
<1> QED BY <1>3, <1>4

\* What the log says of the tokens stays true as it grows; a lease makes the
\* token of its job the one of every replay.
LEMMA TokensKept ==
    ASSUME NEW log, NEW more, NEW e \in Event, Replays(log), Extended(log, more, e),
           NEW j \in Jobs
    PROVE  /\ SameToken(log, j) => SameToken(more, j)
           /\ e.event = "leased" /\ j = e.job =>
                SameToken(more, j) /\ TokenIsIn(more, j, e.token)
           /\ \A t \in Nat : ~(e.event = "leased" /\ j = e.job) /\ TokenIsIn(log, j, t)
                => TokenIsIn(more, j, t)
           /\ /\ KeepsToken(log, j)
              /\ ~(e.event = "leased" /\ j = e.job)
              /\ e.event = "enqueued" /\ j = e.job => e.value.token = 0
              => KeepsToken(more, j)
<1>1. ASSUME e.event = "leased", j = e.job
      PROVE  SameToken(more, j) /\ TokenIsIn(more, j, e.token)
  <2>1. \A c \in Catalog : Final(c, more)[j] # None /\ Final(c, more)[j].token = e.token
    BY <1>1 DEF Extended, Effect
  <2> QED BY <2>1 DEF SameToken, TokenIsIn
<1>2. ASSUME ~(e.event = "leased" /\ j = e.job), SameToken(log, j)
      PROVE  SameToken(more, j)
  <2>1. \A c \in Catalog : Final(c, log)[j] # None
    BY <1>2 DEF SameToken
  <2>2. \A c \in Catalog : /\ Final(c, more)[j] # None
                           /\ Final(c, more)[j].token = Final(c, log)[j].token
    BY <1>2, <2>1, TokenKept
  <2> QED BY <1>2, <2>2 DEF SameToken
<1>3. ASSUME NEW t \in Nat, ~(e.event = "leased" /\ j = e.job), TokenIsIn(log, j, t)
      PROVE  TokenIsIn(more, j, t)
  BY <1>3, TokenKept DEF TokenIsIn
<1>4. ASSUME KeepsToken(log, j), ~(e.event = "leased" /\ j = e.job),
             e.event = "enqueued" /\ j = e.job => e.value.token = 0
      PROVE  KeepsToken(more, j)
  <2> SUFFICES ASSUME NEW c \in Catalog, Final(c, more)[j] # None
               PROVE  Final(c, more)[j].token = IF c[j] = None THEN 0 ELSE c[j].token
    BY DEF KeepsToken
  <2>1. CASE Final(c, log)[j] # None
    <3>1. Final(c, more)[j].token = Final(c, log)[j].token
      BY <1>4, <2>1, TokenKept
    <3> QED BY <1>4, <2>1, <3>1 DEF KeepsToken
  <2>2. CASE Final(c, log)[j] = None
    <3>1. PICK d, n : d = Final(c, log) /\ n = Final(c, more) /\ Effect(d, n, e)
      BY DEF Extended
    <3>2. e.event \in {"enqueued", "leased", "heartbeat", "completed", "failed"}
      BY EventFields
    <3>3. j = e.job /\ e.event = "enqueued" /\ n[j] = e.value
      BY <2>2, <3>1, <3>2 DEF Effect
    <3>4. n[j].token = 0
      BY <1>4, <3>3
    <3>5. c[j] = None
      BY <2>2 DEF Replays, Known
    <3> QED BY <3>1, <3>4, <3>5
  <2> QED BY <2>1, <2>2
<1> QED BY <1>1, <1>2, <1>3, <1>4

\* A log whose new event is no lease ahead of the checkpoint makes no token of
\* a later attempt.
LEMMA SaneKept ==
    ASSUME NEW log, NEW more, NEW e \in Event, Replays(log), Extended(log, more, e),
           NEW f \in Catalog, SaneBy(log, f),
           e.event = "enqueued" => e.value.token <= e.value.attempts,
           e.event = "leased" => f[e.job] # None /\ e.token <= f[e.job].attempts + 1
    PROVE  SaneBy(more, f)
<1> SUFFICES ASSUME NEW c \in Catalog, Sane(c), Covers(c, f),
                    NEW j \in Known(Final(c, more))
             PROVE  Final(c, more)[j].token <= Final(c, more)[j].attempts
  BY DEF SaneBy, Sane
<1>1. PICK d \in Catalog, n \in Catalog :
        d = Final(c, log) /\ n = Final(c, more) /\ Effect(d, n, e)
  BY DEF Extended
<1>2. j \in Jobs /\ n[j] # None
  BY <1>1 DEF Known
<1>3. Sane(d)
  BY <1>1 DEF SaneBy
<1>4. e.event \in {"enqueued", "leased", "heartbeat", "completed", "failed"}
  BY EventFields
<1>5. CASE j # e.job
  <2>1. n[j] = d[j] /\ j \in Known(d)
    BY <1>1, <1>2, <1>5 DEF Effect, Known
  <2> QED BY <1>1, <1>3, <2>1 DEF Sane
<1>6. CASE j = e.job /\ e.event = "leased"
  <2>1. /\ d[j] # None /\ n[j].token = e.token /\ n[j].attempts = d[j].attempts + 1
    BY <1>1, <1>6 DEF Effect
  <2>2. f[j] # None /\ e.token <= f[j].attempts + 1
    BY <1>6
  <2>3. c[j] # None /\ f[j].attempts <= c[j].attempts
    BY <1>2, <2>2 DEF Covers, Known
  <2>4. c[j].attempts <= d[j].attempts
    BY <1>1, <1>2, <2>3 DEF Replays, Known
  <2>5. f[j].attempts \in Nat /\ c[j].attempts \in Nat /\ d[j].attempts \in Nat
    BY <1>2, <2>1, <2>2, <2>3, JobFields
  <2>6. e.token \in Nat
    BY <1>6, EventFields
  <2>7. e.token <= d[j].attempts + 1
    BY <2>2, <2>3, <2>4, <2>5, <2>6
  <2> QED BY <1>1, <2>1, <2>7
<1>7. CASE j = e.job /\ e.event = "enqueued"
  <2>1. (n[j] = d[j] /\ j \in Known(d)) \/ n[j] = e.value
    BY <1>1, <1>2, <1>7 DEF Effect, Known
  <2> QED BY <1>1, <1>3, <1>7, <2>1 DEF Sane
<1>8. CASE j = e.job /\ e.event \in {"heartbeat", "completed", "failed"}
  <2>1. /\ j \in Known(d) /\ n[j].token = d[j].token /\ n[j].attempts = d[j].attempts
    BY <1>1, <1>2, <1>8 DEF Effect, Known
  <2> QED BY <1>1, <1>3, <2>1 DEF Sane
<1> QED BY <1>4, <1>5, <1>6, <1>7, <1>8

\* The event is written.
LEMMA RecoveryEvent ==
    ASSUME OneRuntime, Shape, Shape', RecoveryInv,
           NEW r \in Runtimes, PersistEvent(r)
    PROVE  RecoveryInv'
<1>1. PICK e \in Event : e = request[r]
  BY DEF Shape, PersistEvent, Pending
<1>2. PICK log \in Seq(Event) : log = events
  BY DEF Shape
<1>3. PICK more : more = Append(log, e)
  OBVIOUS
<1>4. PICK f \in Catalog, m \in Catalog : f = file /\ m = cat[r]
  BY DEF Shape
<1>5. /\ events' = more /\ file' = file /\ cat' = cat /\ request' = request
      /\ state[r] = "event" /\ state'[r] = "checkpoint"
  BY <1>1, <1>2, <1>3 DEF PersistEvent, Shape
<1>6. Changed(f, m, e)
  BY <1>1, <1>4, <1>5 DEF RecoveryInv, MemoryOfFile, Pending
<1>7. e.job \in Jobs /\ e.event \in {"enqueued", "leased", "heartbeat", "completed", "failed"}
  BY EventFields
<1>8. Replays(log) /\ AllReplay(log)
  BY <1>2 DEF Shape, RecoveryInv
<1>9. m[e.job] # None
  BY <1>6 DEF Changed
<1>10. \A j \in Jobs : m[j] # None /\ m[j].token # 0 /\ ~(e.event = "leased" /\ e.job = j)
        => TokenIsIn(log, j, m[j].token)
  BY <1>1, <1>2, <1>4, <1>5 DEF RecoveryInv, TokensCurrent, Opened, Pending, LeaseUnrecorded
<1>11. \A j \in Jobs : f[j] # None => KnownBy(log, j)
  BY <1>2, <1>4 DEF RecoveryInv
<1>12. \A c \in Catalog : EventFits(Final(c, log), e)
  <2> SUFFICES ASSUME NEW c \in Catalog PROVE EventFits(Final(c, log), e)
    OBVIOUS
  <2>1. CASE e.event = "enqueued"
    BY <2>1 DEF EventFits
  <2>2. CASE e.event # "enqueued"
    <3>1. f[e.job] # None
      BY <1>6, <2>2 DEF Changed
    <3>2. Final(c, log)[e.job] # None
      BY <1>7, <1>11, <3>1 DEF KnownBy
    <3>3. CASE e.event = "leased"
      BY <1>7, <3>2, <3>3 DEF EventFits, Known
    <3>4. CASE e.event # "leased"
      <4>1. e.event \in {"heartbeat", "completed", "failed"}
        BY <1>7, <2>2, <3>4
      <4>2. e.token \in {0, f[e.job].token} /\ m[e.job].token = f[e.job].token
        BY <1>6, <4>1 DEF Changed
      <4>3. e.token = 0 \/ Final(c, log)[e.job].token = e.token
        BY <1>7, <1>9, <1>10, <3>4, <4>2 DEF TokenIsIn
      <4> QED BY <1>7, <2>2, <3>2, <3>4, <4>3 DEF EventFits, TokenFits, Known
    <3> QED BY <3>3, <3>4
  <2> QED BY <2>1, <2>2
<1>13. AllReplay(more) /\ Extended(log, more, e)
  BY <1>3, <1>8, <1>12, FitsExtends
<1>14. \A j \in Jobs : KnownAlike(more, j)
  BY <1>2, <1>13, KnownKept DEF RecoveryInv
<1>15. \A j \in Jobs : f[j] # None => KnownBy(more, j)
  BY <1>11, <1>13, KnownKept
<1>16. KnownBy(more, e.job)
  BY <1>7, <1>13, KnownKept
<1>17. ASSUME NEW j \in Jobs
       PROVE  \/ SameToken(more, j)
              \/ /\ KeepsToken(more, j)
                 /\ f[j] # None => f[j].token = 0
                 /\ m[j] # None => m[j].token = 0
  <2>1. CASE e.event = "leased" /\ e.job = j
    BY <1>8, <1>13, <2>1, TokensKept
  <2>2. CASE SameToken(log, j)
    BY <1>8, <1>13, <2>2, TokensKept
  <2>3. CASE ~SameToken(log, j) /\ ~(e.event = "leased" /\ e.job = j)
    <3>1. /\ KeepsToken(log, j)
          /\ f[j] # None => f[j].token = 0
          /\ m[j] # None => m[j].token = 0
      BY <1>1, <1>2, <1>4, <1>5, <2>3
      DEF RecoveryInv, TokenAlike, Opened, Pending, LeaseUnrecorded
    <3>2. e.event = "enqueued" /\ j = e.job => e.value.token = 0
      BY <1>6, <1>9, <3>1 DEF Changed
    <3>3. KeepsToken(more, j)
      BY <1>8, <1>13, <2>3, <3>1, <3>2, TokensKept
    <3> QED BY <3>1, <3>3
  <2> QED BY <2>1, <2>2, <2>3
<1>18. ASSUME NEW j \in Jobs, m[j] # None, m[j].token # 0
       PROVE  TokenIsIn(more, j, m[j].token)
  <2>1. CASE e.event = "leased" /\ e.job = j
    <3>1. m[j].token = e.token
      BY <1>6, <2>1 DEF Changed
    <3> QED BY <1>8, <1>13, <2>1, <3>1, TokensKept
  <2>2. CASE ~(e.event = "leased" /\ e.job = j)
    <3>1. TokenIsIn(log, j, m[j].token) /\ m[j].token \in Nat
      BY <1>10, <1>18, <2>2, JobFields
    <3> QED BY <1>8, <1>13, <2>2, <3>1, TokensKept
  <2> QED BY <2>1, <2>2
<1>19. SaneBy(more, f)
  <2>1. Sane(m)
    BY <1>4 DEF RecoveryInv
  <2>2. e.event = "enqueued" => e.value.token <= e.value.attempts
    BY <1>6, <1>7, <1>9, <2>1 DEF Changed, Sane, Known
  <2>3. e.event = "leased" => f[e.job] # None /\ e.token <= f[e.job].attempts + 1
    <3>1. e.event = "leased" => f[e.job] # None /\ e.token = f[e.job].attempts + 1
      BY <1>6 DEF Changed
    <3>2. e.event = "leased" => e.token \in Nat
      BY EventFields
    <3> QED BY <3>1, <3>2
  <2>4. SaneBy(log, f)
    BY <1>2, <1>4 DEF RecoveryInv
  <2> QED BY <1>8, <1>13, <2>2, <2>3, <2>4, SaneKept
<1>20. /\ AllReplay(events)'
       /\ \A j \in Jobs : KnownAlike(events, j)'
       /\ \A j \in Jobs : file'[j] # None => KnownBy(events, j)'
  BY <1>4, <1>5, <1>13, <1>14, <1>15
<1>21. \A j \in Jobs : TokenAlike(j)'
  <2> SUFFICES ASSUME NEW j \in Jobs PROVE TokenAlike(j)'
    OBVIOUS
  <2>1. \A q \in Runtimes : cat'[q] = m
    BY <1>4, <1>5 DEF OneRuntime
  <2> QED BY <1>4, <1>5, <1>17, <2>1 DEF TokenAlike
<1>22. MemoryOfFile'
  BY <1>1, <1>4, <1>5, <1>6, <1>16 DEF MemoryOfFile, OneRuntime, Pending
<1>23. TokensCurrent'
  BY <1>4, <1>5, <1>18 DEF TokensCurrent, OneRuntime
<1>24. Sane(file)' /\ (\A q \in Runtimes : Sane(cat[q]))' /\ SaneBy(events, file)'
  BY <1>4, <1>5, <1>19 DEF RecoveryInv
<1> QED BY <1>20, <1>21, <1>22, <1>23, <1>24 DEF RecoveryInv

\* A catalog that covers more starts fewer replays.
LEMMA SaneByLater ==
    ASSUME NEW log, NEW f \in Catalog, NEW g \in Catalog, Covers(g, f), SaneBy(log, f)
    PROVE  SaneBy(log, g)
<1> SUFFICES ASSUME NEW c \in Catalog, Sane(c), Covers(c, g)
             PROVE  Sane(Final(c, log))
  BY DEF SaneBy
<1>1. Covers(c, f)
  BY CoversTrans
<1> QED BY <1>1 DEF SaneBy

\* The runtime is opened: memory and checkpoint become what the replay made.
LEMMA RecoveryOpen ==
    ASSUME OneRuntime, Shape, Shape', RecoveryInv,
           NEW r \in Runtimes, OpenRuntime(r)
    PROVE  RecoveryInv'
<1>1. PICK log \in Seq(Event), f \in Catalog : log = events /\ f = file
  BY DEF Shape
<1>2. PICK m \in Catalog : m = Recovered.cat /\ m = Final(f, log) /\ Covers(m, f)
  BY <1>1, RecoveredCovers
<1>3. /\ events' = log /\ file' = m /\ cat'[r] = m /\ state'[r] = "idle"
  BY <1>1, <1>2 DEF OpenRuntime, Shape
<1>4. \A j \in Jobs : m[j] # None => KnownBy(log, j)
  BY <1>1, <1>2 DEF RecoveryInv, KnownAlike, KnownBy
<1>5. ASSUME NEW j \in Jobs
      PROVE  \/ SameToken(log, j)
             \/ /\ KeepsToken(log, j)
                /\ m[j] # None => m[j].token = 0
  <2>1. CASE SameToken(log, j)
    BY <2>1
  <2>2. CASE ~SameToken(log, j)
    <3>1. KeepsToken(log, j) /\ (f[j] # None => f[j].token = 0)
      BY <1>1, <2>2 DEF RecoveryInv, TokenAlike
    <3> QED BY <1>2, <3>1 DEF KeepsToken
  <2> QED BY <2>1, <2>2
<1>6. ASSUME NEW j \in Jobs, m[j] # None, m[j].token # 0
      PROVE  TokenIsIn(log, j, m[j].token)
  <2>1. SameToken(log, j)
    BY <1>5, <1>6
  <2> QED BY <1>2, <2>1 DEF SameToken, TokenIsIn
<1>7. Sane(m)
  BY <1>1, <1>2, CoversSelf DEF RecoveryInv, SaneBy
<1>8. SaneBy(log, m)
  BY <1>1, <1>2, SaneByLater DEF RecoveryInv
<1>9. /\ AllReplay(events)'
      /\ \A j \in Jobs : KnownAlike(events, j)'
      /\ \A j \in Jobs : file'[j] # None => KnownBy(events, j)'
  BY <1>1, <1>3, <1>4 DEF RecoveryInv
<1>10. \A j \in Jobs : TokenAlike(j)'
  BY <1>3, <1>5 DEF TokenAlike, OneRuntime
<1>11. MemoryOfFile'
  BY <1>3 DEF MemoryOfFile, OneRuntime, Pending
<1>12. TokensCurrent'
  BY <1>3, <1>6 DEF TokensCurrent, OneRuntime
<1>13. Sane(file)' /\ (\A q \in Runtimes : Sane(cat[q]))' /\ SaneBy(events, file)'
  BY <1>3, <1>7, <1>8 DEF OneRuntime
<1> QED BY <1>9, <1>10, <1>11, <1>12, <1>13 DEF RecoveryInv

\* The checkpoint is written.
LEMMA RecoveryCheckpoint ==
    ASSUME OneRuntime, Shape, Shape', RecoveryInv,
           NEW r \in Runtimes, PersistCheckpoint(r)
    PROVE  RecoveryInv'
<1>1. PICK log \in Seq(Event), f \in Catalog, m \in Catalog :
        log = events /\ f = file /\ m = cat[r]
  BY DEF Shape
<1>2. PICK e \in Event : e = request[r]
  BY DEF Shape, PersistCheckpoint, Pending
<1>3. /\ events' = log /\ file' = m /\ cat'[r] = m
      /\ state[r] = "checkpoint" /\ state'[r] = "idle"
  BY <1>1 DEF PersistCheckpoint, Shape
<1>4. Changed(f, m, e) /\ KnownBy(log, e.job)
  BY <1>1, <1>2, <1>3 DEF RecoveryInv, MemoryOfFile, Pending
<1>5. \A j \in Jobs : m[j] # None => KnownBy(log, j)
  BY <1>1, <1>4 DEF RecoveryInv, Changed
<1>6. \A j \in Jobs : \/ SameToken(log, j)
                      \/ /\ KeepsToken(log, j)
                         /\ m[j] # None => m[j].token = 0
  BY <1>1, <1>3 DEF RecoveryInv, TokenAlike, Opened, Pending, LeaseUnrecorded
<1>7. \A j \in Jobs : m[j] # None /\ m[j].token # 0 => TokenIsIn(log, j, m[j].token)
  BY <1>1, <1>3 DEF RecoveryInv, TokensCurrent, Opened, Pending, LeaseUnrecorded
<1>8. Covers(m, f)
  BY <1>4, ChangedCovers
<1>9. SaneBy(log, m) /\ Sane(m)
  BY <1>1, <1>8, SaneByLater DEF RecoveryInv
<1>10. /\ AllReplay(events)'
       /\ \A j \in Jobs : KnownAlike(events, j)'
       /\ \A j \in Jobs : file'[j] # None => KnownBy(events, j)'
  BY <1>1, <1>3, <1>5 DEF RecoveryInv
<1>11. \A j \in Jobs : TokenAlike(j)'
  BY <1>3, <1>6 DEF TokenAlike, OneRuntime
<1>12. MemoryOfFile'
  BY <1>3 DEF MemoryOfFile, OneRuntime, Pending
<1>13. TokensCurrent'
  BY <1>3, <1>7 DEF TokensCurrent, OneRuntime
<1>14. Sane(file)' /\ (\A q \in Runtimes : Sane(cat[q]))' /\ SaneBy(events, file)'
  BY <1>3, <1>9 DEF OneRuntime
<1> QED BY <1>10, <1>11, <1>12, <1>13, <1>14 DEF RecoveryInv

\* A request makes no token of a later attempt.
LEMMA ChangedSane ==
    ASSUME NEW d \in Catalog, NEW c \in Catalog, NEW e \in Event, Changed(d, c, e), Sane(d)
    PROVE  Sane(c)
<1> SUFFICES ASSUME NEW j \in Known(c)
             PROVE  c[j].token <= c[j].attempts
  BY DEF Sane
<1>1. j \in Jobs /\ c[j] # None
  BY DEF Known
<1>2. CASE j # e.job
  BY <1>1, <1>2 DEF Changed, Sane, Known
<1>3. CASE j = e.job
  <2>1. CASE e.event = "enqueued"
    <3>1. c[j] = NewJob \/ (c[j] = d[j] /\ j \in Known(d))
      BY <1>1, <1>3, <2>1 DEF Changed, Known
    <3> QED BY <3>1, NewJobFields DEF Sane
  <2>2. CASE e.event = "leased"
    <3>1. c[j].token = e.token /\ c[j].attempts = e.token
      BY <1>3, <2>2 DEF Changed
    <3>2. e.token \in Nat
      BY <2>2, EventFields
    <3> QED BY <3>1, <3>2
  <2>3. CASE e.event \in {"heartbeat", "completed", "failed"}
    <3>1. /\ c[j].token = d[j].token /\ c[j].attempts = d[j].attempts
          /\ j \in Known(d)
      BY <1>1, <1>3, <2>3 DEF Changed, Known
    <3> QED BY <3>1 DEF Sane
  <2> QED BY <2>1, <2>2, <2>3, EventFields
<1> QED BY <1>2, <1>3

\* A request changes the memory.
LEMMA RecoveryAsks ==
    ASSUME OneRuntime, Shape, Shape', RecoveryInv,
           NEW r \in Runtimes, NEW c \in Catalog, NEW e \in Event, Asks(r, c, e)
    PROVE  RecoveryInv'
<1>1. PICK log \in Seq(Event), f \in Catalog : log = events /\ f = file
  BY DEF Shape
<1>2. Begin(r, c, e) /\ Changed(cat[r], c, e)
  BY DEF Asks
<1>3. /\ events' = log /\ file' = f /\ cat'[r] = c /\ request'[r] = e
      /\ state[r] = "idle" /\ state'[r] = "event"
  BY <1>1, <1>2 DEF Begin, Shape
<1>4. Changed(f, c, e) /\ cat[r] = f
  BY <1>1, <1>2, <1>3 DEF RecoveryInv, MemoryOfFile
<1>5. e.event \in {"enqueued", "leased", "heartbeat", "completed", "failed"}
  BY EventFields
<1>6. ASSUME NEW j \in Jobs, c[j] # None, ~(e.event = "leased" /\ e.job = j)
      PROVE  \/ c[j].token = 0
             \/ f[j] # None /\ c[j].token = f[j].token
  <2>1. CASE j # e.job
    BY <1>4, <1>6, <2>1 DEF Changed
  <2>2. CASE j = e.job
    BY <1>4, <1>5, <1>6, <2>2, NewJobFields DEF Changed
  <2> QED BY <2>1, <2>2
<1>7. ASSUME NEW j \in Jobs
      PROVE  \/ SameToken(log, j)
             \/ /\ KeepsToken(log, j)
                /\ f[j] # None => f[j].token = 0
                /\ c[j] # None /\ ~(e.event = "leased" /\ e.job = j) => c[j].token = 0
  BY <1>1, <1>6 DEF RecoveryInv, TokenAlike
<1>8. ASSUME NEW j \in Jobs, c[j] # None, c[j].token # 0, ~(e.event = "leased" /\ e.job = j)
      PROVE  TokenIsIn(log, j, c[j].token)
  <2>1. f[j] # None /\ c[j].token = f[j].token
    BY <1>6, <1>8
  <2>2. TokenIsIn(log, j, f[j].token)
    BY <1>1, <1>3, <1>4, <1>8, <2>1 DEF RecoveryInv, TokensCurrent, Opened, LeaseUnrecorded
  <2> QED BY <2>1, <2>2
<1>9. Sane(c)
  BY <1>1, <1>4, ChangedSane DEF RecoveryInv
<1>10. /\ AllReplay(events)'
       /\ \A j \in Jobs : KnownAlike(events, j)'
       /\ \A j \in Jobs : file'[j] # None => KnownBy(events, j)'
  BY <1>1, <1>3 DEF RecoveryInv
<1>11. \A j \in Jobs : TokenAlike(j)'
  BY <1>3, <1>7 DEF TokenAlike, OneRuntime, LeaseUnrecorded
<1>12. MemoryOfFile'
  BY <1>3, <1>4 DEF MemoryOfFile, OneRuntime
<1>13. TokensCurrent'
  BY <1>3, <1>8 DEF TokensCurrent, OneRuntime, LeaseUnrecorded
<1>14. Sane(file)' /\ (\A q \in Runtimes : Sane(cat[q]))' /\ SaneBy(events, file)'
  BY <1>1, <1>3, <1>9 DEF OneRuntime, RecoveryInv
<1> QED BY <1>10, <1>11, <1>12, <1>13, <1>14 DEF RecoveryInv

\* Every step of a single runtime but a failed write keeps the files readable.
LEMMA RecoveryKept ==
    ASSUME OneRuntime, Shape, Shape', [Next]_vars, ~ioFailed', ~ioFailed => RecoveryInv
    PROVE  RecoveryInv'
<1>1. \A r \in Runtimes : ~WriteFails(r)
  BY DEF WriteFails
<1>2. ~ioFailed
  <2>1. \A r \in Runtimes, c \in Catalog, e \in Event : Asks(r, c, e) => ioFailed' = ioFailed
    BY DEF Asks, Begin
  <2> QED BY <1>1, <2>1, StepCases
          DEF vars, ghosts, OpenRuntime, OpenRuntimeFails, PersistEvent,
              PersistCheckpoint, Tick, Crash
<1>3. RecoveryInv
  BY <1>2
<1>4. ASSUME UNCHANGED <<file, events, cat, request>>,
             \A r \in Runtimes : state'[r] = state[r] \/ state'[r] \in {"closed", "failed"}
      PROVE  RecoveryInv'
  <2>1. \A r \in Runtimes : /\ Opened(r)' => Opened(r)
                            /\ Pending(r)' => Pending(r)
                            /\ Opened(r)' => state'[r] = state[r]
    BY <1>4 DEF Opened, Pending
  <2>2. \A j \in Jobs : TokenAlike(j)'
    BY <1>3, <1>4, <2>1 DEF RecoveryInv, TokenAlike, LeaseUnrecorded, Opened, Pending
  <2>3. MemoryOfFile'
    BY <1>3, <1>4 DEF RecoveryInv, MemoryOfFile, Pending
  <2>4. TokensCurrent'
    BY <1>3, <1>4, <2>1 DEF RecoveryInv, TokensCurrent, LeaseUnrecorded
  <2> QED BY <1>3, <1>4, <2>2, <2>3, <2>4 DEF RecoveryInv
<1>5. CASE UNCHANGED vars
  BY <1>4, <1>5 DEF vars
<1>6. ASSUME NEW r \in Runtimes, OpenRuntimeFails(r)
      PROVE  RecoveryInv'
  BY <1>4, <1>6 DEF OpenRuntimeFails, ghosts, Shape
<1>7. CASE Tick
  BY <1>4, <1>7 DEF Tick, ghosts
<1>8. CASE Crash
  <2>1. /\ file' = file /\ events' = events
        /\ \A r \in Runtimes : /\ ~Opened(r)' /\ ~Pending(r)' /\ state'[r] = "closed"
                               /\ cat'[r] = EmptyCatalog
    BY <1>8 DEF Crash, Opened, Pending
  <2>2. Sane(EmptyCatalog)
    BY DEF Sane, Known, EmptyCatalog
  <2>3. \A j \in Jobs : TokenAlike(j)'
    BY <1>3, <2>1 DEF RecoveryInv, TokenAlike
  <2>4. MemoryOfFile' /\ TokensCurrent'
    BY <2>1 DEF MemoryOfFile, TokensCurrent
  <2> QED BY <1>3, <2>1, <2>2, <2>3, <2>4 DEF RecoveryInv
<1> QED BY <1>1, <1>3, <1>5, <1>6, <1>7, <1>8, StepCases,
           RecoveryOpen, RecoveryEvent, RecoveryCheckpoint, RecoveryAsks

\* The files of the first state can be read.
LEMMA InitRecovery ==
    ASSUME Init
    PROVE  RecoveryInv
<1>1. /\ file = EmptyCatalog /\ events = <<>>
      /\ \A r \in Runtimes : /\ cat[r] = EmptyCatalog /\ state[r] = "closed"
                             /\ ~Opened(r) /\ ~Pending(r)
  BY DEF Init, Opened, Pending
<1>2. \A j \in Jobs : EmptyCatalog[j] = None
  BY DEF EmptyCatalog
<1>3. ASSUME NEW c \in Catalog
      PROVE  Replay(c, <<>>).ok /\ Final(c, <<>>) = c
  BY ReplayNone DEF Final
<1>4. AllReplay(<<>>)
  BY <1>3 DEF AllReplay
<1>5. \A j \in Jobs : KnownAlike(<<>>, j) /\ KeepsToken(<<>>, j)
  BY <1>3 DEF KnownAlike, KeepsToken
<1>6. \A j \in Jobs : TokenAlike(j)
  BY <1>1, <1>2, <1>5 DEF TokenAlike
<1>7. Sane(EmptyCatalog) /\ SaneBy(<<>>, EmptyCatalog)
  BY <1>2, <1>3 DEF Sane, Known, SaneBy
<1>8. MemoryOfFile /\ TokensCurrent
  BY <1>1 DEF MemoryOfFile, TokensCurrent
<1> QED BY <1>1, <1>2, <1>4, <1>5, <1>6, <1>7, <1>8 DEF RecoveryInv

-----------------------------------------------------------------------------
(* Completions *)

\* Nothing is done in the first state.
LEMMA InitCompletion ==
    ASSUME Init
    PROVE  CompletionInv
<1>1. done = {} /\ \A r \in Runtimes : ~Opened(r) /\ ~Pending(r)
  BY DEF Init, Opened, Pending
<1> QED BY <1>1 DEF CompletionInv, DoneInMemory, DonePending

\* A completion stays what every replay ends with until the job is leased or
\* fails.
LEMMA SucceededKept ==
    ASSUME NEW log, NEW more, NEW e \in Event, Extended(log, more, e), NEW j \in Jobs
    PROVE  /\ SucceededBy(log, j) /\ ~(e.event \in {"leased", "failed"} /\ e.job = j)
                => SucceededBy(more, j)
           /\ e.event = "completed" => SucceededBy(more, e.job)
<1>1. e.event \in {"enqueued", "leased", "heartbeat", "completed", "failed"}
  BY EventFields
<1>2. ASSUME SucceededBy(log, j), ~(e.event \in {"leased", "failed"} /\ e.job = j)
      PROVE  SucceededBy(more, j)
  <2> SUFFICES ASSUME NEW c \in Catalog
               PROVE  Final(c, more)[j] # None /\ Final(c, more)[j].status = "Succeeded"
    BY DEF SucceededBy
  <2>1. PICK d, n : d = Final(c, log) /\ n = Final(c, more) /\ Effect(d, n, e)
    BY DEF Extended
  <2>2. d[j] # None /\ d[j].status = "Succeeded"
    BY <1>2, <2>1 DEF SucceededBy
  <2>3. CASE e.job # j
    BY <2>1, <2>2, <2>3 DEF Effect
  <2>4. CASE e.job = j
    BY <1>1, <1>2, <2>1, <2>2, <2>4 DEF Effect
  <2> QED BY <2>1, <2>3, <2>4
<1>3. ASSUME e.event = "completed"
      PROVE  SucceededBy(more, e.job)
  BY <1>3 DEF SucceededBy, Extended, Effect
<1> QED BY <1>2, <1>3

\* Every step of a single runtime but a failed write keeps completions.
LEMMA CompletionKept ==
    ASSUME OneRuntime, Shape, Shape', RecoveryInv, RecoveryInv', CompletionInv,
           [Next]_vars, ~ioFailed'
    PROVE  CompletionInv'
<1> USE DEF CompletionInv
<1>1. ASSUME UNCHANGED <<events, cat, request, done>>,
             \A r \in Runtimes : state'[r] = state[r] \/ state'[r] \in {"closed", "failed"}
      PROVE  CompletionInv'
  <2>1. \A r \in Runtimes : (Opened(r)' => Opened(r)) /\ (Pending(r)' => Pending(r))
    BY <1>1 DEF Opened, Pending
  <2>2. DoneInMemory'
    BY <1>1, <2>1 DEF DoneInMemory
  <2>3. DonePending'
    BY <1>1, <2>1 DEF DonePending
  <2> QED BY <1>1, <2>2, <2>3
<1>2. CASE UNCHANGED vars
  BY <1>1, <1>2 DEF vars
<1>3. ASSUME NEW r \in Runtimes, OpenRuntime(r)
      PROVE  CompletionInv'
  <2>1. PICK m \in Catalog : m = Recovered.cat /\ m = Final(file, events)
    BY RecoveredCovers
  <2>2. /\ events' = events /\ done' = done /\ cat'[r] = m /\ state'[r] = "idle"
    BY <1>3, <2>1 DEF OpenRuntime, Shape, ghosts
  <2>3. \A j \in done : m[j] # None /\ m[j].status = "Succeeded"
    BY <2>1 DEF SucceededBy, Shape
  <2>4. DoneInMemory'
    BY <2>2, <2>3 DEF DoneInMemory, OneRuntime
  <2>5. DonePending'
    BY <2>2 DEF DonePending, OneRuntime, Pending
  <2> QED BY <2>2, <2>4, <2>5
<1>4. ASSUME NEW r \in Runtimes, OpenRuntimeFails(r)
      PROVE  CompletionInv'
  BY <1>1, <1>4 DEF OpenRuntimeFails, ghosts, Shape
<1>5. ASSUME NEW r \in Runtimes, PersistEvent(r)
      PROVE  CompletionInv'
  <2>1. PICK e \in Event : e = request[r]
    BY <1>5 DEF Shape, PersistEvent, Pending
  <2>2. PICK log \in Seq(Event) : log = events
    BY DEF Shape
  <2>3. PICK more : more = Append(log, e)
    OBVIOUS
  <2>4. /\ events' = more /\ cat' = cat /\ request' = request /\ done' = done
        /\ state[r] = "event" /\ state'[r] = "checkpoint"
    BY <1>5, <2>1, <2>2, <2>3 DEF PersistEvent, Shape, ghosts
  <2>5. Extended(log, more, e)
    <3>1. AllReplay(more) /\ Replays(log)
      BY <2>2, <2>4 DEF RecoveryInv, Shape
    <3> QED BY <2>3, <3>1, ReplayLonger DEF AllReplay, Extended
  <2>6. e.event \in {"leased", "failed"} => e.job \notin done
    BY <2>1, <2>4 DEF DonePending, Pending
  <2>7. \A j \in done : SucceededBy(more, j)
    BY <2>2, <2>5, <2>6, SucceededKept DEF Shape
  <2>8. e.event = "completed" => SucceededBy(more, e.job)
    BY <2>5, EventFields, SucceededKept
  <2>9. DoneInMemory'
    BY <2>4 DEF DoneInMemory, OneRuntime, Opened, Pending
  <2>10. DonePending'
    BY <2>1, <2>4, <2>8 DEF DonePending, OneRuntime, Pending
  <2> QED BY <2>4, <2>7, <2>9, <2>10
<1>6. ASSUME NEW r \in Runtimes, PersistCheckpoint(r)
      PROVE  CompletionInv'
  <2>1. PICK e \in Event : e = request[r]
    BY <1>6 DEF Shape, PersistCheckpoint, Pending
  <2>2. /\ events' = events /\ cat' = cat
        /\ state[r] = "checkpoint" /\ state'[r] = "idle"
        /\ done' = IF e.event = "completed" THEN done \cup {e.job} ELSE done
    BY <1>6, <2>1 DEF PersistCheckpoint, Shape
  <2>3. e.event = "completed" => /\ SucceededBy(events, e.job)
                                 /\ cat[r][e.job] # None
                                 /\ cat[r][e.job].status = "Succeeded"
    BY <2>1, <2>2 DEF DonePending, Pending
  <2>4. \A j \in done' : SucceededBy(events', j)
    BY <2>2, <2>3
  <2>5. DoneInMemory'
    BY <2>2, <2>3 DEF DoneInMemory, OneRuntime, Opened, Pending
  <2>6. DonePending'
    BY <2>2 DEF DonePending, OneRuntime, Pending
  <2> QED BY <2>4, <2>5, <2>6
<1>7. ASSUME NEW r \in Runtimes, NEW c \in Catalog, NEW e \in Event, Asks(r, c, e)
      PROVE  CompletionInv'
  <2>1. Begin(r, c, e) /\ Changed(cat[r], c, e)
    BY <1>7 DEF Asks
  <2>2. /\ events' = events /\ cat'[r] = c /\ request'[r] = e
        /\ state[r] = "idle" /\ state'[r] = "event"
        /\ done' = IF e.event = "failed" THEN done \ {e.job} ELSE done
    BY <1>7, <2>1 DEF Begin, Shape, Asks
  <2>3. PICK d \in Catalog : d = cat[r]
    BY DEF Shape
  <2>4. \A j \in done : d[j] # None /\ d[j].status = "Succeeded"
    BY <2>2, <2>3 DEF DoneInMemory, Opened
  <2>5. e.event = "leased" => e.job \notin done
    BY <1>7, <2>3, <2>4 DEF Asks, IsLeasable
  <2>6. ASSUME NEW j \in done'
        PROVE  c[j] # None /\ c[j].status = "Succeeded"
    <3>1. j \in done /\ j \in Jobs /\ ~(e.event \in {"leased", "failed"} /\ e.job = j)
      BY <2>2, <2>5, <2>6 DEF Shape
    <3>2. e.event \in {"enqueued", "leased", "heartbeat", "completed", "failed"}
      BY EventFields
    <3>3. CASE j # e.job
      BY <2>1, <2>3, <2>4, <3>1, <3>3 DEF Changed
    <3>4. CASE j = e.job
      BY <2>1, <2>3, <2>4, <3>1, <3>2, <3>4 DEF Changed
    <3> QED BY <3>3, <3>4
  <2>7. DoneInMemory'
    BY <2>2, <2>6 DEF DoneInMemory, OneRuntime
  <2>8. DonePending'
    <3>1. e.event = "completed" => c[e.job] # None /\ c[e.job].status = "Succeeded"
      BY <2>1 DEF Changed
    <3>2. e.event \in {"leased", "failed"} => e.job \notin done'
      BY <2>2, <2>5
    <3> QED BY <2>2, <3>1, <3>2 DEF DonePending, OneRuntime
  <2>9. \A j \in done' : SucceededBy(events', j)
    BY <2>2
  <2> QED BY <2>7, <2>8, <2>9
<1>8. CASE Tick
  BY <1>1, <1>8 DEF Tick, ghosts
<1>9. CASE Crash
  <2>1. /\ events' = events /\ done' = done
        /\ \A r \in Runtimes : ~Opened(r)' /\ ~Pending(r)'
    BY <1>9 DEF Crash, ghosts, Opened, Pending
  <2> QED BY <2>1 DEF DoneInMemory, DonePending
<1>10. \A r \in Runtimes : ~WriteFails(r)
  BY DEF WriteFails
<1> QED BY <1>2, <1>3, <1>4, <1>5, <1>6, <1>7, <1>8, <1>9, <1>10, StepCases

-----------------------------------------------------------------------------
(* Leases that have not run out *)

\* Nobody holds anything in the first state.
LEMMA InitHeld ==
    ASSUME Init
    PROVE  HeldInv
<1>1. /\ leases = <<>> /\ clock = 0 /\ held = [j \in Jobs |-> 0]
      /\ \A r \in Runtimes : ~Opened(r) /\ ~Pending(r)
  BY DEF Init, Opened, Pending
<1>2. \A j \in Jobs : ~Told(j)
  BY <1>1 DEF Told
<1>3. HeldRecorded
  BY <1>1, <1>2, JobsAssumption DEF HeldRecorded
<1> QED BY <1>1, <1>3 DEF HeldInv, HeldInMemory, HeldPending

\* What one more event does to the lease of a job.
LEMMA LeasedKept ==
    ASSUME NEW log \in Seq(Event), NEW e \in Event, Replays(log),
           NEW more, more = Append(log, e), NEW j \in Jobs
    PROVE  /\ e.job # j \/ e.event = "enqueued" =>
                /\ LeasedBy(log, j) => LeasedBy(more, j)
                /\ NotLeasedBy(log, j) => NotLeasedBy(more, j)
                /\ \A u \in Nat : ExpiresAfter(log, j, u) => ExpiresAfter(more, j, u)
           /\ e.job = j /\ e.event = "heartbeat" =>
                /\ LeasedBy(log, j) => LeasedBy(more, j)
                /\ NotLeasedBy(log, j) => NotLeasedBy(more, j)
           /\ e.job = j /\ e.event = "leased" => LeasedBy(more, j)
           /\ e.job = j /\ e.event \in {"completed", "failed"} => NotLeasedBy(more, j)
           /\ e.job = j /\ e.event \in {"leased", "heartbeat"} => ExpiresAt(more, j, e.until)
<1>1. ASSUME NEW c \in Catalog, c[j] # None, Replay(c, more).ok
      PROVE  /\ Replay(c, log).ok
             /\ Effect(Final(c, log), Final(c, more), e)
             /\ Final(c, log)[j] # None
  <2>1. Replay(c, log).ok /\ Effect(Final(c, log), Final(c, more), e)
    BY <1>1, ReplayLonger
  <2> QED BY <1>1, <2>1 DEF Replays, Known
<1>2. ASSUME e.job # j \/ e.event = "enqueued"
      PROVE  /\ LeasedBy(log, j) => LeasedBy(more, j)
             /\ NotLeasedBy(log, j) => NotLeasedBy(more, j)
             /\ \A u \in Nat : ExpiresAfter(log, j, u) => ExpiresAfter(more, j, u)
  <2>1. ASSUME NEW c \in Catalog, c[j] # None, Replay(c, more).ok
        PROVE  Final(c, more)[j] = Final(c, log)[j] /\ Replay(c, log).ok
    <3>1. PICK d, n : d = Final(c, log) /\ n = Final(c, more) /\ Effect(d, n, e) /\ d[j] # None
      BY <1>1, <2>1
    <3>2. n[j] = d[j]
      BY <1>2, <3>1 DEF Effect
    <3> QED BY <1>1, <2>1, <3>1, <3>2
  <2> QED BY <2>1 DEF LeasedBy, NotLeasedBy, ExpiresAfter
<1>3. ASSUME e.job = j, e.event = "heartbeat"
      PROVE  /\ LeasedBy(log, j) => LeasedBy(more, j)
             /\ NotLeasedBy(log, j) => NotLeasedBy(more, j)
  <2>1. ASSUME NEW c \in Catalog, c[j] # None, Replay(c, more).ok
        PROVE  Final(c, more)[j].status = Final(c, log)[j].status /\ Replay(c, log).ok
    BY <1>1, <1>3, <2>1 DEF Effect
  <2> QED BY <2>1 DEF LeasedBy, NotLeasedBy
<1>4. ASSUME e.job = j, e.event = "leased"
      PROVE  LeasedBy(more, j)
  BY <1>1, <1>4 DEF Effect, LeasedBy
<1>5. ASSUME e.job = j, e.event \in {"completed", "failed"}
      PROVE  NotLeasedBy(more, j)
  <2>1. ASSUME NEW c \in Catalog, c[j] # None, Replay(c, more).ok
        PROVE  Final(c, more)[j].status # "Leased"
    BY <1>1, <1>5, <2>1 DEF Effect
  <2> QED BY <2>1 DEF NotLeasedBy
<1>6. ASSUME e.job = j, e.event \in {"leased", "heartbeat"}
      PROVE  ExpiresAt(more, j, e.until)
  BY <1>1, <1>6 DEF Effect, ExpiresAt
<1> QED BY <1>2, <1>3, <1>4, <1>5, <1>6

\* What expires at a time does not expire before it or any earlier one.
LEMMA ExpiresAtAfter ==
    ASSUME NEW log, NEW j, NEW u \in Nat, NEW v \in Nat, v <= u, ExpiresAt(log, j, u)
    PROVE  ExpiresAfter(log, j, v)
BY DEF ExpiresAt, ExpiresAfter

\* What does not expire before a time does not expire before an earlier one.
LEMMA ExpiresEarlier ==
    ASSUME NEW log, NEW j, NEW u \in Nat, NEW v \in Nat, v <= u, ExpiresAfter(log, j, u)
    PROVE  ExpiresAfter(log, j, v)
BY DEF ExpiresAfter

\* The times that are compared are numbers.
LEMMA HeldTypes ==
    ASSUME Shape
    PROVE  /\ clock \in Nat
           /\ \A j \in Jobs : held[j] \in Nat
BY RuntimeAssumption DEF Shape

\* The event is written.
LEMMA HeldEvent ==
    ASSUME OneRuntime, Shape, Shape', HeldInv, NEW r \in Runtimes, PersistEvent(r)
    PROVE  HeldInv'
<1>1. PICK e \in Event : e = request[r]
  BY DEF Shape, PersistEvent, Pending
<1>2. PICK log \in Seq(Event) : log = events
  BY DEF Shape
<1>3. PICK more : more = Append(log, e)
  OBVIOUS
<1>4. /\ events' = more /\ cat' = cat /\ request' = request /\ clock' = clock
      /\ leases' = leases /\ held' = held
      /\ state[r] = "event" /\ state'[r] = "checkpoint"
  BY <1>1, <1>2, <1>3 DEF PersistEvent, Shape, ghosts
<1>5. Replays(log)
  BY <1>2 DEF Shape
<1>6. e.job \in Jobs /\ e.event \in {"enqueued", "leased", "heartbeat", "completed", "failed"}
  BY EventFields
<1>7. e.event \in {"leased", "heartbeat"} => held[e.job] <= e.until /\ e.until \in Nat
  BY <1>1, <1>4, EventFields DEF HeldInv, HeldPending, Pending
<1>8. e.event \in {"completed", "failed"} => /\ held[e.job] = 0
                                            /\ cat[r][e.job].status # "Leased"
  BY <1>1, <1>4 DEF HeldInv, HeldPending, Pending
<1>9. HeldRecorded'
  <2> SUFFICES ASSUME NEW j \in Jobs
               PROVE  /\ held[j] > 0 => Told(j)
                      /\ Told(j) => LeasedBy(more, j) \/ NotLeasedBy(more, j)
                      /\ held[j] > clock => LeasedBy(more, j) /\ ExpiresAfter(more, j, held[j])
    BY <1>4 DEF HeldRecorded, Told
  <2>1. /\ held[j] > 0 => Told(j)
        /\ Told(j) => LeasedBy(log, j) \/ NotLeasedBy(log, j)
        /\ held[j] > clock => LeasedBy(log, j) /\ ExpiresAfter(log, j, held[j])
    BY <1>2 DEF HeldInv, HeldRecorded
  <2>2. Told(j) => LeasedBy(more, j) \/ NotLeasedBy(more, j)
    BY <1>3, <1>5, <1>6, <2>1, LeasedKept
  <2>3. ASSUME held[j] > clock
        PROVE  LeasedBy(more, j) /\ ExpiresAfter(more, j, held[j])
    <3>1. held[j] \in Nat /\ clock \in Nat
      BY HeldTypes
    <3>2. CASE e.job # j \/ e.event = "enqueued"
      BY <1>3, <1>5, <2>1, <2>3, <3>1, <3>2, LeasedKept
    <3>3. CASE e.job = j /\ e.event \in {"leased", "heartbeat"}
      <4>1. LeasedBy(more, j) /\ ExpiresAt(more, j, e.until)
        BY <1>3, <1>5, <2>1, <2>3, <3>3, LeasedKept
      <4>2. held[j] <= e.until /\ e.until \in Nat
        BY <1>7, <3>3
      <4> QED BY <3>1, <4>1, <4>2, ExpiresAtAfter
    <3>4. CASE e.job = j /\ e.event \in {"completed", "failed"}
      BY <1>8, <2>3, <3>1, <3>4
    <3> QED BY <1>6, <3>2, <3>3, <3>4
  <2> QED BY <2>1, <2>2, <2>3
<1>10. HeldInMemory'
  <2>1. ASSUME NEW j \in Jobs, cat[r][j] # None, cat[r][j].status = "Leased",
               ToldToken(j, cat[r][j].token)
        PROVE  LeasedBy(more, j)
    <3>1. LeasedBy(log, j)
      BY <1>2, <1>4, <2>1 DEF HeldInv, HeldInMemory, Opened, Pending
    <3>2. ~(e.job = j /\ e.event \in {"completed", "failed"})
      BY <1>8, <2>1
    <3> QED BY <1>3, <1>5, <1>6, <3>1, <3>2, LeasedKept
  <2>2. ASSUME NEW j \in Jobs, held[j] > clock
        PROVE  /\ cat[r][j] # None
               /\ cat[r][j].status = "Leased"
               /\ cat[r][j].expires \in Nat
               /\ held[j] <= cat[r][j].expires
    BY <1>4, <2>2 DEF HeldInv, HeldInMemory, Opened, Pending
  <2> SUFFICES ASSUME NEW q \in Runtimes, NEW j \in Jobs
               PROVE  /\ held[j] > clock => /\ cat[q][j] # None
                                            /\ cat[q][j].status = "Leased"
                                            /\ cat[q][j].expires \in Nat
                                            /\ held[j] <= cat[q][j].expires
                      /\ /\ cat[q][j] # None
                         /\ cat[q][j].status = "Leased"
                         /\ ToldToken(j, cat[q][j].token)
                         => LeasedBy(more, j)
    BY <1>4 DEF HeldInMemory, ToldToken
  <2>4. q = r
    BY DEF OneRuntime
  <2> QED BY <2>1, <2>2, <2>4
<1>11. HeldPending'
  <2>1. e.event \in {"leased", "heartbeat"} => ExpiresAt(more, e.job, e.until)
    BY <1>3, <1>5, <1>6, LeasedKept
  <2>2. e.event = "leased" => LeasedBy(more, e.job)
    BY <1>3, <1>5, <1>6, LeasedKept
  <2>3. ToldToken(e.job, e.token)' = ToldToken(e.job, e.token)
    BY <1>4 DEF ToldToken
  <2> SUFFICES ASSUME NEW q \in Runtimes
               PROVE  /\ e.event \in {"leased", "heartbeat"} =>
                        /\ cat[r][e.job] # None
                        /\ cat[r][e.job].expires = e.until
                        /\ cat[r][e.job].token = e.token
                        /\ held[e.job] <= e.until
                        /\ ExpiresAt(more, e.job, e.until)
                      /\ e.event = "leased" => LeasedBy(more, e.job)
                      /\ e.event = "heartbeat" => ToldToken(e.job, e.token)
                      /\ e.event \in {"completed", "failed"} =>
                        /\ held[e.job] = 0
                        /\ cat[r][e.job] # None
                        /\ cat[r][e.job].status # "Leased"
    BY <1>1, <1>4, <2>3 DEF HeldPending, OneRuntime
  <2> QED BY <1>1, <1>4, <2>1, <2>2 DEF HeldInv, HeldPending, Pending
<1> QED BY <1>9, <1>10, <1>11 DEF HeldInv

\* The checkpoint is written and the worker is told.
LEMMA HeldCheckpoint ==
    ASSUME OneRuntime, Shape, Shape', HeldInv, NEW r \in Runtimes, PersistCheckpoint(r)
    PROVE  HeldInv'
<1>1. PICK e \in Event : e = request[r]
  BY DEF Shape, PersistCheckpoint, Pending
<1>2. PICK m \in Catalog : m = cat[r]
  BY DEF Shape
<1>3. /\ events' = events /\ cat' = cat /\ clock' = clock
      /\ state[r] = "checkpoint" /\ state'[r] = "idle"
      /\ leases' = IF e.event = "leased"
                   THEN Append(leases, [job |-> e.job, token |-> e.token]) ELSE leases
      /\ held' = IF /\ e.event \in {"leased", "heartbeat"}
                    /\ m[e.job].status = "Leased"
                 THEN [held EXCEPT ![e.job] = e.until] ELSE held
  BY <1>1, <1>2 DEF PersistCheckpoint, Shape
<1>4. e.job \in Jobs /\ e.event \in {"enqueued", "leased", "heartbeat", "completed", "failed"}
  BY EventFields
<1>5. /\ e.event \in {"leased", "heartbeat"} =>
            /\ m[e.job] # None
            /\ m[e.job].expires = e.until
            /\ m[e.job].token = e.token
            /\ ExpiresAt(events, e.job, e.until)
      /\ e.event = "leased" => LeasedBy(events, e.job)
      /\ e.event = "heartbeat" => ToldToken(e.job, e.token)
  BY <1>1, <1>2, <1>3 DEF HeldInv, HeldPending, Pending
<1>6. e.event \in {"leased", "heartbeat"} => e.until \in Nat
  BY EventFields
<1>7. \A j \in Jobs : held[j] \in Nat /\ held'[j] \in Nat
  BY DEF Shape
<1>8. \A j \in Jobs : held'[j] = held[j]
                      \/ /\ j = e.job /\ e.event \in {"leased", "heartbeat"}
                         /\ m[j].status = "Leased" /\ held'[j] = e.until
  BY <1>3, <1>4 DEF Shape
<1>9. /\ \A j \in Jobs : Told(j) => Told(j)'
      /\ \A j \in Jobs : Told(j)' => Told(j) \/ (j = e.job /\ e.event = "leased")
      /\ \A j \in Jobs, t \in Nat :
            ToldToken(j, t)' => ToldToken(j, t) \/ (j = e.job /\ e.event = "leased")
      /\ e.event = "leased" => Told(e.job)'
  <2>1. CASE e.event # "leased"
    <3>1. leases' = leases
      BY <1>3, <2>1
    <3> QED BY <2>1, <3>1 DEF Told, ToldToken
  <2>2. CASE e.event = "leased"
    <3> DEFINE l == [job |-> e.job, token |-> e.token]
               N == Len(leases)
    <3>1. l.job = e.job
      OBVIOUS
    <3>2. leases' = Append(leases, l)
      BY <1>3, <2>2
    <3> HIDE DEF l
    <3>3. leases \in Seq([job : Jobs, token : Nat \ {0}])
      BY DEF Shape
    <3>4. /\ N \in Nat /\ Len(leases') = N + 1 /\ leases'[N + 1] = l
          /\ \A i \in 1..N : leases'[i] = leases[i]
      BY <3>2, <3>3
    <3>5. \A i \in 1..(N + 1) : i \in 1..N \/ i = N + 1
      BY <3>4
    <3>6. \A i \in 1..N : i \in 1..(N + 1)
      BY <3>4
    <3>7. N + 1 \in 1..(N + 1)
      BY <3>4
    <3> HIDE DEF N
    <3>8. 1..Len(leases) = 1..N /\ 1..Len(leases') = 1..(N + 1)
      BY <3>4 DEF N
    <3> QED BY <2>2, <3>1, <3>4, <3>5, <3>6, <3>7, <3>8 DEF Told, ToldToken
  <2> QED BY <2>1, <2>2
<1>10. ASSUME e.event \in {"leased", "heartbeat"}, m[e.job].status = "Leased"
       PROVE  LeasedBy(events, e.job) /\ Told(e.job)'
  <2>1. CASE e.event = "leased"
    BY <1>5, <1>9, <2>1
  <2>2. CASE e.event = "heartbeat"
    <3>1. ToldToken(e.job, m[e.job].token) /\ m[e.job] # None
      BY <1>5, <2>2
    <3>2. LeasedBy(events, e.job)
      BY <1>2, <1>3, <1>4, <1>10, <3>1 DEF HeldInv, HeldInMemory, Opened, Pending
    <3>3. Told(e.job)
      BY <3>1 DEF Told, ToldToken
    <3> QED BY <1>4, <1>9, <3>2, <3>3
  <2> QED BY <1>10, <2>1, <2>2
<1>11. HeldRecorded'
  <2> SUFFICES ASSUME NEW j \in Jobs
               PROVE  /\ held'[j] > 0 => Told(j)'
                      /\ Told(j)' => LeasedBy(events, j) \/ NotLeasedBy(events, j)
                      /\ held'[j] > clock =>
                            LeasedBy(events, j) /\ ExpiresAfter(events, j, held'[j])
    BY <1>3 DEF HeldRecorded
  <2>1. /\ held[j] > 0 => Told(j)
        /\ Told(j) => LeasedBy(events, j) \/ NotLeasedBy(events, j)
        /\ held[j] > clock => LeasedBy(events, j) /\ ExpiresAfter(events, j, held[j])
    BY DEF HeldInv, HeldRecorded
  <2>2. Told(j)' => LeasedBy(events, j) \/ NotLeasedBy(events, j)
    BY <1>5, <1>9, <2>1
  <2>3. CASE held'[j] = held[j]
    BY <1>9, <2>1, <2>2, <2>3
  <2>4. CASE /\ j = e.job /\ e.event \in {"leased", "heartbeat"}
             /\ m[j].status = "Leased" /\ held'[j] = e.until
    <3>1. ExpiresAfter(events, j, e.until)
      BY <1>5, <1>6, <2>4, ExpiresAtAfter
    <3>2. LeasedBy(events, j) /\ Told(j)'
      BY <1>10, <2>4
    <3> QED BY <2>2, <2>4, <3>1, <3>2
  <2> QED BY <1>8, <2>3, <2>4
<1>12. HeldInMemory'
  <2> SUFFICES ASSUME NEW j \in Jobs
               PROVE  /\ held'[j] > clock => /\ m[j] # None
                                             /\ m[j].status = "Leased"
                                             /\ m[j].expires \in Nat
                                             /\ held'[j] <= m[j].expires
                      /\ /\ m[j] # None
                         /\ m[j].status = "Leased"
                         /\ ToldToken(j, m[j].token)'
                         => LeasedBy(events, j)
    <3>1. \A q \in Runtimes : cat'[q] = m
      BY <1>2, <1>3 DEF OneRuntime
    <3> QED BY <1>3, <3>1 DEF HeldInMemory, ToldToken
  <2>1. held[j] > clock => /\ m[j] # None
                           /\ m[j].status = "Leased"
                           /\ m[j].expires \in Nat
                           /\ held[j] <= m[j].expires
    BY <1>2, <1>3 DEF HeldInv, HeldInMemory, Opened, Pending
  <2>2. held'[j] > clock => /\ m[j] # None
                            /\ m[j].status = "Leased"
                            /\ m[j].expires \in Nat
                            /\ held'[j] <= m[j].expires
    <3>1. CASE held'[j] = held[j]
      BY <2>1, <3>1
    <3>2. CASE /\ j = e.job /\ e.event \in {"leased", "heartbeat"}
               /\ m[j].status = "Leased" /\ held'[j] = e.until
      BY <1>5, <1>6, <3>2
    <3> QED BY <1>8, <3>1, <3>2
  <2>3. ASSUME m[j] # None, m[j].status = "Leased", ToldToken(j, m[j].token)'
        PROVE  LeasedBy(events, j)
    <3>1. m[j].token \in Nat
      BY <2>3, JobFields
    <3>2. PICK t \in Nat : t = m[j].token
      BY <3>1
    <3>3. ToldToken(j, t)'
      BY <2>3, <3>2 DEF ToldToken
    <3>4. CASE j = e.job /\ e.event = "leased"
      BY <1>5, <3>4
    <3>5. CASE ToldToken(j, t)
      BY <1>2, <1>3, <2>3, <3>2, <3>5 DEF HeldInv, HeldInMemory, Opened, Pending
    <3> QED BY <1>9, <3>3, <3>4, <3>5
  <2> QED BY <2>2, <2>3
<1>13. HeldPending'
  BY <1>3 DEF HeldPending, OneRuntime, Pending
<1> QED BY <1>11, <1>12, <1>13 DEF HeldInv

\* A request changes the memory.
LEMMA HeldAsks ==
    ASSUME OneRuntime, Shape, Shape', LeaseInv, HeldInv,
           NEW r \in Runtimes, NEW c \in Catalog, NEW e \in Event, Asks(r, c, e)
    PROVE  HeldInv'
<1>1. PICK d \in Catalog, f \in Catalog : d = cat[r] /\ f = file
  BY DEF Shape
<1>2. Begin(r, c, e) /\ Changed(d, c, e)
  BY <1>1 DEF Asks
<1>3. /\ events' = events /\ cat'[r] = c /\ request'[r] = e /\ clock' = clock
      /\ leases' = leases /\ state[r] = "idle" /\ state'[r] = "event"
      /\ held' = IF e.event \in {"completed", "failed"}
                 THEN [held EXCEPT ![e.job] = 0]
                 ELSE IF e.event = "heartbeat"
                 THEN [held EXCEPT ![e.job] = IF e.until < @ THEN e.until ELSE @]
                 ELSE held
  BY <1>2 DEF Begin, Shape, Asks
<1>4. e.job \in Jobs /\ e.event \in {"enqueued", "leased", "heartbeat", "completed", "failed"}
  BY EventFields
<1>5. clock \in Nat /\ \A j \in Jobs : held[j] \in Nat
  BY HeldTypes
<1>6. e.event \in {"leased", "heartbeat"} => e.until \in Nat /\ e.until > clock
  BY DEF Asks
<1>7. /\ \A j \in Jobs : j # e.job => held'[j] = held[j]
      /\ e.event \in {"completed", "failed"} => held'[e.job] = 0
      /\ e.event = "heartbeat" =>
            held'[e.job] = IF e.until < held[e.job] THEN e.until ELSE held[e.job]
      /\ e.event \in {"enqueued", "leased"} => held' = held
  BY <1>3, <1>4 DEF Shape
<1>8. \A j \in Jobs : held'[j] \in Nat /\ held'[j] <= held[j]
  BY <1>4, <1>5, <1>6, <1>7
<1>9. \A j \in Jobs : held[j] > clock => /\ d[j] # None
                                         /\ d[j].status = "Leased"
                                         /\ d[j].expires \in Nat
                                         /\ held[j] <= d[j].expires
  BY <1>1, <1>3 DEF HeldInv, HeldInMemory, Opened
<1>10. \A j \in Jobs : /\ d[j] # None
                       /\ d[j].status = "Leased"
                       /\ ToldToken(j, d[j].token)
                       => LeasedBy(events, j)
  BY <1>1, <1>3 DEF HeldInv, HeldInMemory, Opened
<1>11. \A j \in Jobs, t \in Nat : ToldToken(j, t) => /\ t # 0
                                                   /\ f[j] # None
                                                   /\ t <= f[j].attempts
  <2> SUFFICES ASSUME NEW j \in Jobs, NEW t \in Nat, NEW i \in 1..Len(leases),
                      leases[i].job = j, leases[i].token = t
               PROVE  t # 0 /\ f[j] # None /\ t <= f[j].attempts
    BY DEF ToldToken
  <2>1. t \in Nat \ {0}
    BY LeaseFields
  <2> QED BY <1>1, <2>1 DEF LeaseInv, ToldCounted
<1>12. e.event = "leased" => ~ToldToken(e.job, e.token)
  <2> SUFFICES ASSUME e.event = "leased", ToldToken(e.job, e.token) PROVE FALSE
    OBVIOUS
  <2>1. e.token \in Nat
    BY EventFields
  <2>2. f[e.job] # None /\ e.token <= f[e.job].attempts
    BY <1>4, <1>11, <2>1
  <2>3. d[e.job] # None /\ e.token = d[e.job].attempts + 1
    BY <1>2 DEF Changed
  <2>4. f[e.job].attempts <= d[e.job].attempts
    BY <1>1, <1>3, <1>4, <2>2 DEF LeaseInv, MemoryAhead, Opened, Covers, Known
  <2>5. f[e.job].attempts \in Nat /\ d[e.job].attempts \in Nat
    BY <1>4, <2>2, <2>3, JobFields
  <2> QED BY <2>1, <2>2, <2>3, <2>4, <2>5
<1>13. e.event = "leased" => held[e.job] <= clock
  <2> SUFFICES ASSUME e.event = "leased", held[e.job] > clock PROVE FALSE
    BY <1>4, <1>5
  <2>1. /\ d[e.job] # None /\ d[e.job].status = "Leased" /\ d[e.job].expires \in Nat
        /\ held[e.job] <= d[e.job].expires
    BY <1>4, <1>9
  <2>2. IsLeasable(d[e.job], clock)
    BY <1>1 DEF Asks
  <2>3. d[e.job].expires <= clock
    BY <2>1, <2>2 DEF IsLeasable
  <2> QED BY <1>4, <1>5, <2>1, <2>3
<1>14. HeldRecorded'
  <2> SUFFICES ASSUME NEW j \in Jobs
               PROVE  /\ held'[j] > 0 => Told(j)
                      /\ Told(j) => LeasedBy(events, j) \/ NotLeasedBy(events, j)
                      /\ held'[j] > clock =>
                            LeasedBy(events, j) /\ ExpiresAfter(events, j, held'[j])
    BY <1>3 DEF HeldRecorded, Told
  <2>1. /\ held[j] > 0 => Told(j)
        /\ Told(j) => LeasedBy(events, j) \/ NotLeasedBy(events, j)
        /\ held[j] > clock => LeasedBy(events, j) /\ ExpiresAfter(events, j, held[j])
    BY DEF HeldInv, HeldRecorded
  <2>2. held[j] \in Nat /\ held'[j] \in Nat /\ held'[j] <= held[j] /\ clock \in Nat
    BY <1>5, <1>8
  <2>3. held'[j] > 0 => held[j] > 0
    BY <2>2
  <2>4. ASSUME held'[j] > clock
        PROVE  LeasedBy(events, j) /\ ExpiresAfter(events, j, held'[j])
    <3>1. held[j] > clock
      BY <2>2, <2>4
    <3> QED BY <2>1, <2>2, <3>1, ExpiresEarlier
  <2> QED BY <2>1, <2>3, <2>4
<1>15. HeldInMemory'
  <2> SUFFICES ASSUME NEW j \in Jobs
               PROVE  /\ held'[j] > clock => /\ c[j] # None
                                             /\ c[j].status = "Leased"
                                             /\ c[j].expires \in Nat
                                             /\ held'[j] <= c[j].expires
                      /\ /\ c[j] # None
                         /\ c[j].status = "Leased"
                         /\ ToldToken(j, c[j].token)
                         => LeasedBy(events, j)
    <3>1. \A q \in Runtimes : cat'[q] = c
      BY <1>3 DEF OneRuntime
    <3> QED BY <1>3, <3>1 DEF HeldInMemory, ToldToken
  <2>1. ASSUME held'[j] > clock
        PROVE  /\ c[j] # None
               /\ c[j].status = "Leased"
               /\ c[j].expires \in Nat
               /\ held'[j] <= c[j].expires
    <3>1. held[j] \in Nat /\ held'[j] \in Nat /\ held'[j] <= held[j] /\ held[j] > clock
      BY <1>5, <1>8, <2>1
    <3>2. ~(j = e.job /\ e.event \in {"leased", "completed", "failed"})
      BY <1>5, <1>7, <1>13, <2>1, <3>1
    <3>3. /\ d[j] # None /\ d[j].status = "Leased"
          /\ d[j].expires \in Nat /\ held[j] <= d[j].expires
      BY <1>9, <3>1
    <3>4. CASE j # e.job \/ e.event = "enqueued"
      <4>1. c[j] = d[j]
        BY <1>2, <3>3, <3>4 DEF Changed
      <4> QED BY <3>1, <3>3, <4>1
    <3>5. CASE j = e.job /\ e.event = "heartbeat"
      <4>1. c[j] # None /\ c[j].status = d[j].status /\ c[j].expires = e.until
        BY <1>2, <3>5 DEF Changed
      <4>2. e.until \in Nat /\ held'[j] <= e.until
        BY <1>6, <1>7, <3>1, <3>5
      <4> QED BY <3>3, <4>1, <4>2
    <3> QED BY <1>4, <3>2, <3>4, <3>5
  <2>2. ASSUME c[j] # None, c[j].status = "Leased", ToldToken(j, c[j].token)
        PROVE  LeasedBy(events, j)
    <3>1. CASE j # e.job
      <4>1. c[j] = d[j]
        BY <1>2, <3>1 DEF Changed
      <4> QED BY <1>10, <2>2, <4>1
    <3>2. CASE j = e.job /\ e.event = "enqueued"
      <4>1. c[j] = NewJob \/ (c[j] = d[j] /\ d[j] # None)
        BY <1>2, <3>2 DEF Changed
      <4> QED BY <1>10, <2>2, <4>1, NewJobFields
    <3>3. CASE j = e.job /\ e.event = "leased"
      <4>1. c[j].token = e.token
        BY <1>2, <3>3 DEF Changed
      <4> QED BY <1>12, <2>2, <3>3, <4>1
    <3>4. CASE j = e.job /\ e.event = "heartbeat"
      <4>1. d[j] # None /\ c[j].status = d[j].status /\ c[j].token = d[j].token
        BY <1>2, <3>4 DEF Changed
      <4> QED BY <1>10, <2>2, <4>1
    <3>5. CASE j = e.job /\ e.event \in {"completed", "failed"}
      BY <1>2, <2>2, <3>5 DEF Changed
    <3> QED BY <1>4, <3>1, <3>2, <3>3, <3>4, <3>5
  <2> QED BY <2>1, <2>2
<1>16. HeldPending'
  <2>1. e.event = "heartbeat" => ToldToken(e.job, e.token) /\ e.token \in Nat
    BY EventFields DEF Asks
  <2>2. e.event \in {"leased", "heartbeat"} =>
            /\ c[e.job] # None
            /\ c[e.job].expires = e.until
            /\ c[e.job].token = e.token
    <3>1. CASE e.event = "leased"
      BY <1>2, <3>1 DEF Changed
    <3>2. CASE e.event = "heartbeat"
      <4>1. e.token # 0
        BY <1>4, <1>11, <2>1, <3>2
      <4> QED BY <1>2, <3>2, <4>1 DEF Changed
    <3> QED BY <3>1, <3>2
  <2>3. e.event \in {"leased", "heartbeat"} => held'[e.job] <= e.until
    BY <1>4, <1>5, <1>6, <1>7, <1>13
  <2>4. e.event \in {"completed", "failed"} =>
            /\ held'[e.job] = 0
            /\ c[e.job] # None
            /\ c[e.job].status # "Leased"
    BY <1>2, <1>7 DEF Changed
  <2>5. e.event = "heartbeat" => ToldToken(e.job, e.token)'
    BY <1>3, <2>1 DEF ToldToken
  <2> QED BY <1>3, <2>2, <2>3, <2>4, <2>5 DEF HeldPending, OneRuntime
<1> QED BY <1>14, <1>15, <1>16 DEF HeldInv

\* The runtime is opened.
LEMMA HeldOpen ==
    ASSUME OneRuntime, Shape, Shape', LeaseInv, HeldInv,
           NEW r \in Runtimes, OpenRuntime(r)
    PROVE  HeldInv'
<1>1. PICK m \in Catalog : m = Recovered.cat /\ m = Final(file, events) /\ Covers(m, file)
  BY RecoveredCovers
<1>2. /\ events' = events /\ cat'[r] = m /\ clock' = clock /\ held' = held
      /\ leases' = leases /\ state'[r] = "idle" /\ Replay(file, events).ok
  BY <1>1 DEF OpenRuntime, Shape, ghosts, Recovered
<1>3. \A j \in Jobs : Told(j) => file[j] # None /\ m[j] # None
  BY <1>1 DEF LeaseInv, ToldCounted, Told, Covers, Known
<1>4. file \in Catalog
  BY DEF Shape
<1>5. \A j \in Jobs : held[j] \in Nat /\ clock \in Nat
  BY HeldTypes
<1>6. HeldRecorded'
  BY <1>2 DEF HeldInv, HeldRecorded, Told
<1>7. HeldInMemory'
  <2> SUFFICES ASSUME NEW j \in Jobs
               PROVE  /\ held[j] > clock => /\ m[j] # None
                                            /\ m[j].status = "Leased"
                                            /\ m[j].expires \in Nat
                                            /\ held[j] <= m[j].expires
                      /\ /\ m[j] # None
                         /\ m[j].status = "Leased"
                         /\ ToldToken(j, m[j].token)
                         => LeasedBy(events, j)
    <3>1. \A q \in Runtimes : cat'[q] = m
      BY <1>2 DEF OneRuntime
    <3> QED BY <1>2, <3>1 DEF HeldInMemory, ToldToken
  <2>1. ASSUME held[j] > clock
        PROVE  /\ m[j] # None
               /\ m[j].status = "Leased"
               /\ m[j].expires \in Nat
               /\ held[j] <= m[j].expires
    <3>1. held[j] > 0
      BY <1>5, <2>1
    <3>2. Told(j) /\ LeasedBy(events, j) /\ ExpiresAfter(events, j, held[j])
      BY <2>1, <3>1 DEF HeldInv, HeldRecorded
    <3> QED BY <1>1, <1>2, <1>3, <1>4, <3>2 DEF LeasedBy, ExpiresAfter
  <2>2. ASSUME m[j].status = "Leased", ToldToken(j, m[j].token)
        PROVE  LeasedBy(events, j)
    <3>1. Told(j)
      BY <2>2 DEF Told, ToldToken
    <3>2. LeasedBy(events, j) \/ NotLeasedBy(events, j)
      BY <3>1 DEF HeldInv, HeldRecorded
    <3> QED BY <1>1, <1>2, <1>3, <1>4, <2>2, <3>1, <3>2 DEF NotLeasedBy
  <2> QED BY <2>1, <2>2
<1>8. HeldPending'
  BY <1>2 DEF HeldPending, OneRuntime, Pending
<1> QED BY <1>6, <1>7, <1>8 DEF HeldInv

\* Every step of a single runtime keeps the leases that have not run out.
LEMMA HeldKept ==
    ASSUME OneRuntime, Shape, Shape', LeaseInv, HeldInv, [Next]_vars
    PROVE  HeldInv'
<1>1. ASSUME UNCHANGED <<events, cat, request, leases, held>>,
             clock' \in {clock, clock + 1},
             \A r \in Runtimes : /\ Opened(r)' => Opened(r)
                                 /\ Pending(r)' => Pending(r) /\ state'[r] = state[r]
      PROVE  HeldInv'
  <2>1. /\ \A j \in Jobs : Told(j)' = Told(j)
        /\ \A j \in Jobs, t \in Nat : ToldToken(j, t)' = ToldToken(j, t)
    BY <1>1 DEF Told, ToldToken
  <2>2. clock \in Nat /\ \A j \in Jobs : held[j] \in Nat
    BY HeldTypes
  <2>3. \A j \in Jobs : held[j] > clock' => held[j] > clock
    BY <1>1, <2>2
  <2>4. HeldRecorded'
    BY <1>1, <2>1, <2>2, <2>3 DEF HeldInv, HeldRecorded
  <2>5. HeldInMemory'
    BY <1>1, <2>3 DEF HeldInv, HeldInMemory, ToldToken
  <2>6. HeldPending'
    <3> SUFFICES ASSUME NEW r \in Runtimes, Pending(r)'
                 PROVE  LET e == request[r]
                            job == cat[r][e.job]
                        IN  /\ e.event \in {"leased", "heartbeat"} =>
                                /\ job # None
                                /\ job.expires = e.until
                                /\ job.token = e.token
                                /\ held[e.job] <= e.until
                                /\ state[r] = "checkpoint" => ExpiresAt(events, e.job, e.until)
                            /\ e.event = "leased" /\ state[r] = "checkpoint" =>
                                LeasedBy(events, e.job)
                            /\ e.event = "heartbeat" => ToldToken(e.job, e.token)
                            /\ e.event \in {"completed", "failed"} =>
                                /\ held[e.job] = 0
                                /\ job # None
                                /\ job.status # "Leased"
      BY <1>1 DEF HeldPending, ToldToken
    <3>1. Pending(r) /\ request[r] \in Event
      BY <1>1 DEF Shape
    <3> QED BY <3>1 DEF HeldInv, HeldPending
  <2> QED BY <2>4, <2>5, <2>6 DEF HeldInv
<1>2. CASE UNCHANGED vars
  BY <1>1, <1>2 DEF vars, Opened, Pending
<1>3. ASSUME NEW r \in Runtimes, OpenRuntimeFails(r)
      PROVE  HeldInv'
  BY <1>1, <1>3 DEF OpenRuntimeFails, ghosts, Opened, Pending, Shape
<1>4. ASSUME NEW r \in Runtimes, WriteFails(r)
      PROVE  HeldInv'
  BY <1>1, <1>4 DEF WriteFails, Opened, Pending, Shape
<1>5. CASE Tick
  BY <1>1, <1>5 DEF Tick, ghosts, Opened, Pending
<1>6. CASE Crash
  <2>1. /\ UNCHANGED <<events, leases, held, clock>>
        /\ \A r \in Runtimes : ~Opened(r)' /\ ~Pending(r)'
    BY <1>6 DEF Crash, ghosts, Opened, Pending
  <2> QED BY <2>1 DEF HeldInv, HeldRecorded, HeldInMemory, HeldPending, Told
<1> QED BY <1>2, <1>3, <1>4, <1>5, <1>6, StepCases,
           HeldOpen, HeldEvent, HeldCheckpoint, HeldAsks

-----------------------------------------------------------------------------
(* The theorems *)

\* The invariants, together.
JobsInv ==
    /\ Shape
    /\ LeaseInv
    /\ HeldInv
    /\ ~ioFailed => RecoveryInv /\ CompletionInv

\* JobsInv holds of every reachable state of a single runtime.
LEMMA JobsInvHolds ==
    ASSUME OneRuntime
    PROVE  Spec => []JobsInv
<1>1. Init => JobsInv
  BY InitShape, InitLeases, InitHeld, InitRecovery, InitCompletion DEF JobsInv
<1>2. JobsInv /\ [Next]_vars => JobsInv'
  <2> SUFFICES ASSUME JobsInv, [Next]_vars PROVE JobsInv'
    OBVIOUS
  <2>1. Shape /\ LeaseInv /\ HeldInv /\ (~ioFailed => RecoveryInv /\ CompletionInv)
    BY DEF JobsInv
  <2>2. Shape'
    BY <2>1, ShapeKept
  <2>3. LeaseInv' /\ HeldInv'
    BY <2>1, <2>2, LeasesKept, HeldKept
  <2>4. ~ioFailed' => RecoveryInv'
    BY <2>1, <2>2, RecoveryKept
  <2>5. ~ioFailed' => ~ioFailed
    <3>1. \A r \in Runtimes, c \in Catalog, e \in Event :
            Asks(r, c, e) => ioFailed' = ioFailed
      BY DEF Asks, Begin
    <3> QED BY <2>1, <3>1, StepCases
            DEF vars, ghosts, OpenRuntime, OpenRuntimeFails, PersistEvent,
                PersistCheckpoint, WriteFails, Tick, Crash
  <2>6. ~ioFailed' => CompletionInv'
    BY <2>1, <2>2, <2>4, <2>5, CompletionKept
  <2> QED BY <2>2, <2>3, <2>4, <2>6 DEF JobsInv
<1> QED BY <1>1, <1>2, PTL DEF Spec

\* Every reachable state of a single runtime is well typed, and unless a write
\* failed no catalog, in memory or in the checkpoint, holds the token of an
\* attempt that is yet to come.
THEOREM JobTypes ==
    ASSUME OneRuntime
    PROVE  Spec => []TypeOK
<1>1. JobsInv => TypeOK
  <2> SUFFICES ASSUME JobsInv PROVE TypeOK
    OBVIOUS
  <2>1. Shape
    BY DEF JobsInv
  <2>2. ASSUME NEW c \in {file} \cup {cat[r] : r \in Runtimes}, NEW j \in Known(c)
        PROVE  /\ c[j].status \in Status
               /\ c[j].owner \in Workers \cup {None}
               /\ c[j].attempts \in Nat
               /\ c[j].token \in Nat
               /\ ~ioFailed => c[j].token <= c[j].attempts
    <3>1. c \in Catalog
      BY <2>1 DEF Shape
    <3>2. j \in Jobs /\ c[j] # None
      BY DEF Known
    <3>3. ~ioFailed => Sane(c)
      BY DEF JobsInv, RecoveryInv
    <3> QED BY <3>1, <3>2, <3>3, JobFields DEF Sane
  <2> QED BY <2>1, <2>2 DEF Shape, TypeOK
<1> QED BY <1>1, JobsInvHolds, PTL

\* Whatever writes fail, a single runtime never tells two leases of a job under
\* the same token, not even after a restart.
THEOREM TokensNeverReused ==
    ASSUME OneRuntime
    PROVE  Spec => []TokensUnique
<1>1. JobsInv => TokensUnique
  <2> SUFFICES ASSUME JobsInv, NEW a \in 1..Len(leases), NEW b \in 1..Len(leases),
                      leases[a] = leases[b], a # b
               PROVE  FALSE
    BY DEF TokensUnique
  <2>1. leases[a].token \in Nat
    BY LeaseFields DEF JobsInv
  <2>2. \/ a < b /\ leases[a].token < leases[b].token
        \/ b < a /\ leases[b].token < leases[a].token
    BY DEF JobsInv, LeaseInv, LeasesRise
  <2> QED BY <2>1, <2>2
<1> QED BY <1>1, JobsInvHolds, PTL

\* Unless a write failed, the files of a single runtime can be read back in
\* every state a crash may leave behind.
THEOREM AlwaysRecovers ==
    ASSUME OneRuntime
    PROVE  Spec => []RecoverySucceeds
<1>1. JobsInv => RecoverySucceeds
  BY DEF JobsInv, RecoverySucceeds, RecoveryInv, AllReplay, Recovered, Shape
<1> QED BY <1>1, JobsInvHolds, PTL

\* Unless a write failed, a completion that was confirmed to a worker is in
\* memory and in what any restart rebuilds, until somebody fails the job.
THEOREM CompletionsKept ==
    ASSUME OneRuntime
    PROVE  Spec => []CompletionSurvives
<1>1. JobsInv => CompletionSurvives
  <2> SUFFICES ASSUME JobsInv, ~ioFailed, NEW j \in done
               PROVE  /\ Recovered.cat[j] # None /\ Recovered.cat[j].status = "Succeeded"
                      /\ \A r \in Runtimes : state[r] = "idle" => cat[r][j].status = "Succeeded"
    BY DEF CompletionSurvives
  <2>1. Shape /\ SucceededBy(events, j) /\ DoneInMemory
    BY DEF JobsInv, CompletionInv
  <2>2. Recovered.cat = Final(file, events) /\ file \in Catalog
    BY <2>1, RecoveredCovers DEF Shape
  <2>3. Recovered.cat[j] # None /\ Recovered.cat[j].status = "Succeeded"
    BY <2>1, <2>2 DEF SucceededBy
  <2> QED BY <2>1, <2>3 DEF DoneInMemory, Opened
<1> QED BY <1>1, JobsInvHolds, PTL

\* Whatever lease_ms the requests ask for and whatever writes fail, a single
\* runtime never leases a job while a worker can count on it: until the time it
\* was last told, or an earlier one it has asked for since.
THEOREM LeasesRunTheirTime ==
    ASSUME OneRuntime
    PROVE  Spec => UnexpiredLeaseKept
<1>1. JobsInv /\ [Next]_vars =>
        [\A j \in Jobs : counted'[j] > counted[j] => held[j] <= clock]_vars
  <2> SUFFICES ASSUME JobsInv, Next, NEW j \in Jobs, counted'[j] > counted[j]
               PROVE  held[j] <= clock
    OBVIOUS
  <2>1. Shape /\ HeldInv
    BY DEF JobsInv
  <2>2. counted[j] \in Nat /\ held[j] \in Nat /\ clock \in Nat
    BY <2>1, HeldTypes DEF Shape
  <2>3. counted' # counted
    BY <2>2
  <2>4. PICK r \in Runtimes, c \in Catalog, e \in Event : Asks(r, c, e)
    BY <2>1, <2>3, StepCases
    DEF ghosts, OpenRuntime, OpenRuntimeFails, PersistEvent, PersistCheckpoint,
        WriteFails, Tick, Crash
  <2>5. e.event = "leased" /\ e.job = j
    BY <2>1, <2>2, <2>4 DEF Asks, Shape
  <2>6. IsLeasable(cat[r][j], clock) /\ state[r] = "idle"
    BY <2>4, <2>5 DEF Asks, Begin
  <2>7. SUFFICES ASSUME held[j] > clock PROVE FALSE
    BY <2>2
  <2>8. /\ cat[r][j].status = "Leased" /\ cat[r][j].expires \in Nat
        /\ held[j] <= cat[r][j].expires
    BY <2>1, <2>6, <2>7 DEF HeldInv, HeldInMemory, Opened
  <2>9. cat[r][j].expires <= clock
    BY <2>6, <2>8 DEF IsLeasable
  <2> QED BY <2>2, <2>7, <2>8, <2>9
<1> QED BY <1>1, JobsInvHolds, PTL DEF Spec, UnexpiredLeaseKept
=============================================================================
