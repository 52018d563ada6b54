---------------------------- MODULE RemoteLease ----------------------------
(***************************************************************************)
(* The writer lease and the manifest pointer of one branch, two objects of *)
(* an S3-compatible store (crates/tracedb-remote-storage, LeaseStore and   *)
(* ManifestStore for AwsReferenceStorage).  acquire_lease, refresh_lease,  *)
(* release_lease and compare_and_swap_manifest are async functions of two  *)
(* to four requests; every await is a point where the requests of other    *)
(* sessions, and time, interleave.                                         *)
(*                                                                         *)
(* The object store is external: a conditional put or delete is atomic,    *)
(* every successful put gives the object an etag it never had before, a    *)
(* request may fail, and the answer to a put that was done may be lost.    *)
(* The sessions' clocks are the one global clock (unix_now, seconds).      *)
(***************************************************************************)
EXTENDS Integers

CONSTANTS
    Sessions,       \* clients, each with at most one call in progress
    Holders,        \* holder ids
    HolderOf,       \* the holder id a session passes as request.holder_id
    TtlsMs,         \* the ttl_ms values asked for
    MaxTime,        \* bound: the clock stops here
    MaxWrites,      \* bound: successful puts of the lease object
    MaxGeneration   \* bound: generations of the manifest pointer

ASSUME LeaseAssumption ==
    /\ HolderOf \in [Sessions -> Holders]
    /\ TtlsMs \subseteq Nat
    /\ {MaxTime, MaxWrites, MaxGeneration} \subseteq Nat

VARIABLES
    object,         \* the lease object: [lease, etag], or Absent
    now,            \* unix_now()
    writes,         \* successful puts so far: the source of fresh etags
    call,           \* call[s]: the call in progress of session s
    held,           \* held[s]: the LeaseRecord session s last got back
    active,         \* active[s]: s may act as the writer until held[s] expires
    released,       \* whether a lease was ever deleted
    pointer         \* the manifest pointer: [gen, etag], 0 and 0 if absent

leaseVars == <<object, now, writes, held, active, released>>
vars == <<leaseVars, call, pointer>>

Absent == [absent |-> TRUE]

\* A LeaseRecord; grant is a history variable, the number of the put that
\* acquired the lease, which tells leases apart when their tokens do not.
Lease(holder, token, until, grant) ==
    [holder |-> holder, token |-> token, until |-> until, grant |-> grant]

Idle == [op |-> "idle"]

\* Broken: a ttl is rounded up to a second too many.
ttl_secondsLong(ms) == (ms + 1999) \div 1000

ttl_seconds(ms) == (ms + 999) \div 1000

Init ==
    /\ object = Absent
    /\ now = 0
    /\ writes = 0
    /\ call = [s \in Sessions |-> Idle]
    /\ held = [s \in Sessions |-> Absent]
    /\ active = [s \in Sessions |-> FALSE]
    /\ released = FALSE
    /\ pointer = [gen |-> 0, etag |-> 0]

----------------------------------------------------------------------------
(* The head request every call starts with.                                *)

\* A call that has its head answer: the etag of the object it saw (0: none)
\* and the record and ttl it was called with.
Called(op, next, lease, ttl) ==
    [op |-> op, at |-> next, etag |-> IF object = Absent THEN 0 ELSE object.etag,
     lease |-> lease, ttl |-> ttl, clock |-> 0]

AcquireHead(s) ==
    /\ call[s] = Idle
    /\ \E ttl \in TtlsMs : call' = [call EXCEPT ![s] = Called("acquire", "clock", Absent, ttl)]
    /\ UNCHANGED <<leaseVars, pointer>>

\* refresh_lease of the record the session holds; no object: ObjectNotFound.
RefreshHead(s) ==
    /\ call[s] = Idle
    /\ active[s]
    /\ object # Absent
    /\ \E ttl \in TtlsMs : call' = [call EXCEPT ![s] = Called("refresh", "load", held[s], ttl)]
    /\ UNCHANGED <<leaseVars, pointer>>

\* release_lease; the caller stops acting as the writer, and may call again
\* when the release fails.
ReleaseHead(s) ==
    /\ call[s] = Idle
    /\ held[s] # Absent
    /\ active' = [active EXCEPT ![s] = FALSE]
    /\ call' = [call EXCEPT ![s] =
                    IF object = Absent THEN Idle ELSE Called("release", "load", held[s], 0)]
    /\ UNCHANGED <<object, now, writes, held, released, pointer>>

----------------------------------------------------------------------------
(* The steps after it.                                                     *)

\* unix_now: before the get in acquire_lease, after it in refresh_lease.
ReadClock(s) ==
    /\ call[s] # Idle
    /\ call[s].at = "clock"
    /\ call' = [call EXCEPT
                 ![s].clock = now,
                 ![s].at = IF call[s].op = "acquire" /\ call[s].etag # 0 THEN "load" ELSE "put"]
    /\ UNCHANGED <<leaseVars, pointer>>

\* load_lease in acquire_lease: an unexpired lease of another holder ends the
\* call with LeaseHeld, a vanished object with ObjectNotFound.
MayTakeOver(s) ==
    /\ object # Absent
    /\ \/ object.lease.until <= call[s].clock
       \/ object.lease.holder = HolderOf[s]

AcquireLoad(s) ==
    /\ call[s] # Idle
    /\ call[s].op = "acquire" /\ call[s].at = "load"
    /\ call' = [call EXCEPT ![s] =
                    IF MayTakeOver(s)
                    THEN [call[s] EXCEPT !.at = "put", !.lease = object.lease]
                    ELSE Idle]
    /\ UNCHANGED <<leaseVars, pointer>>

\* load_lease in refresh_lease and release_lease: the stored lease must carry
\* the holder id and the fencing token of the caller's record.
IsOwn(s) ==
    /\ object # Absent
    /\ object.lease.holder = call[s].lease.holder
    /\ object.lease.token = call[s].lease.token

OwnLoad(s) ==
    /\ call[s] # Idle
    /\ call[s].op \in {"refresh", "release"} /\ call[s].at = "load"
    /\ call' = [call EXCEPT ![s] =
                    IF IsOwn(s)
                    THEN [call[s] EXCEPT !.at = IF call[s].op = "refresh" THEN "clock" ELSE "delete"]
                    ELSE Idle]
    /\ UNCHANGED <<leaseVars, pointer>>

\* Broken: the put or delete is conditional on the object being there only.
ConditionHoldsAnyEtag(s) == (call[s].etag = 0) <=> (object = Absent)

\* PutCondition: IfAbsent when head saw no object, else IfMatchEtag.
ConditionHolds(s) ==
    IF call[s].etag = 0 THEN object = Absent
    ELSE object # Absent /\ object.etag = call[s].etag

\* Broken: an expired lease's token is used again instead of the next one.
NextLeaseSameToken(s) ==
    LET until == call[s].clock + ttl_seconds(call[s].ttl) IN
    IF call[s].op = "refresh" THEN [call[s].lease EXCEPT !.until = until]
    ELSE Lease(HolderOf[s], IF call[s].etag = 0 THEN 1 ELSE call[s].lease.token,
               until, writes + 1)

\* The record a put writes.  Acquiring takes the token after the one loaded,
\* or 1 when there was no object; refreshing keeps the caller's record.
NextLease(s) ==
    LET until == call[s].clock + ttl_seconds(call[s].ttl) IN
    IF call[s].op = "refresh" THEN [call[s].lease EXCEPT !.until = until]
    ELSE Lease(HolderOf[s],
               IF call[s].etag = 0 THEN 1 ELSE call[s].lease.token + 1,
               until, writes + 1)

\* put_lease.  The put is refused, or done and answered, or done and its
\* answer lost: the caller then gets an error and keeps its old record.
Put(s) ==
    /\ call[s] # Idle
    /\ call[s].at = "put"
    /\ writes < MaxWrites
    /\ call' = [call EXCEPT ![s] = Idle]
    /\ \/ /\ ConditionHolds(s)
          /\ object' = [lease |-> NextLease(s), etag |-> writes + 1]
          /\ writes' = writes + 1
          /\ \/ /\ held' = [held EXCEPT ![s] = NextLease(s)]
                /\ active' = [active EXCEPT ![s] = TRUE]
             \/ UNCHANGED <<held, active>>
       \/ /\ ~ConditionHolds(s)
          /\ UNCHANGED <<object, writes, held, active>>
    /\ UNCHANGED <<now, released, pointer>>

\* s3_delete_object with if_match_etag; a caller whose release is answered
\* drops the record.
Delete(s) ==
    /\ call[s] # Idle
    /\ call[s].at = "delete"
    /\ call' = [call EXCEPT ![s] = Idle]
    /\ \/ /\ ConditionHolds(s)
          /\ object' = Absent
          /\ released' = TRUE
          /\ \/ held' = [held EXCEPT ![s] = Absent]
             \/ UNCHANGED held
       \/ /\ ~ConditionHolds(s)
          /\ UNCHANGED <<object, held, released>>
    /\ UNCHANGED <<now, writes, active, pointer>>

----------------------------------------------------------------------------
(* compare_and_swap_manifest.  A caller asks to replace the generation it  *)
(* expects, 0 for none, by the next one.                                   *)

CasHead(s) ==
    /\ call[s] = Idle
    /\ \E expected \in 0..(MaxGeneration - 1) :
         /\ expected = 0 => pointer.etag = 0
         /\ call' = [call EXCEPT ![s] =
                        [op |-> "cas", at |-> IF expected = 0 THEN "swap" ELSE "get",
                         etag |-> pointer.etag, expected |-> expected]]
    /\ UNCHANGED <<leaseVars, pointer>>

\* The get after the head: another generation, or an object that the head did
\* not see, ends the call.
CasGet(s) ==
    /\ call[s] # Idle
    /\ call[s].op = "cas" /\ call[s].at = "get"
    /\ call' = [call EXCEPT ![s] =
                    IF pointer.gen = call[s].expected /\ call[s].etag # 0
                    THEN [call[s] EXCEPT !.at = "swap"] ELSE Idle]
    /\ UNCHANGED <<leaseVars, pointer>>

\* Broken: the swap relies on the generation that was read.
SwapConditionHoldsUnchecked(s) == TRUE

\* IfAbsent, or IfMatchEtag with the etag of the head
SwapConditionHolds(s) == pointer.etag = call[s].etag

\* The conditional put, refused or done; its answer may be lost.
Swap(s) ==
    /\ call[s] # Idle
    /\ call[s].op = "cas" /\ call[s].at = "swap"
    /\ call' = [call EXCEPT ![s] = Idle]
    /\ pointer' = IF SwapConditionHolds(s)
                  THEN [gen |-> call[s].expected + 1, etag |-> pointer.etag + 1]
                  ELSE pointer
    /\ UNCHANGED leaseVars

----------------------------------------------------------------------------
\* A request of the call fails before it has an effect, or the caller drops
\* the future.
CallFails(s) ==
    /\ call[s] # Idle
    /\ call' = [call EXCEPT ![s] = Idle]
    /\ UNCHANGED <<leaseVars, pointer>>

Tick ==
    /\ now < MaxTime
    /\ now' = now + 1
    /\ UNCHANGED <<object, writes, call, held, active, released, pointer>>

Next ==
    \/ \E s \in Sessions :
         \/ AcquireHead(s) \/ RefreshHead(s) \/ ReleaseHead(s)
         \/ ReadClock(s) \/ AcquireLoad(s) \/ OwnLoad(s)
         \/ Put(s) \/ Delete(s)
         \/ CasHead(s) \/ CasGet(s) \/ Swap(s)
         \/ CallFails(s)
    \/ Tick

Spec == Init /\ [][Next]_vars

----------------------------------------------------------------------------
(* Properties                                                              *)

\* Session s acts as the writer: it got the lease, has not asked to release
\* it, and it has not expired by its clock.
Writes(s) == active[s] /\ held[s] # Absent /\ held[s].until > now

\* Type invariant: tokens start at 1, etags and grants are those of puts that
\* were done, and a lease ends within a second of the ttl asked for.
TypeOK ==
    /\ now \in 0..MaxTime /\ writes \in 0..MaxWrites
    /\ active \in [Sessions -> BOOLEAN]
    /\ \A l \in {held[s] : s \in Sessions} \cup (IF object = Absent THEN {} ELSE {object.lease}) :
         \/ l = Absent
         \/ /\ l.holder \in Holders
            /\ l.token \in 1..writes /\ l.grant \in 1..writes
            /\ \E ttl \in TtlsMs : (l.until - now) * 1000 < ttl + 1000
    /\ object # Absent => object.etag \in 1..writes

\* When every session has a holder id of its own, two sessions are never
\* writers at the same time, however the requests of their acquire, refresh
\* and release calls interleave and whatever answers are lost.  (Sessions that
\* share a holder id may take the lease from each other by design.)
LeaseExclusive ==
    \A s, t \in Sessions : Writes(s) /\ Writes(t) => HolderOf[s] = HolderOf[t]

\* Until the first release, fencing tokens progress: of two records that
\* sessions hold, the one acquired later has the larger token, so storage that
\* has seen the newer one can refuse the older.  (release_lease deletes the
\* object and with it the count: the next lease has token 1 again.)
FencingTokensProgress ==
    ~released =>
        \A s, t \in Sessions :
            held[s] # Absent /\ held[t] # Absent /\ held[s].grant < held[t].grant
                => held[s].token < held[t].token

\* No swap of the manifest pointer is lost: each replaces the very generation
\* its caller expected, however its head, get and put interleave with those of
\* other swaps, so that generations follow one another.
PointerAdvances ==
    [][pointer' # pointer => pointer'.gen = pointer.gen + 1]_vars
=============================================================================
