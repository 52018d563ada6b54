----------------------------- MODULE ServerJobs -----------------------------
(***************************************************************************)
(* The job runtime of the server (ServerJobRuntime, crates/tracedb-server):*)
(* a JobCatalog in memory behind a mutex, kept on disk as a checkpoint     *)
(* (catalog.json) and a list of events (events.jsonl).  Every request      *)
(* changes the memory, appends its event and writes the checkpoint, in     *)
(* that order, and then answers.                                           *)
(*                                                                         *)
(* There is one runtime per shard key.  Both default keys (local/main and  *)
(* db_local/db_local:main) have the same directory, so two runtimes may    *)
(* share the files; nothing but the mutex of each orders their requests.   *)
(***************************************************************************)
EXTENDS JobCatalog

CONSTANTS
    Runtimes,       \* the shard keys that have this directory
    MaxTime,        \* bound on the clock
    MaxRequests,    \* bound on the requests
    MaxCrashes,     \* bound on the crashes
    IoFails         \* whether a write to disk may fail

ASSUME RuntimeAssumption ==
    /\ MaxTime \in Nat
    /\ MaxRequests \in Nat
    /\ MaxCrashes \in Nat
    /\ IoFails \in BOOLEAN

VARIABLES
    file,       \* catalog.json
    events,     \* events.jsonl
    state,      \* each runtime: "closed", "idle", "event", "checkpoint",
                \* "failed"
    cat,        \* each runtime's catalog
    request,    \* each runtime's request: the event it records
    clock,
    requests,   \* requests so far
    crashes,    \* crashes so far
    leases,     \* the leases workers were told of, in order
    held,       \* until when a worker can count on a job: what it was last told,
                \* or less if it has asked for less since; 0 once somebody has
                \* asked to complete or fail it
    done,       \* the jobs whose completion was confirmed to a worker
    counted,    \* how often each job was leased
    ioFailed    \* whether a write to disk has failed

ghosts == <<leases, held, done, counted, ioFailed>>
vars == <<file, events, state, cat, request, clock, requests, crashes,
          leases, held, done, counted, ioFailed>>

Init ==
    /\ file = EmptyCatalog
    /\ events = <<>>
    /\ state = [r \in Runtimes |-> "closed"]
    /\ cat = [r \in Runtimes |-> EmptyCatalog]
    /\ request = [r \in Runtimes |-> None]
    /\ clock = 0
    /\ requests = 0
    /\ crashes = 0
    /\ leases = <<>>
    /\ held = [j \in Jobs |-> 0]
    /\ done = {}
    /\ counted = [j \in Jobs |-> 0]
    /\ ioFailed = FALSE

\* What open rebuilds: all events, on top of a checkpoint that already has
\* the effect of most of them.
Recovered == Replay(file, events)

\* job_runtime opens the runtime with its first request: it replays the events
\* and writes the checkpoint.
OpenRuntime(r) ==
    /\ state[r] = "closed"
    /\ Recovered.ok
    /\ cat' = [cat EXCEPT ![r] = Recovered.cat]
    /\ file' = Recovered.cat
    /\ state' = [state EXCEPT ![r] = "idle"]
    /\ UNCHANGED <<events, request, clock, requests, crashes, ghosts>>

OpenRuntimeFails(r) ==
    /\ state[r] = "closed"
    /\ ~Recovered.ok
    /\ state' = [state EXCEPT ![r] = "failed"]
    /\ UNCHANGED <<file, events, cat, request, clock, requests, crashes, ghosts>>

-----------------------------------------------------------------------------
(* Requests: the change in memory.  The mutex is held until the answer. *)

Begin(r, c, e) ==
    /\ state[r] = "idle"
    /\ requests < MaxRequests
    /\ requests' = requests + 1
    /\ cat' = [cat EXCEPT ![r] = c]
    /\ request' = [request EXCEPT ![r] = e]
    /\ state' = [state EXCEPT ![r] = "event"]
    /\ UNCHANGED <<file, events, clock, crashes, leases, ioFailed>>

Enqueue(r, j) ==
    /\ LET c == Enqueued(cat[r], j) IN Begin(r, c, EnqueuedEvent(j, c[j]))
    /\ UNCHANGED <<held, done, counted>>

\* lease_next_at takes the first job that can be leased.
Lease(r, w, ms) ==
    /\ Leasable(cat[r], clock) # {}
    /\ LET j == Min(Leasable(cat[r], clock))
           job == LeaseAt(cat[r][j], w, clock, ms)
       IN  /\ Begin(r, [cat[r] EXCEPT ![j] = job],
                    LeasedEvent(j, w, job.token, job.expires))
           /\ counted' = [counted EXCEPT ![j] = @ + 1]
    /\ UNCHANGED <<held, done>>

\* The tokens that workers were given.
Tokens(j) == {l.token : l \in {x \in ToSet(leases) : x.job = j}}

\* A heartbeat may ask for less than is left: the worker gives the rest up when
\* it asks, for the lease is shorter whether or not it gets an answer.
Heartbeat(r, j, token, ms) ==
    /\ TokenFits(cat[r], j, token)
    /\ LET until == Until(clock, ms)
       IN  /\ Begin(r, Heartbeaten(cat[r], j, until), HeartbeatEvent(j, token, until))
           /\ held' = [held EXCEPT ![j] = IF until < @ THEN until ELSE @]
    /\ UNCHANGED <<done, counted>>

Complete(r, j, token) ==
    /\ TokenFits(cat[r], j, token)
    /\ Begin(r, Completed(cat[r], j), CompletedEvent(j, token))
    /\ held' = [held EXCEPT ![j] = 0]
    /\ UNCHANGED <<done, counted>>

\* A worker may leave the token out (0), and may fail a job that is done.
Fail(r, j, token, permanent) ==
    /\ TokenFits(cat[r], j, token)
    /\ Begin(r, Failed(cat[r], j, permanent, clock),
             FailedEvent(j, token, permanent, clock))
    /\ held' = [held EXCEPT ![j] = 0]
    /\ done' = done \ {j}
    /\ UNCHANGED counted

-----------------------------------------------------------------------------
(* Requests: the two writes *)

PersistEvent(r) ==
    /\ state[r] = "event"
    /\ events' = Append(events, request[r])
    /\ state' = [state EXCEPT ![r] = "checkpoint"]
    /\ UNCHANGED <<file, cat, request, clock, requests, crashes, ghosts>>

\* The checkpoint is in place and the worker gets its answer.
PersistCheckpoint(r) ==
    /\ state[r] = "checkpoint"
    /\ file' = cat[r]
    /\ state' = [state EXCEPT ![r] = "idle"]
    /\ LET e == request[r]
       IN  /\ leases' = IF e.event = "leased"
                        THEN Append(leases, [job |-> e.job, token |-> e.token])
                        ELSE leases
           /\ held' = IF /\ e.event \in {"leased", "heartbeat"}
                         /\ cat[r][e.job].status = "Leased"
                      THEN [held EXCEPT ![e.job] = e.until] ELSE held
           /\ done' = IF e.event = "completed" THEN done \cup {e.job} ELSE done
    /\ UNCHANGED <<events, cat, request, clock, requests, crashes, counted, ioFailed>>

\* A write fails: the worker gets an error, the memory keeps the change.
WriteFails(r) ==
    /\ IoFails
    /\ state[r] \in {"event", "checkpoint"}
    /\ state' = [state EXCEPT ![r] = "idle"]
    /\ ioFailed' = TRUE
    /\ UNCHANGED <<file, events, cat, request, clock, requests, crashes,
                   leases, held, done, counted>>

-----------------------------------------------------------------------------
Tick ==
    /\ clock < MaxTime
    /\ clock' = clock + 1
    /\ UNCHANGED <<file, events, state, cat, request, requests, crashes, ghosts>>

\* The server ends and starts again.
Crash ==
    /\ crashes < MaxCrashes
    /\ crashes' = crashes + 1
    /\ state' = [r \in Runtimes |-> "closed"]
    /\ cat' = [r \in Runtimes |-> EmptyCatalog]
    /\ request' = [r \in Runtimes |-> None]
    /\ UNCHANGED <<file, events, clock, requests, ghosts>>

Next ==
    \/ \E r \in Runtimes :
        \/ OpenRuntime(r) \/ OpenRuntimeFails(r)
        \/ PersistEvent(r) \/ PersistCheckpoint(r) \/ WriteFails(r)
        \/ \E w \in Workers, ms \in LeaseTimes : Lease(r, w, ms)
        \/ \E j \in Jobs :
            \/ Enqueue(r, j)
            \/ \E t \in Tokens(j), ms \in LeaseTimes : Heartbeat(r, j, t, ms)
            \/ \E t \in Tokens(j) : Complete(r, j, t)
            \/ \E t \in Tokens(j) \cup {0}, p \in BOOLEAN : Fail(r, j, t, p)
    \/ Tick
    \/ Crash

Spec == Init /\ [][Next]_vars

-----------------------------------------------------------------------------
(* Properties *)

\* Every variable has its type, and unless a write failed no catalog holds a
\* token of an attempt that is yet to come.
TypeOK ==
    /\ state \in [Runtimes -> {"closed", "idle", "event", "checkpoint", "failed"}]
    /\ clock \in 0..MaxTime
    /\ requests \in 0..MaxRequests
    /\ crashes \in 0..MaxCrashes
    /\ done \subseteq Jobs
    /\ \A c \in {file} \cup {cat[r] : r \in Runtimes} : \A j \in Known(c) :
        /\ c[j].status \in Status
        /\ c[j].owner \in Workers \cup {None}
        /\ c[j].attempts \in Nat
        /\ c[j].token \in Nat
        /\ ~ioFailed => c[j].token <= c[j].attempts

\* The files can always be read back: no crash, at any point between the writes
\* of a request, leaves an event behind that does not fit the catalog it is
\* replayed on.  (After a write that failed this does not hold: a job in memory
\* that was never recorded can be leased, and the event of that lease is.)
RecoverySucceeds == ~ioFailed => Recovered.ok

\* A completion that was confirmed to the worker is not undone by a crash or a
\* replay, as long as nobody fails the job: in memory and after a restart the
\* job has succeeded and is not given out again.
CompletionSurvives ==
    ~ioFailed => \A j \in done :
        /\ Recovered.cat[j] # None /\ Recovered.cat[j].status = "Succeeded"
        /\ \A r \in Runtimes : state[r] = "idle" => cat[r][j].status = "Succeeded"

\* A lease token is told to one worker once: one that outlived its lease can
\* never pass for a later one, not even after a restart.
TokensUnique ==
    \A a, b \in 1..Len(leases) : leases[a] = leases[b] => a = b

\* A job is not leased while a worker can count on it, whatever lease_ms the
\* leases and heartbeats ask for and whichever writes fail or crashes come in
\* between.  A worker that asks for a shorter lease can count on no more than
\* that, answered or not.  A failure reported by anybody, with or without the
\* token, ends the lease; a heartbeat after that is confirmed but does not bring
\* it back.
UnexpiredLeaseKept ==
    [][\A j \in Jobs : counted'[j] > counted[j] => held[j] <= clock]_vars
=============================================================================
