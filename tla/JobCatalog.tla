----------------------------- MODULE JobCatalog -----------------------------
(***************************************************************************)
(* JobCatalog (crates/tracedb-jobs): background jobs, their leases and     *)
(* their retries, as functions from a catalog to the catalog after an      *)
(* operation or after the replay of one recorded event.                    *)
(*                                                                         *)
(* All jobs are of one kind.  Jobs are numbered in the order of their      *)
(* idempotency keys.  The lease token of a job, "lease:<job>:<attempt>",   *)
(* is the attempt; 0 is no token.                                          *)
(***************************************************************************)
EXTENDS Integers, Sequences, FiniteSetsExt, SequencesExt

CONSTANTS
    Jobs,           \* the idempotency keys, numbers
    Workers,        \* worker ids
    MaxAttempts,    \* TraceJob.max_attempts
    LeaseTimes,     \* the lease_ms that requests ask for
    None            \* the absence of a job, an owner or a time

\* JobStatus: the ones the code gives a job (it never sets Running,
\* CommittingResult or Canceled).
Status == {"Queued", "Leased", "Succeeded", "FailedRetryable",
           "FailedPermanent", "DeadLettered"}

\* TraceJob
Job == [status : Status, attempts : Nat, owner : Workers \cup {None}, token : Nat,
        expires : Nat \cup {None}, after : Nat \cup {None}]

ASSUME JobsAssumption ==
    /\ Jobs \subseteq Nat
    /\ MaxAttempts \in Nat \ {0}
    /\ LeaseTimes \subseteq Nat
    /\ None \notin Nat \cup Workers \cup Job

NewJob ==
    [status |-> "Queued", attempts |-> 0, owner |-> None, token |-> 0,
     expires |-> None, after |-> None]

EmptyCatalog == [j \in Jobs |-> None]

Known(cat) == {j \in Jobs : cat[j] # None}

\* When a lease of ms that is given or renewed now runs out: never at once.
Until(now, ms) == now + (IF ms = 0 THEN 1 ELSE ms)

\* Broken: a lease that has run out does not count as an attempt.
LeaseAtUncounted(job, w, now, ms) ==
    [job EXCEPT !.status = "Leased", !.owner = w, !.token = job.attempts + 1,
                !.attempts = IF @ = 0 THEN 1 ELSE @,
                !.expires = Until(now, ms), !.after = None]

\* TraceJob::lease_at
LeaseAt(job, w, now, ms) ==
    [job EXCEPT !.status = "Leased", !.owner = w, !.token = job.attempts + 1,
                !.attempts = job.attempts + 1, !.expires = Until(now, ms),
                !.after = None]

\* Broken: a lease that is still running can be taken over.
IsLeasableAlways(job, now) == job.status \in {"Queued", "FailedRetryable", "Leased"}

\* job_is_leasable: max_attempts is not looked at.
IsLeasable(job, now) ==
    \/ job.status = "Queued"
    \/ job.status = "FailedRetryable" /\ (job.after = None \/ job.after <= now)
    \/ job.status = "Leased" /\ job.expires # None /\ job.expires <= now

Leasable(cat, now) == {j \in Known(cat) : IsLeasable(cat[j], now)}

\* job_mut_for_token: a caller without a token is not checked.
TokenFits(cat, j, token) ==
    j \in Known(cat) /\ (token = 0 \/ cat[j].token = token)

Enqueued(cat, j) == IF cat[j] = None THEN [cat EXCEPT ![j] = NewJob] ELSE cat

Heartbeaten(cat, j, until) == [cat EXCEPT ![j].expires = until]

\* complete leaves the lease token in place.
Completed(cat, j) ==
    [cat EXCEPT ![j].status = "Succeeded", ![j].expires = None,
                ![j].after = None]

Failed(cat, j, permanent, now) ==
    [cat EXCEPT ![j].expires = None, ![j].after = now,
                ![j].status = IF permanent THEN "FailedPermanent"
                              ELSE IF cat[j].attempts >= MaxAttempts
                                   THEN "DeadLettered" ELSE "FailedRetryable"]

-----------------------------------------------------------------------------
(* Recorded events and their replay *)

EnqueuedEvent(j, job) == [event |-> "enqueued", job |-> j, value |-> job]
LeasedEvent(j, w, token, until) ==
    [event |-> "leased", job |-> j, owner |-> w, token |-> token, until |-> until]
HeartbeatEvent(j, token, until) ==
    [event |-> "heartbeat", job |-> j, token |-> token, until |-> until]
CompletedEvent(j, token) == [event |-> "completed", job |-> j, token |-> token]
FailedEvent(j, token, permanent, at) ==
    [event |-> "failed", job |-> j, token |-> token, permanent |-> permanent,
     at |-> at]

\* Broken: the replayed lease does not take over the token.
ReleasesKeepToken(job, e) ==
    [job EXCEPT !.owner = e.owner, !.expires = e.until, !.after = None,
                !.attempts = @ + 1, !.status = "Leased"]

\* What a replayed lease does to the job: one more attempt, whatever the
\* catalog already counts.
Releases(job, e) ==
    [job EXCEPT !.owner = e.owner, !.token = e.token, !.expires = e.until,
                !.after = None, !.attempts = @ + 1, !.status = "Leased"]

\* Broken: a recorded completion is taken for a renewal of the lease.
ApplyEventLosesCompletion(cat, e) ==
    CASE e.event = "enqueued" ->
            [cat EXCEPT ![e.job] = IF @ = None THEN e.value ELSE @]
      [] e.event = "leased" -> [cat EXCEPT ![e.job] = Releases(@, e)]
      [] e.event = "heartbeat" -> Heartbeaten(cat, e.job, e.until)
      [] e.event = "completed" -> cat
      [] e.event = "failed" -> Failed(cat, e.job, e.permanent, e.at)

\* apply_event, for an event that fits the catalog.
ApplyEvent(cat, e) ==
    CASE e.event = "enqueued" ->
            [cat EXCEPT ![e.job] = IF @ = None THEN e.value ELSE @]
      [] e.event = "leased" -> [cat EXCEPT ![e.job] = Releases(@, e)]
      [] e.event = "heartbeat" -> Heartbeaten(cat, e.job, e.until)
      [] e.event = "completed" -> Completed(cat, e.job)
      [] e.event = "failed" -> Failed(cat, e.job, e.permanent, e.at)

\* apply_event returns an error for an unknown job or a token that is not the
\* one the job was last leased under.
EventFits(cat, e) ==
    CASE e.event = "enqueued" -> TRUE
      [] e.event = "leased" -> e.job \in Known(cat)
      [] OTHER -> TokenFits(cat, e.job, e.token)

\* One event of a replay, which stops at the first event that does not fit.
ReplayEvent(r, e) ==
    IF r.ok /\ EventFits(r.cat, e)
    THEN [ok |-> TRUE, cat |-> ApplyEvent(r.cat, e)]
    ELSE [ok |-> FALSE, cat |-> r.cat]

\* The catalog and the outcome after all the events.
Replay(cat, events) ==
    LET after[n \in 0..Len(events)] ==
            IF n = 0 THEN [ok |-> TRUE, cat |-> cat]
            ELSE ReplayEvent(after[n - 1], events[n])
    IN  after[Len(events)]
=============================================================================
