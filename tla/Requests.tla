------------------------------ MODULE Requests ------------------------------
(***************************************************************************)
(* HTTP requests from the client's retry loop (tracedb-cli) to the shards  *)
(* of the server (tracedb-server): load shedding, the choice of a shard    *)
(* handle, the idempotency cache in front of the engine, the receipts that *)
(* commits carry, and time-outs and crashes at every step.  How a commit   *)
(* reaches the disk is the subject of Engine.tla; here it is one step.     *)
(* Private tokens and request parsing are left out.                        *)
(***************************************************************************)
EXTENDS Integers, Sequences, SequencesExt, FiniteSets

CONSTANTS
    Calls,              \* calls of the client library
    CallSpecs,          \* what a call may ask for
    Root,               \* the default shard
    NoKey,              \* no Idempotency-Key header
    MaxConcurrent,      \* max_concurrent_requests
    IdempotencyRetries, \* idempotency_retries of the client
    SafeRetries,        \* safe_retries of the client
    MaxRestarts         \* bound on crashes of the server

\* A call: its route ("mutation" with an embedded receipt, "timed_batch"
\* without one; "admin", "traceql" and "graphql" with a receipt afterwards;
\* "read"), its key, body and shard, and whether what the body asks for changes
\* the shard: a TraceQL or GraphQL statement may write or read, and its text,
\* the body, says which.
ASSUME RequestsAssumption ==
    /\ \A s \in CallSpecs :
        /\ {"route", "key", "body", "shard", "writes"} = DOMAIN s
        /\ \/ s.route \in {"mutation", "timed_batch", "admin"} /\ s.writes
           \/ s.route \in {"traceql", "graphql"} /\ s.writes \in BOOLEAN
           \/ s.route = "read" /\ ~s.writes
    /\ \A s, t \in CallSpecs :
        s.route = t.route /\ s.body = t.body => s.writes = t.writes
    /\ {MaxConcurrent, IdempotencyRetries, SafeRetries, MaxRestarts} \subseteq Nat

VARIABLES
    spec,       \* what each call asks for
    client,     \* each call: attempts made, phase and result
    hnd,        \* the server's handler of each attempt
    shards,     \* EngineHandle.shards: the open handle of each shard
    handles,    \* handles opened so far
    disk,       \* the commits of each shard's directory
    cache,      \* IdempotencyCacheState
    raced,      \* keys that two handlers missed in the cache at the same time
    answered,   \* keys whose success some client has seen
    erred,      \* commits whose request was answered with an error
    restarts    \* crashes so far

vars == <<spec, client, hnd, shards, handles, disk, cache, raced, answered, erred,
          restarts>>

Shards == {s.shard : s \in CallSpecs} \cup {Root}
MaxAttempts == 1 + (IF IdempotencyRetries > SafeRetries
                    THEN IdempotencyRetries ELSE SafeRetries)
Attempts == Calls \X (1..MaxAttempts)

NoHandler == [pc |-> "none"]
Active == {a \in Attempts : hnd[a].pc # "none"}

\* IdempotencyCacheKey: method, path, key and actor.
CacheKey(s) == [route |-> s.route, key |-> s.key, shard |-> s.shard]

\* supports_http_idempotency, with a non-empty key
Keyed(s) == s.key # NoKey /\ s.route # "read"

\* records_receipt_after_response
ReceiptAfter(route) == route \in {"admin", "traceql", "graphql"}

\* A response: its status, and the commit that a 200 reports; <<>> when it
\* reports none (the answer of a read, or the errors of a statement).
Ok(commit) == [status |-> 200, commit |-> commit]
Status(code) == [status |-> code]

Put1(f, x, y) == [z \in DOMAIN f \cup {x} |-> IF z = x THEN y ELSE f[z]]

-----------------------------------------------------------------------------
(* The client *)

\* request_attempts
AttemptsFor(s) ==
    CASE /\ Keyed(s) /\ IdempotencyRetries > 0
         /\ s.route \notin {"traceql", "graphql"} -> IdempotencyRetries + 1
      [] s.route = "read" -> SafeRetries + 1
      [] OTHER -> 1

\* http_api_error_is_retryable; 0 stands for HttpApiError::Request.
Retryable(resp) == resp.status = 0 \/ resp.status >= 500

\* What a call returns: a success, or an error; which one is not told apart.
Failure == Status(0)
Result(resp) == IF resp.status = 200 THEN resp ELSE Failure

\* The outcome of an attempt of call c, in the loop of
\* request_json_with_options.
Outcome(c, resp) ==
    client' = [client EXCEPT ![c] =
        IF Retryable(resp) /\ @.made < AttemptsFor(spec[c])
        THEN [@ EXCEPT !.phase = "ready"]
        ELSE [@ EXCEPT !.phase = "done", !.result = Result(resp)]]

\* Broken: no limit on concurrent requests.
SendUnlimited(c) ==
    /\ client[c].phase = "ready"
    /\ client' = [client EXCEPT ![c].phase = "waiting", ![c].made = @ + 1]
    /\ hnd' = [hnd EXCEPT ![<<c, client[c].made + 1>>] = [pc |-> "route"]]
    /\ UNCHANGED <<spec, shards, handles, disk, cache, raced, answered, erred,
                   restarts>>

\* request_json_once sends the request.
Send(c) ==
    /\ client[c].phase = "ready"
    /\ Cardinality(Active) < MaxConcurrent
    /\ client' = [client EXCEPT ![c].phase = "waiting", ![c].made = @ + 1]
    /\ hnd' = [hnd EXCEPT ![<<c, client[c].made + 1>>] = [pc |-> "route"]]
    /\ UNCHANGED <<spec, shards, handles, disk, cache, raced, answered, erred,
                   restarts>>

\* LoadShedLayer: the request is answered with 503.
Shed(c) ==
    /\ client[c].phase = "ready"
    /\ Cardinality(Active) >= MaxConcurrent
    /\ LET n == client[c].made + 1
           again == n < AttemptsFor(spec[c])
       IN  client' = [client EXCEPT ![c].made = n,
                        ![c].phase = IF again THEN "ready" ELSE "done",
                        ![c].result = IF again THEN @ ELSE Failure]
    /\ UNCHANGED <<spec, hnd, shards, handles, disk, cache, raced, answered, erred,
                   restarts>>

\* The client's own timer fires, or the connection breaks.  The handler may go
\* on (or be dropped, see Timeout).
ClientTimeout(c) ==
    /\ client[c].phase = "waiting"
    /\ Outcome(c, Status(0))
    /\ UNCHANGED <<spec, hnd, shards, handles, disk, cache, raced, answered, erred,
                   restarts>>

-----------------------------------------------------------------------------
(* The handler of an attempt *)

Reply(a, resp) == hnd' = [hnd EXCEPT ![a] = [pc |-> "reply", resp |-> resp]]

\* The reply reaches the client if it still waits for this attempt.
Deliver(a) ==
    /\ hnd[a].pc = "reply"
    /\ LET c == a[1]
           waits == client[c].phase = "waiting" /\ client[c].made = a[2]
       IN  /\ IF waits THEN Outcome(c, hnd[a].resp) ELSE UNCHANGED client
           /\ answered' = IF waits /\ hnd[a].resp.status = 200 /\ Keyed(spec[c])
                          THEN answered \cup {CacheKey(spec[c])} ELSE answered
    /\ hnd' = [hnd EXCEPT ![a] = NoHandler]
    /\ UNCHANGED <<spec, shards, handles, disk, cache, raced, erred, restarts>>

\* for_actor, under the read lock
Route(a) ==
    LET s == spec[a[1]].shard
    IN  /\ hnd[a].pc = "route"
        /\ hnd' = [hnd EXCEPT ![a] =
             IF s \in DOMAIN shards THEN [pc |-> "lookup", handle |-> shards[s]]
             ELSE [pc |-> "create"]]
        /\ UNCHANGED <<spec, client, shards, handles, disk, cache, raced, answered,
                       erred, restarts>>

\* Broken: the shard is not looked up again under the write lock.
CreateUnchecked(a) ==
    /\ hnd[a].pc = "create"
    /\ handles' = handles + 1
    /\ shards' = Put1(shards, spec[a[1]].shard, handles')
    /\ hnd' = [hnd EXCEPT ![a] = [pc |-> "lookup", handle |-> handles']]
    /\ UNCHANGED <<spec, client, disk, cache, raced, answered, erred, restarts>>

\* for_actor, under the write lock: another handler may have been first.
Create(a) ==
    LET s == spec[a[1]].shard
    IN  /\ hnd[a].pc = "create"
        /\ handles' = IF s \in DOMAIN shards THEN handles ELSE handles + 1
        /\ shards' = IF s \in DOMAIN shards THEN shards ELSE Put1(shards, s, handles')
        /\ hnd' = [hnd EXCEPT ![a] = [pc |-> "lookup", handle |-> shards'[s]]]
        /\ UNCHANGED <<spec, client, disk, cache, raced, answered, erred, restarts>>

\* Handlers of the same key between their lookup and their insertion.
Pending(ck) == {b \in Active : /\ CacheKey(spec[b[1]]) = ck
                               /\ hnd[b].pc \in {"execute", "receipt", "insert"}}

\* Broken: a cached response answers any body.
HitAnyBody(s) == cache[CacheKey(s)].resp

\* What the cache answers: the response to the same body, else a conflict.
Hit(s) == IF cache[CacheKey(s)].body = s.body THEN cache[CacheKey(s)].resp
          ELSE Status(409)

Lookup(a) ==
    LET s == spec[a[1]]
        ck == CacheKey(s)
    IN  /\ hnd[a].pc = "lookup"
        /\ IF Keyed(s) /\ ck \in DOMAIN cache
           THEN Reply(a, Hit(s)) /\ UNCHANGED raced
           ELSE /\ hnd' = [hnd EXCEPT ![a].pc = "execute"]
                /\ raced' = IF Keyed(s) /\ Pending(ck) # {}
                            THEN raced \cup {ck} ELSE raced
        /\ UNCHANGED <<spec, client, shards, handles, disk, cache, answered, erred,
                       restarts>>

\* A commit; the receipt it carries replays the response.
Commit(s, kind, receipt) ==
    [kind |-> kind, ck |-> CacheKey(s), body |-> s.body, receipt |-> receipt]

\* The commit that the next write of a shard makes.
Reported(s) == IF s.writes THEN <<s.shard, Len(disk[s.shard]) + 1>> ELSE <<>>

\* Broken: the receipt is not part of the commit.
ExecutedUnreceipted(s) ==
    IF s.writes THEN Append(disk[s.shard], Commit(s, "effect", <<>>)) ELSE disk[s.shard]

\* The directory after the operation of s.
Executed(s) ==
    IF ~s.writes THEN disk[s.shard]
    ELSE Append(disk[s.shard], Commit(s, "effect",
            IF s.route = "mutation" /\ Keyed(s) THEN <<Ok(Reported(s))>> ELSE <<>>))

\* What follows the match on the route, for a 200 response.
Answer(a, resp) ==
    LET s == spec[a[1]]
    IN  IF Keyed(s)
        THEN hnd' = [hnd EXCEPT ![a] =
               [pc |-> IF ReceiptAfter(s.route) THEN "receipt" ELSE "insert",
                resp |-> resp]]
        ELSE Reply(a, resp)

\* The engine executes the request under its lock.
Execute(a, routes) ==
    LET s == spec[a[1]]
    IN  /\ hnd[a].pc = "execute" /\ s.route \in routes
        /\ disk' = [disk EXCEPT ![s.shard] = Executed(s)]
        /\ Answer(a, Ok(Reported(s)))
        /\ UNCHANGED <<spec, client, shards, handles, cache, raced, answered,
                       erred, restarts>>

\* Schemas, inserts, puts, batches, patches and deletes.
ExecuteMutation(a) == Execute(a, {"mutation", "timed_batch"})

\* Gets, scans, queries and explanations.
ExecuteRead(a) == Execute(a, {"read"})

\* Compaction, snapshot and restore.
ExecuteAdmin(a) == Execute(a, {"admin"})

\* execute_traceql_command, or the query that is not a command
ExecuteTraceQl(a) == Execute(a, {"traceql"})

\* execute_native_graphql
ExecuteGraphQl(a) == Execute(a, {"graphql"})

\* The errors of a GraphQL operation, and of a TraceQL snapshot, are the body of
\* a 200 response, which is recorded and cached like any other; the operation may
\* have failed before or after its commit.
StatementFails(a) ==
    LET s == spec[a[1]]
    IN  /\ hnd[a].pc = "execute" /\ s.route \in {"traceql", "graphql"}
        /\ \/ UNCHANGED disk
           \/ disk' = [disk EXCEPT ![s.shard] = Executed(s)]
        /\ Answer(a, Ok(<<>>))
        /\ UNCHANGED <<spec, client, shards, handles, cache, raced, answered,
                       erred, restarts>>

\* Broken: the receipt is only in memory.
RecordReceiptInMemory(a) ==
    /\ hnd[a].pc = "receipt"
    /\ hnd' = [hnd EXCEPT ![a].pc = "insert"]
    /\ UNCHANGED <<spec, client, shards, handles, disk, cache, raced, answered,
                   erred, restarts>>

\* record_idempotency_receipt: a commit of its own.
RecordReceipt(a) ==
    LET s == spec[a[1]]
    IN  /\ hnd[a].pc = "receipt"
        /\ disk' = [disk EXCEPT ![s.shard] =
                      Append(@, Commit(s, "receipt", <<hnd[a].resp>>))]
        /\ hnd' = [hnd EXCEPT ![a].pc = "insert"]
        /\ UNCHANGED <<spec, client, shards, handles, cache, raced, answered,
                       erred, restarts>>

\* The response is cached and returned.
Insert(a) ==
    LET s == spec[a[1]]
    IN  /\ hnd[a].pc = "insert"
        /\ cache' = Put1(cache, CacheKey(s), [body |-> s.body, resp |-> hnd[a].resp])
        /\ Reply(a, hnd[a].resp)
        /\ UNCHANGED <<spec, client, shards, handles, disk, raced, answered, erred,
                       restarts>>

\* Any error that the handler returns is answered with 400; nothing is cached.
\* Here it fails before a commit.
HandlerFails(a) ==
    /\ hnd[a].pc \in {"create", "execute", "receipt"}
    /\ Reply(a, Status(400))
    /\ UNCHANGED <<spec, client, shards, handles, disk, cache, raced, answered,
                   erred, restarts>>

\* The operation fails after append_commit: bump_manifest, which ends every
\* mutation, returns an error.  The commit stays, with the receipt it carries.
FailsAfterCommit(a) ==
    LET s == spec[a[1]]
    IN  /\ hnd[a].pc = "execute" /\ s.writes
        /\ disk' = [disk EXCEPT ![s.shard] = Executed(s)]
        /\ erred' = erred \cup {Reported(s)}
        /\ Reply(a, Status(400))
        /\ UNCHANGED <<spec, client, shards, handles, cache, raced, answered,
                       restarts>>

\* record_idempotency_receipt fails in the same place.
FailsAfterReceipt(a) ==
    LET s == spec[a[1]]
    IN  /\ hnd[a].pc = "receipt"
        /\ disk' = [disk EXCEPT ![s.shard] =
                      Append(@, Commit(s, "receipt", <<hnd[a].resp>>))]
        /\ Reply(a, Status(400))
        /\ UNCHANGED <<spec, client, shards, handles, cache, raced, answered,
                       erred, restarts>>

\* TimeoutLayer drops the handler where it waits for a lock.
Timeout(a) ==
    /\ hnd[a].pc \in {"route", "create", "execute", "receipt"}
    /\ Reply(a, Status(504))
    /\ UNCHANGED <<spec, client, shards, handles, disk, cache, raced, answered,
                   erred, restarts>>

-----------------------------------------------------------------------------
(* The server *)

\* open_server_state: the receipts of the root directory; of one key, the last.
Receipts(log) ==
    LET has == {i \in 1..Len(log) : log[i].receipt # <<>>}
        last(ck) == CHOOSE i \in has : /\ log[i].ck = ck
                                       /\ \A j \in has : log[j].ck = ck => j <= i
    IN  [ck \in {log[i].ck : i \in has} |->
            [body |-> log[last(ck)].body, resp |-> log[last(ck)].receipt[1]]]

\* The process dies with its handlers and starts again.
Restart ==
    /\ restarts < MaxRestarts
    /\ restarts' = restarts + 1
    /\ hnd' = [a \in Attempts |-> NoHandler]
    /\ handles' = handles + 1
    /\ shards' = [s \in {Root} |-> handles']
    /\ cache' = Receipts(disk[Root])
    /\ UNCHANGED <<spec, client, disk, raced, answered, erred>>

Init ==
    /\ spec \in [Calls -> CallSpecs]
    /\ client = [c \in Calls |-> [phase |-> "ready", made |-> 0, result |-> Failure]]
    /\ hnd = [a \in Attempts |-> NoHandler]
    /\ shards = [s \in {Root} |-> 1] /\ handles = 1
    /\ disk = [s \in Shards |-> <<>>]
    /\ cache = <<>>
    /\ raced = {} /\ answered = {} /\ erred = {}
    /\ restarts = 0

Step(a) ==
    \/ Route(a) \/ Create(a) \/ Lookup(a) \/ RecordReceipt(a)
    \/ ExecuteMutation(a) \/ ExecuteRead(a) \/ ExecuteAdmin(a)
    \/ ExecuteTraceQl(a) \/ ExecuteGraphQl(a) \/ StatementFails(a)
    \/ Insert(a) \/ Deliver(a)

Next ==
    \/ \E c \in Calls : Send(c) \/ Shed(c) \/ ClientTimeout(c)
    \/ \E a \in Attempts :
        \/ Step(a) \/ Timeout(a)
        \/ HandlerFails(a) \/ FailsAfterCommit(a) \/ FailsAfterReceipt(a)
    \/ Restart

Spec == Init /\ [][Next]_vars

-----------------------------------------------------------------------------
(* Properties *)

Effects(ck) ==
    {i \in 1..Len(disk[ck.shard]) :
        disk[ck.shard][i].kind = "effect" /\ disk[ck.shard][i].ck = ck}

KeysUsed == {CacheKey(spec[c]) : c \in {d \in Calls : Keyed(spec[d])}}

\* The receipts of a key outlive the server: those of the root directory do,
\* unless the route leaves none.
Remembered(ck) ==
    restarts = 0 \/ (ck.shard = Root /\ ck.route # "timed_batch")

\* The types; as many handlers as the concurrency limit allows.
RequestsTypeOK ==
    /\ \A c \in Calls : /\ client[c].phase \in {"ready", "waiting", "done"}
                        /\ client[c].made \in 0..MaxAttempts
    /\ Cardinality(Active) <= MaxConcurrent
    /\ Root \in DOMAIN shards /\ DOMAIN shards \subseteq Shards

\* A mutation with an idempotency key is executed again under the key only if
\* every execution before was answered with an error, whatever replies are lost
\* and wherever the server crashes: retries of one that succeeded execute
\* nothing, nor does the key with another body.  An error may come after the
\* commit; the repeat then makes a second one, unless a restart has read the
\* receipt of the first.  Exceptions: handlers of one key that overlap, keys the
\* server does not remember across a restart, and the routes that record their
\* receipt after the effect.
ExecutedOnce ==
    \A ck \in KeysUsed :
        \/ ReceiptAfter(ck.route)
        \/ ck \in raced
        \/ ~Remembered(ck)
        \/ \A i, j \in Effects(ck) : i < j => <<ck.shard, i>> \in erred

\* An operation whose success a client has seen is not executed again under its
\* key, administrative operations and statements included, which record their
\* receipt later; nor is a statement whose failure a client has seen.
\* Exceptions: handlers of one key that overlap, and keys the server does not
\* remember across a restart.
AnsweredNotRepeated ==
    [][\A ck \in answered \cap KeysUsed :
          Effects(ck)' # Effects(ck) => ck \in raced' \/ ~Remembered(ck)]_vars

\* A success that a client is given is that of its own request: the commit it
\* reports is in the shard's directory, made by the same route and key from the
\* same body, also when it comes from the cache or from a receipt.
AnswersAreReal ==
    \A c \in Calls :
        LET s == spec[c]
            resp == client[c].result
        IN  (client[c].phase = "done" /\ resp.status = 200) =>
              IF resp.commit = <<>> THEN s.route \in {"read", "traceql", "graphql"}
              ELSE
              LET log == disk[resp.commit[1]]
              IN  /\ s.writes /\ resp.commit[1] = s.shard
                  /\ resp.commit[2] \in 1..Len(log)
                  /\ log[resp.commit[2]].ck = CacheKey(s)
                  /\ log[resp.commit[2]].body = s.body

\* There is one handle per shard: no handler works on one that later requests
\* do not see, although several open a new shard at the same time.
OneHandlePerShard ==
    \A a \in Active : hnd[a].pc \in {"lookup", "execute"} =>
        hnd[a].handle = shards[spec[a[1]].shard]
=============================================================================
