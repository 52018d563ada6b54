--------------------------- MODULE RequestsProofs ---------------------------
(***************************************************************************)
(* Theorems about Requests.tla, for every set of calls and every limit.    *)
(***************************************************************************)
EXTENDS Requests, FiniteSetTheorems, NaturalsInduction, WellFoundedInduction, TLAPS

CacheKeys == {CacheKey(s) : s \in CallSpecs}
Bodies == {s.body : s \in CallSpecs}

Response ==
    [status : {200}, commit : {<<>>} \cup (Shards \X Nat)]
        \cup [status : {0, 400, 409, 503, 504}]

Handler ==
    [pc : {"none", "route", "create"}]
        \cup [pc : {"lookup", "execute"}, handle : Nat]
        \cup [pc : {"receipt", "insert", "reply"}, resp : Response]

Commits ==
    [kind : {"effect", "receipt"}, ck : CacheKeys, body : Bodies,
     receipt : {<<>>} \cup {<<r>> : r \in Response}]

\* The attempts that the client's policy leaves.
Budget ==
    /\ \A c \in Calls : /\ client[c].made <= AttemptsFor(spec[c])
                        /\ client[c].phase = "ready" =>
                              client[c].made < AttemptsFor(spec[c])
    /\ \A a \in Attempts : hnd[a].pc # "none" => a[2] <= client[a[1]].made

\* Handlers take the places of the concurrency limit.
Places == IsFiniteSet(Active) /\ Cardinality(Active) <= MaxConcurrent

Typing ==
    /\ spec \in [Calls -> CallSpecs]
    /\ client \in [Calls -> [phase : {"ready", "waiting", "done"},
                             made : 0..MaxAttempts, result : Response]]
    /\ hnd \in [Attempts -> Handler]
    /\ handles \in Nat /\ restarts \in Nat
    /\ shards \in [DOMAIN shards -> Nat]
    /\ Root \in DOMAIN shards /\ DOMAIN shards \subseteq Shards
    /\ disk \in [Shards -> Seq(Commits)]
    /\ \A ck \in DOMAIN cache : cache[ck] \in [body : Bodies, resp : Response]

Base == Typing /\ Budget /\ Places

-----------------------------------------------------------------------------
(* The operators of the model *)

\* The limits are numbers, and no call may make more than MaxAttempts attempts.
LEMMA ConstantFacts ==
    /\ MaxAttempts \in Nat /\ MaxConcurrent \in Nat /\ MaxRestarts \in Nat
    /\ \A s \in CallSpecs : /\ AttemptsFor(s) \in Nat
                            /\ 1 <= AttemptsFor(s)
                            /\ AttemptsFor(s) <= MaxAttempts
    /\ \A s \in CallSpecs : s.shard \in Shards
    /\ Root \in Shards
<1>1. {MaxConcurrent, IdempotencyRetries, SafeRetries, MaxRestarts} \subseteq Nat
  BY RequestsAssumption
<1>2. \A s \in CallSpecs : /\ AttemptsFor(s) \in Nat
                           /\ 1 <= AttemptsFor(s)
                           /\ AttemptsFor(s) <= MaxAttempts
  BY <1>1 DEF AttemptsFor, MaxAttempts
<1> QED
  BY <1>1, <1>2 DEF MaxAttempts, Shards

\* The fields of a cache key.
LEMMA KeyFacts ==
    ASSUME NEW s \in CallSpecs
    PROVE  /\ CacheKey(s) \in CacheKeys
           /\ CacheKey(s).route = s.route
           /\ CacheKey(s).key = s.key
           /\ CacheKey(s).shard = s.shard
           /\ s.body \in Bodies
BY DEF CacheKey, CacheKeys, Bodies

\* Responses and their status.
LEMMA ResponseFacts ==
    /\ \A code \in {0, 400, 409, 503, 504} :
          Status(code) \in Response /\ Status(code).status = code
    /\ Ok(<<>>) \in Response
    /\ \A sh \in Shards, n \in Nat : Ok(<<sh, n>>) \in Response
    /\ \A x : Ok(x).status = 200 /\ Ok(x).commit = x
    /\ \A r \in Response : r.status \in {0, 200, 400, 409, 503, 504}
BY DEF Response, Status, Ok

\* The states of a handler.
LEMMA HandlerFacts ==
    /\ NoHandler \in Handler /\ NoHandler.pc = "none"
    /\ \A h \in Handler :
          /\ h.pc \in {"none", "route", "create", "lookup", "execute",
                       "receipt", "insert", "reply"}
          /\ h.pc \in {"lookup", "execute"} =>
                h.handle \in Nat /\ [h EXCEPT !.pc = "execute"] =
                                       [pc |-> "execute", handle |-> h.handle]
          /\ h.pc \in {"receipt", "insert", "reply"} =>
                h.resp \in Response /\ [h EXCEPT !.pc = "insert"] =
                                         [pc |-> "insert", resp |-> h.resp]
    /\ \A p \in {"route", "create"} : [pc |-> p] \in Handler
    /\ \A p \in {"lookup", "execute"}, n \in Nat : [pc |-> p, handle |-> n] \in Handler
    /\ \A p \in {"receipt", "insert", "reply"}, r \in Response :
          [pc |-> p, resp |-> r] \in Handler
BY DEF Handler, NoHandler
\* The fields of a commit.
LEMMA CommitFacts ==
    ASSUME NEW s \in CallSpecs, NEW kind \in {"effect", "receipt"},
           NEW receipt \in {<<>>} \cup {<<r>> : r \in Response}
    PROVE  /\ Commit(s, kind, receipt) \in Commits
           /\ Commit(s, kind, receipt).kind = kind
           /\ Commit(s, kind, receipt).ck = CacheKey(s)
           /\ Commit(s, kind, receipt).body = s.body
           /\ Commit(s, kind, receipt).receipt = receipt
BY KeyFacts DEF Commit, Commits

\* A handler moves, and no other does.
LEMMA MoveFacts ==
    ASSUME Typing, NEW a \in Attempts, NEW h, hnd' = [hnd EXCEPT ![a] = h]
    PROVE  /\ hnd'[a] = h
           /\ \A b \in Attempts : b # a => hnd'[b] = hnd[b]
           /\ h \in Handler => hnd' \in [Attempts -> Handler]
BY DEF Typing

\* An attempt belongs to a call, and the call asks for something.
LEMMA AttemptFacts ==
    ASSUME Typing, NEW a \in Attempts
    PROVE  /\ a[1] \in Calls /\ a[2] \in 1..MaxAttempts /\ a = <<a[1], a[2]>>
           /\ spec[a[1]] \in CallSpecs
           /\ hnd[a] \in Handler
BY DEF Typing, Attempts

\* Without a new handler the limit is kept.
LEMMA ActiveKept ==
    ASSUME Base,
           \A b \in Attempts : hnd'[b].pc # "none" => hnd[b].pc # "none"
    PROVE  Places'
<1>1. Active' \subseteq Active
  BY DEF Active
<1>2. IsFiniteSet(Active') /\ Cardinality(Active') <= Cardinality(Active)
  BY <1>1, FS_Subset DEF Base, Places
<1>3. Cardinality(Active') \in Nat /\ Cardinality(Active) \in Nat
  BY <1>2, FS_CardinalityType DEF Base, Places
<1> QED
  BY <1>2, <1>3, ConstantFacts DEF Base, Places

\* An active handler that moves keeps its place.
LEMMA MoveKeeps ==
    ASSUME Base, NEW a \in Attempts, NEW h \in Handler,
           hnd' = [hnd EXCEPT ![a] = h], hnd[a].pc # "none",
           UNCHANGED <<spec, client>>
    PROVE  hnd' \in [Attempts -> Handler] /\ Budget' /\ Places'
<1>1. /\ hnd'[a] = h /\ hnd' \in [Attempts -> Handler]
      /\ \A b \in Attempts : b # a => hnd'[b] = hnd[b]
  BY MoveFacts DEF Base
<1>2. \A b \in Attempts : hnd'[b].pc # "none" => hnd[b].pc # "none"
  BY <1>1
<1>3. Places'
  BY <1>2, ActiveKept
<1>4. Budget'
  <2>1. \A c \in Calls : AttemptsFor(spec[c])' = AttemptsFor(spec[c])
    BY DEF AttemptsFor, Keyed
  <2> QED
    BY <1>2, <2>1 DEF Base, Budget
<1> QED
  BY <1>1, <1>3, <1>4

\* The client's side of the loop: the budget is kept.
LEMMA OutcomeKeeps ==
    ASSUME Base, NEW c \in Calls, NEW resp \in Response, Outcome(c, resp),
           client[c].phase = "waiting", spec' = spec
    PROVE  /\ client' \in [Calls -> [phase : {"ready", "waiting", "done"},
                                     made : 0..MaxAttempts, result : Response]]
           /\ \A d \in Calls : client'[d].made = client[d].made
           /\ \A d \in Calls :
                 /\ client'[d].made <= AttemptsFor(spec'[d])
                 /\ client'[d].phase = "ready" => client'[d].made < AttemptsFor(spec'[d])
           /\ \A d \in Calls \ {c} : client'[d] = client[d]
           /\ client'[c].phase = "done" => client'[c].result = Result(resp)
           /\ client'[c].phase \in {"ready", "done"}
<1> DEFINE T == [phase : {"ready", "waiting", "done"},
                 made : 0..MaxAttempts, result : Response]
           new == IF Retryable(resp) /\ client[c].made < AttemptsFor(spec[c])
                  THEN [client[c] EXCEPT !.phase = "ready"]
                  ELSE [client[c] EXCEPT !.phase = "done", !.result = Result(resp)]
<1>0. Result(resp) \in Response
  BY ResponseFacts DEF Result, Failure
<1>1. client' = [client EXCEPT ![c] = new] /\ client \in [Calls -> T]
  BY DEF Outcome, Base, Typing
<1>2. client[c] \in T
  BY <1>1
<1>3. /\ new \in T /\ new.made = client[c].made /\ new.phase \in {"ready", "done"}
      /\ new.phase = "ready" => new.made < AttemptsFor(spec[c])
      /\ new.phase = "done" => new.result = Result(resp)
  <2>1. CASE Retryable(resp) /\ client[c].made < AttemptsFor(spec[c])
    BY <1>2, <2>1
  <2>2. CASE ~(Retryable(resp) /\ client[c].made < AttemptsFor(spec[c]))
    BY <1>0, <1>2, <2>2
  <2> QED
    BY <2>1, <2>2
<1> HIDE DEF new
<1>4. client'[c] = new /\ \A d \in Calls \ {c} : client'[d] = client[d]
  BY <1>1
<1>5. client' \in [Calls -> T]
  BY <1>1, <1>3
<1> HIDE DEF T
<1>6. \A d \in Calls : client'[d].made = client[d].made
  BY <1>3, <1>4
<1>7. \A d \in Calls :
         /\ client'[d].made <= AttemptsFor(spec'[d])
         /\ client'[d].phase = "ready" => client'[d].made < AttemptsFor(spec'[d])
  BY <1>3, <1>4, <1>6 DEF Base, Budget
<1> QED
  BY <1>3, <1>4, <1>5, <1>6, <1>7 DEF T

-----------------------------------------------------------------------------
(* Types, attempts and places *)

\* The initial state is well typed.
LEMMA InitBase == Init => Base
<1> SUFFICES ASSUME Init PROVE Base
  OBVIOUS
<1>1. Typing
  <2>1. \A s \in Shards : disk[s] \in Seq(Commits)
    BY DEF Init
  <2> QED
    BY <2>1, ConstantFacts, ResponseFacts, HandlerFacts DEF Init, Typing, Failure
<1>2. Active = {}
  BY DEF Init, Active, NoHandler
<1>3. Places
  BY <1>2, FS_EmptySet, ConstantFacts DEF Places
<1>4. Budget
  <2>1. \A c \in Calls : spec[c] \in CallSpecs /\ client[c].made = 0
    BY DEF Init
  <2> QED
    BY <2>1, ConstantFacts DEF Init, Budget, NoHandler
<1> QED
  BY <1>1, <1>3, <1>4 DEF Base

\* The fields of a call that is updated.
LEMMA CallUpdate ==
    ASSUME NEW M, NEW r \in [phase : {"ready", "waiting", "done"}, made : M, result : Response],
           NEW p \in {"ready", "waiting", "done"}, NEW m \in M, NEW q \in Response
    PROVE  LET x == [r EXCEPT !.phase = p, !.made = m]
               y == [r EXCEPT !.made = m, !.phase = p, !.result = q]
               T == [phase : {"ready", "waiting", "done"}, made : M, result : Response]
           IN  /\ x \in T /\ x.phase = p /\ x.made = m
               /\ y \in T /\ y.phase = p /\ y.made = m /\ y.result = q
OBVIOUS

\* A new attempt takes a free place, and its slot is unused.
LEMMA SendBase ==
    ASSUME Base, NEW c \in Calls, Send(c)
    PROVE  /\ Base'
           /\ <<c, client[c].made + 1>> \in Attempts
           /\ hnd[<<c, client[c].made + 1>>].pc = "none"
<1> DEFINE T == [phase : {"ready", "waiting", "done"},
                 made : 0..MaxAttempts, result : Response]
           n == client[c].made + 1
           a == <<c, n>>
           new == [client[c] EXCEPT !.phase = "waiting", !.made = n]
<1>1. /\ client \in [Calls -> T] /\ client[c] \in T /\ spec[c] \in CallSpecs
      /\ client[c].made < AttemptsFor(spec[c])
  BY DEF Send, Base, Typing, Budget
<1>2. n \in 1..MaxAttempts /\ n <= AttemptsFor(spec[c])
  BY <1>1, ConstantFacts
<1>3. a \in Attempts /\ hnd[a].pc = "none"
  <2>1. a \in Attempts /\ a[1] = c /\ a[2] = n
    BY <1>2 DEF Attempts
  <2> QED
    BY <2>1, <1>1, <1>2 DEF Base, Budget
<1>4. new \in T /\ new.made = n /\ new.phase = "waiting"
  <2>1. n \in 0..MaxAttempts
    BY <1>2, ConstantFacts
  <2> QED
    BY <1>1, <2>1, CallUpdate
<1>5. client' = [client EXCEPT ![c] = new]
  BY <1>1 DEF Send
<1> HIDE DEF new
<1>6. /\ client' \in [Calls -> T] /\ client'[c] = new
      /\ \A d \in Calls \ {c} : client'[d] = client[d]
  BY <1>1, <1>4, <1>5
<1>7. hnd' = [hnd EXCEPT ![a] = [pc |-> "route"]] /\ [pc |-> "route"] \in Handler
  BY HandlerFacts DEF Send
<1>8. /\ hnd' \in [Attempts -> Handler] /\ hnd'[a].pc = "route"
      /\ \A b \in Attempts : b # a => hnd'[b] = hnd[b]
  BY <1>3, <1>7, MoveFacts DEF Base
<1>9. Typing'
  BY <1>6, <1>8 DEF Base, Typing, Send
<1>10. Budget'
  <2>1. \A d \in Calls : AttemptsFor(spec'[d]) = AttemptsFor(spec[d])
    BY DEF Send
  <2>2. \A d \in Calls : /\ client'[d].made <= AttemptsFor(spec'[d])
                         /\ client'[d].phase = "ready" =>
                               client'[d].made < AttemptsFor(spec'[d])
    BY <1>2, <1>4, <1>6, <2>1 DEF Base, Budget
  <2>3. \A d \in Calls : client[d].made <= client'[d].made
    BY <1>1, <1>4, <1>6
  <2>4. ASSUME NEW b \in Attempts, hnd'[b].pc # "none"
        PROVE  b[2] <= client'[b[1]].made
    <3>1. CASE b = a
      BY <3>1, <1>4, <1>6, <1>2
    <3>2. CASE b # a
      <4>1. b[2] <= client[b[1]].made /\ b[1] \in Calls /\ b[2] \in Nat
        BY <3>2, <2>4, <1>8, AttemptFacts DEF Base, Budget
      <4>2. client[b[1]].made \in Nat /\ client'[b[1]].made \in Nat
        BY <4>1, <1>1, <1>6
      <4> QED
        BY <4>1, <4>2, <2>3
    <3> QED
      BY <3>1, <3>2
  <2> QED
    BY <2>2, <2>4 DEF Budget
<1>11. Places'
  <2>1. Active' = Active \cup {a}
    BY <1>3, <1>8 DEF Active
  <2>2. a \notin Active
    BY <1>3 DEF Active
  <2>3. /\ IsFiniteSet(Active) /\ Cardinality(Active) \in Nat
        /\ Cardinality(Active) < MaxConcurrent
    BY FS_CardinalityType DEF Base, Places, Send
  <2>4. IsFiniteSet(Active') /\ Cardinality(Active') = Cardinality(Active) + 1
    BY <2>1, <2>2, <2>3, FS_AddElement
  <2> QED
    BY <2>3, <2>4, ConstantFacts DEF Places
<1> QED
  BY <1>3, <1>9, <1>10, <1>11 DEF Base

\* A shed request spends an attempt and nothing else.
LEMMA ShedBase ==
    ASSUME Base, NEW c \in Calls, Shed(c)
    PROVE  /\ Base'
           /\ \A d \in Calls : client'[d].phase = "done" =>
                 client'[d] = client[d] \/ client'[d].result.status = 0
<1> DEFINE T == [phase : {"ready", "waiting", "done"},
                 made : 0..MaxAttempts, result : Response]
           n == client[c].made + 1
           again == n < AttemptsFor(spec[c])
           new == [client[c] EXCEPT !.made = n,
                     !.phase = IF again THEN "ready" ELSE "done",
                     !.result = IF again THEN @ ELSE Failure]
<1>1. /\ client \in [Calls -> T] /\ client[c] \in T /\ spec[c] \in CallSpecs
      /\ client[c].made < AttemptsFor(spec[c])
  BY DEF Shed, Base, Typing, Budget
<1>2. n \in 1..MaxAttempts /\ n <= AttemptsFor(spec[c])
  BY <1>1, ConstantFacts
<1>3. /\ new \in T /\ new.made = n
      /\ new.phase = "ready" => n < AttemptsFor(spec[c])
      /\ new.phase = "done" => new.result = Failure
  <2> DEFINE p == IF again THEN "ready" ELSE "done"
             q == IF again THEN client[c].result ELSE Failure
  <2>1. /\ n \in 0..MaxAttempts /\ p \in {"ready", "waiting", "done"}
        /\ q \in Response
    BY <1>1, <1>2, ConstantFacts, ResponseFacts DEF Failure
  <2>2. p = "ready" => n < AttemptsFor(spec[c])
    OBVIOUS
  <2>3. p = "done" => q = Failure
    OBVIOUS
  <2>4. new = [client[c] EXCEPT !.made = n, !.phase = p, !.result = q]
    BY <1>1
  <2> HIDE DEF p, q, again
  <2> DEFINE M == 0..MaxAttempts
  <2> HIDE DEF M, n, new
  <2>5. new \in T /\ new.phase = p /\ new.made = n /\ new.result = q
    BY <1>1, <2>1, <2>4, CallUpdate DEF M
  <2> QED
    BY <2>1, <2>2, <2>3, <2>5
<1>4. client' = [client EXCEPT ![c] = new]
  BY ZenonT(60), <1>1 DEF Shed
<1> HIDE DEF new
<1>5. /\ client' \in [Calls -> T] /\ client'[c] = new
      /\ \A d \in Calls \ {c} : client'[d] = client[d]
  BY <1>1, <1>3, <1>4
<1>6. UNCHANGED <<spec, hnd, shards, handles, disk, cache, raced, answered, erred, restarts>>
  BY DEF Shed
<1>7. Typing'
  BY <1>5, <1>6 DEF Base, Typing
<1>8. \A d \in Calls : client[d].made <= client'[d].made
  BY <1>1, <1>3, <1>5
<1>9. \A b \in Attempts : hnd'[b].pc # "none" => b[2] <= client'[b[1]].made
  <2> SUFFICES ASSUME NEW b \in Attempts, hnd[b].pc # "none"
               PROVE  b[2] <= client'[b[1]].made
    BY <1>6
  <2>1. b[2] <= client[b[1]].made /\ b[1] \in Calls /\ b[2] \in Nat
    BY AttemptFacts DEF Base, Budget
  <2>2. client[b[1]].made \in Nat /\ client'[b[1]].made \in Nat
    BY <2>1, <1>1, <1>5
  <2> QED
    BY <2>1, <2>2, <1>8
<1>10. Budget'
  <2>1. \A d \in Calls : AttemptsFor(spec'[d]) = AttemptsFor(spec[d])
    BY <1>6
  <2> QED
    BY <2>1, <1>2, <1>3, <1>5, <1>9 DEF Base, Budget
<1>11. Places'
  BY <1>6, ActiveKept
<1> QED
  BY <1>3, <1>5, <1>7, <1>10, <1>11, ResponseFacts DEF Base, Failure

\* A commit is appended to the directory of one shard.
LEMMA AppendFacts ==
    ASSUME Typing, NEW sh \in Shards, NEW x \in Commits,
           disk' = [disk EXCEPT ![sh] = Append(disk[sh], x)]
    PROVE  /\ disk' \in [Shards -> Seq(Commits)]
           /\ Len(disk[sh]) \in Nat
           /\ Len(disk'[sh]) = Len(disk[sh]) + 1
           /\ disk'[sh][Len(disk[sh]) + 1] = x
           /\ \A i \in 1..Len(disk[sh]) : disk'[sh][i] = disk[sh][i]
           /\ \A t \in Shards : t # sh => disk'[t] = disk[t]
<1>1. disk \in [Shards -> Seq(Commits)] /\ disk[sh] \in Seq(Commits)
  BY DEF Typing
<1>2. disk'[sh] = Append(disk[sh], x) /\ \A t \in Shards : t # sh => disk'[t] = disk[t]
  BY <1>1
<1>3. Append(disk[sh], x) \in Seq(Commits)
  BY <1>1
<1> QED
  BY <1>1, <1>2, <1>3

\* What an execution appends, if it writes.
LEMMA ExecutedFacts ==
    ASSUME Typing, NEW s \in CallSpecs, disk' = [disk EXCEPT ![s.shard] = Executed(s)]
    PROVE  \/ /\ s.writes
              /\ Reported(s) = <<s.shard, Len(disk[s.shard]) + 1>>
              /\ \E r \in {<<>>, <<Ok(Reported(s))>>} :
                    /\ r = IF s.route = "mutation" /\ Keyed(s) THEN <<Ok(Reported(s))>> ELSE <<>>
                    /\ Commit(s, "effect", r) \in Commits
                    /\ disk' = [disk EXCEPT ![s.shard] =
                                   Append(disk[s.shard], Commit(s, "effect", r))]
           \/ ~s.writes /\ Reported(s) = <<>> /\ disk' = disk
<1>1. disk \in [Shards -> Seq(Commits)] /\ s.shard \in Shards
  BY ConstantFacts DEF Typing
<1>2. CASE ~s.writes
  BY <1>1, <1>2 DEF Executed, Reported
<1>3. CASE s.writes
  <2> DEFINE r == IF s.route = "mutation" /\ Keyed(s) THEN <<Ok(Reported(s))>> ELSE <<>>
  <2>1. Reported(s) = <<s.shard, Len(disk[s.shard]) + 1>> /\ Len(disk[s.shard]) + 1 \in Nat
    BY <1>1, <1>3 DEF Reported
  <2>2. Ok(Reported(s)) \in Response
    BY <2>1, <1>1, ResponseFacts
  <2>3. r \in {<<>>} \cup {<<q>> : q \in Response}
    BY <2>2
  <2>4. disk' = [disk EXCEPT ![s.shard] = Append(disk[s.shard], Commit(s, "effect", r))]
    BY <1>3 DEF Executed
  <2>5. r \in {<<>>, <<Ok(Reported(s))>>}
    OBVIOUS
  <2> HIDE DEF r
  <2>6. Commit(s, "effect", r) \in Commits
    BY <2>3, CommitFacts
  <2>7. r = IF s.route = "mutation" /\ Keyed(s) THEN <<Ok(Reported(s))>> ELSE <<>>
    BY DEF r
  <2> QED
    BY <1>3, <2>1, <2>4, <2>5, <2>6, <2>7
<1> QED
  BY <1>1, <1>2, <1>3

\* The response of an execution.
LEMMA ReportedFacts ==
    ASSUME Typing, NEW s \in CallSpecs
    PROVE  Ok(Reported(s)) \in Response
<1>1. s.shard \in Shards /\ Len(disk[s.shard]) + 1 \in Nat
  BY ConstantFacts DEF Typing
<1> QED
  BY <1>1, ResponseFacts DEF Reported

\* Where a handler goes with a 200 response.
LEMMA AnswerFacts ==
    ASSUME Typing, NEW a \in Attempts, NEW resp \in Response, Answer(a, resp)
    PROVE  LET s == spec[a[1]]
           IN  \E p \in {"receipt", "insert", "reply"} :
                  /\ hnd' = [hnd EXCEPT ![a] = [pc |-> p, resp |-> resp]]
                  /\ [pc |-> p, resp |-> resp] \in Handler
                  /\ p = IF Keyed(s) THEN IF ReceiptAfter(s.route) THEN "receipt" ELSE "insert"
                         ELSE "reply"
<1> DEFINE s == spec[a[1]]
           p == IF Keyed(s) THEN IF ReceiptAfter(s.route) THEN "receipt" ELSE "insert"
                ELSE "reply"
<1>1. hnd' = [hnd EXCEPT ![a] = [pc |-> p, resp |-> resp]]
  BY DEF Answer, Reply
<1>2. p \in {"receipt", "insert", "reply"}
  OBVIOUS
<1> HIDE DEF p
<1>3. [pc |-> p, resp |-> resp] \in Handler
  BY <1>2, HandlerFacts
<1> QED
  BY <1>1, <1>2, <1>3 DEF p

\* A bounded set of numbers has a greatest one.
LEMMA MaxIndex ==
    ASSUME NEW S \in SUBSET Nat, NEW n \in Nat, NEW x \in S, \A y \in S : y <= n
    PROVE  \E y \in S : \A z \in S : z <= y
<1> DEFINE D == {n - y : y \in S}
<1>1. D \in SUBSET Nat /\ n - x \in D
  OBVIOUS
<1>2. PICK d \in D : \A e \in D : <<e, d>> \notin OpToRel(<, Nat)
  BY <1>1, NatLessThanWellFounded, WFMin
<1>3. PICK y \in S : d = n - y
  BY <1>2
<1>4. \A z \in S : ~(n - z < n - y)
  BY <1>1, <1>2, <1>3 DEF OpToRel
<1> QED
  BY <1>4

\* open_server_state: the keys and the entries of the cache that it fills.
LEMMA ReceiptsFacts ==
    ASSUME NEW log \in Seq(Commits)
    PROVE  /\ DOMAIN Receipts(log) =
                {log[i].ck : i \in {j \in 1..Len(log) : log[j].receipt # <<>>}}
           /\ \A ck \in DOMAIN Receipts(log) :
                 \E i \in 1..Len(log) :
                    /\ log[i].ck = ck /\ log[i].receipt # <<>>
                    /\ Receipts(log)[ck] =
                          [body |-> log[i].body, resp |-> log[i].receipt[1]]
<1> DEFINE has == {i \in 1..Len(log) : log[i].receipt # <<>>}
           LastOf(ck) == CHOOSE i \in has : /\ log[i].ck = ck
                                          /\ \A j \in has : log[j].ck = ck => j <= i
           E(ck) == [body |-> log[LastOf(ck)].body, resp |-> log[LastOf(ck)].receipt[1]]
<1>1. Receipts(log) = [ck \in {log[i].ck : i \in has} |-> E(ck)]
  BY DEF Receipts
<1>2. ASSUME NEW ck \in {log[i].ck : i \in has}
      PROVE  LastOf(ck) \in has /\ log[LastOf(ck)].ck = ck
  <2> DEFINE S == {i \in has : log[i].ck = ck}
  <2>1. PICK x \in has : log[x].ck = ck
    BY <1>2
  <2>2. S \in SUBSET Nat /\ x \in S /\ Len(log) \in Nat /\ \A y \in S : y <= Len(log)
    BY <2>1
  <2> HIDE DEF S
  <2>3. PICK y \in S : \A z \in S : z <= y
    BY <2>2, MaxIndex
  <2>4. y \in has /\ log[y].ck = ck /\ \A j \in has : log[j].ck = ck => j <= y
    BY <2>3 DEF S
  <2> QED
    BY <2>4
<1> HIDE DEF LastOf
<1> QED
  BY <1>1, <1>2

\* A step changes the commits of a shard only by adding to them.
Grows ==
    \A sh \in Shards :
        /\ Len(disk[sh]) <= Len(disk'[sh])
        /\ \A i \in 1..Len(disk[sh]) : disk'[sh][i] = disk[sh][i]

\* The ways a handler may fail.
Fails(a) ==
    HandlerFails(a) \/ Timeout(a) \/ FailsAfterCommit(a) \/ FailsAfterReceipt(a)

\* The types survive the steps of a handler.
LEMMA StepBase ==
    ASSUME Base, NEW a \in Attempts, Step(a) \/ Fails(a)
    PROVE  Base'
<1> DEFINE s == spec[a[1]]
<1>0. /\ Typing /\ s \in CallSpecs /\ hnd[a] \in Handler /\ a[1] \in Calls
      /\ s.shard \in Shards
  BY AttemptFacts, ConstantFacts DEF Base
<1>1. ASSUME NEW h \in Handler, hnd' = [hnd EXCEPT ![a] = h], hnd[a].pc # "none",
             UNCHANGED <<spec, client, restarts>>,
             handles' \in Nat, shards' \in [DOMAIN shards' -> Nat],
             Root \in DOMAIN shards', DOMAIN shards' \subseteq Shards,
             disk' \in [Shards -> Seq(Commits)],
             \A ck \in DOMAIN cache' : cache'[ck] \in [body : Bodies, resp : Response]
      PROVE  Base'
  <2>1. hnd' \in [Attempts -> Handler] /\ Budget' /\ Places'
    BY <1>1, MoveKeeps
  <2>2. Typing'
    BY <1>0, <1>1, <2>1 DEF Typing
  <2> QED
    BY <2>1, <2>2 DEF Base
<1>2. \A p \in {"route", "create", "lookup", "execute", "receipt", "insert", "reply"} :
         hnd[a].pc = p => hnd[a].pc # "none"
  OBVIOUS
<1>3. CASE Route(a)
  <2> DEFINE h == IF s.shard \in DOMAIN shards
                  THEN [pc |-> "lookup", handle |-> shards[s.shard]] ELSE [pc |-> "create"]
  <2>1. h \in Handler
    BY <1>0, HandlerFacts DEF Typing
  <2>2. hnd' = [hnd EXCEPT ![a] = h] /\ hnd[a].pc # "none"
    BY <1>3 DEF Route
  <2> HIDE DEF h
  <2> QED
    BY <1>0, <1>1, <1>3, <2>1, <2>2 DEF Route, Typing
<1>4. CASE Create(a)
  <2>1. /\ handles' \in Nat /\ shards' \in [DOMAIN shards' -> Nat]
        /\ Root \in DOMAIN shards' /\ DOMAIN shards' \subseteq Shards
        /\ s.shard \in DOMAIN shards'
    <3>1. CASE s.shard \in DOMAIN shards
      BY <3>1, <1>0, <1>4 DEF Create, Typing
    <3>2. CASE s.shard \notin DOMAIN shards
      <4>1. handles' = handles + 1 /\ shards' = Put1(shards, s.shard, handles')
        BY <3>2, <1>4 DEF Create
      <4>2. handles' \in Nat
        BY <4>1, <1>0 DEF Typing
      <4>3. DOMAIN shards' = DOMAIN shards \cup {s.shard}
        BY <4>1 DEF Put1
      <4>4. \A z \in DOMAIN shards' : shards'[z] \in Nat
        BY <4>1, <4>2, <4>3, <1>0 DEF Typing, Put1
      <4>5. shards' = [z \in DOMAIN shards' |-> shards'[z]]
        BY <4>1, <4>3 DEF Put1
      <4> QED
        BY <4>2, <4>3, <4>4, <4>5, <1>0 DEF Typing
    <3> QED
      BY <3>1, <3>2
  <2>2. hnd' = [hnd EXCEPT ![a] = [pc |-> "lookup", handle |-> shards'[s.shard]]]
    BY <1>4 DEF Create
  <2>3. [pc |-> "lookup", handle |-> shards'[s.shard]] \in Handler
    BY <2>1, HandlerFacts
  <2> QED
    BY <1>0, <1>1, <1>4, <2>1, <2>2, <2>3 DEF Create, Typing
<1>5. CASE Lookup(a)
  <2>1. /\ UNCHANGED <<spec, client, shards, handles, disk, cache, restarts>>
        /\ hnd[a].pc = "lookup"
    BY <1>5 DEF Lookup
  <2>2. CASE Keyed(s) /\ CacheKey(s) \in DOMAIN cache
    <3>1. Hit(s) \in Response
      BY <1>0, <2>2, ResponseFacts DEF Hit, Typing
    <3>2. hnd' = [hnd EXCEPT ![a] = [pc |-> "reply", resp |-> Hit(s)]]
      BY <1>5, <2>2 DEF Lookup, Reply
    <3>3. [pc |-> "reply", resp |-> Hit(s)] \in Handler
      BY <3>1, HandlerFacts
    <3> QED
      BY <1>0, <1>1, <2>1, <3>2, <3>3 DEF Typing
  <2>3. CASE ~(Keyed(s) /\ CacheKey(s) \in DOMAIN cache)
    <3>1. hnd' = [hnd EXCEPT ![a] = [pc |-> "execute", handle |-> hnd[a].handle]]
      BY <1>0, <1>5, <2>3, <2>1, HandlerFacts DEF Lookup
    <3>2. [pc |-> "execute", handle |-> hnd[a].handle] \in Handler
      BY <1>0, <2>1, HandlerFacts
    <3> QED
      BY <1>0, <1>1, <2>1, <3>1, <3>2 DEF Typing
  <2> QED
    BY <2>2, <2>3
<1>6. ASSUME NEW resp \in Response, Answer(a, resp), hnd[a].pc = "execute",
             disk' \in [Shards -> Seq(Commits)],
             UNCHANGED <<spec, client, shards, handles, cache, restarts>>
      PROVE  Base'
  <2>1. PICK p \in {"receipt", "insert", "reply"} :
           /\ hnd' = [hnd EXCEPT ![a] = [pc |-> p, resp |-> resp]]
           /\ [pc |-> p, resp |-> resp] \in Handler
    BY <1>0, <1>6, AnswerFacts
  <2> QED
    BY <1>0, <1>1, <1>6, <2>1 DEF Typing
<1>6a. ASSUME disk' = [disk EXCEPT ![s.shard] = Executed(s)]
       PROVE  disk' \in [Shards -> Seq(Commits)]
  <2>1. CASE disk' = disk
    BY <2>1, <1>0 DEF Typing
  <2>2. CASE disk' # disk
    <3>1. PICK x \in Commits : disk' = [disk EXCEPT ![s.shard] = Append(disk[s.shard], x)]
      BY <1>0, <1>6a, <2>2, ExecutedFacts
    <3> QED
      BY <1>0, <3>1, AppendFacts
  <2> QED
    BY <2>1, <2>2
<1>6b. ASSUME hnd[a].pc = "receipt",
              disk' = [disk EXCEPT ![s.shard] =
                         Append(disk[s.shard], Commit(s, "receipt", <<hnd[a].resp>>))]
       PROVE  disk' \in [Shards -> Seq(Commits)]
  <2>1. hnd[a].resp \in Response
    BY <1>0, <1>6b, HandlerFacts
  <2>2. Commit(s, "receipt", <<hnd[a].resp>>) \in Commits
    BY <1>0, <2>1, CommitFacts
  <2> QED
    BY <1>0, <1>6b, <2>2, AppendFacts
<1>7. ASSUME NEW routes, Execute(a, routes) PROVE Base'
  <2>1. /\ disk' = [disk EXCEPT ![s.shard] = Executed(s)]
        /\ Answer(a, Ok(Reported(s))) /\ hnd[a].pc = "execute"
        /\ UNCHANGED <<spec, client, shards, handles, cache, restarts>>
    BY <1>7 DEF Execute
  <2> QED
    BY <1>0, <1>6, <1>6a, <2>1, ReportedFacts
<1>8. CASE StatementFails(a)
  <2>1. disk' \in [Shards -> Seq(Commits)]
    BY <1>0, <1>6a, <1>8 DEF StatementFails, Typing
  <2> QED
    BY <1>6, <1>8, <2>1, ResponseFacts DEF StatementFails
<1>9. CASE RecordReceipt(a)
  <2>1. /\ hnd[a].pc = "receipt" /\ UNCHANGED <<spec, client, shards, handles, cache, restarts>>
        /\ disk' = [disk EXCEPT ![s.shard] =
                       Append(disk[s.shard], Commit(s, "receipt", <<hnd[a].resp>>))]
    BY <1>9 DEF RecordReceipt
  <2>2. hnd[a].resp \in Response
    BY <1>0, <2>1, HandlerFacts
  <2>4. disk' \in [Shards -> Seq(Commits)]
    BY <1>6b, <2>1
  <2>5. hnd' = [hnd EXCEPT ![a] = [pc |-> "insert", resp |-> hnd[a].resp]]
    BY <1>0, <1>9, <2>1, HandlerFacts DEF RecordReceipt
  <2>6. [pc |-> "insert", resp |-> hnd[a].resp] \in Handler
    BY <2>2, HandlerFacts
  <2> QED
    BY <1>0, <1>1, <2>1, <2>4, <2>5, <2>6 DEF Typing
<1>10. CASE Insert(a)
  <2>1. /\ hnd[a].pc = "insert" /\ UNCHANGED <<spec, client, shards, handles, disk, restarts>>
        /\ cache' = Put1(cache, CacheKey(s), [body |-> s.body, resp |-> hnd[a].resp])
        /\ hnd' = [hnd EXCEPT ![a] = [pc |-> "reply", resp |-> hnd[a].resp]]
    BY <1>10 DEF Insert, Reply
  <2>2. hnd[a].resp \in Response
    BY <1>0, <2>1, HandlerFacts
  <2>3. [pc |-> "reply", resp |-> hnd[a].resp] \in Handler
    BY <2>2, HandlerFacts
  <2>4. \A ck \in DOMAIN cache' : cache'[ck] \in [body : Bodies, resp : Response]
    BY <1>0, <2>1, <2>2, KeyFacts DEF Typing, Put1
  <2> QED
    BY <1>0, <1>1, <2>1, <2>3, <2>4 DEF Typing
<1>11. CASE Fails(a)
  <2>1. PICK r \in {Status(400), Status(504)} :
           /\ hnd' = [hnd EXCEPT ![a] = [pc |-> "reply", resp |-> r]]
           /\ UNCHANGED <<spec, client, shards, handles, cache, restarts>>
           /\ hnd[a].pc # "none"
    <3>1. CASE HandlerFails(a) \/ FailsAfterCommit(a) \/ FailsAfterReceipt(a)
      BY <3>1 DEF HandlerFails, FailsAfterCommit, FailsAfterReceipt, Reply
    <3>2. CASE Timeout(a)
      BY <3>2 DEF Timeout, Reply
    <3> QED
      BY <1>11, <3>1, <3>2 DEF Fails
  <2>2. [pc |-> "reply", resp |-> r] \in Handler
    BY HandlerFacts, ResponseFacts
  <2>3. disk' \in [Shards -> Seq(Commits)]
    <3>1. CASE HandlerFails(a) \/ Timeout(a)
      BY <1>0, <3>1 DEF HandlerFails, Timeout, Typing
    <3>2. CASE FailsAfterCommit(a)
      BY <1>6a, <3>2 DEF FailsAfterCommit
    <3>3. CASE FailsAfterReceipt(a)
      BY <1>6b, <3>3 DEF FailsAfterReceipt
    <3> QED
      BY <1>11, <3>1, <3>2, <3>3 DEF Fails
  <2> QED
    BY <1>0, <1>1, <2>1, <2>2, <2>3 DEF Typing
<1>12. CASE Deliver(a)
  <2> DEFINE c == a[1]
             waits == client[c].phase = "waiting" /\ client[c].made = a[2]
  <2>1. /\ hnd[a].pc = "reply" /\ UNCHANGED <<spec, shards, handles, disk, cache, restarts>>
        /\ hnd' = [hnd EXCEPT ![a] = NoHandler]
        /\ IF waits THEN Outcome(c, hnd[a].resp) ELSE UNCHANGED client
    BY <1>12 DEF Deliver
  <2>2. hnd[a].resp \in Response
    BY <1>0, <2>1, HandlerFacts
  <2>3. CASE ~waits
    BY <1>0, <1>1, <2>1, <2>3, HandlerFacts DEF Typing
  <2>4. CASE waits
    <3>1. /\ client' \in [Calls -> [phase : {"ready", "waiting", "done"},
                                    made : 0..MaxAttempts, result : Response]]
          /\ \A d \in Calls : client'[d].made = client[d].made
          /\ \A d \in Calls :
                /\ client'[d].made <= AttemptsFor(spec'[d])
                /\ client'[d].phase = "ready" => client'[d].made < AttemptsFor(spec'[d])
      BY <1>0, <2>1, <2>2, <2>4, OutcomeKeeps
    <3>2. /\ hnd' \in [Attempts -> Handler] /\ hnd'[a] = NoHandler
          /\ \A b \in Attempts : b # a => hnd'[b] = hnd[b]
      BY <1>0, <2>1, MoveFacts, HandlerFacts
    <3>3. Typing'
      BY <1>0, <2>1, <3>1, <3>2 DEF Typing
    <3>4. \A b \in Attempts : hnd'[b].pc # "none" => hnd[b].pc # "none"
      BY <3>2, HandlerFacts
    <3>5. \A b \in Attempts : b[1] \in Calls
      BY DEF Attempts
    <3>6. Budget'
      BY <3>1, <3>4, <3>5 DEF Base, Budget
    <3>7. Places'
      BY <3>4, ActiveKept
    <3> QED
      BY <3>3, <3>6, <3>7 DEF Base
  <2> QED
    BY <2>3, <2>4
<1> QED
  BY <1>3, <1>4, <1>5, <1>7, <1>8, <1>9, <1>10, <1>11, <1>12
  DEF Step, ExecuteMutation, ExecuteRead, ExecuteAdmin, ExecuteTraceQl, ExecuteGraphQl

\* The types survive every step.
LEMMA NextBase ==
    ASSUME Base, [Next]_vars
    PROVE  Base'
<1>1. CASE UNCHANGED vars
  BY <1>1 DEF vars, Base, Typing, Budget, Places, Active, Attempts
<1>2. ASSUME NEW c \in Calls, ClientTimeout(c) PROVE Base'
  <2>1. Status(0) \in Response /\ Typing
    BY ResponseFacts DEF Base
  <2>2. /\ client' \in [Calls -> [phase : {"ready", "waiting", "done"},
                                  made : 0..MaxAttempts, result : Response]]
        /\ \A d \in Calls : client'[d].made = client[d].made
        /\ \A d \in Calls :
              /\ client'[d].made <= AttemptsFor(spec'[d])
              /\ client'[d].phase = "ready" => client'[d].made < AttemptsFor(spec'[d])
    BY <1>2, <2>1, OutcomeKeeps DEF ClientTimeout
  <2>3. Typing'
    BY <1>2, <2>1, <2>2 DEF ClientTimeout, Typing
  <2>4. \A b \in Attempts : b[1] \in Calls
    BY DEF Attempts
  <2>5. Budget'
    BY <1>2, <2>2, <2>4 DEF ClientTimeout, Base, Budget
  <2>6. Places'
    BY <1>2, ActiveKept DEF ClientTimeout
  <2> QED
    BY <2>3, <2>5, <2>6 DEF Base
<1>3. CASE Restart
  <2>1. /\ hnd' = [a \in Attempts |-> NoHandler] /\ UNCHANGED <<spec, client, disk>>
        /\ cache' = Receipts(disk[Root]) /\ shards' = [s \in {Root} |-> handles']
        /\ handles' = handles + 1 /\ restarts' = restarts + 1
    BY <1>3 DEF Restart
  <2>2. disk[Root] \in Seq(Commits) /\ Typing
    BY ConstantFacts DEF Base, Typing
  <2>3. \A ck \in DOMAIN cache' : cache'[ck] \in [body : Bodies, resp : Response]
    <3> SUFFICES ASSUME NEW ck \in DOMAIN Receipts(disk[Root])
                 PROVE  Receipts(disk[Root])[ck] \in [body : Bodies, resp : Response]
      BY <2>1
    <3>1. PICK i \in 1..Len(disk[Root]) :
             /\ disk[Root][i].receipt # <<>>
             /\ Receipts(disk[Root])[ck] =
                   [body |-> disk[Root][i].body, resp |-> disk[Root][i].receipt[1]]
      BY <2>2, ReceiptsFacts
    <3>2. disk[Root][i] \in Commits
      BY <2>2, <3>1
    <3>3. disk[Root][i].body \in Bodies /\ disk[Root][i].receipt[1] \in Response
      BY <3>1, <3>2 DEF Commits
    <3> QED
      BY <3>1, <3>3
  <2>4. Typing'
    <3>1. hnd' \in [Attempts -> Handler]
      BY <2>1, HandlerFacts
    <3>2. handles' \in Nat /\ restarts' \in Nat
      BY <2>1, <2>2 DEF Typing
    <3>3. /\ shards' \in [DOMAIN shards' -> Nat]
          /\ Root \in DOMAIN shards' /\ DOMAIN shards' \subseteq Shards
      BY <2>1, <3>2, ConstantFacts
    <3> QED
      BY <2>1, <2>2, <2>3, <3>1, <3>2, <3>3 DEF Typing
  <2>5. \A b \in Attempts : hnd'[b].pc = "none"
    BY <2>1, HandlerFacts
  <2>6. Budget'
    BY <2>1, <2>5 DEF Base, Budget
  <2>7. Places'
    BY <2>5, ActiveKept
  <2> QED
    BY <2>4, <2>6, <2>7 DEF Base
<1> QED
  BY <1>1, <1>2, <1>3, SendBase, ShedBase, StepBase DEF Next, Fails

\* Types, the attempts of a call and the concurrency limit: max_concurrent_requests
\* is never exceeded, whatever the client, the timers and crashes do.
THEOREM RequestTypes == Spec => []RequestsTypeOK
<1>1. Base => RequestsTypeOK
  BY DEF Base, Typing, Budget, Places, RequestsTypeOK
<1> QED
  BY <1>1, InitBase, NextBase, PTL DEF Spec

-----------------------------------------------------------------------------
(* One handle per shard *)

\* A handler that has been routed has the handle that the map holds.
HandleInv ==
    \A a \in Attempts : hnd[a].pc \in {"lookup", "execute"} =>
        /\ spec[a[1]].shard \in DOMAIN shards
        /\ hnd[a].handle = shards[spec[a[1]].shard]

\* Every step keeps it.
LEMMA HandleStep ==
    ASSUME Base, HandleInv, [Next]_vars
    PROVE  HandleInv'
<1>0. Typing
  BY DEF Base
<1>1. ASSUME NEW a \in Attempts, NEW h \in Handler, hnd' = [hnd EXCEPT ![a] = h],
             h.pc \notin {"lookup", "execute"}, UNCHANGED <<spec, shards>>
      PROVE  HandleInv'
  <2>1. hnd'[a] = h /\ \A b \in Attempts : b # a => hnd'[b] = hnd[b]
    BY <1>0, <1>1, MoveFacts
  <2> QED
    BY <1>1, <2>1 DEF HandleInv
<1>2. CASE UNCHANGED vars
  BY <1>2 DEF vars, HandleInv
<1>3. CASE \E c \in Calls : Send(c) \/ Shed(c) \/ ClientTimeout(c)
  <2>1. PICK c \in Calls : Send(c) \/ Shed(c) \/ ClientTimeout(c)
    BY <1>3
  <2>2. CASE Send(c)
    <3> DEFINE a == <<c, client[c].made + 1>>
    <3>1. a \in Attempts /\ hnd' = [hnd EXCEPT ![a] = [pc |-> "route"]]
      BY <2>2, SendBase DEF Send
    <3>2. [pc |-> "route"] \in Handler
      BY HandlerFacts
    <3> HIDE DEF a
    <3> QED
      BY <1>1, <2>2, <3>1, <3>2 DEF Send
  <2>3. CASE Shed(c) \/ ClientTimeout(c)
    BY <2>3 DEF Shed, ClientTimeout, HandleInv
  <2> QED
    BY <2>1, <2>2, <2>3
<1>4. CASE Restart
  BY <1>4, HandlerFacts DEF Restart, HandleInv
<1>5. ASSUME NEW a \in Attempts, Step(a) \/ Fails(a)
      PROVE  HandleInv'
  <2> DEFINE s == spec[a[1]]
  <2>0. hnd[a] \in Handler /\ s \in CallSpecs
    BY <1>0, AttemptFacts
  <2>1. CASE Route(a)
    <3>1. /\ \A b \in Attempts : b # a => hnd'[b] = hnd[b]
          /\ hnd'[a] = IF s.shard \in DOMAIN shards
                       THEN [pc |-> "lookup", handle |-> shards[s.shard]] ELSE [pc |-> "create"]
      BY <1>0, <2>1 DEF Route, Typing
    <3> QED
      BY <2>1, <3>1 DEF Route, HandleInv
  <2>2. CASE Create(a)
    <3>1. /\ \A b \in Attempts : b # a => hnd'[b] = hnd[b]
          /\ hnd'[a] = [pc |-> "lookup", handle |-> shards'[s.shard]]
      BY <1>0, <2>2 DEF Create, Typing
    <3>2. /\ DOMAIN shards \subseteq DOMAIN shards' /\ s.shard \in DOMAIN shards'
          /\ \A sh \in DOMAIN shards : shards'[sh] = shards[sh]
      BY <2>2 DEF Create, Put1
    <3>3. spec' = spec
      BY <2>2 DEF Create
    <3>4. ASSUME NEW b \in Attempts, hnd'[b].pc \in {"lookup", "execute"}
          PROVE  /\ spec'[b[1]].shard \in DOMAIN shards'
                 /\ hnd'[b].handle = shards'[spec'[b[1]].shard]
      <4>1. CASE b = a
        BY <3>1, <3>2, <3>3, <4>1
      <4>2. CASE b # a
        BY <3>1, <3>2, <3>3, <3>4, <4>2 DEF HandleInv
      <4> QED
        BY <4>1, <4>2
    <3> QED
      BY <3>4 DEF HandleInv
  <2>3. CASE Lookup(a)
    <3>1. CASE Keyed(s) /\ CacheKey(s) \in DOMAIN cache
      <4>1. Hit(s) \in Response
        BY <1>0, <3>1, ResponseFacts DEF Hit, Typing
      <4>2. [pc |-> "reply", resp |-> Hit(s)] \in Handler
        BY <4>1, HandlerFacts
      <4> QED
        BY <1>1, <2>3, <3>1, <4>2 DEF Lookup, Reply
    <3>2. CASE ~(Keyed(s) /\ CacheKey(s) \in DOMAIN cache)
      <4>1. /\ hnd' = [hnd EXCEPT ![a] = [pc |-> "execute", handle |-> hnd[a].handle]]
            /\ hnd[a].pc = "lookup" /\ UNCHANGED <<spec, shards>>
        BY <2>0, <2>3, <3>2, HandlerFacts DEF Lookup
      <4>2. /\ hnd'[a] = [pc |-> "execute", handle |-> hnd[a].handle]
            /\ \A b \in Attempts : b # a => hnd'[b] = hnd[b]
        BY <1>0, <4>1 DEF Typing
      <4> QED
        BY <4>1, <4>2 DEF HandleInv
    <3> QED
      BY <3>1, <3>2
  <2>4. ASSUME NEW resp \in Response, Answer(a, resp), UNCHANGED <<spec, shards>>
        PROVE  HandleInv'
    <3>1. PICK p \in {"receipt", "insert", "reply"} :
             /\ hnd' = [hnd EXCEPT ![a] = [pc |-> p, resp |-> resp]]
             /\ [pc |-> p, resp |-> resp] \in Handler
      BY <1>0, <2>4, AnswerFacts
    <3> QED
      BY <1>1, <2>4, <3>1
  <2>5. ASSUME NEW routes, Execute(a, routes) PROVE HandleInv'
    BY <1>0, <2>0, <2>4, <2>5, ReportedFacts DEF Execute
  <2>6. CASE StatementFails(a)
    BY <2>4, <2>6, ResponseFacts DEF StatementFails
  <2>7. CASE RecordReceipt(a) \/ Insert(a)
    <3>1. PICK p \in {"insert", "reply"} :
             /\ hnd' = [hnd EXCEPT ![a] = [pc |-> p, resp |-> hnd[a].resp]]
             /\ hnd[a].pc \in {"receipt", "insert"} /\ UNCHANGED <<spec, shards>>
      BY <2>0, <2>7, HandlerFacts DEF RecordReceipt, Insert, Reply
    <3>2. [pc |-> p, resp |-> hnd[a].resp] \in Handler
      BY <2>0, <3>1, HandlerFacts
    <3> QED
      BY <1>1, <3>1, <3>2
  <2>8. CASE Deliver(a)
    BY <1>1, <2>8, HandlerFacts DEF Deliver
  <2>9. CASE Fails(a)
    <3>1. PICK r \in {Status(400), Status(504)} :
             /\ hnd' = [hnd EXCEPT ![a] = [pc |-> "reply", resp |-> r]]
             /\ UNCHANGED <<spec, shards>>
      BY <2>9 DEF Fails, HandlerFails, Timeout, FailsAfterCommit, FailsAfterReceipt, Reply
    <3>2. [pc |-> "reply", resp |-> r] \in Handler
      BY HandlerFacts, ResponseFacts
    <3> QED
      BY <1>1, <3>1, <3>2
  <2> QED
    BY <1>5, <2>1, <2>2, <2>3, <2>5, <2>6, <2>7, <2>8, <2>9
    DEF Step, ExecuteMutation, ExecuteRead, ExecuteAdmin, ExecuteTraceQl, ExecuteGraphQl
<1> QED
  BY <1>2, <1>3, <1>4, <1>5 DEF Next, Fails

\* One handle per shard: no handler ever works on a shard handle that later
\* requests do not see, however many open a new shard at the same time
\* (EngineHandle.for_actor, a check under the read lock and another one under
\* the write lock).
THEOREM HandlesAgree == Spec => []OneHandlePerShard
<1>1. Init => HandleInv
  BY HandlerFacts DEF Init, HandleInv
<1>2. Base /\ HandleInv => OneHandlePerShard
  BY DEF HandleInv, OneHandlePerShard, Active
<1> QED
  BY <1>1, <1>2, HandleStep, InitBase, NextBase, PTL DEF Spec

-----------------------------------------------------------------------------
(* The cache, the receipts and the effects *)

KeyOf(a) == CacheKey(spec[a[1]])
IsKeyed(ck) == ck.key # NoKey /\ ck.route # "read"
Busy(a) == hnd[a].pc \in {"execute", "receipt", "insert"}

\* The shard's directory has a receipt of the key.
Receipted(ck) ==
    \E i \in 1..Len(disk[ck.shard]) :
        disk[ck.shard][i].ck = ck /\ disk[ck.shard][i].receipt # <<>>

\* Handlers of one key overlap only if the key was raced for: they are alone
\* with it, and it is not in the cache.
OverlapInv ==
    /\ \A a, b \in Attempts :
          Busy(a) /\ Busy(b) /\ KeyOf(a) = KeyOf(b) /\ Keyed(spec[a[1]]) =>
             a = b \/ KeyOf(a) \in raced
    /\ \A a \in Attempts :
          Busy(a) /\ Keyed(spec[a[1]]) /\ KeyOf(a) \in DOMAIN cache => KeyOf(a) \in raced

\* What is cached, or about to be, is on the disk before.
ReceiptInv ==
    /\ DOMAIN cache \subseteq CacheKeys
    /\ \A a \in Attempts :
          /\ hnd[a].pc = "receipt" => Keyed(spec[a[1]]) /\ ReceiptAfter(spec[a[1]].route)
          /\ hnd[a].pc = "insert" =>
                Keyed(spec[a[1]]) /\ (spec[a[1]].route # "timed_batch" => Receipted(KeyOf(a)))
    /\ \A sh \in Shards : \A i \in 1..Len(disk[sh]) :
          LET x == disk[sh][i]
          IN  /\ x.ck.shard = sh
              /\ x.kind = "effect" /\ x.ck.route = "mutation" /\ IsKeyed(x.ck) =>
                    x.receipt # <<>>
    /\ \A ck \in DOMAIN cache : ck.route # "timed_batch" => Receipted(ck)

\* A success is cached before it is answered, and stays while it is remembered.
AnsweredInv ==
    /\ answered \subseteq CacheKeys
    /\ \A ck \in answered : IsKeyed(ck) /\ (Remembered(ck) => ck \in DOMAIN cache)
    /\ \A a \in Attempts :
          hnd[a].pc = "reply" /\ hnd[a].resp.status = 200 /\ Keyed(spec[a[1]]) =>
             KeyOf(a) \in DOMAIN cache

\* The keys that ExecutedOnce is about
Plain(ck) == IsKeyed(ck) /\ ~ReceiptAfter(ck.route) /\ ck \notin raced /\ Remembered(ck)

\* An effect that was not answered with an error is cached, or its handler is
\* about to; and no other comes after it.
OnceInv ==
    \A ck \in CacheKeys : Plain(ck) =>
        /\ (\E i \in Effects(ck) : <<ck.shard, i>> \notin erred) =>
              \/ ck \in DOMAIN cache
              \/ \E a \in Attempts : hnd[a].pc = "insert" /\ KeyOf(a) = ck
        /\ \A i, j \in Effects(ck) : i < j => <<ck.shard, i>> \in erred

(* The shapes that a step may have, as these invariants see it: what a handler *)
(* does aside of the cache and the disk, a lookup that misses, an execution    *)
(* and a receipt, and those that are answered with an error, an insertion, a   *)
(* delivery.                                                                   *)

Quiet == UNCHANGED <<spec, hnd, disk, cache, raced, answered, erred, restarts>>

Aside(a) ==
    /\ hnd[a].pc # "insert"
    /\ \E h \in Handler :
          /\ hnd' = [hnd EXCEPT ![a] = h]
          /\ h.pc \notin {"execute", "receipt", "insert"}
          /\ h.pc = "reply" /\ h.resp.status = 200 /\ Keyed(spec[a[1]]) =>
                KeyOf(a) \in DOMAIN cache
    /\ UNCHANGED <<spec, disk, cache, raced, answered, erred, restarts>>

Miss(a) ==
    /\ hnd[a].pc = "lookup"
    /\ ~(Keyed(spec[a[1]]) /\ KeyOf(a) \in DOMAIN cache)
    /\ hnd' = [hnd EXCEPT ![a] = [pc |-> "execute", handle |-> hnd[a].handle]]
    /\ raced' = IF Keyed(spec[a[1]]) /\ Pending(KeyOf(a)) # {}
                THEN raced \cup {KeyOf(a)} ELSE raced
    /\ UNCHANGED <<spec, disk, cache, answered, erred, restarts>>

Embedded(s, r) == IF s.route = "mutation" /\ Keyed(s) THEN <<r>> ELSE <<>>

Ran(a) ==
    LET s == spec[a[1]]
    IN  /\ hnd[a].pc = "execute"
        /\ \E r \in Response :
              /\ r.status = 200
              /\ hnd' = [hnd EXCEPT ![a] =
                   [pc |-> IF Keyed(s) THEN IF ReceiptAfter(s.route) THEN "receipt" ELSE "insert"
                           ELSE "reply", resp |-> r]]
              /\ \/ disk' = disk /\ s.route \in {"traceql", "graphql", "read"}
                 \/ disk' = [disk EXCEPT ![s.shard] =
                       Append(disk[s.shard], Commit(s, "effect", Embedded(s, r)))]
        /\ UNCHANGED <<spec, cache, raced, answered, erred, restarts>>

Recorded(a) ==
    LET s == spec[a[1]]
    IN  /\ hnd[a].pc = "receipt"
        /\ disk' = [disk EXCEPT ![s.shard] =
                      Append(disk[s.shard], Commit(s, "receipt", <<hnd[a].resp>>))]
        /\ hnd' = [hnd EXCEPT ![a] = [pc |-> "insert", resp |-> hnd[a].resp]]
        /\ UNCHANGED <<spec, cache, raced, answered, erred, restarts>>

Broke(a) ==
    LET s == spec[a[1]]
    IN  /\ hnd[a].pc = "execute"
        /\ \E r \in Response :
              disk' = [disk EXCEPT ![s.shard] =
                         Append(disk[s.shard], Commit(s, "effect", Embedded(s, r)))]
        /\ hnd' = [hnd EXCEPT ![a] = [pc |-> "reply", resp |-> Status(400)]]
        /\ erred' = erred \cup {<<s.shard, Len(disk[s.shard]) + 1>>}
        /\ UNCHANGED <<spec, cache, raced, answered, restarts>>

Unrecorded(a) ==
    LET s == spec[a[1]]
    IN  /\ hnd[a].pc = "receipt"
        /\ disk' = [disk EXCEPT ![s.shard] =
                      Append(disk[s.shard], Commit(s, "receipt", <<hnd[a].resp>>))]
        /\ hnd' = [hnd EXCEPT ![a] = [pc |-> "reply", resp |-> Status(400)]]
        /\ UNCHANGED <<spec, cache, raced, answered, erred, restarts>>

Inserted(a) ==
    LET s == spec[a[1]]
    IN  /\ hnd[a].pc = "insert"
        /\ cache' = Put1(cache, CacheKey(s), [body |-> s.body, resp |-> hnd[a].resp])
        /\ hnd' = [hnd EXCEPT ![a] = [pc |-> "reply", resp |-> hnd[a].resp]]
        /\ UNCHANGED <<spec, disk, raced, answered, erred, restarts>>

Delivered(a) ==
    /\ hnd[a].pc = "reply"
    /\ hnd' = [hnd EXCEPT ![a] = NoHandler]
    /\ \/ answered' = answered
       \/ /\ hnd[a].resp.status = 200 /\ Keyed(spec[a[1]])
          /\ answered' = answered \cup {KeyOf(a)}
    /\ UNCHANGED <<spec, disk, cache, raced, erred, restarts>>

\* Every step has one of the shapes.
LEMMA StepShape ==
    ASSUME Base, [Next]_vars
    PROVE  \/ Quiet \/ Restart
           \/ \E a \in Attempts : \/ Aside(a) \/ Miss(a) \/ Ran(a) \/ Broke(a)
                                  \/ Recorded(a) \/ Unrecorded(a)
                                  \/ Inserted(a) \/ Delivered(a)
<1>0. Typing
  BY DEF Base
<1>1. CASE UNCHANGED vars
  BY <1>1 DEF vars, Quiet
<1>2. ASSUME NEW c \in Calls, Send(c)
      PROVE  \E a \in Attempts : Aside(a)
  <2> DEFINE a == <<c, client[c].made + 1>>
  <2>1. a \in Attempts /\ hnd[a].pc = "none" /\ hnd' = [hnd EXCEPT ![a] = [pc |-> "route"]]
    BY <1>2, SendBase DEF Send
  <2> DEFINE h == [pc |-> "route"]
  <2>2. h \in Handler /\ h.pc = "route" /\ hnd' = [hnd EXCEPT ![a] = h]
    BY <2>1, HandlerFacts
  <2> HIDE DEF a, h
  <2>3. Aside(a)
    BY <1>2, <2>1, <2>2 DEF Send, Aside
  <2> QED
    BY <2>1, <2>3
<1>3. ASSUME NEW c \in Calls, Shed(c) \/ ClientTimeout(c) PROVE Quiet
  BY <1>3 DEF Shed, ClientTimeout, Quiet
<1>4. ASSUME NEW a \in Attempts, Step(a) \/ Fails(a)
      PROVE  \/ Aside(a) \/ Miss(a) \/ Ran(a) \/ Broke(a)
             \/ Recorded(a) \/ Unrecorded(a) \/ Inserted(a) \/ Delivered(a)
  <2> DEFINE s == spec[a[1]]
  <2>0. hnd[a] \in Handler /\ s \in CallSpecs /\ KeyOf(a) = CacheKey(s)
    BY <1>0, AttemptFacts DEF KeyOf
  <2>1. CASE Route(a)
    <3> DEFINE h == IF s.shard \in DOMAIN shards
                    THEN [pc |-> "lookup", handle |-> shards[s.shard]] ELSE [pc |-> "create"]
    <3>1. h \in Handler
      BY <1>0, HandlerFacts DEF Typing
    <3>2. h.pc \in {"lookup", "create"} /\ hnd' = [hnd EXCEPT ![a] = h]
      BY <2>1 DEF Route
    <3> HIDE DEF h
    <3> QED
      BY <2>1, <3>1, <3>2 DEF Route, Aside
  <2>2. CASE Create(a)
    <3> DEFINE h == [pc |-> "lookup", handle |-> shards'[s.shard]]
    <3>1. hnd' = [hnd EXCEPT ![a] = h] /\ h.pc = "lookup"
      BY <2>2 DEF Create
    <3>2. Base'
      BY <2>2, StepBase DEF Step
    <3>3. h \in Handler
      <4>1. hnd'[a] = h /\ hnd'[a] \in Handler
        BY <1>0, <3>1, <3>2 DEF Base, Typing
      <4> QED
        BY <4>1
    <3> HIDE DEF h
    <3> QED
      BY <2>2, <3>1, <3>3 DEF Create, Aside
  <2>3. CASE Lookup(a)
    <3>1. CASE Keyed(s) /\ CacheKey(s) \in DOMAIN cache
      <4> DEFINE h == [pc |-> "reply", resp |-> Hit(s)]
      <4>1. Hit(s) \in Response
        BY <1>0, <3>1, ResponseFacts DEF Hit, Typing
      <4>2. h \in Handler /\ h.pc = "reply"
        BY <4>1, HandlerFacts
      <4>3. hnd' = [hnd EXCEPT ![a] = h] /\ hnd[a].pc = "lookup"
        BY <2>3, <3>1 DEF Lookup, Reply
      <4>4. UNCHANGED <<spec, disk, cache, raced, answered, erred, restarts>>
        BY <2>3, <3>1 DEF Lookup
      <4> HIDE DEF h
      <4> QED
        BY ZenonT(60), <2>0, <3>1, <4>2, <4>3, <4>4 DEF Aside
    <3>2. CASE ~(Keyed(s) /\ CacheKey(s) \in DOMAIN cache)
      BY <2>0, <2>3, <3>2, HandlerFacts DEF Lookup, Miss
    <3> QED
      BY <3>1, <3>2
  <2>4. ASSUME NEW routes, Execute(a, routes) PROVE Ran(a)
    <3> DEFINE r == Ok(Reported(s))
    <3>1. r \in Response /\ r.status = 200
      BY <1>0, <2>0, ReportedFacts, ResponseFacts
    <3>2. hnd' = [hnd EXCEPT ![a] =
             [pc |-> IF Keyed(s) THEN IF ReceiptAfter(s.route) THEN "receipt" ELSE "insert"
                     ELSE "reply", resp |-> r]]
      BY <2>4 DEF Execute, Answer, Reply
    <3>3. \/ disk' = disk /\ s.route \in {"traceql", "graphql", "read"}
          \/ disk' = [disk EXCEPT ![s.shard] =
                Append(disk[s.shard], Commit(s, "effect", Embedded(s, r)))]
      <4>1. disk' = [disk EXCEPT ![s.shard] = Executed(s)]
        BY <2>4 DEF Execute
      <4>2. CASE s.writes
        BY <4>1, <4>2 DEF Executed, Embedded
      <4>3. CASE ~s.writes
        <5>1. disk' = disk
          BY <1>0, <2>0, <4>1, <4>3, ExecutedFacts
        <5>2. s.route \in {"traceql", "graphql", "read"}
          BY <2>0, <4>3, RequestsAssumption
        <5> QED
          BY <5>1, <5>2
      <4> QED
        BY <4>2, <4>3
    <3>4. hnd[a].pc = "execute" /\ UNCHANGED <<spec, cache, raced, answered, erred, restarts>>
      BY <2>4 DEF Execute
    <3> HIDE DEF r
    <3> QED
      BY <3>1, <3>2, <3>3, <3>4 DEF Ran
  <2>5. CASE StatementFails(a)
    <3> DEFINE r == Ok(<<>>)
    <3>1. r \in Response /\ r.status = 200
      BY ResponseFacts
    <3>2. hnd' = [hnd EXCEPT ![a] =
             [pc |-> IF Keyed(s) THEN IF ReceiptAfter(s.route) THEN "receipt" ELSE "insert"
                     ELSE "reply", resp |-> r]]
      BY <2>5 DEF StatementFails, Answer, Reply
    <3>3. \/ disk' = disk /\ s.route \in {"traceql", "graphql", "read"}
          \/ disk' = [disk EXCEPT ![s.shard] =
                Append(disk[s.shard], Commit(s, "effect", Embedded(s, r)))]
      <4>0. s.route \in {"traceql", "graphql"} /\ Embedded(s, r) = <<>>
        BY <2>5 DEF StatementFails, Embedded
      <4>1. CASE disk' = disk
        BY <4>0, <4>1
      <4>2. CASE disk' # disk
        <5>1. disk' = [disk EXCEPT ![s.shard] = Executed(s)]
          BY <2>5, <4>2 DEF StatementFails
        <5>2. s.writes
          BY <1>0, <2>0, <4>2, <5>1, ExecutedFacts
        <5> QED
          BY <4>0, <5>1, <5>2 DEF Executed
      <4> QED
        BY <4>1, <4>2
    <3>4. hnd[a].pc = "execute" /\ UNCHANGED <<spec, cache, raced, answered, erred, restarts>>
      BY <2>5 DEF StatementFails
    <3> HIDE DEF r
    <3> QED
      BY <3>1, <3>2, <3>3, <3>4 DEF Ran
  <2>6. CASE RecordReceipt(a)
    <3>1. hnd' = [hnd EXCEPT ![a] = [pc |-> "insert", resp |-> hnd[a].resp]]
      BY <2>0, <2>6, HandlerFacts DEF RecordReceipt
    <3> QED
      BY <2>6, <3>1 DEF RecordReceipt, Recorded
  <2>7. CASE Insert(a)
    BY <2>7 DEF Insert, Inserted, Reply
  <2>8. CASE Deliver(a)
    BY <2>0, <2>8 DEF Deliver, Delivered
  <2>9. CASE HandlerFails(a) \/ Timeout(a)
    <3>1. PICK r \in {Status(400), Status(504)} :
             hnd' = [hnd EXCEPT ![a] = [pc |-> "reply", resp |-> r]]
      BY <2>9 DEF HandlerFails, Timeout, Reply
    <3> DEFINE h == [pc |-> "reply", resp |-> r]
    <3>2. h \in Handler /\ h.pc = "reply" /\ h.resp.status # 200
      BY HandlerFacts, ResponseFacts
    <3>3. hnd' = [hnd EXCEPT ![a] = h]
      BY <3>1
    <3>4. hnd[a].pc # "insert" /\ UNCHANGED <<spec, disk, cache, raced, answered, erred, restarts>>
      BY <2>9 DEF HandlerFails, Timeout
    <3> HIDE DEF h
    <3> QED
      BY <3>2, <3>3, <3>4 DEF Aside
  <2>10. CASE FailsAfterCommit(a)
    <3> DEFINE r == Ok(Reported(s))
    <3>1. r \in Response
      BY <1>0, <2>0, ReportedFacts
    <3>2. disk' = [disk EXCEPT ![s.shard] =
             Append(disk[s.shard], Commit(s, "effect", Embedded(s, r)))]
      BY <2>10 DEF FailsAfterCommit, Executed, Embedded
    <3>3. erred' = erred \cup {<<s.shard, Len(disk[s.shard]) + 1>>}
      BY <2>10 DEF FailsAfterCommit, Reported
    <3> HIDE DEF r
    <3> QED
      BY <2>10, <3>1, <3>2, <3>3 DEF FailsAfterCommit, Broke, Reply
  <2>11. CASE FailsAfterReceipt(a)
    BY <2>11 DEF FailsAfterReceipt, Unrecorded, Reply
  <2> QED
    BY <1>4, <2>1, <2>2, <2>3, <2>4, <2>5, <2>6, <2>7, <2>8, <2>9, <2>10, <2>11
    DEF Step, Fails, ExecuteMutation, ExecuteRead, ExecuteAdmin, ExecuteTraceQl,
        ExecuteGraphQl
<1> QED
  BY <1>1, <1>2, <1>3, <1>4 DEF Next, Fails

\* A restart leaves no handler and keeps what each call asks for.
LEMMA RestartFacts ==
    ASSUME Base, Restart
    PROVE  /\ \A a \in Attempts : hnd'[a].pc = "none"
           /\ cache' = Receipts(disk[Root])
           /\ restarts' = restarts + 1 /\ restarts' # 0
           /\ UNCHANGED <<spec, disk, raced, answered, erred>>
BY HandlerFacts DEF Restart, Base, Typing

\* Handlers that overlap have raced.
LEMMA OverlapStep ==
    ASSUME Base, OverlapInv, [Next]_vars
    PROVE  OverlapInv'
<1>0. Typing
  BY DEF Base
<1>1. CASE Quiet
  BY <1>1 DEF Quiet, OverlapInv, KeyOf, Busy
<1>2. CASE Restart
  BY <1>2, RestartFacts DEF OverlapInv, Busy
<1>3. ASSUME NEW a \in Attempts, NEW h, hnd' = [hnd EXCEPT ![a] = h],
             h.pc \in {"execute", "receipt", "insert"} => Busy(a),
             UNCHANGED <<spec, raced, cache>>
      PROVE  OverlapInv'
  <2>1. hnd'[a] = h /\ \A b \in Attempts : b # a => hnd'[b] = hnd[b]
    BY <1>0, <1>3, MoveFacts
  <2>2. \A b \in Attempts : Busy(b)' => Busy(b)
    BY <1>3, <2>1 DEF Busy
  <2>3. \A b \in Attempts : KeyOf(b)' = KeyOf(b) /\ spec'[b[1]] = spec[b[1]]
    BY <1>3 DEF KeyOf
  <2> QED
    BY <1>3, <2>2, <2>3 DEF OverlapInv
<1>4. ASSUME NEW a \in Attempts,
             \/ Aside(a) \/ Ran(a) \/ Broke(a)
             \/ Recorded(a) \/ Unrecorded(a) \/ Delivered(a)
      PROVE  OverlapInv'
  <2>1. CASE Aside(a)
    BY <1>3, <2>1 DEF Aside
  <2>2. CASE Ran(a)
    <3> DEFINE s == spec[a[1]]
               p == IF Keyed(s) THEN IF ReceiptAfter(s.route) THEN "receipt" ELSE "insert"
                    ELSE "reply"
    <3>1. PICK r \in Response : hnd' = [hnd EXCEPT ![a] = [pc |-> p, resp |-> r]]
      BY <2>2 DEF Ran
    <3>2. Busy(a) /\ UNCHANGED <<spec, raced, cache>>
      BY <2>2 DEF Ran, Busy
    <3> HIDE DEF p
    <3> QED
      BY <1>3, <3>1, <3>2
  <2>3. CASE Recorded(a)
    BY <1>3, <2>3 DEF Recorded, Busy
  <2>4. CASE Delivered(a)
    BY ZenonT(60), <1>3, <2>4 DEF Delivered, NoHandler
  <2>5. CASE Broke(a) \/ Unrecorded(a)
    <3> DEFINE h == [pc |-> "reply", resp |-> Status(400)]
    <3>1. /\ hnd' = [hnd EXCEPT ![a] = h] /\ h.pc = "reply"
          /\ UNCHANGED <<spec, raced, cache>>
      BY <2>5 DEF Broke, Unrecorded
    <3> HIDE DEF h
    <3> QED
      BY <1>3, <3>1
  <2> QED
    BY <1>4, <2>1, <2>2, <2>3, <2>4, <2>5
<1>5. ASSUME NEW a \in Attempts, Miss(a) PROVE OverlapInv'
  <2>1. /\ hnd'[a].pc = "execute"
        /\ \A b \in Attempts : b # a => hnd'[b] = hnd[b]
    BY <1>0, <1>5 DEF Miss, Typing
  <2>2. \A b \in Attempts : KeyOf(b)' = KeyOf(b) /\ spec'[b[1]] = spec[b[1]]
    BY <1>5 DEF Miss, KeyOf
  <2>3. raced \subseteq raced' /\ cache' = cache
    BY <1>5 DEF Miss
  <2>4. \A b \in Attempts : b # a => Busy(b)' = Busy(b)
    BY <2>1 DEF Busy
  <2>5. ASSUME NEW b \in Attempts, b # a, Busy(b), KeyOf(b) = KeyOf(a), Keyed(spec[a[1]])
        PROVE  KeyOf(a) \in raced'
    <3>1. b \in Pending(KeyOf(a))
      BY <2>5 DEF Pending, Active, Busy, KeyOf
    <3> QED
      BY <1>5, <2>5, <3>1 DEF Miss
  <2>6. \A b \in Attempts : KeyOf(b) = KeyOf(a) => Keyed(spec[b[1]]) = Keyed(spec[a[1]])
    <3> SUFFICES ASSUME NEW b \in Attempts, KeyOf(b) = KeyOf(a)
                 PROVE  Keyed(spec[b[1]]) = Keyed(spec[a[1]])
      OBVIOUS
    <3>1. spec[a[1]] \in CallSpecs /\ spec[b[1]] \in CallSpecs
      BY <1>0, AttemptFacts
    <3>2. spec[a[1]].key = spec[b[1]].key /\ spec[a[1]].route = spec[b[1]].route
      BY <3>1, KeyFacts DEF KeyOf
    <3> QED
      BY <3>2 DEF Keyed
  <2>7. \A b, d \in Attempts :
           Busy(b)' /\ Busy(d)' /\ KeyOf(b) = KeyOf(d) /\ Keyed(spec[b[1]]) =>
              b = d \/ KeyOf(b) \in raced'
    BY <2>3, <2>4, <2>5, <2>6 DEF OverlapInv
  <2>8. \A b \in Attempts :
           Busy(b)' /\ Keyed(spec[b[1]]) /\ KeyOf(b) \in DOMAIN cache => KeyOf(b) \in raced'
    BY <1>5, <2>3, <2>4 DEF Miss, OverlapInv
  <2> QED
    BY <2>2, <2>3, <2>7, <2>8 DEF OverlapInv
<1>6. ASSUME NEW a \in Attempts, Inserted(a) PROVE OverlapInv'
  <2>1. /\ ~Busy(a)' /\ Busy(a)
        /\ \A b \in Attempts : b # a => Busy(b)' = Busy(b)
    BY <1>0, <1>6 DEF Inserted, Typing, Busy
  <2>2. \A b \in Attempts : KeyOf(b)' = KeyOf(b) /\ spec'[b[1]] = spec[b[1]]
    BY <1>6 DEF Inserted, KeyOf
  <2>3. raced' = raced /\ DOMAIN cache' = DOMAIN cache \cup {KeyOf(a)}
    BY <1>6 DEF Inserted, KeyOf, Put1
  <2>4. ASSUME NEW b \in Attempts, Busy(b)', Keyed(spec[b[1]]), KeyOf(b) = KeyOf(a)
        PROVE  KeyOf(b) \in raced
    BY <2>1, <2>4 DEF OverlapInv
  <2> QED
    BY <2>1, <2>2, <2>3, <2>4 DEF OverlapInv
<1> QED
  BY <1>1, <1>2, <1>4, <1>5, <1>6, StepShape

\* What a step adds to a directory, and why it stays there.
LEMMA DiskStep ==
    ASSUME Base, [Next]_vars
    PROVE  /\ Grows
           /\ \/ disk' = disk
              \/ \E sh \in Shards, x \in Commits :
                    disk' = [disk EXCEPT ![sh] = Append(disk[sh], x)]
<1>0. Typing
  BY DEF Base
<1>1. \/ disk' = disk
      \/ \E sh \in Shards, x \in Commits : disk' = [disk EXCEPT ![sh] = Append(disk[sh], x)]
  <2>1. CASE Quiet \/ Restart \/ \E a \in Attempts : Aside(a) \/ Miss(a) \/ Inserted(a) \/ Delivered(a)
    BY <2>1, RestartFacts DEF Quiet, Aside, Miss, Inserted, Delivered
  <2>2. ASSUME NEW a \in Attempts, Ran(a) \/ Broke(a) \/ Recorded(a) \/ Unrecorded(a)
        PROVE  \/ disk' = disk
               \/ \E sh \in Shards, x \in Commits :
                     disk' = [disk EXCEPT ![sh] = Append(disk[sh], x)]
    <3> DEFINE s == spec[a[1]]
    <3>1. s \in CallSpecs /\ s.shard \in Shards /\ hnd[a] \in Handler
      BY <1>0, AttemptFacts, ConstantFacts
    <3>2. CASE (Ran(a) \/ Broke(a)) /\ disk' # disk
      <4>1. PICK r \in Response : disk' = [disk EXCEPT ![s.shard] =
               Append(disk[s.shard], Commit(s, "effect", Embedded(s, r)))]
        BY <3>2 DEF Ran, Broke
      <4>2. Embedded(s, r) \in {<<>>} \cup {<<q>> : q \in Response}
        BY DEF Embedded
      <4>3. Commit(s, "effect", Embedded(s, r)) \in Commits
        BY <3>1, <4>2, CommitFacts
      <4> QED
        BY <3>1, <4>1, <4>3
    <3>3. CASE Recorded(a) \/ Unrecorded(a)
      <4>1. hnd[a].resp \in Response
        BY <3>1, <3>3, HandlerFacts DEF Recorded, Unrecorded
      <4>2. Commit(s, "receipt", <<hnd[a].resp>>) \in Commits
        BY <3>1, <4>1, CommitFacts
      <4> QED
        BY <3>1, <3>3, <4>2 DEF Recorded, Unrecorded
    <3> QED
      BY <2>2, <3>2, <3>3
  <2> QED
    BY <2>1, <2>2, StepShape
<1>2. CASE disk' = disk
  BY <1>0, <1>1, <1>2 DEF Grows, Typing
<1>3. ASSUME NEW sh \in Shards, NEW x \in Commits,
             disk' = [disk EXCEPT ![sh] = Append(disk[sh], x)]
      PROVE  Grows
  <2>1. /\ Len(disk[sh]) \in Nat /\ Len(disk'[sh]) = Len(disk[sh]) + 1
        /\ \A i \in 1..Len(disk[sh]) : disk'[sh][i] = disk[sh][i]
        /\ \A t \in Shards : t # sh => disk'[t] = disk[t]
    BY <1>0, <1>3, AppendFacts
  <2>2. \A t \in Shards : Len(disk[t]) \in Nat
    BY <1>0 DEF Typing
  <2> QED
    BY <2>1, <2>2 DEF Grows
<1> QED
  BY <1>1, <1>2, <1>3

\* A receipt is never lost.
LEMMA ReceiptedStays ==
    ASSUME Base, Base', Grows, NEW ck \in CacheKeys, Receipted(ck)
    PROVE  Receipted(ck)'
<1>1. ck.shard \in Shards
  BY ConstantFacts, KeyFacts DEF CacheKeys
<1>2. Len(disk[ck.shard]) \in Nat /\ Len(disk'[ck.shard]) \in Nat
  BY <1>1 DEF Base, Typing
<1> QED
  BY <1>1, <1>2 DEF Grows, Receipted

\* The commits of a directory are its own, and a keyed mutation has its receipt.
GoodCommit(sh, x) ==
    /\ x.ck.shard = sh
    /\ x.kind = "effect" /\ x.ck.route = "mutation" /\ IsKeyed(x.ck) => x.receipt # <<>>

\* An appended commit that is good leaves all of them good.
LEMMA CommitsGood ==
    ASSUME Base, ReceiptInv, NEW s \in CallSpecs,
           NEW x \in Commits, GoodCommit(s.shard, x),
           disk' = [disk EXCEPT ![s.shard] = Append(disk[s.shard], x)]
    PROVE  \A sh \in Shards : \A i \in 1..Len(disk'[sh]) : GoodCommit(sh, disk'[sh][i])
<1>0. s.shard \in Shards /\ Typing
  BY ConstantFacts DEF Base
<1>1. /\ Len(disk[s.shard]) \in Nat /\ Len(disk'[s.shard]) = Len(disk[s.shard]) + 1
      /\ disk'[s.shard][Len(disk[s.shard]) + 1] = x
      /\ \A i \in 1..Len(disk[s.shard]) : disk'[s.shard][i] = disk[s.shard][i]
      /\ \A t \in Shards : t # s.shard => disk'[t] = disk[t]
  BY <1>0, AppendFacts
<1>2. \A sh \in Shards : \A i \in 1..Len(disk[sh]) : GoodCommit(sh, disk[sh][i])
  BY DEF ReceiptInv, GoodCommit
<1> QED
  BY <1>1, <1>2

\* The commits that the server makes are good.
LEMMA MadeGood ==
    ASSUME NEW s \in CallSpecs, NEW r \in Response,
           NEW x \in {Commit(s, "effect", Embedded(s, r)), Commit(s, "receipt", <<r>>)}
    PROVE  x \in Commits /\ GoodCommit(s.shard, x) /\ x.ck = CacheKey(s)
<1>1. Embedded(s, r) \in {<<>>} \cup {<<q>> : q \in Response}
  BY DEF Embedded
<1>2. /\ x \in Commits /\ x.ck = CacheKey(s)
      /\ x.kind = "effect" => x.receipt = Embedded(s, r)
  BY <1>1, CommitFacts
<1>3. x.kind = "effect" /\ s.route = "mutation" /\ Keyed(s) => x.receipt # <<>>
  <2>1. s.route = "mutation" /\ Keyed(s) => Embedded(s, r) # <<>>
    BY DEF Embedded
  <2> QED
    BY <1>2, <2>1
<1>4. /\ x.ck.shard = s.shard /\ x.ck.route = s.route
      /\ IsKeyed(x.ck) => Keyed(s)
  BY <1>2, KeyFacts DEF IsKeyed, Keyed
<1> QED
  BY <1>2, <1>3, <1>4 DEF GoodCommit

\* What is cached, or about to be, is on the disk before.
LEMMA ReceiptStep ==
    ASSUME Base, Base', ReceiptInv, [Next]_vars
    PROVE  ReceiptInv'
<1>0. Typing /\ Grows
  BY DiskStep DEF Base
<1> DEFINE PcOk(b) ==
      /\ hnd[b].pc = "receipt" => Keyed(spec[b[1]]) /\ ReceiptAfter(spec[b[1]].route)
      /\ hnd[b].pc = "insert" =>
            Keyed(spec[b[1]]) /\ (spec[b[1]].route # "timed_batch" => Receipted(KeyOf(b)))
<1>1. \A b \in Attempts : KeyOf(b) \in CacheKeys /\ PcOk(b)
  BY <1>0, AttemptFacts, KeyFacts DEF KeyOf, ReceiptInv
<1>2. \A ck \in CacheKeys : Receipted(ck) => Receipted(ck)'
  BY <1>0, ReceiptedStays
<1>3. \A sh \in Shards : \A i \in 1..Len(disk[sh]) : GoodCommit(sh, disk[sh][i])
  BY DEF ReceiptInv, GoodCommit
<1>4. ASSUME DOMAIN cache' \subseteq CacheKeys, \A b \in Attempts : PcOk(b)',
             \A sh \in Shards : \A i \in 1..Len(disk'[sh]) : GoodCommit(sh, disk'[sh][i]),
             \A ck \in DOMAIN cache' : ck.route # "timed_batch" => Receipted(ck)'
      PROVE  ReceiptInv'
  BY <1>4 DEF ReceiptInv, GoodCommit
<1>5. ASSUME cache' = cache
      PROVE  /\ DOMAIN cache' \subseteq CacheKeys
             /\ \A ck \in DOMAIN cache' : ck.route # "timed_batch" => Receipted(ck)'
  BY <1>2, <1>5 DEF ReceiptInv
<1>6. ASSUME NEW a \in Attempts, NEW h, hnd' = [hnd EXCEPT ![a] = h], spec' = spec,
             PcOk(a)'
      PROVE  \A b \in Attempts : PcOk(b)'
  <2>1. \A b \in Attempts : b # a => hnd'[b] = hnd[b]
    BY <1>0, <1>6, MoveFacts
  <2>2. \A b \in Attempts : KeyOf(b)' = KeyOf(b)
    BY <1>6 DEF KeyOf
  <2> QED
    BY <1>1, <1>2, <1>6, <2>1, <2>2
<1>7. ASSUME NEW a \in Attempts, NEW h, hnd' = [hnd EXCEPT ![a] = h]
      PROVE  hnd'[a] = h
  BY <1>0, <1>7, MoveFacts
<1>8. CASE Quiet
  BY <1>8 DEF Quiet, ReceiptInv, Receipted, KeyOf
<1>9. CASE Restart
  <2>1. \A b \in Attempts : PcOk(b)'
    BY <1>9, RestartFacts
  <2>2. \A sh \in Shards : \A i \in 1..Len(disk'[sh]) : GoodCommit(sh, disk'[sh][i])
    BY <1>3, <1>9, RestartFacts
  <2>3. Root \in Shards /\ disk[Root] \in Seq(Commits)
    BY <1>0, ConstantFacts DEF Typing
  <2>4. ASSUME NEW ck \in DOMAIN cache' PROVE ck \in CacheKeys /\ Receipted(ck)'
    <3>1. PICK i \in 1..Len(disk[Root]) : disk[Root][i].ck = ck /\ disk[Root][i].receipt # <<>>
      <4>1. ck \in DOMAIN Receipts(disk[Root])
        BY <1>9, <2>4, RestartFacts
      <4> QED
        BY <2>3, <4>1, ReceiptsFacts
    <3>2. disk[Root][i] \in Commits /\ ck.shard = Root
      BY <1>3, <2>3, <3>1 DEF GoodCommit
    <3>3. ck \in CacheKeys /\ Receipted(ck)
      BY <3>1, <3>2 DEF Commits, Receipted
    <3> QED
      BY <1>2, <3>3
  <2> QED
    BY <1>4, <2>1, <2>2, <2>4
<1>10. ASSUME NEW a \in Attempts, Aside(a) \/ Miss(a) \/ Delivered(a)
       PROVE  ReceiptInv'
  <2>1. PICK h : hnd' = [hnd EXCEPT ![a] = h] /\ h.pc \notin {"receipt", "insert"}
    BY <1>10, HandlerFacts DEF Aside, Miss, Delivered
  <2>2. UNCHANGED <<spec, disk, cache>>
    BY <1>10 DEF Aside, Miss, Delivered
  <2>3. PcOk(a)'
    BY <2>1, <1>7
  <2> QED
    BY <1>3, <1>4, <1>5, <1>6, <2>1, <2>2, <2>3
<1>11. ASSUME NEW a \in Attempts, Inserted(a) PROVE ReceiptInv'
  <2>1. /\ hnd' = [hnd EXCEPT ![a] = [pc |-> "reply", resp |-> hnd[a].resp]]
        /\ UNCHANGED <<spec, disk>> /\ hnd[a].pc = "insert"
    BY <1>11 DEF Inserted
  <2>2. DOMAIN cache' = DOMAIN cache \cup {KeyOf(a)}
    BY <1>11 DEF Inserted, KeyOf, Put1
  <2>3. hnd'[a].pc = "reply"
    BY ZenonT(60), <2>1, <1>7
  <2>4. PcOk(a)'
    BY <2>3
  <2>5. \A b \in Attempts : PcOk(b)'
    BY <1>6, <2>1, <2>4
  <2>6. KeyOf(a).route # "timed_batch" => Receipted(KeyOf(a))
    <3>1. KeyOf(a).route = spec[a[1]].route
      BY <1>0, AttemptFacts, KeyFacts DEF KeyOf
    <3> QED
      BY <1>1, <2>1, <3>1
  <2>7. DOMAIN cache' \subseteq CacheKeys
    BY <1>1, <2>2 DEF ReceiptInv
  <2>8. \A ck \in DOMAIN cache' : ck.route # "timed_batch" => Receipted(ck)
    BY <2>2, <2>6 DEF ReceiptInv
  <2> QED
    BY <1>2, <1>3, <1>4, <2>1, <2>5, <2>7, <2>8
<1>12. ASSUME NEW a \in Attempts, Recorded(a) PROVE ReceiptInv'
  <2> DEFINE s == spec[a[1]]
             x == Commit(s, "receipt", <<hnd[a].resp>>)
  <2>0. s \in CallSpecs /\ hnd[a] \in Handler /\ s.shard \in Shards
    BY <1>0, AttemptFacts, ConstantFacts
  <2>1. /\ hnd' = [hnd EXCEPT ![a] = [pc |-> "insert", resp |-> hnd[a].resp]]
        /\ disk' = [disk EXCEPT ![s.shard] = Append(disk[s.shard], x)]
        /\ UNCHANGED <<spec, cache>> /\ hnd[a].pc = "receipt"
    BY <1>12 DEF Recorded
  <2>2. hnd[a].resp \in Response
    BY <2>0, <2>1, HandlerFacts
  <2>3. /\ x \in Commits /\ x.kind = "receipt" /\ x.ck = CacheKey(s)
        /\ x.receipt = <<hnd[a].resp>>
    BY <2>0, <2>2, CommitFacts
  <2> HIDE DEF x
  <2>4. GoodCommit(s.shard, x)
    BY <2>0, <2>3, KeyFacts DEF GoodCommit
  <2>5. \A sh \in Shards : \A i \in 1..Len(disk'[sh]) : GoodCommit(sh, disk'[sh][i])
    BY <2>0, <2>1, <2>3, <2>4, CommitsGood
  <2>6. Receipted(KeyOf(a))'
    <3>1. /\ Len(disk[s.shard]) \in Nat /\ Len(disk'[s.shard]) = Len(disk[s.shard]) + 1
          /\ disk'[s.shard][Len(disk[s.shard]) + 1] = x
      BY <1>0, <2>0, <2>1, <2>3, AppendFacts
    <3>2. x.receipt # <<>>
      BY <2>3
    <3>3. KeyOf(a)' = x.ck /\ x.ck.shard = s.shard
      BY <2>0, <2>1, <2>3, KeyFacts DEF KeyOf
    <3>4. Len(disk[s.shard]) + 1 \in 1..Len(disk'[x.ck.shard])
      BY <3>1, <3>3
    <3>5. \E i \in 1..Len(disk'[x.ck.shard]) :
             disk'[x.ck.shard][i].ck = x.ck /\ disk'[x.ck.shard][i].receipt # <<>>
      BY <3>1, <3>2, <3>3, <3>4
    <3> QED
      BY <3>3, <3>5 DEF Receipted
  <2>7. PcOk(a)'
    BY <1>1, <1>7, <2>1, <2>6
  <2> QED
    BY <1>4, <1>5, <1>6, <2>1, <2>5, <2>7
<1>13. ASSUME NEW a \in Attempts, Ran(a) PROVE ReceiptInv'
  <2> DEFINE s == spec[a[1]]
             p == IF Keyed(s) THEN IF ReceiptAfter(s.route) THEN "receipt" ELSE "insert"
                  ELSE "reply"
  <2>0. s \in CallSpecs /\ hnd[a] \in Handler /\ s.shard \in Shards
    BY <1>0, AttemptFacts, ConstantFacts
  <2>1. UNCHANGED <<spec, cache>>
    BY <1>13 DEF Ran
  <2>2. PICK r \in Response :
           /\ hnd' = [hnd EXCEPT ![a] = [pc |-> p, resp |-> r]]
           /\ \/ disk' = disk /\ s.route \in {"traceql", "graphql", "read"}
              \/ disk' = [disk EXCEPT ![s.shard] =
                    Append(disk[s.shard], Commit(s, "effect", Embedded(s, r)))]
    BY <1>13 DEF Ran
  <2>3. p = "insert" => Keyed(s) /\ s.route \notin {"traceql", "graphql", "read", "admin"}
    BY DEF Keyed, ReceiptAfter
  <2>4. p = "receipt" => Keyed(s) /\ ReceiptAfter(s.route)
    OBVIOUS
  <2> HIDE DEF p
  <2>5. hnd'[a].pc = p
    BY <1>0, <2>2 DEF Typing
  <2>6. CASE disk' = disk /\ s.route \in {"traceql", "graphql", "read"}
    <3>1. PcOk(a)'
      BY <2>1, <2>3, <2>4, <2>5, <2>6
    <3> QED
      BY <1>3, <1>4, <1>5, <1>6, <2>1, <2>2, <2>6, <3>1
  <2>7. CASE disk' = [disk EXCEPT ![s.shard] =
                    Append(disk[s.shard], Commit(s, "effect", Embedded(s, r)))]
    <3> DEFINE x == Commit(s, "effect", Embedded(s, r))
    <3>1. Embedded(s, r) \in {<<>>} \cup {<<q>> : q \in Response}
      BY DEF Embedded
    <3>2. /\ x \in Commits /\ x.kind = "effect" /\ x.ck = CacheKey(s)
          /\ x.receipt = Embedded(s, r)
      BY <2>0, <3>1, CommitFacts
    <3>3. disk' = [disk EXCEPT ![s.shard] = Append(disk[s.shard], x)]
      BY <2>7
    <3> HIDE DEF x
    <3>4. s.route = "mutation" /\ Keyed(s) => x.receipt # <<>>
      BY <3>2 DEF Embedded
    <3>5. /\ x.ck.shard = s.shard /\ x.ck.route = s.route /\ x.ck.key = s.key
          /\ IsKeyed(x.ck) => Keyed(s)
      BY <2>0, <3>2, KeyFacts DEF IsKeyed, Keyed
    <3>6. GoodCommit(s.shard, x)
      BY <3>4, <3>5 DEF GoodCommit
    <3>7. \A sh \in Shards : \A i \in 1..Len(disk'[sh]) : GoodCommit(sh, disk'[sh][i])
      BY <2>0, <3>2, <3>3, <3>6, CommitsGood
    <3>8. s.route = "mutation" /\ Keyed(s) => Receipted(KeyOf(a))'
      <4>1. /\ Len(disk[s.shard]) \in Nat /\ Len(disk'[s.shard]) = Len(disk[s.shard]) + 1
            /\ disk'[s.shard][Len(disk[s.shard]) + 1] = x
        BY <1>0, <2>0, <3>2, <3>3, AppendFacts
      <4>2. KeyOf(a)' = x.ck
        BY <2>1, <3>2 DEF KeyOf
      <4>3. Len(disk[s.shard]) + 1 \in 1..Len(disk'[x.ck.shard])
        BY <3>5, <4>1
      <4>4. s.route = "mutation" /\ Keyed(s) =>
               \E i \in 1..Len(disk'[x.ck.shard]) :
                  disk'[x.ck.shard][i].ck = x.ck /\ disk'[x.ck.shard][i].receipt # <<>>
        BY <3>4, <3>5, <4>1, <4>3
      <4> QED
        BY <4>2, <4>4 DEF Receipted
    <3>9. s.route \in {"mutation", "timed_batch", "admin", "traceql", "graphql", "read"}
      BY <2>0, RequestsAssumption
    <3>10. PcOk(a)'
      BY <2>1, <2>3, <2>4, <2>5, <3>8, <3>9
    <3> QED
      BY <1>4, <1>5, <1>6, <2>1, <2>2, <3>7, <3>10
  <2> QED
    BY <2>2, <2>6, <2>7
<1>14. ASSUME NEW a \in Attempts, Broke(a) \/ Unrecorded(a) PROVE ReceiptInv'
  <2>0. PICK s \in CallSpecs : s = spec[a[1]]
    BY <1>0, AttemptFacts
  <2>1. /\ hnd' = [hnd EXCEPT ![a] = [pc |-> "reply", resp |-> Status(400)]]
        /\ UNCHANGED <<spec, cache>>
    BY <1>14 DEF Broke, Unrecorded
  <2>2. hnd[a].pc = "receipt" => hnd[a].resp \in Response
    BY <1>0, AttemptFacts, HandlerFacts
  <2>3. PICK r \in Response :
           \E x \in {Commit(s, "effect", Embedded(s, r)), Commit(s, "receipt", <<r>>)} :
              disk' = [disk EXCEPT ![s.shard] = Append(disk[s.shard], x)]
    <3>1. CASE Broke(a)
      BY <2>0, <3>1 DEF Broke
    <3>2. CASE Unrecorded(a)
      BY <2>0, <2>2, <3>2 DEF Unrecorded
    <3> QED
      BY <1>14, <3>1, <3>2
  <2>4. \A sh \in Shards : \A i \in 1..Len(disk'[sh]) : GoodCommit(sh, disk'[sh][i])
    BY <2>3, MadeGood, CommitsGood
  <2>5. hnd'[a].pc = "reply"
    BY <1>0, <2>1 DEF Typing
  <2>6. PcOk(a)'
    BY <2>5
  <2> QED
    BY <1>4, <1>5, <1>6, <2>1, <2>4, <2>6
<1> QED
  BY <1>8, <1>9, <1>10, <1>11, <1>12, <1>13, <1>14, StepShape

\* What is remembered after a step was remembered before.
LEMMA RememberedBefore ==
    ASSUME Base, [Next]_vars, NEW ck, Remembered(ck)'
    PROVE  Remembered(ck)
<1>1. restarts \in Nat
  BY DEF Base, Typing
<1>2. restarts' = restarts \/ restarts' = restarts + 1
  BY StepShape, RestartFacts
  DEF Quiet, Aside, Miss, Ran, Broke, Recorded, Unrecorded, Inserted, Delivered
<1> QED
  BY <1>1, <1>2 DEF Remembered

\* The receipts of the root directory survive a restart in the cache.
LEMMA RestartCaches ==
    ASSUME Base, Restart, NEW ck \in CacheKeys, ck.shard = Root, Receipted(ck)
    PROVE  ck \in DOMAIN cache'
<1>1. disk[Root] \in Seq(Commits)
  BY ConstantFacts DEF Base, Typing
<1>2. ck \in DOMAIN Receipts(disk[Root])
  <2>1. PICK i \in 1..Len(disk[Root]) : disk[Root][i].ck = ck /\ disk[Root][i].receipt # <<>>
    BY DEF Receipted
  <2>2. DOMAIN Receipts(disk[Root]) =
           {disk[Root][j].ck : j \in {k \in 1..Len(disk[Root]) : disk[Root][k].receipt # <<>>}}
    BY <1>1, ReceiptsFacts
  <2> QED
    BY <2>1, <2>2
<1> QED
  BY <1>2, RestartFacts

\* A success is cached before it is answered, and stays while it is remembered.
LEMMA AnsweredStep ==
    ASSUME Base, ReceiptInv, AnsweredInv, [Next]_vars
    PROVE  AnsweredInv'
<1>0. Typing /\ \A b \in Attempts : KeyOf(b) \in CacheKeys /\ spec[b[1]] \in CallSpecs
  BY AttemptFacts, KeyFacts DEF Base, KeyOf
<1>1. CASE Quiet
  BY <1>1 DEF Quiet, AnsweredInv, KeyOf, Remembered
<1>2. CASE Restart
  <2>1. \A b \in Attempts : hnd'[b].pc = "none"
    BY <1>2, RestartFacts
  <2>2. ASSUME NEW ck \in answered, Remembered(ck)' PROVE ck \in DOMAIN cache'
    <3>1. ck.shard = Root /\ ck.route # "timed_batch"
      BY <1>2, <2>2, RestartFacts DEF Remembered
    <3>2. ck \in DOMAIN cache /\ ck \in CacheKeys
      BY <3>1 DEF AnsweredInv, Remembered
    <3>3. Receipted(ck)
      BY <3>1, <3>2 DEF ReceiptInv
    <3> QED
      BY <1>2, <3>1, <3>2, <3>3, RestartCaches
  <2>3. answered' = answered
    BY <1>2, RestartFacts
  <2> QED
    BY <2>1, <2>2, <2>3 DEF AnsweredInv
<1>3. ASSUME NEW a \in Attempts, NEW h, hnd' = [hnd EXCEPT ![a] = h],
             UNCHANGED <<spec, restarts>>, DOMAIN cache \subseteq DOMAIN cache',
             answered' = answered \/
                (answered' = answered \cup {KeyOf(a)} /\ KeyOf(a) \in DOMAIN cache
                   /\ Keyed(spec[a[1]])),
             h.pc = "reply" /\ h.resp.status = 200 /\ Keyed(spec[a[1]]) =>
                KeyOf(a) \in DOMAIN cache'
      PROVE  AnsweredInv'
  <2>1. hnd'[a] = h /\ \A b \in Attempts : b # a => hnd'[b] = hnd[b]
    BY <1>0, <1>3, MoveFacts
  <2>2. \A b \in Attempts : KeyOf(b)' = KeyOf(b) /\ spec'[b[1]] = spec[b[1]]
    BY <1>3 DEF KeyOf
  <2>3. \A b \in Attempts :
           hnd'[b].pc = "reply" /\ hnd'[b].resp.status = 200 /\ Keyed(spec[b[1]]) =>
              KeyOf(b) \in DOMAIN cache'
    BY <1>3, <2>1 DEF AnsweredInv
  <2>4. Keyed(spec[a[1]]) => IsKeyed(KeyOf(a))
    BY <1>0, KeyFacts DEF IsKeyed, Keyed, KeyOf
  <2>5. answered' \subseteq CacheKeys
    BY <1>0, <1>3 DEF AnsweredInv
  <2>6. \A ck \in answered' : IsKeyed(ck) /\ (Remembered(ck)' => ck \in DOMAIN cache')
    BY <1>3, <2>4 DEF AnsweredInv, Remembered
  <2> QED
    BY <2>2, <2>3, <2>5, <2>6 DEF AnsweredInv
<1>4. ASSUME NEW a \in Attempts, Aside(a) PROVE AnsweredInv'
  BY <1>3, <1>4 DEF Aside
<1>5. ASSUME NEW a \in Attempts, Miss(a) PROVE AnsweredInv'
  BY <1>3, <1>5 DEF Miss
<1>6. ASSUME NEW a \in Attempts, Ran(a) PROVE AnsweredInv'
  <2> DEFINE s == spec[a[1]]
             p == IF Keyed(s) THEN IF ReceiptAfter(s.route) THEN "receipt" ELSE "insert"
                  ELSE "reply"
  <2>1. PICK r \in Response : hnd' = [hnd EXCEPT ![a] = [pc |-> p, resp |-> r]]
    BY <1>6 DEF Ran
  <2>2. p = "reply" => ~Keyed(s)
    OBVIOUS
  <2> HIDE DEF p
  <2> DEFINE h == [pc |-> p, resp |-> r]
  <2>3. h.pc = p /\ hnd' = [hnd EXCEPT ![a] = h]
    BY <2>1
  <2> HIDE DEF h
  <2>4. UNCHANGED <<spec, restarts, cache, answered>>
    BY <1>6 DEF Ran
  <2> QED
    BY <1>3, <2>2, <2>3, <2>4
<1>7. ASSUME NEW a \in Attempts, Recorded(a) PROVE AnsweredInv'
  BY <1>3, <1>7 DEF Recorded
<1>8. ASSUME NEW a \in Attempts, Inserted(a) PROVE AnsweredInv'
  <2>1. DOMAIN cache' = DOMAIN cache \cup {KeyOf(a)}
    BY <1>8 DEF Inserted, KeyOf, Put1
  <2> QED
    BY <1>3, <1>8, <2>1 DEF Inserted
<1>9. ASSUME NEW a \in Attempts, Delivered(a) PROVE AnsweredInv'
  <2>1. hnd[a].pc = "reply" /\ hnd[a].resp.status = 200 /\ Keyed(spec[a[1]]) =>
           KeyOf(a) \in DOMAIN cache
    BY DEF AnsweredInv
  <2>2. NoHandler.pc # "reply"
    BY HandlerFacts
  <2>3. /\ hnd' = [hnd EXCEPT ![a] = NoHandler] /\ UNCHANGED <<spec, restarts, cache>>
        /\ hnd[a].pc = "reply"
    BY <1>9 DEF Delivered
  <2>4. answered' = answered \/
           (answered' = answered \cup {KeyOf(a)} /\ KeyOf(a) \in DOMAIN cache
              /\ Keyed(spec[a[1]]))
    BY <1>9, <2>1 DEF Delivered
  <2> QED
    BY <1>3, <2>2, <2>3, <2>4
<1>10. ASSUME NEW a \in Attempts, Broke(a) \/ Unrecorded(a) PROVE AnsweredInv'
  <2> DEFINE h == [pc |-> "reply", resp |-> Status(400)]
  <2>1. /\ hnd' = [hnd EXCEPT ![a] = h]
        /\ UNCHANGED <<spec, restarts, cache, answered>>
    BY <1>10 DEF Broke, Unrecorded
  <2>2. h.resp.status # 200
    BY ResponseFacts
  <2> HIDE DEF h
  <2> QED
    BY <1>3, <2>1, <2>2
<1> QED
  BY <1>1, <1>2, <1>4, <1>5, <1>6, <1>7, <1>8, <1>9, <1>10, StepShape

\* What an appended commit does to the effects of a key.
LEMMA EffectsStep ==
    ASSUME Typing, NEW sh \in Shards, NEW x \in Commits, NEW ck \in CacheKeys,
           disk' = [disk EXCEPT ![sh] = Append(disk[sh], x)]
    PROVE  /\ x.kind # "effect" \/ x.ck # ck => Effects(ck)' = Effects(ck)
           /\ Effects(ck)' \subseteq Effects(ck) \cup {Len(disk[sh]) + 1}
           /\ Len(disk[sh]) \in Nat
           /\ ck.shard = sh => \A i \in Effects(ck)' : i \in 1..(Len(disk[sh]) + 1)
<1>1. /\ Len(disk[sh]) \in Nat /\ Len(disk'[sh]) = Len(disk[sh]) + 1
      /\ disk'[sh][Len(disk[sh]) + 1] = x
      /\ \A i \in 1..Len(disk[sh]) : disk'[sh][i] = disk[sh][i]
      /\ \A t \in Shards : t # sh => disk'[t] = disk[t]
  BY AppendFacts
<1>2. ck.shard \in Shards
  BY ConstantFacts, KeyFacts DEF CacheKeys
<1>3. CASE ck.shard # sh
  BY <1>1, <1>2, <1>3 DEF Effects
<1>4. CASE ck.shard = sh
  BY <1>1, <1>4 DEF Effects
<1> QED
  BY <1>3, <1>4

\* An effect that was not answered with an error is cached, or its handler is
\* about to; and no other comes after it.
LEMMA OnceStep ==
    ASSUME Base, OverlapInv, ReceiptInv, OnceInv, [Next]_vars
    PROVE  OnceInv'
<1>0. Typing /\ \A b \in Attempts : KeyOf(b) \in CacheKeys /\ spec[b[1]] \in CallSpecs
  BY AttemptFacts, KeyFacts DEF Base, KeyOf
<1>1. raced \subseteq raced' /\ erred \subseteq erred'
  BY StepShape, RestartFacts
  DEF Quiet, Aside, Miss, Ran, Broke, Recorded, Unrecorded, Inserted, Delivered
<1> SUFFICES ASSUME NEW ck \in CacheKeys, Plain(ck)'
             PROVE  /\ (\E i \in Effects(ck)' : <<ck.shard, i>> \notin erred') =>
                         \/ ck \in DOMAIN cache'
                         \/ \E a \in Attempts : hnd'[a].pc = "insert" /\ KeyOf(a)' = ck
                    /\ \A i, j \in Effects(ck)' : i < j => <<ck.shard, i>> \in erred'
  BY DEF OnceInv
<1> DEFINE Goal == /\ (\E i \in Effects(ck)' : <<ck.shard, i>> \notin erred') =>
                         \/ ck \in DOMAIN cache'
                         \/ \E a \in Attempts : hnd'[a].pc = "insert" /\ KeyOf(a)' = ck
                   /\ \A i, j \in Effects(ck)' : i < j => <<ck.shard, i>> \in erred'
<1>2. Plain(ck)
  BY <1>1, RememberedBefore DEF Plain
<1>3. /\ (\E i \in Effects(ck) : <<ck.shard, i>> \notin erred) =>
           \/ ck \in DOMAIN cache
           \/ \E a \in Attempts : hnd[a].pc = "insert" /\ KeyOf(a) = ck
      /\ \A i, j \in Effects(ck) : i < j => <<ck.shard, i>> \in erred
  BY <1>2 DEF OnceInv
<1>4. ck.shard \in Shards
  BY ConstantFacts, KeyFacts DEF CacheKeys
<1>5. CASE Quiet
  BY <1>3, <1>5 DEF Quiet, Effects, KeyOf
<1>6. CASE Restart
  <2>1. Effects(ck)' = Effects(ck) /\ erred' = erred
    BY <1>6, RestartFacts DEF Effects
  <2>2. ASSUME Effects(ck) # {} PROVE ck \in DOMAIN cache'
    <3>1. ck.shard = Root /\ ck.route # "timed_batch" /\ IsKeyed(ck) /\ ~ReceiptAfter(ck.route)
      BY <1>6, RestartFacts DEF Plain, Remembered
    <3>2. ck.route = "mutation"
      <4>1. PICK s \in CallSpecs : ck = CacheKey(s)
        BY DEF CacheKeys
      <4> QED
        BY <3>1, <4>1, KeyFacts, RequestsAssumption DEF IsKeyed, ReceiptAfter
    <3>3. PICK i \in 1..Len(disk[Root]) : disk[Root][i].kind = "effect" /\ disk[Root][i].ck = ck
      BY <2>2, <3>1 DEF Effects
    <3>4. disk[Root][i].receipt # <<>>
      BY <3>1, <3>2, <3>3, ConstantFacts DEF ReceiptInv
    <3>5. Receipted(ck)
      BY <3>1, <3>3, <3>4 DEF Receipted
    <3> QED
      BY <1>6, <3>1, <3>5, RestartCaches
  <2> QED
    BY <1>3, <2>1, <2>2
<1>7. ASSUME NEW a \in Attempts, NEW h, hnd' = [hnd EXCEPT ![a] = h], spec' = spec,
             Effects(ck)' = Effects(ck), DOMAIN cache \subseteq DOMAIN cache',
             hnd[a].pc # "insert" \/ KeyOf(a) \in DOMAIN cache'
      PROVE  Goal
  <2>1. \A b \in Attempts : b # a => hnd'[b] = hnd[b]
    BY <1>0, <1>7, MoveFacts
  <2>2. \A b \in Attempts : KeyOf(b)' = KeyOf(b)
    BY <1>7 DEF KeyOf
  <2> QED
    BY <1>1, <1>3, <1>7, <2>1, <2>2
<1>8. CASE \E a \in Attempts : Aside(a) \/ Miss(a) \/ Delivered(a)
  <2>1. PICK a \in Attempts : Aside(a) \/ Miss(a) \/ Delivered(a)
    BY <1>8
  <2>2. PICK h : hnd' = [hnd EXCEPT ![a] = h]
    BY <2>1 DEF Aside, Miss, Delivered
  <2>3. spec' = spec /\ disk' = disk /\ cache' = cache /\ hnd[a].pc # "insert"
    BY <2>1 DEF Aside, Miss, Delivered
  <2>4. Effects(ck)' = Effects(ck)
    BY <2>3 DEF Effects
  <2> QED
    BY <1>7, <2>2, <2>3, <2>4
<1>9. ASSUME NEW a \in Attempts, Inserted(a) PROVE Goal
  <2>1. DOMAIN cache' = DOMAIN cache \cup {KeyOf(a)}
    BY <1>9 DEF Inserted, KeyOf, Put1
  <2>2. Effects(ck)' = Effects(ck)
    BY <1>9 DEF Inserted, Effects
  <2> HIDE DEF Goal
  <2> QED
    BY <1>7, <1>9, <2>1, <2>2 DEF Inserted
<1>10. ASSUME NEW a \in Attempts, Recorded(a) \/ Unrecorded(a) PROVE Goal
  <2> DEFINE s == spec[a[1]]
             x == Commit(s, "receipt", <<hnd[a].resp>>)
  <2>1. s \in CallSpecs /\ s.shard \in Shards /\ hnd[a].resp \in Response
    BY <1>0, <1>10, AttemptFacts, ConstantFacts, HandlerFacts DEF Recorded, Unrecorded
  <2>2. x \in Commits /\ x.kind = "receipt"
    BY <2>1, CommitFacts
  <2>3. disk' = [disk EXCEPT ![s.shard] = Append(disk[s.shard], x)]
    BY <1>10 DEF Recorded, Unrecorded
  <2> HIDE DEF x
  <2>4. Effects(ck)' = Effects(ck)
    BY <1>0, <2>1, <2>2, <2>3, EffectsStep
  <2>5. PICK h : hnd' = [hnd EXCEPT ![a] = h]
    BY <1>10 DEF Recorded, Unrecorded
  <2>6. spec' = spec /\ cache' = cache /\ hnd[a].pc # "insert"
    BY <1>10 DEF Recorded, Unrecorded
  <2> HIDE DEF Goal
  <2> QED
    BY <1>7, <2>4, <2>5, <2>6
<1>11. ASSUME NEW a \in Attempts, NEW s \in CallSpecs, s = spec[a[1]],
              NEW r \in Response, hnd[a].pc = "execute",
              disk' = [disk EXCEPT ![s.shard] =
                         Append(disk[s.shard], Commit(s, "effect", Embedded(s, r)))],
              Effects(ck)' # Effects(ck)
       PROVE  /\ ck = KeyOf(a) /\ Keyed(s) /\ ~ReceiptAfter(s.route) /\ ck.shard = s.shard
              /\ \A i \in Effects(ck)' :
                    <<ck.shard, i>> \in erred \/ i = Len(disk[s.shard]) + 1
              /\ \A i, j \in Effects(ck)' : i < j => <<ck.shard, i>> \in erred'
  <2>0. s.shard \in Shards
    BY ConstantFacts
  <2>1. PICK x : x = Commit(s, "effect", Embedded(s, r))
    OBVIOUS
  <2>2. /\ x \in Commits /\ x.ck = CacheKey(s)
        /\ disk' = [disk EXCEPT ![s.shard] = Append(disk[s.shard], x)]
    BY <1>11, <2>1, MadeGood
  <2>3. ck = KeyOf(a) /\ ck.shard = s.shard
    <3>1. x.kind # "effect" \/ x.ck # ck => Effects(ck)' = Effects(ck)
      BY ZenonT(60), <1>0, <2>0, <2>2, EffectsStep
    <3>2. x.ck = ck
      BY <1>11, <3>1
    <3> QED
      BY <1>11, <2>2, <3>2, KeyFacts DEF KeyOf
  <2>4. Keyed(s) /\ ~ReceiptAfter(s.route)
    BY <1>2, <1>11, <2>3, KeyFacts DEF Plain, IsKeyed, Keyed, KeyOf
  <2>5. ck \notin DOMAIN cache
    BY <1>2, <1>11, <2>3, <2>4 DEF OverlapInv, Plain, Busy
  <2>6. ASSUME NEW b \in Attempts, hnd[b].pc = "insert", KeyOf(b) = ck PROVE FALSE
    BY <1>2, <1>11, <2>3, <2>4, <2>6 DEF OverlapInv, Plain, Busy
  <2>7. \A i \in Effects(ck) : <<ck.shard, i>> \in erred
    BY <1>3, <2>5, <2>6
  <2> DEFINE n == Len(disk[s.shard]) + 1
  <2>8. /\ Effects(ck)' \subseteq Effects(ck) \cup {n} /\ n \in Nat
        /\ \A i \in Effects(ck)' : i \in 1..n
    <3>1. /\ Effects(ck)' \subseteq Effects(ck) \cup {n}
          /\ Len(disk[s.shard]) \in Nat
          /\ ck.shard = s.shard => \A i \in Effects(ck)' : i \in 1..n
      BY ZenonT(60), <1>0, <2>0, <2>2, EffectsStep
    <3> QED
      BY <2>3, <3>1
  <2> HIDE DEF n
  <2>9. \A i, j \in Effects(ck)' : i < j => i # n
    BY <2>8
  <2>10. \A i \in Effects(ck)' : <<ck.shard, i>> \in erred \/ i = n
    BY <2>7, <2>8
  <2>11. \A i, j \in Effects(ck)' : i < j => <<ck.shard, i>> \in erred'
    BY <1>1, <2>9, <2>10
  <2> QED
    BY <2>3, <2>4, <2>10, <2>11 DEF n
<1>12. ASSUME NEW a \in Attempts, Ran(a) PROVE Goal
  <2>0. PICK s \in CallSpecs : s = spec[a[1]]
    BY <1>0
  <2> DEFINE p == IF Keyed(s) THEN IF ReceiptAfter(s.route) THEN "receipt" ELSE "insert"
                  ELSE "reply"
  <2>1. UNCHANGED <<spec, cache>> /\ hnd[a].pc = "execute"
    BY <1>12 DEF Ran
  <2>2. PICK r \in Response :
           /\ hnd' = [hnd EXCEPT ![a] = [pc |-> p, resp |-> r]]
           /\ \/ disk' = disk
              \/ disk' = [disk EXCEPT ![s.shard] =
                    Append(disk[s.shard], Commit(s, "effect", Embedded(s, r)))]
    BY <1>12, <2>0 DEF Ran
  <2>3. CASE Effects(ck)' = Effects(ck)
    <3> HIDE DEF p, Goal
    <3> QED
      BY <1>7, <2>1, <2>2, <2>3
  <2>4. CASE Effects(ck)' # Effects(ck)
    <3>1. disk' = [disk EXCEPT ![s.shard] =
             Append(disk[s.shard], Commit(s, "effect", Embedded(s, r)))]
      BY <2>2, <2>4 DEF Effects
    <3>2. /\ ck = KeyOf(a) /\ Keyed(s) /\ ~ReceiptAfter(s.route)
          /\ \A i, j \in Effects(ck)' : i < j => <<ck.shard, i>> \in erred'
      BY <1>11, <2>0, <2>1, <2>4, <3>1
    <3>3. hnd'[a].pc = "insert"
      BY <1>0, <2>2, <3>2 DEF Typing
    <3>4. KeyOf(a)' = ck
      BY <2>1, <3>2 DEF KeyOf
    <3> QED
      BY <3>2, <3>3, <3>4
  <2> QED
    BY <2>3, <2>4
<1>13. ASSUME NEW a \in Attempts, Broke(a) PROVE Goal
  <2>0. PICK s \in CallSpecs : s = spec[a[1]]
    BY <1>0
  <2>1. /\ UNCHANGED <<spec, cache>> /\ hnd[a].pc = "execute"
        /\ hnd' = [hnd EXCEPT ![a] = [pc |-> "reply", resp |-> Status(400)]]
        /\ erred' = erred \cup {<<s.shard, Len(disk[s.shard]) + 1>>}
    BY <1>13, <2>0 DEF Broke
  <2>2. PICK r \in Response : disk' = [disk EXCEPT ![s.shard] =
           Append(disk[s.shard], Commit(s, "effect", Embedded(s, r)))]
    BY <1>13, <2>0 DEF Broke
  <2>3. CASE Effects(ck)' = Effects(ck)
    <3> HIDE DEF Goal
    <3> QED
      BY <1>7, <2>1, <2>3
  <2>4. CASE Effects(ck)' # Effects(ck)
    <3>1. /\ ck.shard = s.shard
          /\ \A i \in Effects(ck)' :
                <<ck.shard, i>> \in erred \/ i = Len(disk[s.shard]) + 1
          /\ \A i, j \in Effects(ck)' : i < j => <<ck.shard, i>> \in erred'
      BY <1>11, <2>0, <2>1, <2>2, <2>4
    <3>2. \A i \in Effects(ck)' : <<ck.shard, i>> \in erred'
      BY <2>1, <3>1
    <3> QED
      BY <3>1, <3>2
  <2> QED
    BY <2>3, <2>4
<1> HIDE DEF Goal
<1>14. Goal
  BY <1>5, <1>6, <1>8, <1>9, <1>10, <1>12, <1>13, StepShape DEF Goal
<1> QED
  BY <1>14 DEF Goal

\* The inductive invariant of the idempotency theorems.
IdempotencyInv == Base /\ OverlapInv /\ ReceiptInv /\ AnsweredInv /\ OnceInv

\* It holds initially and every step keeps it.
LEMMA IdempotencyInvariant == Spec => []IdempotencyInv
<1>1. Init => IdempotencyInv
  <2> SUFFICES ASSUME Init PROVE IdempotencyInv
    OBVIOUS
  <2>1. Base
    BY InitBase
  <2>2. \A a \in Attempts : hnd[a].pc = "none"
    BY HandlerFacts DEF Init
  <2>3. DOMAIN cache = {} /\ answered = {} /\ \A sh \in Shards : Len(disk[sh]) = 0
    BY DEF Init
  <2>4. \A ck \in CacheKeys : ck.shard \in Shards
    BY ConstantFacts, KeyFacts DEF CacheKeys
  <2>5. \A ck \in CacheKeys : Effects(ck) = {}
    BY <2>3, <2>4 DEF Effects
  <2>6. OnceInv
    BY <2>5 DEF OnceInv
  <2> QED
    BY <2>1, <2>2, <2>3, <2>6 DEF IdempotencyInv, OverlapInv, ReceiptInv, AnsweredInv, Busy
<1>2. IdempotencyInv /\ [Next]_vars => IdempotencyInv'
  BY NextBase, OverlapStep, ReceiptStep, AnsweredStep, OnceStep DEF IdempotencyInv
<1> QED
  BY <1>1, <1>2, PTL DEF Spec

\* A mutation with an idempotency key is executed again under its key only while
\* every execution so far was answered with an error, whatever replies are lost,
\* whenever the client or the server gives up, and wherever the server crashes
\* (the lookup in front of the engine, the receipt inside the commit, and
\* open_server_state, which fills the cache from the receipts); an operation may
\* err after its commit (bump_manifest after append_commit).
THEOREM KeysExecuteOnce == Spec => []ExecutedOnce
<1>1. IdempotencyInv => ExecutedOnce
  <2> SUFFICES ASSUME IdempotencyInv, NEW c \in Calls, Keyed(spec[c]),
                      NEW ck, ck = CacheKey(spec[c]),
                      ~ReceiptAfter(ck.route), ck \notin raced, Remembered(ck)
               PROVE  \A i, j \in Effects(ck) : i < j => <<ck.shard, i>> \in erred
    BY DEF ExecutedOnce, KeysUsed
  <2>1. spec[c] \in CallSpecs
    BY DEF IdempotencyInv, Base, Typing
  <2>2. ck \in CacheKeys /\ Plain(ck)
    BY <2>1, KeyFacts DEF Plain, IsKeyed, Keyed
  <2> QED
    BY <2>2 DEF IdempotencyInv, OnceInv
<1> QED
  BY <1>1, IdempotencyInvariant, PTL

\* What a client has been told is done is not done again under its key, by any
\* step: of a handler that is still running, of a retry, after a restart.
THEOREM AnsweredStaysDone == Spec => AnsweredNotRepeated
<1>1. IdempotencyInv /\ [Next]_vars =>
         [\A ck \in answered \cap KeysUsed :
             Effects(ck)' # Effects(ck) => ck \in raced' \/ ~Remembered(ck)]_vars
  <2> SUFFICES ASSUME IdempotencyInv, [Next]_vars, NEW ck \in answered, Remembered(ck),
                      Effects(ck)' # Effects(ck)
               PROVE  ck \in raced'
    OBVIOUS
  <2>0. Base /\ OverlapInv /\ ReceiptInv /\ AnsweredInv /\ Typing
    BY DEF IdempotencyInv, Base
  <2>1. ck \in CacheKeys /\ IsKeyed(ck) /\ ck \in DOMAIN cache
    BY <2>0 DEF AnsweredInv
  <2>2. disk' # disk
    BY DEF Effects
  <2>3. PICK a \in Attempts : Ran(a) \/ Broke(a) \/ Recorded(a) \/ Unrecorded(a)
    BY <2>0, <2>2, StepShape, RestartFacts DEF Quiet, Aside, Miss, Inserted, Delivered
  <2> DEFINE s == spec[a[1]]
  <2>4. s \in CallSpecs /\ s.shard \in Shards /\ hnd[a] \in Handler
    BY <2>0, AttemptFacts, ConstantFacts
  <2>5. CASE Recorded(a) \/ Unrecorded(a)
    <3> DEFINE x == Commit(s, "receipt", <<hnd[a].resp>>)
    <3>1. hnd[a].resp \in Response
      BY <2>4, <2>5, HandlerFacts DEF Recorded, Unrecorded
    <3>2. x \in Commits /\ x.kind = "receipt"
      BY <2>4, <3>1, CommitFacts
    <3>3. disk' = [disk EXCEPT ![s.shard] = Append(disk[s.shard], x)]
      BY <2>5 DEF Recorded, Unrecorded
    <3> HIDE DEF x
    <3> QED
      BY <2>0, <2>1, <2>4, <3>2, <3>3, EffectsStep
  <2>6. CASE Ran(a) \/ Broke(a)
    <3>1. PICK r \in Response : disk' = [disk EXCEPT ![s.shard] =
             Append(disk[s.shard], Commit(s, "effect", Embedded(s, r)))]
      BY <2>2, <2>6 DEF Ran, Broke
    <3> DEFINE x == Commit(s, "effect", Embedded(s, r))
    <3>2. Embedded(s, r) \in {<<>>} \cup {<<q>> : q \in Response}
      BY DEF Embedded
    <3>3. x \in Commits /\ x.ck = CacheKey(s)
      BY <2>4, <3>2, CommitFacts
    <3>4. disk' = [disk EXCEPT ![s.shard] = Append(disk[s.shard], x)]
      BY <3>1
    <3> HIDE DEF x
    <3>5. ck = KeyOf(a)
      BY <2>0, <2>1, <2>4, <3>3, <3>4, EffectsStep DEF KeyOf
    <3>6. Keyed(s) /\ Busy(a)
      BY <2>1, <2>4, <2>6, <3>5, KeyFacts
      DEF IsKeyed, Keyed, KeyOf, Ran, Broke, Busy
    <3>7. ck \in raced
      BY <2>0, <2>1, <3>5, <3>6 DEF OverlapInv
    <3> QED
      BY <2>6, <3>7 DEF Ran, Broke
  <2> QED
    BY <2>3, <2>5, <2>6
<1> QED
  BY <1>1, IdempotencyInvariant, PTL DEF Spec, AnsweredNotRepeated

-----------------------------------------------------------------------------
(* Answers are real *)

\* The response is that of a request like s: AnswersAreReal, of any response.
Real(s, resp) ==
    resp.status = 200 =>
        IF resp.commit = <<>> THEN s.route \in {"read", "traceql", "graphql"}
        ELSE LET log == disk[resp.commit[1]]
             IN  /\ s.writes /\ resp.commit[1] = s.shard
                 /\ resp.commit[2] \in 1..Len(log)
                 /\ log[resp.commit[2]].ck = CacheKey(s)
                 /\ log[resp.commit[2]].body = s.body

RealFor(ck, body, resp) ==
    \A s \in CallSpecs : CacheKey(s) = ck /\ s.body = body => Real(s, resp)

HandlerReal(a) ==
    hnd[a].pc \in {"receipt", "insert", "reply"} => Real(spec[a[1]], hnd[a].resp)

\* Every response in the server is real: in a handler, in the cache, on disk.
RealInv ==
    /\ \A a \in Attempts : HandlerReal(a)
    /\ \A ck \in DOMAIN cache : RealFor(ck, cache[ck].body, cache[ck].resp)
    /\ \A sh \in Shards : \A i \in 1..Len(disk[sh]) :
          disk[sh][i].receipt # <<>> =>
             RealFor(disk[sh][i].ck, disk[sh][i].body, disk[sh][i].receipt[1])

\* Commits are never rewritten, so what was real stays so.
LEMMA RealStays ==
    ASSUME Base, Base', Grows, NEW s \in CallSpecs, NEW resp, Real(s, resp)
    PROVE  Real(s, resp)'
<1>1. s.shard \in Shards
  BY ConstantFacts
<1>2. /\ Len(disk[s.shard]) \in Nat /\ Len(disk'[s.shard]) \in Nat
      /\ Len(disk[s.shard]) <= Len(disk'[s.shard])
      /\ \A i \in 1..Len(disk[s.shard]) : disk'[s.shard][i] = disk[s.shard][i]
  BY SMTT(30), <1>1 DEF Base, Typing, Grows
<1>3. ASSUME resp.status = 200, resp.commit # <<>>
      PROVE  /\ s.writes /\ resp.commit[1] = s.shard
             /\ resp.commit[2] \in 1..Len(disk[s.shard])
             /\ disk[s.shard][resp.commit[2]].ck = CacheKey(s)
             /\ disk[s.shard][resp.commit[2]].body = s.body
  BY <1>3 DEF Real
<1>4. ASSUME resp.status = 200, resp.commit # <<>>
      PROVE  /\ s.writes /\ resp.commit[1] = s.shard
             /\ resp.commit[2] \in 1..Len(disk'[s.shard])
             /\ disk'[s.shard][resp.commit[2]].ck = CacheKey(s)
             /\ disk'[s.shard][resp.commit[2]].body = s.body
  <2>1. resp.commit[2] \in 1..Len(disk[s.shard])
    BY <1>3, <1>4
  <2>2. disk'[s.shard][resp.commit[2]] = disk[s.shard][resp.commit[2]]
    BY <1>2, <2>1
  <2> QED
    BY <1>2, <1>3, <1>4, <2>1, <2>2
<1>5. resp.status = 200 /\ resp.commit = <<>> => s.route \in {"read", "traceql", "graphql"}
  BY DEF Real
<1> QED
  BY <1>4, <1>5 DEF Real

\* The same for every request of a key and a body.
LEMMA RealForStays ==
    ASSUME Base, Base', Grows, NEW ck, NEW body, NEW resp, RealFor(ck, body, resp)
    PROVE  RealFor(ck, body, resp)'
BY RealStays DEF RealFor

\* A response to s is a response to every request of its key and body: what a
\* request writes is determined by its route and its body.
LEMMA RealForAll ==
    ASSUME NEW s \in CallSpecs, NEW resp, Real(s, resp)
    PROVE  RealFor(CacheKey(s), s.body, resp)
<1> SUFFICES ASSUME NEW t \in CallSpecs, CacheKey(t) = CacheKey(s), t.body = s.body
             PROVE  Real(t, resp)
  BY DEF RealFor
<1>1. t.route = s.route /\ t.shard = s.shard
  BY KeyFacts
<1>2. s.writes => t.writes
  BY <1>1, RequestsAssumption
<1> QED
  BY <1>1, <1>2 DEF Real

\* A response that is not a success is real.
LEMMA FailureReal ==
    ASSUME NEW s, NEW code \in {0, 400, 409, 503, 504}
    PROVE  Real(s, Status(code))
BY ResponseFacts DEF Real

\* The engine reports the commit that it makes.
LEMMA ReportReal ==
    ASSUME Typing, NEW s \in CallSpecs, disk' = [disk EXCEPT ![s.shard] = Executed(s)],
           NEW resp, resp = Ok(Reported(s))
    PROVE  Real(s, resp)'
<1>0. s.shard \in Shards
  BY ConstantFacts
<1>1. CASE s.writes
  <2>1. Reported(s) = <<s.shard, Len(disk[s.shard]) + 1>>
    BY <1>1 DEF Reported
  <2>2. PICK r \in {<<>>, <<Ok(Reported(s))>>} :
           /\ Commit(s, "effect", r) \in Commits
           /\ disk' = [disk EXCEPT ![s.shard] = Append(disk[s.shard], Commit(s, "effect", r))]
    BY <1>1, ExecutedFacts
  <2> DEFINE x == Commit(s, "effect", r)
             n == Len(disk[s.shard]) + 1
  <2>3. x.ck = CacheKey(s) /\ x.body = s.body /\ x \in Commits
    BY <2>2 DEF Commit
  <2>4. disk' = [disk EXCEPT ![s.shard] = Append(disk[s.shard], x)]
    BY <2>2
  <2> HIDE DEF x
  <2>5. n \in 1..Len(disk'[s.shard]) /\ disk'[s.shard][n] = x
    <3>1. /\ Len(disk[s.shard]) \in Nat /\ Len(disk'[s.shard]) = Len(disk[s.shard]) + 1
          /\ disk'[s.shard][Len(disk[s.shard]) + 1] = x
      BY ZenonT(60), <1>0, <2>3, <2>4, AppendFacts
    <3> QED
      BY <3>1
  <2>6. /\ resp.commit = <<s.shard, n>> /\ resp.commit # <<>>
        /\ resp.commit[1] = s.shard /\ resp.commit[2] = n
    BY <2>1 DEF Ok
  <2> HIDE DEF n
  <2> QED
    BY <1>1, <2>3, <2>5, <2>6 DEF Real
<1>2. CASE ~s.writes
  <2>1. resp.commit = <<>> /\ s.route \in {"read", "traceql", "graphql"}
    BY <1>2, RequestsAssumption, ResponseFacts DEF Reported
  <2> QED
    BY <2>1 DEF Real
<1> QED
  BY <1>1, <1>2

\* Every response stays real, and every new one is.
LEMMA RealStep ==
    ASSUME Base, Base', RealInv, [Next]_vars
    PROVE  RealInv'
<1>0. Typing /\ Typing' /\ Grows
  BY DiskStep DEF Base
<1> DEFINE CacheReal == \A ck \in DOMAIN cache : RealFor(ck, cache[ck].body, cache[ck].resp)
           DiskReal == \A sh \in Shards : \A i \in 1..Len(disk[sh]) :
              disk[sh][i].receipt # <<>> =>
                 RealFor(disk[sh][i].ck, disk[sh][i].body, disk[sh][i].receipt[1])
<1>1. ASSUME NEW b \in Attempts, hnd'[b] = hnd[b], spec' = spec
      PROVE  HandlerReal(b)'
  <2>1. PICK r : r = hnd[b].resp
    OBVIOUS
  <2>2. PICK t \in CallSpecs : t = spec[b[1]]
    BY <1>0, AttemptFacts
  <2>3. hnd[b].pc \in {"receipt", "insert", "reply"} => Real(t, r)
    BY <2>1, <2>2 DEF RealInv, HandlerReal
  <2>4. hnd[b].pc \in {"receipt", "insert", "reply"} => Real(t, r)'
    BY <1>0, <2>3, RealStays
  <2> QED
    BY ZenonT(60), <1>1, <2>1, <2>2, <2>4 DEF HandlerReal, Real
<1>2. ASSUME cache' = cache PROVE CacheReal'
  <2> SUFFICES ASSUME NEW ck \in DOMAIN cache
               PROVE  RealFor(ck, cache[ck].body, cache[ck].resp)'
    BY <1>2
  <2>1. PICK body, r : body = cache[ck].body /\ r = cache[ck].resp
    OBVIOUS
  <2>2. RealFor(ck, body, r)
    BY <2>1 DEF RealInv
  <2>3. RealFor(ck, body, r)'
    BY <1>0, <2>2, RealForStays
  <2> QED
    BY <1>2, <2>1, <2>3 DEF RealFor, Real
<1>3. ASSUME NEW sh \in Shards, NEW i \in 1..Len(disk[sh]), disk[sh][i].receipt # <<>>
      PROVE  RealFor(disk[sh][i].ck, disk[sh][i].body, disk[sh][i].receipt[1])'
             /\ disk'[sh][i] = disk[sh][i]
  <2>1. disk'[sh][i] = disk[sh][i]
    BY <1>0 DEF Grows
  <2>2. PICK ck, body, r : ck = disk[sh][i].ck /\ body = disk[sh][i].body
                           /\ r = disk[sh][i].receipt[1]
    OBVIOUS
  <2>3. RealFor(ck, body, r)
    BY <1>3, <2>2 DEF RealInv
  <2>4. RealFor(ck, body, r)'
    BY <1>0, <2>3, RealForStays
  <2>5. /\ disk'[sh][i].ck = ck /\ disk'[sh][i].body = body
        /\ disk'[sh][i].receipt[1] = r
    BY <2>1, <2>2
  <2>6. RealFor(disk[sh][i].ck, disk[sh][i].body, disk[sh][i].receipt[1])'
    BY <2>4, <2>5 DEF RealFor
  <2> QED
    BY <2>1, <2>6
<1>4. ASSUME disk' = disk PROVE DiskReal'
  BY <1>3, <1>4
<1>5. ASSUME NEW a \in Attempts, NEW h, hnd' = [hnd EXCEPT ![a] = h], spec' = spec,
             HandlerReal(a)'
      PROVE  \A b \in Attempts : HandlerReal(b)'
  <2>1. \A b \in Attempts : b # a => hnd'[b] = hnd[b]
    BY <1>0, <1>5, MoveFacts
  <2> QED
    BY <1>1, <1>5, <2>1
<1>6. ASSUME NEW a \in Attempts, NEW h, hnd' = [hnd EXCEPT ![a] = h], spec' = spec,
             h.pc \notin {"receipt", "insert", "reply"}
      PROVE  \A b \in Attempts : HandlerReal(b)'
  <2>1. hnd'[a] = h
    BY <1>0, <1>6, MoveFacts
  <2>2. HandlerReal(a)'
    BY <1>6, <2>1 DEF HandlerReal
  <2> QED
    BY <1>5, <1>6, <2>2
<1>7. ASSUME NEW a \in Attempts, NEW p, NEW r, spec' = spec,
             hnd' = [hnd EXCEPT ![a] = [pc |-> p, resp |-> r]],
             NEW t \in CallSpecs, t = spec[a[1]], Real(t, r)'
      PROVE  \A b \in Attempts : HandlerReal(b)'
  <2>1. hnd'[a].resp = r
    BY <1>0, <1>7 DEF Typing
  <2>2. HandlerReal(a)'
    BY <1>7, <2>1 DEF HandlerReal, Real
  <2> QED
    BY <1>5, <1>7, <2>2
<1>8. CASE UNCHANGED vars
  BY <1>1, <1>2, <1>4, <1>8 DEF vars, RealInv
<1>9. ASSUME NEW c \in Calls, Send(c) \/ Shed(c) \/ ClientTimeout(c)
      PROVE  RealInv'
  <2>1. CASE Send(c)
    <3> DEFINE a == <<c, client[c].made + 1>>
               h == [pc |-> "route"]
    <3>1. a \in Attempts /\ hnd' = [hnd EXCEPT ![a] = h] /\ h.pc = "route"
      BY <2>1, SendBase DEF Send
    <3>2. spec' = spec /\ disk' = disk /\ cache' = cache
      BY <2>1 DEF Send
    <3> HIDE DEF a, h
    <3>3. \A b \in Attempts : HandlerReal(b)'
      BY <1>6, <3>1, <3>2
    <3> QED
      BY <1>2, <1>4, <3>2, <3>3 DEF RealInv
  <2>2. CASE Shed(c) \/ ClientTimeout(c)
    <3>1. spec' = spec /\ disk' = disk /\ cache' = cache /\ hnd' = hnd
      BY <2>2 DEF Shed, ClientTimeout
    <3> QED
      BY <1>1, <1>2, <1>4, <3>1 DEF RealInv
  <2> QED
    BY <1>9, <2>1, <2>2
<1>10. CASE Restart
  <2>1. \A b \in Attempts : HandlerReal(b)'
    BY <1>10, RestartFacts DEF HandlerReal
  <2>2. disk' = disk /\ cache' = Receipts(disk[Root]) /\ Root \in Shards
        /\ disk[Root] \in Seq(Commits)
    BY <1>0, <1>10, RestartFacts, ConstantFacts DEF Typing
  <2>3. CacheReal'
    <3> SUFFICES ASSUME NEW ck \in DOMAIN Receipts(disk[Root])
                 PROVE  RealFor(ck, cache[ck].body, cache[ck].resp)'
      BY <2>2
    <3>1. PICK i \in 1..Len(disk[Root]) :
             /\ disk[Root][i].ck = ck /\ disk[Root][i].receipt # <<>>
             /\ Receipts(disk[Root])[ck] =
                   [body |-> disk[Root][i].body, resp |-> disk[Root][i].receipt[1]]
      BY <2>2, ReceiptsFacts
    <3>2. PICK body, r : body = disk[Root][i].body /\ r = disk[Root][i].receipt[1]
      OBVIOUS
    <3>3. RealFor(ck, body, r)
      BY <2>2, <3>1, <3>2 DEF RealInv
    <3>4. RealFor(ck, body, r)'
      BY <1>0, <3>3, RealForStays
    <3>5. cache'[ck].body = body /\ cache'[ck].resp = r
      BY <2>2, <3>1, <3>2
    <3> QED
      BY <3>4, <3>5 DEF RealFor, Real
  <2> QED
    BY <1>4, <2>1, <2>2, <2>3 DEF RealInv
<1>10a. ASSUME NEW x \in Commits, NEW sh \in Shards,
               disk' = [disk EXCEPT ![sh] = Append(disk[sh], x)],
               x.receipt # <<>> => RealFor(x.ck, x.body, x.receipt[1])'
        PROVE  DiskReal'
  <2>1. /\ Len(disk[sh]) \in Nat /\ Len(disk'[sh]) = Len(disk[sh]) + 1
        /\ disk'[sh][Len(disk[sh]) + 1] = x
        /\ \A t \in Shards : t # sh => disk'[t] = disk[t]
    BY <1>0, <1>10a, AppendFacts
  <2>2. ASSUME NEW t \in Shards, NEW i \in 1..Len(disk'[t]), disk'[t][i].receipt # <<>>
        PROVE  RealFor(disk[t][i].ck, disk[t][i].body, disk[t][i].receipt[1])'
    <3>1. CASE i \in 1..Len(disk[t])
      BY <1>0, <1>3, <2>2, <3>1 DEF Grows
    <3>2. CASE i \notin 1..Len(disk[t])
      <4>1. disk'[t][i] = x
        BY <2>1, <2>2, <3>2
      <4> QED
        BY <1>10a, <2>2, <4>1 DEF RealFor
    <3> QED
      BY <3>1, <3>2
  <2> QED
    BY <2>2
<1>10b. ASSUME NEW s \in CallSpecs, disk' = [disk EXCEPT ![s.shard] = Executed(s)]
        PROVE  DiskReal'
  <2>0. PICK r : r = Ok(Reported(s))
    OBVIOUS
  <2>1. CASE disk' = disk
    BY <1>4, <2>1
  <2>2. CASE disk' # disk
    <3>1. PICK e \in {<<>>, <<r>>} :
             /\ Commit(s, "effect", e) \in Commits
             /\ disk' = [disk EXCEPT ![s.shard] =
                            Append(disk[s.shard], Commit(s, "effect", e))]
      BY <1>0, <1>10b, <2>0, <2>2, ExecutedFacts
    <3> DEFINE x == Commit(s, "effect", e)
    <3>2. /\ x.ck = CacheKey(s) /\ x.body = s.body /\ x.receipt = e /\ x \in Commits
          /\ disk' = [disk EXCEPT ![s.shard] = Append(disk[s.shard], x)]
      BY <3>1 DEF Commit
    <3> HIDE DEF x
    <3>3. Real(s, r)'
      BY <1>0, <1>10b, <2>0, ReportReal
    <3>4. RealFor(CacheKey(s), s.body, r)'
      <4> SUFFICES ASSUME NEW t \in CallSpecs, CacheKey(t) = CacheKey(s), t.body = s.body
                   PROVE  Real(t, r)'
        BY DEF RealFor
      <4>1. t.route = s.route /\ t.shard = s.shard /\ (s.writes => t.writes)
        BY KeyFacts, RequestsAssumption
      <4> QED
        BY <3>3, <4>1 DEF Real
    <3>5. x.receipt # <<>> => x.receipt[1] = r
      BY <3>1, <3>2
    <3>6. x.receipt # <<>> => RealFor(x.ck, x.body, x.receipt[1])'
      BY <3>2, <3>4, <3>5 DEF RealFor, Real
    <3> HIDE DEF DiskReal
    <3> QED
      BY <1>10a, <3>2, <3>6, ConstantFacts
  <2> QED
    BY <2>1, <2>2
<1>10c. ASSUME NEW s \in CallSpecs, NEW r \in Response, Real(s, r),
               disk' = [disk EXCEPT ![s.shard] =
                          Append(disk[s.shard], Commit(s, "receipt", <<r>>))]
        PROVE  DiskReal'
  <2> DEFINE x == Commit(s, "receipt", <<r>>)
  <2>1. RealFor(CacheKey(s), s.body, r)
    BY <1>10c, RealForAll
  <2>2. RealFor(CacheKey(s), s.body, r)'
    BY <1>0, <2>1, RealForStays
  <2>3. x \in Commits /\ x.ck = CacheKey(s) /\ x.body = s.body /\ x.receipt[1] = r
    BY CommitFacts
  <2>4. disk' = [disk EXCEPT ![s.shard] = Append(disk[s.shard], x)]
    BY <1>10c
  <2> HIDE DEF x, DiskReal
  <2>5. RealFor(x.ck, x.body, x.receipt[1])'
    BY <2>2, <2>3 DEF RealFor
  <2> QED
    BY <1>10a, <2>3, <2>4, <2>5, ConstantFacts
<1>11. ASSUME NEW a \in Attempts, Step(a) \/ Fails(a)
       PROVE  RealInv'
  <2>0. PICK s \in CallSpecs : s = spec[a[1]]
    BY <1>0, AttemptFacts
  <2>1. hnd[a] \in Handler /\ s.shard \in Shards
    BY <1>0, AttemptFacts, ConstantFacts
  <2>2. CASE Route(a) \/ Create(a) \/ Deliver(a)
    <3>1. PICK h : hnd' = [hnd EXCEPT ![a] = h] /\ h.pc \notin {"receipt", "insert", "reply"}
      <4>1. CASE Route(a)
        <5> DEFINE h == IF s.shard \in DOMAIN shards
                        THEN [pc |-> "lookup", handle |-> shards[s.shard]] ELSE [pc |-> "create"]
        <5>1. hnd' = [hnd EXCEPT ![a] = h] /\ h.pc \in {"lookup", "create"}
          BY <2>0, <4>1 DEF Route
        <5> HIDE DEF h
        <5> QED
          BY <5>1
      <4>2. CASE Create(a)
        <5> DEFINE h == [pc |-> "lookup", handle |-> shards'[s.shard]]
        <5>1. hnd' = [hnd EXCEPT ![a] = h] /\ h.pc = "lookup"
          BY <2>0, <4>2 DEF Create
        <5> HIDE DEF h
        <5> QED
          BY <5>1
      <4>3. CASE Deliver(a)
        BY <4>3, HandlerFacts DEF Deliver
      <4> QED
        BY <2>2, <4>1, <4>2, <4>3
    <3>2. spec' = spec /\ disk' = disk /\ cache' = cache
      BY <2>2 DEF Route, Create, Deliver
    <3>3. \A b \in Attempts : HandlerReal(b)'
      BY <1>6, <3>1, <3>2
    <3> QED
      BY <1>2, <1>4, <3>2, <3>3 DEF RealInv
  <2>3. CASE Lookup(a)
    <3>0. spec' = spec /\ disk' = disk /\ cache' = cache /\ hnd[a].pc = "lookup"
      BY <2>3 DEF Lookup
    <3>1. CASE Keyed(s) /\ CacheKey(s) \in DOMAIN cache
      <4>1. PICK r : r = Hit(s)
        OBVIOUS
      <4>2. hnd' = [hnd EXCEPT ![a] = [pc |-> "reply", resp |-> r]]
        BY <2>0, <2>3, <3>1, <4>1 DEF Lookup, Reply
      <4>3. Real(s, r)
        <5>1. CASE cache[CacheKey(s)].body = s.body
          BY <3>1, <4>1, <5>1 DEF RealInv, RealFor, Hit
        <5>2. CASE cache[CacheKey(s)].body # s.body
          BY <4>1, <5>2, FailureReal DEF Hit
        <5> QED
          BY <5>1, <5>2
      <4>4. Real(s, r)'
        BY <1>0, <4>3, RealStays
      <4>5. \A b \in Attempts : HandlerReal(b)'
        BY <1>7, <2>0, <3>0, <4>2, <4>4
      <4> QED
        BY <1>2, <1>4, <3>0, <4>5 DEF RealInv
    <3>2. CASE ~(Keyed(s) /\ CacheKey(s) \in DOMAIN cache)
      <4> DEFINE h == [pc |-> "execute", handle |-> hnd[a].handle]
      <4>1. hnd' = [hnd EXCEPT ![a] = h] /\ h.pc = "execute"
        BY <2>0, <2>1, <2>3, <3>2, HandlerFacts DEF Lookup
      <4> HIDE DEF h
      <4>2. \A b \in Attempts : HandlerReal(b)'
        BY <1>6, <3>0, <4>1
      <4> QED
        BY <1>2, <1>4, <3>0, <4>2 DEF RealInv
    <3> QED
      BY <3>1, <3>2
  <2>4. ASSUME NEW routes, Execute(a, routes) PROVE RealInv'
    <3>1. PICK r : r = Ok(Reported(s))
      OBVIOUS
    <3>2. /\ disk' = [disk EXCEPT ![s.shard] = Executed(s)] /\ Answer(a, r)
          /\ spec' = spec /\ cache' = cache
      BY <2>0, <2>4, <3>1 DEF Execute
    <3>3. Real(s, r)' /\ r \in Response
      BY <1>0, <3>1, <3>2, ReportReal, ReportedFacts
    <3>4. PICK p \in {"receipt", "insert", "reply"} :
             hnd' = [hnd EXCEPT ![a] = [pc |-> p, resp |-> r]]
      BY <1>0, <3>2, <3>3, AnswerFacts
    <3>5. \A b \in Attempts : HandlerReal(b)'
      BY <1>7, <2>0, <3>2, <3>3, <3>4
    <3>6. DiskReal'
      BY <1>10b, <3>2
    <3> QED
      BY <1>2, <3>2, <3>5, <3>6 DEF RealInv
  <2>5. CASE StatementFails(a)
    <3>1. PICK r : r = Ok(<<>>)
      OBVIOUS
    <3>2. Answer(a, r) /\ spec' = spec /\ cache' = cache
      BY <2>5, <3>1 DEF StatementFails
    <3>3. Real(s, r)' /\ r \in Response
      BY <2>0, <2>5, <3>1, ResponseFacts DEF StatementFails, Real
    <3>4. PICK p \in {"receipt", "insert", "reply"} :
             hnd' = [hnd EXCEPT ![a] = [pc |-> p, resp |-> r]]
      BY <1>0, <3>2, <3>3, AnswerFacts
    <3>5. \A b \in Attempts : HandlerReal(b)'
      BY <1>7, <2>0, <3>2, <3>3, <3>4
    <3>6. disk' = disk \/ disk' = [disk EXCEPT ![s.shard] = Executed(s)]
      BY <2>0, <2>5 DEF StatementFails
    <3>7. DiskReal'
      BY <1>4, <1>10b, <3>6
    <3> QED
      BY <1>2, <3>2, <3>5, <3>7 DEF RealInv
  <2>6. CASE RecordReceipt(a) \/ Insert(a)
    <3>1. PICK r : r = hnd[a].resp
      OBVIOUS
    <3>2. hnd[a].pc \in {"receipt", "insert"} /\ spec' = spec
      BY <2>6 DEF RecordReceipt, Insert
    <3>3. Real(s, r) /\ r \in Response
      BY <2>0, <2>1, <3>1, <3>2, HandlerFacts DEF RealInv, HandlerReal
    <3>4. Real(s, r)' /\ RealFor(CacheKey(s), s.body, r)
      BY <1>0, <3>3, RealStays, RealForAll
    <3>5. RealFor(CacheKey(s), s.body, r)'
      BY <1>0, <3>4, RealForStays
    <3>6. CASE RecordReceipt(a)
      <4>1. hnd' = [hnd EXCEPT ![a] = [pc |-> "insert", resp |-> r]] /\ cache' = cache
        BY <2>1, <3>1, <3>2, <3>6, HandlerFacts DEF RecordReceipt
      <4>2. \A b \in Attempts : HandlerReal(b)'
        BY <1>7, <2>0, <3>2, <3>4, <4>1
      <4>3. disk' = [disk EXCEPT ![s.shard] =
               Append(disk[s.shard], Commit(s, "receipt", <<r>>))]
        BY <2>0, <3>1, <3>6 DEF RecordReceipt
      <4>4. DiskReal'
        BY <1>10c, <3>3, <4>3
      <4> QED
        BY <1>2, <4>1, <4>2, <4>4 DEF RealInv
    <3>7. CASE Insert(a)
      <4>1. /\ hnd' = [hnd EXCEPT ![a] = [pc |-> "reply", resp |-> r]] /\ disk' = disk
            /\ cache' = Put1(cache, CacheKey(s), [body |-> s.body, resp |-> r])
        BY <2>0, <3>1, <3>7 DEF Insert, Reply
      <4>2. \A b \in Attempts : HandlerReal(b)'
        BY <1>7, <2>0, <3>2, <3>4, <4>1
      <4>3. ASSUME NEW ck \in DOMAIN cache'
            PROVE  RealFor(ck, cache[ck].body, cache[ck].resp)'
        <5>1. CASE ck = CacheKey(s)
          <6>1. cache'[ck].body = s.body /\ cache'[ck].resp = r
            BY <4>1, <5>1 DEF Put1
          <6> QED
            BY <3>5, <5>1, <6>1 DEF RealFor
        <5>2. CASE ck # CacheKey(s)
          <6>1. ck \in DOMAIN cache /\ cache'[ck] = cache[ck]
            BY <4>1, <4>3, <5>2 DEF Put1
          <6>2. PICK body, q : body = cache[ck].body /\ q = cache[ck].resp
            OBVIOUS
          <6>3. RealFor(ck, body, q)
            BY <6>1, <6>2 DEF RealInv
          <6>4. RealFor(ck, body, q)'
            BY <1>0, <6>3, RealForStays
          <6> QED
            BY <6>1, <6>2, <6>4 DEF RealFor
        <5> QED
          BY <5>1, <5>2
      <4> QED
        BY <1>4, <4>1, <4>2, <4>3 DEF RealInv
    <3> QED
      BY <2>6, <3>6, <3>7
  <2>7. CASE Fails(a)
    <3>1. PICK r \in {Status(400), Status(504)} :
             /\ hnd' = [hnd EXCEPT ![a] = [pc |-> "reply", resp |-> r]]
             /\ spec' = spec /\ cache' = cache
      BY <2>7 DEF Fails, HandlerFails, Timeout, FailsAfterCommit, FailsAfterReceipt, Reply
    <3>2. Real(s, r)'
      BY ResponseFacts DEF Real
    <3>3. \A b \in Attempts : HandlerReal(b)'
      BY <1>7, <2>0, <3>1, <3>2
    <3>4. DiskReal'
      <4>1. CASE HandlerFails(a) \/ Timeout(a)
        BY <1>4, <4>1 DEF HandlerFails, Timeout
      <4>2. CASE FailsAfterCommit(a)
        BY <1>10b, <2>0, <4>2 DEF FailsAfterCommit
      <4>3. CASE FailsAfterReceipt(a)
        <5>1. PICK q : q = hnd[a].resp
          OBVIOUS
        <5>2. /\ hnd[a].pc = "receipt"
              /\ disk' = [disk EXCEPT ![s.shard] =
                            Append(disk[s.shard], Commit(s, "receipt", <<q>>))]
          BY <2>0, <4>3, <5>1 DEF FailsAfterReceipt
        <5>3. q \in Response /\ Real(s, q)
          BY <2>0, <2>1, <5>1, <5>2, HandlerFacts DEF RealInv, HandlerReal
        <5> QED
          BY <1>10c, <5>2, <5>3
      <4> QED
        BY <2>7, <4>1, <4>2, <4>3 DEF Fails
    <3> QED
      BY <1>2, <3>1, <3>3, <3>4 DEF RealInv
  <2> QED
    BY <1>11, <2>2, <2>3, <2>4, <2>5, <2>6, <2>7
    DEF Step, ExecuteMutation, ExecuteRead, ExecuteAdmin, ExecuteTraceQl, ExecuteGraphQl
<1> QED
  BY <1>8, <1>9, <1>10, <1>11 DEF Next, Fails

\* What a call returns of a real response is real.
LEMMA ResultReal ==
    ASSUME NEW s, NEW resp \in Response, Real(s, resp)
    PROVE  Real(s, Result(resp))
BY ResponseFacts DEF Result, Failure, Real

ClientReal(c) == client[c].phase = "done" => Real(spec[c], client[c].result)

\* The clients keep real answers, and are given no other.
LEMMA ClientStep ==
    ASSUME Base, Base', RealInv, \A c \in Calls : ClientReal(c), [Next]_vars
    PROVE  \A c \in Calls : ClientReal(c)'
<1>0. Typing /\ Grows
  BY DiskStep DEF Base
<1>1. ASSUME NEW c \in Calls, client'[c] = client[c], spec' = spec
      PROVE  ClientReal(c)'
  <2>1. PICK r : r = client[c].result
    OBVIOUS
  <2>2. PICK t \in CallSpecs : t = spec[c]
    BY <1>0 DEF Typing
  <2>3. client[c].phase = "done" => Real(t, r)'
    BY <1>0, <2>1, <2>2, RealStays DEF ClientReal
  <2> QED
    BY <1>1, <2>1, <2>2, <2>3 DEF ClientReal, Real
<1>2. ASSUME NEW c \in Calls, NEW r, Real(spec[c], r), spec' = spec,
             client'[c].phase = "done" => client'[c].result = r
      PROVE  ClientReal(c)'
  <2>1. PICK t \in CallSpecs : t = spec[c]
    BY <1>0 DEF Typing
  <2>2. Real(t, r)'
    BY <1>0, <1>2, <2>1, RealStays
  <2> QED
    BY <1>2, <2>1, <2>2 DEF ClientReal, Real
<1>3. CASE UNCHANGED vars
  BY <1>1, <1>3 DEF vars
<1>4. ASSUME NEW c \in Calls, Send(c) PROVE \A d \in Calls : ClientReal(d)'
  <2>1. spec' = spec /\ \A d \in Calls : d # c => client'[d] = client[d]
    BY <1>0, <1>4 DEF Send, Typing
  <2>2. client'[c].phase = "waiting"
    BY <1>0, <1>4 DEF Send, Typing
  <2> QED
    BY <1>1, <2>1, <2>2 DEF ClientReal
<1>5. ASSUME NEW c \in Calls, Shed(c) PROVE \A d \in Calls : ClientReal(d)'
  <2>1. spec' = spec
    BY <1>5 DEF Shed
  <2>2. ASSUME NEW d \in Calls, client'[d].result.status = 0 PROVE ClientReal(d)'
    <3>1. client'[d].result.status # 200
      BY <2>2
    <3> QED
      BY <3>1 DEF ClientReal, Real
  <2>3. ASSUME NEW d \in Calls, client'[d].phase # "done" PROVE ClientReal(d)'
    BY <2>3 DEF ClientReal
  <2> QED
    BY <1>1, <1>5, <2>1, <2>2, <2>3, ShedBase
<1>6. ASSUME NEW c \in Calls, ClientTimeout(c) PROVE \A d \in Calls : ClientReal(d)'
  <2>1. PICK r : r = Result(Status(0))
    OBVIOUS
  <2>2. Status(0) \in Response /\ Real(spec[c], r)
    BY <2>1, ResponseFacts DEF Real, Result, Failure
  <2>3. /\ \A d \in Calls \ {c} : client'[d] = client[d]
        /\ client'[c].phase = "done" => client'[c].result = r
    BY <1>0, <1>6, <2>1, <2>2, OutcomeKeeps DEF ClientTimeout
  <2>4. spec' = spec
    BY <1>6 DEF ClientTimeout
  <2> QED
    BY <1>1, <1>2, <2>2, <2>3, <2>4
<1>7. ASSUME NEW a \in Attempts, Deliver(a) PROVE \A d \in Calls : ClientReal(d)'
  <2> DEFINE c == a[1]
             waits == client[c].phase = "waiting" /\ client[c].made = a[2]
  <2>1. c \in Calls /\ hnd[a] \in Handler
    BY <1>0, AttemptFacts
  <2>2. /\ hnd[a].pc = "reply" /\ spec' = spec
        /\ IF waits THEN Outcome(c, hnd[a].resp) ELSE UNCHANGED client
    BY <1>7 DEF Deliver
  <2>3. PICK r : r = Result(hnd[a].resp)
    OBVIOUS
  <2>4. hnd[a].resp \in Response /\ Real(spec[c], r)
    <3>1. PICK q : q = hnd[a].resp
      OBVIOUS
    <3>2. q \in Response /\ Real(spec[c], q)
      BY <2>1, <2>2, <3>1, HandlerFacts DEF RealInv, HandlerReal
    <3> QED
      BY <2>3, <3>1, <3>2, ResultReal
  <2>5. CASE ~waits
    BY <1>1, <2>2, <2>5
  <2>6. CASE waits
    <3>1. /\ \A d \in Calls \ {c} : client'[d] = client[d]
          /\ client'[c].phase = "done" => client'[c].result = r
      BY <1>0, <2>1, <2>2, <2>3, <2>4, <2>6, OutcomeKeeps
    <3> QED
      BY <1>1, <1>2, <2>1, <2>2, <2>4, <3>1
  <2> QED
    BY <2>5, <2>6
<1>8. ASSUME NEW a \in Attempts, Step(a) \/ Fails(a), ~Deliver(a)
      PROVE  \A d \in Calls : ClientReal(d)'
  <2>1. spec' = spec /\ client' = client
    BY <1>8 DEF Step, Route, Create, Lookup, RecordReceipt, ExecuteMutation, ExecuteRead,
       ExecuteAdmin, ExecuteTraceQl, ExecuteGraphQl, Execute, StatementFails, Insert,
       Fails, HandlerFails, Timeout, FailsAfterCommit, FailsAfterReceipt
  <2> QED
    BY <1>1, <2>1
<1>9. CASE Restart
  BY <1>1, <1>9 DEF Restart
<1> QED
  BY <1>3, <1>4, <1>5, <1>6, <1>7, <1>8, <1>9 DEF Next, Fails

\* A client is given only successes of its own request: the commit that the
\* answer reports is in the directory, made by the same route and key from the
\* same body, also if it comes from the cache or from a receipt after a crash.
THEOREM OwnAnswers == Spec => []AnswersAreReal
<1> DEFINE Inv == Base /\ RealInv /\ \A c \in Calls : ClientReal(c)
<1>1. Init => Inv
  <2> SUFFICES ASSUME Init PROVE Inv
    OBVIOUS
  <2>1. \A c \in Calls : client[c].phase = "ready"
    BY DEF Init
  <2>2. \A a \in Attempts : hnd[a].pc = "none"
    BY HandlerFacts DEF Init
  <2>3. DOMAIN cache = {} /\ \A sh \in Shards : Len(disk[sh]) = 0
    BY DEF Init
  <2> QED
    BY <2>1, <2>2, <2>3, InitBase DEF RealInv, HandlerReal, ClientReal
<1>2. Inv /\ [Next]_vars => Inv'
  BY NextBase, RealStep, ClientStep
<1>3. Inv => AnswersAreReal
  BY DEF AnswersAreReal, ClientReal, Real
<1> QED
  BY <1>1, <1>2, <1>3, PTL DEF Spec
=============================================================================
