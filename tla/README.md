# TraceDB: TLA+ models, checks and proofs

TraceDB is a local, single-writer record database with a write-ahead log, a
manifest, checkpoints, a multi-version record store with derived features, job
queues, an HTTP server and an S3-style remote storage adapter. This directory
holds TLA+ modules translated from that code, the TLC configurations that check
them on small instances, and TLAPS proofs for the engine, the record store, the
remote lease, the request path, segments and copies, reads over them, and the job
runtime.
`PROJECT.json` maps every definition to the source lines it stands for and lists
runs, mutants, findings, hazards and theorems.

## 1. Inventory

| Component | State | Operations | Interacts with | What is hard | What makes it correct |
|---|---|---|---|---|---|
| WAL (`tracedb-log`) | `000001.twal`, cached tail | append, scan, truncate torn tail | engine | short write, failed sync, stale tail cache | frames chained, torn tail only at the end |
| Engine core (`tracedb-query`) | `manifest.tdb`, `.bak`, checkpoints, handle | open, write, `bump_manifest`, checkpoint | WAL, record store | crash between any two file operations, memory ahead of disk | acknowledged commits survive, one commit per epoch |
| Record store (`tracedb-store`) | versions per record | put, batch, insert, patch, delete, feature status, replay | engine plans writes, replays commits | live plan and replay are different code | replay equals live, snapshots do not change |
| Job catalog (`tracedb-jobs`) | jobs, leases | enqueue, lease, heartbeat, complete, fail, `apply_event` | engine, server runtime | expiry against a late worker | unique tokens, no early takeover |
| Server job runtime (`tracedb-server`) | `catalog.json`, `events.jsonl`, memory | open, the five requests | job catalog, workers | memory changed before two writes; replay on a checkpoint | recovery succeeds, confirmed completions survive |
| Remote lease (`tracedb-remote-storage`) | one object per branch | acquire, refresh, release | object store | every await interleaves with others | one writer at a time |
| Remote manifest pointer | one object per branch | load, compare-and-swap | object store | head, get and put are three requests | no lost update |
| HTTP requests and idempotency (cli, server, query) | client attempts, handlers, cache, receipts in commits | send, retry, lookup, execute, record, reload | engine, shards | check then act; lost replies; receipts after the effect; receipts of other shards | one effect per key, answers are those of the request |
| Shards and engine handle (server) | a map of open engines | `for_actor`, read and write locks | engine | creation race, lock order | one engine per directory |
| Engine jobs (query) | job events in commits | `enqueue_job` .. `fail_job` | catalog, WAL | append fails after the change | as the server runtime |
| Segments, compaction, vacuum | segment and index manifests | publish, compact, vacuum | manifest | parent generations, files in use | a manifest names only files that exist |
| Backup, snapshot, restore | directories | copy, restore | engine files | files copied one by one | a copy opens to one epoch |
| Query, cursors, lexical cache (query, text, policy) | cursor epochs, LRU cache of corpora | query, scan | store, segments, indexes | one record live and sealed in different versions; stale cache, lost history | results from one epoch, nothing hidden or deleted |
| Vector index (`tracedb-index`) | layered graph per field | build, search | segments, query | pruned links, filters that allow few | full answers, bounded links |
| Keeper | epochs, keys, log in one file | open, commit | | acknowledged from memory after a failed persist | acknowledged means persisted |
| Parsers, modules, descriptors, TDE, command line | little or none | pure functions, crypto, I/O | | | |

## 2. Modules

- `Engine.tla`: WAL, manifest and backup, checkpoint files, one open handle and
  the environment's faults. Each operation is stepped where a failure or crash
  leaves different files behind. A commit is its epoch and the number of the
  write attempt; a store is the set of commits in it.
  - `CreateManifest`, `Open`, `OpenFails`: `open_with_options`.
  - `CopyBackup`, `PublishManifest`, `ManifestWriteFails`: `write_manifest`,
    used by open, commits and checkpoints.
  - `BeginWrite` / `WriteRefused`: the refresh every write starts with. A stale
    handle reopens its own directory, which its own `engine.lock` refuses.
  - `AppendCommit`, `AppendSyncFails`, `AppendShortWrite`: `append_commit`.
  - `BeginCheckpoint`, `TruncateWal`, `TruncateFails`: `checkpoint`.
  - `Crash`, `PowerLoss`, `CorruptManifest`: the environment (external).
- `DurableLog.tla`: what the engine promises: write attempts are issued,
  recorded once in epoch order, acknowledged only when recorded; only
  unacknowledged ends are forgotten. `EngineRefinement.tla` maps Engine to it
  (the log is what recovery would bring back).
- `EngineProofs.tla` (types, durability), `EngineOrderProofs.tla` (manifests,
  epochs), `EngineRefinementProofs.tla` (DurableLog): the theorems about Engine.
  `RecordStoreProofs.tla`, `RemoteLeaseProofs.tla`, `RequestsProofs.tla` and
  `ServerJobsProofs.tla`: those about the modules they are named after;
  `SegmentsProofs.tla`: those about Segments, TextCorpus and Query (section 5).
- `RecordStore.tla`: versions of each record as the live writes plan them, the
  commit records they leave in the WAL, and the replay of checkpoint and
  commits. One table, one tenant, a text field and a vector field derived from it.
- `JobCatalog.tla`: the catalog's operations and event replay as operators.
  `ServerJobs.tla`: the server's runtime on top of them: memory, event file,
  checkpoint file, crashes, failing writes, workers and time. Every lease and
  heartbeat asks for its own time (`LeaseTimes`); the ghost `held` is until when a
  worker can count on a job: what it was last told, or less once it has asked for
  less.
- `RemoteLease.tla`: the lease object and the manifest pointer, and the sessions'
  calls request by request (`CasHead`, `CasGet`, `Swap` for
  `compare_and_swap_manifest`).
- `Segments.tla`: versions in memory beside sealed segments and index artifacts on
  disk. `PublishSegment`, `Compact`, `WriteIndex`, `PublishManifest`,
  `PublishAgain` and `PublishFails` are the steps of a publication that leave
  different files; `Vacuum`, `Copying` (backup and snapshot, file by file),
  `Restart` and `Restore`.
- `Selection.tla`: sorting a set and filtering a sequence, defined by positions and
  ranks instead of recursion, so that they can be reasoned about.
- `TextCorpus.tla`: BM25 over a corpus, computed directly, from a prepared corpus
  by scanning, or from the postings of rare terms, as pure operators.
- `Query.tla`: on top of both, the reads: visibility and scalar filters, candidate
  streams, rank fusion, ordering, materialization, pages, cursors and the cache
  of prepared corpora. `StartRead` and `NextPage` are one request each (reads
  hold the engine's read lock); storage steps come from `Segments`.
- `VectorIndex.tla`: the layered proximity graph of a segment, inserted entry by
  entry, and its searches as operators on every graph that can arise.
- `Requests.tla`: a client's retry loop, the server's handler stepped where it
  waits or where a crash matters (`Route`, `Create`, `Lookup`, one `Execute...`
  action per group of routes, `StatementFails`, `RecordReceipt`, `Insert`,
  `Deliver`), load shedding, time-outs and restarts. A commit is one step here;
  Engine.tla has its inside. What the handler sees of a failure there is an error
  before the commit (`HandlerFails`) or after it (`FailsAfterCommit`,
  `FailsAfterReceipt`: the WAL has the commit, `bump_manifest` failed); the ghost
  `erred` has the commits whose handler answered with an error. The client's final
  errors are not told apart.
- `MC*.tla`, `*.cfg`: instances for TLC.

Definitions whose comment begins with "Broken:" are the mutants of
`PROJECT.json`: plausible bugs that the named property must catch.

## 3. Runs

| Run | Checks | Bounds |
|---|---|---|
| `engine` | types; acknowledged commits are in every possible recovery; live data is on disk; WAL chained; acknowledged frames only leave for a checkpoint that has them; refinement of DurableLog | 4 epochs, 4 writes, 2 crashes, 2 checkpoints; sync, manifest and power faults |
| `engine_all_faults` | one commit per epoch, manifests only advance | 3 epochs, 3 writes, 2 crashes, 1 checkpoint; all faults |
| `engine_live` | a recoverable commit becomes live | 3 epochs, 3 writes, 2 crashes, 1 checkpoint; power loss; fairness |
| `record_store` | replay equals live, version chain, source hashes, stable snapshots, nothing resurrected | 2 records, 1 body (or none), 1 dimension (or none), 4 commits |
| `server_jobs` | recovery, completions, token uniqueness, unexpired leases | 1 job, 1 worker, 5 requests, 1 crash, clock 0..2, lease times 0 (taken for 1) and 2, failing writes |
| `remote_lease` | one writer, fencing tokens, the manifest pointer moves one generation at a time from what the caller expected | 2 sessions, 3 successful puts, clock 0..4, ttl 1500 ms (2 s), 2 pointer generations |
| `query` | matching live records are answered once in their current version; none that is deleted or hidden is; cursors stay among the records; pages of a scan, and of an unranked query, are one snapshot; the lexical cache is bounded and does not change scores; manifest and copies name artifacts that verify | 2 records, 2 contents, 3 commits, 5 manifest generations, 1 fault or copy, 4 reads of 2 actors, lexical cache of one corpus |
| `vector_index` | shape of the graph; filtered searches are full; unpruned segments are searched exactly | 5 vectors on 3 directions or zero, 2 levels, m = 1, ef 3 and 4 |
| `requests` | a key is executed again only after errors; nothing answered is repeated; answers belong to their requests; one handle per shard; the concurrency limit | 2 calls out of 10 kinds, 1 retry, 2 handlers, 1 restart |
| `engine_short_write`, `engine_fallback_checkpoint`, `record_store_schema` | violated, see section 4 | |

Why the bounds are enough: four writes with two crashes and two checkpoints
cover a failed write, its successor under the same epoch, a checkpoint over both
and a second recovery, each stopped at every step; the proofs of section 5 remove
the bounds of `engine`, `engine_all_faults`, `record_store`, `remote_lease`,
`requests` and `server_jobs`, and of all of `query` but `PagesAreOneSnapshot`. In `record_store` a body is only ever compared with
"no body" and copied, so one body shows what two would; four commits cover
schema, create, delete, re-create, with a checkpoint or restart between any two.
In `server_jobs` five requests cover enqueue, lease, a heartbeat for a longer or a
shorter time that fails or is cut off, expiry, second lease and completion or
failure, with a restart anywhere. In `remote_lease` three puts are an
acquisition, a takeover and a refresh or third acquisition racing it; two
generations of the pointer let a swap race another that has the same
expectation. In `query` three commits are a create, an update or a second
record, and a delete or re-create; five generations are those commits and two
publications or compactions around them; one fault is a restart, a failed
publication, or a copy. Two contents differ in every attribute a read looks at;
corpora of two documents or more are cached, so that queries happen on both
sides of the threshold. In
`vector_index` m = 1 makes lists of one and two links overflow with five
entries; the code's m = 16 does the same with more. In `requests` two calls
that share a key or not, each with a retry, give four attempts: a retry of an
answered call, of a lost one, of one that failed before or after its commit, of a
running one, and another body for the key. Administration has no key in the run;
statements, which record their receipt in the same way, have one, and the theorems
cover both.

Deadlock checking is off: clients may stop, and the bounds end every behaviour.
`engine_live` assumes weak fairness of opening a closed directory and of the
steps of an operation already begun: the server opens its directory when it
starts, and the code runs an operation to its end. No client is obliged to write.

Assumptions on the environment. A rename is atomic and durable once the code
has synced the directory; checkpoint files stay readable. All sessions of a lease
read one clock, use one ttl and have different holder ids, and each put gives
the object an etag it never had. With two ttls, a put with a shorter one whose
answer is lost shortens a lease that its holder still counts on; with a shared
holder id, sessions take the lease from each other by design.

## 4. Findings

- `engine_short_write`: a WAL append that fails half way leaves a torn frame; the
  next write rescans past it and appends behind it, so an acknowledged commit is
  cut off, or refused as corruption, at the next open.
- `engine_fallback_checkpoint`: after a checkpoint the rotated `manifest.tdb.bak`
  names the previous checkpoint while the WAL has been emptied; falling back to
  it opens without the commits in between, and without an error.
- `record_store_schema`: a change of vector dimension is accepted when no row is
  visible, but open replays the commits of deleted rows under the final schema
  and fails.

Limits of the passing runs that are choices of constants or stated in the
properties, each because the code behaves differently beyond them:

- `RepeatedKeys = FALSE`. A batch that names a record twice, first without and
  then with an embedding, is Ready live and Dirty after replay: `apply_commits`
  applies the invalidation of the first naming after both replacements. It is a
  hypothesis of `RecoveryFaithful` and of no other theorem.
- `Schemas = {1}` in `record_store`. Dropping a vector column, patching its text
  and adding the column again keeps a Ready feature for the old text. Theorem
  `SourceHashesCurrent` allows every set of schemas that all have the column or all
  lack it; `RecoveryFaithful` needs a single one (see `record_store_schema`).
- `Runtimes = {r1}`. Both default shard keys have the same job directory; with
  two runtimes on it an unexpired lease is given out twice.
- `RecoverySucceeds` and `CompletionSurvives` speak of histories without a failed
  write: memory keeps a change whose event was not written, and a later event
  about that job cannot be replayed.
- `UnexpiredLeaseKept` lets a worker count on the lesser of what it was last told
  and what it has asked for since. A heartbeat with a shorter `lease_ms` shortens the
  lease in memory before it is written: if the write fails, or the server ends
  before it answers, the worker was last told the longer time and the job is leased
  to another at the shorter one.
- `FencingTokensProgress` holds until the first release, which deletes the
  object and with it the token count.
- `MatchingRecordsAnswered` asks that a matching current version is answered with
  that version, `NothingHiddenAnswered` that no answered version is hidden and no
  answered record deleted. Neither asks that every answered row is current: filters
  run on each version, so a record whose current version no longer matches the
  predicate, or is hidden from the actor, is answered with an older sealed version
  that still matches.
- No two actors make text queries under one predicate in `query`, and no text
  query has a second page: the cache key
  has the predicate and the latest epoch, not the actor nor the epoch of a signed
  cursor, so a corpus of one actor or epoch scores another's query. Candidates are
  still filtered by what the actor may see. Theorem `LexicalCacheTransparent` has
  these as hypotheses, and also covers pages of text queries under plain offsets.
- `PagesAreOneSnapshot` leaves out text and vector queries, whose ranks shift when
  sealed copies appear, and cursors older than a checkpoint before a restart,
  whose versions are gone (`reader.lost`).
- `SearchFills` has one exception: the visit of the entry point on an upper level
  counts as a visit, so a search with `ef_search` one short of the entries whose
  only allowed entry is the entry point comes back empty.
- `ExecutedOnce` and `AnsweredNotRepeated` leave out handlers of one key that
  overlap (the cache is checked before and filled after the execution); after a
  restart, keys of other shards than the default one, whose receipts are not
  reloaded, and timed batches, which carry no receipt. `ExecutedOnce` allows a key
  to be executed again after executions that were answered with an error: when the
  WAL has the commit and `bump_manifest` fails, the handler answers 400 and caches
  nothing, so a repeat makes a second commit, until a restart reads the receipt of
  the first from the WAL. `ExecutedOnce` also leaves
  out administration and statements, whose receipt is a second commit that a
  time-out, an error or a crash can prevent.
- `engine_live` has power loss only. A handle that is behind its own disk, after a
  failed sync or manifest write, refuses every write until a restart that nobody is
  obliged to make, so commits may stay invisible.
- `SourceHashCurrent` compares hashes with bodies; it does not look at the status.

Three definitions are simpler than the code:
- `RemoteLease.Swap` writes the generation after the expected one.
  `compare_and_swap_manifest` leaves `next.generation` to its caller and does not look
  at it; `PointerAdvances` is about callers that keep the convention, and recognises
  a lost swap by it.
- `Query.SealedVectorCandidates` has all sealed vectors in exact order, where the code
  searches each artifact's graph up to a limit. No property of `query` depends on it;
  VectorIndex is about that search.
- `VectorIndex.SearchLegacyGreedy` walks the bottom level of the current graph, where
  legacy artifacts come from an older builder. It falls back to the exact scan unless
  it has visited every entry, so its answer does not depend on the links.

Also seen while modelling: `durable_epoch` is advanced by open over a frame whose
sync had failed; `set_feature_status` changes the current version in place, so
older snapshot epochs see the new status; `fail` without a token is not checked
and may follow a completion; a heartbeat is confirmed on a job that has failed;
the server's event file is replayed on a checkpoint that already has its effect,
so restarts count attempts again and jobs are dead-lettered early; a publication
reuses the segment file that a crashed one of the same id left; a snapshot
removes its old target first and does not copy `manifest.tdb.bak`; sealed
vectors are candidates whatever freshness the query asks for; the errors of a
GraphQL operation, and of a TraceQL snapshot, are 200 responses and are
remembered under their key, so a later attempt with that key gets the old error.

## 5. Proofs

All theorems hold for every value of the constants that the named assumptions of
the modules allow: any number of epochs, writes, crashes, sessions, calls, jobs.

| Module | Theorem | Property | Extra assumption |
|---|---|---|---|
| `EngineProofs` | `TypeCorrect` | `TypeOK` | |
| | `AckedDurable`, `LiveDurable`, `WalStaysChained`, `DurabilityHolds` | `AckedRecoverable`, `LiveIsRecoverable`, `ChainedWal`, `DurabilityInv` | `TolerableFaults` |
| `EngineOrderProofs` | `ManifestsAdvance`, `EpochsUnique` | `ManifestAdvances`, `OneCommitPerEpoch` | |
| `EngineRefinementProofs` | `EngineImplementsLog`, `AckedFramesKept` | `ImplementsDurableLog`, `AckedFramesStay` | `TolerableFaults` |
| `RecordStoreProofs` | `StoreTypes`, `ChainsUnbroken`, `SnapshotsStable`, `DeletedStaysDeleted` | `TypeOK`, `VersionChain`, `SnapshotStable`, `NothingResurrected` | |
| | `SourceHashesCurrent` | `SourceHashCurrent` | `VectorColumnStays` |
| | `RecoveryFaithful` | `ReplayMatchesLive` | `OneSchema`, `~RepeatedKeys` |
| `RemoteLeaseProofs` | `LeaseTypeCorrect`, `TokensFence`, `PointerNeverSkips` | `TypeOK`, `FencingTokensProgress`, `PointerAdvances` | |
| | `ExclusiveWriter` | `LeaseExclusive` | `OwnHolderIds`, `SameTtl` |
| `RequestsProofs` | `RequestTypes`, `HandlesAgree`, `KeysExecuteOnce`, `AnsweredStaysDone`, `OwnAnswers` | `RequestsTypeOK`, `OneHandlePerShard`, `ExecutedOnce`, `AnsweredNotRepeated`, `AnswersAreReal` | |
| `SegmentsProofs` | `ManifestsVerify`, `CopiesConsistent` | `ManifestVerifies`, `CopyIsConsistent` | |
| | `HiddenStaysHidden`, `MatchesAnswered`, `CursorsTyped` | `NothingHiddenAnswered`, `MatchingRecordsAnswered`, `QueryTypeOK` | |
| | `ScansKeepTheirSnapshot` | `ScansAreOneSnapshot` | `Signed` |
| | `PreparedScoresAgree` | (scores of a prepared corpus) | |
| | `LexicalCacheTransparent` | `CacheIsTransparent` | `OneTextActor`, `~Signed \/ OnePageTexts` |
| `ServerJobsProofs` | `JobTypes`, `TokensNeverReused`, `AlwaysRecovers`, `CompletionsKept`, `LeasesRunTheirTime` | `TypeOK`, `TokensUnique`, `RecoverySucceeds`, `CompletionSurvives`, `UnexpiredLeaseKept` | `OneRuntime` |

The extra assumptions are the conditions under which the code keeps the promise;
section 4 says what happens without them. `TolerableFaults`: neither short writes
nor corrupted manifests. `OwnHolderIds`, `SameTtl`: sessions do not share a
holder id and ask for one lease time. `OneRuntime`: one shard key on the job
directory. `OneSchema`: one vector dimension is ever applied; `VectorColumnStays`:
no schema change adds or drops the vector column; `RepeatedKeys` is what a batch
may do. `Signed`: cursors carry their epoch; `OneTextActor`: text queries under one
predicate come from one actor; `OnePageTexts`: a text query asks for as many rows
as there are records. `RequestsAssumption` says among other things that route and body
determine whether a call writes, as they do for the server.

**Durability.** `AckedRecoverable` is not inductive: it says nothing of the
handle that is about to truncate the WAL or publish a manifest. `DurabilityInv`
adds that
- only the last frame may be torn, and only while no handle is open (`WalShape`);
- a tail cache with the file's length is the file's tail (`TailCurrent`), so the
  next frame is chained;
- the manifest on disk is readable and its checkpoint not in its future
  (`ManifestShape`);
- a manifest being written keeps the checkpoint on disk or names one that holds
  the whole live store, and a commit's frame is synced before its manifest is
  (`HandleShape`);
- acknowledged commits are in the checkpoint or the synced part of the WAL, and
  the live store is in the checkpoint or the WAL (`CommitsKept`).

**Order.** `ManifestInv`: what is about to be published is newer than what can be
read. `EpochInv`: as far as a scan may get the epochs of frames increase, each
store holds one commit per epoch, and a tail cache that still fits knows the last
one; this survives every fault, because an unreadable frame is never scanned
past.

**Refinement.** `OrderInv` says that later frames come from later attempts, that
the checkpoint is older than the frames above it, that an append under way is
newer than all of them, and that the live store is the recoverable log without
the frames of failed appends. Then every step changes the recoverable log only
at its end, which is what DurableLog allows.

**Record store.** `StoreInv` is the chain of versions of each record, in memory and
in the checkpoint, with its epochs; `SoundInv` adds the feature next to each body.
For the replay an invariant about the schema of the moment is not inductive: a
schema commit changes how all earlier commits are replayed. `ReplayInv` therefore
quantifies over all schemas: replaying the WAL on the checkpoint succeeds and its
versions of a record are an end of the live ones, from the version that held at
the checkpoint on. `ApplyCommits` and the batches in it are recursive functions;
that they exist and what they are on a longer sequence is shown by induction over
a set of numbers, as for the job runtime below.

**Remote lease.** `LoadedInv`: what a call has read of the lease object is still
true of it as long as the etag is. `FreshInv`: the clock it has read is not before
the one in that lease. `WriterInv`: a writer's lease is the object's. `FencingInv`:
the object's record is the newest of all. `PointerInv`: a swap whose etag still
fits replaces the generation its caller expects.

**Requests.** `HandleInv` (a routed handler has the handle in the map) for the
shards; `IdempotencyInv` (keys overlap only if they were raced for; what is
cached is on disk before; a success is cached before it is answered; an effect is
cached, its handler is about to cache it, or it is in `erred`) for the keys;
`RealInv` (every response in a handler, in the cache or in a receipt is that of a
commit of the request) for the answers.

**Segments and copies.** `SegmentsInv` adds to the properties the shape of the
publication under way (its segment is written and not yet named, its artifacts
were built from it) and of the copy under way (what is copied is what is there).

**Reads.** Four invariants carry them, each kept by every storage step and read:
- `HotInv`: the versions of a record begin in increasing epochs, each ends where
  the next begins, and a restart keeps those from the checkpoint on. Then what a
  scan sees at an epoch does not change (`ScanInv`).
- `SealedInv`: a sealed segment holds only rows of records that the store has
  versions of. So a sealed row whose record is not tombstoned is of a live record,
  which is what the final guard of a query relies on; a restart keeps tombstones,
  and without this invariant a compacted or restored segment could bring back a
  record the store has forgotten.
- `CacheInv`: a cached corpus was prepared from the documents that its key stands
  for now. `PreparedScoresAgree` is the algorithm behind it: postings, scan and
  direct scoring give the same BM25 sums for every corpus.
- `CorporaInv`, `EpochsOK` and `ReaderInv`: the cache is bounded, scores are numbers even from a corpus
  that is not transparent, epochs are in range, and a page that leaves a cursor has
  moved it.

The answer itself is followed through the pipeline by one lemma per stage: sorting
by a strict total order is a permutation (`ArrangedIn`, `RankSorts`; each of the
four orders is shown to be one), a filter picks positions in their order
(`PickedIn`), streams have the keys of their rows (`StreamsIn`), fusion has every
key of its streams once (`FuseIn`), a page budget of four times the window cuts no
visible record off when all are asked for, and materialization takes each row from
the live rows or from a sealed one that is not deleted (`MaterializeIn`).

**Job runtime.** Recovery replays the whole event file on a checkpoint that has
the effect of most of it, so an invariant about the one replay that would happen
now does not survive the next checkpoint. The invariants quantify over all
catalogs a replay may start from: each one can be replayed on, ends with the
token, the lease and the completion that memory has, never loses a job and never
counts fewer attempts. They are kept since the file only grows at its end.
`Replay` is a recursive function; that it exists and is unique is shown first
(`SetInduction`, `RunExists`, `RunsAgree`), and `ReplayAppend` gives its value on a
longer file. The induction is over a set of numbers, since the induction theorems
of the library take an operator as their parameter. `LeaseInv`, for the tokens, and
`HeldInv`, for the lease times, hold whatever writes fail. `HeldInv` says that while a
worker can count on a job every replay ends with a lease of it that does not expire
before, memory has one too, and the request under way does not end it earlier; with
lease times that differ this is kept only because a worker that asks for less gives
the rest up at once. `RecoveryInv` and `CompletionInv` hold until a write fails.

Only model-checked:
- `CommittedBecomesLive`: liveness, the prover has no fairness;
- `PagesAreOneSnapshot`: compares two sorted sequences element by element, the page
  of the moment and the answer at the first page. It needs the sums of reciprocal
  ranks of each record, which sealed copies change in both, to order the records
  alike; the prover does no arithmetic over sums of quotients;
- `GraphWellFormed`, `SearchFills`, `SmallSegmentsExact` of VectorIndex: what an
  insertion links and a search visits is a fold over a fold over sorted lists, and
  what these compute needs induction over sequences.

## 6. Plan

Done: Engine, DurableLog and refinement, RecordStore, JobCatalog with
ServerJobs, RemoteLease with the manifest pointer, Segments, TextCorpus, Query,
VectorIndex, Requests; proofs of all safety properties of Engine, RecordStore,
RemoteLease, Requests, Segments and ServerJobs, and of all but one of Query. Left:

1. Proofs about VectorIndex, with its folds as recursive functions.
2. Engine jobs: the JobCatalog operators with one commit of Engine each; the
   keeper.
3. Graph and temporal streams of a query, and several tenants.

## 7. Not modelled

Parsers (TraceQL, SQL-like, GraphQL, HTTP), artifact encodings and bitmaps,
encryption, module descriptors, metering, tracing, the branch catalog (a map
saved as a whole file) and the command line except its HTTP retry loop: pure
functions, cryptography or I/O without state of their own. The keeper is called
by a test only. Floating-point scores are integers of the same order: BM25
without the logarithm of its idf, cosine similarity as a rank. Several tables and
tenants, legacy invalidations without a tenant, legacy checkpoint formats and
torn lines in `events.jsonl` are abstracted away in the modules above.
