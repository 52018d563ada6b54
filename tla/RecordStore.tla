----------------------------- MODULE RecordStore -----------------------------
(***************************************************************************)
(* The multi-version record store (crates/tracedb-store) as the engine     *)
(* drives it (crates/tracedb-query): what each write plans and applies in  *)
(* memory, what it puts in its commit record, and what a checkpoint and a  *)
(* replay of those commit records rebuild.                                 *)
(*                                                                         *)
(* One table and one tenant.  A record has one text field, body, and one   *)
(* vector field, embedding, whose source column is body.  Only the         *)
(* dimension of a vector is kept; a table schema is the dimension of its   *)
(* vector column.  Every write here reached the WAL: what happens when one *)
(* does not is the subject of Engine.tla.                                  *)
(***************************************************************************)
EXTENDS Integers, Sequences, SequencesExt

CONSTANTS
    Keys,           \* record ids
    Bodies,         \* values of the text field
    Dims,           \* dimensions of the vectors that clients send
    Schemas,        \* the vector dimensions of the schemas applied (0: no
                    \* vector column)
    Statuses,       \* the statuses an operator may set
    RepeatedKeys,   \* whether a batch may name a record twice
    MaxEpoch        \* bound on the number of commits

ASSUME StoreAssumption ==
    /\ Dims \subseteq Nat \ {0}
    /\ Schemas \subseteq Dims \cup {0}
    /\ Statuses \subseteq {"Ready", "Dirty", "Pending", "Failed", "Missing"}
    /\ RepeatedKeys \in BOOLEAN
    /\ MaxEpoch \in Nat
    /\ Bodies \cap {"absent", "zero"} = {}

Epoch == 0..MaxEpoch

\* A field that a write does not carry is "absent" (body) or 0 (embedding).
Body == Bodies \cup {"absent"}
Input == [key : Keys, body : Body, emb : Dims \cup {0}]

\* DerivedFeatureState.  The hash of a body is that body; "zero" is the hash
\* of a feature that was never computed.
NoFeature == [status |-> "none", hash |-> "zero", epoch |-> 0]
Feature(status, hash, e) == [status |-> status, hash |-> hash, epoch |-> e]

\* NoTable: no schema has been applied yet.
NoTable == -1

NoRecords == [k \in Keys |-> <<>>]

VARIABLES
    epoch,      \* manifest.latest_epoch
    schema,     \* manifest.schemas: the vector dimension, or NoTable
    records,    \* RecordStore.versions: the versions of each record
    base,       \* the checkpoint on disk
    log,        \* the commits in the WAL
    open        \* FALSE when recovery stopped with an error

vars == <<epoch, schema, records, base, log, open>>

-----------------------------------------------------------------------------
(* Versions of one record *)

\* The last version without an end epoch, tombstone or not (0: none).
Newest(vs) == SelectLastInSeq(vs, LAMBDA v : v.end = 0)

\* The last version without an end epoch that is not a tombstone (0: none).
Current(vs) == SelectLastInSeq(vs, LAMBDA v : v.end = 0 /\ ~v.tomb)

Holds(v, e) == v.begin <= e /\ (v.end = 0 \/ v.end > e)

\* visible_record_at: what a read at epoch e sees (<<>>: nothing).
VisibleAt(vs, e) ==
    LET i == SelectLastInSeq(vs, LAMBDA v : Holds(v, e) /\ ~v.tomb)
    IN  IF i = 0 THEN <<>> ELSE <<vs[i]>>

\* Broken: the version ends one epoch late.
CloseLate(vs, i, e) == IF i = 0 THEN vs ELSE [vs EXCEPT ![i].end = e + 1]

Close(vs, i, e) == IF i = 0 THEN vs ELSE [vs EXCEPT ![i].end = e]

\* validate_vector_dimensions
DimensionsOK(d, in) == d = 0 \/ in.emb = 0 \/ in.emb = d

\* Broken: a new body marks the feature dirty but keeps its old hash.
BuildFeatureStaleHash(d, in, body, emb, prev, e) ==
    CASE d = 0 -> prev
      [] d # 0 /\ in.emb # 0 -> [status |-> "Ready", hash |-> body, epoch |-> e]
      [] OTHER -> [prev EXCEPT !.status = "Dirty", !.epoch = e]

\* build_features: prev is the feature carried over from the version before;
\* body and emb are the merged fields.
BuildFeature(d, in, body, emb, prev, e) ==
    CASE d = 0              -> prev
      [] d # 0 /\ in.emb # 0 -> Feature("Ready", body, e)
      [] d # 0 /\ in.emb = 0 /\ in.body # "absent" -> Feature("Dirty", body, e)
      [] OTHER -> IF prev # NoFeature THEN prev
                  ELSE IF emb # 0 THEN Feature("Ready", body, e)
                  ELSE Feature("Missing", "zero", e)

Version(body, emb, feat, e) ==
    [begin |-> e, end |-> 0, tomb |-> FALSE, body |-> body, emb |-> emb,
     feat |-> feat]

\* Broken: only a version that is not a tombstone is ended.
ReplaceCurrentOnly(d, vs, in, e) ==
    Append(Close(vs, Current(vs), e),
           Version(in.body, in.emb,
                   BuildFeature(d, in, in.body, in.emb, NoFeature, e), e))

\* Broken: the new version takes the place of all the old ones.
ReplaceInPlace(d, vs, in, e) ==
    <<Version(in.body, in.emb,
              BuildFeature(d, in, in.body, in.emb, NoFeature, e), e)>>

\* plan_replacement and apply_replacement: the new version has the fields of
\* the input and nothing else.
Replace(d, vs, in, e) ==
    Append(Close(vs, Newest(vs), e),
           Version(in.body, in.emb,
                   BuildFeature(d, in, in.body, in.emb, NoFeature, e), e))

\* Broken: merges into the newest version even if it is a tombstone.
MutateTombstone(d, vs, in, e) ==
    LET i == Newest(vs)
        body == IF in.body = "absent" /\ i # 0 THEN vs[i].body ELSE in.body
        emb == IF in.emb = 0 /\ i # 0 THEN vs[i].emb ELSE in.emb
        prev == IF i = 0 THEN NoFeature ELSE vs[i].feat
    IN  Append(Close(vs, i, e),
               Version(body, emb, BuildFeature(d, in, body, emb, prev, e), e))

\* plan_mutation and apply_mutation: the fields of the input over those of the
\* current version.
Mutate(d, vs, in, e) ==
    LET i == Current(vs)
        body == IF in.body = "absent" /\ i # 0 THEN vs[i].body ELSE in.body
        emb == IF in.emb = 0 /\ i # 0 THEN vs[i].emb ELSE in.emb
        prev == IF i = 0 THEN NoFeature ELSE vs[i].feat
    IN  Append(Close(vs, Newest(vs), e),
               Version(body, emb, BuildFeature(d, in, body, emb, prev, e), e))

\* plan_delete and apply_delete: a tombstone that keeps the fields.
Delete(vs, e) ==
    LET i == Current(vs)
    IN  Append(Close(vs, i, e),
               [vs[i] EXCEPT !.begin = e, !.end = 0, !.tomb = TRUE])

\* plan_feature_invalidation and apply_feature_invalidation: in place.
SetStatus(vs, status, e) ==
    LET i == Current(vs)
    IN  [vs EXCEPT ![i].feat.status = status, ![i].feat.epoch = e]

HasFeature(vs) == Current(vs) # 0 /\ vs[Current(vs)].feat # NoFeature

-----------------------------------------------------------------------------
(* Commit records and their replay *)

\* feature_invalidations_for_mutation
Invalidations(d, in) ==
    IF d # 0 /\ in.emb = 0 /\ in.body # "absent"
    THEN <<[key |-> in.key, status |-> "Dirty"]>> ELSE <<>>

EmptyCommit(e) ==
    [epoch |-> e, schemas |-> <<>>, replacements |-> <<>>, mutations |-> <<>>,
     deletions |-> <<>>, invalidations |-> <<>>]

\* The outcome of applying commits: the records, or an error.
Applied(rs) == [ok |-> TRUE, records |-> rs]
Failed == [ok |-> FALSE, records |-> NoRecords]

ApplyReplacement(d, e, r, in) ==
    IF r.ok /\ DimensionsOK(d, in)
    THEN Applied([r.records EXCEPT ![in.key] = Replace(d, @, in, e)])
    ELSE Failed

ApplyMutation(d, e, r, in) ==
    IF r.ok /\ DimensionsOK(d, in)
    THEN Applied([r.records EXCEPT ![in.key] = Mutate(d, @, in, e)])
    ELSE Failed

ApplyDeletion(e, r, k) ==
    IF r.ok /\ Current(r.records[k]) # 0
    THEN Applied([r.records EXCEPT ![k] = Delete(@, e)])
    ELSE Failed

ApplyInvalidation(e, r, inv) ==
    IF r.ok /\ HasFeature(r.records[inv.key])
    THEN Applied([r.records EXCEPT ![inv.key] = SetStatus(@, inv.status, e)])
    ELSE Failed

\* One entry of one of the lists of a commit.
ApplyEntry(list, d, e, r, x) ==
    CASE list = "replacements"  -> ApplyReplacement(d, e, r, x)
      [] list = "mutations"     -> ApplyMutation(d, e, r, x)
      [] list = "deletions"     -> ApplyDeletion(e, r, x)
      [] list = "invalidations" -> ApplyInvalidation(e, r, x)

\* The entries of one of the lists of a commit, one after the other.
ApplyList(list, d, r, c) ==
    LET after[n \in 0..Len(c[list])] ==
            IF n = 0 THEN r
            ELSE ApplyEntry(list, d, c.epoch, after[n - 1], c[list][n])
    IN  after[Len(c[list])]

\* Broken: a replay that trusts the writes to have marked their features.
ApplyCommitNoInvalidations(d, r, c) ==
    LET replaced == ApplyList("replacements", d, r, c)
        mutated == ApplyList("mutations", d, replaced, c)
    IN  ApplyList("deletions", d, mutated, c)

ApplyCommit(d, r, c) ==
    LET replaced == ApplyList("replacements", d, r, c)
        mutated == ApplyList("mutations", d, replaced, c)
        deleted == ApplyList("deletions", d, mutated, c)
    IN  ApplyList("invalidations", d, deleted, c)

\* apply_commits: every commit in turn, all under one schema.
ApplyCommits(d, r, commits) ==
    LET after[n \in 0..Len(commits)] ==
            IF n = 0 THEN r ELSE ApplyCommit(d, after[n - 1], commits[n])
    IN  after[Len(commits)]

\* The schema open ends up with: the last change in the WAL, or the manifest's.
ReplayedSchema ==
    LET i == SelectLastInSeq(log, LAMBDA c : c.schemas # <<>>)
    IN  IF i = 0 THEN schema ELSE Last(log[i].schemas)

\* What open rebuilds: the checkpoint, then every commit above it, all of them
\* under the schema it ended up with.
Replayed == ApplyCommits(ReplayedSchema, Applied(base.records), log)

-----------------------------------------------------------------------------
(* Writes *)

Init ==
    /\ epoch = 0
    /\ schema = NoTable
    /\ records = NoRecords
    /\ base = [epoch |-> 0, records |-> NoRecords]
    /\ log = <<>>
    /\ open = TRUE

\* What all writes share: the table exists, the commit goes to the WAL and the
\* planned versions into the store.
Commit(c, rs) ==
    /\ open
    /\ epoch < MaxEpoch
    /\ log' = Append(log, c)
    /\ records' = rs
    /\ epoch' = epoch + 1
    /\ UNCHANGED <<base, open>>

\* validate_schema_compatible looks only at rows that are visible now, and at
\* a vector column only if both schemas have it.
SchemaCompatible(d) ==
    \/ schema = NoTable
    \/ \A k \in Keys : VisibleAt(records[k], epoch) = <<>>
    \/ schema = 0 \/ d = 0 \/ schema = d

ApplySchema(d) ==
    /\ SchemaCompatible(d)
    /\ schema' = d
    /\ Commit([EmptyCommit(epoch + 1) EXCEPT !.schemas = <<d>>], records)

Put(in) ==
    /\ schema # NoTable
    /\ DimensionsOK(schema, in)
    /\ Commit([EmptyCommit(epoch + 1) EXCEPT
                 !.replacements = <<in>>,
                 !.invalidations = Invalidations(schema, in)],
              [records EXCEPT ![in.key] = Replace(schema, @, in, epoch + 1)])
    /\ UNCHANGED schema

\* put_batch plans each record on top of the plan of the ones before it; one
\* record that does not fit the schema fails the whole batch.
PutBatch(first, second) ==
    /\ schema # NoTable
    /\ first.key # second.key \/ RepeatedKeys
    /\ DimensionsOK(schema, first) /\ DimensionsOK(schema, second)
    /\ Commit([EmptyCommit(epoch + 1) EXCEPT
                 !.replacements = <<first, second>>,
                 !.invalidations = Invalidations(schema, first)
                                       \o Invalidations(schema, second)],
              LET planned == [records EXCEPT
                    ![first.key] = Replace(schema, @, first, epoch + 1)]
              IN  [planned EXCEPT
                     ![second.key] = Replace(schema, @, second, epoch + 1)])
    /\ UNCHANGED schema

CommitMutation(in) ==
    /\ schema # NoTable
    /\ DimensionsOK(schema, in)
    /\ Commit([EmptyCommit(epoch + 1) EXCEPT
                 !.mutations = <<in>>,
                 !.invalidations = Invalidations(schema, in)],
              [records EXCEPT ![in.key] = Mutate(schema, @, in, epoch + 1)])
    /\ UNCHANGED schema

\* insert and patch plan the same mutation: an insert of a record that exists
\* merges into it, a patch of one that does not creates it.
Insert(in) == CommitMutation(in)
Patch(in) == CommitMutation(in)

DeleteRecord(k) ==
    /\ schema # NoTable
    /\ Current(records[k]) # 0
    /\ Commit([EmptyCommit(epoch + 1) EXCEPT !.deletions = <<k>>],
              [records EXCEPT ![k] = Delete(@, epoch + 1)])
    /\ UNCHANGED schema

SetFeatureStatus(k, status) ==
    /\ schema \notin {NoTable, 0}
    /\ HasFeature(records[k])
    /\ Commit([EmptyCommit(epoch + 1) EXCEPT
                 !.invalidations = <<[key |-> k, status |-> status]>>],
              [records EXCEPT ![k] = SetStatus(@, status, epoch + 1)])
    /\ UNCHANGED schema

-----------------------------------------------------------------------------
(* Checkpoint and restart *)

\* checkpoint_records: the last version that holds now, tombstones included.
CheckpointRecords(rs, e) ==
    [k \in Keys |->
        LET i == SelectLastInSeq(rs[k], LAMBDA v : Holds(v, e))
        IN  IF i = 0 THEN <<>> ELSE <<rs[k][i]>>]

Checkpoint ==
    /\ open
    /\ base' = [epoch |-> epoch, records |-> CheckpointRecords(records, epoch)]
    /\ log' = <<>>
    /\ UNCHANGED <<epoch, schema, records, open>>

\* The process ends and the directory is opened again.
Restart ==
    /\ open
    /\ LET replay == Replayed IN open' = replay.ok /\ records' = replay.records
    /\ schema' = ReplayedSchema
    /\ UNCHANGED <<epoch, base, log>>

Next ==
    \/ \E d \in Schemas : ApplySchema(d)
    \/ \E in \in Input : Put(in) \/ Insert(in) \/ Patch(in)
    \/ \E first, second \in Input : PutBatch(first, second)
    \/ \E k \in Keys : DeleteRecord(k)
    \/ \E k \in Keys, s \in Statuses : SetFeatureStatus(k, s)
    \/ Checkpoint
    \/ Restart

Spec == Init /\ [][Next]_vars

-----------------------------------------------------------------------------
(* Properties *)

FeatureState ==
    [status : {"none", "Ready", "Dirty", "Pending", "Failed", "Missing"},
     hash : Body \cup {"zero"}, epoch : Epoch]

StoredVersion ==
    [begin : 1..MaxEpoch, end : Epoch, tomb : BOOLEAN, body : Body,
     emb : Dims \cup {0}, feat : FeatureState]

\* Every variable has its type, and no version or commit is dated after the
\* latest epoch.
TypeOK ==
    /\ epoch \in Epoch
    /\ schema \in Schemas \cup {NoTable}
    /\ open \in BOOLEAN
    /\ base.epoch \in 0..epoch
    /\ \A i \in 1..Len(log) : log[i].epoch = epoch - Len(log) + i
    /\ \A k \in Keys : \A i \in 1..Len(records[k]) :
        /\ records[k][i] \in StoredVersion
        /\ records[k][i].begin <= epoch /\ records[k][i].end <= epoch

\* Recovery is faithful: replaying the commits on top of the checkpoint never
\* fails, and at every epoch from the checkpoint on it shows each record as the
\* live store shows it: fields, feature status, source hash and epochs.  The
\* live store got there by plans that never look at the feature invalidations
\* in the commit; the replay applies them after everything else.
ReplayMatchesLive ==
    LET replay == Replayed
    IN  /\ replay.ok
        /\ \A k \in Keys, e \in base.epoch..epoch :
            VisibleAt(replay.records[k], e) = VisibleAt(records[k], e)

\* The versions of a record are one unbroken chain: each one ends in the epoch
\* in which the next begins, and only the last one is open.  A read at any
\* epoch then finds one version at most, through deletes, re-creations,
\* checkpoints and replays.
VersionChain ==
    \A k \in Keys : \A i \in 1..Len(records[k]) :
        LET vs == records[k]
        IN  vs[i].end = IF i = Len(vs) THEN 0 ELSE vs[i+1].begin

\* The source hash of a derived feature is the hash of the body it sits next
\* to, whatever merges, deletes and status changes it went through; only a
\* feature of a record without a body was never computed.
SourceHashCurrent ==
    \A k \in Keys : \A i \in 1..Len(records[k]) :
        LET v == records[k][i]
        IN  v.feat # NoFeature =>
                v.feat.hash = v.body \/ (v.feat.hash = "zero" /\ v.body = "absent")

\* The commits that writes acknowledged can be replayed: open succeeds.
ReplaySucceeds == Replayed.ok

Fields(seen) == [i \in DOMAIN seen |-> <<seen[i].body, seen[i].emb>>]

\* A read at an epoch that is over always returns the same fields: no write,
\* checkpoint or restart changes the past back to the last checkpoint.
SnapshotStable ==
    [][\A k \in Keys, e \in base'.epoch..epoch :
          open' => Fields(VisibleAt(records'[k], e))
                     = Fields(VisibleAt(records[k], e))]_vars

\* A record that is created again after a delete starts from the fields of that
\* write alone: nothing of the deleted record comes back.
NothingResurrected ==
    [][\A k \in Keys :
          Current(records[k]) = 0 /\ Current(records'[k]) # 0 =>
              LET c == Last(log')
                  v == records'[k][Current(records'[k])]
              IN  \E in \in ToSet(c.replacements \o c.mutations) :
                      in.key = k /\ v.body = in.body /\ v.emb = in.emb]_vars
=============================================================================
