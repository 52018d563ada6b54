-------------------------------- MODULE Query --------------------------------
(***************************************************************************)
(* Reads over the live store and the sealed segments (crates/tracedb-query *)
(* with tracedb-policy, tracedb-text, tracedb-vector, tracedb-planner):    *)
(* the visibility and scalar filters, the candidate streams, their fusion, *)
(* materialization, pages and cursors, and the cache of lexical corpora,   *)
(* while commits, publications, copies and restarts go on (Segments.tla).  *)
(*                                                                         *)
(* The content of a record is what reads tell apart: its scalar value, the *)
(* terms of its text, its similarity to the query's vector and whether     *)
(* that vector is Ready, and its policy.  One table, one tenant, one text  *)
(* column.  Graph and temporal streams are left out.                       *)
(***************************************************************************)
EXTENDS Segments, TextCorpus

CONSTANTS
    Queries,        \* the reads that clients make
    Signed,         \* whether a cursor signing key is configured
    MinDocuments,   \* MIN_LEXICAL_CACHE_DOCUMENTS
    Capacity        \* DEFAULT_LEXICAL_CACHE_CAPACITY

\* A value: grp the scalar column, lex the frequency of each term, sim the
\* similarity in tenths (-1: no vector), ready the feature status (else
\* Dirty), and the policy: visibility, the users its acl allows, and
\* suppress_from_ai.  A read: kind "scan" or "query", the actor's user_id, the
\* scalar predicate (or "any"), the terms of its text ({} for none), whether it
\* has a vector and allows dirty features, and its limit or top_k.
ASSUME QueryAssumption ==
    /\ \A v \in Vals :
        /\ {"grp", "lex", "sim", "ready", "policy"} = DOMAIN v
        /\ IsFiniteSet(DOMAIN v.lex) /\ \A term \in DOMAIN v.lex : v.lex[term] \in Nat
        /\ v.sim \in -1..10
        /\ v.policy.visibility \in {"Tenant", "Public", "Acl", "Hidden"}
        /\ {v.ready, v.policy.suppress} \subseteq BOOLEAN
    /\ \A q \in Queries :
        /\ {"kind", "user", "grp", "text", "vector", "dirty", "limit"} = DOMAIN q
        /\ q.kind \in {"scan", "query"} /\ q.limit \in Nat
        /\ \A v \in Vals : q.text \subseteq DOMAIN v.lex
    /\ Signed \in BOOLEAN
    /\ MinDocuments \in Nat /\ Capacity \in Nat

VARIABLES
    cache,  \* LexicalCorpusCache, least recently used entry first
    reader  \* a client reading page after page

vars == <<storage, cache, reader>>

NoReader == [on |-> FALSE]

\* The elements of s in the order Before, equal ones in their order in s.
StableSort(s, Before(_, _)) ==
    LET at == 1..Len(s)
        earlier == {p \in at \X at : \/ Before(s[p[1]], s[p[2]])
                                     \/ ~Before(s[p[2]], s[p[1]]) /\ p[1] < p[2]}
    IN  IF Len(s) < 2 THEN s ELSE [i \in at |-> s[Arranged(at, earlier)[i]]]

Take(s, n) == SubSeq(s, 1, IF n < Len(s) THEN n ELSE Len(s))

-----------------------------------------------------------------------------
(* What a read at epoch e looks at *)

\* VisibilityOracle, within one tenant: the reasons to deny must be none.
OracleVisible(policy, user) ==
    /\ policy.visibility # "Hidden"
    /\ policy.visibility = "Acl" => user \in policy.acl
    /\ ~policy.suppress

\* stored_record_visible, segment_record_visible and the scalar filter
Passes(q, r) ==
    /\ OracleVisible(r.val.policy, q.user)
    /\ q.grp = "any" \/ r.val.grp = q.grp

\* sealed_segment_records that are not younger than the read
SealedRows(e) ==
    LET of(s) == IF s.id \in DOMAIN segs THEN segs[s.id].recs ELSE <<>>
    IN  Filter(FlattenSeq([i \in 1..Len(man.segs) |-> of(man.segs[i])]),
               LAMBDA r : r.ver <= e)

Visible(q, e) == Filter(HotRows(e), LAMBDA r : Passes(q, r))
Sealed(q, e) == Filter(SealedRows(e), LAMBDA r : Passes(q, r))

\* lexical_documents
Documents(q, e) ==
    LET rows == Visible(q, e) \o Sealed(q, e)
    IN  [i \in 1..Len(rows) |-> [key |-> rows[i].key, tf |-> rows[i].val.lex]]

\* is_tombstoned_at
TombstonedAt(k, e) ==
    LET i == Max({0} \cup {j \in 1..Len(hot[k]) : Holds(hot[k][j], e)})
    IN  i # 0 /\ hot[k][i].tomb

-----------------------------------------------------------------------------
(* Candidate streams *)

\* Scores are in units of 10^-8.
Unit == 100000000
DirtyPenalty == Unit \div 20

Candidate(key, score, penalty) ==
    [key |-> key, score |-> score, penalty |-> penalty]

KeysOf(rows) == {rows[i].key : i \in 1..Len(rows)}

\* score_order: the best first, equal ones in the order of the documents.
ByScore(scores) == StableSort(scores, LAMBDA a, b : a.score > b.score)

\* LexicalPath: the documents that score, best first, as far as their records
\* are among the rows the query may see.
TextCandidates(rows, scores) ==
    LET best == ByScore(scores)
        known == Filter(best, LAMBDA d : d.key \in KeysOf(rows))
    IN  [i \in 1..Len(known) |-> Candidate(known[i].key, known[i].score, 0)]

\* vector_score: Ready, or Dirty with a penalty if the query allows it.
Scores(q, r) == r.val.sim >= 0 /\ (r.val.ready \/ q.dirty)

\* The order of vector candidates: score, then record, then version; a live
\* record comes before a sealed copy of the same version.
VectorOrder(a, b) ==
    \/ a.score > b.score
    \/ a.score = b.score /\ a.key < b.key
    \/ a.score = b.score /\ a.key = b.key /\ a.ver < b.ver
    \/ a.score = b.score /\ a.key = b.key /\ a.ver = b.ver /\ ~a.old /\ b.old

VectorEntry(r, penalty, old) ==
    [key |-> r.key, ver |-> r.ver, penalty |-> penalty, old |-> old,
     score |-> r.val.sim * (Unit \div 10) - penalty]

\* Sealed records through the vector artifacts of their segments, whatever
\* their freshness; one candidate per version.
SealedVectorCandidates(sealed) ==
    {VectorEntry(r, 0, TRUE) : r \in {x \in ToSet(sealed) : x.val.sim >= 0}}

\* VectorPath: live records and sealed ones.
VectorEntries(q, live, sealed) ==
    LET penalty(r) == IF r.val.ready THEN 0 ELSE DirtyPenalty
        scored == {r \in ToSet(live) : Scores(q, r)}
    IN  {VectorEntry(r, penalty(r), FALSE) : r \in scored} \cup SealedVectorCandidates(sealed)

VectorCandidates(q, live, sealed) == Sorted(VectorEntries(q, live, sealed), VectorOrder)

\* PolicyPath, RelationalPath and HotOverlayPath: every visible live record.
\* Fusion uses the ranks of these streams, not their scores.
FallbackCandidates(live) ==
    [i \in 1..Len(live) |-> Candidate(live[i].key, Unit, 0)]

\* The streams with their candidates, cut to the candidate budget.
Streams(q, live, sealed, scores, budget) ==
    LET stream(name, cs) == [name |-> name, cands |-> Take(cs, budget)]
        fallback == FallbackCandidates(live)
    IN  <<stream("policy", fallback),
          stream("relational", fallback),
          stream("hot_overlay", fallback),
          stream("text", TextCandidates(live \o sealed, scores)),
          stream("vector", IF q.vector THEN VectorCandidates(q, live, sealed) ELSE <<>>)>>

-----------------------------------------------------------------------------
(* Fusion *)

\* The candidates of a stream, each with its reciprocal rank there.
RankedIn(stream) ==
    [i \in 1..Len(stream.cands) |->
        [stream |-> stream.name, cand |-> stream.cands[i], points |-> Unit \div (60 + i)]]

\* The score of the last of the entries at some positions that is of the stream
\* of that name; <<>> stands for None.
ScoreIn(entries, at, name) ==
    LET own == {i \in at : entries[i].stream = name}
    IN  IF own = {} THEN <<>> ELSE <<entries[Max(own)].cand.score>>

FinalFirst(a, b) == a.final > b.final \/ (a.final = b.final /\ a.key < b.key)

\* A record by its entries: the sum of their reciprocal ranks, less the largest
\* penalty.
Fused(key, entries) ==
    LET at == {i \in 1..Len(entries) : entries[i].cand.key = key}
    IN  [key |-> key,
         final |-> SumFunction([i \in at |-> entries[i].points])
                     - Max({entries[i].cand.penalty : i \in at}),
         lex |-> ScoreIn(entries, at, "text"),
         vec |-> ScoreIn(entries, at, "vector")]

\* The candidates of all the streams, and the records they are of.
AllRanked(streams) == FlattenSeq([s \in 1..Len(streams) |-> RankedIn(streams[s])])
FusedRecords(entries) ==
    {Fused(k, entries) : k \in {entries[i].cand.key : i \in 1..Len(entries)}}

\* fuse_rrf
FuseRrf(streams) == Sorted(FusedRecords(AllRanked(streams)), FinalFirst)

IsEvidence(stream) == stream.name \in {"text", "vector"}

\* Broken: once there is evidence, records without it are left out.
FuseEvidence(streams) ==
    LET evidence == FuseRrf(Filter(streams, IsEvidence))
    IN  IF evidence # <<>> THEN evidence ELSE FuseRrf(streams)

\* fuse_query_streams: records with evidence first, the others behind them.
Fuse(streams) ==
    LET some == Filter(streams, LAMBDA s : s.cands # <<>>)
        evidence == FuseRrf(Filter(some, IsEvidence))
        rest == FuseRrf(Filter(some, LAMBDA s : ~IsEvidence(s)))
    IN  evidence \o Filter(rest, LAMBDA c : c.key \notin KeysOf(evidence))

\* A score that is there comes before one that is not.
Better(a, b) == a # <<>> /\ (b = <<>> \/ a[1] > b[1])

VectorFirst(a, b) == Better(a.vec, b.vec) \/ (a.vec = b.vec /\ FinalFirst(a, b))

\* Two records without a lexical score are ordered by their fused score alone.
LexicalFirst(a, b) ==
    \/ Better(a.lex, b.lex)
    \/ a.lex = b.lex /\ a.lex # <<>> /\ VectorFirst(a, b)
    \/ a.lex = b.lex /\ a.lex = <<>> /\ FinalFirst(a, b)

LexicalTied(fused) ==
    Cardinality({fused[i].lex : i \in 1..Len(fused)} \ {<<>>}) <= 1

Ordered(q, fused) ==
    CASE q.text # {} /\ ~LexicalTied(fused) -> StableSort(fused, LexicalFirst)
      [] q.vector /\ (q.text = {} \/ LexicalTied(fused)) -> StableSort(fused, VectorFirst)
      [] OTHER -> fused

-----------------------------------------------------------------------------
(* Pages *)

\* The rows of the fused candidates: the live record, or else the sealed one of
\* the last segment unless the record is deleted.
Materialize(live, sealed, e, fused) ==
    LET old == Filter(sealed, LAMBDA r : ~TombstonedAt(r.key, e))
        shown == Filter(fused,
                        LAMBDA c : c.key \in KeysOf(live) \cup KeysOf(old))
        last(rows, k) == rows[Max({i \in 1..Len(rows) : rows[i].key = k})]
        row(k) == last(IF k \in KeysOf(live) THEN live ELSE old, k)
    IN  [i \in 1..Len(shown) |-> row(shown[i].key)]

\* A page of rows: limit of them from off on, and whether there are more.
Page(rows, off, limit) ==
    [rows |-> SubSeq(rows, off + 1, Len(Take(rows, off + limit))),
     more |-> Len(rows) > off + limit]

\* scan_as: a limit of 0 is read as 1.
ScanPage(e, off, limit) ==
    Page(HotRows(e), off, IF limit = 0 THEN 1 ELSE limit)

\* query_with_timing_internal: top_k = 0 answers nothing; the budget leaves
\* room for one candidate behind the page.
QueryPage(q, e, off, scores) ==
    LET live == Visible(q, e)
        sealed == Sealed(q, e)
        window == off + q.limit + 1
        fused == Ordered(q, Fuse(Streams(q, live, sealed, scores, 4 * window)))
    IN  IF q.limit = 0 THEN [rows |-> <<>>, more |-> FALSE]
        ELSE Page(Take(Materialize(live, sealed, e, fused), window), off, q.limit)

-----------------------------------------------------------------------------
(* The lexical cache *)

\* Broken: queries with different predicates share a corpus.
CacheKeyNoFilter(q) == [epoch |-> man.epoch, gen |-> man.gen, grp |-> "any"]

\* LexicalCacheKey: of the latest epoch, whatever epoch the query reads.
CacheKey(q) == [epoch |-> man.epoch, gen |-> man.gen, grp |-> q.grp]

Cached(q) == Max({0} \cup {i \in 1..Len(cache) : cache[i].key = CacheKey(q)})

\* score_prepared_lexical_corpus
LexicalScores(q, docs) ==
    IF Len(docs) >= MinDocuments /\ Cached(q) # 0
    THEN ScoreQuery(q.text, cache[Cached(q)].corpus)
    ELSE ScoreCorpus(q.text, docs)

\* The entry that q leaves in the cache: the one it found, or a new one.
EntryFor(q, docs) ==
    IF Cached(q) # 0 THEN cache[Cached(q)]
    ELSE [key |-> CacheKey(q), corpus |-> Prepared(q.text, docs)]

OtherEntries(q) == IF Cached(q) = 0 THEN cache ELSE RemoveAt(cache, Cached(q))

\* A hit moves its entry to the end, a miss adds one and evicts the first.
CacheAfter(q, docs) ==
    LET all == Append(OtherEntries(q), EntryFor(q, docs))
    IN  IF q.text = {} \/ Len(docs) < MinDocuments THEN cache
        ELSE IF Len(all) > Capacity THEN Tail(all) ELSE all

-----------------------------------------------------------------------------
(* Readers *)

PageOf(q, e, off) ==
    IF q.kind = "scan" THEN ScanPage(e, off, q.limit)
    ELSE QueryPage(q, e, off, IF q.text = {} THEN <<>>
                              ELSE LexicalScores(q, Documents(q, e)))

\* Broken: the last page comes with a cursor too.
ReadPageEndless(q, e, off, want, lost) ==
    /\ op = Idle
    /\ reader' = [on |-> TRUE, q |-> q, epoch |-> e, want |-> want,
                  off |-> off + Len(PageOf(q, e, off).rows), lost |-> lost]
    /\ cache' = IF q.kind = "scan" THEN cache ELSE CacheAfter(q, Documents(q, e))
    /\ UNCHANGED storage

\* Reads hold the engine's read lock: no operation is half way.  The reader is
\* done when there are no more rows.
ReadPage(q, e, off, want, lost) ==
    LET page == PageOf(q, e, off)
    IN  /\ op = Idle
        /\ reader' = IF ~page.more THEN NoReader
                     ELSE [on |-> TRUE, q |-> q, epoch |-> e, want |-> want,
                           off |-> off + Len(page.rows), lost |-> lost]
        /\ cache' = IF q.kind = "scan" THEN cache ELSE CacheAfter(q, Documents(q, e))
        /\ UNCHANGED storage

\* The whole answer to q now.
Answer(q) == PageOf([q EXCEPT !.limit = Cardinality(Keys)], man.epoch, 0).rows

\* A read without a cursor: the latest epoch, from the start.  want is the
\* whole answer at that moment.
StartRead(q) ==
    /\ ~reader.on
    /\ ReadPage(q, man.epoch, 0, Answer(q), FALSE)

\* Broken: a cursor carries no snapshot epoch.
CursorEpochLatest == man.epoch

\* resolve_cursor_state: a signed cursor carries its snapshot epoch, a plain
\* offset reads the latest.
CursorEpoch == IF Signed THEN reader.epoch ELSE man.epoch

NextPage ==
    /\ reader.on
    /\ ReadPage(reader.q, CursorEpoch, reader.off, reader.want, reader.lost)

\* The cursor expired, or the client loses interest.
CursorExpired ==
    /\ reader.on
    /\ reader' = NoReader
    /\ UNCHANGED <<storage, cache>>

-----------------------------------------------------------------------------
(* The system *)

QueryInit == Init /\ cache = <<>> /\ reader = NoReader

\* The checkpoint at the last restart dropped the versions a cursor reads.
ReaderAfterRestart ==
    IF ~reader.on THEN reader
    ELSE [reader EXCEPT !.lost = @ \/ man.chk > reader.epoch]

\* Commits, checkpoints and publications clear the cache; a new handle starts
\* with an empty one.  A restored directory is another database: its clients
\* start anew.
StorageStep ==
    \/ (Write \/ PublishManifest \/ \E id \in SegmentIds : PublishAgain(id))
        /\ cache' = <<>> /\ UNCHANGED reader
    \/ /\ \/ \E id \in SegmentIds : PublishSegment(id)
          \/ Compact \/ WriteIndex \/ PublishFails \/ Vacuum \/ Copying
       /\ UNCHANGED <<cache, reader>>
    \/ Restart /\ cache' = <<>> /\ reader' = ReaderAfterRestart
    \/ Restore /\ cache' = <<>> /\ reader' = NoReader

Next ==
    \/ StorageStep
    \/ \E q \in Queries : StartRead(q)
    \/ NextPage
    \/ CursorExpired

Spec == QueryInit /\ [][Next]_vars

-----------------------------------------------------------------------------
(* Properties *)

QueryReads == {q \in Queries : q.kind = "query"}

\* Cached corpora are within capacity and under different keys, whatever
\* queries hit, miss and evict (LexicalCorpusCache::get, insert, evict_lru).
CacheBounded ==
    /\ Len(cache) <= Capacity
    /\ \A i, j \in 1..Len(cache) : cache[i].key = cache[j].key => i = j

\* The cache is within its bounds, and a client that has a cursor has been given
\* a row and not yet more rows than there are records.
QueryTypeOK ==
    /\ CacheBounded
    /\ reader.on => /\ reader.q \in Queries
                    /\ reader.epoch \in Epoch
                    /\ reader.off \in 1..Cardinality(Keys)
                    /\ reader.lost \in BOOLEAN

\* Reads, and a copy under way, leave the storage alone: the states without
\* them stand for all.
Quiet == op = Idle /\ copy.step \in {"none", "done"} /\ ~reader.on /\ cache = <<>>

\* Hybrid queries over live and sealed records, through filters, streams,
\* fusion and the final visibility guard: every live record whose current
\* version matches is answered with that version, and no record twice, before
\* and after checkpoints, restarts, compactions and restores.
MatchingRecordsAnswered ==
    Quiet =>
        \A q \in QueryReads :
          LET rows == Answer(q)
          IN /\ \A i, j \in 1..Len(rows) : rows[i].key = rows[j].key => i = j
             /\ ToSet(Visible(q, man.epoch)) \subseteq ToSet(rows)

\* No query answers a version that its policy hides from the actor, nor a
\* record that is deleted, whatever sealed segments still hold of it, through
\* checkpoints, restarts, compactions, vacuums and restores.
NothingHiddenAnswered ==
    Quiet =>
        \A q \in QueryReads :
          LET rows == Answer(q)
          IN  \A i \in 1..Len(rows) : /\ Passes(q, rows[i])
                                      /\ Live(rows[i].key, man.epoch)

\* Scans follow one snapshot: the rows that a signed cursor of a scan goes
\* through are those that were there when its first page was read, and some of
\* them are left, although commits, publications, compactions and restarts
\* happen between the pages.  (A checkpoint and a restart drop the versions of
\* older epochs: reader.lost.)
ScansAreOneSnapshot ==
    (reader.on /\ reader.q.kind = "scan" /\ ~reader.lost) =>
        HotRows(CursorEpoch) = reader.want /\ reader.off < Len(reader.want)

\* Pages follow one snapshot: what a query without text and vector returns page
\* by page under a signed cursor is the answer as it was when the first page was
\* read, without gaps or repetitions, as for scans.
PagesAreOneSnapshot ==
    (op = Idle /\ reader.on /\ reader.q.kind = "query") =>
        \/ reader.lost
        \/ reader.q.text # {} \/ reader.q.vector
        \/ PageOf(reader.q, CursorEpoch, reader.off)
              = Page(reader.want, reader.off, reader.q.limit)

\* The lexical cache is transparent: a text query scored from a cached corpus
\* that an earlier query prepared, through its postings or by scanning it, gets
\* the scores that its documents give when they are scored anew.  (Cursors may
\* expire at any time: the states without one stand for all.)
CacheIsTransparent ==
    (op = Idle /\ ~reader.on) =>
        \A q \in {r \in QueryReads : r.text # {} /\ Cached(r) # 0} :
            LET docs == Documents(q, man.epoch)
            IN  LexicalScores(q, docs) = ScoreCorpus(q.text, docs)

=============================================================================
