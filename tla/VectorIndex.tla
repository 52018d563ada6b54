----------------------------- MODULE VectorIndex -----------------------------
(***************************************************************************)
(* The vector index of one field of a sealed segment (tracedb-index): the  *)
(* layered proximity graph, built entry by entry in record order, and the  *)
(* filtered searches over it.  Every state is the artifact of the records  *)
(* inserted so far, since an insertion looks only at what is linked.       *)
(*                                                                         *)
(* Vectors are directions on an arc, so that cosine similarity falls with  *)
(* their distance; a zero vector has no similarity to anything.  The level *)
(* of an entry, a hash of its key in the code, is any level.               *)
(***************************************************************************)
EXTENDS Integers, Sequences, SequencesExt, FiniteSets, FiniteSetsExt

CONSTANTS
    MaxEntries,     \* bound on the records of the segment
    Directions,     \* number of directions of a vector
    MaxLevel,       \* MAX_DETERMINISTIC_HNSW_LEVEL
    M,              \* DEFAULT_HNSW_M
    EfConstruction, \* DEFAULT_HNSW_EF_CONSTRUCTION
    EfSearch,       \* DEFAULT_HNSW_EF_SEARCH
    MaxLimit        \* bound on the limit of a search

ASSUME VectorIndexAssumption ==
    /\ {MaxEntries, MaxLevel, M, MaxLimit} \subseteq Nat
    /\ {Directions, EfConstruction, EfSearch} \subseteq Nat \ {0}

VARIABLES
    entries,    \* the vector of each entry, in record order
    graph       \* HnswFieldGraph: entry_point (0: none), max_level, and the
                \* neighbors of each entry on each level

vars == <<entries, graph>>

Zero == Directions
Vector == 0..Directions
Level == 0..MaxLevel
Key == 1..Len(entries)

AtLeast(a, b) == IF a > b THEN a ELSE b
AtMost(a, b) == IF a < b THEN a ELSE b
Truncate(s, n) == SubSeq(s, 1, AtMost(n, Len(s)))

-----------------------------------------------------------------------------
(* Similarity and order *)

HasScore(q, v) == q # Zero /\ v # Zero

\* cosine_similarity, as a rank; -1 stands for f32::NEG_INFINITY.
Similarity(q, v) ==
    IF HasScore(q, v) THEN Directions - (IF q > v THEN q - v ELSE v - q) ELSE -1

\* vector_key_order and vector_score_order
Nearer(es, q, a, b) ==
    LET sa == Similarity(q, es[a])
        sb == Similarity(q, es[b])
    IN  sa > sb \/ (sa = sb /\ a < b)

Ranked(es, q, keys) ==
    SortSeq(FoldSet(LAMBDA k, s : Append(s, k), <<>>, keys),
            LAMBDA a, b : Nearer(es, q, a, b))

\* best_entry_key and hnsw_best_key
Best(es, q, keys) == CHOOSE k \in keys : \A o \in keys \ {k} : Nearer(es, q, k, o)

-----------------------------------------------------------------------------
(* The graph *)

\* The neighbors of key on a level, nothing if it is not there.
Links(g, level, key) ==
    IF level \in DOMAIN g.levels /\ key \in DOMAIN g.levels[level]
    THEN g.levels[level][key] ELSE <<>>

\* graph.levels.entry(level).or_default().entry(key) set to a list.
SetLinks(g, level, key, list) ==
    LET at == IF level \in DOMAIN g.levels THEN g.levels[level] ELSE <<>>
        on == [k \in DOMAIN at \cup {key} |-> IF k = key THEN list ELSE at[k]]
    IN  [g EXCEPT !.levels = [l \in DOMAIN @ \cup {level} |->
                                IF l = level THEN on ELSE g.levels[l]]]

\* entry(key).or_default()
Present(g, level, key) == SetLinks(g, level, key, Links(g, level, key))

\* hnsw_search_layer: visits the nearest key of the frontier, at most ef times.
\* No visited key returns to the frontier, so each round visits one.
VisitedFrom(g, es, q, starts, level, ef) ==
    LET step(s, i) ==
            IF s.frontier = {} THEN s ELSE
            LET k == Best(es, q, s.frontier)
                seen == s.visited \cup {k}
            IN  [visited |-> seen,
                 frontier |-> (s.frontier \cup ToSet(Links(g, level, k))) \ seen]
    IN  FoldLeft(step, [visited |-> {}, frontier |-> starts],
                 [i \in 1..AtLeast(ef, 1) |-> i]).visited

SearchLayer(g, es, q, starts, level, ef) ==
    Ranked(es, q, VisitedFrom(g, es, q, starts, level, ef))

\* Broken: the bottom level has no more links than the others.
MForLevelFlat(level) == AtLeast(M, 1)

\* m_for_level
MForLevel(level) == AtLeast(IF level = 0 THEN 2 * M ELSE M, 1)

\* Broken: the neighbor's list is not pruned.
LinkUnpruned(g, es, level, a, b) ==
    LET add(h, k, n) == IF n \in ToSet(Links(h, level, k)) THEN h
                        ELSE SetLinks(h, level, k, Append(Links(h, level, k), n))
        prune(h, k) == SetLinks(h, level, k,
                         Truncate(Ranked(es, es[k], ToSet(Links(h, level, k))),
                                  MForLevel(level)))
    IN  prune(add(add(g, a, b), b, a), a)

\* link_hnsw_neighbors: links both ways and keeps the nearest of each list.
Link(g, es, level, a, b) ==
    LET add(h, k, n) == IF n \in ToSet(Links(h, level, k)) THEN h
                        ELSE SetLinks(h, level, k, Append(Links(h, level, k), n))
        prune(h, k) == SetLinks(h, level, k,
                         Truncate(Ranked(es, es[k], ToSet(Links(h, level, k))),
                                  MForLevel(level)))
    IN  prune(prune(add(add(g, a, b), b, a), a), b)

\* The levels from hi down to lo
Down(hi, lo) == [i \in 1..(hi - lo + 1) |-> hi + 1 - i]

\* One level of an insertion: search from s.at, link to the nearest found, and
\* go on from the nearest neighbor that is left.
LinkLevel(es, key, s, level) ==
    LET found == SearchLayer(s.g, es, es[key], {s.at}, level, EfConstruction)
        selected == Truncate(SelectSeq(found, LAMBDA k : k # key), MForLevel(level))
        g == FoldLeft(LAMBDA h, n : Link(h, es, level, key, n),
                      Present(s.g, level, key), selected)
        near == ToSet(Links(g, level, key))
    IN  [g |-> g, at |-> IF near = {} THEN s.at ELSE Best(es, es[key], near)]

\* The descent above the levels of interest: one visit per level, which is
\* that of the entry point.
Descend(g, es, q, from, levels) ==
    FoldLeft(LAMBDA at, level : Head(SearchLayer(g, es, q, {at}, level, 1)),
             from, levels)

\* A new entry that reaches above all others becomes the entry point.
Raised(g, key, level) ==
    IF level <= g.top THEN g
    ELSE [FoldLeft(LAMBDA h, l : Present(h, l, key), g, Down(level, g.top + 1))
            EXCEPT !.entry = key, !.top = level]

\* The body of build_hnsw_graphs's loop for the entry key.
Inserted(g, es, key, level) ==
    IF g.entry = 0
    THEN [FoldLeft(LAMBDA h, l : Present(h, l, key), g, Down(level, 0))
            EXCEPT !.entry = key, !.top = level]
    ELSE LET at == Descend(g, es, es[key], g.entry, Down(g.top, level + 1))
             linked == FoldLeft(LAMBDA s, l : LinkLevel(es, key, s, l),
                                [g |-> g, at |-> at],
                                Down(AtMost(g.top, level), 0))
         IN  Raised(linked.g, key, level)

Init ==
    /\ entries = <<>>
    /\ graph = [entry |-> 0, top |-> 0, levels |-> <<>>]

\* The next record of the segment, in record order, with its vector.
Insert(v, level) ==
    /\ Len(entries) < MaxEntries
    /\ entries' = Append(entries, v)
    /\ graph' = Inserted(graph, entries', Len(entries'), level)

Next == \E v \in Vector, level \in Level : Insert(v, level)

Spec == Init /\ [][Next]_vars

-----------------------------------------------------------------------------
(* Searches *)

\* vector_scores_for_keys: the keys that have a score and are allowed.
Scored(q, keys, allowed) == {k \in keys \cap allowed : HasScore(q, entries[k])}

\* exact_vector_search
Exact(q, limit, allowed) ==
    Truncate(Ranked(entries, q, Scored(q, Key, allowed)), limit)

\* The beam of the bottom level.  (The code's third term, the number of allowed
\* keys, is itself limited to EfSearch.)
EfFor(limit) == AtLeast(1, AtMost(Len(entries), AtLeast(EfSearch, 4 * limit)))

\* The walk of search_hnsw: down to the bottom level, which is searched from
\* there and from the first key.  What is visited on the way down is counted.
Walk(q, limit) ==
    LET at == Descend(graph, entries, q, graph.entry, Down(graph.top, 1))
        bottom == VisitedFrom(graph, entries, q, {at, 1}, 0, EfFor(limit))
    IN  [bottom |-> bottom,
         visited |-> bottom \cup (IF graph.top > 0 THEN {at} ELSE {})]

\* Broken: too few scores are returned as they are.
SearchHnswNoFallback(w, q, limit, allowed) ==
    Truncate(Ranked(entries, q, Scored(q, w.bottom, allowed)), limit)

\* The scores of search_hnsw after the walk w: too few of them, while something
\* is unvisited, call for an exact search.
SearchHnsw(w, q, limit, allowed) ==
    LET found == Truncate(Ranked(entries, q, Scored(q, w.bottom, allowed)), limit)
        fallback == /\ Len(found) < limit
                    /\ Cardinality(allowed) > Len(found)
                    /\ Cardinality(w.visited) < Len(entries)
    IN  IF fallback THEN Exact(q, limit, allowed) ELSE found

\* search_legacy_greedy over the neighbors of the bottom level
SearchLegacyGreedy(q, limit, allowed) ==
    LET target == AtLeast(1, AtMost(Len(entries), AtLeast(EfSearch, limit)))
        visited == VisitedFrom(graph, entries, q, {1}, 0, target)
        scores == Scored(q, visited, allowed)
        fallback == Cardinality(visited) < Len(entries) \/ Cardinality(scores) < limit
    IN  IF fallback THEN Exact(q, limit, allowed)
        ELSE Truncate(Ranked(entries, q, scores), limit)

-----------------------------------------------------------------------------
(* Properties *)

OnLevel(level) ==
    IF level \in DOMAIN graph.levels THEN DOMAIN graph.levels[level] ELSE {}

\* The graph has the shape its searches rely on: the levels are nested, so that
\* a descent always finds its entry point one level down; the entry point is on
\* the top level; links stay on their level, are not loops or repeated, and are
\* no more than the level allows, in spite of links added from both ends.
GraphWellFormed ==
    entries # <<>> =>
      /\ OnLevel(0) = Key
      /\ graph.entry \in OnLevel(graph.top)
      /\ \A l \in Level : (OnLevel(l) # {}) <=> (l <= graph.top)
      /\ \A l \in 1..MaxLevel : OnLevel(l) \subseteq OnLevel(l - 1)
      /\ \A l \in Level : \A k \in OnLevel(l) :
           LET links == graph.levels[l][k]
           IN  /\ ToSet(links) \subseteq OnLevel(l) \ {k}
               /\ Cardinality(ToSet(links)) = Len(links)
               /\ Len(links) <= MForLevel(l)

\* A filtered search returns as many records as there are up to its limit, also
\* when the walk runs past the few that the filter allows or never reaches them
\* because pruning cut them off.  (Exception: the walk missed only the entry
\* point, which counts as visited from the level above.)
SearchFills ==
    \A q \in Vector, limit \in 1..MaxLimit :
      entries # <<>> =>
        LET w == Walk(q, limit)
        IN  \A allowed \in SUBSET Key :
              \/ Len(SearchHnsw(w, q, limit, allowed))
                   = AtMost(limit, Cardinality(Scored(q, Key, allowed)))
              \/ w.visited = Key /\ Key \ w.bottom = {graph.entry}

\* While no list of the bottom level had to be pruned, a segment is searched
\* exactly, by the graph search and by the older greedy one.
SmallSegmentsExact ==
    (entries # <<>> /\ Len(entries) <= AtMost(2 * M + 1, EfSearch)) =>
      \A q \in Vector, limit \in 1..MaxLimit :
        LET w == Walk(q, limit)
        IN  \A allowed \in SUBSET Key :
              /\ SearchHnsw(w, q, limit, allowed) = Exact(q, limit, allowed)
              /\ SearchLegacyGreedy(q, limit, allowed) = Exact(q, limit, allowed)
=============================================================================
