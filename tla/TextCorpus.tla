----------------------------- MODULE TextCorpus -----------------------------
(***************************************************************************)
(* Lexical scoring (crates/tracedb-text).  A document is the key of its    *)
(* record and the frequency of each term in its tokens; a query is a set   *)
(* of terms.  A prepared corpus keeps its documents, and the postings of   *)
(* the rare terms of the query it was made for.  Later queries are scored  *)
(* from postings if all their terms have some, else from the documents.    *)
(***************************************************************************)
EXTENDS Selection, SequencesExt, FiniteSetsExt

\* The tokens of a document, and of all of them.
DocLen(tf) == SumFunction(tf)
TotalLen(docs) == SumFunction([i \in 1..Len(docs) |-> DocLen(docs[i].tf)])

\* The documents that have the term.
Having(docs, t) == {i \in 1..Len(docs) : docs[i].tf[t] # 0}

\* What is counted of a document: the terms of the query.
Counted(terms, doc) == [t \in terms |-> doc.tf[t]]

\* The inverse document frequency in thousandths, without its logarithm: the
\* order of two terms, not their ratio.
Idf(count, df) == (1000 * (2 * count + 2)) \div (2 * df + 1)

\* bm25_from_term_frequency with k1 = 1.5 and b = 0.75; tf and df of the
\* query's terms, the average length as total and count.
Bm25(terms, tf, len, total, count, df) ==
    LET avg == IF total < count THEN count ELSE total
        of(t) == (Idf(count, df[t]) * tf[t] * 2500 * avg)
                   \div (1000 * tf[t] * avg + 375 * avg + 1125 * len * count)
    IN  SumFunction([t \in {x \in terms : tf[x] > 0} |-> of(t)])

\* The scores above 0, in the order of the documents.
Report(docs, score(_)) ==
    Filter([i \in 1..Len(docs) |-> [key |-> docs[i].key, score |-> score(i)]],
           LAMBDA r : r.score > 0)

\* score_corpus_with_stats
ScoreCorpus(terms, docs) ==
    LET df == [t \in terms |-> Cardinality(Having(docs, t))]
        total == TotalLen(docs)
    IN  Report(docs, LAMBDA i : Bm25(terms, Counted(terms, docs[i]), DocLen(docs[i].tf),
                                     total, Len(docs), df))

\* selective_postings: of a term that at most a quarter of the documents have.
SelectivePostings(terms, docs) ==
    LET cutoff == IF Len(docs) < 4 THEN 1 ELSE Len(docs) \div 4
        rare == {t \in terms : Cardinality(Having(docs, t)) \in 1..cutoff}
    IN  [t \in rare |-> [i \in Having(docs, t) |-> docs[i].tf[t]]]

\* from_documents_with_initial_score: the corpus; its score is ScoreCorpus.
Prepared(terms, docs) ==
    [docs |-> docs, total |-> TotalLen(docs),
     postings |-> SelectivePostings(terms, docs)]

\* score_query_from_postings
ScoreFromPostings(terms, corpus) ==
    LET posts == corpus.postings
        df == [t \in terms |-> Cardinality(DOMAIN posts[t])]
        tf(i) == [t \in terms |-> IF i \in DOMAIN posts[t] THEN posts[t][i] ELSE 0]
    IN  Report(corpus.docs,
               LAMBDA i : Bm25(terms, tf(i), DocLen(corpus.docs[i].tf),
                               corpus.total, Len(corpus.docs), df))

\* score_query_by_scanning_tokens
ScoreByScanning(terms, corpus) ==
    LET df == [t \in terms |-> Cardinality(Having(corpus.docs, t))]
    IN  Report(corpus.docs,
               LAMBDA i : Bm25(terms, Counted(terms, corpus.docs[i]),
                               DocLen(corpus.docs[i].tf),
                               corpus.total, Len(corpus.docs), df))

\* score_query_with_stats
ScoreQuery(terms, corpus) ==
    IF terms \subseteq DOMAIN corpus.postings
    THEN ScoreFromPostings(terms, corpus) ELSE ScoreByScanning(terms, corpus)
=============================================================================
